--------------------------- MODULE ScanAdmission ---------------------------
(***************************************************************************)
(* What one scan admits to the archive.  The worker takes the prepared     *)
(* instances one after the other, parses their logs, reconstructs their    *)
(* sessions and stages a payload, unless a limit of the instance, of the   *)
(* scan or of the whole archive is exceeded or a log cannot be used.       *)
(* What is refused is marked, told as an issue, and left to a later scan.  *)
(*                                                                         *)
(* Data abstracted: a log is what its parsing yields; a session is a       *)
(* number within its instance; the number of its contexts (activity        *)
(* segments) depends on its id alone, since the id is a digest of them.    *)
(***************************************************************************)
EXTENDS Integers, Sequences, FiniteSets, FiniteSetsExt

CONSTANTS
    Plans,           \* sequences of prepared instances a scan may begin with
    Archives,        \* session ids the database may hold when it begins
    SessionsOf,      \* SessionsOf[i]: ids that instance i may yield
    Contexts,        \* Contexts[s]: contexts of session s
    Unwieldy,        \* sessions with too many or too long versions, destinations or links
    ParseResults,    \* what parsing a log may yield
    InstanceLimits, ScanLimits, ArchiveLimits,
    FailedParse,     \* what a failed parse is charged with
    MaxIssues,       \* MAX_SCAN_ISSUES
    MaxIndexIssues   \* bound: issues told before parsing begins

Kinds == {"parsed", "warned", "oversized", "changed", "limited", "unreadable"}
ASSUME LimitsAssumption ==
    /\ InstanceLimits \in [logs : Nat, bytes : Nat, events : Nat, sessions : Nat]
    /\ ScanLimits \in [logs : Nat, bytes : Nat, events : Nat, sessions : Nat, contexts : Nat]
    /\ ArchiveLimits \in [sessions : Nat, contexts : Nat]
    /\ FailedParse \in [bytes : Nat, events : Nat]
    /\ ParseResults \subseteq [kind : Kinds, bytes : Nat, events : Nat]
    /\ MaxIssues \in Nat \ {0} /\ MaxIndexIssues \in Nat

\* PreparedInstance.  A log is "changed" when its decision requires a parse.
Prepared == [logs : Seq({"changed", "unchanged"}), replace : BOOLEAN, reconstruct : BOOLEAN]
ASSUME PlansAssumption ==
    \A p \in Plans : p \in Seq(Prepared) /\ \A i \in DOMAIN p :
        /\ p[i].reconstruct => p[i].logs # <<>>
        /\ (\E f \in DOMAIN p[i].logs : p[i].logs[f] = "changed") => p[i].reconstruct

VARIABLES
    plan,        \* the prepared instances
    at, log,     \* instance and log to be taken next; log = 0 before it is opened
    marks,       \* parse_status of each staged source
    failed,      \* logs of the instance that could not be used
    instance,    \* InstanceParseBudget
    scan,        \* ScanParseBudget
    budget,      \* CanonicalArchiveBudget
    exhausted,   \* scan_exhaustion
    staged,      \* payloads staged
    archive,     \* ids of the sessions in the database
    messages,    \* scan_messages of the run, oldest first
    status,      \* issues and counters of the status in memory
    counters,    \* counters_json of the run
    outcome      \* "indexing", "parsing", or how the run ended

position == <<at, log>>
spent    == <<instance, scan, budget, exhausted>>
told     == <<messages, status>>
vars == <<plan, position, marks, failed, spent, staged, archive, told, counters, outcome>>

Ended == outcome \in {"completed", "cancelled", "failed"}
AllSessions == UNION {SessionsOf[i] : i \in DOMAIN SessionsOf}
ContextsOf(S) == MapThenSumSet(LAMBDA s : Contexts[s], S)
Of(i, S) == S \cap SessionsOf[i]

\* The id of a session is a digest, of its instance among other things.
ASSUME SessionsAssumption ==
    /\ IsFiniteSet(AllSessions) /\ \A s \in AllSessions : Contexts[s] \in Nat
    /\ \A i, k \in DOMAIN SessionsOf : i # k => SessionsOf[i] \cap SessionsOf[k] = {}
    /\ \A S \in Archives : S \subseteq AllSessions
    /\ \A p \in Plans : DOMAIN p \subseteq DOMAIN SessionsOf

-----------------------------------------------------------------------------
(***************************************************************************)
(* Issues.  The status in memory keeps the newest MaxIssues of them; the   *)
(* database keeps them all and restores a status from them.                *)
(***************************************************************************)
Codes == {"inventory_symlink_skipped", "log_fingerprint_failed", "log_parse_warning",
          "source_changed_during_parse", "log_resource_limit_exceeded", "log_read_failed",
          "instance_resource_limit_exceeded", "scan_resource_limit_exceeded",
          "instance_session_archive_limit_exceeded", "global_archive_resource_limit_exceeded",
          "scan_failed"}
\* about: the instance that the label of the issue names, itself or one of its
\* logs; 0 where none is at hand, before parsing and for the end of the scan.
Issue == [severity : {"warning", "error"}, code : Codes, about : Nat]
Fault(code, about) == [severity |-> "error", code |-> code, about |-> about]
Warning(code, about) == [severity |-> "warning", code |-> code, about |-> about]
Count(s, severity) == Cardinality({k \in DOMAIN s : s[k].severity = severity})
Newest(s, n) == SubSeq(s, IF Len(s) > n THEN Len(s) - n + 1 ELSE 1, Len(s))
Larger(x, y) == IF x >= y THEN x ELSE y

\* Mutant: the ring forgets one issue too early.
RecordIssueEvictingEarly(issue) ==
    /\ messages' = Append(messages, issue)
    /\ status' = [issues |-> Append(IF Len(status.issues) >= MaxIssues - 1
                                    THEN Tail(status.issues) ELSE status.issues, issue),
                  warnings |-> status.warnings + (IF issue.severity = "warning" THEN 1 ELSE 0),
                  errors |-> status.errors + (IF issue.severity = "error" THEN 1 ELSE 0)]

RecordIssue(issue) ==
    /\ messages' = Append(messages, issue)
    /\ status' = [issues |-> Append(IF Len(status.issues) = MaxIssues
                                    THEN Tail(status.issues) ELSE status.issues, issue),
                  warnings |-> status.warnings + (IF issue.severity = "warning" THEN 1 ELSE 0),
                  errors |-> status.errors + (IF issue.severity = "error" THEN 1 ELSE 0)]

Snapshot == [warnings |-> status.warnings, errors |-> status.errors]

\* ScanStatus::from_durable over latest_terminal_scan.
Restored ==
    LET newest == Newest(messages, MaxIssues)
        issues == IF outcome = "failed" /\ Count(newest, "error") = 0
                  THEN Newest(Append(newest, Fault("scan_failed", 0)), MaxIssues) ELSE newest
        Total(severity, counter) ==
            Larger(counter, Larger(Count(messages, severity), Count(issues, severity)))
    IN  [issues |-> issues,
         warnings |-> Total("warning", counters.warnings),
         errors |-> Total("error", counters.errors)]

-----------------------------------------------------------------------------
(***************************************************************************)
(* Budgets.                                                                *)
(***************************************************************************)

\* What a budget is after one more log, which it may not hold.
Charged(b, cost) == [b EXCEPT !.logs = @ + 1, !.bytes = @ + cost.bytes, !.events = @ + cost.events]
Holds(b, limits) ==
    b.logs <= limits.logs /\ b.bytes <= limits.bytes /\ b.events <= limits.events

\* ScanParseBudget::retain_reconstruction
ChargedSessions(b, ids) == [b EXCEPT !.sessions = @ + Cardinality(ids),
                                     !.contexts = @ + ContextsOf(ids)]
HoldsSessions(b) == b.sessions <= ScanLimits.sessions /\ b.contexts <= ScanLimits.contexts

\* CanonicalArchiveBudget::load
ArchiveBudget(S) ==
    IF Cardinality(S) > ArchiveLimits.sessions \/ ContextsOf(S) > ArchiveLimits.contexts
    THEN [ids |-> {}, contexts |-> ContextsOf(S),
          by |-> [i \in DOMAIN SessionsOf |-> 0], over |-> TRUE]
    ELSE [ids |-> S, contexts |-> ContextsOf(S),
          by |-> [i \in DOMAIN SessionsOf |-> ContextsOf(Of(i, S))], over |-> FALSE]

\* Sessions and contexts there would be after a payload of instance i.  What
\* an incremental payload may replace is not subtracted.
SessionsAfter(i, ids, replace) ==
    LET removed == IF replace THEN Of(i, budget.ids) ELSE {} IN (budget.ids \ removed) \cup ids
ContextsAfter(i, ids, replace) ==
    budget.contexts - (IF replace THEN budget.by[i] ELSE 0) + ContextsOf(ids)

\* CanonicalArchiveBudget::retain_payload, when it admits the payload ...
AdmitsPayload(i, ids, replace) ==
    /\ ~budget.over
    /\ Cardinality(SessionsAfter(i, ids, replace)) <= ArchiveLimits.sessions
    /\ ContextsAfter(i, ids, replace) <= ArchiveLimits.contexts

\* Mutant: ... the contexts of other instances are forgotten.
WithPayloadAlone(i, ids, replace) ==
    [budget EXCEPT !.ids = SessionsAfter(i, ids, replace),
                   !.by[i] = IF replace THEN ContextsOf(ids) ELSE @ + ContextsOf(ids)]

\* ... and what it is afterwards.
WithPayload(i, ids, replace) ==
    [budget EXCEPT !.ids = SessionsAfter(i, ids, replace),
                   !.contexts = ContextsAfter(i, ids, replace),
                   !.by[i] = IF replace THEN ContextsOf(ids) ELSE @ + ContextsOf(ids)]

\* instance_session_archive_within_limit: asked of the database.
WithinInstanceArchive(i, ids, replace) ==
    /\ Cardinality(ids) <= InstanceLimits.sessions
    /\ replace \/ Cardinality(Of(i, archive) \cup ids) <= InstanceLimits.sessions

-----------------------------------------------------------------------------
NoLogs == [logs |-> 0, bytes |-> 0, events |-> 0]

Init ==
    /\ plan \in Plans
    /\ archive \in Archives
    /\ at = 1 /\ log = 0
    /\ marks = [i \in DOMAIN plan |-> [f \in DOMAIN plan[i].logs |-> "pending"]]
    /\ failed = {}
    /\ instance = NoLogs
    /\ scan = [logs |-> 0, bytes |-> 0, events |-> 0, sessions |-> 0, contexts |-> 0]
    /\ budget = ArchiveBudget({})
    /\ exhausted = FALSE
    /\ staged = {}
    /\ messages = <<>>
    /\ status = [issues |-> <<>>, warnings |-> 0, errors |-> 0]
    /\ counters = [warnings |-> 0, errors |-> 0]
    /\ outcome = "indexing"

\* A location, an entry or a log that the inventory had to leave out.
IndexIssue ==
    /\ outcome = "indexing" /\ Len(messages) < MaxIndexIssues
    /\ \/ RecordIssue(Warning("inventory_symlink_skipped", 0))
       \/ RecordIssue(Fault("log_fingerprint_failed", 0))
    /\ UNCHANGED <<plan, position, marks, failed, spent, staged, archive, counters, outcome>>

BeginParsing ==
    /\ outcome = "indexing"
    /\ outcome' = "parsing"
    /\ counters' = Snapshot
    /\ budget' = ArchiveBudget(archive)
    /\ UNCHANGED <<plan, position, marks, failed, instance, scan, exhausted, staged, archive, told>>

Current == plan[at]
Taking  == outcome = "parsing" /\ at <= Len(plan)
Opened  == Taking /\ log # 0
NextInstance == at' = at + 1 /\ log' = 0 /\ failed' = {}

Changed(f) == Current.logs[f] = "changed"
\* Marks of the current instance once every log is marked as m says.
Mark(m) == marks' = [marks EXCEPT ![at] = m]
MarkSettled == [f \in DOMAIN Current.logs |->
                   IF ~Current.reconstruct \/ ~Changed(f) THEN "parsed" ELSE "pending"]
\* The logs that a later scan must take up again.
MarkDeferred(m) == [f \in DOMAIN Current.logs |-> IF Changed(f) THEN "failed" ELSE m[f]]

\* Nothing changed: nothing is parsed.
SkipInstance ==
    /\ Taking /\ log = 0 /\ ~Current.reconstruct
    /\ Mark(MarkSettled) /\ NextInstance
    /\ UNCHANGED <<plan, spent, staged, archive, told, counters, outcome>>

\* After the scan or the archive is exhausted every instance is deferred.
DeferInstance ==
    /\ Taking /\ log = 0 /\ Current.reconstruct /\ exhausted
    /\ Mark(MarkDeferred(MarkSettled)) /\ NextInstance
    /\ UNCHANGED <<plan, spent, staged, archive, told, counters, outcome>>

RefuseLogCount ==
    /\ Taking /\ log = 0 /\ Current.reconstruct /\ ~exhausted
    /\ Len(Current.logs) > InstanceLimits.logs
    /\ RecordIssue(Fault("instance_resource_limit_exceeded", at))
    /\ Mark(MarkDeferred(MarkSettled)) /\ NextInstance
    /\ UNCHANGED <<plan, spent, staged, archive, counters, outcome>>

OpenInstance ==
    /\ Taking /\ log = 0 /\ Current.reconstruct /\ ~exhausted
    /\ Len(Current.logs) <= InstanceLimits.logs
    /\ Mark(MarkSettled)
    /\ log' = 1 /\ instance' = NoLogs
    /\ UNCHANGED <<plan, at, failed, scan, budget, exhausted, staged, archive, told, counters, outcome>>

Parsing == Opened /\ log <= Len(Current.logs)
Usable(r) == r.kind \in {"parsed", "warned", "oversized"}
FailLogMark == Mark([marks[at] EXCEPT ![log] = "failed"]) /\ failed' = failed \cup {log}

\* The log would exceed the budget of the scan: this instance is given up.
RefuseByScan(r) ==
    /\ Parsing /\ Usable(r) /\ ~Holds(Charged(scan, r), ScanLimits)
    /\ exhausted' = TRUE
    /\ RecordIssue(Fault("scan_resource_limit_exceeded", at))
    /\ FailLogMark /\ log' = Len(Current.logs) + 1
    /\ UNCHANGED <<plan, at, instance, scan, budget, staged, archive, counters, outcome>>

Code == [changed |-> "source_changed_during_parse", limited |-> "log_resource_limit_exceeded",
         unreadable |-> "log_read_failed"]

\* The budget of the scan holds it, that of the instance does not.
RefuseByInstance(r) ==
    /\ Parsing /\ Usable(r) /\ Holds(Charged(scan, r), ScanLimits)
    /\ r.kind = "oversized" \/ ~Holds(Charged(instance, r), InstanceLimits)
    /\ scan' = Charged(scan, r)
    /\ RecordIssue(Fault("instance_resource_limit_exceeded", at))
    /\ FailLogMark /\ log' = Len(Current.logs) + 1
    /\ UNCHANGED <<plan, at, instance, budget, exhausted, staged, archive, counters, outcome>>

RetainLog(r) ==
    /\ Parsing /\ r.kind \in {"parsed", "warned"}
    /\ Holds(Charged(scan, r), ScanLimits) /\ Holds(Charged(instance, r), InstanceLimits)
    /\ scan' = Charged(scan, r) /\ instance' = Charged(instance, r)
    /\ IF r.kind = "warned"
       THEN RecordIssue(Warning("log_parse_warning", at))
       ELSE UNCHANGED told
    /\ Mark([marks[at] EXCEPT ![log] = IF r.kind = "warned" THEN "warning" ELSE "parsed"])
    /\ log' = log + 1
    /\ UNCHANGED <<plan, at, failed, budget, exhausted, staged, archive, counters, outcome>>

\* The log cannot be used; the others of the instance are parsed all the same.
FailLog(r) ==
    /\ Parsing /\ ~Usable(r)
    /\ RecordIssue(Fault(Code[r.kind], at))
    /\ FailLogMark
    /\ IF Holds(Charged(scan, FailedParse), ScanLimits)
       THEN scan' = Charged(scan, FailedParse) /\ UNCHANGED exhausted
       ELSE exhausted' = TRUE /\ UNCHANGED scan
    /\ log' = log + 1
    /\ UNCHANGED <<plan, at, instance, budget, staged, archive, counters, outcome>>

AllParsed == Opened /\ log > Len(Current.logs)

\* Mutant: what was parsed stays marked as parsed.
DeferFailedMarkingNone ==
    /\ AllParsed /\ failed # {}
    /\ NextInstance
    /\ UNCHANGED <<plan, marks, spent, staged, archive, told, counters, outcome>>

\* Sessions may span logs: one that failed holds all of them back.
DeferFailed ==
    /\ AllParsed /\ failed # {}
    /\ Mark(MarkDeferred(marks[at])) /\ NextInstance
    /\ UNCHANGED <<plan, spent, staged, archive, told, counters, outcome>>

\* The sessions reconstructed are refused; whole says that all instances are.
Refuse(code, whole) ==
    /\ RecordIssue(Fault(code, at))
    /\ Mark(MarkDeferred(marks[at])) /\ NextInstance
    /\ exhausted' = (exhausted \/ whole)
    /\ UNCHANGED <<plan, instance, budget, staged, archive, counters, outcome>>

Reconstructing(ids) == AllParsed /\ failed = {} /\ ids \subseteq SessionsOf[at]

\* validate_reconstruction
Sound(ids) == Cardinality(ids) <= InstanceLimits.sessions /\ ids \cap Unwieldy = {}

\* Mutant: sessions out of bounds end the scan, not the instance.
RefuseReconstructionOfAll(ids) ==
    /\ Reconstructing(ids) /\ ~Sound(ids)
    /\ Refuse("instance_resource_limit_exceeded", TRUE) /\ UNCHANGED scan

RefuseReconstruction(ids) ==
    /\ Reconstructing(ids) /\ ~Sound(ids)
    /\ Refuse("instance_resource_limit_exceeded", FALSE) /\ UNCHANGED scan

RefuseByScanSessions(ids) ==
    /\ Reconstructing(ids) /\ Sound(ids)
    /\ ~HoldsSessions(ChargedSessions(scan, ids))
    /\ Refuse("scan_resource_limit_exceeded", TRUE) /\ UNCHANGED scan

\* From here on the budget of the scan is charged, whatever becomes of it.
Counted(ids) ==
    /\ Reconstructing(ids) /\ Sound(ids)
    /\ HoldsSessions(ChargedSessions(scan, ids))
    /\ scan' = ChargedSessions(scan, ids)

RefuseByInstanceArchive(ids) ==
    /\ Counted(ids) /\ ~WithinInstanceArchive(at, ids, Current.replace)
    /\ Refuse("instance_session_archive_limit_exceeded", FALSE)

RefuseByArchive(ids) ==
    /\ Counted(ids) /\ WithinInstanceArchive(at, ids, Current.replace)
    /\ ~AdmitsPayload(at, ids, Current.replace)
    /\ Refuse("global_archive_resource_limit_exceeded", TRUE)

Stage(ids) ==
    /\ Counted(ids) /\ WithinInstanceArchive(at, ids, Current.replace)
    /\ AdmitsPayload(at, ids, Current.replace)
    /\ budget' = WithPayload(at, ids, Current.replace)
    /\ staged' = staged \cup {[instance |-> at, ids |-> ids, replace |-> Current.replace]}
    /\ NextInstance
    /\ UNCHANGED <<plan, marks, instance, exhausted, archive, told, counters, outcome>>

\* What the payloads make of the archive: a replacing one stands for all of
\* its instance, an incremental one may take the place of some sessions.
Replaceable(p) == IF p.replace THEN {Of(p.instance, archive)} ELSE SUBSET Of(p.instance, archive)

Promote ==
    /\ outcome = "parsing" /\ at > Len(plan)
    /\ \E gone \in [staged -> SUBSET archive] :
          /\ \A p \in staged : gone[p] \in Replaceable(p)
          /\ archive' = (archive \ UNION {gone[p] : p \in staged}) \cup UNION {p.ids : p \in staged}
    /\ counters' = Snapshot
    /\ outcome' = "completed"
    /\ UNCHANGED <<plan, position, marks, failed, spent, staged, told>>

\* persist_status_snapshot before a rollback: its own failure is dropped.
MayPersist(c) == counters' = c \/ UNCHANGED counters
Dropped == staged' = {} /\ UNCHANGED <<plan, position, marks, failed, spent, archive>>

Cancel ==
    /\ ~Ended
    /\ MayPersist(Snapshot) /\ outcome' = "cancelled" /\ Dropped /\ UNCHANGED told

\* The database fails the worker; the issue that says so may fail as well.
Fail ==
    /\ ~Ended
    /\ \/ RecordIssue(Fault("scan_failed", 0)) \/ UNCHANGED told
    /\ MayPersist([warnings |-> status'.warnings, errors |-> status'.errors])
    /\ outcome' = "failed" /\ Dropped

Next ==
    \/ IndexIssue \/ BeginParsing
    \/ SkipInstance \/ DeferInstance \/ RefuseLogCount \/ OpenInstance
    \/ \E r \in ParseResults : RefuseByScan(r) \/ RefuseByInstance(r) \/ RetainLog(r) \/ FailLog(r)
    \/ DeferFailed
    \/ \E ids \in SUBSET AllSessions :
          \/ RefuseReconstruction(ids) \/ RefuseByScanSessions(ids)
          \/ RefuseByInstanceArchive(ids) \/ RefuseByArchive(ids) \/ Stage(ids)
    \/ Promote \/ Cancel \/ Fail

Spec == Init /\ [][Next]_vars

-----------------------------------------------------------------------------
(***************************************************************************)
(* Properties.                                                             *)
(***************************************************************************)

Within(S) == Cardinality(S) <= ArchiveLimits.sessions /\ ContextsOf(S) <= ArchiveLimits.contexts

\* Every variable has its type, and no budget is ever charged past its limit.
TypeOK ==
    /\ plan \in Plans /\ at \in 1..(Len(plan) + 1) /\ log \in Nat
    /\ \A i \in DOMAIN plan : marks[i] \in [DOMAIN plan[i].logs -> {"pending", "parsed", "warning", "failed"}]
    /\ failed \subseteq Nat /\ exhausted \in BOOLEAN
    /\ Holds(instance, InstanceLimits) /\ Holds(scan, ScanLimits) /\ HoldsSessions(scan)
    /\ archive \subseteq AllSessions /\ budget.ids \subseteq AllSessions
    /\ messages \in Seq(Issue) /\ status.issues \in Seq(Issue)
    /\ outcome \in {"indexing", "parsing", "completed", "cancelled", "failed"}

\* Promotion never takes the archive over its limits, nor an instance over
\* its own, though each payload was admitted before any was promoted; an
\* archive that is over the limits already is left as it is.
ArchiveStaysWithinLimits ==
    [][archive' # archive =>
          /\ Within(archive) /\ Within(archive')
          /\ \A i \in DOMAIN plan : Cardinality(Of(i, archive')) <=
                Larger(InstanceLimits.sessions, Cardinality(Of(i, archive)))]_vars

Staged(i) == \E p \in staged : p.instance = i

\* A changed log counts as parsed exactly when the sessions of its instance
\* are promoted: whatever was refused or failed is taken up by a later scan.
RefusedLogsAreRetried ==
    outcome = "completed" =>
        \A i \in DOMAIN plan : \A f \in DOMAIN plan[i].logs :
            /\ marks[i][f] # "pending"
            /\ plan[i].logs[f] = "changed" => (marks[i][f] # "failed" <=> Staged(i))

\* What may hold back every instance after the one it is told of: a limit of
\* the scan or of the archive, and a log whose failed parse was charged to the
\* scan beyond its limit, which no issue of its own tells.
Common == {"scan_resource_limit_exceeded", "global_archive_resource_limit_exceeded",
           "source_changed_during_parse", "log_resource_limit_exceeded", "log_read_failed"}

ToldAbout(i) == \E k \in DOMAIN messages : messages[k].severity = "error" /\ messages[k].about = i
ToldOfAll(i) ==
    \E k \in DOMAIN messages :
        /\ messages[k].severity = "error" /\ messages[k].code \in Common
        /\ messages[k].about \in 1..(i - 1)
        /\ \A j \in messages[k].about..Len(plan) : ~Staged(j)

\* A limit of one instance holds back that instance alone, a limit of the scan
\* or of the archive everything from there on, and neither does so in silence:
\* an instance that was to be reconstructed and is not staged has an issue of
\* its own, or one before it says what ended the scan for all that follow; and
\* "its previous sessions were preserved" is never said of one that is staged.
WhatIsLeftOutIsTold ==
    outcome \in {"parsing", "completed"} =>
        \A i \in 1..(at - 1) :
            /\ ToldAbout(i) => ~Staged(i)
            /\ plan[i].reconstruct /\ ~Staged(i) => ToldAbout(i) \/ ToldOfAll(i)

\* A status restored after a restart tells the issues and the counts that the
\* status in memory told: the ring, the messages and the counters agree,
\* though the last writes of a failing run may be lost.
RestoredIssuesAgree ==
    Ended => \/ Restored = status
             \/ /\ outcome = "failed" /\ Count(Newest(messages, MaxIssues), "error") = 0
                /\ Restored.warnings = status.warnings
                /\ Restored.issues = Newest(Append(status.issues, Fault("scan_failed", 0)), MaxIssues)
=============================================================================
