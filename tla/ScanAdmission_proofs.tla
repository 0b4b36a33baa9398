------------------------ MODULE ScanAdmission_proofs ------------------------
(***************************************************************************)
(* What one scan stages, refuses and promotes, for any plan, limits and    *)
(* outcomes of parsing: a log counts as parsed exactly when its sessions   *)
(* are promoted, what is left out is told, limits are kept, and a restart  *)
(* tells what was told.                                                    *)
(*                                                                         *)
(* Marks are set at many places: when an instance is opened, log by log,   *)
(* and when something makes the worker give the instance up. The invariant *)
(* says of the instances taken that they are settled, and of the one being *)
(* taken that a mark which would be wrong if its payload were staged       *)
(* implies that some log has failed, so that it will not be staged. The    *)
(* issues, the blame and the budget have invariants of their own, in       *)
(* sections of their own.                                                  *)
(***************************************************************************)
EXTENDS ScanAdmission, DataInduction, SequenceTheorems

PlanStands ==
    /\ plan \in Seq(Prepared)
    /\ \A i \in DOMAIN plan : \A f \in DOMAIN plan[i].logs :
          plan[i].logs[f] = "changed" => plan[i].reconstruct
    /\ at \in 1..(Len(plan) + 1) /\ log \in Nat
    /\ DOMAIN marks = DOMAIN plan
    /\ \A i \in DOMAIN plan : DOMAIN marks[i] = DOMAIN plan[i].logs

Settled(i) ==
    \A f \in DOMAIN plan[i].logs :
        /\ marks[i][f] # "pending"
        /\ plan[i].logs[f] = "changed" => (marks[i][f] # "failed" <=> Staged(i))

OpenStands ==
    \A f \in DOMAIN plan[at].logs :
        /\ marks[at][f] = "pending" => plan[at].logs[f] = "changed" /\ (f >= log \/ failed # {})
        /\ marks[at][f] = "failed" => failed # {}

Live == outcome \in {"indexing", "parsing", "completed"}
MarksStand ==
    /\ Live => /\ \A i \in DOMAIN plan : i < at => Settled(i)
               /\ \A p \in staged : p.instance \in Nat /\ p.instance < at
               /\ log # 0 /\ at <= Len(plan) => OpenStands
    /\ outcome = "completed" => at > Len(plan)

IInv == PlanStands /\ MarksStand

-----------------------------------------------------------------------------
\* Steps that mark, stage and take nothing.
LEMMA KeepsMarks ==
    ASSUME IInv, UNCHANGED <<plan, at, log, marks, failed, staged>>,
           Live' => Live, outcome' = "completed" => at > Len(plan)
    PROVE  IInv'
<1>1. PlanStands'
  BY DEF IInv, PlanStands
<1>2. \A i : Settled(i)' <=> Settled(i)
  BY DEF Settled, Staged
<1>3. OpenStands' <=> OpenStands
  BY DEF OpenStands
<1>4. MarksStand'
  BY <1>2, <1>3 DEF IInv, MarksStand
<1> QED BY <1>1, <1>4 DEF IInv

\* Marking the logs of the instance at hand leaves the others settled.
LEMMA MarksOne ==
    ASSUME IInv, outcome = "parsing", at <= Len(plan), NEW m,
           DOMAIN m = DOMAIN plan[at].logs, marks' = [marks EXCEPT ![at] = m],
           UNCHANGED <<plan, outcome>>, at' \in {at, at + 1}, log' \in Nat,
           \A i \in DOMAIN plan : i < at => (Staged(i)' <=> Staged(i))
    PROVE  /\ PlanStands' /\ marks'[at] = m /\ at \in DOMAIN plan
           /\ \A i \in DOMAIN plan : i < at => Settled(i)'
<1>1. plan \in Seq(Prepared) /\ at \in Nat \ {0} /\ Len(plan) \in Nat /\ DOMAIN plan = 1..Len(plan)
  <2>1. plan \in Seq(Prepared) /\ at \in 1..(Len(plan) + 1)
    BY DEF IInv, PlanStands
  <2>2. Len(plan) \in Nat /\ DOMAIN plan = 1..Len(plan)
    BY <2>1
  <2> QED BY <2>1, <2>2
<1>2. at \in DOMAIN plan /\ at' \in 1..(Len(plan) + 1)
  BY <1>1
<1>3. marks'[at] = m /\ DOMAIN marks' = DOMAIN plan /\ \A i \in DOMAIN plan : i # at => marks'[i] = marks[i]
  BY <1>2 DEF IInv, PlanStands
<1>4. PlanStands'
  <2>1. \A i \in DOMAIN plan : DOMAIN marks'[i] = DOMAIN plan[i].logs
    BY <1>3 DEF IInv, PlanStands
  <2> QED BY <1>2, <1>3, <2>1 DEF IInv, PlanStands
<1>5. ASSUME NEW i \in DOMAIN plan, i < at
      PROVE  Settled(i)'
  <2>1. Settled(i) /\ marks'[i] = marks[i]
    BY <1>1, <1>3, <1>5 DEF IInv, MarksStand, Live
  <2> QED BY <1>5, <2>1 DEF Settled
<1> QED BY <1>2, <1>3, <1>4, <1>5

\* An instance that is given up, or that has nothing to parse.
LEMMA GivesUp ==
    ASSUME IInv, outcome = "parsing", at <= Len(plan), NEW m,
           DOMAIN m = DOMAIN plan[at].logs, Mark(m), NextInstance,
           UNCHANGED <<plan, outcome, staged>>,
           \A f \in DOMAIN plan[at].logs :
               m[f] # "pending" /\ (plan[at].logs[f] = "changed" => m[f] = "failed")
    PROVE  IInv'
<1>1. marks' = [marks EXCEPT ![at] = m] /\ at' = at + 1 /\ log' = 0
  BY DEF Mark, NextInstance
<1>2. \A i : Staged(i)' <=> Staged(i)
  BY DEF Staged
<1>3. /\ PlanStands' /\ marks'[at] = m /\ at \in DOMAIN plan
      /\ \A i \in DOMAIN plan : i < at => Settled(i)'
  BY <1>1, <1>2, MarksOne
<1>4. at \in Nat /\ \A i \in DOMAIN plan : i \in Nat
  BY DEF IInv, PlanStands
<1>5. \A p \in staged : p.instance \in Nat /\ p.instance < at
  BY DEF IInv, MarksStand, Live
<1>6. PICK k : k = at
  OBVIOUS
<1>7. Settled(k)'
  <2>1. ~Staged(k)'
    BY <1>2, <1>4, <1>5, <1>6 DEF Staged
  <2>2. \A f \in DOMAIN plan'[k].logs :
           marks'[k][f] # "pending" /\ (plan'[k].logs[f] = "changed" => marks'[k][f] = "failed")
    BY <1>3, <1>6
  <2> QED BY <2>1, <2>2 DEF Settled
<1>8. \A p \in staged' : p.instance \in Nat /\ p.instance < at'
  BY <1>1, <1>4, <1>5
<1>9. \A i \in DOMAIN plan' : i < at' => Settled(i)'
  BY <1>1, <1>3, <1>4, <1>6, <1>7
<1> QED BY <1>1, <1>3, <1>8, <1>9 DEF IInv, MarksStand

\* An instance that is opened, or one more of its logs.
LEMMA GoesOn ==
    ASSUME IInv, outcome = "parsing", at <= Len(plan), NEW m,
           DOMAIN m = DOMAIN plan[at].logs, Mark(m), at' = at, log' \in Nat,
           UNCHANGED <<plan, outcome, staged>>,
           \A f \in DOMAIN plan[at].logs :
               /\ m[f] = "pending" => plan[at].logs[f] = "changed" /\ (f >= log' \/ failed' # {})
               /\ m[f] = "failed" => failed' # {}
    PROVE  IInv'
<1>1. marks' = [marks EXCEPT ![at] = m]
  BY DEF Mark
<1>2. \A i : Staged(i)' <=> Staged(i)
  BY DEF Staged
<1>3. /\ PlanStands' /\ marks'[at] = m /\ at \in DOMAIN plan
      /\ \A i \in DOMAIN plan : i < at => Settled(i)'
  BY <1>1, <1>2, MarksOne
<1>4. OpenStands'
  BY <1>3 DEF OpenStands
<1>5. \A p \in staged' : p.instance \in Nat /\ p.instance < at'
  BY DEF IInv, MarksStand, Live
<1> QED BY <1>3, <1>4, <1>5 DEF IInv, MarksStand

\* What marks say of the instance at hand while its logs are taken.
LEMMA CurrentStands ==
    ASSUME IInv, outcome = "parsing", at <= Len(plan)
    PROVE  /\ at \in DOMAIN plan /\ at \in DOMAIN marks
           /\ DOMAIN marks[at] = DOMAIN plan[at].logs
           /\ Len(plan[at].logs) \in Nat /\ DOMAIN plan[at].logs = 1..Len(plan[at].logs)
           /\ \A f \in DOMAIN plan[at].logs : plan[at].logs[f] = "changed" => plan[at].reconstruct
           /\ log # 0 => OpenStands
<1>1. plan \in Seq(Prepared) /\ at \in 1..(Len(plan) + 1) /\ DOMAIN marks = DOMAIN plan
  BY DEF IInv, PlanStands
<1>2. at \in DOMAIN plan /\ plan[at] \in Prepared
  BY <1>1
<1>3. plan[at].logs \in Seq({"changed", "unchanged"})
  BY <1>2 DEF Prepared
<1> QED BY <1>1, <1>2, <1>3 DEF IInv, PlanStands, MarksStand, Live

\* An instance that is given up when some log has failed or its sessions are
\* refused: every log that must be parsed again is deferred.
LEMMA DefersInstance ==
    ASSUME IInv, outcome = "parsing", at <= Len(plan), log # 0,
           log > Len(plan[at].logs),
           Mark(MarkDeferred(marks[at])), NextInstance, UNCHANGED <<plan, outcome, staged>>
    PROVE  IInv'
<1> DEFINE m == MarkDeferred(marks[at])
<1>1. DOMAIN m = DOMAIN plan[at].logs
  BY DEF MarkDeferred, Current
<1>2. ASSUME NEW f \in DOMAIN plan[at].logs
      PROVE  m[f] # "pending" /\ (plan[at].logs[f] = "changed" => m[f] = "failed")
  <2>1. marks[at][f] = "pending" => plan[at].logs[f] = "changed"
    BY CurrentStands DEF OpenStands
  <2> QED BY <2>1 DEF MarkDeferred, Current, Changed
<1> HIDE DEF m
<1> QED BY <1>1, <1>2, GivesUp DEF m

-----------------------------------------------------------------------------
LEMMA InitHolds == Init => IInv
<1> SUFFICES ASSUME Init
             PROVE  IInv
  OBVIOUS
<1>1. /\ plan \in Seq(Prepared) /\ at = 1 /\ log = 0 /\ outcome = "indexing" /\ staged = {}
      /\ \A i \in DOMAIN plan : (\E f \in DOMAIN plan[i].logs : plan[i].logs[f] = "changed")
                                  => plan[i].reconstruct
      /\ marks = [i \in DOMAIN plan |-> [f \in DOMAIN plan[i].logs |-> "pending"]]
  BY PlansAssumption DEF Init
<1>2. Len(plan) \in Nat /\ DOMAIN plan = 1..Len(plan)
  BY <1>1
<1>3. PlanStands
  BY <1>1, <1>2 DEF PlanStands
<1>4. MarksStand
  BY <1>1, <1>2 DEF MarksStand
<1> QED BY <1>3, <1>4 DEF IInv

\* Steps at the head of an instance.
LEMMA HeadStep ==
    ASSUME IInv, SkipInstance \/ DeferInstance \/ RefuseLogCount \/ OpenInstance
    PROVE  IInv'
<1>1. outcome = "parsing" /\ at <= Len(plan)
  BY DEF SkipInstance, DeferInstance, RefuseLogCount, OpenInstance, Taking
<1>2. UNCHANGED <<plan, outcome, staged>>
  BY DEF SkipInstance, DeferInstance, RefuseLogCount, OpenInstance
<1>3. DOMAIN MarkSettled = DOMAIN plan[at].logs /\ \A f \in DOMAIN plan[at].logs :
         MarkSettled[f] = IF ~plan[at].reconstruct \/ plan[at].logs[f] # "changed" THEN "parsed" ELSE "pending"
  BY DEF MarkSettled, Current, Changed
<1>4. CASE SkipInstance
  <2>1. ~plan[at].reconstruct /\ Mark(MarkSettled) /\ NextInstance
    BY <1>4 DEF SkipInstance, Current
  <2>2. \A f \in DOMAIN plan[at].logs :
           MarkSettled[f] # "pending" /\ (plan[at].logs[f] = "changed" => MarkSettled[f] = "failed")
    BY <1>1, <1>3, <2>1, CurrentStands
  <2> QED BY <1>1, <1>2, <1>3, <2>1, <2>2, GivesUp
<1>5. CASE DeferInstance \/ RefuseLogCount
  <2> DEFINE m == MarkDeferred(MarkSettled)
  <2>1. Mark(m) /\ NextInstance
    BY <1>5 DEF DeferInstance, RefuseLogCount
  <2>2. DOMAIN m = DOMAIN plan[at].logs
    BY DEF MarkDeferred, Current
  <2>3. \A f \in DOMAIN plan[at].logs :
           m[f] # "pending" /\ (plan[at].logs[f] = "changed" => m[f] = "failed")
    BY <1>3 DEF MarkDeferred, Current, Changed
  <2> HIDE DEF m
  <2> QED BY <1>1, <1>2, <2>1, <2>2, <2>3, GivesUp
<1>6. CASE OpenInstance
  <2>1. Mark(MarkSettled) /\ at' = at /\ log' = 1
    BY <1>6 DEF OpenInstance
  <2>2. \A f \in DOMAIN plan[at].logs :
           /\ MarkSettled[f] = "pending" => plan[at].logs[f] = "changed" /\ f >= log'
           /\ MarkSettled[f] # "failed"
    BY <1>1, <1>3, <2>1, CurrentStands
  <2>3. log' \in Nat
    BY <2>1
  <2> QED BY <1>1, <1>2, <1>3, <2>1, <2>2, <2>3, GoesOn
<1> QED BY <1>4, <1>5, <1>6

\* Steps that take a log.
LEMMA LogStep ==
    ASSUME IInv, NEW r, RefuseByScan(r) \/ RefuseByInstance(r) \/ RetainLog(r) \/ FailLog(r)
    PROVE  IInv'
<1>1. /\ outcome = "parsing" /\ at <= Len(plan) /\ log # 0 /\ log <= Len(plan[at].logs)
      /\ at' = at
  BY DEF RefuseByScan, RefuseByInstance, RetainLog, FailLog, Parsing, Opened, Taking, Current
<1>2. UNCHANGED <<plan, outcome, staged>>
  BY DEF RefuseByScan, RefuseByInstance, RetainLog, FailLog
<1>3. log \in DOMAIN plan[at].logs /\ DOMAIN marks[at] = DOMAIN plan[at].logs /\ OpenStands
  BY <1>1, CurrentStands DEF IInv, PlanStands
<1>4. \A f \in DOMAIN plan[at].logs : f \in Nat
  BY <1>1, CurrentStands
<1>5. log' \in Nat
  BY <1>1, CurrentStands DEF RefuseByScan, RefuseByInstance, RetainLog, FailLog, Current, IInv, PlanStands
<1>6. CASE RetainLog(r)
  <2>1. PICK v \in {"warning", "parsed"} : Mark([marks[at] EXCEPT ![log] = v])
    BY <1>6 DEF RetainLog
  <2> DEFINE m == [marks[at] EXCEPT ![log] = v]
  <2>2. log' = log + 1 /\ failed' = failed
    BY <1>6 DEF RetainLog
  <2>3. DOMAIN m = DOMAIN plan[at].logs /\ m[log] = v
        /\ \A f \in DOMAIN plan[at].logs : f # log => m[f] = marks[at][f]
    BY <1>3
  <2>4. log \in Nat
    BY DEF IInv, PlanStands
  <2> HIDE DEF m
  <2>5. \A f \in DOMAIN plan[at].logs :
           /\ m[f] = "pending" => plan[at].logs[f] = "changed" /\ (f >= log' \/ failed' # {})
           /\ m[f] = "failed" => failed' # {}
    BY <1>3, <1>4, <2>2, <2>3, <2>4 DEF OpenStands
  <2>6. Mark(m)
    BY <2>1 DEF m
  <2> QED BY <1>1, <1>2, <1>5, <2>3, <2>5, <2>6, GoesOn
<1>7. CASE RefuseByScan(r) \/ RefuseByInstance(r) \/ FailLog(r)
  <2> DEFINE m == [marks[at] EXCEPT ![log] = "failed"]
  <2>1. Mark(m) /\ failed' = failed \cup {log}
    BY <1>7 DEF RefuseByScan, RefuseByInstance, FailLog, FailLogMark
  <2>2. DOMAIN m = DOMAIN plan[at].logs /\ m[log] = "failed"
        /\ \A f \in DOMAIN plan[at].logs : f # log => m[f] = marks[at][f]
    BY <1>3
  <2> HIDE DEF m
  <2>3. \A f \in DOMAIN plan[at].logs :
           /\ m[f] = "pending" => plan[at].logs[f] = "changed" /\ (f >= log' \/ failed' # {})
           /\ m[f] = "failed" => failed' # {}
    BY <1>3, <2>1, <2>2 DEF OpenStands
  <2> QED BY <1>1, <1>2, <1>5, <2>1, <2>2, <2>3, GoesOn
<1> QED BY <1>6, <1>7

\* Steps after the logs of an instance that stage nothing.
LEMMA RefusalStep ==
    ASSUME IInv, NEW ids,
           \/ DeferFailed \/ RefuseReconstruction(ids) \/ RefuseByScanSessions(ids)
           \/ RefuseByInstanceArchive(ids) \/ RefuseByArchive(ids)
    PROVE  IInv'
<1>1. outcome = "parsing" /\ at <= Len(plan) /\ log # 0 /\ log > Len(plan[at].logs)
  BY DEF DeferFailed, RefuseReconstruction, RefuseByScanSessions, RefuseByInstanceArchive,
     RefuseByArchive, Counted, Reconstructing, AllParsed, Opened, Taking, Current
<1>2. Mark(MarkDeferred(marks[at])) /\ NextInstance /\ UNCHANGED <<plan, outcome, staged>>
  BY DEF DeferFailed, RefuseReconstruction, RefuseByScanSessions, RefuseByInstanceArchive,
     RefuseByArchive, Refuse
<1> QED BY <1>1, <1>2, DefersInstance

\* A payload is staged: no log of the instance has failed or is left pending.
LEMMA StageStep ==
    ASSUME IInv, NEW ids, Stage(ids)
    PROVE  IInv'
<1>1. /\ outcome = "parsing" /\ at <= Len(plan) /\ log # 0 /\ log > Len(plan[at].logs) /\ failed = {}
      /\ at' = at + 1 /\ log' = 0 /\ UNCHANGED <<plan, outcome, marks>>
      /\ staged' = staged \cup {[instance |-> at, ids |-> ids, replace |-> plan[at].replace]}
  BY DEF Stage, Counted, Reconstructing, AllParsed, Opened, Taking, NextInstance, Current
<1>2. /\ at \in DOMAIN plan /\ OpenStands /\ Len(plan[at].logs) \in Nat
      /\ DOMAIN plan[at].logs = 1..Len(plan[at].logs)
  BY <1>1, CurrentStands
<1>3. plan \in Seq(Prepared) /\ at \in Nat /\ log \in Nat /\ Len(plan) \in Nat /\ DOMAIN plan = 1..Len(plan)
  BY DEF IInv, PlanStands
<1>4. PlanStands'
  <2>1. at' \in 1..(Len(plan) + 1) /\ log' \in Nat
    BY <1>1, <1>3
  <2> QED BY <1>1, <2>1 DEF IInv, PlanStands
<1>5. PICK k : k = at
  OBVIOUS
<1>6. Settled(k)'
  <2>1. \A f \in DOMAIN plan[k].logs : marks[k][f] # "pending" /\ marks[k][f] # "failed"
    <3> SUFFICES ASSUME NEW f \in DOMAIN plan[at].logs
                 PROVE  marks[at][f] # "pending" /\ marks[at][f] # "failed"
      BY <1>5
    <3>1. f \in Nat /\ ~(f >= log)
      BY <1>1, <1>2, <1>3
    <3> QED BY <1>1, <1>2, <3>1 DEF OpenStands
  <2>2. Staged(k)'
    <3> DEFINE e == [instance |-> at, ids |-> ids, replace |-> plan[at].replace]
    <3>1. e.instance = k
      BY <1>5
    <3>2. e \in staged'
      BY <1>1
    <3> HIDE DEF e
    <3> QED BY <3>1, <3>2 DEF Staged
  <2> QED BY <1>1, <2>1, <2>2 DEF Settled
<1>7. ASSUME NEW i \in DOMAIN plan, i < at
      PROVE  Settled(i)'
  <2>1. Staged(i)' <=> Staged(i)
    BY <1>1, <1>3, <1>7 DEF Staged
  <2>2. Settled(i)
    BY <1>1, <1>7 DEF IInv, MarksStand, Live
  <2> QED BY <1>1, <2>1, <2>2 DEF Settled
<1>8. \A p \in staged' : p.instance \in Nat /\ p.instance < at'
  <2>1. \A p \in staged : p.instance \in Nat /\ p.instance < at
    BY <1>1 DEF IInv, MarksStand, Live
  <2> QED BY <1>1, <1>3, <2>1
<1>9. \A i \in DOMAIN plan' : i < at' => Settled(i)'
  BY <1>1, <1>3, <1>5, <1>6, <1>7
<1> QED BY <1>1, <1>4, <1>8, <1>9 DEF IInv, MarksStand

\* Every step keeps the invariant.
LEMMA NextHolds == IInv /\ [Next]_vars => IInv'
<1> SUFFICES ASSUME IInv, [Next]_vars
             PROVE  IInv'
  OBVIOUS
<1>1. CASE IndexIssue \/ BeginParsing \/ Promote
  <2>1. UNCHANGED <<plan, at, log, marks, failed, staged>>
    BY <1>1 DEF IndexIssue, BeginParsing, Promote, position, spent
  <2>2. Live /\ (outcome' = "completed" => at > Len(plan))
    BY <1>1 DEF IndexIssue, BeginParsing, Promote, Live
  <2> QED BY <2>1, <2>2, KeepsMarks
<1>2. CASE Cancel \/ Fail
  <2>1. UNCHANGED <<plan, at, log, marks>> /\ outcome' \in {"cancelled", "failed"}
    BY <1>2 DEF Cancel, Fail, Dropped, position
  <2>2. PlanStands'
    BY <2>1 DEF IInv, PlanStands
  <2>3. MarksStand'
    BY <2>1 DEF MarksStand, Live
  <2> QED BY <2>2, <2>3 DEF IInv
<1>3. CASE UNCHANGED vars
  <2>1. UNCHANGED <<plan, at, log, marks, failed, staged, outcome>>
    BY <1>3 DEF vars, position
  <2>2. (Live' => Live) /\ (outcome' = "completed" => at > Len(plan))
    BY <2>1 DEF Live, IInv, MarksStand
  <2> QED BY <2>1, <2>2, KeepsMarks
<1> QED
  BY <1>1, <1>2, <1>3, HeadStep, LogStep, RefusalStep, StageStep DEF Next

-----------------------------------------------------------------------------
\* Of the instances taken every log is marked, and a changed one as failed
\* unless the payload of its instance is staged; of the instance being taken
\* no mark is wrong unless a log has failed.
THEOREM InvariantHolds == Spec => []IInv
BY InitHolds, NextHolds, PTL DEF Spec

\* A changed log counts as parsed exactly when the sessions of its instance
\* are promoted, whichever limit refuses it, whatever becomes of the logs
\* beside it and wherever among them the refusal comes: the next scan takes up
\* every log this one has not turned into sessions, and no other.
THEOREM RefusedAreRetried == Spec => []RefusedLogsAreRetried
<1>1. IInv => RefusedLogsAreRetried
  <2> SUFFICES ASSUME IInv, outcome = "completed", NEW i \in DOMAIN plan
               PROVE  Settled(i)
    BY DEF RefusedLogsAreRetried, Settled
  <2>1. plan \in Seq(Prepared) /\ at \in 1..(Len(plan) + 1) /\ at > Len(plan)
    BY DEF IInv, PlanStands, MarksStand
  <2>2. i < at
    BY <2>1
  <2> QED BY <2>2 DEF IInv, MarksStand, Live
<1> QED BY <1>1, InvariantHolds, PTL

-----------------------------------------------------------------------------
(***************************************************************************)
(* Issues.  The status holds the newest messages and counts them all; what *)
(* the database holds of the counts is what the status held once.          *)
(***************************************************************************)
IssuesStand ==
    /\ messages \in Seq(Issue)
    /\ status = [issues |-> Newest(messages, MaxIssues),
                 warnings |-> Count(messages, "warning"), errors |-> Count(messages, "error")]
    /\ counters.warnings \in 0..status.warnings /\ counters.errors \in 0..status.errors

LEMMA NewestShape ==
    ASSUME NEW s \in Seq(Issue), NEW n \in Nat \ {0}
    PROVE  /\ Newest(s, n) \in Seq(Issue) /\ Len(s) \in Nat
           /\ Len(Newest(s, n)) = IF Len(s) > n THEN n ELSE Len(s)
           /\ \A k \in 1..Len(Newest(s, n)) : Newest(s, n)[k] = s[k + Len(s) - Len(Newest(s, n))]
<1> DEFINE a == IF Len(s) > n THEN Len(s) - n + 1 ELSE 1
<1>1. Len(s) \in Nat /\ a \in 1..(Len(s) + 1) /\ \A k \in a..Len(s) : s[k] \in Issue
  OBVIOUS
<1>2. Newest(s, n) = SubSeq(s, a, Len(s))
  BY DEF Newest
<1>3. a = IF Len(s) > n THEN Len(s) - n + 1 ELSE 1
  OBVIOUS
<1> HIDE DEF a
<1>4. /\ SubSeq(s, a, Len(s)) \in Seq(Issue)
      /\ Len(SubSeq(s, a, Len(s))) = IF a <= Len(s) THEN Len(s) - a + 1 ELSE 0
      /\ \A k \in 1..(Len(s) - a + 1) : SubSeq(s, a, Len(s))[k] = s[a + k - 1]
  BY <1>1, SubSeqProperties
<1>5. Len(Newest(s, n)) = Len(s) - a + 1 /\ Len(s) - a + 1 = IF Len(s) > n THEN n ELSE Len(s)
  <2>1. Len(s) - a + 1 = IF Len(s) > n THEN n ELSE Len(s)
    BY <1>1, <1>3
  <2>2. (IF a <= Len(s) THEN Len(s) - a + 1 ELSE 0) = Len(s) - a + 1
    BY <1>1
  <2>3. Len(Newest(s, n)) = IF a <= Len(s) THEN Len(s) - a + 1 ELSE 0
    BY <1>2, <1>4, Zenon
  <2> QED BY <2>1, <2>2, <2>3
<1>6. ASSUME NEW k \in 1..Len(Newest(s, n))
      PROVE  Newest(s, n)[k] = s[k + Len(s) - Len(Newest(s, n))]
  <2>1. a + k - 1 = k + Len(s) - Len(Newest(s, n)) /\ k \in 1..(Len(s) - a + 1)
    BY <1>1, <1>5
  <2> QED BY <1>2, <1>4, <2>1
<1> QED BY <1>1, <1>2, <1>4, <1>5, <1>6

\* The ring that drops its oldest issue when it is full keeps the newest.
LEMMA RingKeepsNewest ==
    ASSUME NEW s \in Seq(Issue), NEW n \in Nat \ {0}, NEW x \in Issue
    PROVE  Newest(Append(s, x), n) =
             Append(IF Len(Newest(s, n)) = n THEN Tail(Newest(s, n)) ELSE Newest(s, n), x)
<1> DEFINE old == Newest(s, n)
           kept == IF Len(old) = n THEN Tail(old) ELSE old
<1>1. /\ old \in Seq(Issue) /\ Len(s) \in Nat /\ Len(old) = IF Len(s) > n THEN n ELSE Len(s)
      /\ \A k \in 1..Len(old) : old[k] = s[k + Len(s) - Len(old)]
  BY NewestShape
<1>2. /\ Append(s, x) \in Seq(Issue) /\ Len(Append(s, x)) = Len(s) + 1
      /\ \A k \in 1..Len(s) : Append(s, x)[k] = s[k]
      /\ Append(s, x)[Len(s) + 1] = x
  BY AppendProperties
<1> DEFINE new == Newest(Append(s, x), n)
<1>3. /\ new \in Seq(Issue) /\ Len(new) = IF Len(s) + 1 > n THEN n ELSE Len(s) + 1
      /\ \A k \in 1..Len(new) : new[k] = Append(s, x)[k + Len(s) + 1 - Len(new)]
  <2>1. /\ new \in Seq(Issue)
        /\ Len(new) = IF Len(Append(s, x)) > n THEN n ELSE Len(Append(s, x))
        /\ \A k \in 1..Len(new) : new[k] = Append(s, x)[k + Len(Append(s, x)) - Len(new)]
    BY <1>2, NewestShape
  <2> HIDE DEF new
  <2>2. ASSUME NEW k \in 1..Len(new)
        PROVE  new[k] = Append(s, x)[k + Len(s) + 1 - Len(new)]
    <3>1. k + Len(Append(s, x)) - Len(new) = k + Len(s) + 1 - Len(new)
      BY <1>2
    <3> QED BY <2>1, <3>1
  <2> QED BY <1>2, <2>1, <2>2
<1> HIDE DEF old, new
<1>4. /\ kept \in Seq(Issue) /\ Len(kept) = IF Len(old) = n THEN n - 1 ELSE Len(old)
      /\ \A k \in 1..Len(kept) : kept[k] = s[k + Len(s) - Len(kept)]
  <2>1. CASE Len(old) = n
    <3>1. old # <<>>
      BY <1>1, <2>1
    <3>2. /\ Tail(old) \in Seq(Issue) /\ Len(Tail(old)) = Len(old) - 1
          /\ \A k \in 1..Len(Tail(old)) : Tail(old)[k] = old[k + 1]
      BY <1>1, <3>1, HeadTailProperties
    <3>3. ASSUME NEW k \in 1..Len(kept)
          PROVE  kept[k] = s[k + Len(s) - Len(kept)]
      <4>1. kept[k] = old[k + 1] /\ k + 1 \in 1..Len(old)
        BY <1>1, <2>1, <3>2, <3>3
      <4>2. old[k + 1] = s[k + 1 + Len(s) - Len(old)]
        BY <1>1, <4>1
      <4>3. k + 1 + Len(s) - Len(old) = k + Len(s) - Len(kept)
        <5>1. Len(kept) = Len(old) - 1 /\ Len(old) \in Nat
          BY <1>1, <2>1, <3>2
        <5>2. k \in Int
          BY <5>1
        <5> HIDE DEF kept
        <5> QED BY <1>1, <5>1, <5>2
      <4> QED BY <4>1, <4>2, <4>3
    <3> QED BY <2>1, <3>2, <3>3
  <2>2. CASE Len(old) # n
    BY <1>1, <2>2
  <2> QED BY <2>1, <2>2
<1> HIDE DEF kept
<1>5. /\ Append(kept, x) \in Seq(Issue) /\ Len(Append(kept, x)) = Len(kept) + 1
      /\ \A k \in 1..Len(kept) : Append(kept, x)[k] = kept[k]
      /\ Append(kept, x)[Len(kept) + 1] = x
  BY <1>4, AppendProperties
<1>6. Len(kept) \in Nat /\ Len(new) = Len(kept) + 1 /\ Len(kept) <= Len(s)
  BY <1>1, <1>3, <1>4
<1>7. ASSUME NEW k \in 1..Len(new)
      PROVE  new[k] = Append(kept, x)[k]
  <2>1. new[k] = Append(s, x)[k + Len(s) - Len(kept)]
    <3>1. k + Len(s) + 1 - Len(new) = k + Len(s) - Len(kept)
      BY <1>1, <1>6
    <3> QED BY <1>3, <3>1
  <2>2. CASE k = Len(kept) + 1
    <3>1. k + Len(s) - Len(kept) = Len(s) + 1
      BY <1>1, <1>6, <2>2
    <3> QED BY <1>2, <1>5, <2>1, <2>2, <3>1
  <2>3. CASE k # Len(kept) + 1
    <3>1. k \in 1..Len(kept) /\ k + Len(s) - Len(kept) \in 1..Len(s)
      BY <1>1, <1>6, <2>3
    <3> QED BY <1>2, <1>4, <1>5, <2>1, <3>1
  <2> QED BY <2>2, <2>3
<1>8. new = Append(kept, x)
  BY <1>3, <1>5, <1>6, <1>7, SeqEqual
<1> QED BY <1>8 DEF new, kept, old

LEMMA CountsOneMore ==
    ASSUME NEW s \in Seq(Issue), NEW x \in Issue, NEW severity
    PROVE  /\ Count(s, severity) \in Nat
           /\ Count(Append(s, x), severity) = Count(s, severity) + (IF x.severity = severity THEN 1 ELSE 0)
<1> DEFINE Told == {k \in DOMAIN s : s[k].severity = severity}
           Now == {k \in DOMAIN Append(s, x) : Append(s, x)[k].severity = severity}
<1>1. Len(s) \in Nat /\ DOMAIN s = 1..Len(s) /\ IsFiniteSet(1..Len(s))
  BY FS_Interval
<1>2. IsFiniteSet(Told) /\ Told \subseteq 1..Len(s)
  BY <1>1, FS_Subset
<1>3. /\ DOMAIN Append(s, x) = 1..(Len(s) + 1)
      /\ \A k \in 1..Len(s) : Append(s, x)[k] = s[k]
      /\ Append(s, x)[Len(s) + 1] = x
  BY AppendProperties
<1>4. Now = IF x.severity = severity THEN Told \cup {Len(s) + 1} ELSE Told
  <2>1. 1..(Len(s) + 1) = (1..Len(s)) \cup {Len(s) + 1} /\ Len(s) + 1 \notin 1..Len(s)
    BY <1>1
  <2>2. \A k : k \in Now <=> \/ k \in Told
                             \/ k = Len(s) + 1 /\ x.severity = severity
    BY <1>1, <1>3, <2>1
  <2> HIDE DEF Now, Told
  <2> QED BY <2>2
<1>5. Len(s) + 1 \notin Told
  BY <1>1, <1>2
<1>6. Count(s, severity) = Cardinality(Told) /\ Count(Append(s, x), severity) = Cardinality(Now)
  BY DEF Count
<1> HIDE DEF Told, Now
<1>7. Cardinality(Told) \in Nat
  BY <1>2, FS_CardinalityType
<1>8. Cardinality(Told \cup {Len(s) + 1}) = Cardinality(Told) + 1
  BY <1>2, <1>5, FS_AddElement
<1>9. CASE x.severity = severity
  BY <1>4, <1>6, <1>7, <1>8, <1>9
<1>10. CASE x.severity # severity
  BY <1>4, <1>6, <1>7, <1>10
<1> QED BY <1>9, <1>10

LEMMA FaultIsIssue ==
    ASSUME NEW code \in Codes, NEW i \in Nat
    PROVE  Fault(code, i) \in Issue /\ Warning(code, i) \in Issue
BY DEF Issue, Fault, Warning

Tells == (\E x \in Issue : RecordIssue(x)) \/ UNCHANGED told
Persists == counters' = counters \/ counters' = [warnings |-> status'.warnings, errors |-> status'.errors]

\* An issue that is told keeps ring, messages and counts in agreement.
LEMMA TellingStep == IssuesStand /\ Tells /\ Persists => IssuesStand'
<1> SUFFICES ASSUME IssuesStand, Tells, Persists
             PROVE  IssuesStand'
  OBVIOUS
<1>1. /\ messages \in Seq(Issue) /\ status.issues = Newest(messages, MaxIssues)
      /\ status.warnings = Count(messages, "warning") /\ status.errors = Count(messages, "error")
      /\ MaxIssues \in Nat \ {0}
  BY LimitsAssumption DEF IssuesStand
<1>2. Fault("scan_failed", 0) \in Issue
  BY FaultIsIssue DEF Codes
<1>3. status.warnings \in Nat /\ status.errors \in Nat
  BY <1>1, <1>2, CountsOneMore
<1>4. /\ messages' \in Seq(Issue)
      /\ status' = [issues |-> Newest(messages', MaxIssues),
                    warnings |-> Count(messages', "warning"), errors |-> Count(messages', "error")]
      /\ status'.warnings \in Nat /\ status'.warnings >= status.warnings
      /\ status'.errors \in Nat /\ status'.errors >= status.errors
  <2>1. CASE UNCHANGED told
    BY <1>1, <1>3, <2>1 DEF told, IssuesStand
  <2>2. ASSUME NEW x \in Issue, RecordIssue(x)
        PROVE  <1>4!:
    <3>1. /\ messages' = Append(messages, x)
          /\ status' = [issues |-> Append(IF Len(status.issues) = MaxIssues
                                          THEN Tail(status.issues) ELSE status.issues, x),
                        warnings |-> status.warnings + (IF x.severity = "warning" THEN 1 ELSE 0),
                        errors |-> status.errors + (IF x.severity = "error" THEN 1 ELSE 0)]
      BY <2>2 DEF RecordIssue
    <3>2. messages' \in Seq(Issue)
      BY <1>1, <3>1, AppendProperties
    <3>3. status'.issues = Newest(messages', MaxIssues)
      BY <1>1, <3>1, RingKeepsNewest
    <3>4. status'.warnings = Count(messages', "warning") /\ status'.errors = Count(messages', "error")
      BY <1>1, <3>1, CountsOneMore
    <3>5. /\ status'.warnings \in Nat /\ status'.warnings >= status.warnings
          /\ status'.errors \in Nat /\ status'.errors >= status.errors
      BY <1>3, <3>1
    <3>6. status' = [issues |-> status'.issues, warnings |-> status'.warnings, errors |-> status'.errors]
      BY <3>1
    <3> QED BY <3>2, <3>3, <3>4, <3>5, <3>6
  <2> QED BY <2>1, <2>2 DEF Tells
<1>5. counters'.warnings \in 0..status'.warnings /\ counters'.errors \in 0..status'.errors
  <2>1. counters.warnings \in 0..status.warnings /\ counters.errors \in 0..status.errors
    BY DEF IssuesStand
  <2>2. CASE counters' = counters
    BY <1>3, <1>4, <2>1, <2>2
  <2>3. CASE counters' = [warnings |-> status'.warnings, errors |-> status'.errors]
    <3>1. counters'.warnings = status'.warnings /\ counters'.errors = status'.errors
      BY <2>3
    <3> QED BY <1>4, <3>1
  <2> QED BY <2>2, <2>3 DEF Persists
<1> QED BY <1>4, <1>5 DEF IssuesStand

LEMMA StepsTell == IInv /\ [Next]_vars => Tells /\ Persists
<1> SUFFICES ASSUME IInv, [Next]_vars
             PROVE  Tells /\ Persists
  OBVIOUS
<1>1. ASSUME NEW code \in Codes, NEW i \in {0, at}, RecordIssue(Fault(code, i)) \/ RecordIssue(Warning(code, i))
      PROVE  Tells
  <2>1. i \in Nat
    BY DEF IInv, PlanStands
  <2> QED BY <1>1, <2>1, FaultIsIssue DEF Tells
<1>2. CASE IndexIssue
  <2>1. \/ RecordIssue(Warning("inventory_symlink_skipped", 0))
        \/ RecordIssue(Fault("log_fingerprint_failed", 0))
    BY <1>2 DEF IndexIssue
  <2>2. Tells
    BY <1>1, <2>1 DEF Codes
  <2>3. Persists
    BY <1>2 DEF IndexIssue, Persists
  <2> QED BY <2>2, <2>3
<1>3. CASE BeginParsing \/ Promote
  <2>1. UNCHANGED told /\ counters' = [warnings |-> status.warnings, errors |-> status.errors]
    BY <1>3 DEF BeginParsing, Promote, Snapshot
  <2>2. status' = status
    BY <2>1 DEF told
  <2> QED BY <2>1, <2>2 DEF Tells, Persists
<1>4. CASE SkipInstance \/ DeferInstance \/ OpenInstance \/ DeferFailed
  BY <1>4 DEF SkipInstance, DeferInstance, OpenInstance, DeferFailed, Tells, Persists, told
<1>5. CASE RefuseLogCount
  <2>1. RecordIssue(Fault("instance_resource_limit_exceeded", at)) /\ counters' = counters
    BY <1>5 DEF RefuseLogCount
  <2> QED BY <1>1, <2>1 DEF Persists, Codes
<1>6. ASSUME NEW r \in ParseResults, RefuseByScan(r) \/ RefuseByInstance(r) \/ RetainLog(r) \/ FailLog(r)
      PROVE  Tells /\ Persists
  <2>1. counters' = counters
    BY <1>6 DEF RefuseByScan, RefuseByInstance, RetainLog, FailLog
  <2>2. CASE RefuseByScan(r)
    <3>1. RecordIssue(Fault("scan_resource_limit_exceeded", at))
      BY <2>2 DEF RefuseByScan
    <3> QED BY <1>1, <2>1, <3>1 DEF Persists, Codes
  <2>3. CASE RefuseByInstance(r)
    <3>1. RecordIssue(Fault("instance_resource_limit_exceeded", at))
      BY <2>3 DEF RefuseByInstance
    <3> QED BY <1>1, <2>1, <3>1 DEF Persists, Codes
  <2>4. CASE RetainLog(r)
    <3>1. UNCHANGED told \/ RecordIssue(Warning("log_parse_warning", at))
      BY <2>4 DEF RetainLog
    <3>2. UNCHANGED told => Tells
      BY DEF Tells
    <3> QED BY <1>1, <2>1, <3>1, <3>2 DEF Persists, Codes
  <2>5. CASE FailLog(r)
    <3>1. RecordIssue(Fault(Code[r.kind], at)) /\ ~Usable(r)
      BY <2>5 DEF FailLog
    <3>2. r.kind \in Kinds
      BY LimitsAssumption
    <3>3. r.kind \in {"changed", "limited", "unreadable"}
      BY <3>1, <3>2 DEF Usable, Kinds
    <3>4. Code[r.kind] \in Codes
      BY <3>3 DEF Code, Codes
    <3> QED BY <1>1, <2>1, <3>1, <3>4 DEF Persists, Codes
  <2> QED BY <1>6, <2>2, <2>3, <2>4, <2>5
<1>7. ASSUME NEW ids \in SUBSET AllSessions,
             \/ RefuseReconstruction(ids) \/ RefuseByScanSessions(ids)
             \/ RefuseByInstanceArchive(ids) \/ RefuseByArchive(ids)
      PROVE  Tells /\ Persists
  <2>1. /\ counters' = counters
        /\ \/ RecordIssue(Fault("instance_resource_limit_exceeded", at))
           \/ RecordIssue(Fault("scan_resource_limit_exceeded", at))
           \/ RecordIssue(Fault("instance_session_archive_limit_exceeded", at))
           \/ RecordIssue(Fault("global_archive_resource_limit_exceeded", at))
    BY <1>7 DEF RefuseReconstruction, RefuseByScanSessions, RefuseByInstanceArchive, RefuseByArchive, Refuse
  <2> QED BY <1>1, <2>1 DEF Persists, Codes
<1>8. ASSUME NEW ids \in SUBSET AllSessions, Stage(ids)
      PROVE  Tells /\ Persists
  BY <1>8 DEF Stage, Tells, Persists, told
<1>9. CASE Cancel
  <2>1. UNCHANGED told
    BY <1>9 DEF Cancel
  <2>2. status' = status
    BY <2>1 DEF told
  <2>3. counters' = [warnings |-> status.warnings, errors |-> status.errors] \/ counters' = counters
    BY <1>9 DEF Cancel, MayPersist, Snapshot
  <2> QED BY <2>1, <2>2, <2>3 DEF Tells, Persists
<1>10. CASE Fail
  <2>1. RecordIssue(Fault("scan_failed", 0)) \/ UNCHANGED told
    BY <1>10 DEF Fail
  <2>2. UNCHANGED told => Tells
    BY DEF Tells
  <2>3. Persists
    BY <1>10 DEF Fail, MayPersist, Persists
  <2> QED BY <1>1, <2>1, <2>2, <2>3 DEF Codes
<1>11. CASE UNCHANGED vars
  BY <1>11 DEF vars, told, Tells, Persists
<1> QED
  BY <1>2, <1>3, <1>4, <1>5, <1>6, <1>7, <1>8, <1>9, <1>10, <1>11 DEF Next

\* The newest messages are some of the messages.
LEMMA NewestCounts ==
    ASSUME NEW s \in Seq(Issue), NEW n \in Nat \ {0}, NEW severity
    PROVE  /\ Count(Newest(s, n), severity) \in Nat /\ Count(s, severity) \in Nat
           /\ Count(Newest(s, n), severity) <= Count(s, severity)
<1> DEFINE new == Newest(s, n)
           d == Len(s) - Len(new)
           A == {k \in DOMAIN new : new[k].severity = severity}
           B == {k \in DOMAIN s : s[k].severity = severity}
           f == [k \in A |-> k + d]
<1>1. /\ new \in Seq(Issue) /\ Len(s) \in Nat /\ Len(new) = IF Len(s) > n THEN n ELSE Len(s)
      /\ \A k \in 1..Len(new) : new[k] = s[k + Len(s) - Len(new)]
  BY NewestShape
<1> HIDE DEF new
<1>2. d \in Nat /\ Len(new) \in Nat /\ Len(new) + d = Len(s) /\ DOMAIN new = 1..Len(new) /\ DOMAIN s = 1..Len(s)
  BY <1>1
<1>3. \A k \in 1..Len(new) : new[k] = s[k + d] /\ k + d \in 1..Len(s)
  <2> SUFFICES ASSUME NEW k \in 1..Len(new)
               PROVE  new[k] = s[k + d] /\ k + d \in 1..Len(s)
    OBVIOUS
  <2>1. k + Len(s) - Len(new) = k + d
    BY <1>1, <1>2
  <2>2. k + d \in 1..Len(s)
    BY <1>2
  <2> HIDE DEF d
  <2> QED BY <1>1, <2>1, <2>2
<1>4. IsFiniteSet(B)
  <2>1. IsFiniteSet(1..Len(s)) /\ B \subseteq 1..Len(s)
    BY <1>2, FS_Interval
  <2> QED BY <2>1, FS_Subset
<1> HIDE DEF d
<1>5. \A k \in A : k \in 1..Len(new) /\ k + d \in B
  BY <1>2, <1>3
<1>6. A \subseteq Int
  BY <1>2
<1> HIDE DEF A, B
<1>7. f \in Injection(A, B)
  <2>1. f \in [A -> B]
    BY <1>5
  <2>2. \A x, y \in A : f[x] = f[y] => x = y
    BY <1>2, <1>6
  <2> HIDE DEF f
  <2> QED BY <2>1, <2>2 DEF Injection, IsInjective
<1>8. Cardinality(A) <= Cardinality(B) /\ IsFiniteSet(A)
  BY <1>4, <1>7, FS_Injection
<1>9. Cardinality(A) \in Nat /\ Cardinality(B) \in Nat
  BY <1>4, <1>8, FS_CardinalityType
<1> QED BY <1>8, <1>9 DEF Count, A, B, new

\* Nothing has been told at first.
LEMMA IssuesStart == Init => IssuesStand
<1> SUFFICES ASSUME Init
             PROVE  IssuesStand
  OBVIOUS
<1>1. /\ messages = <<>> /\ status = [issues |-> <<>>, warnings |-> 0, errors |-> 0]
      /\ counters = [warnings |-> 0, errors |-> 0]
  BY DEF Init
<1>2. MaxIssues \in Nat \ {0} /\ <<>> \in Seq(Issue) /\ Len(<<>>) = 0
  BY LimitsAssumption
<1>3. Newest(<<>>, MaxIssues) = <<>>
  <2>1. \A s \in Seq(Issue) : Len(s) = 0 => Newest(s, MaxIssues) \in Seq(Issue) /\ Len(Newest(s, MaxIssues)) = 0
    <3> SUFFICES ASSUME NEW s \in Seq(Issue), Len(s) = 0
                 PROVE  Newest(s, MaxIssues) \in Seq(Issue) /\ Len(Newest(s, MaxIssues)) = 0
      OBVIOUS
    <3>1. /\ Newest(s, MaxIssues) \in Seq(Issue)
          /\ Len(Newest(s, MaxIssues)) = IF Len(s) > MaxIssues THEN MaxIssues ELSE Len(s)
      BY <1>2, NewestShape
    <3> QED BY <1>2, <3>1
  <2>2. Newest(<<>>, MaxIssues) \in Seq(Issue) /\ Len(Newest(<<>>, MaxIssues)) = 0
    BY <1>2, <2>1
  <2> QED BY <2>2, EmptySeq
<1>4. \A severity : Count(<<>>, severity) = 0
  BY FS_EmptySet DEF Count
<1>5. counters.warnings \in 0..status.warnings /\ counters.errors \in 0..status.errors
  BY <1>1
<1> QED BY <1>1, <1>2, <1>3, <1>4, <1>5 DEF IssuesStand

\* A status restored after a restart tells the issues and the counts that the
\* status in memory told, whatever limits, logs and failures there were.
THEOREM RestartTellsTheSame == Spec => []RestoredIssuesAgree
<1>1. IInv /\ IssuesStand /\ [Next]_vars => IssuesStand'
  BY TellingStep, StepsTell
<1>2. IssuesStand => RestoredIssuesAgree
  <2> SUFFICES ASSUME IssuesStand, Ended
               PROVE  \/ Restored = status
                      \/ /\ outcome = "failed" /\ Count(Newest(messages, MaxIssues), "error") = 0
                         /\ Restored.warnings = status.warnings
                         /\ Restored.issues = Newest(Append(status.issues, Fault("scan_failed", 0)), MaxIssues)
    BY DEF RestoredIssuesAgree
  <2> DEFINE newest == Newest(messages, MaxIssues)
             lost == outcome = "failed" /\ Count(newest, "error") = 0
             added == Newest(Append(newest, Fault("scan_failed", 0)), MaxIssues)
  <2>1. /\ messages \in Seq(Issue) /\ MaxIssues \in Nat \ {0}
        /\ status = [issues |-> newest, warnings |-> Count(messages, "warning"), errors |-> Count(messages, "error")]
        /\ counters.warnings \in 0..status.warnings /\ counters.errors \in 0..status.errors
    BY LimitsAssumption DEF IssuesStand
  <2>2. /\ newest \in Seq(Issue)
        /\ \A severity : /\ Count(newest, severity) \in Nat /\ Count(messages, severity) \in Nat
                         /\ Count(newest, severity) <= Count(messages, severity)
    BY <2>1, NewestCounts, NewestShape
  <2>3. CASE lost
    <3>1. Fault("scan_failed", 0) \in Issue
      BY FaultIsIssue DEF Codes
    <3>2. Append(newest, Fault("scan_failed", 0)) \in Seq(Issue)
      BY <2>2, <3>1, AppendProperties
    <3>3. /\ Count(Append(newest, Fault("scan_failed", 0)), "warning") = Count(newest, "warning")
          /\ Count(added, "warning") \in Nat
          /\ Count(added, "warning") <= Count(Append(newest, Fault("scan_failed", 0)), "warning")
      <4>1. Count(Append(newest, Fault("scan_failed", 0)), "warning")
              = Count(newest, "warning") + (IF Fault("scan_failed", 0).severity = "warning" THEN 1 ELSE 0)
        BY <2>2, <3>1, CountsOneMore
      <4>2. Fault("scan_failed", 0).severity = "error"
        BY DEF Fault
      <4>3. /\ Count(added, "warning") \in Nat
            /\ Count(added, "warning") <= Count(Append(newest, Fault("scan_failed", 0)), "warning")
        BY <2>1, <3>2, NewestCounts
      <4> HIDE DEF added, newest
      <4> QED BY <2>2, <4>1, <4>2, <4>3
    <3>4. Restored.issues = added
      BY <2>3 DEF Restored
    <3>5. Restored.warnings = Larger(counters.warnings, Larger(Count(messages, "warning"), Count(added, "warning")))
      BY <2>3 DEF Restored
    <3>6. Restored.warnings = status.warnings
      <4> HIDE DEF newest, added
      <4> QED BY <2>1, <2>2, <3>3, <3>5 DEF Larger
    <3> QED BY <2>1, <2>3, <3>4, <3>6
  <2>4. CASE ~lost
    <3>1. Restored = [issues |-> newest,
                      warnings |-> Larger(counters.warnings,
                                          Larger(Count(messages, "warning"), Count(newest, "warning"))),
                      errors |-> Larger(counters.errors,
                                        Larger(Count(messages, "error"), Count(newest, "error")))]
      BY <2>4 DEF Restored
    <3> HIDE DEF newest
    <3>2. /\ Larger(counters.warnings, Larger(Count(messages, "warning"), Count(newest, "warning"))) = status.warnings
          /\ Larger(counters.errors, Larger(Count(messages, "error"), Count(newest, "error"))) = status.errors
      BY <2>1, <2>2 DEF Larger
    <3> QED BY <2>1, <3>1, <3>2
  <2> QED BY <2>3, <2>4
<1> QED BY <1>1, <1>2, IssuesStart, InvariantHolds, PTL DEF Spec

-----------------------------------------------------------------------------
(***************************************************************************)
(* What is left out.  Of the instances taken each one that should have     *)
(* been reconstructed and is not staged has been told, or something before *)
(* it has exhausted the scan.  Once the scan is exhausted nothing more is  *)
(* staged: of the instance at hand some log has failed, the next ones are  *)
(* deferred.  So an issue that ended the scan stays the last word.         *)
(***************************************************************************)
BlameStands ==
    /\ \A k \in DOMAIN messages : messages[k].about \in 0..at
    /\ outcome = "indexing" => at = 1 /\ ~exhausted
    /\ log = 0 => failed = {}
    /\ \A i \in {at} : ToldAbout(i) <=> failed # {}
    /\ \A i \in 1..(at - 1) :
          /\ ToldAbout(i) => ~Staged(i)
          /\ plan[i].reconstruct /\ ~Staged(i) => ToldAbout(i) \/ (exhausted /\ ToldOfAll(i))
    /\ exhausted => /\ log # 0 => failed # {}
                    /\ \A i \in {IF failed # {} THEN at + 1 ELSE at} : ToldOfAll(i)

\* What a step makes of the issues: at most one more, which is about instance
\* 0 or the one at hand, while nothing more is staged.
LEMMA IssueOfStep ==
    ASSUME IInv, IssuesStand, outcome \in {"indexing", "parsing"}, NEW x \in Issue, x.about \in {0, at},
           NEW n \in Nat, n = at,
           messages' = Append(messages, x), UNCHANGED <<plan, staged>>
    PROVE  /\ \A i : ToldAbout(i)' <=> ToldAbout(i) \/ (x.severity = "error" /\ x.about = i)
           /\ \A i : ToldOfAll(i) => ToldOfAll(i)'
           /\ x.severity = "error" /\ x.code \in Common /\ x.about = n => ToldOfAll(n + 1)'
           /\ (\A k \in DOMAIN messages : messages[k].about \in 0..at)
                 => \A k \in DOMAIN messages' : messages'[k].about \in 0..at
<1>1. /\ messages \in Seq(Issue) /\ Len(messages) \in Nat /\ DOMAIN messages = 1..Len(messages)
      /\ at \in Nat /\ DOMAIN messages' = 1..(Len(messages) + 1)
      /\ \A k \in 1..Len(messages) : messages'[k] = messages[k]
      /\ messages'[Len(messages) + 1] = x
  BY AppendProperties DEF IssuesStand, IInv, PlanStands
<1>2. Len(messages) + 1 \in DOMAIN messages' /\ DOMAIN messages \subseteq DOMAIN messages'
      /\ \A k \in DOMAIN messages' : k \in DOMAIN messages \/ k = Len(messages) + 1
  BY <1>1
<1>3. \A i : Staged(i)' <=> Staged(i)
  BY DEF Staged
<1>4. ASSUME NEW i PROVE ToldAbout(i)' <=> ToldAbout(i) \/ (x.severity = "error" /\ x.about = i)
  BY <1>1, <1>2 DEF ToldAbout
<1>5. ASSUME NEW i, ToldOfAll(i) PROVE ToldOfAll(i)'
  <2>1. PICK k \in DOMAIN messages :
          /\ messages[k].severity = "error" /\ messages[k].code \in Common
          /\ messages[k].about \in 1..(i - 1)
          /\ \A j \in messages[k].about..Len(plan) : ~Staged(j)
    BY <1>5 DEF ToldOfAll
  <2>2. messages'[k] = messages[k] /\ k \in DOMAIN messages'
    BY <1>1, <1>2
  <2> QED BY <1>3, <2>1, <2>2 DEF ToldOfAll
<1>6. ASSUME x.severity = "error", x.code \in Common, x.about = n PROVE ToldOfAll(n + 1)'
  <2>1. \A j \in n..Len(plan) : ~Staged(j)'
    <3>1. \A p \in staged : p.instance \in Nat /\ p.instance < at
      BY DEF IInv, MarksStand, Live
    <3>2. plan \in Seq(Prepared)
      BY DEF IInv, PlanStands
    <3>3. Len(plan) \in Nat
      BY <3>2
    <3> QED BY <1>1, <1>3, <3>1, <3>3 DEF Staged
  <2>2. PICK k \in DOMAIN messages' : messages'[k] = x
    BY <1>1, <1>2
  <2>3. n \in 1..(n + 1 - 1)
    BY <1>1 DEF IInv, PlanStands
  <2> QED BY <1>6, <2>1, <2>2, <2>3 DEF ToldOfAll
<1>7. ASSUME \A k \in DOMAIN messages : messages[k].about \in 0..at
      PROVE  \A k \in DOMAIN messages' : messages'[k].about \in 0..at
  BY <1>1, <1>2, <1>7
<1> QED BY <1>4, <1>5, <1>6, <1>7

\* A step that tells nothing and stages nothing changes nothing of it.
LEMMA SilentStep ==
    ASSUME UNCHANGED <<plan, staged, messages>>
    PROVE  /\ \A i : ToldAbout(i)' <=> ToldAbout(i)
           /\ \A i : ToldOfAll(i)' <=> ToldOfAll(i)
           /\ \A i : Staged(i)' <=> Staged(i)
BY DEF ToldAbout, ToldOfAll, Staged

\* The worker goes on to the next instance, having staged nothing: T holds the
\* one it leaves if it told an error about it.
LEMMA BlameMoves ==
    ASSUME IInv, BlameStands, outcome = "parsing", at <= Len(plan), NEW n \in Nat, n = at,
           UNCHANGED <<plan, staged, outcome>>, NextInstance, NEW T, T \in {{}, {n}},
           \A i : ToldAbout(i)' <=> ToldAbout(i) \/ i \in T,
           \A i : ToldOfAll(i) => ToldOfAll(i)',
           \A k \in DOMAIN messages' : messages'[k].about \in 0..at,
           exhausted => exhausted',
           exhausted' => ToldOfAll(n + 1)',
           plan[at].reconstruct => failed # {} \/ T # {} \/ (exhausted /\ log = 0)
    PROVE  BlameStands'
<1>1. /\ at \in Nat /\ n \in 1..n /\ at' = n + 1 /\ log' = 0 /\ failed' = {}
  BY DEF IInv, PlanStands, NextInstance
<1>2. \A i : Staged(i)' <=> Staged(i)
  BY DEF Staged
<1>3. \A k \in DOMAIN messages : messages[k].about \in 0..at
  BY DEF BlameStands
<1>4. ~Staged(n)
  BY <1>1 DEF IInv, MarksStand, Live, Staged
<1>5. \A k \in DOMAIN messages' : messages'[k].about \in 0..at'
  BY <1>1
<1>6. \A i \in {at'} : ToldAbout(i)' <=> failed' # {}
  <2>1. ~ToldAbout(n + 1)
    BY <1>1, <1>3 DEF ToldAbout
  <2> QED BY <1>1, <2>1
<1>7. ASSUME NEW i \in 1..(at' - 1)
      PROVE  /\ ToldAbout(i)' => ~Staged(i)'
             /\ plan'[i].reconstruct /\ ~Staged(i)' => ToldAbout(i)' \/ (exhausted' /\ ToldOfAll(i)')
  <2>1. CASE i = n
    <3>1. (failed # {} <=> ToldAbout(n)) /\ (exhausted /\ failed = {} => ToldOfAll(n)) /\ (log = 0 => failed = {})
      BY DEF BlameStands
    <3> QED BY <1>2, <1>4, <2>1, <3>1
  <2>2. CASE i # n
    <3>1. i \in 1..(at - 1) /\ i \notin T
      BY <1>1, <2>2
    <3>2. /\ ToldAbout(i) => ~Staged(i)
          /\ plan[i].reconstruct /\ ~Staged(i) => ToldAbout(i) \/ (exhausted /\ ToldOfAll(i))
      BY <3>1 DEF BlameStands
    <3> QED BY <1>2, <3>1, <3>2
  <2> QED BY <2>1, <2>2
<1>8. exhausted' => \A i \in {IF failed' # {} THEN at' + 1 ELSE at'} : ToldOfAll(i)'
  BY <1>1
<1> QED BY <1>1, <1>5, <1>6, <1>7, <1>8 DEF BlameStands

\* The worker goes on with the logs of the instance: T holds it if an error was
\* told about it.
LEMMA BlameStays ==
    ASSUME IInv, BlameStands, outcome = "parsing", at <= Len(plan), NEW n \in Nat, n = at,
           UNCHANGED <<plan, staged, outcome, at>>, NEW T, T \in {{}, {n}},
           \A i : ToldAbout(i)' <=> ToldAbout(i) \/ i \in T,
           \A i : ToldOfAll(i) => ToldOfAll(i)',
           \A k \in DOMAIN messages' : messages'[k].about \in 0..at,
           log' # 0, failed' # {} <=> failed # {} \/ T # {},
           exhausted => exhausted',
           exhausted' => failed' # {} /\ ToldOfAll(n + 1)'
    PROVE  BlameStands'
<1>1. \A i : Staged(i)' <=> Staged(i)
  BY DEF Staged
<1>2. \A i \in {at'} : ToldAbout(i)' <=> failed' # {}
  BY DEF BlameStands
<1>3. ASSUME NEW i \in 1..(at' - 1)
      PROVE  /\ ToldAbout(i)' => ~Staged(i)'
             /\ plan'[i].reconstruct /\ ~Staged(i)' => ToldAbout(i)' \/ (exhausted' /\ ToldOfAll(i)')
  <2>1. i \in 1..(at - 1) /\ i \notin T
    BY <1>3
  <2>2. /\ ToldAbout(i) => ~Staged(i)
        /\ plan[i].reconstruct /\ ~Staged(i) => ToldAbout(i) \/ (exhausted /\ ToldOfAll(i))
    BY <2>1 DEF BlameStands
  <2> QED BY <1>1, <2>1, <2>2
<1>4. exhausted' => \A i \in {IF failed' # {} THEN at' + 1 ELSE at'} : ToldOfAll(i)'
  OBVIOUS
<1> QED BY <1>2, <1>3, <1>4 DEF BlameStands

\* What exhausted the scan is told of before every instance yet to be taken.
LEMMA BlameGrows ==
    ASSUME NEW i \in Nat, ToldOfAll(i)
    PROVE  ToldOfAll(i + 1)
BY DEF ToldOfAll

LEMMA BlameStep == IInv /\ IssuesStand /\ (Live => BlameStands) /\ [Next]_vars => (Live => BlameStands)'
<1> SUFFICES ASSUME IInv, IssuesStand, Live => BlameStands, [Next]_vars, Live'
             PROVE  BlameStands'
  OBVIOUS
<1>1. PICK n \in Nat : n = at
  BY DEF IInv, PlanStands
<1>2. CASE IndexIssue
  <2>1. /\ outcome = "indexing" /\ UNCHANGED <<plan, at, log, failed, exhausted, staged, outcome>>
        /\ \E x \in Issue : x.about = 0 /\ messages' = Append(messages, x)
    <3>1. Warning("inventory_symlink_skipped", 0) \in Issue /\ Fault("log_fingerprint_failed", 0) \in Issue
      BY FaultIsIssue DEF Codes
    <3> QED BY <1>2, <3>1 DEF IndexIssue, position, spent, RecordIssue, Warning, Fault
  <2>2. PICK x \in Issue : x.about = 0 /\ messages' = Append(messages, x)
    BY <2>1
  <2>3. BlameStands /\ at = 1 /\ ~exhausted
    BY <2>1 DEF Live, BlameStands
  <2>4. /\ \A i : ToldAbout(i)' <=> ToldAbout(i) \/ (x.severity = "error" /\ x.about = i)
        /\ \A k \in DOMAIN messages' : messages'[k].about \in 0..at
    BY <1>1, <2>1, <2>2, <2>3, IssueOfStep DEF BlameStands
  <2> QED BY <2>1, <2>2, <2>3, <2>4 DEF BlameStands
<1>3. CASE BeginParsing \/ Promote
  <2>1. Live /\ outcome' # "indexing" /\ UNCHANGED <<plan, at, log, failed, exhausted, staged, messages>>
    BY <1>3 DEF BeginParsing, Promote, position, spent, told, Live
  <2>2. BlameStands
    BY <2>1
  <2> QED BY <2>1, <2>2, SilentStep DEF BlameStands
<1>4. CASE SkipInstance \/ DeferInstance \/ DeferFailed
  <2>1. /\ outcome = "parsing" /\ at <= Len(plan) /\ NextInstance
        /\ UNCHANGED <<plan, exhausted, staged, messages, outcome>>
        /\ plan[at].reconstruct => failed # {} \/ (exhausted /\ log = 0)
    BY <1>4 DEF SkipInstance, DeferInstance, DeferFailed, AllParsed, Opened, Taking, Current, spent, told
  <2>2. BlameStands
    BY <2>1 DEF Live
  <2>3. exhausted' => ToldOfAll(n + 1)'
    <3>1. exhausted => ToldOfAll(n) \/ ToldOfAll(n + 1)
      BY <1>1, <2>2 DEF BlameStands
    <3> QED BY <1>1, <2>1, <3>1, BlameGrows, SilentStep
  <2>4. \A k \in DOMAIN messages' : messages'[k].about \in 0..at
    BY <2>1, <2>2 DEF BlameStands
  <2> QED BY <1>1, <2>1, <2>2, <2>3, <2>4, SilentStep, BlameMoves
<1>5. CASE OpenInstance
  <2>1. /\ outcome = "parsing" /\ at <= Len(plan) /\ log = 0 /\ log' = 1 /\ ~exhausted
        /\ UNCHANGED <<plan, at, failed, exhausted, staged, messages, outcome>>
    BY <1>5 DEF OpenInstance, Taking, told
  <2>2. BlameStands
    BY <2>1 DEF Live
  <2>3. \A k \in DOMAIN messages' : messages'[k].about \in 0..at
    BY <2>1, <2>2 DEF BlameStands
  <2>4. /\ \A i : ToldAbout(i)' <=> ToldAbout(i) \/ i \in {}
        /\ \A i : ToldOfAll(i) => ToldOfAll(i)'
    BY <2>1, SilentStep
  <2>5. log' # 0 /\ ~exhausted' /\ (failed' # {} <=> failed # {} \/ {} # {})
    BY <2>1
  <2> QED BY <1>1, <2>1, <2>2, <2>3, <2>4, <2>5, BlameStays
\* The instance at hand is given up, with an error about it.
<1>6. ASSUME NEW code \in Codes, RecordIssue(Fault(code, at)), outcome = "parsing", at <= Len(plan), NextInstance,
             UNCHANGED <<plan, staged, outcome>>,
             exhausted => exhausted', exhausted' => exhausted \/ code \in Common
      PROVE  BlameStands'
  <2>1. PICK x \in Issue : x = Fault(code, n)
    BY <1>1, FaultIsIssue
  <2>2. x.about = n /\ x.severity = "error" /\ x.code = code /\ messages' = Append(messages, x)
    BY <1>1, <1>6, <2>1 DEF Fault, RecordIssue
  <2>3. BlameStands
    BY <1>6 DEF Live
  <2>4. /\ \A i : ToldAbout(i)' <=> ToldAbout(i) \/ i \in {n}
        /\ \A i : ToldOfAll(i) => ToldOfAll(i)'
        /\ code \in Common => ToldOfAll(n + 1)'
        /\ \A k \in DOMAIN messages' : messages'[k].about \in 0..at
    BY <1>1, <1>6, <2>2, <2>3, IssueOfStep DEF BlameStands
  <2>5. exhausted' => ToldOfAll(n + 1)'
    <3>1. exhausted => ToldOfAll(n) \/ ToldOfAll(n + 1)
      BY <1>1, <2>3 DEF BlameStands
    <3> QED BY <1>1, <1>6, <2>4, <3>1, BlameGrows
  <2>6. plan[at].reconstruct => failed # {} \/ {n} # {} \/ (exhausted /\ log = 0)
    OBVIOUS
  <2>7. {n} \in {{}, {n}}
    OBVIOUS
  <2> QED BY <1>1, <1>6, <2>3, <2>4, <2>5, <2>6, <2>7, BlameMoves
<1>7. CASE RefuseLogCount
  BY <1>6, <1>7 DEF RefuseLogCount, Taking, spent, Codes
<1>8. ASSUME NEW ids \in SUBSET AllSessions,
             \/ RefuseReconstruction(ids) \/ RefuseByScanSessions(ids)
             \/ RefuseByInstanceArchive(ids) \/ RefuseByArchive(ids)
      PROVE  BlameStands'
  <2>1. outcome = "parsing" /\ at <= Len(plan)
    BY <1>8 DEF RefuseReconstruction, RefuseByScanSessions, RefuseByInstanceArchive, RefuseByArchive,
       Counted, Reconstructing, AllParsed, Opened, Taking
  <2>2. PICK code \in Codes, whole \in BOOLEAN : Refuse(code, whole) /\ (whole => code \in Common)
    BY <1>8 DEF RefuseReconstruction, RefuseByScanSessions, RefuseByInstanceArchive, RefuseByArchive,
       Codes, Common
  <2>3. /\ RecordIssue(Fault(code, at)) /\ NextInstance /\ UNCHANGED <<plan, staged, outcome>>
        /\ exhausted' = (exhausted \/ whole)
    BY <2>2 DEF Refuse
  <2>4. (exhausted => exhausted') /\ (exhausted' => exhausted \/ code \in Common)
    BY <2>2, <2>3
  <2> QED BY <1>6, <2>1, <2>3, <2>4
\* A log of the instance at hand has been taken.
<1>9. ASSUME NEW r \in ParseResults, RefuseByScan(r) \/ RefuseByInstance(r) \/ RetainLog(r) \/ FailLog(r)
      PROVE  BlameStands'
  <2>1. /\ outcome = "parsing" /\ at <= Len(plan) /\ log # 0 /\ log <= Len(plan[at].logs)
        /\ UNCHANGED <<plan, at, staged, outcome>>
    BY <1>9 DEF RefuseByScan, RefuseByInstance, RetainLog, FailLog, Parsing, Opened, Taking, Current
  <2>2. BlameStands
    BY <2>1 DEF Live
  <2>3. log' # 0
    <3>1. log \in Nat /\ Len(plan[at].logs) \in Nat
      BY <2>1, CurrentStands DEF IInv, PlanStands
    <3> QED BY <1>9, <3>1 DEF RefuseByScan, RefuseByInstance, RetainLog, FailLog, Current
  <2>4. exhausted => failed # {} /\ ToldOfAll(n + 1)
    BY <1>1, <2>1, <2>2 DEF BlameStands
  <2>5. CASE RetainLog(r)
    <3>1. UNCHANGED <<failed, exhausted>>
      BY <2>5 DEF RetainLog
    <3>2. CASE messages' = messages
      <4>1. \A k \in DOMAIN messages' : messages'[k].about \in 0..at
        BY <2>2, <3>2 DEF BlameStands
      <4> QED BY <1>1, <2>1, <2>2, <2>3, <2>4, <3>1, <3>2, <4>1, SilentStep, BlameStays
    <3>3. ASSUME messages' = Append(messages, Warning("log_parse_warning", at))
          PROVE  BlameStands'
      <4>1. PICK x \in Issue : x = Warning("log_parse_warning", n)
        BY <1>1, FaultIsIssue DEF Codes
      <4>2. x.about = n /\ x.severity = "warning" /\ messages' = Append(messages, x)
        BY <1>1, <3>3, <4>1 DEF Warning
      <4>3. /\ \A i : ToldAbout(i)' <=> ToldAbout(i)
            /\ \A i : ToldOfAll(i) => ToldOfAll(i)'
            /\ \A k \in DOMAIN messages' : messages'[k].about \in 0..at
        BY <1>1, <2>1, <2>2, <4>2, IssueOfStep DEF BlameStands
      <4> QED BY <1>1, <2>1, <2>2, <2>3, <2>4, <3>1, <4>3, BlameStays
    <3>4. messages' = messages \/ messages' = Append(messages, Warning("log_parse_warning", at))
      BY <2>5 DEF RetainLog, RecordIssue, told
    <3> QED BY <3>2, <3>3, <3>4
  <2>6. CASE RefuseByScan(r) \/ RefuseByInstance(r) \/ FailLog(r)
    <3>1. PICK code \in Codes : /\ RecordIssue(Fault(code, at))
                                /\ exhausted => exhausted'
                                /\ exhausted' => exhausted \/ code \in Common
      <4>1. CASE RefuseByScan(r)
        BY <4>1 DEF RefuseByScan, Codes, Common
      <4>2. CASE RefuseByInstance(r)
        BY <4>2 DEF RefuseByInstance, Codes
      <4>3. CASE FailLog(r)
        <5>1. r.kind \in {"changed", "limited", "unreadable"}
          BY <4>3, LimitsAssumption DEF FailLog, Usable, Kinds
        <5>2. Code[r.kind] \in Codes /\ Code[r.kind] \in Common
          BY <5>1 DEF Code, Codes, Common
        <5> QED BY <4>3, <5>2 DEF FailLog
      <4> QED BY <2>6, <4>1, <4>2, <4>3
    <3>2. failed' # {}
      BY <2>6 DEF RefuseByScan, RefuseByInstance, FailLog, FailLogMark
    <3>3. PICK x \in Issue : x = Fault(code, n)
      BY <1>1, FaultIsIssue
    <3>4. x.about = n /\ x.severity = "error" /\ x.code = code /\ messages' = Append(messages, x)
      BY <1>1, <3>1, <3>3 DEF Fault, RecordIssue
    <3>5. /\ \A i : ToldAbout(i)' <=> ToldAbout(i) \/ i \in {n}
          /\ \A i : ToldOfAll(i) => ToldOfAll(i)'
          /\ code \in Common => ToldOfAll(n + 1)'
          /\ \A k \in DOMAIN messages' : messages'[k].about \in 0..at
      BY <1>1, <2>1, <2>2, <3>4, IssueOfStep DEF BlameStands
    <3> QED BY <1>1, <2>1, <2>2, <2>3, <2>4, <3>1, <3>2, <3>5, BlameStays
  <2> QED BY <1>9, <2>5, <2>6
\* A payload is staged only of an instance nothing has been told about.
<1>10. ASSUME NEW ids \in SUBSET AllSessions, Stage(ids)
       PROVE  BlameStands'
  <2>1. /\ outcome = "parsing" /\ at <= Len(plan) /\ log # 0 /\ failed = {}
        /\ at' = n + 1 /\ log' = 0 /\ failed' = {} /\ UNCHANGED <<plan, exhausted, messages, outcome>>
        /\ staged' = staged \cup {[instance |-> at, ids |-> ids, replace |-> plan[at].replace]}
    BY <1>1, <1>10 DEF Stage, Counted, Reconstructing, AllParsed, Opened, Taking, NextInstance, Current, told
  <2>2. BlameStands
    BY <2>1 DEF Live
  <2>3. ~exhausted /\ ~ToldAbout(n)
    BY <1>1, <2>1, <2>2 DEF BlameStands
  <2>4. \A i : ToldAbout(i)' <=> ToldAbout(i)
    BY <2>1 DEF ToldAbout
  <2>5. \A i : i # n => (Staged(i)' <=> Staged(i))
    BY <1>1, <2>1 DEF Staged
  <2>6. Staged(n)'
    <3> DEFINE e == [instance |-> at, ids |-> ids, replace |-> plan[at].replace]
    <3>1. e.instance = n /\ e \in staged'
      BY <1>1, <2>1
    <3> HIDE DEF e
    <3> QED BY <3>1 DEF Staged
  <2>7. \A k \in DOMAIN messages' : messages'[k].about \in 0..at /\ messages'[k].about \in 0..at'
    BY <1>1, <2>1, <2>2 DEF BlameStands
  <2>8. \A i \in {at'} : ToldAbout(i)' <=> failed' # {}
    BY <1>1, <2>1, <2>7 DEF ToldAbout
  <2>9. ASSUME NEW i \in 1..(at' - 1)
        PROVE  /\ ToldAbout(i)' => ~Staged(i)'
               /\ plan'[i].reconstruct /\ ~Staged(i)' => ToldAbout(i)'
    <3>1. CASE i = n
      BY <2>3, <2>4, <2>6, <3>1
    <3>2. CASE i # n
      <4>1. i \in 1..(at - 1)
        BY <1>1, <2>1, <3>2
      <4>2. /\ ToldAbout(i) => ~Staged(i)
            /\ plan[i].reconstruct /\ ~Staged(i) => ToldAbout(i)
        BY <2>2, <2>3, <4>1 DEF BlameStands
      <4> QED BY <2>1, <2>4, <2>5, <3>2, <4>2
    <3> QED BY <3>1, <3>2
  <2> QED BY <2>1, <2>3, <2>7, <2>8, <2>9 DEF BlameStands
<1>11. CASE Cancel \/ Fail
  BY <1>11 DEF Cancel, Fail, Live
<1>12. CASE UNCHANGED vars
  <2>1. UNCHANGED <<plan, at, log, failed, exhausted, staged, messages, outcome>>
    BY <1>12 DEF vars, position, spent, told
  <2>2. BlameStands
    BY <2>1 DEF Live
  <2> QED BY <2>1, <2>2, SilentStep DEF BlameStands
<1> QED
  BY <1>2, <1>3, <1>4, <1>5, <1>7, <1>8, <1>9, <1>10, <1>11, <1>12 DEF Next

\* Whatever the plan, the limits and the outcomes of parsing: an instance that
\* was to be reconstructed and is not staged has an error told about it, or an
\* error before it tells what exhausted the scan for all that follow; and no
\* error is told about an instance that is staged.
THEOREM LeftOutIsTold == Spec => []WhatIsLeftOutIsTold
<1>1. Init => (Live => BlameStands)
  BY DEF Init, BlameStands, ToldAbout
<1>2. IInv /\ (Live => BlameStands) => WhatIsLeftOutIsTold
  BY DEF WhatIsLeftOutIsTold, Live, BlameStands
<1>3. IInv /\ IssuesStand /\ [Next]_vars => IssuesStand'
  BY TellingStep, StepsTell
<1> QED BY <1>1, <1>2, <1>3, BlameStep, IssuesStart, InvariantHolds, PTL DEF Spec

-----------------------------------------------------------------------------
(***************************************************************************)
(* The budget of the archive.  It foresees what promotion will make of the *)
(* archive: an incremental payload may keep sessions it could replace, so  *)
(* the budget holds at least what the archive will, and counts at least    *)
(* its contexts.                                                           *)
(***************************************************************************)
Kept == archive \ UNION {Of(p.instance, archive) : p \in {q \in staged : q.replace}}
Payloads == UNION {p.ids : p \in staged}

\* A payload is of an instance taken, and within the limits of its own.
PayloadsStand ==
    /\ \A p \in staged :
          /\ p.instance \in DOMAIN plan /\ p.instance < at /\ p.ids \subseteq SessionsOf[p.instance]
          /\ Cardinality(p.ids) <= InstanceLimits.sessions
          /\ p.replace \/ Cardinality(Of(p.instance, archive) \cup p.ids) <= InstanceLimits.sessions
    /\ \A p, q \in staged : p.instance = q.instance => p = q

Foreseen ==
    /\ Within(archive)
    /\ budget.ids = Kept \cup Payloads /\ Within(budget.ids)
    /\ ContextsOf(budget.ids) <= budget.contexts /\ budget.contexts <= ArchiveLimits.contexts
    /\ \A i \in DOMAIN plan : i >= at => budget.by[i] = ContextsOf(Of(i, budget.ids))

BudgetStands ==
    /\ archive \subseteq AllSessions /\ DOMAIN plan \subseteq DOMAIN SessionsOf
    /\ budget \in [ids : SUBSET AllSessions, contexts : Nat,
                   by : [DOMAIN SessionsOf -> Nat], over : BOOLEAN]
    /\ outcome = "indexing" => staged = {} /\ at = 1
    /\ outcome = "parsing" => /\ PayloadsStand
                              /\ IF budget.over THEN staged = {} ELSE Foreseen

LEMMA Weights ==
    ASSUME NEW S \in SUBSET AllSessions, NEW T \in SUBSET AllSessions
    PROVE  /\ IsFiniteSet(S) /\ ContextsOf(S) \in Nat /\ Cardinality(S) \in Nat
           /\ S \subseteq T => ContextsOf(S) <= ContextsOf(T) /\ Cardinality(S) <= Cardinality(T)
           /\ T \subseteq S => ContextsOf(S \ T) = ContextsOf(S) - ContextsOf(T)
           /\ ContextsOf(S \cup T) <= ContextsOf(S) + ContextsOf(T)
<1>1. IsFiniteSet(S) /\ IsFiniteSet(T) /\ IsFiniteSet(S \ T) /\ IsFiniteSet(T \ S)
  BY SessionsAssumption, FS_Subset
<1>2. /\ \A s \in S : Contexts[s] \in Nat
      /\ \A s \in T : Contexts[s] \in Nat
      /\ \A s \in S \ T : Contexts[s] \in Nat
      /\ \A s \in T \ S : Contexts[s] \in Nat
  BY SessionsAssumption
<1>3. \A U : ContextsOf(U) = Total(Contexts, U)
  BY DEF ContextsOf, Total
<1>4. /\ Total(Contexts, S) \in Nat /\ Total(Contexts, T) \in Nat
      /\ Total(Contexts, S \ T) \in Nat /\ Total(Contexts, T \ S) \in Nat
  BY <1>1, <1>2, TotalUnfolds
<1>5. Cardinality(S) \in Nat
  BY <1>1, FS_CardinalityType
<1>6. ASSUME S \subseteq T
      PROVE  Total(Contexts, S) <= Total(Contexts, T) /\ Cardinality(S) <= Cardinality(T)
  BY <1>1, <1>2, <1>6, TotalMonotone, FS_Subset
<1>7. ASSUME T \subseteq S
      PROVE  Total(Contexts, S \ T) = Total(Contexts, S) - Total(Contexts, T)
  <2>1. S = T \cup (S \ T) /\ T \cap (S \ T) = {}
    BY <1>7
  <2>2. \A s \in T \cup (S \ T) : Contexts[s] \in Nat
    BY <1>2
  <2>3. Total(Contexts, T \cup (S \ T)) = Total(Contexts, T) + Total(Contexts, S \ T)
    BY <1>1, <2>1, <2>2, TotalUnion
  <2>4. Total(Contexts, T \cup (S \ T)) = Total(Contexts, S)
    BY <2>1
  <2> QED BY <1>4, <2>3, <2>4
<1>8. Total(Contexts, S \cup T) <= Total(Contexts, S) + Total(Contexts, T)
  <2>1. S \cup T = S \cup (T \ S) /\ S \cap (T \ S) = {}
    OBVIOUS
  <2>2. \A s \in S \cup (T \ S) : Contexts[s] \in Nat
    BY <1>2
  <2>3. Total(Contexts, S \cup (T \ S)) = Total(Contexts, S) + Total(Contexts, T \ S)
    BY <1>1, <2>1, <2>2, TotalUnion
  <2>4. Total(Contexts, S \cup (T \ S)) = Total(Contexts, S \cup T)
    BY <2>1
  <2>5. Total(Contexts, T \ S) <= Total(Contexts, T)
    BY <1>1, <1>2, TotalMonotone
  <2> QED BY <1>4, <2>3, <2>4, <2>5
<1> QED BY <1>1, <1>3, <1>4, <1>5, <1>6, <1>7, <1>8

\* What the budget of an archive within its limits is.
LEMMA Loaded ==
    ASSUME NEW S \in SUBSET AllSessions
    PROVE  /\ ArchiveBudget(S) \in [ids : SUBSET AllSessions, contexts : Nat,
                                    by : [DOMAIN SessionsOf -> Nat], over : BOOLEAN]
           /\ ~ArchiveBudget(S).over =>
                 /\ Within(S) /\ ArchiveBudget(S).ids = S
                 /\ ArchiveBudget(S).contexts = ContextsOf(S)
                 /\ \A i \in DOMAIN SessionsOf : ArchiveBudget(S).by[i] = ContextsOf(Of(i, S))
<1>1. ContextsOf(S) \in Nat /\ Cardinality(S) \in Nat
  BY Weights
<1>2. \A i \in DOMAIN SessionsOf : ContextsOf(Of(i, S)) \in Nat
  <2> SUFFICES ASSUME NEW i \in DOMAIN SessionsOf
               PROVE  ContextsOf(Of(i, S)) \in Nat
    OBVIOUS
  <2>1. Of(i, S) \in SUBSET AllSessions
    BY DEF Of
  <2> QED BY <2>1, Weights
<1>3. ArchiveLimits.sessions \in Nat /\ ArchiveLimits.contexts \in Nat
  BY LimitsAssumption
<1>4. CASE Cardinality(S) > ArchiveLimits.sessions \/ ContextsOf(S) > ArchiveLimits.contexts
  <2>1. ArchiveBudget(S) = [ids |-> {}, contexts |-> ContextsOf(S),
                            by |-> [i \in DOMAIN SessionsOf |-> 0], over |-> TRUE]
    BY <1>4 DEF ArchiveBudget
  <2> QED BY <1>1, <2>1
<1>5. CASE ~(Cardinality(S) > ArchiveLimits.sessions \/ ContextsOf(S) > ArchiveLimits.contexts)
  <2>1. ArchiveBudget(S) = [ids |-> S, contexts |-> ContextsOf(S),
                            by |-> [i \in DOMAIN SessionsOf |-> ContextsOf(Of(i, S))], over |-> FALSE]
    BY <1>5 DEF ArchiveBudget
  <2>2. [i \in DOMAIN SessionsOf |-> ContextsOf(Of(i, S))] \in [DOMAIN SessionsOf -> Nat]
    BY <1>2
  <2>3. Within(S)
    BY <1>1, <1>3, <1>5 DEF Within
  <2> QED BY <1>1, <2>1, <2>2, <2>3
<1> QED BY <1>4, <1>5

\* What the archive will hold and what the budget counts after one more payload.
LEMMA PayloadForeseen ==
    ASSUME IInv, BudgetStands, NEW ids, Stage(ids)
    PROVE  /\ PayloadsStand' /\ Foreseen' /\ ~budget'.over
           /\ budget' \in [ids : SUBSET AllSessions, contexts : Nat,
                           by : [DOMAIN SessionsOf -> Nat], over : BOOLEAN]
<1> DEFINE replace == plan[at].replace
           removed == IF replace THEN Of(at, budget.ids) ELSE {}
           after == (budget.ids \ removed) \cup ids
           contexts == budget.contexts - (IF replace THEN budget.by[at] ELSE 0) + ContextsOf(ids)
           p0 == [instance |-> at, ids |-> ids, replace |-> replace]
<1>1. /\ outcome = "parsing" /\ at <= Len(plan) /\ ids \subseteq SessionsOf[at]
      /\ Cardinality(ids) <= InstanceLimits.sessions
      /\ replace \/ Cardinality(Of(at, archive) \cup ids) <= InstanceLimits.sessions
      /\ ~budget.over
      /\ Cardinality(after) <= ArchiveLimits.sessions /\ contexts <= ArchiveLimits.contexts
      /\ staged' = staged \cup {p0}
      /\ at' = at + 1 /\ UNCHANGED <<plan, archive>>
  BY DEF Stage, Counted, Reconstructing, AllParsed, Opened, Taking, Sound, WithinInstanceArchive,
     AdmitsPayload, SessionsAfter, ContextsAfter, NextInstance, Current
<1>2. budget' = [budget EXCEPT !.ids = after, !.contexts = contexts,
                               !.by[at] = IF replace THEN ContextsOf(ids) ELSE @ + ContextsOf(ids)]
  BY DEF Stage, WithPayload, SessionsAfter, ContextsAfter, Current
<1>3. /\ at \in DOMAIN plan /\ at \in Nat /\ \A i \in DOMAIN plan : i \in Nat
      /\ at \in DOMAIN SessionsOf
  BY <1>1, CurrentStands DEF IInv, PlanStands, BudgetStands
<1>4. /\ budget \in [ids : SUBSET AllSessions, contexts : Nat, by : [DOMAIN SessionsOf -> Nat], over : BOOLEAN]
      /\ archive \in SUBSET AllSessions /\ DOMAIN plan \subseteq DOMAIN SessionsOf
      /\ PayloadsStand /\ Foreseen
  BY <1>1 DEF BudgetStands
<1>5. \A i, k \in DOMAIN SessionsOf : i # k => SessionsOf[i] \cap SessionsOf[k] = {}
  BY SessionsAssumption
<1>6. ids \in SUBSET AllSessions /\ budget.ids \in SUBSET AllSessions
      /\ removed \in SUBSET AllSessions /\ after \in SUBSET AllSessions
      /\ Of(at, budget.ids) \in SUBSET AllSessions
  BY <1>1, <1>3, <1>4 DEF AllSessions, Of
<1>7. /\ ContextsOf(ids) \in Nat /\ ContextsOf(budget.ids) \in Nat /\ ContextsOf(removed) \in Nat
      /\ ContextsOf(after) \in Nat /\ Cardinality(after) \in Nat
  BY <1>6, Weights
<1>8. ContextsOf(after) <= contexts /\ contexts \in Nat
  <2>1. /\ budget.contexts \in Nat /\ budget.by[at] \in Nat
        /\ ContextsOf(budget.ids) <= budget.contexts
        /\ budget.by[at] = ContextsOf(Of(at, budget.ids))
    BY <1>3, <1>4 DEF Foreseen
  <2>2. /\ budget.ids \ removed \in SUBSET AllSessions
        /\ ContextsOf(budget.ids \ removed) = ContextsOf(budget.ids) - ContextsOf(removed)
        /\ ContextsOf(budget.ids \ removed) \in Nat
    <3>1. removed \subseteq budget.ids
      BY DEF Of
    <3>2. budget.ids \ removed \in SUBSET AllSessions
      BY <1>6
    <3> HIDE DEF removed
    <3> QED BY <1>6, <3>1, <3>2, Weights
  <2>3. ContextsOf(after) <= ContextsOf(budget.ids \ removed) + ContextsOf(ids)
    <3> HIDE DEF removed
    <3> QED BY <1>6, <2>2, Weights
  <2>4. CASE replace
    <3>1. contexts = budget.contexts - budget.by[at] + ContextsOf(ids) /\ removed = Of(at, budget.ids)
      BY <2>4
    <3> HIDE DEF contexts, after, removed, replace
    <3> QED BY <1>7, <2>1, <2>2, <2>3, <3>1
  <2>5. CASE ~replace
    <3>1. contexts = budget.contexts + ContextsOf(ids) /\ removed = {}
      BY <1>7, <2>1, <2>5
    <3>2. budget.ids \ removed = budget.ids
      BY <3>1
    <3>3. ContextsOf(budget.ids \ removed) = ContextsOf(budget.ids)
      BY <3>2
    <3> HIDE DEF contexts, after, removed, replace
    <3> QED BY <1>7, <2>1, <2>3, <3>1, <3>3
  <2> QED BY <2>4, <2>5
<1>9. /\ budget' \in [ids : SUBSET AllSessions, contexts : Nat, by : [DOMAIN SessionsOf -> Nat], over : BOOLEAN]
      /\ budget'.ids = after /\ budget'.contexts = contexts /\ budget'.over = budget.over
      /\ \A i \in DOMAIN SessionsOf : i # at => budget'.by[i] = budget.by[i]
  <2> DEFINE v == IF replace THEN ContextsOf(ids) ELSE budget.by[at] + ContextsOf(ids)
  <2>1. budget.by \in [DOMAIN SessionsOf -> Nat] /\ v \in Nat
    BY <1>3, <1>4, <1>7
  <2>2. DOMAIN budget = {"ids", "contexts", "by", "over"}
    BY <1>4
  <2>3. budget' = [ids |-> after, contexts |-> contexts, by |-> [budget.by EXCEPT ![at] = v], over |-> budget.over]
    <3> HIDE DEF after, contexts, replace
    <3> QED BY <1>2, <1>4, <2>2
  <2>4. [budget.by EXCEPT ![at] = v] \in [DOMAIN SessionsOf -> Nat]
        /\ \A i \in DOMAIN SessionsOf : i # at => [budget.by EXCEPT ![at] = v][i] = budget.by[i]
    BY <2>1
  <2> HIDE DEF after, contexts, replace, v
  <2> QED BY <1>4, <1>6, <1>8, <2>3, <2>4
<1>10. PICK k : k = at
  OBVIOUS
<1>11. \A p \in staged : p.instance \in DOMAIN plan /\ p.instance < k /\ p.ids \subseteq SessionsOf[p.instance]
  BY <1>4, <1>10 DEF PayloadsStand
<1>12. Payloads' = Payloads \cup ids /\ Payloads \cap SessionsOf[k] = {}
  <2>1. Payloads' = Payloads \cup ids
    <3>1. p0.ids = ids
      OBVIOUS
    <3> HIDE DEF p0
    <3> QED BY <1>1, <3>1 DEF Payloads
  <2>2. \A p \in staged : p.ids \cap SessionsOf[k] = {}
    BY <1>3, <1>4, <1>5, <1>10, <1>11
  <2> QED BY <2>1, <2>2 DEF Payloads
<1>13. Kept' = IF replace THEN Kept \ SessionsOf[k] ELSE Kept
  <2>1. p0.instance = k /\ p0.replace = replace /\ UNCHANGED archive
    BY <1>1, <1>10
  <2> HIDE DEF p0, replace
  <2>2. \A s : s \in Kept' <=> s \in archive /\ \A p \in staged \cup {p0} : p.replace => s \notin SessionsOf[p.instance]
    BY <1>1 DEF Kept, Of
  <2>3. \A s : s \in Kept <=> s \in archive /\ \A p \in staged : p.replace => s \notin SessionsOf[p.instance]
    BY DEF Kept, Of
  <2>4. \A s : s \in Kept' <=> s \in (IF replace THEN Kept \ SessionsOf[k] ELSE Kept)
    BY <2>1, <2>2, <2>3
  <2> QED BY <2>4
<1>14. after = Kept' \cup Payloads'
  <2>1. budget.ids = Kept \cup Payloads
    BY <1>4 DEF Foreseen
  <2>2. removed = IF replace THEN budget.ids \cap SessionsOf[k] ELSE {}
    BY <1>10 DEF Of
  <2> HIDE DEF removed, replace
  <2> QED BY <1>12, <1>13, <2>1, <2>2
<1>15. \A i \in DOMAIN plan : i >= at' => budget'.by[i] = ContextsOf(Of(i, budget'.ids))
  <2> SUFFICES ASSUME NEW i \in DOMAIN plan, i > k
               PROVE  budget'.by[i] = ContextsOf(Of(i, budget'.ids))
    BY <1>1, <1>3, <1>10
  <2>1. i \in DOMAIN SessionsOf /\ i # k /\ i >= at
    BY <1>3, <1>4, <1>10
  <2>2. budget'.by[i] = ContextsOf(Of(i, budget.ids))
    BY <1>4, <1>9, <1>10, <2>1 DEF Foreseen
  <2>3. SessionsOf[i] \cap SessionsOf[k] = {}
    BY <1>3, <1>5, <1>10, <2>1
  <2>4. Of(i, after) = Of(i, budget.ids)
    BY <1>1, <1>10, <2>3 DEF Of
  <2> HIDE DEF after
  <2> QED BY <1>9, <2>2, <2>4
<1>16. Foreseen'
  <2>1. Within(archive)' /\ Within(budget.ids)'
    <3>1. Within(archive)
      BY <1>4 DEF Foreseen
    <3>2. ContextsOf(after) <= ArchiveLimits.contexts
      <4> HIDE DEF after, contexts, removed, replace, p0
      <4>1. contexts <= ArchiveLimits.contexts /\ ContextsOf(after) <= contexts
        BY <1>1, <1>8
      <4>2. contexts \in Nat /\ ContextsOf(after) \in Nat
        BY <1>7, <1>8
      <4>3. ArchiveLimits.contexts \in Nat
        BY LimitsAssumption
      <4> QED BY <4>1, <4>2, <4>3
    <3> HIDE DEF after, contexts
    <3> QED BY <1>1, <1>9, <3>1, <3>2 DEF Within
  <2> HIDE DEF after, contexts
  <2> QED BY <1>1, <1>8, <1>9, <1>14, <1>15, <2>1 DEF Foreseen
<1>17. PayloadsStand'
  <2>1. p0.instance = k /\ p0.ids = ids /\ p0.replace = replace
    BY <1>10
  <2> HIDE DEF p0
  <2>2. ASSUME NEW p \in staged'
        PROVE  /\ p.instance \in DOMAIN plan /\ p.instance < at' /\ p.ids \subseteq SessionsOf[p.instance]
               /\ Cardinality(p.ids) <= InstanceLimits.sessions
               /\ p.replace \/ Cardinality(Of(p.instance, archive) \cup p.ids) <= InstanceLimits.sessions
    <3>1. CASE p \in staged
      BY <1>1, <1>3, <1>4, <3>1 DEF PayloadsStand
    <3>2. CASE p = p0
      <4> HIDE DEF replace
      <4>1. p.instance = at /\ p.ids = ids /\ p.replace = replace
        BY <1>10, <2>1, <3>2
      <4> QED BY <1>1, <1>3, <4>1 DEF Of
    <3> QED BY <1>1, <3>1, <3>2
  <2>3. ASSUME NEW p \in staged', NEW q \in staged', p.instance = q.instance
        PROVE  p = q
    <3>1. \A x \in staged : x.instance # k
      BY <1>3, <1>11, <1>10
    <3> QED BY <1>1, <1>4, <2>1, <2>3, <3>1 DEF PayloadsStand
  <2> QED BY <1>1, <2>2, <2>3 DEF PayloadsStand
<1> QED BY <1>1, <1>9, <1>16, <1>17

LEMMA BudgetStep == IInv /\ BudgetStands /\ [Next]_vars => BudgetStands'
<1> SUFFICES ASSUME IInv, BudgetStands, [Next]_vars
             PROVE  BudgetStands'
  OBVIOUS
<1>1. CASE IndexIssue
  <2>1. UNCHANGED <<plan, at, budget, staged, archive, outcome>> /\ outcome = "indexing"
    BY <1>1 DEF IndexIssue, position, spent
  <2> QED BY <2>1 DEF BudgetStands
<1>2. CASE BeginParsing
  <2>1. /\ UNCHANGED <<plan, at, archive>> /\ outcome = "indexing" /\ outcome' = "parsing"
        /\ staged = {} /\ staged' = {} /\ budget' = ArchiveBudget(archive)
        /\ archive \in SUBSET AllSessions /\ DOMAIN plan \subseteq DOMAIN SessionsOf
    BY <1>2 DEF BeginParsing, position, BudgetStands
  <2>2. Kept = archive /\ Kept' = archive /\ Payloads' = {}
    BY <2>1 DEF Kept, Payloads
  <2>3. /\ budget' \in [ids : SUBSET AllSessions, contexts : Nat,
                        by : [DOMAIN SessionsOf -> Nat], over : BOOLEAN]
        /\ ~budget'.over =>
              /\ Within(archive) /\ budget'.ids = archive
              /\ budget'.contexts = ContextsOf(archive)
              /\ \A i \in DOMAIN SessionsOf : budget'.by[i] = ContextsOf(Of(i, archive))
    BY <2>1, Loaded
  <2>4. PayloadsStand'
    BY <2>1 DEF PayloadsStand
  <2>5. ASSUME ~budget'.over
        PROVE  Foreseen'
    <3>1. ContextsOf(archive) \in Nat /\ budget'.ids = archive /\ Within(archive)
      BY <2>1, <2>3, <2>5, Weights
    <3>2. \A i \in DOMAIN plan : budget'.by[i] = ContextsOf(Of(i, budget'.ids))
      BY <2>1, <2>3, <2>5, <3>1
    <3>3. Within(budget'.ids)
      BY <3>1
    <3>4. budget'.ids = Kept' \cup Payloads'
      BY <2>2, <3>1
    <3>5. ContextsOf(budget'.ids) = budget'.contexts /\ budget'.contexts \in Nat
      BY <2>3, <2>5, <3>1
    <3>6. budget'.contexts <= ArchiveLimits.contexts
      BY <3>1, <2>3, <2>5 DEF Within
    <3>7. Within(archive)' /\ Within(budget.ids)'
      BY <2>1, <3>1, <3>3 DEF Within
    <3>8. ContextsOf(budget'.ids) <= budget'.contexts
      BY <3>5
    <3> QED BY <2>1, <3>2, <3>4, <3>6, <3>7, <3>8 DEF Foreseen
  <2> QED BY <2>1, <2>3, <2>4, <2>5 DEF BudgetStands
<1>3. ASSUME NEW r \in ParseResults, RefuseByScan(r) \/ RefuseByInstance(r) \/ RetainLog(r) \/ FailLog(r)
      PROVE  UNCHANGED <<plan, at, budget, staged, archive, outcome>>
  BY <1>3 DEF RefuseByScan, RefuseByInstance, RetainLog, FailLog
<1>4. ASSUME UNCHANGED <<plan, at, budget, staged, archive, outcome>>
      PROVE  BudgetStands'
  <2>1. PayloadsStand' <=> PayloadsStand
    BY <1>4 DEF PayloadsStand
  <2>2. Foreseen' <=> Foreseen
    BY <1>4 DEF Foreseen, Kept, Payloads
  <2> QED BY <1>4, <2>1, <2>2 DEF BudgetStands
<1>5. ASSUME UNCHANGED <<plan, budget, staged, archive, outcome>>, at' = at + 1, outcome = "parsing"
      PROVE  BudgetStands'
  <2>1. at \in Nat /\ \A i \in DOMAIN plan : i \in Nat
    BY DEF IInv, PlanStands
  <2>2. PayloadsStand => PayloadsStand'
    <3>1. \A p \in staged : p.instance \in DOMAIN plan /\ p.instance < at => p.instance < at'
      BY <1>5, <2>1
    <3> QED BY <1>5, <3>1 DEF PayloadsStand
  <2>3. Foreseen => Foreseen'
    <3>1. \A i \in DOMAIN plan : i >= at' => i >= at
      BY <1>5, <2>1
    <3> QED BY <1>5, <3>1 DEF Foreseen, Kept, Payloads
  <2> QED BY <1>5, <2>2, <2>3 DEF BudgetStands
<1>6. CASE SkipInstance \/ DeferInstance \/ RefuseLogCount \/ DeferFailed
  BY <1>5, <1>6 DEF SkipInstance, DeferInstance, RefuseLogCount, DeferFailed, AllParsed, Opened, Taking,
     NextInstance, spent
<1>7. CASE OpenInstance
  BY <1>4, <1>7 DEF OpenInstance
<1>8. ASSUME NEW ids \in SUBSET AllSessions,
             \/ RefuseReconstruction(ids) \/ RefuseByScanSessions(ids)
             \/ RefuseByInstanceArchive(ids) \/ RefuseByArchive(ids)
      PROVE  BudgetStands'
  BY <1>5, <1>8 DEF RefuseReconstruction, RefuseByScanSessions, RefuseByInstanceArchive, RefuseByArchive,
     Refuse, Counted, Reconstructing, AllParsed, Opened, Taking, NextInstance
<1>9. ASSUME NEW ids \in SUBSET AllSessions, Stage(ids)
      PROVE  BudgetStands'
  <2>1. outcome = "parsing" /\ UNCHANGED <<plan, archive, outcome>>
    BY <1>9 DEF Stage, Counted, Reconstructing, AllParsed, Opened, Taking
  <2>2. /\ PayloadsStand' /\ Foreseen' /\ ~budget'.over
        /\ budget' \in [ids : SUBSET AllSessions, contexts : Nat,
                        by : [DOMAIN SessionsOf -> Nat], over : BOOLEAN]
    BY <1>9, PayloadForeseen
  <2> QED BY <2>1, <2>2 DEF BudgetStands
<1>10. CASE Promote
  <2>1. /\ UNCHANGED <<plan, budget>> /\ outcome' = "completed" /\ outcome = "parsing"
        /\ archive' \subseteq archive \cup Payloads
    BY <1>10 DEF Promote, spent, Payloads
  <2>2. PayloadsStand
    BY <2>1 DEF BudgetStands
  <2>3. Payloads \subseteq AllSessions
    <3>1. \A i \in DOMAIN SessionsOf : SessionsOf[i] \subseteq AllSessions
      BY DEF AllSessions
    <3>2. \A p \in staged : p.instance \in DOMAIN SessionsOf /\ p.ids \subseteq SessionsOf[p.instance]
      BY <2>2 DEF PayloadsStand, BudgetStands
    <3>3. \A p \in staged : p.ids \subseteq AllSessions
      BY <3>1, <3>2
    <3> QED BY <3>3 DEF Payloads
  <2> QED BY <2>1, <2>3 DEF BudgetStands
<1>11. CASE Cancel \/ Fail
  <2>1. UNCHANGED <<plan, budget, archive>> /\ outcome' \in {"cancelled", "failed"}
    BY <1>11 DEF Cancel, Fail, Dropped, spent
  <2> QED BY <2>1 DEF BudgetStands
<1>12. CASE UNCHANGED vars
  BY <1>4, <1>12 DEF vars, position, spent
<1> QED
  BY <1>1, <1>2, <1>3, <1>4, <1>6, <1>7, <1>8, <1>9, <1>10, <1>11, <1>12 DEF Next

\* What promotion makes of an instance: payloads of others add nothing to it.
LEMMA PromotesWithin ==
    ASSUME IInv, BudgetStands, Promote, archive' # archive
    PROVE  /\ Within(archive) /\ Within(archive')
           /\ \A i \in DOMAIN plan : Cardinality(Of(i, archive')) <=
                 Larger(InstanceLimits.sessions, Cardinality(Of(i, archive)))
<1>1. PICK gone \in [staged -> SUBSET archive] :
         /\ \A p \in staged : gone[p] \in Replaceable(p)
         /\ archive' = (archive \ UNION {gone[p] : p \in staged}) \cup Payloads
  BY DEF Promote, Payloads
<1>2. outcome = "parsing" /\ archive \in SUBSET AllSessions /\ PayloadsStand
  BY DEF Promote, BudgetStands
<1>3. staged # {}
  BY <1>1 DEF Payloads
<1>4. Foreseen /\ budget.ids \in SUBSET AllSessions
  BY <1>2, <1>3 DEF BudgetStands
<1>5. \A p \in staged : p.replace => gone[p] = Of(p.instance, archive)
  BY <1>1 DEF Replaceable
<1>6. archive' \subseteq budget.ids
  <2>1. archive \ UNION {gone[p] : p \in staged} \subseteq Kept
    BY <1>5 DEF Kept
  <2> QED BY <1>1, <1>4, <2>1 DEF Foreseen
<1>7. archive' \in SUBSET AllSessions
  BY <1>4, <1>6
<1>8. Within(archive')
  <2>1. Within(budget.ids)
    BY <1>4 DEF Foreseen
  <2>2. /\ ContextsOf(archive') <= ContextsOf(budget.ids) /\ Cardinality(archive') <= Cardinality(budget.ids)
        /\ ContextsOf(archive') \in Nat /\ Cardinality(archive') \in Nat
    BY <1>4, <1>6, <1>7, Weights
  <2>3. ContextsOf(budget.ids) \in Nat /\ Cardinality(budget.ids) \in Nat
    BY <1>4, Weights
  <2> QED BY <2>1, <2>2, <2>3, LimitsAssumption DEF Within
<1>9. ASSUME NEW i \in DOMAIN plan
      PROVE  Cardinality(Of(i, archive')) <= Larger(InstanceLimits.sessions, Cardinality(Of(i, archive)))
  <2> DEFINE new == Of(i, archive')
             old == Of(i, archive)
  <2>1. new \in SUBSET AllSessions /\ old \in SUBSET AllSessions
    BY <1>2, <1>7 DEF Of
  <2>2. /\ Cardinality(new) \in Nat /\ Cardinality(old) \in Nat /\ InstanceLimits.sessions \in Nat
        /\ \A S \in SUBSET AllSessions : new \subseteq S => Cardinality(new) <= Cardinality(S)
        /\ \A S \in SUBSET AllSessions : Cardinality(S) \in Nat
    BY <2>1, LimitsAssumption, Weights
  <2>3. \A p \in staged : p.instance # i => p.ids \cap SessionsOf[i] = {}
    BY <1>2, SessionsAssumption DEF PayloadsStand, BudgetStands
  <2>4. CASE \A p \in staged : p.instance # i
    <3>1. new \subseteq old
      BY <1>1, <2>3, <2>4 DEF Of, Payloads
    <3> HIDE DEF new, old
    <3>2. Cardinality(new) <= Cardinality(old)
      BY <2>1, <2>2, <3>1
    <3> QED BY <2>2, <3>2 DEF Larger, new, old
  <2>5. ASSUME NEW p \in staged, p.instance = i
        PROVE  Cardinality(new) <= InstanceLimits.sessions
    <3>1. /\ p.ids \subseteq SessionsOf[i] /\ Cardinality(p.ids) <= InstanceLimits.sessions
          /\ p.replace \/ Cardinality(old \cup p.ids) <= InstanceLimits.sessions
          /\ \A q \in staged : q # p => q.instance # i
      BY <1>2, <2>5 DEF PayloadsStand
    <3>2. new \subseteq old \cup p.ids /\ (p.replace => new \subseteq p.ids)
      <4>1. Payloads \cap SessionsOf[i] \subseteq p.ids
        BY <2>3, <3>1 DEF Payloads
      <4>2. p.replace => (archive \ UNION {gone[q] : q \in staged}) \cap SessionsOf[i] = {}
        BY <1>5, <2>5 DEF Of
      <4> QED BY <1>1, <4>1, <4>2 DEF Of
    <3>3. p.ids \in SUBSET AllSessions /\ old \cup p.ids \in SUBSET AllSessions
      BY <2>1, <3>1, <2>5, <1>9 DEF AllSessions, BudgetStands
    <3> HIDE DEF new, old
    <3> QED BY <2>2, <3>1, <3>2, <3>3
  <2>6. (\E p \in staged : p.instance = i) => Cardinality(new) <= InstanceLimits.sessions
    BY <2>5
  <2> HIDE DEF new, old
  <2>7. Cardinality(new) <= InstanceLimits.sessions =>
           Cardinality(new) <= Larger(InstanceLimits.sessions, Cardinality(old))
    BY <2>2 DEF Larger
  <2> QED BY <2>4, <2>6, <2>7 DEF new, old
<1> QED BY <1>4, <1>8, <1>9 DEF Foreseen

\* Before parsing nothing has been admitted.
LEMMA BudgetStarts == Init => BudgetStands
<1> SUFFICES ASSUME Init
             PROVE  BudgetStands
  OBVIOUS
<1>1. /\ archive \in Archives /\ plan \in Plans /\ outcome = "indexing" /\ staged = {} /\ at = 1
      /\ budget = ArchiveBudget({})
  BY DEF Init
<1>2. budget \in [ids : SUBSET AllSessions, contexts : Nat,
                  by : [DOMAIN SessionsOf -> Nat], over : BOOLEAN]
  BY <1>1, Loaded
<1> QED BY <1>1, <1>2, SessionsAssumption DEF BudgetStands

\* Promotion never takes the archive over its limits, nor an instance over its
\* own, whatever the limits, the archive and the payloads are: what the budget
\* admits of each payload before any is promoted is enough for all of them.
THEOREM PromotionStaysWithinLimits == Spec => ArchiveStaysWithinLimits
<1>1. IInv /\ BudgetStands /\ [Next]_vars =>
         [archive' # archive =>
             /\ Within(archive) /\ Within(archive')
             /\ \A i \in DOMAIN plan : Cardinality(Of(i, archive')) <=
                   Larger(InstanceLimits.sessions, Cardinality(Of(i, archive)))]_vars
  <2> SUFFICES ASSUME IInv, BudgetStands, [Next]_vars, archive' # archive
               PROVE  /\ Within(archive) /\ Within(archive')
                      /\ \A i \in DOMAIN plan : Cardinality(Of(i, archive')) <=
                            Larger(InstanceLimits.sessions, Cardinality(Of(i, archive)))
    OBVIOUS
  <2>1. Promote
    BY DEF Next, vars, spent, IndexIssue, BeginParsing, SkipInstance, DeferInstance, RefuseLogCount,
       OpenInstance, RefuseByScan, RefuseByInstance, RetainLog, FailLog, DeferFailed,
       RefuseReconstruction, RefuseByScanSessions, RefuseByInstanceArchive, RefuseByArchive, Refuse,
       Stage, Cancel, Fail, Dropped
  <2> QED BY <2>1, PromotesWithin
<1> QED
  BY <1>1, BudgetStarts, BudgetStep, InvariantHolds, PTL DEF Spec, ArchiveStaysWithinLimits

-----------------------------------------------------------------------------
(***************************************************************************)
(* Types.  What the scan and the instance at hand have been charged is     *)
(* within their limits: a charge is made only where it fits.               *)
(***************************************************************************)
Marked == {"pending", "parsed", "warning", "failed"}
MarksTyped == \A k \in DOMAIN plan : marks[k] \in [DOMAIN plan[k].logs -> Marked]
SpentWithin ==
    /\ scan \in [logs : Nat, bytes : Nat, events : Nat, sessions : Nat, contexts : Nat]
    /\ Holds(instance, InstanceLimits) /\ Holds(scan, ScanLimits) /\ HoldsSessions(scan)
TypesStand ==
    /\ plan \in Plans /\ failed \subseteq Nat /\ exhausted \in BOOLEAN
    /\ outcome \in {"indexing", "parsing", "completed", "cancelled", "failed"}
    /\ MarksTyped /\ SpentWithin

\* Marking one instance.
LEMMA MarksStayTyped ==
    ASSUME MarksTyped, UNCHANGED plan, NEW m \in [DOMAIN plan[at].logs -> Marked], Mark(m)
    PROVE  MarksTyped'
<1> SUFFICES ASSUME NEW k \in DOMAIN plan
             PROVE  marks'[k] \in [DOMAIN plan[k].logs -> Marked]
  BY DEF MarksTyped
<1>1. marks' = [marks EXCEPT ![at] = m] /\ marks[k] \in [DOMAIN plan[k].logs -> Marked]
  BY DEF Mark, MarksTyped
<1>2. CASE k = at
  BY <1>1, <1>2
<1>3. CASE k # at
  BY <1>1, <1>3
<1> QED BY <1>2, <1>3

\* What the marks become where an instance is taken, given up or gone on with.
LEMMA MarkTypes ==
    ASSUME IInv, MarksTyped, outcome = "parsing", at <= Len(plan)
    PROVE  /\ at \in DOMAIN plan /\ marks[at] \in [DOMAIN plan[at].logs -> Marked]
           /\ MarkSettled \in [DOMAIN plan[at].logs -> Marked]
           /\ MarkDeferred(MarkSettled) \in [DOMAIN plan[at].logs -> Marked]
           /\ MarkDeferred(marks[at]) \in [DOMAIN plan[at].logs -> Marked]
           /\ \A f \in DOMAIN plan[at].logs : \A v \in Marked :
                 [marks[at] EXCEPT ![f] = v] \in [DOMAIN plan[at].logs -> Marked]
<1>1. at \in DOMAIN plan
  BY CurrentStands
<1>2. marks[at] \in [DOMAIN plan[at].logs -> Marked]
  BY <1>1 DEF MarksTyped
<1>3. MarkSettled \in [DOMAIN plan[at].logs -> Marked]
  BY DEF MarkSettled, Current, Marked
<1>4. \A m \in [DOMAIN plan[at].logs -> Marked] : MarkDeferred(m) \in [DOMAIN plan[at].logs -> Marked]
  BY DEF MarkDeferred, Current, Marked
<1> QED BY <1>1, <1>2, <1>3, <1>4

\* A charge for a log leaves sessions and contexts as they are.
LEMMA ChargesLog ==
    ASSUME SpentWithin, NEW cost, cost.bytes \in Nat, cost.events \in Nat,
           Holds(Charged(scan, cost), ScanLimits), scan' = Charged(scan, cost),
           Holds(instance, InstanceLimits)'
    PROVE  SpentWithin'
<1>1. /\ scan \in [logs : Nat, bytes : Nat, events : Nat, sessions : Nat, contexts : Nat]
      /\ HoldsSessions(scan)
  BY DEF SpentWithin
<1>2. /\ scan' \in [logs : Nat, bytes : Nat, events : Nat, sessions : Nat, contexts : Nat]
      /\ scan'.sessions = scan.sessions /\ scan'.contexts = scan.contexts
  <2>1. /\ DOMAIN scan = {"logs", "bytes", "events", "sessions", "contexts"}
        /\ scan.logs + 1 \in Nat /\ scan.bytes + cost.bytes \in Nat
        /\ scan.events + cost.events \in Nat
    BY <1>1
  <2>2. scan' = [logs |-> scan.logs + 1, bytes |-> scan.bytes + cost.bytes,
                 events |-> scan.events + cost.events,
                 sessions |-> scan.sessions, contexts |-> scan.contexts]
    BY <1>1, <2>1 DEF Charged
  <2> QED BY <1>1, <2>1, <2>2
<1>3. HoldsSessions(scan')
  BY <1>1, <1>2 DEF HoldsSessions
<1> QED BY <1>2, <1>3 DEF SpentWithin

\* A charge for sessions leaves what logs were charged as it is.
LEMMA ChargesForSessions ==
    ASSUME SpentWithin, NEW ids \in SUBSET AllSessions,
           HoldsSessions(ChargedSessions(scan, ids)), scan' = ChargedSessions(scan, ids),
           UNCHANGED instance
    PROVE  SpentWithin'
<1>1. /\ scan \in [logs : Nat, bytes : Nat, events : Nat, sessions : Nat, contexts : Nat]
      /\ Holds(scan, ScanLimits) /\ Holds(instance, InstanceLimits)
  BY DEF SpentWithin
<1>2. Cardinality(ids) \in Nat /\ ContextsOf(ids) \in Nat
  BY Weights
<1>3. /\ scan' \in [logs : Nat, bytes : Nat, events : Nat, sessions : Nat, contexts : Nat]
      /\ scan'.logs = scan.logs /\ scan'.bytes = scan.bytes /\ scan'.events = scan.events
  <2>1. /\ DOMAIN scan = {"logs", "bytes", "events", "sessions", "contexts"}
        /\ scan.sessions + Cardinality(ids) \in Nat /\ scan.contexts + ContextsOf(ids) \in Nat
    BY <1>1, <1>2
  <2>2. scan' = [logs |-> scan.logs, bytes |-> scan.bytes, events |-> scan.events,
                 sessions |-> scan.sessions + Cardinality(ids),
                 contexts |-> scan.contexts + ContextsOf(ids)]
    BY <1>1, <2>1 DEF ChargedSessions
  <2> QED BY <1>1, <2>1, <2>2
<1>4. Holds(scan', ScanLimits)
  BY <1>1, <1>3 DEF Holds
<1> QED BY <1>1, <1>3, <1>4 DEF SpentWithin

\* Steps at the head of an instance, and those that give one up.
LEMMA TypesAtHead ==
    ASSUME IInv, TypesStand, SkipInstance \/ DeferInstance \/ RefuseLogCount \/ OpenInstance \/ DeferFailed
    PROVE  TypesStand'
<1>1. outcome = "parsing" /\ at <= Len(plan)
  BY DEF SkipInstance, DeferInstance, RefuseLogCount, OpenInstance, DeferFailed, AllParsed, Opened, Taking
<1>2. /\ UNCHANGED <<plan, outcome, exhausted, scan>> /\ failed' \in {failed, {}}
      /\ instance' \in {instance, NoLogs}
  BY DEF SkipInstance, DeferInstance, RefuseLogCount, OpenInstance, DeferFailed, spent, NextInstance
<1>3. \/ Mark(MarkSettled) \/ Mark(MarkDeferred(MarkSettled)) \/ Mark(MarkDeferred(marks[at]))
  BY DEF SkipInstance, DeferInstance, RefuseLogCount, OpenInstance, DeferFailed
<1>4. MarksTyped'
  BY <1>1, <1>2, <1>3, MarkTypes, MarksStayTyped DEF TypesStand
<1>5. Holds(NoLogs, InstanceLimits)
  BY LimitsAssumption DEF Holds, NoLogs
<1>6. SpentWithin'
  BY <1>2, <1>5 DEF TypesStand, SpentWithin
<1> QED BY <1>2, <1>4, <1>6 DEF TypesStand

\* Steps that take a log.
LEMMA TypesAtLog ==
    ASSUME IInv, TypesStand, NEW r \in ParseResults,
           RefuseByScan(r) \/ RefuseByInstance(r) \/ RetainLog(r) \/ FailLog(r)
    PROVE  TypesStand'
<1>1. outcome = "parsing" /\ at <= Len(plan) /\ log # 0 /\ log <= Len(plan[at].logs)
  BY DEF RefuseByScan, RefuseByInstance, RetainLog, FailLog, Parsing, Opened, Taking, Current
<1>2. log \in Nat /\ log \in DOMAIN plan[at].logs
  BY <1>1, CurrentStands DEF IInv, PlanStands
<1>3. UNCHANGED <<plan, outcome>> /\ failed' \in {failed, failed \cup {log}}
  BY DEF RefuseByScan, RefuseByInstance, RetainLog, FailLog, FailLogMark
<1>4. exhausted' \in {exhausted, TRUE}
  BY DEF RefuseByScan, RefuseByInstance, RetainLog, FailLog
<1>5. \E v \in {"failed", "warning", "parsed"} : Mark([marks[at] EXCEPT ![log] = v])
  BY DEF RefuseByScan, RefuseByInstance, RetainLog, FailLog, FailLogMark
<1>6. MarksTyped'
  <2>1. \A v \in {"failed", "warning", "parsed"} : v \in Marked
    BY DEF Marked
  <2>2. PICK v \in Marked : Mark([marks[at] EXCEPT ![log] = v])
    BY <1>5, <2>1
  <2>3. [marks[at] EXCEPT ![log] = v] \in [DOMAIN plan[at].logs -> Marked]
    BY <1>1, <1>2, MarkTypes DEF TypesStand
  <2> QED BY <1>3, <2>2, <2>3, MarksStayTyped DEF TypesStand
<1>7. SpentWithin'
  <2>1. SpentWithin /\ r.bytes \in Nat /\ r.events \in Nat
        /\ FailedParse.bytes \in Nat /\ FailedParse.events \in Nat
    BY LimitsAssumption DEF TypesStand
  <2>2. CASE UNCHANGED <<scan, instance>>
    BY <2>1, <2>2 DEF SpentWithin
  <2>3. ASSUME NEW cost \in {r, FailedParse}, scan' = Charged(scan, cost),
               Holds(Charged(scan, cost), ScanLimits),
               \/ instance' = instance
               \/ instance' = Charged(instance, r) /\ Holds(Charged(instance, r), InstanceLimits)
        PROVE  SpentWithin'
    <3>1. Holds(instance', InstanceLimits)
      BY <2>1, <2>3 DEF SpentWithin
    <3>2. cost.bytes \in Nat /\ cost.events \in Nat
      BY <2>1
    <3> QED BY <2>1, <2>3, <3>1, <3>2, ChargesLog
  <2> QED BY <2>2, <2>3 DEF RefuseByScan, RefuseByInstance, RetainLog, FailLog
<1> QED BY <1>2, <1>3, <1>4, <1>6, <1>7 DEF TypesStand

\* Steps after the logs of an instance.
LEMMA TypesAtSessions ==
    ASSUME IInv, TypesStand, NEW ids \in SUBSET AllSessions,
           \/ RefuseReconstruction(ids) \/ RefuseByScanSessions(ids)
           \/ RefuseByInstanceArchive(ids) \/ RefuseByArchive(ids) \/ Stage(ids)
    PROVE  TypesStand'
<1>1. outcome = "parsing" /\ at <= Len(plan)
  BY DEF RefuseReconstruction, RefuseByScanSessions, RefuseByInstanceArchive, RefuseByArchive, Stage,
         Counted, Reconstructing, AllParsed, Opened, Taking
<1>2. /\ UNCHANGED <<plan, outcome, instance>> /\ failed' = {} /\ exhausted' \in {exhausted, TRUE}
      /\ UNCHANGED marks \/ Mark(MarkDeferred(marks[at]))
      /\ UNCHANGED scan \/ (HoldsSessions(ChargedSessions(scan, ids)) /\ scan' = ChargedSessions(scan, ids))
  BY DEF RefuseReconstruction, RefuseByScanSessions, RefuseByInstanceArchive, RefuseByArchive, Stage,
         Counted, Refuse, NextInstance, TypesStand
<1>3. MarksTyped'
  <2>1. CASE UNCHANGED marks
    BY <1>2, <2>1 DEF TypesStand, MarksTyped
  <2>2. CASE Mark(MarkDeferred(marks[at]))
    BY <1>1, <1>2, <2>2, MarkTypes, MarksStayTyped DEF TypesStand
  <2> QED BY <1>2, <2>1, <2>2
<1>4. SpentWithin'
  <2>1. CASE UNCHANGED scan
    BY <1>2, <2>1 DEF TypesStand, SpentWithin
  <2>2. CASE HoldsSessions(ChargedSessions(scan, ids)) /\ scan' = ChargedSessions(scan, ids)
    BY <1>2, <2>2, ChargesForSessions DEF TypesStand
  <2> QED BY <1>2, <2>1, <2>2
<1> QED BY <1>2, <1>3, <1>4 DEF TypesStand

LEMMA TypesStep == IInv /\ TypesStand /\ [Next]_vars => TypesStand'
<1> SUFFICES ASSUME IInv, TypesStand, [Next]_vars
             PROVE  TypesStand'
  OBVIOUS
<1>1. CASE IndexIssue \/ BeginParsing \/ Promote \/ Cancel \/ Fail \/ UNCHANGED vars
  <2>1. /\ UNCHANGED <<plan, marks, failed, instance, scan, exhausted>>
        /\ outcome' \in {outcome, "parsing", "completed", "cancelled", "failed"}
    BY <1>1 DEF IndexIssue, BeginParsing, Promote, Cancel, Fail, Dropped, vars, spent
  <2>2. MarksTyped'
    BY <2>1 DEF TypesStand, MarksTyped
  <2>3. SpentWithin'
    BY <2>1 DEF TypesStand, SpentWithin
  <2> QED BY <2>1, <2>2, <2>3 DEF TypesStand
<1> QED BY <1>1, TypesAtHead, TypesAtLog, TypesAtSessions DEF Next

\* Every variable has its type, and no budget is ever charged past its limit,
\* neither by logs nor by the sessions they yield.
THEOREM TypeCorrect == Spec => []TypeOK
<1>1. Init => TypesStand
  <2> SUFFICES ASSUME Init
               PROVE  TypesStand
    OBVIOUS
  <2>1. /\ plan \in Plans /\ failed = {} /\ exhausted = FALSE /\ outcome = "indexing"
        /\ marks = [k \in DOMAIN plan |-> [f \in DOMAIN plan[k].logs |-> "pending"]]
    BY DEF Init
  <2>2. MarksTyped
    BY <2>1 DEF MarksTyped, Marked
  <2>3. SpentWithin
    BY LimitsAssumption DEF Init, SpentWithin, Holds, HoldsSessions, NoLogs
  <2> QED BY <2>1, <2>2, <2>3 DEF TypesStand
<1>2. IInv /\ TypesStand /\ IssuesStand /\ BudgetStands => TypeOK
  <2> SUFFICES ASSUME IInv, TypesStand, IssuesStand, BudgetStands
               PROVE  TypeOK
    OBVIOUS
  <2>1. at \in 1..(Len(plan) + 1) /\ log \in Nat
    BY DEF IInv, PlanStands
  <2>2. messages \in Seq(Issue) /\ status.issues \in Seq(Issue)
    BY NewestShape, LimitsAssumption DEF IssuesStand
  <2>3. archive \subseteq AllSessions /\ budget.ids \subseteq AllSessions
    BY DEF BudgetStands
  <2> QED BY <2>1, <2>2, <2>3 DEF TypeOK, TypesStand, MarksTyped, Marked, SpentWithin
<1>3. IInv /\ IssuesStand /\ [Next]_vars => IssuesStand'
  BY TellingStep, StepsTell
<1> QED
  BY <1>1, <1>2, <1>3, IssuesStart, BudgetStarts, TypesStep, BudgetStep, InvariantHolds, PTL DEF Spec
=============================================================================
