--------------------------- MODULE ScanLifecycle ---------------------------
(***************************************************************************)
(* The life of a scan run in MineTrace: ScanService (the memory of one app *)
(* process: status, cancellation token, worker threads), the commands that *)
(* call it from concurrent threads, and the SQLite database that outlives  *)
(* the process and that a second process may open at the same time.        *)
(*                                                                         *)
(* Granularity: one action per critical section.  A section is one hold of *)
(* the status mutex, one hold of the cancellation mutex, or one immediate  *)
(* transaction; the code nests none of them, so every interleaving of      *)
(* sections is possible and no finer one is observable.  What the worker   *)
(* does between two sections touches only its own memory.                  *)
(*                                                                         *)
(* Data abstracted: a scan writes Rows, one inventory row and one session  *)
(* row per instance; the contents of a row are the scan that wrote it.     *)
(* Progress counters, messages, modes and display paths are left out.      *)
(***************************************************************************)
EXTENDS Integers, FiniteSets

CONSTANTS
    Procs,            \* app processes that open the same database file
    Callers,          \* threads running API commands
    Home,             \* Home[c]: the process thread c belongs to
    Scans,            \* scan run ids; bounds how many scans may begin
    Instances,        \* Minecraft instances a scan may find
    NoScan,           \* no scan: the empty id, the empty slot
    RollbackMayFail   \* whether rollback_scan may return a database error

ASSUME ProcsAssumption == Procs # {}
ASSUME HomeAssumption == Home \in [Callers -> Procs]
ASSUME NoScanAssumption == NoScan \notin Scans
ASSUME RollbackAssumption == RollbackMayFail \in BOOLEAN

Rows == {"sources", "sessions"} \X Instances

VARIABLES
    \* the database: survives crashes, shared by all processes
    run,        \* run[s]: scan_runs.state, "none" before the row exists
    staged,     \* staged[s]: rows of scan s in the scan_staged_* tables
    archive,    \* archive[r]: the scan whose version of row r is canonical
    revision,   \* dataset_state.revision
    latest,     \* the run that became terminal last (latest_terminal_scan)
    \* the memory of each process
    up,         \* up[p]: process p has initialised and serves commands
    status,     \* status[p]: the ScanStatus behind its mutex
    slot,       \* slot[p]: whose token the cancellation mutex holds
    cancelled,  \* cancelled[s]: the AtomicBool of the token of scan s
    \* threads
    callAt,     \* callAt[c]: the next section of caller c
    callScan,   \* callScan[c]: the scan that caller c holds in a local
    owner,      \* owner[s]: the process that began scan s
    at,         \* at[s]: the next section of the worker thread of scan s
    phase,      \* phase[s]: the phase that worker is in
    verdict,    \* verdict[s]: the outcome finish_worker will publish
    built       \* built[s]: the rows the worker of s staged, all in all

database == <<run, staged, archive, revision, latest>>
memory   == <<up, status, slot, cancelled>>
calls    == <<callAt, callScan, owner>>
workers  == <<at, phase, verdict, built>>
vars     == <<database, memory, calls, workers>>

Active   == {"queued", "running"}
Terminal == {"completed", "cancelled", "failed", "interrupted"}
RunState == {"none"} \cup Active \cup Terminal
Phase    == {"discovering", "indexing", "parsing", "aggregating"}

\* Mutant: an idle service gets a state of its own.
IdleAsState == [id |-> NoScan, state |-> "idle"]

\* ScanStatus::idle(): state Completed, phase Idle, empty id.
Idle == [id |-> NoScan, state |-> "completed"]
Status == [id : Scans \cup {NoScan}, state : Active \cup Terminal]

CallPoint == {"idle", "begin", "publish", "token", "spawn",
              "unspawned", "untoken", "unstatus", "query", "restore"}
WorkPoint == {"none", "enter", "persist", "work", "promote",
              "rollback", "settle", "release", "gone"}
Working   == {"enter", "persist", "work", "promote"}

TypeOK ==
    /\ run \in [Scans -> RunState]
    /\ staged \in [Scans -> SUBSET Rows]
    /\ archive \in [Rows -> Scans \cup {NoScan}]
    /\ revision \in Nat
    /\ latest \in Scans \cup {NoScan}
    /\ up \in [Procs -> BOOLEAN]
    /\ status \in [Procs -> Status]
    /\ slot \in [Procs -> Scans \cup {NoScan}]
    /\ cancelled \in [Scans -> BOOLEAN]
    /\ callAt \in [Callers -> CallPoint]
    /\ callScan \in [Callers -> Scans \cup {NoScan}]
    /\ owner \in [Scans -> Procs]
    /\ at \in [Scans -> WorkPoint]
    /\ phase \in [Scans -> Phase]
    /\ verdict \in [Scans -> Terminal]
    /\ built \in [Scans -> SUBSET Rows]

Init ==
    /\ run = [s \in Scans |-> "none"]
    /\ staged = [s \in Scans |-> {}]
    /\ archive = [r \in Rows |-> NoScan]
    /\ revision = 0
    /\ latest = NoScan
    /\ up = [p \in Procs |-> FALSE]
    /\ status = [p \in Procs |-> Idle]
    /\ slot = [p \in Procs |-> NoScan]
    /\ cancelled = [s \in Scans |-> FALSE]
    /\ callAt = [c \in Callers |-> "idle"]
    /\ callScan = [c \in Callers |-> NoScan]
    /\ owner = [s \in Scans |-> CHOOSE p \in Procs : TRUE]
    /\ at = [s \in Scans |-> "none"]
    /\ phase = [s \in Scans |-> "discovering"]
    /\ verdict = [s \in Scans |-> "failed"]
    /\ built = [s \in Scans |-> {}]

-----------------------------------------------------------------------------
(***************************************************************************)
(* Transactions of the database.                                           *)
(***************************************************************************)

\* What the partial unique index idx_scan_runs_single_active looks at.
ScanIsActive == \E s \in Scans : run[s] \in Active

\* Mutant: rollback moves the state and leaves the staging tables to recovery.
RollbackKeepsStaging(s, outcome) ==
    /\ run' = [run EXCEPT ![s] = IF @ \in Active THEN outcome ELSE @]
    /\ latest' = IF run[s] \in Active THEN s ELSE latest
    /\ UNCHANGED <<staged, archive, revision>>

\* Mutant: the state filter of the update forgets 'running'.
RollbackQueuedOnly(s, outcome) ==
    /\ staged' = [staged EXCEPT ![s] = {}]
    /\ run' = [run EXCEPT ![s] = IF @ = "queued" THEN outcome ELSE @]
    /\ latest' = IF run[s] = "queued" THEN s ELSE latest
    /\ UNCHANGED <<archive, revision>>

\* rollback_scan, and the persist_status_snapshot that callers run before it:
\* staging is cleared whatever the state, the state moves only if active.
\* Both results are dropped by every caller (let _ = ...).
RollbackScan(s, outcome) ==
    /\ \/ /\ staged' = [staged EXCEPT ![s] = {}]
          /\ run' = [run EXCEPT ![s] = IF @ \in Active THEN outcome ELSE @]
          /\ latest' = IF run[s] \in Active THEN s ELSE latest
       \/ /\ RollbackMayFail
          /\ run' = [run EXCEPT ![s] = IF @ \in Active THEN "running" ELSE @]
          /\ UNCHANGED <<staged, latest>>
    /\ UNCHANGED <<archive, revision>>

\* Mutant: promote_scan without its check of the run's state.
PromoteAnyState(s) ==
    /\ archive' = [r \in Rows |-> IF r \in staged[s] THEN s ELSE archive[r]]
    /\ revision' = revision + 1
    /\ run' = [run EXCEPT ![s] = "completed"]
    /\ staged' = [staged EXCEPT ![s] = {}]
    /\ latest' = s

\* promote_scan: refuses a run that is not active; otherwise one transaction
\* installs every staged row, bumps the revision if anything changed,
\* completes the run and clears its staging.
PromoteScan(s) ==
    /\ run[s] \in Active
    /\ \/ /\ staged[s] # {}
          /\ archive' = [r \in Rows |-> IF r \in staged[s] THEN s ELSE archive[r]]
          /\ revision' = revision + 1
       \/ /\ \A i \in Instances : <<"sessions", i>> \notin staged[s]
          /\ UNCHANGED <<archive, revision>>
    /\ run' = [run EXCEPT ![s] = "completed"]
    /\ staged' = [staged EXCEPT ![s] = {}]
    /\ latest' = s

\* Mutant: recovery clears all staging and forgets runs that are 'running'.
RecoverForgetsRunning ==
    /\ run' = [s \in Scans |-> IF run[s] = "queued" THEN "interrupted" ELSE run[s]]
    /\ staged' = [s \in Scans |-> {}]
    /\ UNCHANGED <<latest, archive, revision>>

\* recover_interrupted_scans: interrupts whatever is active and deletes the
\* staging of every interrupted run, of this process or of another.
RecoverInterruptedScans ==
    /\ run' = [s \in Scans |-> IF run[s] \in Active THEN "interrupted" ELSE run[s]]
    /\ staged' = [s \in Scans |-> IF run'[s] = "interrupted" THEN {} ELSE staged[s]]
    /\ latest' = IF ScanIsActive THEN CHOOSE s \in Scans : run[s] \in Active ELSE latest
    /\ UNCHANGED <<archive, revision>>

-----------------------------------------------------------------------------
(***************************************************************************)
(* ScanService::start, one action per section.  A start that finds a scan  *)
(* running returns its status and changes nothing, so it is no action.     *)
(***************************************************************************)
\* Mutant: start does not look at the status and relies on the unique index.
StartUnchecked(c) ==
    /\ callAt[c] = "idle" /\ up[Home[c]]
    /\ callAt' = [callAt EXCEPT ![c] = "begin"]
    /\ UNCHANGED <<database, memory, callScan, owner, workers>>

StartCheck(c) ==
    /\ callAt[c] = "idle" /\ up[Home[c]]
    /\ status[Home[c]].state \in Terminal
    /\ callAt' = [callAt EXCEPT ![c] = "begin"]
    /\ UNCHANGED <<database, memory, callScan, owner, workers>>

\* Mutant: begin_scan without the unique index.
BeginScanUnindexed(c) ==
    /\ callAt[c] = "begin"
    /\ \E s \in Scans :
          /\ run[s] = "none"
          /\ run' = [run EXCEPT ![s] = "queued"]
          /\ owner' = [owner EXCEPT ![s] = Home[c]]
          /\ callScan' = [callScan EXCEPT ![c] = s]
    /\ callAt' = [callAt EXCEPT ![c] = "publish"]
    /\ UNCHANGED <<staged, archive, revision, latest, memory, workers>>

BeginScan(c) ==
    /\ callAt[c] = "begin"
    /\ ~ScanIsActive
    /\ \E s \in Scans :
          /\ run[s] = "none"
          /\ run' = [run EXCEPT ![s] = "queued"]
          /\ owner' = [owner EXCEPT ![s] = Home[c]]
          /\ callScan' = [callScan EXCEPT ![c] = s]
    /\ callAt' = [callAt EXCEPT ![c] = "publish"]
    /\ UNCHANGED <<staged, archive, revision, latest, memory, workers>>

\* The unique index refuses a second active run, or the database is busy.
BeginFails(c) ==
    /\ callAt[c] = "begin"
    /\ callAt' = [callAt EXCEPT ![c] = "idle"]
    /\ UNCHANGED <<database, memory, callScan, owner, workers>>

PublishQueued(c) ==
    /\ callAt[c] = "publish"
    /\ status' = [status EXCEPT ![Home[c]] = [id |-> callScan[c], state |-> "queued"]]
    /\ callAt' = [callAt EXCEPT ![c] = "token"]
    /\ UNCHANGED <<database, up, slot, cancelled, callScan, owner, workers>>

PublishToken(c) ==
    /\ callAt[c] = "token"
    /\ slot' = [slot EXCEPT ![Home[c]] = callScan[c]]
    /\ callAt' = [callAt EXCEPT ![c] = "spawn"]
    /\ UNCHANGED <<database, up, status, cancelled, callScan, owner, workers>>

SpawnWorker(c) ==
    /\ callAt[c] = "spawn"
    /\ at' = [at EXCEPT ![callScan[c]] = "enter"]
    /\ callAt' = [callAt EXCEPT ![c] = "idle"]
    /\ callScan' = [callScan EXCEPT ![c] = NoScan]
    /\ UNCHANGED <<database, memory, owner, phase, verdict, built>>

\* Mutant: the spawn error path clears memory and forgets the database.
SpawnFailsWithoutRollback(c) ==
    /\ callAt[c] = "spawn"
    /\ callAt' = [callAt EXCEPT ![c] = "untoken"]
    /\ UNCHANGED <<database, memory, callScan, owner, workers>>

SpawnFails(c) ==
    /\ callAt[c] = "spawn"
    /\ callAt' = [callAt EXCEPT ![c] = "unspawned"]
    /\ UNCHANGED <<database, memory, callScan, owner, workers>>

RollbackUnspawned(c) ==
    /\ callAt[c] = "unspawned"
    /\ RollbackScan(callScan[c], "failed")
    /\ callAt' = [callAt EXCEPT ![c] = "untoken"]
    /\ UNCHANGED <<memory, callScan, owner, workers>>

ClearUnspawnedToken(c) ==
    /\ callAt[c] = "untoken"
    /\ slot' = [slot EXCEPT ![Home[c]] = NoScan]
    /\ callAt' = [callAt EXCEPT ![c] = "unstatus"]
    /\ UNCHANGED <<database, up, status, cancelled, callScan, owner, workers>>

PublishSpawnFailure(c) ==
    /\ callAt[c] = "unstatus"
    /\ status' = [status EXCEPT ![Home[c]].state = "failed"]
    /\ callAt' = [callAt EXCEPT ![c] = "idle"]
    /\ callScan' = [callScan EXCEPT ![c] = NoScan]
    /\ UNCHANGED <<database, up, slot, cancelled, owner, workers>>

-----------------------------------------------------------------------------
(***************************************************************************)
(* ScanService::status.  Only the untouched idle status leads anywhere: it *)
(* is read in one section, replaced by the durable terminal run in another.*)
(***************************************************************************)
GetStatusIdle(c) ==
    /\ callAt[c] = "idle" /\ up[Home[c]]
    /\ status[Home[c]].id = NoScan
    /\ callAt' = [callAt EXCEPT ![c] = "query"]
    /\ UNCHANGED <<database, memory, callScan, owner, workers>>

QueryLatestTerminal(c) ==
    /\ callAt[c] = "query"
    /\ callScan' = [callScan EXCEPT ![c] = latest]
    /\ callAt' = [callAt EXCEPT ![c] = IF latest = NoScan THEN "idle" ELSE "restore"]
    /\ UNCHANGED <<database, memory, owner, workers>>

\* ScanStatus::from_durable; a terminal run never changes, so reading its
\* state here is reading the snapshot the query returned.
FromDurable(state) ==
    IF state \in {"completed", "cancelled", "failed"} THEN state ELSE "interrupted"

RestoreStatus(c) ==
    /\ callAt[c] = "restore"
    /\ status' = [status EXCEPT ![Home[c]] =
                     [id |-> callScan[c], state |-> FromDurable(run[callScan[c]])]]
    /\ callAt' = [callAt EXCEPT ![c] = "idle"]
    /\ callScan' = [callScan EXCEPT ![c] = NoScan]
    /\ UNCHANGED <<database, up, slot, cancelled, owner, workers>>

(***************************************************************************)
(* ScanService::cancel stores into the token of the slot, then polls the   *)
(* status until it is terminal or two seconds have passed, changing        *)
(* nothing.  With an empty slot it is status(), that is GetStatusIdle.     *)
(***************************************************************************)
Cancel(c) ==
    /\ callAt[c] = "idle" /\ up[Home[c]]
    /\ slot[Home[c]] # NoScan
    /\ cancelled' = [cancelled EXCEPT ![slot[Home[c]]] = TRUE]
    /\ UNCHANGED <<database, up, status, slot, calls, workers>>

-----------------------------------------------------------------------------
(***************************************************************************)
(* run_worker.  update_phase is two sections: the status, then the run.    *)
(***************************************************************************)
PublishPhase(s) ==
    /\ at[s] = "enter"
    /\ status' = [status EXCEPT ![owner[s]].state = "running"]
    /\ at' = [at EXCEPT ![s] = "persist"]
    /\ UNCHANGED <<database, up, slot, cancelled, calls, phase, verdict, built>>

\* update_scan_phase matches no row when the run is no longer active, and
\* the worker is not told.
PersistPhase(s) ==
    /\ at[s] = "persist"
    /\ run' = [run EXCEPT ![s] = IF @ \in Active THEN "running" ELSE @]
    /\ at' = [at EXCEPT ![s] = "work"]
    /\ UNCHANGED <<staged, archive, revision, latest, memory, calls, phase, verdict, built>>

Stage(s, r) ==
    /\ staged' = [staged EXCEPT ![s] = @ \cup {r}]
    /\ built' = [built EXCEPT ![s] = @ \cup {r}]
    /\ UNCHANGED <<run, archive, revision, latest, memory, calls, at, phase, verdict>>

\* One turn of the inventory loop, check_cancelled included.
StageInventory(s, i) ==
    /\ at[s] = "work" /\ phase[s] = "indexing"
    /\ ~cancelled[s]
    /\ <<"sources", i>> \notin built[s]
    /\ Stage(s, <<"sources", i>>)

\* One turn of the parsing loop.  An instance that is unchanged, that fails
\* to parse or that exceeds a budget takes no such turn.
StageReconstruction(s, i) ==
    /\ at[s] = "work" /\ phase[s] = "parsing"
    /\ ~cancelled[s]
    /\ <<"sources", i>> \in built[s] /\ <<"sessions", i>> \notin built[s]
    /\ Stage(s, <<"sessions", i>>)

\* check_cancelled stands after discovery and after the parsing loop; the
\* step from indexing to parsing has none.
NextPhase(s) ==
    /\ at[s] = "work" /\ phase[s] # "aggregating"
    /\ phase[s] \in {"discovering", "parsing"} => ~cancelled[s]
    /\ phase' = [phase EXCEPT ![s] = CASE @ = "discovering" -> "indexing"
                                       [] @ = "indexing"    -> "parsing"
                                       [] @ = "parsing"     -> "aggregating"]
    /\ at' = [at EXCEPT ![s] = "enter"]
    /\ UNCHANGED <<database, memory, calls, verdict, built>>

LastCheck(s) ==
    /\ at[s] = "work" /\ phase[s] = "aggregating"
    /\ ~cancelled[s]
    /\ at' = [at EXCEPT ![s] = "promote"]
    /\ UNCHANGED <<database, memory, calls, phase, verdict, built>>

\* Mutant: the worker drops the result of promote_scan (let _ = ...).
PromoteResultDropped(s) ==
    /\ at[s] = "promote"
    /\ PromoteScan(s) \/ UNCHANGED database
    /\ at' = [at EXCEPT ![s] = "settle"]
    /\ verdict' = [verdict EXCEPT ![s] = "completed"]
    /\ UNCHANGED <<memory, calls, phase, built>>

Promote(s) ==
    /\ at[s] = "promote"
    /\ PromoteScan(s)
    /\ at' = [at EXCEPT ![s] = "settle"]
    /\ verdict' = [verdict EXCEPT ![s] = "completed"]
    /\ UNCHANGED <<memory, calls, phase, built>>

ObserveCancel(s) ==
    /\ at[s] = "work" /\ cancelled[s]
    /\ at' = [at EXCEPT ![s] = "rollback"]
    /\ verdict' = [verdict EXCEPT ![s] = "cancelled"]
    /\ UNCHANGED <<database, memory, calls, phase, built>>

PromoteRefused(s) ==
    /\ at[s] = "promote" /\ run[s] \notin Active
    /\ at' = [at EXCEPT ![s] = "rollback"]
    /\ verdict' = [verdict EXCEPT ![s] = "failed"]
    /\ UNCHANGED <<database, memory, calls, phase, built>>

\* Any ? in run_worker: no location is readable, or the database fails.
WorkerFails(s) ==
    /\ at[s] \in {"persist", "work", "promote"}
    /\ at' = [at EXCEPT ![s] = "rollback"]
    /\ verdict' = [verdict EXCEPT ![s] = "failed"]
    /\ UNCHANGED <<database, memory, calls, phase, built>>

(***************************************************************************)
(* finish_worker.                                                          *)
(***************************************************************************)
RollbackWorker(s) ==
    /\ at[s] = "rollback"
    /\ RollbackScan(s, verdict[s])
    /\ at' = [at EXCEPT ![s] = "settle"]
    /\ UNCHANGED <<memory, calls, phase, verdict, built>>

\* Mutant: the verdict is published only if the status still names this scan.
PublishVerdictIfCurrent(s) ==
    /\ at[s] = "settle"
    /\ status' = IF status[owner[s]].id = s
                   THEN [status EXCEPT ![owner[s]].state = verdict[s]] ELSE status
    /\ at' = [at EXCEPT ![s] = "release"]
    /\ UNCHANGED <<database, up, slot, cancelled, calls, phase, verdict, built>>

\* Whatever scan the status is about by now.
PublishVerdict(s) ==
    /\ at[s] = "settle"
    /\ status' = [status EXCEPT ![owner[s]].state = verdict[s]]
    /\ at' = [at EXCEPT ![s] = "release"]
    /\ UNCHANGED <<database, up, slot, cancelled, calls, phase, verdict, built>>

\* The threads of the scans in S end; their locals and, with the last Arc,
\* their tokens go with them.
EndWorkers(S) ==
    /\ at' = [s \in Scans |-> IF s \in S THEN "gone" ELSE at[s]]
    /\ phase' = [s \in Scans |-> IF s \in S THEN "discovering" ELSE phase[s]]
    /\ verdict' = [s \in Scans |-> IF s \in S THEN "failed" ELSE verdict[s]]
    /\ cancelled' = [s \in Scans |-> cancelled[s] /\ s \notin S]
    /\ UNCHANGED built

\* Whatever token the slot holds by now.
ReleaseToken(s) ==
    /\ at[s] = "release"
    /\ slot' = [slot EXCEPT ![owner[s]] = NoScan]
    /\ EndWorkers({s})
    /\ UNCHANGED <<database, up, status, calls>>

-----------------------------------------------------------------------------
(***************************************************************************)
(* The process.  A crash, a kill or a normal exit stops every thread       *)
(* between two sections; SQLite undoes an open transaction.                *)
(***************************************************************************)
Crash(p) ==
    /\ up[p]
    /\ up' = [up EXCEPT ![p] = FALSE]
    /\ status' = [status EXCEPT ![p] = Idle]
    /\ slot' = [slot EXCEPT ![p] = NoScan]
    /\ callAt' = [c \in Callers |-> IF Home[c] = p THEN "idle" ELSE callAt[c]]
    /\ callScan' = [c \in Callers |-> IF Home[c] = p THEN NoScan ELSE callScan[c]]
    /\ EndWorkers({s \in Scans : owner[s] = p /\ run[s] # "none"})
    /\ UNCHANGED <<database, owner>>

\* bootstrap::initialize: recovery is one transaction, before any command.
Boot(p) ==
    /\ ~up[p]
    /\ RecoverInterruptedScans
    /\ up' = [up EXCEPT ![p] = TRUE]
    /\ UNCHANGED <<status, slot, cancelled, calls, workers>>

-----------------------------------------------------------------------------
\* Sections of a command already under way.
CallerStep(c) ==
    \/ BeginScan(c) \/ BeginFails(c) \/ PublishQueued(c) \/ PublishToken(c)
    \/ SpawnWorker(c) \/ SpawnFails(c)
    \/ RollbackUnspawned(c) \/ ClearUnspawnedToken(c) \/ PublishSpawnFailure(c)
    \/ QueryLatestTerminal(c) \/ RestoreStatus(c)

\* Arrival of a command from the webview.
Command(c) == StartCheck(c) \/ GetStatusIdle(c) \/ Cancel(c)

WorkerStep(s) ==
    \/ PublishPhase(s) \/ PersistPhase(s)
    \/ \E i \in Instances : StageInventory(s, i) \/ StageReconstruction(s, i)
    \/ NextPhase(s) \/ LastCheck(s) \/ ObserveCancel(s)
    \/ Promote(s) \/ PromoteRefused(s)
    \/ RollbackWorker(s) \/ PublishVerdict(s) \/ ReleaseToken(s)

Next ==
    \/ \E c \in Callers : Command(c) \/ CallerStep(c)
    \/ \E s \in Scans : WorkerStep(s) \/ WorkerFails(s)
    \/ \E p \in Procs : Crash(p) \/ Boot(p)

Spec == Init /\ [][Next]_vars

(***************************************************************************)
(* Threads are scheduled by the operating system, each section is short    *)
(* and holds one lock, and every loop of the worker is over a finite list: *)
(* a thread that has a step to take takes it.  Nothing obliges a user to   *)
(* issue a command or to relaunch the application, nor anything to fail.   *)
(***************************************************************************)
FairSpec ==
    /\ Spec
    /\ \A c \in Callers : WF_vars(CallerStep(c))
    /\ \A s \in Scans : WF_vars(WorkerStep(s))

-----------------------------------------------------------------------------
(***************************************************************************)
(* Safety.                                                                 *)
(***************************************************************************)

\* A run whose worker ended in this database without being interrupted
\* leaves nothing in the staging tables, whatever rollback, promotion and
\* the recovery of another process did in between (clear_staging).
SettledRunsLeaveNoStaging ==
    \A s \in Scans : run[s] \in {"completed", "cancelled", "failed"} => staged[s] = {}

\* While a run can still be promoted, the staging tables hold exactly what
\* its worker staged: no recovery by another process has thinned them out.
ActiveStagingIsWhole ==
    \A s \in Scans : run[s] \in Active => staged[s] = built[s]

\* The threads that will move run s out of its active state.
HasThread(s) ==
    \/ at[s] \in Working \cup {"rollback"}
    \/ \E c \in Callers : /\ callScan[c] = s
                          /\ callAt[c] \in {"publish", "token", "spawn", "unspawned"}

\* A run is active only while a thread of its process works for it, unless
\* that process has died since and nothing has been relaunched: were it
\* otherwise, the unique index would refuse every later scan.
NoOrphanedRun ==
    \A s \in Scans : run[s] \in Active /\ up[owner[s]] => HasThread(s)

\* Scan s is under way in a process and the start that launched it returned.
UnderWay(s) == at[s] \in Working

\* get_scan_status speaks of the scan that is under way (docs/
\* backend-architecture.md: "Returns active in-memory progress or hydrates
\* the latest durable terminal run after relaunch").
ActiveScanIsReported ==
    \A s \in Scans : UnderWay(s) =>
        /\ status[owner[s]].id = s
        /\ status[owner[s]].state \in Active

\* What the database holds of run s allows to tell that it ended so. A worker
\* or a start that failed tells its own outcome although the recovery of
\* another process has interrupted the run before, or although the rollback
\* failed and leaves the run active without a thread that would end it.
EndedAs(s, outcome) ==
    \/ run[s] = outcome
    \/ /\ outcome \in {"failed", "cancelled"}
       /\ run[s] = "interrupted" \/ (RollbackMayFail /\ run[s] \in Active /\ ~HasThread(s))

\* No process tells a terminal outcome that is not yet durable: whatever order
\* commands, workers, failing rollbacks and recoveries come in, the outcome in
\* its status is that of the run the status names or, when another
\* scan settled over its status, of that scan, which is of this process too.
ReportedOutcomeIsDurable ==
    \A p \in Procs : status[p].id # NoScan /\ status[p].state \in Terminal =>
        \E s \in Scans : (s = status[p].id \/ owner[s] = p) /\ EndedAs(s, status[p].state)

\* cancel_scan reaches the scan that is under way: its token is in the slot
\* ("Requests cooperative cancellation", the registry "owns: a cancellation
\* token").
RunningScanIsCancellable ==
    \A s \in Scans : UnderWay(s) => slot[owner[s]] = s

\* "Only one mutating scan runs at a time": no two worker threads inventory,
\* stage and promote at once.
OneScanAtATime ==
    \A s, t \in Scans : UnderWay(s) /\ UnderWay(t) => s = t

\* The abstract specification, under the obvious reading of the run states.
Outcome(s) ==
    CASE run[s] = "none"      -> "none"
      [] run[s] \in Active    -> "open"
      [] run[s] = "completed" -> "committed"
      [] OTHER                -> "discarded"

Archive == INSTANCE AtomicArchive
               WITH outcome <- [s \in Scans |-> Outcome(s)], gathered <- built

ImplementsAtomicArchive == Archive!Spec

(***************************************************************************)
(* Liveness, under FairSpec.                                               *)
(***************************************************************************)

\* Every run that was begun ends, unless its process dies.
EveryRunEnds ==
    \A s \in Scans : run[s] \in Active ~> (run[s] \notin Active \/ ~up[owner[s]])

\* A status that says a scan is active does not say so for ever.
StatusSettles ==
    \A p \in Procs : status[p].state \in Active ~> status[p].state \in Terminal

=============================================================================
