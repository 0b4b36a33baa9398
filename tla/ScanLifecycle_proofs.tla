------------------------ MODULE ScanLifecycle_proofs ------------------------
(***************************************************************************)
(* ScanLifecycle implements AtomicArchive for every number of processes,   *)
(* command threads, scans and instances, whether rollbacks fail or not;    *)
(* and what a status tells agrees with the runs in the database.           *)
(*                                                                         *)
(* The argument turns on one fact, ActiveStagingIsWhole: while a run can   *)
(* still be promoted its staging tables hold exactly what its worker put   *)
(* there. By itself it is not inductive. A recovery by another process     *)
(* deletes staging, but marks the run interrupted in the same transaction; *)
(* its worker goes on staging, and nothing makes the run active again.     *)
(* Hence the conjuncts below: who may hold a run that is not yet settled,  *)
(* that a worker or a starter exists only for such a run, and that a run   *)
(* without a row in scan_runs has no thread and no rows.                   *)
(*                                                                         *)
(* The status has many writers that overlap. What is proved of it follows  *)
(* the outcome a thread holds from the database to the status.             *)
(***************************************************************************)
EXTENDS ScanLifecycle, TLAPS

\* A run its thread may still believe in: recovery may have interrupted it.
Unsettled == Active \cup {"interrupted"}

\* Caller c holds a run that it has begun and not handed over.
Holds(c) == callAt[c] \in {"publish", "token", "spawn", "unspawned"}

OneActive ==
    \A s, t \in Scans : run[s] \in Active /\ run[t] \in Active => s = t

UnbornIsEmpty ==
    \A s \in Scans : run[s] = "none" => /\ at[s] = "none"
                                        /\ staged[s] = {} /\ built[s] = {}

StarterHoldsItsRun ==
    \A c \in Callers : Holds(c) =>
        /\ callScan[c] \in Scans
        /\ owner[callScan[c]] = Home[c]
        /\ at[callScan[c]] = "none"
        /\ run[callScan[c]] \in Unsettled

OneStarterPerRun ==
    \A c, d \in Callers :
        Holds(c) /\ Holds(d) /\ callScan[c] = callScan[d] => c = d

WorkerIsUnsettled ==
    \A s \in Scans : at[s] \in Working \cup {"rollback"} => run[s] \in Unsettled

RollbackVerdict ==
    \A s \in Scans : at[s] = "rollback" => verdict[s] \in {"cancelled", "failed"}

IInv ==
    /\ TypeOK
    /\ OneActive
    /\ UnbornIsEmpty
    /\ StarterHoldsItsRun
    /\ OneStarterPerRun
    /\ WorkerIsUnsettled
    /\ RollbackVerdict
    /\ ActiveStagingIsWhole
    /\ SettledRunsLeaveNoStaging

\* A database no scan has written to, and no process up, is well typed.
LEMMA InitType == Init => TypeOK
<1> SUFFICES ASSUME Init PROVE TypeOK
  OBVIOUS
<1>1. owner \in [Scans -> Procs]
  BY ProcsAssumption DEF Init
<1> QED
  BY <1>1 DEF Init, TypeOK, RunState, Status, Idle, Active, Terminal, CallPoint, WorkPoint, Phase

\* Changing the state of one status leaves every status well formed.
LEMMA SetState ==
    ASSUME status \in [Procs -> Status], NEW p, NEW v \in Active \cup Terminal
    PROVE  [status EXCEPT ![p].state = v] \in [Procs -> Status]
<1>1. \A q \in Procs : [status[q] EXCEPT !.state = v] \in Status
  BY DEF Status
<1> QED
  BY <1>1

\* rollback_scan keeps the tables well formed, for whatever scan it is asked.
LEMMA RollbackType ==
    ASSUME TypeOK, NEW h \in Scans \cup {NoScan}, NEW v \in Terminal, RollbackScan(h, v)
    PROVE  /\ run' \in [Scans -> RunState] /\ staged' \in [Scans -> SUBSET Rows]
           /\ latest' \in Scans \cup {NoScan}
           /\ UNCHANGED <<archive, revision>>
<1>1. run' \in [Scans -> RunState]
  <2>1. PICK w : run' = [run EXCEPT ![h] = w] /\ (h \in Scans => w \in RunState)
    BY DEF RollbackScan, TypeOK, RunState, Active
  <2> QED
    BY <2>1 DEF TypeOK
<1>2. staged' \in [Scans -> SUBSET Rows]
  BY DEF RollbackScan, TypeOK
<1>3. latest' \in Scans \cup {NoScan}
  BY DEF RollbackScan, TypeOK
<1> QED
  BY <1>1, <1>2, <1>3 DEF RollbackScan

\* The end of any set of worker threads keeps their locals and tokens typed.
LEMMA EndWorkersType ==
    ASSUME TypeOK, NEW S, EndWorkers(S)
    PROVE  /\ at' \in [Scans -> WorkPoint] /\ phase' \in [Scans -> Phase]
           /\ verdict' \in [Scans -> Terminal] /\ cancelled' \in [Scans -> BOOLEAN]
           /\ built' = built
<1>1. at' \in [Scans -> WorkPoint]
  BY DEF EndWorkers, TypeOK, WorkPoint
<1>2. phase' \in [Scans -> Phase] /\ verdict' \in [Scans -> Terminal]
  BY DEF EndWorkers, TypeOK, Phase, Terminal
<1>3. cancelled' \in [Scans -> BOOLEAN]
  BY DEF EndWorkers
<1> QED
  BY <1>1, <1>2, <1>3 DEF EndWorkers

\* Every section of a command, of a worker and of the process keeps every type.
LEMMA TypeStep == TypeOK /\ [Next]_vars => TypeOK'
<1> SUFFICES ASSUME TypeOK, [Next]_vars PROVE TypeOK'
  OBVIOUS
<1> USE HomeAssumption DEF TypeOK, database, memory, calls, workers
<1>1. ASSUME NEW c \in Callers, Command(c) PROVE TypeOK'
  <2>1. CASE StartCheck(c) \/ GetStatusIdle(c)
    BY <2>1 DEF StartCheck, GetStatusIdle, CallPoint
  <2>2. CASE Cancel(c)
    BY <2>2 DEF Cancel
  <2> QED
    BY <1>1, <2>1, <2>2 DEF Command
<1>2. ASSUME NEW c \in Callers, CallerStep(c) PROVE TypeOK'
  <2>1. CASE BeginScan(c)
    BY <2>1 DEF BeginScan, CallPoint, RunState, Active
  <2>2. CASE BeginFails(c)
    BY <2>2 DEF BeginFails, CallPoint
  <2>3. CASE PublishQueued(c)
    <3>1. [id |-> callScan[c], state |-> "queued"] \in Status
      BY DEF Status, Active
    <3> QED
      BY <2>3, <3>1 DEF PublishQueued, CallPoint
  <2>4. CASE PublishToken(c)
    BY <2>4 DEF PublishToken, CallPoint
  <2>5. CASE SpawnWorker(c)
    BY <2>5 DEF SpawnWorker, CallPoint, WorkPoint
  <2>6. CASE SpawnFails(c)
    BY <2>6 DEF SpawnFails, CallPoint
  <2>7. CASE RollbackUnspawned(c)
    <3>1. RollbackScan(callScan[c], "failed")
      BY <2>7 DEF RollbackUnspawned
    <3>2. /\ run' \in [Scans -> RunState] /\ staged' \in [Scans -> SUBSET Rows]
          /\ latest' \in Scans \cup {NoScan}
          /\ UNCHANGED <<archive, revision>>
      BY <3>1, RollbackType DEF Terminal
    <3> QED
      BY <2>7, <3>2 DEF RollbackUnspawned, CallPoint
  <2>8. CASE ClearUnspawnedToken(c)
    BY <2>8 DEF ClearUnspawnedToken, CallPoint
  <2>9. CASE PublishSpawnFailure(c)
    <3>1. status' \in [Procs -> Status]
      BY <2>9, SetState DEF PublishSpawnFailure, Terminal
    <3> QED
      BY <2>9, <3>1 DEF PublishSpawnFailure, CallPoint
  <2>10. CASE QueryLatestTerminal(c)
    BY <2>10 DEF QueryLatestTerminal, CallPoint
  <2>11. CASE RestoreStatus(c)
    <3>1. [id |-> callScan[c], state |-> FromDurable(run[callScan[c]])] \in Status
      BY DEF Status, Terminal, FromDurable
    <3> QED
      BY <2>11, <3>1 DEF RestoreStatus, CallPoint
  <2> QED
    BY <1>2, <2>1, <2>2, <2>3, <2>4, <2>5, <2>6, <2>7, <2>8, <2>9, <2>10, <2>11 DEF CallerStep
<1>3. ASSUME NEW s \in Scans, WorkerStep(s) \/ WorkerFails(s) PROVE TypeOK'
  <2>1. CASE PublishPhase(s)
    <3>1. status' \in [Procs -> Status]
      BY <2>1, SetState DEF PublishPhase, Active
    <3> QED
      BY <2>1, <3>1 DEF PublishPhase, WorkPoint
  <2>2. CASE PersistPhase(s)
    BY <2>2 DEF PersistPhase, RunState, Active, WorkPoint
  <2>3. ASSUME NEW i \in Instances, StageInventory(s, i) \/ StageReconstruction(s, i)
        PROVE  TypeOK'
    <3>1. PICK r \in Rows : Stage(s, r)
      BY <2>3 DEF StageInventory, StageReconstruction, Rows
    <3> QED
      BY <3>1 DEF Stage
  <2>4. CASE NextPhase(s)
    <3>1. phase' \in [Scans -> Phase]
      BY <2>4 DEF NextPhase, Phase
    <3> QED
      BY <2>4, <3>1 DEF NextPhase, WorkPoint
  <2>5. CASE LastCheck(s)
    BY <2>5 DEF LastCheck, WorkPoint
  <2>6. CASE ObserveCancel(s) \/ PromoteRefused(s) \/ WorkerFails(s)
    BY <2>6 DEF ObserveCancel, PromoteRefused, WorkerFails, WorkPoint, Terminal
  <2>7. CASE Promote(s)
    <3>1. run' \in [Scans -> RunState] /\ verdict' \in [Scans -> Terminal]
      BY <2>7 DEF Promote, PromoteScan, RunState, Terminal
    <3>2. archive' \in [Rows -> Scans \cup {NoScan}] /\ revision' \in Nat
      BY <2>7 DEF Promote, PromoteScan
    <3>3. staged' \in [Scans -> SUBSET Rows] /\ latest' \in Scans \cup {NoScan}
      BY <2>7 DEF Promote, PromoteScan
    <3> QED
      BY <2>7, <3>1, <3>2, <3>3 DEF Promote, WorkPoint
  <2>8. CASE RollbackWorker(s)
    <3>1. /\ run' \in [Scans -> RunState] /\ staged' \in [Scans -> SUBSET Rows]
          /\ latest' \in Scans \cup {NoScan}
          /\ UNCHANGED <<archive, revision>>
      BY <2>8, RollbackType DEF RollbackWorker
    <3> QED
      BY <2>8, <3>1 DEF RollbackWorker, WorkPoint
  <2>9. CASE PublishVerdict(s)
    <3>1. status' \in [Procs -> Status]
      BY <2>9, SetState DEF PublishVerdict
    <3> QED
      BY <2>9, <3>1 DEF PublishVerdict, WorkPoint
  <2>10. CASE ReleaseToken(s)
    <3>1. EndWorkers({s})
      BY <2>10 DEF ReleaseToken
    <3> QED
      BY <2>10, <3>1, EndWorkersType DEF ReleaseToken
  <2> QED
    BY <1>3, <2>1, <2>2, <2>3, <2>4, <2>5, <2>6, <2>7, <2>8, <2>9, <2>10 DEF WorkerStep
<1>4. ASSUME NEW p \in Procs, Crash(p) PROVE TypeOK'
  <2>1. Idle \in Status
    BY DEF Idle, Status, Terminal
  <2>2. /\ at' \in [Scans -> WorkPoint] /\ phase' \in [Scans -> Phase]
        /\ verdict' \in [Scans -> Terminal] /\ cancelled' \in [Scans -> BOOLEAN]
        /\ built' = built
    BY <1>4, EndWorkersType DEF Crash
  <2> QED
    BY <1>4, <2>1, <2>2 DEF Crash, CallPoint
<1>5. ASSUME NEW p \in Procs, Boot(p) PROVE TypeOK'
  <2>1. RecoverInterruptedScans
    BY <1>5 DEF Boot
  <2>2. run' \in [Scans -> RunState]
    BY <2>1 DEF RecoverInterruptedScans, RunState, Terminal
  <2>3. staged' \in [Scans -> SUBSET Rows]
    BY <2>1 DEF RecoverInterruptedScans
  <2>4. latest' \in Scans \cup {NoScan}
    BY <2>1 DEF RecoverInterruptedScans, ScanIsActive
  <2> QED
    BY <1>5, <2>1, <2>2, <2>3, <2>4 DEF Boot, RecoverInterruptedScans
<1>6. CASE UNCHANGED vars
  BY <1>6 DEF vars
<1> QED
  BY <1>1, <1>2, <1>3, <1>4, <1>5, <1>6 DEF Next

\* Every variable keeps its type, in every instance of the model.
THEOREM TypeCorrect == Spec => []TypeOK
<1> QED
  BY InitType, TypeStep, PTL DEF Spec

\* The strengthened invariant holds before any process is launched.
LEMMA InitInv == Init => IInv
<1> SUFFICES ASSUME Init PROVE IInv
  OBVIOUS
<1>1. TypeOK
  BY InitType
<1> QED
  BY <1>1 DEF Init, IInv, OneActive, UnbornIsEmpty, StarterHoldsItsRun, OneStarterPerRun,
     WorkerIsUnsettled, RollbackVerdict, ActiveStagingIsWhole, SettledRunsLeaveNoStaging,
     Holds, Working, Active

\* The strengthened invariant survives every section, in whatever order the
\* commands, the workers, crashes and the recovery of other processes come.
LEMMA InvStep == IInv /\ [Next]_vars => IInv'
<1> SUFFICES ASSUME IInv, [Next]_vars PROVE IInv'
  OBVIOUS
<1>0. TypeOK /\ TypeOK'
  BY TypeStep DEF IInv
<1> USE <1>0, HomeAssumption, NoScanAssumption
    DEF IInv, OneActive, UnbornIsEmpty, StarterHoldsItsRun, OneStarterPerRun,
        WorkerIsUnsettled, RollbackVerdict, ActiveStagingIsWhole, SettledRunsLeaveNoStaging,
        Holds, Unsettled, Working, Active, database, memory, calls, workers, TypeOK
<1>1. ASSUME NEW c \in Callers, Command(c) \/ CallerStep(c) PROVE IInv'
  <2>1. CASE StartCheck(c)
    BY <2>1 DEF StartCheck
  <2>2. CASE GetStatusIdle(c)
    BY <2>2 DEF GetStatusIdle
  <2>3. CASE Cancel(c)
    BY <2>3 DEF Cancel
  <2>4. CASE BeginFails(c)
    BY <2>4 DEF BeginFails
  <2>5. CASE PublishQueued(c)
    BY <2>5 DEF PublishQueued
  <2>6. CASE PublishToken(c)
    BY <2>6 DEF PublishToken
  <2>7. CASE SpawnFails(c)
    BY <2>7 DEF SpawnFails
  <2>8. CASE ClearUnspawnedToken(c)
    BY <2>8 DEF ClearUnspawnedToken
  <2>9. CASE PublishSpawnFailure(c)
    BY <2>9 DEF PublishSpawnFailure
  <2>10. CASE QueryLatestTerminal(c)
    BY <2>10 DEF QueryLatestTerminal
  <2>11. CASE RestoreStatus(c)
    BY <2>11 DEF RestoreStatus
  <2>12. CASE BeginScan(c)
    <3>1. PICK s \in Scans :
            /\ run[s] = "none"
            /\ run' = [run EXCEPT ![s] = "queued"]
            /\ owner' = [owner EXCEPT ![s] = Home[c]]
            /\ callScan' = [callScan EXCEPT ![c] = s]
      BY <2>12 DEF BeginScan
    <3>2. callAt' = [callAt EXCEPT ![c] = "publish"]
      BY <2>12 DEF BeginScan
    <3>3. UNCHANGED <<staged, built, at, verdict>>
      BY <2>12 DEF BeginScan
    <3>4. OneActive'
      BY <2>12, <3>1 DEF BeginScan, ScanIsActive
    <3>5. UnbornIsEmpty' /\ ActiveStagingIsWhole' /\ SettledRunsLeaveNoStaging'
      <4>1. \A t \in Scans : t # s => run'[t] = run[t]
        BY <3>1
      <4>2. run'[s] = "queued" /\ staged[s] = {} /\ built[s] = {}
        BY <3>1
      <4>3. \A t \in Scans : t # s => staged'[t] = staged[t] /\ built'[t] = built[t] /\ at'[t] = at[t]
        BY <3>3
      <4>4. staged'[s] = {} /\ built'[s] = {}
        BY <3>3, <4>2
      <4>5. UnbornIsEmpty'
        BY <4>1, <4>2, <4>3
      <4>6. ActiveStagingIsWhole'
        <5> SUFFICES ASSUME NEW t \in Scans, run'[t] \in Active PROVE staged'[t] = built'[t]
          BY DEF ActiveStagingIsWhole
        <5>1. CASE t = s
          BY <4>4, <5>1
        <5>2. CASE t # s
          <6>1. staged[t] = built[t]
            BY <4>1, <5>2
          <6> QED
            BY <4>3, <5>2, <6>1
        <5> QED
          BY <5>1, <5>2
      <4>7. SettledRunsLeaveNoStaging'
        BY <4>1, <4>3, <4>4
      <4> QED
        BY <4>5, <4>6, <4>7
    <3>6. WorkerIsUnsettled' /\ RollbackVerdict'
      BY <3>1, <3>3
    <3>7. StarterHoldsItsRun'
      BY <3>1, <3>2, <3>3
    <3>8. OneStarterPerRun'
      BY <3>1, <3>2
    <3> QED
      BY <3>4, <3>5, <3>6, <3>7, <3>8
  <2>13. CASE SpawnWorker(c)
    BY <2>13 DEF SpawnWorker
  <2>14. CASE RollbackUnspawned(c)
    <3> DEFINE h == callScan[c]
    <3>1. h \in Scans /\ at[h] = "none" /\ RollbackScan(h, "failed")
      BY <2>14 DEF RollbackUnspawned
    <3>2. /\ callAt' = [callAt EXCEPT ![c] = "untoken"]
          /\ UNCHANGED <<callScan, owner, at, verdict, built>>
      BY <2>14 DEF RollbackUnspawned
    <3>3. \A d \in Callers : Holds(d)' => Holds(d) /\ d # c /\ callScan[d] # h
      BY <2>14, <3>2 DEF RollbackUnspawned
    <3> HIDE DEF h
    <3>4. /\ \A t \in Scans : t # h => run'[t] = run[t] /\ staged'[t] = staged[t]
          /\ \/ staged'[h] = {} /\ run'[h] = IF run[h] \in Active THEN "failed" ELSE run[h]
             \/ staged'[h] = staged[h] /\ run'[h] = IF run[h] \in Active THEN "running" ELSE run[h]
      BY <3>1 DEF RollbackScan
    <3>5. /\ \A t \in Scans : run'[t] \in Active => run[t] \in Active
          /\ \A t \in Scans : run'[t] = "none" => run[t] = "none"
          /\ run[h] \in Unsettled
      BY <3>4, <2>14 DEF RollbackUnspawned, h
    <3>6. OneActive'
      BY <3>5
    <3>7. ActiveStagingIsWhole'
      BY <3>1, <3>2, <3>4, <3>5
    <3>8. SettledRunsLeaveNoStaging'
      <4> SUFFICES ASSUME NEW t \in Scans, run'[t] \in {"completed", "cancelled", "failed"}
                   PROVE  staged'[t] = {}
        BY DEF SettledRunsLeaveNoStaging
      <4>1. CASE t = h
        <5>1. run[h] = "interrupted" \/ run[h] \in Active
          BY <3>5
        <5> QED
          BY <3>4, <4>1, <5>1
      <4>2. CASE t # h
        BY <3>4, <4>2
      <4> QED
        BY <4>1, <4>2
    <3>9. UnbornIsEmpty'
      <4> SUFFICES ASSUME NEW t \in Scans, run'[t] = "none"
                   PROVE  at'[t] = "none" /\ staged'[t] = {} /\ built'[t] = {}
        BY DEF UnbornIsEmpty
      <4>1. run[t] = "none" /\ t # h
        BY <3>5
      <4> QED
        BY <3>2, <3>4, <4>1
    <3>10. WorkerIsUnsettled' /\ RollbackVerdict'
      BY <3>1, <3>2, <3>4
    <3>11. StarterHoldsItsRun' /\ OneStarterPerRun'
      BY <3>2, <3>3, <3>4
    <3> QED
      BY <3>6, <3>7, <3>8, <3>9, <3>10, <3>11
  <2> QED
    BY <1>1, <2>1, <2>2, <2>3, <2>4, <2>5, <2>6, <2>7, <2>8, <2>9, <2>10, <2>11, <2>12, <2>13, <2>14 DEF Command, CallerStep
<1>2. ASSUME NEW s \in Scans, WorkerStep(s) \/ WorkerFails(s) PROVE IInv'
  <2>1. CASE PublishPhase(s)
    BY <2>1 DEF PublishPhase
  <2>2. CASE PersistPhase(s)
    BY <2>2 DEF PersistPhase
  <2>3. CASE NextPhase(s)
    <3>1. /\ at[s] = "work" /\ at' = [at EXCEPT ![s] = "enter"]
          /\ UNCHANGED <<run, staged, callAt, callScan, owner, verdict, built>>
      BY <2>3 DEF NextPhase
    <3> QED
      BY <3>1
  <2>4. CASE LastCheck(s)
    BY <2>4 DEF LastCheck
  <2>5. CASE ObserveCancel(s)
    BY <2>5 DEF ObserveCancel
  <2>6. CASE PromoteRefused(s)
    BY <2>6 DEF PromoteRefused
  <2>7. CASE WorkerFails(s)
    BY <2>7 DEF WorkerFails
  <2>8. CASE Promote(s)
    BY <2>8 DEF Promote, PromoteScan
  <2>9. CASE RollbackWorker(s)
    BY <2>9 DEF RollbackWorker, RollbackScan
  <2>10. CASE PublishVerdict(s)
    BY <2>10 DEF PublishVerdict
  <2>11. CASE ReleaseToken(s)
    BY <2>11 DEF ReleaseToken, EndWorkers
  <2>12. ASSUME NEW i \in Instances, StageInventory(s, i) \/ StageReconstruction(s, i)
        PROVE  IInv'
    <3>1. PICK r \in Rows : at[s] = "work" /\ Stage(s, r)
      BY <2>12 DEF StageInventory, StageReconstruction, Rows
    <3>2. /\ staged' = [staged EXCEPT ![s] = @ \cup {r}]
          /\ built' = [built EXCEPT ![s] = @ \cup {r}]
          /\ UNCHANGED <<run, callAt, callScan, owner, at, verdict>>
      BY <3>1 DEF Stage
    <3>3. run[s] \in Unsettled
      BY <3>1
    <3>4. ActiveStagingIsWhole'
      BY <3>2, ZenonT(40)
    <3>5. SettledRunsLeaveNoStaging' /\ UnbornIsEmpty'
      BY <3>2, <3>3
    <3>6. /\ OneActive' /\ StarterHoldsItsRun' /\ OneStarterPerRun'
          /\ WorkerIsUnsettled' /\ RollbackVerdict'
      BY <3>2
    <3> QED
      BY <3>4, <3>5, <3>6
  <2> QED
    BY <1>2, <2>1, <2>2, <2>3, <2>4, <2>5, <2>6, <2>7, <2>8, <2>9, <2>10, <2>11, <2>12 DEF WorkerStep
<1>3. ASSUME NEW p \in Procs, Crash(p) PROVE IInv'
  BY <1>3 DEF Crash, EndWorkers
<1>4. ASSUME NEW p \in Procs, Boot(p) PROVE IInv'
  BY <1>4 DEF Boot, RecoverInterruptedScans
<1>5. CASE UNCHANGED vars
  BY <1>5 DEF vars
<1> QED
  BY <1>1, <1>2, <1>3, <1>4, <1>5 DEF Next

\* The strengthened invariant: who may still stage for a run, and in which
\* state the database holds that run, agree at every point.
THEOREM InvariantHolds == Spec => []IInv
<1> QED
  BY InitInv, InvStep, PTL DEF Spec

\* A settled run leaves no row in the staging tables (rollback_scan,
\* promote_scan and recover_interrupted_scans, in any order).
THEOREM SettledRunsClean == Spec => []SettledRunsLeaveNoStaging
<1>1. IInv => SettledRunsLeaveNoStaging
  BY DEF IInv
<1> QED
  BY <1>1, InvariantHolds, PTL

\* What promote_scan finds in the staging tables of a run it accepts is all
\* that the worker of the run put there.
THEOREM PromotedStagingIsWhole == Spec => []ActiveStagingIsWhole
<1>1. IInv => ActiveStagingIsWhole
  BY DEF IInv
<1> QED
  BY <1>1, InvariantHolds, PTL

-----------------------------------------------------------------------------
(***************************************************************************)
(* Refinement.                                                             *)
(***************************************************************************)

(***************************************************************************)
(* One process.  Its recovery runs before its first command, when it has   *)
(* no thread: so nothing takes a run from the thread that works for it,    *)
(* and the unique index on active runs becomes a bound on worker threads.  *)
(***************************************************************************)
SingleProcess == \A p, q \in Procs : p = q

ThreadsOwnActiveRuns ==
    /\ \A s \in Scans : at[s] \in Working \cup {"rollback"} =>
                            up[owner[s]] /\ run[s] \in Active
    /\ \A c \in Callers : callAt[c] # "idle" => up[Home[c]]
    /\ \A c \in Callers : Holds(c) => run[callScan[c]] \in Active

\* No section of a command, of a worker, of a crash or of a relaunch takes an
\* active run from its thread, as long as no other process recovers.
LEMMA ThreadsStep ==
  ASSUME SingleProcess
  PROVE  IInv /\ IInv' /\ ThreadsOwnActiveRuns /\ [Next]_vars => ThreadsOwnActiveRuns'
<1> SUFFICES ASSUME IInv, IInv', ThreadsOwnActiveRuns, [Next]_vars
             PROVE  ThreadsOwnActiveRuns'
  OBVIOUS
<1> USE HomeAssumption, NoScanAssumption
    DEF IInv, OneActive, UnbornIsEmpty, StarterHoldsItsRun, OneStarterPerRun,
        ThreadsOwnActiveRuns, Holds, Working, Active, database, memory, calls, workers, TypeOK
<1>1. ASSUME NEW c \in Callers, Command(c) \/ CallerStep(c) PROVE ThreadsOwnActiveRuns'
  <2>1. CASE StartCheck(c)
    BY <2>1 DEF StartCheck
  <2>2. CASE GetStatusIdle(c)
    BY <2>2 DEF GetStatusIdle
  <2>3. CASE Cancel(c)
    BY <2>3 DEF Cancel
  <2>4. CASE BeginFails(c)
    BY <2>4 DEF BeginFails
  <2>5. CASE PublishQueued(c)
    BY <2>5 DEF PublishQueued
  <2>6. CASE PublishToken(c)
    BY <2>6 DEF PublishToken
  <2>7. CASE SpawnFails(c)
    BY <2>7 DEF SpawnFails
  <2>8. CASE ClearUnspawnedToken(c)
    BY <2>8 DEF ClearUnspawnedToken
  <2>9. CASE PublishSpawnFailure(c)
    BY <2>9 DEF PublishSpawnFailure
  <2>10. CASE QueryLatestTerminal(c)
    BY <2>10 DEF QueryLatestTerminal
  <2>11. CASE RestoreStatus(c)
    BY <2>11 DEF RestoreStatus
  <2>12. CASE SpawnWorker(c)
    BY <2>12 DEF SpawnWorker
  <2>13. CASE BeginScan(c)
    BY <2>13 DEF BeginScan
  <2>14. CASE RollbackUnspawned(c)
    BY <2>14 DEF RollbackUnspawned, RollbackScan
  <2> QED
    BY <1>1, <2>1, <2>2, <2>3, <2>4, <2>5, <2>6, <2>7, <2>8, <2>9, <2>10, <2>11, <2>12, <2>13, <2>14
       DEF Command, CallerStep
<1>2. ASSUME NEW s \in Scans, WorkerStep(s) \/ WorkerFails(s) PROVE ThreadsOwnActiveRuns'
  <2>1. CASE PublishPhase(s)
    BY <2>1 DEF PublishPhase
  <2>2. CASE PersistPhase(s)
    BY <2>2 DEF PersistPhase
  <2>3. CASE NextPhase(s)
    BY <2>3 DEF NextPhase
  <2>4. CASE LastCheck(s)
    BY <2>4 DEF LastCheck
  <2>5. CASE ObserveCancel(s)
    BY <2>5 DEF ObserveCancel
  <2>6. CASE PromoteRefused(s)
    BY <2>6 DEF PromoteRefused
  <2>7. CASE WorkerFails(s)
    BY <2>7 DEF WorkerFails
  <2>8. CASE Promote(s)
    BY <2>8 DEF Promote, PromoteScan
  <2>9. CASE RollbackWorker(s)
    BY <2>9 DEF RollbackWorker, RollbackScan
  <2>10. CASE PublishVerdict(s)
    BY <2>10 DEF PublishVerdict
  <2>11. CASE ReleaseToken(s)
    BY <2>11 DEF ReleaseToken, EndWorkers
  <2>12. ASSUME NEW i \in Instances, StageInventory(s, i) \/ StageReconstruction(s, i)
        PROVE  ThreadsOwnActiveRuns'
    BY <2>12 DEF StageInventory, StageReconstruction, Stage
  <2> QED
    BY <1>2, <2>1, <2>2, <2>3, <2>4, <2>5, <2>6, <2>7, <2>8, <2>9, <2>10, <2>11, <2>12 DEF WorkerStep
<1>3. ASSUME NEW p \in Procs, Crash(p) PROVE ThreadsOwnActiveRuns'
  <2>1. \A s \in Scans : owner[s] = p
    BY SingleProcess DEF SingleProcess
  <2>2. \A c \in Callers : Home[c] = p
    BY SingleProcess DEF SingleProcess
  <2> QED
    BY <1>3, <2>1, <2>2 DEF Crash, EndWorkers
<1>4. ASSUME NEW p \in Procs, Boot(p) PROVE ThreadsOwnActiveRuns'
  <2>1. \A s \in Scans : at[s] \notin Working \cup {"rollback"}
    BY <1>4, SingleProcess DEF Boot, SingleProcess
  <2>2. \A c \in Callers : callAt[c] = "idle"
    BY <1>4, SingleProcess DEF Boot, SingleProcess
  <2> QED
    BY <1>4, <2>1, <2>2 DEF Boot
<1>5. CASE UNCHANGED vars
  BY <1>5 DEF vars
<1> QED
  BY <1>1, <1>2, <1>3, <1>4, <1>5 DEF Next

\* While only one process opens the database, at most one worker thread
\* inventories, stages and promotes, however its commands overlap ("Only one
\* mutating scan runs at a time").
THEOREM OneScanInOneProcess ==
  ASSUME SingleProcess
  PROVE  Spec => []OneScanAtATime
<1>1. Init => ThreadsOwnActiveRuns
  BY DEF Init, ThreadsOwnActiveRuns, Holds, Working
<1>2. IInv /\ IInv' /\ ThreadsOwnActiveRuns /\ [Next]_vars => ThreadsOwnActiveRuns'
  BY ThreadsStep
<1>3. IInv /\ ThreadsOwnActiveRuns => OneScanAtATime
  BY DEF IInv, OneActive, ThreadsOwnActiveRuns, OneScanAtATime, UnderWay
<1> QED
  BY <1>1, <1>2, <1>3, InvariantHolds, PTL DEF Spec

Outcomes == [s \in Scans |-> Outcome(s)]

\* No run and no row is an archive with nothing opened and nothing gathered.
LEMMA InitRefines == Init => Archive!Init
<1> SUFFICES ASSUME Init PROVE Archive!Init
  OBVIOUS
<1>1. \A s \in Scans : Outcome(s) = "none"
  BY DEF Init, Outcome, Active
<1> QED
  BY <1>1 DEF Init, Archive!Init

\* Steps that leave every run in its class, and the rows alone, are invisible.
LEMMA Stutter ==
    ASSUME TypeOK, TypeOK',
           \A s \in Scans : run'[s] = run[s] \/ (run[s] \in Active /\ run'[s] \in Active),
           UNCHANGED <<built, archive, revision>>
    PROVE  UNCHANGED Archive!vars
<1>1. \A s \in Scans : Outcome(s)' = Outcome(s)
  <2> SUFFICES ASSUME NEW s \in Scans PROVE Outcome(s)' = Outcome(s)
    OBVIOUS
  <2>1. CASE run'[s] = run[s]
    BY <2>1 DEF Outcome
  <2>2. CASE run[s] \in Active /\ run'[s] \in Active
    BY <2>2 DEF Outcome, Active
  <2> QED
    BY <2>1, <2>2
<1> QED
  BY <1>1 DEF Archive!vars

\* One run changes class and the others keep theirs.
LEMMA OneOutcome ==
    ASSUME TypeOK, NEW s \in Scans, NEW v, run' = [run EXCEPT ![s] = v]
    PROVE  Outcomes' = [Outcomes EXCEPT ![s] = Outcome(s)'] /\ run'[s] = v
<1>1. \A t \in Scans : t # s => run'[t] = run[t]
  BY DEF TypeOK
<1>2. \A t \in Scans : t # s => Outcome(t)' = Outcome(t)
  BY <1>1 DEF Outcome
<1> QED
  BY <1>2 DEF Outcomes, TypeOK

\* rollback_scan discards the run, if it was active, and else is invisible:
\* it touches neither the canonical rows nor the revision.
LEMMA RollbackRefines ==
    ASSUME IInv, TypeOK', NEW s \in Scans, NEW v \in {"cancelled", "failed"},
           RollbackScan(s, v), UNCHANGED built
    PROVE  [Archive!Next]_(Archive!vars)
<1>0. TypeOK /\ UNCHANGED <<archive, revision>>
  BY DEF IInv, RollbackScan
<1>1. CASE run[s] \in Active /\ run' = [run EXCEPT ![s] = v]
  <2>1. Outcomes' = [Outcomes EXCEPT ![s] = Outcome(s)'] /\ run'[s] = v
    BY <1>0, <1>1, OneOutcome
  <2>2. Outcome(s) = "open" /\ Outcome(s)' = "discarded"
    BY <1>1, <2>1 DEF Outcome, Active
  <2>3. Archive!Discard(s)
    BY <1>0, <2>1, <2>2 DEF Archive!Discard, Outcomes
  <2> QED
    BY <2>3 DEF Archive!Next
<1>2. CASE \A t \in Scans : run'[t] = run[t] \/ (run[t] \in Active /\ run'[t] \in Active)
  BY <1>0, <1>2, Stutter
<1>3. (run[s] \in Active /\ run' = [run EXCEPT ![s] = v])
        \/ \A t \in Scans : run'[t] = run[t] \/ (run[t] \in Active /\ run'[t] \in Active)
  BY <1>0 DEF RollbackScan, Active, TypeOK
<1> QED
  BY <1>1, <1>2, <1>3

\* Every section of the code opens, gathers for, commits or discards one run,
\* or is invisible to the abstract archive.
LEMMA StepRefines == IInv /\ IInv' /\ [Next]_vars => [Archive!Next]_(Archive!vars)
<1> SUFFICES ASSUME IInv, IInv', [Next]_vars PROVE [Archive!Next]_(Archive!vars)
  OBVIOUS
<1>0. TypeOK /\ TypeOK'
  BY DEF IInv
<1> USE DEF database, memory, calls, workers
<1>1. CASE UNCHANGED <<run, built, archive, revision>>
  BY <1>0, <1>1, Stutter
<1>2. ASSUME NEW c \in Callers, BeginScan(c) PROVE Archive!Next
  <2>1. PICK s \in Scans : run[s] = "none" /\ run' = [run EXCEPT ![s] = "queued"]
    BY <1>2 DEF BeginScan
  <2>2. Outcomes' = [Outcomes EXCEPT ![s] = Outcome(s)'] /\ run'[s] = "queued"
    BY <1>0, <2>1, OneOutcome
  <2>3. Outcome(s) = "none" /\ Outcome(s)' = "open"
    BY <2>1, <2>2 DEF Outcome, Active
  <2>4. \A t \in Scans : Outcome(t) # "open"
    BY <1>2 DEF BeginScan, ScanIsActive, Outcome
  <2>5. UNCHANGED <<built, archive, revision>>
    BY <1>2 DEF BeginScan
  <2>6. Archive!Open(s)
    BY <2>2, <2>3, <2>4, <2>5 DEF Archive!Open, Outcomes
  <2> QED
    BY <2>6 DEF Archive!Next
<1>3. ASSUME NEW c \in Callers, RollbackUnspawned(c) PROVE [Archive!Next]_(Archive!vars)
  <2>1. callScan[c] \in Scans
    BY <1>3 DEF IInv, StarterHoldsItsRun, Holds, RollbackUnspawned
  <2>2. RollbackScan(callScan[c], "failed") /\ UNCHANGED built
    BY <1>3 DEF RollbackUnspawned
  <2> QED
    BY <1>0, <2>1, <2>2, RollbackRefines
<1>4. ASSUME NEW s \in Scans, RollbackWorker(s) PROVE [Archive!Next]_(Archive!vars)
  <2>1. verdict[s] \in {"cancelled", "failed"}
    BY <1>4 DEF IInv, RollbackVerdict, RollbackWorker
  <2>2. RollbackScan(s, verdict[s]) /\ UNCHANGED built
    BY <1>4 DEF RollbackWorker
  <2> QED
    BY <1>0, <2>1, <2>2, RollbackRefines
<1>5. ASSUME NEW s \in Scans, PersistPhase(s) PROVE [Archive!Next]_(Archive!vars)
  <2>1. \A t \in Scans : run'[t] = run[t] \/ (run[t] \in Active /\ run'[t] \in Active)
    BY <1>0, <1>5 DEF PersistPhase, Active, TypeOK
  <2>2. UNCHANGED <<built, archive, revision>>
    BY <1>5 DEF PersistPhase
  <2> QED
    BY <1>0, <2>1, <2>2, Stutter
<1>6. ASSUME NEW s \in Scans, NEW i \in Instances,
             StageInventory(s, i) \/ StageReconstruction(s, i)
      PROVE  Archive!Next
  <2>1. PICK r \in Rows : at[s] = "work" /\ Stage(s, r)
    BY <1>6 DEF StageInventory, StageReconstruction, Rows
  <2>2. run[s] \in Unsettled
    BY <2>1 DEF IInv, WorkerIsUnsettled, Working
  <2>3. Outcome(s) \in {"open", "discarded"}
    BY <2>2 DEF Unsettled, Outcome, Active
  <2>4. built' = [built EXCEPT ![s] = @ \cup {r}] /\ UNCHANGED <<run, archive, revision>>
    BY <2>1 DEF Stage
  <2>5. Outcomes' = Outcomes
    BY <2>4 DEF Outcomes, Outcome
  <2>6. Archive!Gather(s, r)
    BY <2>3, <2>4, <2>5 DEF Archive!Gather, Outcomes
  <2> QED
    BY <2>1, <2>6 DEF Archive!Next
<1>7. ASSUME NEW s \in Scans, Promote(s) PROVE Archive!Next
  <2>1. run[s] \in Active /\ run' = [run EXCEPT ![s] = "completed"] /\ UNCHANGED built
    BY <1>7 DEF Promote, PromoteScan
  <2>2. Outcomes' = [Outcomes EXCEPT ![s] = Outcome(s)'] /\ run'[s] = "completed"
    BY <1>0, <2>1, OneOutcome
  <2>3. Outcome(s) = "open" /\ Outcome(s)' = "committed"
    BY <2>1, <2>2 DEF Outcome, Active
  <2>4. staged[s] = built[s]
    BY <2>1 DEF IInv, ActiveStagingIsWhole
  <2>5. \/ /\ built[s] # {}
           /\ archive' = [r \in Rows |-> IF r \in built[s] THEN s ELSE archive[r]]
           /\ revision' = revision + 1
        \/ UNCHANGED <<archive, revision>>
    BY <1>7, <2>4 DEF Promote, PromoteScan
  <2>6. Archive!Commit(s)
    BY <2>1, <2>2, <2>3, <2>5 DEF Archive!Commit, Outcomes
  <2> QED
    BY <2>6 DEF Archive!Next
<1>8. ASSUME NEW p \in Procs, Boot(p) PROVE [Archive!Next]_(Archive!vars)
  <2>1. /\ run' = [s \in Scans |-> IF run[s] \in Active THEN "interrupted" ELSE run[s]]
        /\ UNCHANGED <<built, archive, revision>>
    BY <1>8 DEF Boot, RecoverInterruptedScans
  <2>2. CASE \A s \in Scans : run[s] \notin Active
    BY <1>0, <2>1, <2>2, Stutter
  <2>3. CASE \E s \in Scans : run[s] \in Active
    <3>1. PICK s \in Scans : run[s] \in Active
      BY <2>3
    <3>2. \A t \in Scans : run[t] \in Active => t = s
      BY <3>1 DEF IInv, OneActive
    <3>3. run' = [run EXCEPT ![s] = "interrupted"]
      BY <1>0, <2>1, <3>1, <3>2 DEF TypeOK
    <3>4. Outcomes' = [Outcomes EXCEPT ![s] = Outcome(s)'] /\ run'[s] = "interrupted"
      BY <1>0, <3>3, OneOutcome
    <3>5. Outcome(s) = "open" /\ Outcome(s)' = "discarded"
      BY <3>1, <3>4 DEF Outcome, Active
    <3>6. Archive!Discard(s)
      BY <2>1, <3>4, <3>5 DEF Archive!Discard, Outcomes
    <3> QED
      BY <3>6 DEF Archive!Next
  <2> QED
    BY <2>2, <2>3
<1>9. ASSUME NEW c \in Callers, Command(c) \/ CallerStep(c),
             ~BeginScan(c), ~RollbackUnspawned(c)
      PROVE  UNCHANGED <<run, built, archive, revision>>
  BY <1>9 DEF Command, CallerStep, StartCheck, GetStatusIdle, Cancel, BeginFails,
     PublishQueued, PublishToken, SpawnWorker, SpawnFails, ClearUnspawnedToken,
     PublishSpawnFailure, QueryLatestTerminal, RestoreStatus
<1>10. ASSUME NEW s \in Scans, WorkerStep(s) \/ WorkerFails(s),
              ~PersistPhase(s), ~Promote(s), ~RollbackWorker(s),
              \A i \in Instances : ~(StageInventory(s, i) \/ StageReconstruction(s, i))
       PROVE  UNCHANGED <<run, built, archive, revision>>
  BY <1>10 DEF WorkerStep, PublishPhase, NextPhase, LastCheck, ObserveCancel, PromoteRefused,
     WorkerFails, PublishVerdict, ReleaseToken, EndWorkers
<1>11. ASSUME NEW p \in Procs, Crash(p) PROVE UNCHANGED <<run, built, archive, revision>>
  BY <1>11 DEF Crash, EndWorkers
<1>12. CASE UNCHANGED vars
  BY <1>1, <1>12 DEF vars
<1> QED
  BY <1>1, <1>2, <1>3, <1>4, <1>5, <1>6, <1>7, <1>8, <1>9, <1>10, <1>11, <1>12 DEF Next

\* Cancellation, failure, crashes and a second process included, the archive
\* and its revision change only when a scan commits, as a whole, what its
\* worker gathered ("A cancelled or failed scan does not replace the last
\* completed dataset", "Cancellation never increments the dataset revision").
THEOREM Refinement == Spec => ImplementsAtomicArchive
<1> QED
  BY InitRefines, InvariantHolds, StepRefines, PTL DEF Spec, ImplementsAtomicArchive, Archive!Spec

-----------------------------------------------------------------------------
(***************************************************************************)
(* What the status of a process says of its scans, for any number of       *)
(* processes, command threads, scans, instances and crashes, in whatever   *)
(* order commands overlap and whether rollbacks fail or not.               *)
(*                                                                         *)
(* The status has many writers, and none looks at whose scan it speaks of. *)
(* So the invariant follows the outcome, not the status: from the moment   *)
(* a thread holds an outcome it will publish, the run it got it from       *)
(* allows to tell it, and no later section takes that back.                *)
(***************************************************************************)

\* A worker that is about to publish a verdict may tell it of its own run.
VerdictIsDurable == \A s \in Scans : at[s] = "settle" => EndedAs(s, verdict[s])

\* A start without a worker may tell that its run failed, once rolled back.
SpawnFailureIsDurable ==
    \A c \in Callers : callAt[c] \in {"untoken", "unstatus"} =>
        /\ callScan[c] \in Scans
        /\ owner[callScan[c]] = Home[c]
        /\ run[callScan[c]] # "none"
        /\ EndedAs(callScan[c], "failed")

RestoredIsTerminal ==
    /\ latest # NoScan => run[latest] \in Terminal
    /\ \A c \in Callers : callAt[c] = "restore" =>
          callScan[c] \in Scans /\ run[callScan[c]] \in Terminal

OutcomesStand ==
    VerdictIsDurable /\ SpawnFailureIsDurable /\ RestoredIsTerminal /\ ReportedOutcomeIsDurable

-----------------------------------------------------------------------------
\* What a section leaves of a run: a terminal state stays, a run without a
\* thread gets none again and is at most interrupted, and its owner stays.
RunStays(s) ==
    /\ run[s] \in Terminal => run'[s] = run[s]
    /\ run[s] \in Active /\ ~HasThread(s) =>
          run'[s] \in Active \cup {"interrupted"} /\ ~HasThread(s)'
    /\ run[s] # "none" => owner'[s] = owner[s] /\ run'[s] # "none"

LEMMA RunsStay ==
    ASSUME IInv, [Next]_vars
    PROVE  \A t \in Scans : RunStays(t)
<1>0. TypeOK /\ TypeOK'
  BY TypeStep DEF IInv
<1> USE <1>0, HomeAssumption, NoScanAssumption
    DEF RunStays, HasThread, Working, Active, Terminal, database, memory, calls, workers, TypeOK
<1>1. ASSUME NEW c \in Callers, Command(c) \/ CallerStep(c)
      PROVE  \A t \in Scans : RunStays(t)
  <2>1. CASE StartCheck(c) \/ GetStatusIdle(c) \/ Cancel(c) \/ BeginFails(c)
    BY <2>1 DEF StartCheck, GetStatusIdle, Cancel, BeginFails
  <2>2. CASE BeginScan(c)
    BY <2>2 DEF BeginScan
  <2>3. CASE PublishQueued(c) \/ PublishToken(c) \/ SpawnFails(c)
    BY <2>3 DEF PublishQueued, PublishToken, SpawnFails
  <2>4. CASE SpawnWorker(c)
    BY <2>4 DEF SpawnWorker, IInv, StarterHoldsItsRun, Holds
  <2>5. CASE RollbackUnspawned(c)
    BY <2>5 DEF RollbackUnspawned, RollbackScan, IInv, StarterHoldsItsRun, Holds
  <2>6. CASE ClearUnspawnedToken(c) \/ PublishSpawnFailure(c) \/ QueryLatestTerminal(c) \/ RestoreStatus(c)
    BY <2>6 DEF ClearUnspawnedToken, PublishSpawnFailure, QueryLatestTerminal, RestoreStatus
  <2> QED
    BY <1>1, <2>1, <2>2, <2>3, <2>4, <2>5, <2>6 DEF Command, CallerStep
<1>2. ASSUME NEW s \in Scans, WorkerStep(s) \/ WorkerFails(s)
      PROVE  \A t \in Scans : RunStays(t)
  <2>1. CASE PublishPhase(s) \/ PersistPhase(s)
    BY <2>1 DEF PublishPhase, PersistPhase
  <2>2. CASE NextPhase(s) \/ LastCheck(s) \/ ObserveCancel(s) \/ PromoteRefused(s) \/ WorkerFails(s)
    BY <2>2 DEF NextPhase, LastCheck, ObserveCancel, PromoteRefused, WorkerFails
  <2>3. CASE Promote(s)
    BY <2>3 DEF Promote, PromoteScan
  <2>4. CASE RollbackWorker(s)
    BY <2>4 DEF RollbackWorker, RollbackScan, IInv, RollbackVerdict
  <2>5. CASE PublishVerdict(s) \/ ReleaseToken(s)
    BY <2>5 DEF PublishVerdict, ReleaseToken, EndWorkers
  <2>6. ASSUME NEW i \in Instances, StageInventory(s, i) \/ StageReconstruction(s, i)
        PROVE  \A t \in Scans : RunStays(t)
    BY <2>6 DEF StageInventory, StageReconstruction, Stage
  <2> QED
    BY <1>2, <2>1, <2>2, <2>3, <2>4, <2>5, <2>6 DEF WorkerStep
<1>3. ASSUME NEW p \in Procs, Crash(p) PROVE \A t \in Scans : RunStays(t)
  <2>1. /\ UNCHANGED <<run, owner>>
        /\ \A s \in Scans : at'[s] \in {at[s], "gone"}
        /\ \A c \in Callers : \/ callAt'[c] = callAt[c] /\ callScan'[c] = callScan[c]
                              \/ callAt'[c] = "idle"
    BY <1>3 DEF Crash, EndWorkers
  <2> QED BY <2>1
<1>4. ASSUME NEW p \in Procs, Boot(p) PROVE \A t \in Scans : RunStays(t)
  BY <1>4 DEF Boot, RecoverInterruptedScans
<1>5. CASE UNCHANGED vars
  BY <1>5 DEF vars
<1> QED
  BY <1>1, <1>2, <1>3, <1>4, <1>5 DEF Next

\* The outcome may be told of run s after the step.
EndedNext(s, outcome) ==
    \/ run'[s] = outcome
    \/ /\ outcome \in {"failed", "cancelled"}
       /\ run'[s] = "interrupted" \/ (RollbackMayFail /\ run'[s] \in Active /\ ~HasThread(s)')

\* What may be told of a run may be told of it for ever.
LEMMA EndedStays ==
    ASSUME NEW s \in Scans, NEW v \in Terminal, RunStays(s), EndedAs(s, v)
    PROVE  EndedNext(s, v)
BY DEF RunStays, EndedAs, EndedNext, Terminal

\* A rollback, failed or not, by the last thread of a run lets its outcome be told.
LEMMA RollbackEnds ==
    ASSUME TypeOK, NEW s \in Scans, run[s] \in Unsettled, ~HasThread(s)',
           NEW v \in {"failed", "cancelled"}, RollbackScan(s, v)
    PROVE  /\ EndedNext(s, v)
           /\ run'[s] # "none"
           /\ latest' # latest => latest' = s /\ run'[s] \in Terminal
<1>1. CASE /\ run' = [run EXCEPT ![s] = IF @ \in Active THEN v ELSE @]
           /\ latest' = IF run[s] \in Active THEN s ELSE latest
  BY <1>1 DEF TypeOK, EndedNext, Unsettled, Active, Terminal
<1>2. CASE /\ RollbackMayFail /\ latest' = latest
           /\ run' = [run EXCEPT ![s] = IF @ \in Active THEN "running" ELSE @]
  BY <1>2 DEF TypeOK, EndedNext, Unsettled, Active, Terminal
<1> QED
  BY <1>1, <1>2 DEF RollbackScan

\* A status that no section has written since tells no less than before.
LEMMA ReportKept ==
    ASSUME TypeOK, ReportedOutcomeIsDurable, \A t \in Scans : RunStays(t),
           NEW p \in Procs, status'[p] = status[p],
           status[p].id # NoScan, status[p].state \in Terminal
    PROVE  \E t \in Scans : (t = status[p].id \/ owner'[t] = p) /\ EndedNext(t, status[p].state)
<1>1. PICK t \in Scans : (t = status[p].id \/ owner[t] = p) /\ EndedAs(t, status[p].state)
  BY DEF ReportedOutcomeIsDurable
<1>2. run[t] # "none"
  BY <1>1 DEF EndedAs, Terminal, Active
<1>3. owner'[t] = owner[t]
  BY <1>2 DEF RunStays
<1>4. EndedNext(t, status[p].state)
  BY <1>1, EndedStays
<1> QED BY <1>1, <1>3, <1>4

\* The same of the outcomes that threads hold.
LEMMA VerdictsKept ==
    ASSUME TypeOK, VerdictIsDurable, \A t \in Scans : RunStays(t),
           NEW t \in Scans, at[t] = "settle", verdict'[t] = verdict[t]
    PROVE  EndedNext(t, verdict[t])
<1>1. EndedAs(t, verdict[t]) /\ verdict[t] \in Terminal
  BY DEF VerdictIsDurable, TypeOK
<1> QED BY <1>1, EndedStays

LEMMA StartsKept ==
    ASSUME TypeOK, SpawnFailureIsDurable, \A t \in Scans : RunStays(t),
           NEW c \in Callers, callAt[c] \in {"untoken", "unstatus"}, callScan'[c] = callScan[c]
    PROVE  /\ callScan[c] \in Scans
           /\ owner'[callScan[c]] = Home[c]
           /\ run'[callScan[c]] # "none"
           /\ EndedNext(callScan[c], "failed")
<1>1. /\ callScan[c] \in Scans /\ owner[callScan[c]] = Home[c]
      /\ run[callScan[c]] # "none" /\ EndedAs(callScan[c], "failed")
  BY DEF SpawnFailureIsDurable
<1>2. "failed" \in Terminal
  BY DEF Terminal
<1>3. EndedNext(callScan[c], "failed")
  BY <1>1, <1>2, EndedStays
<1> QED BY <1>1, <1>3 DEF RunStays

\* Every section keeps what was told and what will be told true.
LEMMA OutcomesStep == IInv /\ OutcomesStand /\ [Next]_vars => OutcomesStand'
<1> SUFFICES ASSUME IInv, OutcomesStand, [Next]_vars
             PROVE  OutcomesStand'
  OBVIOUS
<1>0. TypeOK /\ TypeOK' /\ IInv' /\ \A t \in Scans : RunStays(t)
  BY TypeStep, InvStep, RunsStay DEF IInv
<1> USE <1>0, HomeAssumption, NoScanAssumption
    DEF database, memory, calls, workers
<1>1. VerdictIsDurable'
  <2> SUFFICES ASSUME NEW t \in Scans, NEW v, at'[t] = "settle", verdict'[t] = v
               PROVE  EndedNext(t, v)
    BY DEF VerdictIsDurable, EndedAs, EndedNext
  <2>1. \/ at[t] = "settle" /\ verdict'[t] = verdict[t]
        \/ RollbackWorker(t)
        \/ run'[t] = "completed" /\ verdict'[t] = "completed"
    <3>1. ASSUME NEW c \in Callers, Command(c) \/ CallerStep(c)
          PROVE  at[t] = "settle" /\ verdict'[t] = verdict[t]
      BY <3>1 DEF Command, CallerStep, StartCheck, GetStatusIdle, Cancel, BeginScan, BeginFails,
         PublishQueued, PublishToken, SpawnWorker, SpawnFails, RollbackUnspawned,
         ClearUnspawnedToken, PublishSpawnFailure, QueryLatestTerminal, RestoreStatus, TypeOK
    <3>2. ASSUME NEW s \in Scans, WorkerStep(s) \/ WorkerFails(s), ~RollbackWorker(s), ~Promote(s)
          PROVE  at[t] = "settle" /\ verdict'[t] = verdict[t]
      <4>1. CASE ReleaseToken(s)
        BY <4>1 DEF ReleaseToken, EndWorkers
      <4>2. CASE PublishPhase(s) \/ PersistPhase(s) \/ PublishVerdict(s)
        BY <4>2 DEF PublishPhase, PersistPhase, PublishVerdict, TypeOK
      <4>3. CASE NextPhase(s) \/ LastCheck(s) \/ ObserveCancel(s) \/ PromoteRefused(s) \/ WorkerFails(s)
        BY <4>3 DEF NextPhase, LastCheck, ObserveCancel, PromoteRefused, WorkerFails, TypeOK
      <4>4. CASE \E i \in Instances : StageInventory(s, i) \/ StageReconstruction(s, i)
        BY <4>4 DEF StageInventory, StageReconstruction, Stage
      <4> QED BY <3>2, <4>1, <4>2, <4>3, <4>4 DEF WorkerStep
    <3>3. ASSUME NEW s \in Scans, RollbackWorker(s)
          PROVE  RollbackWorker(t) \/ (at[t] = "settle" /\ verdict'[t] = verdict[t])
      BY <3>3 DEF RollbackWorker, TypeOK
    <3>4. ASSUME NEW s \in Scans, Promote(s)
          PROVE  \/ at[t] = "settle" /\ verdict'[t] = verdict[t]
                 \/ run'[t] = "completed" /\ verdict'[t] = "completed"
      BY <3>4 DEF Promote, PromoteScan, TypeOK
    <3>5. ASSUME NEW p \in Procs, Crash(p) \/ Boot(p)
          PROVE  at[t] = "settle" /\ verdict'[t] = verdict[t]
      BY <3>5 DEF Crash, EndWorkers, Boot
    <3>6. CASE UNCHANGED vars
      BY <3>6 DEF vars
    <3> QED BY <3>1, <3>2, <3>3, <3>4, <3>5, <3>6 DEF Next
  <2>2. CASE at[t] = "settle" /\ verdict'[t] = verdict[t]
    BY <2>2, VerdictsKept DEF OutcomesStand
  <2>3. CASE RollbackWorker(t)
    <3>1. /\ at[t] = "rollback" /\ RollbackScan(t, verdict[t]) /\ verdict' = verdict
          /\ at'[t] = "settle" /\ UNCHANGED <<callAt, callScan>>
      BY <2>3 DEF RollbackWorker, TypeOK
    <3>2. run[t] \in Unsettled /\ verdict[t] \in {"failed", "cancelled"}
      BY <3>1 DEF IInv, WorkerIsUnsettled, RollbackVerdict
    <3>3. ~HasThread(t)'
      BY <3>1 DEF HasThread, Working, IInv, StarterHoldsItsRun, Holds
    <3> QED BY <3>1, <3>2, <3>3, RollbackEnds
  <2>4. CASE run'[t] = "completed" /\ verdict'[t] = "completed"
    BY <2>4 DEF EndedNext
  <2> QED BY <2>1, <2>2, <2>3, <2>4
<1>2. SpawnFailureIsDurable'
  <2> SUFFICES ASSUME NEW c \in Callers, NEW h, callAt'[c] \in {"untoken", "unstatus"},
                      callScan'[c] = h
               PROVE  h \in Scans /\ owner'[h] = Home[c] /\ run'[h] # "none" /\ EndedNext(h, "failed")
    BY DEF SpawnFailureIsDurable, EndedAs, EndedNext
  <2>1. \/ callAt[c] \in {"untoken", "unstatus"} /\ callScan'[c] = callScan[c]
        \/ RollbackUnspawned(c)
    <3>1. ASSUME NEW d \in Callers, Command(d) \/ CallerStep(d)
          PROVE  \/ callAt[c] \in {"untoken", "unstatus"} /\ callScan'[c] = callScan[c]
                 \/ RollbackUnspawned(c)
      BY <3>1 DEF Command, CallerStep, StartCheck, GetStatusIdle, Cancel, BeginScan, BeginFails,
         PublishQueued, PublishToken, SpawnWorker, SpawnFails, RollbackUnspawned,
         ClearUnspawnedToken, PublishSpawnFailure, QueryLatestTerminal, RestoreStatus, TypeOK
    <3>2. ASSUME NEW s \in Scans, WorkerStep(s) \/ WorkerFails(s)
          PROVE  UNCHANGED <<callAt, callScan>>
      BY <3>2 DEF WorkerStep, WorkerFails, PublishPhase, PersistPhase, StageInventory,
         StageReconstruction, Stage, NextPhase, LastCheck, ObserveCancel, Promote, PromoteRefused,
         RollbackWorker, PublishVerdict, ReleaseToken
    <3>3. ASSUME NEW p \in Procs, Crash(p) \/ Boot(p)
          PROVE  callAt[c] \in {"untoken", "unstatus"} /\ callScan'[c] = callScan[c]
      BY <3>3 DEF Crash, Boot
    <3>4. CASE UNCHANGED vars
      BY <3>4 DEF vars
    <3> QED BY <3>1, <3>2, <3>3, <3>4 DEF Next
  <2>2. CASE callAt[c] \in {"untoken", "unstatus"} /\ callScan'[c] = callScan[c]
    BY <2>2, StartsKept DEF OutcomesStand
  <2>3. CASE RollbackUnspawned(c)
    <3>1. /\ callAt[c] = "unspawned" /\ callScan[c] = h /\ RollbackScan(h, "failed") /\ callScan' = callScan
          /\ callAt' = [callAt EXCEPT ![c] = "untoken"] /\ UNCHANGED <<at, owner>>
      BY <2>3 DEF RollbackUnspawned
    <3>2. h \in Scans /\ run[h] \in Unsettled /\ owner[h] = Home[c] /\ at[h] = "none"
      BY <3>1 DEF IInv, StarterHoldsItsRun, Holds
    <3>3. \A d \in Callers : Holds(d) /\ callScan[d] = h => d = c
      BY <3>1 DEF IInv, OneStarterPerRun, Holds
    <3>4. ~HasThread(h)'
      BY <3>1, <3>2, <3>3 DEF HasThread, Working, Holds, TypeOK
    <3>5. EndedNext(h, "failed") /\ run'[h] # "none"
      BY <3>1, <3>2, <3>4, RollbackEnds
    <3> QED BY <3>1, <3>2, <3>5
  <2> QED BY <2>1, <2>2, <2>3
<1>3. RestoredIsTerminal'
  <2>1. latest' # latest => latest' \in Scans /\ run'[latest'] \in Terminal
    <3>1. ASSUME NEW c \in Callers, RollbackUnspawned(c)
          PROVE  latest' # latest => latest' \in Scans /\ run'[latest'] \in Terminal
      <4>1. callScan[c] \in Scans /\ run[callScan[c]] \in Unsettled
        BY <3>1 DEF RollbackUnspawned, IInv, StarterHoldsItsRun, Holds
      <4>2. RollbackScan(callScan[c], "failed")
        BY <3>1 DEF RollbackUnspawned
      <4> QED BY <4>1, <4>2 DEF RollbackScan, TypeOK, Terminal
    <3>2. ASSUME NEW s \in Scans, RollbackWorker(s)
          PROVE  latest' # latest => latest' \in Scans /\ run'[latest'] \in Terminal
      <4>1. RollbackScan(s, verdict[s]) /\ verdict[s] \in {"failed", "cancelled"}
        BY <3>2 DEF RollbackWorker, IInv, RollbackVerdict
      <4> QED BY <4>1 DEF RollbackScan, TypeOK, Terminal
    <3>3. ASSUME NEW s \in Scans, Promote(s)
          PROVE  latest' \in Scans /\ run'[latest'] \in Terminal
      BY <3>3 DEF Promote, PromoteScan, TypeOK, Terminal
    <3>4. ASSUME NEW p \in Procs, Boot(p)
          PROVE  latest' # latest => latest' \in Scans /\ run'[latest'] \in Terminal
      BY <3>4 DEF Boot, RecoverInterruptedScans, ScanIsActive, Terminal
    <3>5. ASSUME NEW c \in Callers, Command(c) \/ CallerStep(c), ~RollbackUnspawned(c)
          PROVE  latest' = latest
      BY <3>5 DEF Command, CallerStep, StartCheck, GetStatusIdle, Cancel, BeginScan, BeginFails,
         PublishQueued, PublishToken, SpawnWorker, SpawnFails,
         ClearUnspawnedToken, PublishSpawnFailure, QueryLatestTerminal, RestoreStatus
    <3>6. ASSUME NEW s \in Scans, WorkerStep(s) \/ WorkerFails(s), ~RollbackWorker(s), ~Promote(s)
          PROVE  latest' = latest
      BY <3>6 DEF WorkerStep, WorkerFails, PublishPhase, PersistPhase, StageInventory,
         StageReconstruction, Stage, NextPhase, LastCheck, ObserveCancel, PromoteRefused,
         PublishVerdict, ReleaseToken
    <3>7. ASSUME NEW p \in Procs, Crash(p) PROVE latest' = latest
      BY <3>7 DEF Crash
    <3>8. CASE UNCHANGED vars
      BY <3>8 DEF vars
    <3> QED BY <3>1, <3>2, <3>3, <3>4, <3>5, <3>6, <3>7, <3>8 DEF Next
  <2>2. latest' # NoScan => run'[latest'] \in Terminal
    BY <2>1 DEF OutcomesStand, RestoredIsTerminal, RunStays, TypeOK
  <2>3. ASSUME NEW c \in Callers, callAt'[c] = "restore"
        PROVE  callScan'[c] \in Scans /\ run'[callScan'[c]] \in Terminal
    <3>1. \/ callAt[c] = "restore" /\ callScan'[c] = callScan[c]
          \/ QueryLatestTerminal(c)
      <4>1. ASSUME NEW d \in Callers, Command(d) \/ CallerStep(d)
            PROVE  \/ callAt[c] = "restore" /\ callScan'[c] = callScan[c]
                   \/ QueryLatestTerminal(c)
        BY <2>3, <4>1 DEF Command, CallerStep, StartCheck, GetStatusIdle, Cancel, BeginScan, BeginFails,
           PublishQueued, PublishToken, SpawnWorker, SpawnFails, RollbackUnspawned,
           ClearUnspawnedToken, PublishSpawnFailure, QueryLatestTerminal, RestoreStatus, TypeOK
      <4>2. ASSUME NEW s \in Scans, WorkerStep(s) \/ WorkerFails(s)
            PROVE  UNCHANGED <<callAt, callScan>>
        BY <4>2 DEF WorkerStep, WorkerFails, PublishPhase, PersistPhase, StageInventory,
           StageReconstruction, Stage, NextPhase, LastCheck, ObserveCancel, Promote, PromoteRefused,
           RollbackWorker, PublishVerdict, ReleaseToken
      <4>3. ASSUME NEW p \in Procs, Crash(p) \/ Boot(p)
            PROVE  callAt[c] = "restore" /\ callScan'[c] = callScan[c]
        BY <2>3, <4>3 DEF Crash, Boot
      <4>4. CASE UNCHANGED vars
        BY <2>3, <4>4 DEF vars
      <4> QED BY <4>1, <4>2, <4>3, <4>4, <2>3 DEF Next
    <3>2. CASE callAt[c] = "restore" /\ callScan'[c] = callScan[c]
      BY <3>2 DEF OutcomesStand, RestoredIsTerminal, RunStays
    <3>3. CASE QueryLatestTerminal(c)
      <4>1. latest # NoScan /\ callScan'[c] = latest
        BY <2>3, <3>3 DEF QueryLatestTerminal, TypeOK
      <4> QED BY <4>1 DEF OutcomesStand, RestoredIsTerminal, RunStays, TypeOK
    <3> QED BY <3>1, <3>2, <3>3
  <2> QED BY <2>2, <2>3 DEF RestoredIsTerminal
<1>4. ReportedOutcomeIsDurable'
  <2> SUFFICES ASSUME NEW p \in Procs, NEW v \in Terminal,
                      status'[p].id # NoScan, status'[p].state = v
               PROVE  \E t \in Scans : (t = status'[p].id \/ owner'[t] = p) /\ EndedNext(t, v)
    BY DEF ReportedOutcomeIsDurable, EndedAs, EndedNext
  <2>1. ASSUME NEW c \in Callers, PublishSpawnFailure(c), p = Home[c]
        PROVE  \E t \in Scans : owner'[t] = p /\ EndedNext(t, v)
    <3>1. status'[p].state = "failed" /\ callAt[c] = "unstatus"
      BY <2>1 DEF PublishSpawnFailure, TypeOK, Status
    <3>2. owner[callScan[c]] = p /\ callScan[c] \in Scans /\ run[callScan[c]] # "none"
          /\ EndedAs(callScan[c], "failed")
      BY <2>1, <3>1 DEF OutcomesStand, SpawnFailureIsDurable
    <3>3. EndedNext(callScan[c], "failed") /\ owner'[callScan[c]] = p
      BY <3>2, EndedStays DEF Terminal, RunStays
    <3> QED BY <3>1, <3>2, <3>3
  <2>2. ASSUME NEW c \in Callers, RestoreStatus(c), p = Home[c]
        PROVE  \E t \in Scans : t = status'[p].id /\ EndedNext(t, v)
    <3>1. /\ status'[p].id = callScan[c] /\ status'[p].state = FromDurable(run[callScan[c]])
          /\ callAt[c] = "restore" /\ run' = run
      BY <2>2 DEF RestoreStatus, TypeOK
    <3>2. callScan[c] \in Scans /\ run[callScan[c]] \in Terminal
      BY <3>1 DEF OutcomesStand, RestoredIsTerminal
    <3>3. FromDurable(run[callScan[c]]) = run[callScan[c]]
      BY <3>2 DEF FromDurable, Terminal
    <3> QED BY <3>1, <3>2, <3>3 DEF EndedNext
  <2>3. ASSUME NEW s \in Scans, PublishVerdict(s), p = owner[s]
        PROVE  \E t \in Scans : owner'[t] = p /\ EndedNext(t, v)
    <3>1. status'[p].state = verdict[s] /\ at[s] = "settle" /\ verdict' = verdict /\ owner' = owner
      BY <2>3 DEF PublishVerdict, TypeOK, Status
    <3>2. EndedNext(s, verdict[s])
      BY <3>1, VerdictsKept DEF OutcomesStand
    <3> QED BY <2>3, <3>1, <3>2
  <2>4. CASE status'[p] = status[p]
    BY <2>4, ReportKept DEF OutcomesStand
  <2>5. ASSUME NEW c \in Callers, Command(c) \/ CallerStep(c), status'[p] # status[p]
        PROVE  p = Home[c] /\ (PublishSpawnFailure(c) \/ RestoreStatus(c))
    BY <2>5 DEF Command, CallerStep, StartCheck, GetStatusIdle, Cancel, BeginScan, BeginFails,
       PublishQueued, PublishToken, SpawnWorker, SpawnFails, RollbackUnspawned, Terminal,
       ClearUnspawnedToken, PublishSpawnFailure, QueryLatestTerminal, RestoreStatus, TypeOK
  <2>6. ASSUME NEW s \in Scans, WorkerStep(s) \/ WorkerFails(s), status'[p] # status[p]
        PROVE  p = owner[s] /\ PublishVerdict(s)
    <3>1. ~PublishPhase(s)
      BY <2>6 DEF PublishPhase, Terminal, TypeOK, Status
    <3> QED
      BY <2>6, <3>1 DEF WorkerStep, WorkerFails, PersistPhase, StageInventory,
         StageReconstruction, Stage, NextPhase, LastCheck, ObserveCancel, Promote, PromoteRefused,
         RollbackWorker, PublishVerdict, ReleaseToken, TypeOK
  <2>7. ASSUME NEW q \in Procs, Crash(q) \/ Boot(q) PROVE status'[p] = status[p]
    BY <2>7 DEF Crash, Boot, Idle, TypeOK
  <2>8. CASE UNCHANGED vars
    BY <2>8, <2>4 DEF vars
  <2> QED BY <2>1, <2>2, <2>3, <2>4, <2>5, <2>6, <2>7, <2>8 DEF Next
<1> QED BY <1>1, <1>2, <1>3, <1>4 DEF OutcomesStand

\* However commands overlap, whether rollbacks fail or not, and whatever other
\* processes recover: a terminal outcome in the status of a process is durable
\* before it is told, of the run the status names or, where finish_worker
\* settled over a newer scan's status, of a run that this process began.
THEOREM TerminalStatusIsDurable == Spec => []ReportedOutcomeIsDurable
<1>1. Init => OutcomesStand
  BY DEF Init, OutcomesStand, VerdictIsDurable, SpawnFailureIsDurable, RestoredIsTerminal,
     ReportedOutcomeIsDurable, Idle
<1>2. IInv /\ OutcomesStand /\ [Next]_vars => OutcomesStand'
  BY OutcomesStep
<1>3. OutcomesStand => ReportedOutcomeIsDurable
  BY DEF OutcomesStand
<1> QED
  BY <1>1, <1>2, <1>3, InvariantHolds, PTL DEF Spec

-----------------------------------------------------------------------------
(***************************************************************************)
(* No run is orphaned.                                                     *)
(***************************************************************************)

\* A run loses its last thread only when it stops being active or its process
\* dies: a start hands its run to the worker, or rolls it back; a worker goes
\* on to publish only what it has promoted or rolled back.
LEMMA OrphansStep ==
  ASSUME ~RollbackMayFail
  PROVE  IInv /\ NoOrphanedRun /\ [Next]_vars => NoOrphanedRun'
<1> SUFFICES ASSUME IInv, NoOrphanedRun, [Next]_vars
             PROVE  NoOrphanedRun'
  OBVIOUS
<1>0. TypeOK /\ TypeOK'
  BY TypeStep DEF IInv
<1> USE <1>0, HomeAssumption, NoScanAssumption
    DEF NoOrphanedRun, HasThread, Working, Active, database, memory, calls, workers, TypeOK
<1>1. ASSUME NEW c \in Callers, Command(c) \/ CallerStep(c) PROVE NoOrphanedRun'
  <2>1. CASE StartCheck(c) \/ GetStatusIdle(c) \/ Cancel(c) \/ BeginFails(c)
    BY <2>1 DEF StartCheck, GetStatusIdle, Cancel, BeginFails
  <2>2. CASE BeginScan(c)
    BY <2>2 DEF BeginScan
  <2>3. CASE PublishQueued(c) \/ PublishToken(c) \/ SpawnFails(c)
    BY <2>3 DEF PublishQueued, PublishToken, SpawnFails
  <2>4. CASE SpawnWorker(c)
    BY <2>4 DEF SpawnWorker, IInv, StarterHoldsItsRun, Holds
  <2>5. CASE RollbackUnspawned(c)
    BY <2>5 DEF RollbackUnspawned, RollbackScan, IInv, StarterHoldsItsRun, Holds
  <2>6. CASE ClearUnspawnedToken(c) \/ PublishSpawnFailure(c) \/ QueryLatestTerminal(c) \/ RestoreStatus(c)
    BY <2>6 DEF ClearUnspawnedToken, PublishSpawnFailure, QueryLatestTerminal, RestoreStatus
  <2> QED
    BY <1>1, <2>1, <2>2, <2>3, <2>4, <2>5, <2>6 DEF Command, CallerStep
<1>2. ASSUME NEW s \in Scans, WorkerStep(s) \/ WorkerFails(s) PROVE NoOrphanedRun'
  <2>1. CASE PublishPhase(s) \/ PersistPhase(s)
    BY <2>1 DEF PublishPhase, PersistPhase
  <2>2. CASE NextPhase(s) \/ LastCheck(s) \/ ObserveCancel(s) \/ PromoteRefused(s) \/ WorkerFails(s)
    BY <2>2 DEF NextPhase, LastCheck, ObserveCancel, PromoteRefused, WorkerFails
  <2>3. CASE Promote(s)
    BY <2>3 DEF Promote, PromoteScan
  <2>4. CASE RollbackWorker(s)
    BY <2>4 DEF RollbackWorker, RollbackScan, IInv, RollbackVerdict
  <2>5. CASE PublishVerdict(s) \/ ReleaseToken(s)
    BY <2>5 DEF PublishVerdict, ReleaseToken, EndWorkers
  <2>6. ASSUME NEW i \in Instances, StageInventory(s, i) \/ StageReconstruction(s, i)
        PROVE  NoOrphanedRun'
    BY <2>6 DEF StageInventory, StageReconstruction, Stage
  <2> QED
    BY <1>2, <2>1, <2>2, <2>3, <2>4, <2>5, <2>6 DEF WorkerStep
<1>3. ASSUME NEW p \in Procs, Crash(p) PROVE NoOrphanedRun'
  <2>1. /\ UNCHANGED <<run, owner>> /\ up' = [up EXCEPT ![p] = FALSE]
        /\ \A s \in Scans : owner[s] # p => at'[s] = at[s]
        /\ \A c \in Callers : Home[c] # p => callAt'[c] = callAt[c] /\ callScan'[c] = callScan[c]
    BY <1>3 DEF Crash, EndWorkers
  <2> QED BY <2>1 DEF IInv, StarterHoldsItsRun, Holds
<1>4. ASSUME NEW p \in Procs, Boot(p) PROVE NoOrphanedRun'
  BY <1>4 DEF Boot, RecoverInterruptedScans
<1>5. CASE UNCHANGED vars
  BY <1>5 DEF vars
<1> QED
  BY <1>1, <1>2, <1>3, <1>4, <1>5 DEF Next

\* While rollbacks work, no run of a living process stays active without a
\* thread that will end it, however many processes share the database and
\* however their commands overlap: the unique index on active runs never
\* refuses every later scan.
THEOREM NoRunIsOrphaned ==
  ASSUME ~RollbackMayFail
  PROVE  Spec => []NoOrphanedRun
<1>1. Init => NoOrphanedRun
  BY DEF Init, NoOrphanedRun, Active
<1>2. IInv /\ NoOrphanedRun /\ [Next]_vars => NoOrphanedRun'
  BY OrphansStep
<1> QED
  BY <1>1, <1>2, InvariantHolds, PTL DEF Spec
=============================================================================
