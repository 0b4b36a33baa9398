--------------------------- MODULE AtomicArchive ---------------------------
(***************************************************************************)
(* What MineTrace promises about its canonical archive, with no mention of *)
(* threads, processes, statuses or staging tables: a scan run is opened    *)
(* while no other is open, gathers rows, and then either commits every row *)
(* it gathered in one step or is discarded without a trace.                *)
(*                                                                         *)
(* docs/backend-architecture.md, product invariant 6 and "Concurrency":    *)
(* "A cancelled or failed scan does not replace the last completed         *)
(* dataset", "Cancellation never increments the dataset revision", "Only   *)
(* one mutating scan runs at a time".                                      *)
(***************************************************************************)
EXTENDS Integers

CONSTANTS Scans,  \* identifiers of scan runs
          Rows,   \* what a scan can write: inventory and session rows
          NoScan  \* the writer of a row no scan has written yet

VARIABLES outcome,   \* outcome[s]: "none", "open", "committed" or "discarded"
          gathered,  \* gathered[s]: rows scan s produced so far
          archive,   \* archive[r]: the scan whose version of row r is canonical
          revision   \* dataset_state.revision

vars == <<outcome, gathered, archive, revision>>

Outcome == {"none", "open", "committed", "discarded"}

Init ==
    /\ outcome = [s \in Scans |-> "none"]
    /\ gathered = [s \in Scans |-> {}]
    /\ archive = [r \in Rows |-> NoScan]
    /\ revision = 0

Open(s) ==
    /\ outcome[s] = "none"
    /\ \A t \in Scans : outcome[t] # "open"
    /\ outcome' = [outcome EXCEPT ![s] = "open"]
    /\ UNCHANGED <<gathered, archive, revision>>

(***************************************************************************)
(* A discarded scan may go on gathering for a while: its worker may not    *)
(* have noticed.                                                           *)
(***************************************************************************)
Gather(s, r) ==
    /\ outcome[s] \in {"open", "discarded"}
    /\ gathered' = [gathered EXCEPT ![s] = @ \cup {r}]
    /\ UNCHANGED <<outcome, archive, revision>>

(***************************************************************************)
(* The commit installs exactly the gathered rows and bumps the revision,   *)
(* or finds that nothing changed and touches neither.                      *)
(***************************************************************************)
Commit(s) ==
    /\ outcome[s] = "open"
    /\ outcome' = [outcome EXCEPT ![s] = "committed"]
    /\ \/ /\ gathered[s] # {}
          /\ archive' = [r \in Rows |-> IF r \in gathered[s] THEN s ELSE archive[r]]
          /\ revision' = revision + 1
       \/ UNCHANGED <<archive, revision>>
    /\ UNCHANGED gathered

Discard(s) ==
    /\ outcome[s] = "open"
    /\ outcome' = [outcome EXCEPT ![s] = "discarded"]
    /\ UNCHANGED <<gathered, archive, revision>>

Next ==
    \E s \in Scans :
        \/ Open(s)
        \/ \E r \in Rows : Gather(s, r)
        \/ Commit(s)
        \/ Discard(s)

Spec == Init /\ [][Next]_vars

=============================================================================
