-------------------------- MODULE MCScanLifecycle --------------------------
(* Small instances of ScanLifecycle for TLC. *)
EXTENDS ScanLifecycle, TLC

CONSTANTS c1, c2, p1, p2

OneProcess == c1 :> p1 @@ c2 :> p1
TwoProcesses == c1 :> p1 @@ c2 :> p2
OneCaller == c1 :> p1

ScanSymmetry == Permutations(Scans)
=============================================================================
