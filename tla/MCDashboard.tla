---------------------------- MODULE MCDashboard ----------------------------
(***************************************************************************)
(* A second is two ticks, a minute two seconds, a day two minutes; no      *)
(* plausible session is longer than a day.                                 *)
(***************************************************************************)
EXTENDS Dashboard

S(id, start, end, duration, confidence, instance, offset) ==
    [id |-> id, start |-> start, end |-> end, duration |-> duration,
     confidence |-> confidence, instance |-> instance, offset |-> offset]
Kept(id, start, length, confidence, offset) ==
    S(id, start, start + length, length \div 2, confidence, id % 2, offset)

MCPool == {
    Kept(1, 16, 3, 4, 0), Kept(2, 16, 4, 3, 0), Kept(3, 16, 4, 4, 7),
    Kept(4, 18, 8, 4, 0), Kept(5, 12, 8, 2, 0), Kept(6, 13, 1, 4, -7),
    Kept(7, 22, 4, 4, -7), Kept(8, 22, 8, 4, 7), Kept(9, 40, 8, 3, 0),
    Kept(10, 32, 6, 4, 0), Kept(11, 60, 4, 4, 0), Kept(12, 25, 8, 1, 5),
    S(13, 20, None, None, 2, 1, 0), S(14, 17, 30, 6, 4, 0, 0),
    S(15, 21, 19, 0, 4, 1, 3), S(16, 22, 27, 1, 4, 0, 9), S(17, 39, 47, 4, 4, 1, 0)}
MCInitialArchives == UNION {kSubset(n, MCPool) : n \in 0..3}
=============================================================================
