----------------------- MODULE MCSessionReconstruction -----------------------
(***************************************************************************)
(* Instances of SessionReconstruction for TLC.  Histories are logs of two  *)
(* launches whose course is known; Disordered are events of every kind at  *)
(* any instant; Repetitive are logs with few distinct keys, for overlaps.  *)
(***************************************************************************)
EXTENDS SessionReconstruction

Ev(tag, name, at, line) == [tag |-> tag, name |-> name, at |-> at, line |-> line]

\* What a launch at t writes: its markers, an activity, and its end.
Boots == {"once", "twice"}
Plays == {"none", "server", "world"}
Outcomes == {"killed", "stop", "stop and shutdown", "shutdown", "crash", "crash and shutdown"}
Booting(t, boot) ==
    <<Ev("start", None, t, t), Ev("version", "v", t, t)>>
        \o (IF boot = "twice" THEN <<Ev("start", None, t + 3, t + 3)>> ELSE <<>>)
Playing(t, play) ==
    CASE play = "none" -> <<>>
      [] play = "server" -> <<Ev("server", "a", t + 5, t + 5), Ev("disconnect", None, t + 6, t + 6)>>
      [] play = "world" -> <<Ev("integrated", "v", t + 5, t + 5), Ev("world", "w", t + 6, t + 6)>>
Ending(t, outcome) ==
    CASE outcome = "killed" -> <<>>
      [] outcome = "stop" -> <<Ev("stopping", None, t + 7, t + 7), Ev("disconnect", None, t + 8, t + 8)>>
      [] outcome = "stop and shutdown" -> <<Ev("stopping", None, t + 7, t + 7), Ev("shutdown", None, t + 8, t + 8)>>
      [] outcome = "shutdown" -> <<Ev("shutdown", None, t + 8, t + 8)>>
      [] outcome = "crash" -> <<Ev("crash", None, t + 7, t + 7)>>
      [] outcome = "crash and shutdown" -> <<Ev("crash", None, t + 7, t + 7), Ev("shutdown", None, t + 8, t + 8)>>

Script == [boot : Boots, play : Plays, outcome : Outcomes]
Written(t, s) == Booting(t, s.boot) \o Playing(t, s.play) \o Ending(t, s.outcome)
LastOf(s) == s[Len(s)].at
\* When the launch ended, as far as its own log shows.
Known(t, s) ==
    CASE s.outcome = "killed" -> LastOf(Written(t, s))
      [] s.outcome \in {"stop", "crash", "crash and shutdown"} -> t + 7
      [] OTHER -> t + 8

\* Two launches, the second at t; the log is split after its n-th event (none
\* when n = 0), and the second file begins with a copy of the last c events
\* of the first, or comes twice (c = 0 and twice).
Story(a, b, t, n, c, twice) ==
    LET first == Written(0, a)
        all == first \o Written(t, b)
        size == Len(first)
        cut == IF n = 0 THEN size ELSE n
        head == SubSeq(all, 1, cut)
        tail == SubSeq(head, Len(head) - c + 1, Len(head)) \o SubSeq(all, cut + 1, Len(all))
        one == [content |-> 1, end |-> LastOf(head), evidence |-> head]
        two == [content |-> 2, end |-> LastOf(all) + 2, evidence |-> tail]
        copy == [logs |-> IF twice THEN <<one, one, two, two>> ELSE <<one, two>>,
                 copies |-> IF twice THEN <<0, 0, c, c>> ELSE <<0, c>>]
    IN  [logs |-> copy.logs, copies |-> copy.copies,
         by |-> [p \in Fresh(copy) |->
                    IF copy.logs[p[1]] = one \/ cut + p[2] - c <= size THEN 1 ELSE 2],
         launches |-> << <<0, Known(0, a)>>,
                         <<t, IF b.outcome = "killed" THEN LastOf(all) + 2 ELSE Known(t, b)>> >>]

CutOf(a, place) ==
    CASE place = "between" -> 0
      [] place = "booted" -> Len(Booting(0, a.boot))
      [] place = "early" -> IF Len(Written(0, a)) > 3 THEN 4 ELSE 0

Histories ==
    {Story(a, b, t, CutOf(a, place), IF a.boot = "twice" /\ copy THEN 3 ELSE 0, twice) :
        a \in Script, b \in [boot : {"once"}, play : {"none", "world"}, outcome : {"killed", "stop"}],
        t \in {12, 40}, place \in {"between", "booted", "early"}, copy \in BOOLEAN, twice \in BOOLEAN}

Kinds == {<<"start", None>>, <<"version", "v">>, <<"server", "a">>, <<"world", "w">>,
          <<"world", None>>, <<"disconnect", None>>, <<"stopping", None>>, <<"shutdown", None>>}
Disordered ==
    {[logs |-> <<[content |-> 1, end |-> 6, evidence |->
                     <<Ev(a[1], a[2], 4, 1), Ev(b[1], b[2], t[1], 2)>>],
                 [content |-> 2, end |-> e, evidence |->
                     <<Ev(c[1], c[2], t[2], 1), Ev(d[1], d[2], t[3], 2)>>]>>,
      launches |-> None] :
        a \in {<<"start", None>>, <<"server", "a">>, <<"stopping", None>>}, b, c \in Kinds,
        d \in {<<"start", None>>, <<"world", "w">>, <<"shutdown", None>>, <<"stopping", None>>},
        t \in {<<5, 6, 7>>, <<None, 2, 9>>, <<3, None, 40>>, <<9, 9, 1>>, <<5, 1, None>>},
        e \in {8, None}}

KeyLog(content, f) ==
    [content |-> content, end |-> None,
     evidence |-> [k \in DOMAIN f |-> Ev("server", f[k], 0, (k + 1) \div 2)]]
Repetitive ==
    {[logs |-> <<KeyLog(1, SubSeq(f, 1, m)), KeyLog(2, SubSeq(g, 1, n))>>, launches |-> None] :
        f, g \in [1..5 -> {"a", "b"}], m \in {4, 5}, n \in {0, 3, 4, 5}}

MCInputs == {Histories, Disordered, Repetitive}
=============================================================================
