----------------------- MODULE SessionReconstruction -----------------------
(***************************************************************************)
(* Reconstruction of the play sessions of one instance from the evidence   *)
(* of its logs, oldest log first: which launch an event belongs to, when   *)
(* a session begins and ends, and which events are copies of others.       *)
(*                                                                         *)
(* Data abstracted: evidence is a tag, a name (version, address or world)  *)
(* and an instant; a log has an identity of content, the instant it was    *)
(* last modified and its evidence.  Diagnostics are left out.              *)
(***************************************************************************)
EXTENDS Integers, Sequences, FiniteSets

CONSTANTS
    Second,          \* units of time in a second
    MergeWindow,     \* startup_merge_window_seconds
    TailLimit,       \* source_end_tail_limit_seconds
    MaxPlausible,    \* MAX_PLAUSIBLE_SESSION_SECONDS
    Inputs,          \* sets of records: logs, and their history where it is known
    None             \* the absent value of an Option

ASSUME PolicyAssumption ==
    /\ Second \in Nat \ {0}
    /\ MergeWindow \in Nat /\ TailLimit \in Nat /\ MaxPlausible \in Nat
ASSUME NoneAssumption == None \notin Int

Activities == {"server", "integrated", "world"}
Ends == {"shutdown", "crash"}
Tags == {"start", "version", "disconnect", "stopping"} \cup Activities \cup Ends
\* An event: names are absent where the log told none.
Evidence == [tag : Tags, name : STRING \cup {None}, at : Int \cup {None}, line : Nat]
Log == [content : Int, end : Int \cup {None}, evidence : Seq(Evidence)]

VARIABLES
    input,     \* the logs, and what really happened where that is known
    i, j,      \* log and event to be looked at next; j = 0 before a log is opened
    seen,      \* seen_source_hashes
    previous,  \* keys of the last log that had any: previous_source_keys
    copied,    \* duplicate_prefix of the current log
    keyed,     \* keyed_evidence_index
    active,    \* the session being built, or None
    sessions   \* sessions finished

vars == <<input, i, j, seen, previous, copied, keyed, active, sessions>>

logs == input.logs
Event == logs[i].evidence[j]

-----------------------------------------------------------------------------
(***************************************************************************)
(* Copies.  A log whose bytes were seen is skipped whole.  A log that      *)
(* begins with what the one before it ended with (rotation by copy) skips  *)
(* that part.  Events without an instant are never copies.                 *)
(***************************************************************************)

\* cross_source_evidence_key of the events of a log that have one.
Keys(l) ==
    LET keys[n \in 0..Len(l.evidence)] ==
            IF n = 0 THEN <<>>
            ELSE IF l.evidence[n].at = None THEN keys[n - 1]
            ELSE Append(keys[n - 1],
                        [key |-> <<l.evidence[n].tag, l.evidence[n].name, l.evidence[n].at>>,
                         line |-> l.evidence[n].line])
    IN  keys[Len(l.evidence)]

\* The longest proper border of each prefix of s (the failure function of
\* Knuth, Morris and Pratt): how much of s still matches after a mismatch.
Borders(s) ==
    LET border[n \in 1..Len(s)] ==
            IF n = 1 THEN 0
            ELSE LET fall[m \in 0..(n - 1)] ==
                         IF m = 0 \/ s[n].key = s[m + 1].key THEN m ELSE fall[border[m]]
                     m == fall[border[n - 1]]
                 IN  IF s[n].key = s[m + 1].key THEN m + 1 ELSE m
    IN  border

\* A mutant: the scan of the previous log does not fall back after a mismatch.
OverlapWithoutFallback(prev, cur) ==
    LET matched[n \in 0..Len(prev)] ==
            IF n = 0 THEN 0
            ELSE LET m == matched[n - 1]
                 IN  IF m < Len(cur) /\ prev[n].key = cur[m + 1].key THEN m + 1 ELSE 0
    IN  IF cur = <<>> THEN 0 ELSE matched[Len(prev)]

\* suffix_prefix_overlap: prev read once against cur.  A complete match that
\* is not at the end of prev is cut to its border.
SuffixPrefixOverlap(prev, cur) ==
    LET border == Borders(cur)
        matched[n \in 0..Len(prev)] ==
            IF n = 0 THEN 0
            ELSE LET fall[m \in 0..Len(cur)] ==
                         IF m < Len(cur) /\ (m = 0 \/ prev[n].key = cur[m + 1].key)
                         THEN m ELSE fall[border[m]]
                     m == fall[matched[n - 1]]
                 IN  IF prev[n].key = cur[m + 1].key THEN m + 1 ELSE m
    IN  IF cur = <<>> THEN 0 ELSE matched[Len(prev)]

MinPartialOverlap == 2

\* overlap_spans_multiple_lines
SpansLines(s) == \E k \in 1..(Len(s) - 1) : s[k].line # s[k + 1].line

\* How many keyed events of the next log are copies.
CopiedPrefix(prev, cur) ==
    LET n == SuffixPrefixOverlap(prev, cur) IN
    IF /\ n >= MinPartialOverlap
       /\ SpansLines(SubSeq(prev, Len(prev) - n + 1, Len(prev)))
       /\ SpansLines(SubSeq(cur, 1, n))
    THEN n ELSE 0

-----------------------------------------------------------------------------
(***************************************************************************)
(* The session being built (SessionBuilder).                               *)
(***************************************************************************)

PlaceType == [kind : {"server", "world"}, name : STRING \cup {None}]
Positions == Nat \X Nat \X {"start", "end", "version", "destination", "exit", "supporting"}
Builder ==
    [start : Int, boundary : {"explicit", "inferred"}, last : Int,
     hint : Int \cup {None}, stop : Int \cup {None}, versions : SUBSET STRING,
     places : SUBSET PlaceType, source : Nat, links : SUBSET Positions]

ASSUME AbsentAssumption == None \notin Builder

\* elapsed_seconds: a division that rounds towards zero.
Seconds(from, to) ==
    LET d == to - from IN IF d >= 0 THEN d \div Second ELSE -((-d) \div Second)

NewBuilder(boundary) ==
    [start |-> Event.at, boundary |-> boundary, last |-> Event.at, hint |-> logs[i].end,
     stop |-> None, versions |-> {}, places |-> {}, source |-> i,
     links |-> {<<i, j, "start">>}]

Link(b, role) == [b EXCEPT !.links = @ \cup {<<i, j, role>>}]

\* observe_timestamp: the last instant never moves back.
Observe(b) == IF Event.at # None /\ Event.at >= b.last THEN [b EXCEPT !.last = Event.at] ELSE b

\* observe_source_end_hint
ObserveHint(b) ==
    IF logs[i].end # None /\ (b.hint = None \/ logs[i].end > b.hint)
    THEN [b EXCEPT !.hint = logs[i].end] ELSE b

AddVersion(b) ==
    IF Event.name = None THEN b ELSE [b EXCEPT !.versions = @ \cup {Event.name}]

Place == IF Event.tag = "server" THEN [kind |-> "server", name |-> Event.name]
         ELSE [kind |-> "world", name |-> IF Event.tag = "world" THEN Event.name ELSE None]
UnnamedWorld == [kind |-> "world", name |-> None]
NamesWorld(b) == \E p \in b.places : p.kind = "world" /\ p # UnnamedWorld

\* add_destination: a world whose name is known is not unnamed as well.
AddPlace(b) ==
    IF Place.kind = "server" THEN [b EXCEPT !.places = @ \cup {Place}]
    ELSE IF Place # UnnamedWorld THEN [b EXCEPT !.places = (@ \ {UnnamedWorld}) \cup {Place}]
    ELSE IF NamesWorld(b) THEN b ELSE [b EXCEPT !.places = @ \cup {UnnamedWorld}]

-----------------------------------------------------------------------------
(***************************************************************************)
(* Finished sessions.                                                      *)
(***************************************************************************)

Exits == [ShutdownEnd |-> "clean", StopEnd |-> "clean", CrashEnd |-> "crash",
          NextStart |-> "unknown", SourceEnd |-> "unknown", Truncated |-> "unknown"]
Guessed == {"NextStart", "Truncated"}

Least(x, y) == IF x <= y THEN x ELSE y
Capped(x) == IF x < 0 THEN 0 ELSE IF x > 100 THEN 100 ELSE x

\* A mutant: a session without a start marker is scored like any other.
ConfidenceOfInferred(b, boundary, duration) ==
    LET base == (IF b.boundary = "explicit" THEN 72 ELSE 52)
                + [ShutdownEnd |-> 20, StopEnd |-> 16, CrashEnd |-> 18,
                   SourceEnd |-> 5, NextStart |-> 0, Truncated |-> -4][boundary]
                + (IF b.versions # {} THEN 4 ELSE 0) + (IF b.places # {} THEN 4 ELSE 0)
                - (IF duration = 0 THEN 20 ELSE 0)
        ended == IF boundary = "SourceEnd" THEN Least(base, 69)
                 ELSE IF boundary \in Guessed THEN Least(base, 54) ELSE base
    IN  Capped(IF duration = 0 THEN Least(ended, 54) ELSE ended)

\* session_confidence
Confidence(b, boundary, duration) ==
    LET base == (IF b.boundary = "explicit" THEN 72 ELSE 52)
                + [ShutdownEnd |-> 20, StopEnd |-> 16, CrashEnd |-> 18,
                   SourceEnd |-> 5, NextStart |-> 0, Truncated |-> -4][boundary]
                + (IF b.versions # {} THEN 4 ELSE 0) + (IF b.places # {} THEN 4 ELSE 0)
                - (IF duration = 0 THEN 20 ELSE 0)
        inferred == IF b.boundary = "inferred" THEN Least(base, 79) ELSE base
        ended == IF boundary = "SourceEnd" THEN Least(inferred, 69)
                 ELSE IF boundary \in Guessed THEN Least(inferred, 54) ELSE inferred
    IN  Capped(IF duration = 0 THEN Least(ended, 54) ELSE ended)

Label(score) == IF score >= 80 THEN "verified" ELSE IF score >= 55 THEN "high"
                ELSE IF score >= 30 THEN "partial" ELSE "unknown"

\* A mutant: an end before the start is kept.
FinishedAsTold(b, at, boundary) ==
    LET duration == Seconds(b.start, at)
        score == Confidence(b, boundary, duration)
    IN  [start |-> b.start, end |-> at, duration |-> duration, from |-> b.boundary,
         boundary |-> boundary, exit |-> Exits[boundary], score |-> score,
         versions |-> b.versions, places |-> b.places, links |-> b.links]

\* finish_session: an end before the start gives way to the last instant.
Finished(b, at, boundary) ==
    LET end == IF at >= b.start THEN at ELSE b.last
        duration == Seconds(b.start, end)
        score == Confidence(b, boundary, duration)
    IN  [start |-> b.start, end |-> end, duration |-> duration, from |-> b.boundary,
         boundary |-> boundary, exit |-> Exits[boundary], score |-> score,
         versions |-> b.versions, places |-> b.places, links |-> b.links]

\* A mutant: it ends when its file was last modified.
CutShortAtHint(b) ==
    IF b.stop # None THEN Finished(b, b.stop, "StopEnd")
    ELSE Finished(b, IF b.hint = None THEN b.last ELSE b.hint, "NextStart")

\* The end of a session that is cut short by the next start.
CutShort(b) ==
    IF b.stop # None THEN Finished(b, b.stop, "StopEnd") ELSE Finished(b, b.last, "NextStart")

\* choose_tail_boundary: the file was modified soon after the last event, or
\* nothing is known.
TailEnd(b) ==
    IF b.stop # None THEN Finished(b, b.stop, "StopEnd")
    ELSE IF b.hint # None /\ Seconds(b.last, b.hint) \in 0..TailLimit
    THEN Finished(b, b.hint, "SourceEnd")
    ELSE Finished(b, b.last, "Truncated")

\* build_payload: what is stored of a session.  An end that nobody observed,
\* or that is too far off, is not stored.
Implausible(s) == s.duration > MaxPlausible
Stored(s) ==
    [start |-> s.start,
     end |-> IF Implausible(s) \/ s.boundary = "Truncated" THEN None ELSE s.end,
     exit |-> IF Implausible(s) THEN "unknown" ELSE s.exit,
     score |-> IF Implausible(s) THEN Least(s.score, 54) ELSE s.score,
     label |-> IF Implausible(s) /\ Label(s.score) # "unknown" THEN "partial" ELSE Label(s.score)]

-----------------------------------------------------------------------------
Init ==
    /\ \E family \in Inputs : input \in family
    /\ i = 1 /\ j = 0
    /\ seen = {} /\ previous = <<>> /\ copied = 0 /\ keyed = 0
    /\ active = None /\ sessions = <<>>

Running == i <= Len(logs)
NextEvent == j' = j + 1 /\ UNCHANGED <<input, i, seen, previous, copied>>

\* A log with the bytes of an earlier one is left out whole.
SkipLog ==
    /\ Running /\ j = 0 /\ logs[i].content \in seen
    /\ i' = i + 1
    /\ UNCHANGED <<input, j, seen, previous, copied, keyed, active, sessions>>

\* A mutant: the bytes of a log are not remembered.
OpenLogForgetting ==
    /\ Running /\ j = 0 /\ logs[i].content \notin seen
    /\ copied' = CopiedPrefix(previous, Keys(logs[i]))
    /\ keyed' = 0 /\ j' = 1
    /\ UNCHANGED <<input, i, seen, previous, active, sessions>>

OpenLog ==
    /\ Running /\ j = 0 /\ logs[i].content \notin seen
    /\ seen' = seen \cup {logs[i].content}
    /\ copied' = CopiedPrefix(previous, Keys(logs[i]))
    /\ keyed' = 0 /\ j' = 1
    /\ UNCHANGED <<input, i, previous, active, sessions>>

CloseLog ==
    /\ Running /\ j > Len(logs[i].evidence)
    /\ previous' = IF Keys(logs[i]) = <<>> THEN previous ELSE Keys(logs[i])
    /\ i' = i + 1 /\ j' = 0
    /\ UNCHANGED <<input, seen, copied, keyed, active, sessions>>

Looking == Running /\ j \in 1..Len(logs[i].evidence)
IsCopy == Event.at # None /\ keyed < copied
Counted == keyed' = IF Event.at # None THEN keyed + 1 ELSE keyed

SkipCopy ==
    /\ Looking /\ IsCopy
    /\ Counted /\ NextEvent /\ UNCHANGED <<active, sessions>>

\* Several start markers are common while the game boots.
IsBootstrap ==
    /\ active # None
    /\ active.stop = None /\ active.source = i
    /\ Seconds(active.start, Event.at) \in 0..MergeWindow

StartUndated ==
    /\ Looking /\ ~IsCopy /\ Event.tag = "start" /\ Event.at = None
    /\ active' = IF active = None THEN None ELSE Link(active, "supporting")
    /\ Counted /\ NextEvent /\ UNCHANGED sessions

StartAgain ==
    /\ Looking /\ ~IsCopy /\ Event.tag = "start" /\ Event.at # None /\ IsBootstrap
    /\ active' = ObserveHint(Observe(Link(active, "supporting")))
    /\ Counted /\ NextEvent /\ UNCHANGED sessions

Start ==
    /\ Looking /\ ~IsCopy /\ Event.tag = "start" /\ Event.at # None /\ ~IsBootstrap
    /\ sessions' = IF active = None THEN sessions ELSE Append(sessions, CutShort(active))
    /\ active' = NewBuilder("explicit")
    /\ Counted /\ NextEvent

\* Version told without an activity: it belongs to a session or to nothing.
Version ==
    /\ Looking /\ ~IsCopy /\ Event.tag = "version"
    /\ active' = IF active = None THEN None
                 ELSE ObserveHint(Observe(Link(AddVersion(active), "version")))
    /\ Counted /\ NextEvent /\ UNCHANGED sessions

\* prepare_for_activity: activity after a stop is another session, and one
\* may begin with an activity.
Stopped == active # None /\ active.stop # None

\* A mutant: a session that stopped is told and goes on.
PreparedGoingOn ==
    IF active # None THEN ObserveHint(active)
    ELSE IF Event.at # None THEN NewBuilder("inferred") ELSE None

Prepared ==
    IF active # None /\ ~Stopped THEN ObserveHint(active)
    ELSE IF Event.at # None THEN NewBuilder("inferred") ELSE None

Activity ==
    /\ Looking /\ ~IsCopy /\ Event.tag \in Activities
    /\ sessions' = IF Stopped THEN Append(sessions, CutShort(active)) ELSE sessions
    /\ LET b == Prepared
           versioned == IF Event.tag = "integrated" /\ Event.name # None
                        THEN Link(AddVersion(b), "version") ELSE b
       IN  active' = IF b = None THEN None ELSE Observe(Link(AddPlace(versioned), "destination"))
    /\ Counted /\ NextEvent

Disconnect ==
    /\ Looking /\ ~IsCopy /\ Event.tag = "disconnect"
    /\ active' = IF active = None THEN None ELSE ObserveHint(Observe(Link(active, "supporting")))
    /\ Counted /\ NextEvent /\ UNCHANGED sessions

\* The first stop that has an instant is kept until the session is known to
\* have ended.
Stopping ==
    /\ Looking /\ ~IsCopy /\ Event.tag = "stopping"
    /\ active' = IF active = None THEN None
                 ELSE [ObserveHint(Observe(Link(Link(active, "end"), "exit")))
                          EXCEPT !.stop = IF @ = None THEN Event.at ELSE @]
    /\ Counted /\ NextEvent /\ UNCHANGED sessions

\* A clean shutdown or a crash ends the session at once; without an instant,
\* or a session, it is passed over.
End ==
    /\ Looking /\ ~IsCopy /\ Event.tag \in Ends
    /\ IF active = None \/ Event.at = None THEN UNCHANGED <<active, sessions>>
       ELSE /\ active' = None
            /\ sessions' = Append(sessions,
                   Finished(Observe(Link(Link(active, "end"), "exit")), Event.at,
                            IF Event.tag = "crash" THEN "CrashEnd" ELSE "ShutdownEnd"))
    /\ Counted /\ NextEvent

\* After the last log the session still open ends somehow.
FinishTail ==
    /\ ~Running /\ active # None
    /\ sessions' = Append(sessions, TailEnd(active))
    /\ active' = None
    /\ UNCHANGED <<input, i, j, seen, previous, copied, keyed>>

Next == \/ SkipLog \/ OpenLog \/ CloseLog \/ SkipCopy
        \/ StartUndated \/ StartAgain \/ Start \/ Version \/ Activity
        \/ Disconnect \/ Stopping \/ End \/ FinishTail

Spec == Init /\ [][Next]_vars
Done == ~Running /\ active = None

-----------------------------------------------------------------------------
(***************************************************************************)
(* Histories.  Of some logs it is known who wrote them: launches tells     *)
(* when each launch began and ended, copies with how many events of the    *)
(* log before it a log begins, and by whose each other event is.           *)
(***************************************************************************)

Leaving == Ends \cup {"stopping"}

Original(n, a) == \A b \in 1..(a - 1) : n.logs[b].content # n.logs[a].content
Happened(n, p) == n.logs[p[1]].evidence[p[2]]
Earlier(p, q) == p[1] < q[1] \/ (p[1] = q[1] /\ p[2] < q[2])

\* Where the logs tell what none before them told.
Fresh(n) == UNION {{a} \X ((n.copies[a] + 1)..Len(n.logs[a].evidence)) :
                      a \in {b \in DOMAIN n.logs : Original(n, b)}}
Wrote(n, l) == {p \in Fresh(n) : n.by[p] = l}
Opens(n, p) == \A q \in Wrote(n, n.by[p]) : q = p \/ Earlier(p, q)

SameEvent(e, f) == e.tag = f.tag /\ e.name = f.name /\ e.at = f.at
LogBefore(n, b, a) ==
    /\ Original(n, b) /\ n.logs[b].evidence # <<>>
    /\ \A d \in (b + 1)..(a - 1) : Original(n, d) => n.logs[d].evidence = <<>>

\* The first c events of new are the last of old, and enough to be known for it.
Repeats(old, new, c) ==
    LET gap == Len(old) - c IN
    /\ c >= MinPartialOverlap /\ c <= Len(old) /\ c <= Len(new)
    /\ \A k \in 1..c : SameEvent(old[gap + k], new[k])
    /\ \E k \in 1..(c - 1) : old[gap + k].line # old[gap + k + 1].line
    /\ \E k \in 1..(c - 1) : new[k].line # new[k + 1].line

\* What a log repeats is of the log before it, and it does not go on with the
\* event that one ended with.
CopiesAreTold(n) ==
    \A a \in DOMAIN n.logs : Original(n, a) =>
        LET new == n.logs[a].evidence
            befores == {b \in 1..(a - 1) : LogBefore(n, b, a)}
        IN  /\ n.copies[a] # 0 =>
                  \E b \in befores : Repeats(n.logs[b].evidence, new, n.copies[a])
            /\ \A b \in befores : \A k \in (n.copies[a] + 1)..Len(new) :
                  LET old == n.logs[b].evidence IN ~SameEvent(new[k], old[Len(old)])

\* Launches follow one another, and so do their events; a launch that began to
\* leave neither boots nor plays any more; a file is written when it is modified.
LaunchesTakeTurns(n) ==
    \A p \in Fresh(n) :
        /\ n.logs[p[1]].end # None => Happened(n, p).at <= n.logs[p[1]].end
        /\ \A q \in Fresh(n) : Earlier(p, q) =>
              /\ n.by[p] <= n.by[q]
              /\ Happened(n, p).at <= Happened(n, q).at
              /\ n.by[p] = n.by[q] /\ Happened(n, p).tag \in Leaving =>
                    Happened(n, q).tag \notin {"start"} \cup Activities

\* A launch begins with a marker, and repeats it only while it boots; the next
\* one, when this left without a word, is not taken for the same.
BootsAreApart(n) ==
    \A p \in Fresh(n) : Opens(n, p) =>
        LET first == Happened(n, p)
            Boot(q) == Happened(n, q).tag = "start"
            Booting(q) == q[1] = p[1] /\ Seconds(first.at, Happened(n, q).at) <= MergeWindow
        IN  /\ Boot(p) /\ first.at = n.launches[n.by[p]][1]
            /\ \A q \in Wrote(n, n.by[p]) : Boot(q) => Booting(q)
            /\ (\A q \in Wrote(n, n.by[p]) : Happened(n, q).tag \notin Leaving) =>
                  \A q \in Wrote(n, n.by[p] + 1) : Opens(n, q) => ~Booting(q)

Instants(n, l, tags) ==
    {Happened(n, p).at : p \in {q \in Wrote(n, l) : Happened(n, q).tag \in tags}}
Modified(n, l) == {n.logs[p[1]].end : p \in Wrote(n, l)} \ {None}
Earliest(t, T) == t \in T /\ \A s \in T : t <= s
Latest(t, T) == t \in T /\ \A s \in T : s <= t

\* The last thing known of the end of a launch: its end, its word of stopping,
\* or its last event; of the last launch, also when its files were modified.
EndIsKnown(n, l, end) ==
    LET ends == Instants(n, l, Ends)
        stops == Instants(n, l, {"stopping"})
    IN  IF ends # {} THEN Earliest(end, ends)
        ELSE IF stops # {} THEN Earliest(end, stops)
        ELSE \E t \in Instants(n, l, Tags) :
                /\ Latest(t, Instants(n, l, Tags))
                /\ IF l = Len(n.launches) /\ Modified(n, l) # {}
                   THEN \E h \in Modified(n, l) :
                           /\ Latest(h, Modified(n, l))
                           /\ end = IF Seconds(t, h) \in 0..TailLimit THEN h ELSE t
                   ELSE end = t

Truthful(n) ==
    /\ n.launches \in Seq(Int \X Int)
    /\ n.copies \in [DOMAIN n.logs -> Nat]
    /\ n.by \in [Fresh(n) -> DOMAIN n.launches]
    /\ \A a \in DOMAIN n.logs : \A k \in DOMAIN n.logs[a].evidence :
          n.logs[a].evidence[k].at # None
    /\ CopiesAreTold(n) /\ LaunchesTakeTurns(n) /\ BootsAreApart(n)
    /\ \A l \in DOMAIN n.launches : Wrote(n, l) # {} /\ EndIsKnown(n, l, n.launches[l][2])

ASSUME InputsAssumption == \A family \in Inputs : \A n \in family : n.logs \in Seq(Log)
ASSUME HistoriesAssumption ==
    \A family \in Inputs : \A n \in family : n.launches # None => Truthful(n)

-----------------------------------------------------------------------------
(***************************************************************************)
(* Properties.                                                             *)
(***************************************************************************)

\* Every variable has its type, and what is under construction lies ahead of
\* what was read.
TypeOK ==
    /\ i \in 1..(Len(logs) + 1) /\ j \in Nat
    /\ Running => j <= Len(logs[i].evidence) + 1
    /\ copied \in Nat /\ keyed \in Nat
    /\ active \in Builder \cup {None}
    /\ \A k \in DOMAIN sessions :
          /\ sessions[k].boundary \in DOMAIN Exits
          /\ sessions[k].score \in 0..100
          /\ sessions[k].links \in SUBSET Positions

\* Whatever order clocks put the evidence in, no session ends before it
\* starts, and its duration is what lies between.
SessionsHaveSoundBounds ==
    \A k \in DOMAIN sessions :
        /\ sessions[k].end >= sessions[k].start
        /\ sessions[k].duration = (sessions[k].end - sessions[k].start) \div Second

\* No event supports two sessions, whichever file its session began in and
\* however it ended.
EvidenceBelongsToOneSession ==
    \A k, n \in DOMAIN sessions :
        k # n => \A p \in sessions[k].links, q \in sessions[n].links :
                    <<p[1], p[2]>> # <<q[1], q[2]>>

\* Evidence runs forward: no event is dated before one that is read earlier.
At(n, k) == logs[n].evidence[k].at
InOrder ==
    \A n, m \in DOMAIN logs : \A k \in DOMAIN logs[n].evidence, l \in DOMAIN logs[m].evidence :
        (n < m \/ (n = m /\ k < l)) /\ At(n, k) # None /\ At(m, l) # None => At(n, k) <= At(m, l)

\* One client does not run twice at a time: evidence that runs forward gives
\* sessions that follow one another.
SessionsFollowOneAnother ==
    InOrder => \A k \in 1..(Len(sessions) - 1) : sessions[k].end <= sessions[k + 1].start

\* Of logs written by known launches, split by rotation anywhere after a launch
\* has booted, copied whole or overlapping, each launch gives one session, and
\* one that begins with its first marker and ends with the last thing known of
\* its end.
EveryLaunchIsToldOnce ==
    Done /\ input.launches # None =>
        [k \in DOMAIN sessions |-> <<sessions[k].start, sessions[k].end>>] = input.launches

\* "Returns the exact longest suffix/prefix match in linear time"
\* (session_reconstruction.rs:599): the longest end of the previous keys that
\* the keys of the log at hand begin with.
OverlapIsLongest ==
    Running /\ j = 0 =>
        LET cur == Keys(logs[i])
            shorter == Least(Len(previous), Len(cur))
            Match(n) == \A k \in 1..n :
                            previous[Len(previous) - n + k].key = cur[k].key
            n == SuffixPrefixOverlap(previous, cur)
        IN  n \in 0..shorter /\ Match(n) /\ \A k \in (n + 1)..shorter : ~Match(k)

\* A stored session is "verified" only when both its ends were observed, they
\* differ, and neither is too far from the other to be true.
VerifiedIsObserved ==
    \A k \in DOMAIN sessions :
        LET s == sessions[k] IN
        Stored(s).label = "verified" =>
            /\ s.from = "explicit" /\ s.boundary \in {"ShutdownEnd", "StopEnd", "CrashEnd"}
            /\ Stored(s).end # None /\ Stored(s).end > s.start
            /\ Stored(s).end - s.start < (MaxPlausible + 1) * Second
=============================================================================
