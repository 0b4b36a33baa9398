-------------------- MODULE SessionReconstruction_proofs --------------------
(***************************************************************************)
(* What holds of the sessions of any logs, however many, split, copied or  *)
(* disordered they are: bounds are sound, no event supports two sessions,  *)
(* a verified session has been observed at both ends, sessions follow one  *)
(* another when the evidence runs forward, what is skipped as a copy is    *)
(* the longest overlap, and of logs written by known launches each launch  *)
(* gives one session.                                                      *)
(*                                                                         *)
(* The invariant speaks of the session being built as well: its last       *)
(* instant is not before its start, and all events it links to have been   *)
(* read and are of no finished session.                                    *)
(*                                                                         *)
(* The longest overlap rests on the table of borders: falling back from a  *)
(* match to its border passes over no shorter match.                       *)
(***************************************************************************)
EXTENDS SessionReconstruction, DataInduction

USE PolicyAssumption, NoneAssumption, InputsAssumption

\* A builder whose last instant is not before its start.
Forward(b) == b \in Builder /\ b.last >= b.start

Observed == {"ShutdownEnd", "StopEnd", "CrashEnd"}
Boundaries == Observed \cup {"NextStart", "SourceEnd", "Truncated"}

Session ==
    [start : Int, end : Int, duration : Nat, from : {"explicit", "inferred"},
     boundary : Boundaries, exit : {"clean", "crash", "unknown"}, score : 0..100,
     versions : SUBSET STRING, places : SUBSET PlaceType, links : SUBSET Positions]

\* A finished session with sound bounds, verified only when it was observed.
Sound(s) ==
    /\ s \in Session /\ s.end >= s.start
    /\ s.duration = (s.end - s.start) \div Second
    /\ s.score >= 80 => s.from = "explicit" /\ s.boundary \in Observed /\ s.duration # 0

InputStands ==
    /\ logs \in Seq(Log)
    /\ i \in 1..(Len(logs) + 1) /\ j \in Nat
    /\ Running => j <= Len(logs[i].evidence) + 1

SessionsStand ==
    /\ active # None => Forward(active)
    /\ sessions \in Seq(Session)
    /\ \A k \in DOMAIN sessions : Sound(sessions[k])

\* Events read so far.
Read(p) == p[1] < i \/ (p[1] = i /\ p[2] < j)
Apart(L, M) == \A p \in L, q \in M : <<p[1], p[2]>> # <<q[1], q[2]>>

LinksStand ==
    /\ active # None => \A p \in active.links : Read(p)
    /\ \A k \in DOMAIN sessions : \A p \in sessions[k].links : Read(p)
    /\ active # None => \A k \in DOMAIN sessions : Apart(sessions[k].links, active.links)
    /\ \A k, n \in DOMAIN sessions : k # n => Apart(sessions[k].links, sessions[n].links)

IInv == InputStands /\ SessionsStand /\ LinksStand

-----------------------------------------------------------------------------
\* The event looked at is an event, and its log a log.
LEMMA EventType ==
  ASSUME InputStands, Looking
  PROVE  Event \in Evidence /\ logs[i] \in Log /\ i \in Nat \ {0} /\ j \in Nat \ {0}
<1>1. i \in DOMAIN logs
  BY DEF InputStands, Looking, Running
<1>2. logs[i] \in Log
  BY <1>1 DEF InputStands
<1>3. j \in DOMAIN logs[i].evidence
  BY <1>2 DEF Looking, Log
<1>4. logs[i].evidence[j] \in Evidence
  BY <1>2, <1>3 DEF Log
<1> QED
  BY <1>1, <1>2, <1>4 DEF Event, InputStands, Looking

\* An elapsed time is not negative when the clock ran forward.
LEMMA ElapsedForward ==
  ASSUME NEW s \in Int, NEW t \in Int, t >= s
  PROVE  Seconds(s, t) = (t - s) \div Second /\ Seconds(s, t) \in Nat
BY DEF Seconds

\* A score is a percentage, and a high one needs a marker at the start, an
\* end that was observed and time between them.
LEMMA ConfidenceBounds ==
  ASSUME NEW b \in Builder, NEW boundary \in Boundaries, NEW duration \in Nat
  PROVE  /\ Confidence(b, boundary, duration) \in 0..100
         /\ Confidence(b, boundary, duration) >= 80 =>
               b.boundary = "explicit" /\ boundary \in Observed /\ duration # 0
<1> DEFINE points == [ShutdownEnd |-> 20, StopEnd |-> 16, CrashEnd |-> 18,
                      SourceEnd |-> 5, NextStart |-> 0, Truncated |-> -4][boundary]
           base == (IF b.boundary = "explicit" THEN 72 ELSE 52) + points
                   + (IF b.versions # {} THEN 4 ELSE 0) + (IF b.places # {} THEN 4 ELSE 0)
                   - (IF duration = 0 THEN 20 ELSE 0)
           inferred == IF b.boundary = "inferred" THEN Least(base, 79) ELSE base
           ended == IF boundary = "SourceEnd" THEN Least(inferred, 69)
                    ELSE IF boundary \in Guessed THEN Least(inferred, 54) ELSE inferred
           score == IF duration = 0 THEN Least(ended, 54) ELSE ended
<1>1. points \in Int
  BY DEF Boundaries, Observed
<1> HIDE DEF points
<1>2. base \in Int
  BY <1>1
<1> HIDE DEF base
<1>3. inferred \in Int /\ (inferred >= 80 => b.boundary = "explicit")
  BY <1>2 DEF Least, Builder
<1> HIDE DEF inferred
<1>4. ended \in Int /\ (ended >= 80 => b.boundary = "explicit" /\ boundary \in Observed)
  BY <1>3 DEF Least, Guessed, Boundaries, Observed
<1> HIDE DEF ended
<1>5. score \in Int /\ (score >= 80 => b.boundary = "explicit" /\ boundary \in Observed
                                          /\ duration # 0)
  BY <1>4 DEF Least
<1>6. Confidence(b, boundary, duration) = Capped(score)
  BY DEF Confidence, points, base, inferred, ended
<1> HIDE DEF score
<1> QED
  BY <1>5, <1>6 DEF Capped

\* A builder that is finished, at whatever instant, gives a sound session
\* with the links it had.
LEMMA FinishedIsSound ==
  ASSUME NEW b, Forward(b), NEW at \in Int, NEW boundary \in Boundaries
  PROVE  Sound(Finished(b, at, boundary)) /\ Finished(b, at, boundary).links = b.links
<1> DEFINE end == IF at >= b.start THEN at ELSE b.last
           duration == Seconds(b.start, end)
<1>1. /\ end \in Int /\ b.start \in Int /\ end >= b.start /\ b.links \in SUBSET Positions
      /\ b.boundary \in {"explicit", "inferred"} /\ b.versions \in SUBSET STRING
      /\ b.places \in SUBSET PlaceType
  BY DEF Forward, Builder
<1> HIDE DEF end
<1>2. duration = (end - b.start) \div Second /\ duration \in Nat
  BY <1>1, ElapsedForward
<1> HIDE DEF duration
<1> DEFINE score == Confidence(b, boundary, duration)
<1>3. score \in 0..100 /\ (score >= 80 => b.boundary = "explicit"
                              /\ boundary \in Observed /\ duration # 0)
  BY <1>2, ConfidenceBounds DEF Forward
<1> HIDE DEF score
<1>4. Finished(b, at, boundary) =
        [start |-> b.start, end |-> end, duration |-> duration, from |-> b.boundary,
         boundary |-> boundary, exit |-> Exits[boundary], score |-> score,
         versions |-> b.versions, places |-> b.places, links |-> b.links]
  BY DEF Finished, end, duration, score
<1>5. Exits[boundary] \in {"clean", "crash", "unknown"}
  BY DEF Exits, Boundaries, Observed
<1>6. Finished(b, at, boundary) \in Session
  BY <1>1, <1>2, <1>3, <1>4, <1>5 DEF Session
<1> QED
  BY <1>1, <1>2, <1>3, <1>4, <1>6 DEF Sound

\* So do the two ways a session ends that is still open.
LEMMA CutShortIsSound ==
  ASSUME NEW b, Forward(b)
  PROVE  Sound(CutShort(b)) /\ CutShort(b).links = b.links
<1>1. b.stop \in Int \cup {None} /\ b.last \in Int
  BY DEF Forward, Builder
<1>2. "StopEnd" \in Boundaries /\ "NextStart" \in Boundaries
  BY DEF Boundaries, Observed
<1> QED
  BY <1>1, <1>2, FinishedIsSound DEF CutShort

LEMMA TailEndIsSound ==
  ASSUME NEW b, Forward(b)
  PROVE  Sound(TailEnd(b)) /\ TailEnd(b).links = b.links
<1>1. b.stop \in Int \cup {None} /\ b.last \in Int /\ b.hint \in Int \cup {None}
  BY DEF Forward, Builder
<1>2. {"StopEnd", "SourceEnd", "Truncated"} \subseteq Boundaries
  BY DEF Boundaries, Observed
<1> QED
  BY <1>1, <1>2, FinishedIsSound DEF TailEnd

-----------------------------------------------------------------------------
Roles == {"start", "end", "version", "destination", "exit", "supporting"}

\* What is done to a builder at an event keeps it in order, and links it to
\* no other event than that one.
LEMMA BuilderSteps ==
  ASSUME InputStands, Looking, NEW b, Forward(b)
  PROVE  /\ \A r \in Roles : /\ Forward(Link(b, r))
                             /\ Link(b, r).links = b.links \cup {<<i, j, r>>}
         /\ Forward(Observe(b)) /\ Observe(b).links = b.links
         /\ Forward(ObserveHint(b)) /\ ObserveHint(b).links = b.links
         /\ Forward(AddVersion(b)) /\ AddVersion(b).links = b.links
<1>1. Event \in Evidence /\ logs[i].end \in Int \cup {None} /\ i \in Nat /\ j \in Nat
  BY EventType DEF Log
<1>2. Event.at \in Int \cup {None} /\ Event.name \in STRING \cup {None}
  BY <1>1 DEF Evidence
<1>3. b \in Builder /\ b.last >= b.start
  BY DEF Forward
<1>4. ASSUME NEW r \in Roles
      PROVE  Forward(Link(b, r)) /\ Link(b, r).links = b.links \cup {<<i, j, r>>}
  <2>1. <<i, j, r>> \in Positions
    BY <1>1 DEF Positions, Roles
  <2>2. b.links \cup {<<i, j, r>>} \in SUBSET Positions
    BY <1>3, <2>1 DEF Builder
  <2>3. Link(b, r) = [b EXCEPT !.links = b.links \cup {<<i, j, r>>}]
    BY DEF Link
  <2> QED
    BY <1>3, <2>2, <2>3 DEF Forward, Builder
<1>5. Forward(Observe(b)) /\ Observe(b).links = b.links
  <2>1. ASSUME NEW t \in Int, t >= b.last
        PROVE  Forward([b EXCEPT !.last = t]) /\ [b EXCEPT !.last = t].links = b.links
    <3>1. /\ [b EXCEPT !.last = t] \in Builder /\ [b EXCEPT !.last = t].last = t
          /\ [b EXCEPT !.last = t].start = b.start /\ [b EXCEPT !.last = t].links = b.links
      BY <1>3 DEF Builder
    <3>2. b.last \in Int /\ b.start \in Int
      BY <1>3 DEF Builder
    <3>3. t >= b.start
      BY <1>3, <2>1, <3>2
    <3> QED
      BY <3>1, <3>3 DEF Forward
  <2>2. CASE Event.at # None /\ Event.at >= b.last
    BY <1>2, <2>1, <2>2 DEF Observe
  <2>3. CASE ~(Event.at # None /\ Event.at >= b.last)
    BY <1>3, <2>3 DEF Observe, Forward
  <2> QED
    BY <2>2, <2>3
<1>6. Forward(ObserveHint(b)) /\ ObserveHint(b).links = b.links
  BY <1>1, <1>3 DEF ObserveHint, Forward, Builder
<1>7. Forward(AddVersion(b)) /\ AddVersion(b).links = b.links
  BY <1>2, <1>3 DEF AddVersion, Forward, Builder
<1> QED
  BY <1>4, <1>5, <1>6, <1>7

\* The end of a session is linked to it in two roles.
LEMMA EndLinks ==
  ASSUME InputStands, Looking, NEW b, Forward(b)
  PROVE  /\ Forward(Observe(Link(Link(b, "end"), "exit")))
         /\ Observe(Link(Link(b, "end"), "exit")).links
               = b.links \cup {<<i, j, "end">>, <<i, j, "exit">>}
<1>1. "end" \in Roles /\ "exit" \in Roles
  BY DEF Roles
<1>2. Forward(Link(b, "end")) /\ Link(b, "end").links = b.links \cup {<<i, j, "end">>}
  BY <1>1, BuilderSteps
<1>3. /\ Forward(Link(Link(b, "end"), "exit"))
      /\ Link(Link(b, "end"), "exit").links = Link(b, "end").links \cup {<<i, j, "exit">>}
  BY <1>1, <1>2, BuilderSteps
<1>4. /\ Forward(Observe(Link(Link(b, "end"), "exit")))
      /\ Observe(Link(Link(b, "end"), "exit")).links = Link(Link(b, "end"), "exit").links
  BY <1>3, BuilderSteps
<1> QED
  BY <1>2, <1>3, <1>4

LEMMA AddPlaceKeeps ==
  ASSUME InputStands, Looking, NEW b, Forward(b)
  PROVE  Forward(AddPlace(b)) /\ AddPlace(b).links = b.links
<1>1. Event.name \in STRING \cup {None}
  BY EventType DEF Evidence
<1>2. Place \in PlaceType /\ UnnamedWorld \in PlaceType
  BY <1>1 DEF Place, UnnamedWorld, PlaceType
<1>3. b \in Builder /\ b.last >= b.start /\ b.places \in SUBSET PlaceType
  BY DEF Forward, Builder
<1>4. PICK P \in SUBSET PlaceType : AddPlace(b) = [b EXCEPT !.places = P]
  <2>1. b = [b EXCEPT !.places = b.places]
    BY <1>3 DEF Builder
  <2>2. /\ b.places \cup {Place} \in SUBSET PlaceType
        /\ (b.places \ {UnnamedWorld}) \cup {Place} \in SUBSET PlaceType
        /\ b.places \cup {UnnamedWorld} \in SUBSET PlaceType
    BY <1>2, <1>3
  <2> QED
    BY <1>3, <2>1, <2>2 DEF AddPlace
<1> QED
  BY <1>3, <1>4 DEF Forward, Builder

\* A builder made of an event that has an instant.
LEMMA NewBuilderStands ==
  ASSUME InputStands, Looking, Event.at # None, NEW boundary \in {"explicit", "inferred"}
  PROVE  Forward(NewBuilder(boundary)) /\ NewBuilder(boundary).links = {<<i, j, "start">>}
<1>1. Event.at \in Int /\ logs[i].end \in Int \cup {None} /\ i \in Nat /\ j \in Nat
  BY EventType DEF Evidence, Log
<1> QED
  BY <1>1 DEF NewBuilder, Forward, Builder, Positions

-----------------------------------------------------------------------------
Here(p) == p[1] = i /\ p[2] = j

\* The session being built goes on, or is finished, or another begins, and
\* what is new is linked to the event looked at.
LEMMA EventStep ==
  ASSUME IInv, Looking, NextEvent, Counted,
         active' # None => /\ Forward(active')
                           /\ \A p \in active'.links :
                                 Here(p) \/ (active # None /\ p \in active.links),
         \/ sessions' = sessions
         \/ \E s : /\ sessions' = Append(sessions, s) /\ Sound(s) /\ active # None
                   /\ \A p \in s.links : Here(p) \/ p \in active.links
                   /\ active' # None => Apart(s.links, active'.links)
  PROVE  IInv'
<1>1. /\ i' = i /\ j' = j + 1 /\ input' = input /\ copied' = copied
      /\ i \in Nat /\ j \in Nat
  BY EventType DEF NextEvent, IInv
<1>2. InputStands'
  <2>1. logs' = logs
    BY <1>1 DEF logs
  <2>2. j \in 1..Len(logs[i].evidence) /\ Len(logs[i].evidence) \in Nat
    BY EventType DEF Looking, Log, IInv
  <2>3. j' \in Nat /\ j' <= Len(logs[i].evidence) + 1
    BY <1>1, <2>2
  <2> QED
    BY <1>1, <2>1, <2>3 DEF IInv, InputStands
<1>3. \A p : (p \in Positions /\ (Read(p) \/ Here(p))) => Read(p)'
  BY <1>1 DEF Read, Here, Positions
<1>4. \A p : p \in Positions /\ Read(p) => ~Here(p)
  BY <1>1 DEF Read, Here, Positions
<1>5. active # None => /\ active.links \in SUBSET Positions
                       /\ \A p \in active.links : Read(p)
  BY DEF IInv, SessionsStand, LinksStand, Forward, Builder
<1>6. active' # None => /\ active'.links \in SUBSET Positions
                        /\ \A p \in active'.links : Read(p)'
  BY <1>3, <1>5 DEF Forward, Builder
<1>7. \A k \in DOMAIN sessions : /\ sessions[k].links \in SUBSET Positions
                                 /\ \A p \in sessions[k].links : Read(p)
  BY DEF IInv, SessionsStand, LinksStand, Sound, Session
\* What is new is apart from the sessions there are.
<1>8. ASSUME NEW L \in SUBSET Positions,
             \A p \in L : Here(p) \/ (active # None /\ p \in active.links)
      PROVE  \A k \in DOMAIN sessions : Apart(sessions[k].links, L)
  <2>1. SUFFICES ASSUME NEW k \in DOMAIN sessions, NEW p \in sessions[k].links, NEW q \in L,
                        <<p[1], p[2]>> = <<q[1], q[2]>>
                 PROVE  FALSE
    BY DEF Apart
  <2>2. CASE Here(q)
    <3>1. Here(p)
      BY <2>1, <2>2 DEF Here
    <3> QED
      BY <1>4, <1>7, <3>1
  <2>3. CASE active # None /\ q \in active.links
    BY <2>1, <2>3 DEF IInv, LinksStand, Apart
  <2> QED
    BY <1>8, <2>2, <2>3
<1>9. active' # None => \A k \in DOMAIN sessions : Apart(sessions[k].links, active'.links)
  BY <1>6, <1>8
<1>10. CASE sessions' = sessions
  <2>1. SessionsStand'
    BY <1>10 DEF IInv, SessionsStand
  <2>2. LinksStand'
    BY <1>3, <1>6, <1>7, <1>9, <1>10 DEF IInv, LinksStand
  <2> QED
    BY <1>2, <2>1, <2>2 DEF IInv
<1>11. ASSUME NEW s, sessions' = Append(sessions, s), Sound(s), active # None,
              \A p \in s.links : Here(p) \/ p \in active.links,
              active' # None => Apart(s.links, active'.links)
       PROVE  IInv'
  <2>1. sessions \in Seq(Session) /\ s \in Session /\ s.links \in SUBSET Positions
    BY <1>11 DEF IInv, SessionsStand, Sound, Session
  <2>2. /\ sessions' \in Seq(Session) /\ DOMAIN sessions' = DOMAIN sessions \cup {Len(sessions) + 1}
        /\ Len(sessions) + 1 \notin DOMAIN sessions
        /\ sessions'[Len(sessions) + 1] = s
        /\ \A k \in DOMAIN sessions : sessions'[k] = sessions[k]
    BY <1>11, <2>1
  <2>3. SessionsStand'
    BY <1>11, <2>2 DEF IInv, SessionsStand
  <2>4. \A p \in s.links : Read(p)'
    BY <1>3, <1>5, <1>11, <2>1
  <2>5. \A k \in DOMAIN sessions : Apart(sessions[k].links, s.links) /\ Apart(s.links, sessions[k].links)
    <3>1. \A k \in DOMAIN sessions : Apart(sessions[k].links, s.links)
      BY <1>8, <1>11, <2>1
    <3> QED
      BY <3>1 DEF Apart
  <2>6. LinksStand'
    <3>1. active' # None => \A p \in active'.links : Read(p)'
      BY <1>6
    <3>2. \A k \in DOMAIN sessions' : \A p \in sessions'[k].links : Read(p)'
      BY <1>3, <1>7, <2>2, <2>4
    <3>3. active' # None => \A k \in DOMAIN sessions' : Apart(sessions'[k].links, active'.links)
      BY <1>9, <1>11, <2>2
    <3>4. \A k, n \in DOMAIN sessions' : k # n => Apart(sessions'[k].links, sessions'[n].links)
      BY <2>2, <2>5 DEF IInv, LinksStand
    <3> QED
      BY <3>1, <3>2, <3>3, <3>4 DEF LinksStand
  <2> QED
    BY <1>2, <2>3, <2>6 DEF IInv
<1> QED
  BY <1>10, <1>11

-----------------------------------------------------------------------------
LEMMA InitInv == Init => IInv
<1> SUFFICES ASSUME Init PROVE IInv
  OBVIOUS
<1>1. logs \in Seq(Log)
  BY DEF Init, logs
<1>2. i = 1 /\ j = 0 /\ copied = 0 /\ keyed = 0 /\ active = None /\ sessions = <<>>
  BY DEF Init
<1>3. InputStands
  <2>1. Running => logs[1] \in Log
    BY <1>1, <1>2 DEF Running
  <2> QED
    BY <1>1, <1>2, <2>1 DEF InputStands, Log
<1>4. SessionsStand /\ LinksStand
  BY <1>2 DEF SessionsStand, LinksStand
<1> QED
  BY <1>3, <1>4 DEF IInv

\* Opening, closing and skipping a log touch no session; what was read stays
\* read.
LEMMA LogStep ==
  ASSUME IInv, SkipLog \/ OpenLog \/ CloseLog
  PROVE  IInv'
<1>1. /\ UNCHANGED <<input, active, sessions>> /\ Running /\ i \in Nat /\ j \in Nat
      /\ logs \in Seq(Log)
  BY DEF SkipLog, OpenLog, CloseLog, IInv, InputStands
<1>2. logs' = logs /\ logs[i] \in Log /\ Len(logs[i].evidence) \in Nat /\ i <= Len(logs)
  <2>1. logs' = logs
    BY <1>1 DEF logs
  <2>2. i \in DOMAIN logs /\ i <= Len(logs)
    BY <1>1 DEF Running, IInv, InputStands
  <2>3. logs[i] \in Log
    BY <1>1, <2>2
  <2> QED
    BY <2>1, <2>2, <2>3 DEF Log
<1>3. \A p \in Positions : Read(p) => Read(p)'
  BY <1>1, <1>2 DEF Read, Positions, SkipLog, OpenLog, CloseLog
<1>4. InputStands'
  <2>1. CASE OpenLog
    BY <1>1, <1>2, <2>1 DEF OpenLog, InputStands, IInv, Running
  <2>2. CASE SkipLog \/ CloseLog
    <3>1. i' = i + 1 /\ j' = 0
      BY <2>2, <1>1 DEF SkipLog, CloseLog
    <3>2. Running' => Len(logs[i + 1].evidence) \in Nat
      <4>1. Running' => i + 1 \in 1..Len(logs)
        BY <1>1, <1>2, <3>1 DEF Running
      <4>2. Running' => logs[i + 1] \in Log
        BY <1>1, <4>1
      <4> QED
        BY <4>2 DEF Log
    <3> QED
      BY <1>1, <1>2, <3>1, <3>2 DEF InputStands, IInv, Running
  <2> QED
    BY <2>1, <2>2
<1>5. SessionsStand'
  BY <1>1 DEF IInv, SessionsStand
<1>6. LinksStand'
  <2>1. active # None => active.links \in SUBSET Positions
    BY DEF IInv, SessionsStand, Forward, Builder
  <2>2. \A k \in DOMAIN sessions : sessions[k].links \in SUBSET Positions
    BY DEF IInv, SessionsStand, Sound, Session
  <2> QED
    BY <1>1, <1>3, <2>1, <2>2 DEF IInv, LinksStand
<1> QED
  BY <1>4, <1>5, <1>6 DEF IInv

-----------------------------------------------------------------------------
\* Every step of the reconstruction keeps the invariant.
LEMMA InvStep == IInv /\ [Next]_vars => IInv'
<1> SUFFICES ASSUME IInv, [Next]_vars PROVE IInv'
  OBVIOUS
<1> USE DEF Here
<1>1. active # None => Forward(active)
  BY DEF IInv, SessionsStand
<1>2. InputStands /\ (Looking => <<i, j>> \in Nat \X Nat)
  BY EventType DEF IInv
<1>3. {"start", "end", "version", "destination", "exit", "supporting"} \subseteq Roles
  BY DEF Roles
<1>4. CASE UNCHANGED vars
  <2>1. logs' = logs
    BY <1>4 DEF vars, logs
  <2> QED
    BY <1>4, <2>1 DEF vars, IInv, InputStands, SessionsStand, LinksStand, Read, Running
<1>5. CASE SkipLog \/ OpenLog \/ CloseLog
  BY <1>5, LogStep
<1>6. CASE SkipCopy
  <2>1. Looking /\ NextEvent /\ Counted /\ active' = active /\ sessions' = sessions
    BY <1>6 DEF SkipCopy
  <2> QED
    BY <1>1, <2>1, EventStep
<1>7. CASE StartUndated
  <2>1. Looking /\ NextEvent /\ Counted /\ sessions' = sessions
        /\ active' = IF active = None THEN None ELSE Link(active, "supporting")
    BY <1>7 DEF StartUndated
  <2>2. active' # None => /\ active # None /\ Forward(active')
                          /\ active'.links = active.links \cup {<<i, j, "supporting">>}
    BY <1>1, <1>2, <1>3, <2>1, BuilderSteps
  <2> QED
    BY <2>1, <2>2, EventStep
<1>8. CASE StartAgain
  <2>1. Looking /\ NextEvent /\ Counted /\ sessions' = sessions /\ active # None
        /\ active' = ObserveHint(Observe(Link(active, "supporting")))
    BY <1>8 DEF StartAgain, IsBootstrap
  <2>2. Forward(active') /\ active'.links = active.links \cup {<<i, j, "supporting">>}
    BY <1>1, <1>2, <1>3, <2>1, BuilderSteps
  <2> QED
    BY <2>1, <2>2, EventStep
<1>9. CASE Start
  <2>1. Looking /\ NextEvent /\ Counted /\ Event.at # None
        /\ sessions' = (IF active = None THEN sessions ELSE Append(sessions, CutShort(active)))
        /\ active' = NewBuilder("explicit")
    BY <1>9 DEF Start
  <2>2. Forward(active') /\ active'.links = {<<i, j, "start">>}
    BY <1>2, <2>1, NewBuilderStands
  <2>3. active # None => \A p \in active.links : ~Here(p)
    BY <1>2, <2>1 DEF IInv, LinksStand, Read
  <2>4. active # None => /\ Sound(CutShort(active)) /\ CutShort(active).links = active.links
                         /\ Apart(CutShort(active).links, active'.links)
    BY <1>1, <2>2, <2>3, CutShortIsSound DEF Apart
  <2> QED
    BY <2>1, <2>2, <2>4, EventStep
<1>10. CASE Version
  <2>1. Looking /\ NextEvent /\ Counted /\ sessions' = sessions
        /\ active' = IF active = None THEN None
                     ELSE ObserveHint(Observe(Link(AddVersion(active), "version")))
    BY <1>10 DEF Version
  <2>2. active' # None => /\ active # None /\ Forward(active')
                          /\ active'.links = active.links \cup {<<i, j, "version">>}
    <3> DEFINE b == Link(AddVersion(active), "version")
    <3>1. active # None => Forward(b) /\ b.links = active.links \cup {<<i, j, "version">>}
      <4>1. active # None => Forward(AddVersion(active)) /\ AddVersion(active).links = active.links
        BY <1>1, <1>2, <2>1, BuilderSteps
      <4>2. "version" \in Roles /\ Looking /\ InputStands
        BY <1>2, <1>3, <2>1
      <4> QED
        BY <4>1, <4>2, BuilderSteps
    <3>2. active # None => Forward(ObserveHint(Observe(b))) /\ ObserveHint(Observe(b)).links = b.links
      BY <1>2, <2>1, <3>1, BuilderSteps
    <3> QED
      BY <2>1, <3>1, <3>2
  <2> QED
    BY <2>1, <2>2, EventStep
<1>11. CASE Activity
  <2> DEFINE b == Prepared
             versioned == IF Event.tag = "integrated" /\ Event.name # None
                          THEN Link(AddVersion(b), "version") ELSE b
  <2>1. Looking /\ NextEvent /\ Counted
        /\ sessions' = (IF Stopped THEN Append(sessions, CutShort(active)) ELSE sessions)
        /\ active' = (IF b = None THEN None
                      ELSE Observe(Link(AddPlace(versioned), "destination")))
    BY <1>11 DEF Activity
  <2>2. b # None => /\ Forward(b)
                    /\ \/ active # None /\ ~Stopped /\ b.links = active.links
                       \/ b.links = {<<i, j, "start">>}
    BY <1>1, <1>2, <2>1, BuilderSteps, NewBuilderStands DEF Prepared
  <2> HIDE DEF b
  <2>3. b # None => /\ Forward(versioned)
                    /\ versioned.links \subseteq b.links \cup {<<i, j, "version">>}
    BY <1>2, <1>3, <2>1, <2>2, BuilderSteps
  <2> HIDE DEF versioned
  <2>4. active' # None =>
          /\ Forward(active')
          /\ active'.links \subseteq
               b.links \cup {<<i, j, "version">>, <<i, j, "destination">>}
    <3>1. b # None => Forward(AddPlace(versioned)) /\ AddPlace(versioned).links = versioned.links
      BY <1>2, <2>1, <2>3, AddPlaceKeeps
    <3>2. b # None => /\ Forward(Link(AddPlace(versioned), "destination"))
                      /\ Link(AddPlace(versioned), "destination").links
                            = versioned.links \cup {<<i, j, "destination">>}
      <4>1. "destination" \in Roles /\ InputStands /\ Looking
        BY <1>2, <1>3, <2>1
      <4> QED
        BY <3>1, <4>1, BuilderSteps
    <3>3. b # None => /\ Forward(Observe(Link(AddPlace(versioned), "destination")))
                      /\ Observe(Link(AddPlace(versioned), "destination")).links
                            = Link(AddPlace(versioned), "destination").links
      BY <1>2, <2>1, <3>2, BuilderSteps
    <3> QED
      BY <2>1, <2>3, <3>2, <3>3
  <2>5. active' # None => b # None
    BY <2>1
  <2>6. active' # None => \A p \in active'.links : Here(p) \/ (active # None /\ ~Stopped /\ p \in active.links)
    <3>1. \A p \in {<<i, j, "version">>, <<i, j, "destination">>, <<i, j, "start">>} : Here(p)
      BY DEF Here
    <3> QED
      BY <2>2, <2>4, <2>5, <3>1
  <2>7. Stopped => /\ active # None /\ Sound(CutShort(active)) /\ CutShort(active).links = active.links
    BY <1>1, CutShortIsSound DEF Stopped
  <2>8. active # None => \A p \in active.links : ~Here(p)
    BY <1>2, <2>1 DEF IInv, LinksStand, Read
  <2>9. Stopped /\ active' # None => Apart(CutShort(active).links, active'.links)
    BY <2>6, <2>7, <2>8 DEF Apart
  <2> QED
    BY <2>1, <2>4, <2>6, <2>7, <2>9, EventStep
<1>12. CASE Disconnect
  <2>1. Looking /\ NextEvent /\ Counted /\ sessions' = sessions
        /\ active' = IF active = None THEN None
                     ELSE ObserveHint(Observe(Link(active, "supporting")))
    BY <1>12 DEF Disconnect
  <2>2. active' # None => /\ active # None /\ Forward(active')
                          /\ active'.links = active.links \cup {<<i, j, "supporting">>}
    BY <1>1, <1>2, <1>3, <2>1, BuilderSteps
  <2> QED
    BY <2>1, <2>2, EventStep
<1>13. CASE Stopping
  <2> DEFINE b == ObserveHint(Observe(Link(Link(active, "end"), "exit")))
  <2>1. Looking /\ NextEvent /\ Counted /\ sessions' = sessions
        /\ active' = IF active = None THEN None
                     ELSE [b EXCEPT !.stop = IF @ = None THEN Event.at ELSE @]
    BY <1>13 DEF Stopping
  <2>2. active # None => /\ Forward(b)
                         /\ b.links = active.links \cup {<<i, j, "end">>, <<i, j, "exit">>}
    BY <1>1, <1>2, <2>1, EndLinks, BuilderSteps
  <2> HIDE DEF b
  <2>3. Event.at \in Int \cup {None}
    BY <1>2, <2>1, EventType DEF Evidence
  <2>4. active' # None => /\ active # None /\ Forward(active') /\ active'.links = b.links
    BY <2>1, <2>2, <2>3 DEF Forward, Builder
  <2> QED
    BY <2>1, <2>2, <2>4, EventStep
<1>14. CASE End
  <2>1. Looking /\ NextEvent /\ Counted
    BY <1>14 DEF End
  <2>2. CASE active = None \/ Event.at = None
    <3>1. active' = active /\ sessions' = sessions
      BY <1>14, <2>2 DEF End
    <3> QED
      BY <1>1, <2>1, <3>1, EventStep
  <2>3. CASE active # None /\ Event.at # None
    <3> DEFINE b == Observe(Link(Link(active, "end"), "exit"))
               boundary == IF Event.tag = "crash" THEN "CrashEnd" ELSE "ShutdownEnd"
    <3>1. active' = None /\ sessions' = Append(sessions, Finished(b, Event.at, boundary))
      BY <1>14, <2>3 DEF End
    <3>2. Forward(b) /\ b.links = active.links \cup {<<i, j, "end">>, <<i, j, "exit">>}
      BY <1>1, <1>2, <2>1, <2>3, EndLinks
    <3>3. Event.at \in Int /\ boundary \in Boundaries
      BY <1>2, <2>1, <2>3, EventType DEF Evidence, Boundaries, Observed
    <3> HIDE DEF b, boundary
    <3>4. /\ Sound(Finished(b, Event.at, boundary))
          /\ Finished(b, Event.at, boundary).links = b.links
      BY <3>2, <3>3, FinishedIsSound
    <3> QED
      BY <2>1, <2>3, <3>1, <3>2, <3>4, EventStep
  <2> QED
    BY <2>2, <2>3
<1>15. CASE FinishTail
  <2>1. /\ active # None /\ active' = None /\ sessions' = Append(sessions, TailEnd(active))
        /\ UNCHANGED <<input, i, j>>
    BY <1>15 DEF FinishTail
  <2>2. Sound(TailEnd(active)) /\ TailEnd(active).links = active.links
    BY <1>1, <2>1, TailEndIsSound
  <2>3. InputStands'
    <3>1. logs' = logs
      BY <2>1 DEF logs
    <3> QED
      BY <2>1, <3>1 DEF IInv, InputStands, Running
  <2>4. sessions \in Seq(Session) /\ TailEnd(active) \in Session
    BY <2>2 DEF IInv, SessionsStand, Sound
  <2>5. /\ sessions' \in Seq(Session) /\ DOMAIN sessions' = DOMAIN sessions \cup {Len(sessions) + 1}
        /\ Len(sessions) + 1 \notin DOMAIN sessions
        /\ sessions'[Len(sessions) + 1] = TailEnd(active)
        /\ \A k \in DOMAIN sessions : sessions'[k] = sessions[k]
    BY <2>1, <2>4
  <2>6. SessionsStand'
    BY <2>1, <2>2, <2>5 DEF IInv, SessionsStand
  <2>7. \A p : Read(p)' <=> Read(p)
    BY <2>1 DEF Read
  <2>8. \A k \in DOMAIN sessions : /\ Apart(sessions[k].links, active.links)
                                   /\ Apart(active.links, sessions[k].links)
    BY <2>1 DEF IInv, LinksStand, Apart
  <2>9. LinksStand'
    BY <2>1, <2>2, <2>5, <2>7, <2>8 DEF IInv, LinksStand
  <2> QED
    BY <2>3, <2>6, <2>9 DEF IInv
<1> QED
  BY <1>4, <1>5, <1>6, <1>7, <1>8, <1>9, <1>10, <1>11, <1>12, <1>13, <1>14, <1>15 DEF Next

\* The invariant holds in every state.
THEOREM InvariantHolds == Spec => []IInv
<1>1. Init => IInv
  BY InitInv
<1>2. IInv /\ [Next]_vars => IInv'
  BY InvStep
<1> QED
  BY <1>1, <1>2, PTL DEF Spec

\* No session ends before it starts, whatever order clocks put the evidence
\* in (finish_session).
THEOREM BoundsAreSound == Spec => []SessionsHaveSoundBounds
<1>1. IInv => SessionsHaveSoundBounds
  BY DEF IInv, SessionsStand, Sound, SessionsHaveSoundBounds
<1> QED
  BY <1>1, InvariantHolds, PTL

\* No event supports two sessions, however logs are split, copied or cut short
\* (reconstruct_sessions_with_policy).
THEOREM EvidenceIsNotShared == Spec => []EvidenceBelongsToOneSession
<1>1. IInv => EvidenceBelongsToOneSession
  BY DEF IInv, LinksStand, Apart, EvidenceBelongsToOneSession
<1> QED
  BY <1>1, InvariantHolds, PTL

\* A quotient bounds what was divided.
LEMMA QuotientBounds ==
  ASSUME NEW d \in Nat, NEW n \in Nat \ {0}, NEW m \in Nat
  PROVE  /\ d \div n # 0 => d > 0
         /\ d \div n <= m => d < (m + 1) * n
OBVIOUS

\* A stored session is verified only when its start had a marker, its end was
\* observed, and both are plausible (session_confidence, build_payload).
THEOREM VerifiedWasObserved == Spec => []VerifiedIsObserved
<1>1. ASSUME NEW s \in Session, Sound(s), Stored(s).label = "verified"
      PROVE  /\ s.from = "explicit" /\ s.boundary \in {"ShutdownEnd", "StopEnd", "CrashEnd"}
             /\ Stored(s).end # None /\ Stored(s).end > s.start
             /\ Stored(s).end - s.start < (MaxPlausible + 1) * Second
  <2>1. /\ s.score \in Int /\ s.duration \in Nat /\ s.start \in Int /\ s.end \in Int
        /\ s.end - s.start \in Nat
    <3>1. s.score \in 0..100 /\ s.duration \in Nat /\ s.start \in Int /\ s.end \in Int
      BY DEF Session
    <3>2. s.end >= s.start
      BY <1>1 DEF Sound
    <3>3. s.end - s.start \in Nat
      BY <3>1, <3>2
    <3>4. s.score \in Int
      <4>1. 0..100 \subseteq Int
        OBVIOUS
      <4> QED
        BY <3>1, <4>1, Zenon
    <3> QED
      BY <3>1, <3>3, <3>4, Zenon
  <2>2. ~Implausible(s) /\ s.score >= 80
    BY <1>1, <2>1 DEF Stored, Label
  <2>3. s.from = "explicit" /\ s.boundary \in Observed /\ s.duration # 0 /\ s.duration <= MaxPlausible
    BY <1>1, <2>1, <2>2 DEF Sound, Implausible
  <2>4. Stored(s).end = s.end
    BY <2>2, <2>3 DEF Stored, Observed
  <2>5. s.end - s.start > 0 /\ s.end - s.start < (MaxPlausible + 1) * Second
    BY <1>1, <2>1, <2>3, QuotientBounds DEF Sound
  <2> QED
    BY <2>1, <2>3, <2>4, <2>5 DEF Observed
<1>2. IInv => VerifiedIsObserved
  BY <1>1 DEF IInv, SessionsStand, Sound, VerifiedIsObserved
<1> QED
  BY <1>2, InvariantHolds, PTL

-----------------------------------------------------------------------------
(***************************************************************************)
(* Evidence that runs forward.  Whatever a session was told by then is not *)
(* after anything that is still to be read, so the next one begins later.  *)
(***************************************************************************)
\* An instant that nothing still to be read is before.
Past(t) ==
    \A n \in DOMAIN logs : \A k \in DOMAIN logs[n].evidence :
        (i < n \/ (i = n /\ j <= k)) /\ At(n, k) # None => t <= At(n, k)

OrderStands ==
    InOrder =>
        /\ \A k \in 1..(Len(sessions) - 1) : sessions[k].end <= sessions[k + 1].start
        /\ \A k \in DOMAIN sessions : Past(sessions[k].end)
        /\ active # None =>
              /\ Past(active.start) /\ Past(active.last) /\ (active.stop # None => Past(active.stop))
              /\ \A k \in DOMAIN sessions : sessions[k].end <= active.start

\* Told by now: past, or the instant of the event looked at.
Now == Event.at # None
Told(t) == Past(t) \/ (Now /\ t = Event.at)
ToldOf(b) ==
    /\ {"start", "last", "stop", "links", "hint", "versions", "places"} \subseteq DOMAIN b
    /\ Told(b.start) /\ Told(b.last) /\ (b.stop # None => Told(b.stop))

\* What is told by now is past once the event has been read.
LEMMA ToldIsPast ==
  ASSUME IInv, InOrder, Looking, NextEvent
  PROVE  /\ \A t : Told(t) => Past(t)'
         /\ \A t : Past(t) /\ Now => t <= Event.at
<1>1. /\ i' = i /\ j' = j + 1 /\ logs' = logs /\ i \in Nat /\ j \in Nat
      /\ i \in DOMAIN logs /\ j \in DOMAIN logs[i].evidence /\ Event.at = At(i, j)
  <2>1. i' = i /\ j' = j + 1 /\ logs' = logs
    BY DEF NextEvent, logs
  <2>2. i \in Nat /\ j \in Nat /\ i \in DOMAIN logs /\ logs[i] \in Log
    BY EventType DEF IInv, InputStands, Looking, Running
  <2>3. j \in DOMAIN logs[i].evidence
    BY <2>2 DEF Looking, Log
  <2> QED BY <2>1, <2>2, <2>3 DEF Event, At
<1>2. \A n, k : At(n, k)' = At(n, k)
  BY <1>1 DEF At
<1>3. \A n \in DOMAIN logs : n \in Nat /\ \A k \in DOMAIN logs[n].evidence : k \in Nat
  <2>1. logs \in Seq(Log)
    BY DEF IInv, InputStands
  <2>2. \A n \in DOMAIN logs : n \in Nat /\ logs[n] \in Log
    BY <2>1
  <2> QED BY <2>2 DEF Log
<1>4. ASSUME NEW t, Past(t), Now
      PROVE  t <= Event.at
  BY <1>1, <1>4 DEF Past, Now
<1>5. ASSUME NEW t, Told(t), NEW n \in DOMAIN logs, NEW k \in DOMAIN logs[n].evidence,
             i < n \/ (i = n /\ j + 1 <= k), At(n, k) # None
      PROVE  t <= At(n, k)
  <2>1. i < n \/ (i = n /\ j < k /\ j <= k)
    BY <1>1, <1>3, <1>5
  <2>2. CASE Past(t)
    BY <1>5, <2>1, <2>2 DEF Past
  <2>3. CASE Now /\ t = Event.at
    BY <1>1, <1>5, <2>1, <2>3 DEF InOrder, Now
  <2> QED BY <1>5, <2>2, <2>3 DEF Told
<1>6. ASSUME NEW t, Told(t)
      PROVE  Past(t)'
  BY <1>1, <1>2, <1>5, <1>6 DEF Past
<1> QED BY <1>4, <1>6

\* What is done to a builder at an event tells it of no later instant.
LEMMA BuilderTold ==
  ASSUME NEW b, ToldOf(b)
  PROVE  /\ \A r : ToldOf(Link(b, r)) /\ Link(b, r).start = b.start
         /\ ToldOf(Observe(b)) /\ Observe(b).start = b.start
         /\ ToldOf(ObserveHint(b)) /\ ObserveHint(b).start = b.start
         /\ ToldOf(AddVersion(b)) /\ AddVersion(b).start = b.start
         /\ ToldOf(AddPlace(b)) /\ AddPlace(b).start = b.start
<1>1. \A r : ToldOf(Link(b, r)) /\ Link(b, r).start = b.start
  BY DEF Link, ToldOf
<1>2. ToldOf(Observe(b)) /\ Observe(b).start = b.start
  BY DEF Observe, ToldOf, Told, Now
<1>3. ToldOf(ObserveHint(b)) /\ ObserveHint(b).start = b.start
  BY DEF ObserveHint, ToldOf
<1>4. ToldOf(AddVersion(b)) /\ AddVersion(b).start = b.start
  BY DEF AddVersion, ToldOf
<1>5. ToldOf(AddPlace(b)) /\ AddPlace(b).start = b.start
  BY DEF AddPlace, ToldOf
<1> QED BY <1>1, <1>2, <1>3, <1>4, <1>5

\* A session that is cut short, or that ends with the event, is told by now.
LEMMA EndsTold ==
  ASSUME NEW b, ToldOf(b)
  PROVE  /\ Told(CutShort(b).end) /\ CutShort(b).start = b.start
         /\ \A boundary : Now => /\ Told(Finished(b, Event.at, boundary).end)
                                 /\ Finished(b, Event.at, boundary).start = b.start
<1>1. ASSUME NEW at, NEW boundary, Told(at)
      PROVE  /\ Finished(b, at, boundary).start = b.start
             /\ Told(Finished(b, at, boundary).end)
  <2>1. /\ Finished(b, at, boundary).start = b.start
        /\ Finished(b, at, boundary).end = IF at >= b.start THEN at ELSE b.last
    BY DEF Finished
  <2> QED BY <1>1, <2>1 DEF ToldOf
<1>2. Told(b.last) /\ (b.stop # None => Told(b.stop)) /\ (Now => Told(Event.at))
  BY DEF ToldOf, Told
<1>3. Told(CutShort(b).end) /\ CutShort(b).start = b.start
  BY <1>1, <1>2 DEF CutShort
<1> QED BY <1>1, <1>2, <1>3

\* A builder made at an event that is dated begins with it.
LEMMA NewBuilderTold ==
  ASSUME Now, NEW boundary
  PROVE  ToldOf(NewBuilder(boundary)) /\ NewBuilder(boundary).start = Event.at
BY DEF NewBuilder, ToldOf, Told

\* The session being built goes on, or is finished, or another begins with the
\* event looked at.
LEMMA OrderStep ==
  ASSUME IInv, OrderStands, InOrder, Looking, NextEvent, NEW b, active' = b,
         b # None => /\ ToldOf(b)
                     /\ \/ active # None /\ b.start = active.start
                        \/ Now /\ b.start = Event.at,
         \/ sessions' = sessions
         \/ \E s \in Session : /\ sessions' = Append(sessions, s) /\ active # None
                               /\ s.start = active.start /\ Told(s.end)
                               /\ b # None => Now /\ b.start = Event.at
  PROVE  OrderStands'
<1>1. /\ \A t : Told(t) => Past(t)'
      /\ \A t : Past(t) /\ Now => t <= Event.at
  BY ToldIsPast
<1>2. \A t : Past(t) => Told(t)
  BY DEF Told
<1>3. b # None => /\ Past(b.start)' /\ Past(b.last)' /\ (b.stop # None => Past(b.stop)')
  BY <1>1 DEF ToldOf
<1>4. \A k \in DOMAIN sessions : Past(sessions[k].end) /\ Past(sessions[k].end)'
  BY <1>1, <1>2 DEF OrderStands
<1>5. b # None => \A k \in DOMAIN sessions : sessions[k].end <= b.start
  BY <1>1, <1>4 DEF OrderStands
<1>6. sessions \in Seq(Session)
  BY DEF IInv, SessionsStand
<1>7. CASE sessions' = sessions
  <2>1. \A k \in 1..(Len(sessions') - 1) : sessions'[k].end <= sessions'[k + 1].start
    BY <1>7 DEF OrderStands
  <2>2. \A t : (\E k \in DOMAIN sessions' : t = sessions'[k].end) => Past(t)'
    BY <1>4, <1>7
  <2>3. b # None => \A k \in DOMAIN sessions' : sessions'[k].end <= b.start
    BY <1>5, <1>7
  <2> QED BY <1>3, <2>1, <2>2, <2>3 DEF OrderStands
<1>8. ASSUME NEW s \in Session, sessions' = Append(sessions, s), active # None,
             s.start = active.start, Told(s.end), b # None => Now /\ b.start = Event.at
      PROVE  OrderStands'
  <2>1. /\ DOMAIN sessions' = 1..(Len(sessions) + 1) /\ Len(sessions') = Len(sessions) + 1
        /\ Len(sessions) \in Nat /\ DOMAIN sessions = 1..Len(sessions)
        /\ sessions'[Len(sessions) + 1] = s
        /\ \A k \in DOMAIN sessions : sessions'[k] = sessions[k]
    BY <1>6, <1>8
  <2>2. \A k \in 1..(Len(sessions) + 1) : k \in 1..Len(sessions) \/ k = Len(sessions) + 1
    BY <2>1
  <2>3. \A k \in 1..Len(sessions) : k \in 1..(Len(sessions) - 1) \/ k = Len(sessions)
    <3>1. \A n \in Nat : \A k \in 1..n : k \in 1..(n - 1) \/ k = n
      OBVIOUS
    <3> QED BY <2>1, <3>1
  <2>4. \A k \in 1..(Len(sessions') - 1) : sessions'[k].end <= sessions'[k + 1].start
    <3> SUFFICES ASSUME NEW k \in 1..(Len(sessions') - 1)
                 PROVE  sessions'[k].end <= sessions'[k + 1].start
      OBVIOUS
    <3>1. k \in 1..Len(sessions)
      BY <2>1
    <3>2. CASE k = Len(sessions)
      <4>1. sessions[k].end <= active.start
        BY <1>8, <2>1, <3>1 DEF OrderStands
      <4> QED BY <1>8, <2>1, <3>1, <3>2, <4>1
    <3>3. CASE k \in 1..(Len(sessions) - 1)
      <4>1. k + 1 \in 1..Len(sessions)
        BY <2>1, <3>3
      <4>2. sessions[k].end <= sessions[k + 1].start
        BY <3>3 DEF OrderStands
      <4> QED BY <2>1, <3>1, <4>1, <4>2
    <3> QED BY <2>3, <3>1, <3>2, <3>3
  <2>5. Past(s.end)' /\ (b # None => s.end <= b.start)
    <3>1. Past(s.end)'
      BY <1>1, <1>8
    <3>2. b # None => s.end <= b.start
      <4>1. CASE Past(s.end)
        BY <1>1, <1>8, <4>1
      <4>2. CASE s.end = Event.at
        <5>1. s.end \in Int
          BY DEF Session
        <5> QED BY <1>8, <4>2, <5>1
      <4> QED BY <1>8, <4>1, <4>2 DEF Told
    <3> QED BY <3>1, <3>2
  <2>6. \A t : (\E k \in DOMAIN sessions' : t = sessions'[k].end) => Past(t)'
    BY <1>4, <2>1, <2>2, <2>5
  <2>7. b # None => \A k \in DOMAIN sessions' : sessions'[k].end <= b.start
    BY <1>5, <2>1, <2>2, <2>5
  <2> QED BY <1>3, <2>4, <2>6, <2>7 DEF OrderStands
<1> QED BY <1>7, <1>8

\* Every step keeps the order of sessions.
LEMMA OrderHolds == IInv /\ OrderStands /\ [Next]_vars => OrderStands'
<1> SUFFICES ASSUME IInv, OrderStands, [Next]_vars, InOrder'
             PROVE  OrderStands'
  BY DEF OrderStands
<1>1. InOrder /\ logs' = logs
  <2>1. input' = input
    BY DEF Next, SkipLog, OpenLog, CloseLog, SkipCopy, StartUndated, StartAgain, Start, Version,
           Activity, Disconnect, Stopping, End, FinishTail, NextEvent, vars
  <2>2. logs' = logs
    BY <2>1 DEF logs
  <2> QED BY <2>2 DEF InOrder, At
<1>2. active # None => /\ ToldOf(active) /\ Forward(active) /\ active \in Builder
  <2>1. active # None => Forward(active) /\ active \in Builder
    BY DEF IInv, SessionsStand, Forward
  <2>2. active # None => {"start", "last", "stop", "links", "hint", "versions", "places"} \subseteq DOMAIN active
    BY <2>1 DEF Builder
  <2> QED BY <1>1, <2>1, <2>2 DEF OrderStands, ToldOf, Told
<1>3. CASE UNCHANGED vars
  BY <1>1, <1>3 DEF vars, OrderStands, Past, At
<1>4. CASE SkipLog \/ OpenLog \/ CloseLog
  <2>1. UNCHANGED <<active, sessions>> /\ i \in Nat /\ j \in Nat
    BY <1>4 DEF SkipLog, OpenLog, CloseLog, IInv, InputStands
  <2>2. \A n \in DOMAIN logs : n \in Nat /\ \A k \in DOMAIN logs[n].evidence : k \in Nat \ {0}
    <3>1. logs \in Seq(Log)
      BY DEF IInv, InputStands
    <3>2. \A n \in DOMAIN logs : n \in Nat /\ logs[n] \in Log
      BY <3>1
    <3> QED BY <3>2 DEF Log
  <2>3. (i' = i /\ j = 0 /\ j' = 1) \/ i' = i + 1
    BY <1>4 DEF SkipLog, OpenLog, CloseLog
  <2>4. ASSUME NEW n \in DOMAIN logs, NEW k \in DOMAIN logs[n].evidence, i' < n \/ (i' = n /\ j' <= k)
        PROVE  i < n \/ (i = n /\ j <= k)
    BY <2>1, <2>2, <2>3, <2>4
  <2>5. \A t : Past(t) => Past(t)'
    BY <1>1, <2>4 DEF Past, At
  <2> QED BY <1>1, <2>1, <2>5 DEF OrderStands
<1>5. CASE SkipCopy
  <2>1. Looking /\ NextEvent /\ active' = active /\ sessions' = sessions
    BY <1>5 DEF SkipCopy
  <2> QED BY <1>1, <1>2, <2>1, OrderStep
<1>6. CASE StartUndated
  <2>1. Looking /\ NextEvent /\ sessions' = sessions
        /\ active' = IF active = None THEN None ELSE Link(active, "supporting")
    BY <1>6 DEF StartUndated
  <2>2. active' # None => active # None /\ ToldOf(active') /\ active'.start = active.start
    BY <1>2, <2>1, BuilderTold
  <2> QED BY <1>1, <2>1, <2>2, OrderStep
<1>7. CASE StartAgain
  <2>1. Looking /\ NextEvent /\ sessions' = sessions /\ active # None
        /\ active' = ObserveHint(Observe(Link(active, "supporting")))
    BY <1>7 DEF StartAgain, IsBootstrap
  <2>2. ToldOf(active') /\ active'.start = active.start
    BY <1>2, <2>1, BuilderTold
  <2> QED BY <1>1, <2>1, <2>2, OrderStep
<1>8. CASE Start
  <2>1. Looking /\ NextEvent /\ Now
        /\ sessions' = (IF active = None THEN sessions ELSE Append(sessions, CutShort(active)))
        /\ active' = NewBuilder("explicit")
    BY <1>8 DEF Start, Now
  <2>2. ToldOf(active') /\ active'.start = Event.at
    BY <2>1, NewBuilderTold
  <2>3. active # None => /\ CutShort(active) \in Session /\ CutShort(active).start = active.start
                         /\ Told(CutShort(active).end)
    BY <1>2, EndsTold, CutShortIsSound DEF Sound
  <2> QED BY <1>1, <2>1, <2>2, <2>3, OrderStep
<1>9. CASE Version
  <2>1. Looking /\ NextEvent /\ sessions' = sessions
        /\ active' = IF active = None THEN None
                     ELSE ObserveHint(Observe(Link(AddVersion(active), "version")))
    BY <1>9 DEF Version
  <2> DEFINE b == Link(AddVersion(active), "version")
  <2>2. active # None => ToldOf(b) /\ b.start = active.start
    <3>1. active # None => ToldOf(AddVersion(active)) /\ AddVersion(active).start = active.start
      BY <1>2, BuilderTold
    <3> QED BY <3>1, BuilderTold
  <2> HIDE DEF b
  <2>3. ToldOf(b) => ToldOf(ObserveHint(Observe(b))) /\ ObserveHint(Observe(b)).start = b.start
    BY BuilderTold
  <2>4. active' = IF active = None THEN None ELSE ObserveHint(Observe(b))
    BY <2>1 DEF b
  <2>5. active' # None => active # None /\ ToldOf(active') /\ active'.start = active.start
    BY <2>2, <2>3, <2>4
  <2> QED BY <1>1, <2>1, <2>5, OrderStep
<1>10. CASE Activity
  <2> DEFINE b == Prepared
             versioned == IF Event.tag = "integrated" /\ Event.name # None
                          THEN Link(AddVersion(b), "version") ELSE b
  <2>1. Looking /\ NextEvent
        /\ sessions' = (IF Stopped THEN Append(sessions, CutShort(active)) ELSE sessions)
        /\ active' = (IF b = None THEN None
                      ELSE Observe(Link(AddPlace(versioned), "destination")))
    BY <1>10 DEF Activity
  <2>2. b # None => /\ ToldOf(b)
                    /\ \/ active # None /\ ~Stopped /\ b.start = active.start
                       \/ Now /\ b.start = Event.at
    BY <1>2, BuilderTold, NewBuilderTold DEF Prepared, Now
  <2> HIDE DEF b
  <2>3. b # None => ToldOf(versioned) /\ versioned.start = b.start
    BY <2>2, BuilderTold
  <2> HIDE DEF versioned
  <2>4. active' # None => b # None /\ ToldOf(active') /\ active'.start = b.start
    <3>1. b # None => ToldOf(AddPlace(versioned)) /\ AddPlace(versioned).start = b.start
      BY <2>3, BuilderTold
    <3> DEFINE c == Link(AddPlace(versioned), "destination")
    <3>2. b # None => ToldOf(c) /\ c.start = b.start
      BY <3>1, BuilderTold
    <3> HIDE DEF c
    <3>3. b # None => ToldOf(Observe(c)) /\ Observe(c).start = b.start
      BY <3>2, BuilderTold
    <3>4. active' = IF b = None THEN None ELSE Observe(c)
      BY <2>1 DEF c
    <3> QED BY <3>3, <3>4
  <2>5. Stopped => /\ active # None /\ CutShort(active) \in Session /\ CutShort(active).start = active.start
                   /\ Told(CutShort(active).end)
    BY <1>2, EndsTold, CutShortIsSound DEF Sound, Stopped
  <2> QED BY <1>1, <2>1, <2>2, <2>4, <2>5, OrderStep
<1>11. CASE Disconnect
  <2>1. Looking /\ NextEvent /\ sessions' = sessions
        /\ active' = IF active = None THEN None
                     ELSE ObserveHint(Observe(Link(active, "supporting")))
    BY <1>11 DEF Disconnect
  <2>2. active' # None => active # None /\ ToldOf(active') /\ active'.start = active.start
    BY <1>2, <2>1, BuilderTold
  <2> QED BY <1>1, <2>1, <2>2, OrderStep
<1>12. CASE Stopping
  <2> DEFINE b == ObserveHint(Observe(Link(Link(active, "end"), "exit")))
  <2>1. Looking /\ NextEvent /\ sessions' = sessions
        /\ active' = IF active = None THEN None
                     ELSE [b EXCEPT !.stop = IF @ = None THEN Event.at ELSE @]
    BY <1>12 DEF Stopping
  <2>2. active # None => ToldOf(b) /\ b.start = active.start
    <3>1. active # None => /\ ToldOf(Link(Link(active, "end"), "exit"))
                           /\ Link(Link(active, "end"), "exit").start = active.start
      <4>1. active # None => ToldOf(Link(active, "end")) /\ Link(active, "end").start = active.start
        BY <1>2, BuilderTold
      <4> QED BY <4>1, BuilderTold
    <3> DEFINE c == Link(Link(active, "end"), "exit")
    <3> HIDE DEF c
    <3>2. ToldOf(c) => ToldOf(ObserveHint(Observe(c))) /\ ObserveHint(Observe(c)).start = c.start
      BY BuilderTold
    <3> QED BY <3>1, <3>2 DEF c
  <2> HIDE DEF b
  <2>3. active' # None => active # None /\ ToldOf(active') /\ active'.start = active.start
    BY <2>1, <2>2 DEF ToldOf, Told, Now
  <2> QED BY <1>1, <2>1, <2>3, OrderStep
<1>13. CASE End
  <2>1. Looking /\ NextEvent
    BY <1>13 DEF End
  <2>2. CASE active = None \/ Event.at = None
    <3>1. active' = active /\ sessions' = sessions
      BY <1>13, <2>2 DEF End
    <3> QED BY <1>1, <1>2, <2>1, <3>1, OrderStep
  <2>3. CASE active # None /\ Event.at # None
    <3> DEFINE b == Observe(Link(Link(active, "end"), "exit"))
               boundary == IF Event.tag = "crash" THEN "CrashEnd" ELSE "ShutdownEnd"
               s == Finished(b, Event.at, boundary)
    <3>1. active' = None /\ sessions' = Append(sessions, s)
      BY <1>13, <2>3 DEF End
    <3>2. Forward(b)
      BY <1>2, <2>1, <2>3, EndLinks DEF IInv
    <3>3. ToldOf(b) /\ b.start = active.start
      <4>1. ToldOf(Link(active, "end")) /\ Link(active, "end").start = active.start
        BY <1>2, <2>3, BuilderTold
      <4>2. /\ ToldOf(Link(Link(active, "end"), "exit"))
            /\ Link(Link(active, "end"), "exit").start = active.start
        BY <4>1, BuilderTold
      <4> QED BY <4>2, BuilderTold
    <3>4. Event.at \in Int /\ boundary \in Boundaries
      BY <2>1, <2>3, EventType DEF Evidence, Boundaries, Observed, IInv
    <3> HIDE DEF b, boundary
    <3>5. s \in Session
      BY <3>2, <3>4, FinishedIsSound DEF Sound
    <3>6. Told(s.end) /\ s.start = active.start
      BY <2>3, <3>3, EndsTold DEF Now
    <3> HIDE DEF s
    <3> QED BY <1>1, <2>1, <2>3, <3>1, <3>5, <3>6, OrderStep
  <2> QED BY <2>2, <2>3
<1>14. CASE FinishTail
  <2>1. /\ active # None /\ active' = None /\ sessions' = Append(sessions, TailEnd(active))
        /\ UNCHANGED <<i, j>> /\ ~Running
    BY <1>14 DEF FinishTail
  <2>2. TailEnd(active) \in Session /\ TailEnd(active).start = active.start
    BY <1>2, <2>1, TailEndIsSound DEF Sound, TailEnd, Finished
  <2> DEFINE s == TailEnd(active)
  <2> HIDE DEF s
  <2>3. /\ DOMAIN sessions' = 1..(Len(sessions) + 1) /\ Len(sessions') = Len(sessions) + 1
        /\ Len(sessions) \in Nat /\ DOMAIN sessions = 1..Len(sessions)
        /\ sessions'[Len(sessions) + 1] = s
        /\ \A k \in DOMAIN sessions : sessions'[k] = sessions[k]
    <3>1. sessions \in Seq(Session) /\ s \in Session
      BY <2>2 DEF IInv, SessionsStand, s
    <3>2. sessions' = Append(sessions, s)
      BY <2>1 DEF s
    <3> QED BY <3>1, <3>2
  <2>4. \A t : Past(t)'
    <3>1. \A n \in DOMAIN logs : ~(i < n) /\ i # n
      <4>1. Len(logs) \in Nat /\ DOMAIN logs = 1..Len(logs) /\ i = Len(logs) + 1
        BY <2>1 DEF IInv, InputStands, Running
      <4> QED BY <4>1
    <3> QED BY <1>1, <2>1, <3>1 DEF Past
  <2>5. \A k \in 1..(Len(sessions') - 1) : sessions'[k].end <= sessions'[k + 1].start
    <3> SUFFICES ASSUME NEW k \in 1..(Len(sessions') - 1)
                 PROVE  sessions'[k].end <= sessions'[k + 1].start
      OBVIOUS
    <3>1. k \in 1..Len(sessions)
      BY <2>3
    <3>2. CASE k = Len(sessions)
      <4>1. sessions[k].end <= active.start
        BY <1>1, <2>1, <2>3, <3>1 DEF OrderStands
      <4>2. sessions'[k + 1] = s
        BY <2>3, <3>2
      <4> QED BY <2>2, <2>3, <3>1, <4>1, <4>2 DEF s
    <3>3. CASE k # Len(sessions)
      <4>1. k + 1 \in 1..Len(sessions) /\ k \in 1..(Len(sessions) - 1)
        <5>1. \A n \in Nat : \A m \in 1..n : m # n => m + 1 \in 1..n /\ m \in 1..(n - 1)
          OBVIOUS
        <5> QED BY <2>3, <3>1, <3>3, <5>1
      <4>2. sessions[k].end <= sessions[k + 1].start
        BY <1>1, <4>1 DEF OrderStands
      <4> QED BY <2>3, <3>1, <4>1, <4>2
    <3> QED BY <3>2, <3>3
  <2> QED BY <2>1, <2>4, <2>5 DEF OrderStands
<1> QED
  BY <1>3, <1>4, <1>5, <1>6, <1>7, <1>8, <1>9, <1>10, <1>11, <1>12, <1>13, <1>14 DEF Next

\* Evidence that runs forward gives sessions that follow one another, whatever
\* is split, copied, cut short or left without an end (one client does not run
\* twice at a time).
THEOREM SessionsAreInOrder == Spec => []SessionsFollowOneAnother
<1>1. Init => OrderStands
  BY DEF Init, OrderStands
<1>2. OrderStands => SessionsFollowOneAnother
  BY DEF OrderStands, SessionsFollowOneAnother
<1> QED BY <1>1, <1>2, OrderHolds, InvariantHolds, PTL DEF Spec

-----------------------------------------------------------------------------
(***************************************************************************)
(* Overlaps.  What a scan by Knuth, Morris and Pratt finds is the longest  *)
(* match: by the border function no shorter match is passed over when the  *)
(* next key does not fit.                                                  *)
(***************************************************************************)
\* What p has before its place n, that c begins with, m keys long.
Match(p, c, n, m) == m <= n /\ \A k \in 1..m : p[n - m + k].key = c[k].key
IsLongest(p, c, n, lim, m) ==
    m \in 0..lim /\ Match(p, c, n, m) /\ \A x \in 0..lim : Match(p, c, n, x) => x <= m
Longest(p, c, n, lim) == CHOOSE m \in 0..lim : IsLongest(p, c, n, lim, m)

\* There is a longest match, and one only.
LEMMA LongestFound ==
  ASSUME NEW p, NEW c, NEW n \in Nat, NEW lim \in 0..n
  PROVE  /\ IsLongest(p, c, n, lim, Longest(p, c, n, lim))
         /\ \A m : IsLongest(p, c, n, lim, m) => m = Longest(p, c, n, lim)
<1> DEFINE T == {m \in 0..lim : Match(p, c, n, m)}
<1>1. 0 \in T
  <2>1. 0 \in 0..lim /\ 1..0 = {} /\ 0 <= n
    OBVIOUS
  <2> QED BY <2>1 DEF Match
<1>2. \E m \in T : \A x \in T : x <= m
  <2>1. T \in SUBSET (0..lim) /\ T # {} /\ lim \in Nat
    BY <1>1
  <2> HIDE DEF T
  <2> QED BY <2>1, GreatestNatural
<1>3. \E m \in 0..lim : IsLongest(p, c, n, lim, m)
  BY <1>2 DEF IsLongest
<1>4. IsLongest(p, c, n, lim, Longest(p, c, n, lim))
  BY <1>3 DEF Longest
<1>5. ASSUME NEW m, IsLongest(p, c, n, lim, m)
      PROVE  m = Longest(p, c, n, lim)
  <2> DEFINE k == Longest(p, c, n, lim)
  <2>1. m <= k /\ k <= m /\ m \in 0..lim /\ k \in 0..lim
    <3> HIDE DEF k
    <3> QED BY <1>4, <1>5 DEF IsLongest, k
  <2> HIDE DEF k
  <2>2. m = k
    BY <2>1
  <2> QED BY <2>2 DEF k
<1> QED BY <1>4, <1>5

\* A match grows by one key that fits.
LEMMA MatchGrows ==
  ASSUME NEW p, NEW c, NEW n \in Nat \ {0}, NEW m \in 0..(n - 1)
  PROVE  Match(p, c, n, m + 1) <=> (Match(p, c, n - 1, m) /\ p[n].key = c[m + 1].key)
<1>1. /\ \A k \in 1..m : n - (m + 1) + k = (n - 1) - m + k
      /\ 1..(m + 1) = (1..m) \cup {m + 1} /\ n - (m + 1) + (m + 1) = n
      /\ m + 1 <= n /\ m <= n - 1
  OBVIOUS
<1>2. ASSUME NEW k \in 1..m
      PROVE  p[n - (m + 1) + k].key = p[(n - 1) - m + k].key
  BY <1>1
<1>3. p[n - (m + 1) + (m + 1)].key = p[n].key
  BY <1>1
<1>4. (\A k \in 1..(m + 1) : p[n - (m + 1) + k].key = c[k].key)
      <=> ((\A k \in 1..m : p[(n - 1) - m + k].key = c[k].key) /\ p[n].key = c[m + 1].key)
  BY <1>1, <1>2, <1>3, Zenon
<1> QED BY <1>1, <1>4 DEF Match

\* Shorter matches are the borders of a match.
LEMMA MatchBorders ==
  ASSUME NEW p, NEW c, NEW n \in Nat, NEW m \in 0..n, Match(p, c, n, m), NEW x \in 0..m
  PROVE  Match(p, c, n, x) <=> Match(c, c, m, x)
<1>1. ASSUME NEW k \in 1..x
      PROVE  p[n - x + k].key = c[m - x + k].key
  <2>1. m - x + k \in 1..m /\ n - m + (m - x + k) = n - x + k
    OBVIOUS
  <2>2. p[n - m + (m - x + k)].key = c[m - x + k].key
    BY <2>1 DEF Match
  <2> QED BY <2>1, <2>2
<1>2. x <= n /\ x <= m
  OBVIOUS
<1> QED BY <1>1, <1>2 DEF Match

\* Falling back by b, from what is not in T.
Falls(fall, M, T, b) == \A m \in 0..M : fall[m] = IF m \in T THEN m ELSE fall[b[m]]
FallsBelow(M, T, b) == \A m \in 0..M : m \notin T => b[m] \in 0..M /\ b[m] < m
\* b leads from an element of G to the next smaller one.
Descends(b, G, T) ==
    \A m \in G : m \notin T => b[m] \in G /\ b[m] < m /\ \A x \in G : x < m => x <= b[m]

\* Falling back from border to border exists ...
LEMMA FallExists ==
  ASSUME NEW M \in Nat, NEW T, NEW b, FallsBelow(M, T, b)
  PROVE  \E fall \in [0..M -> 0..M] : Falls(fall, M, T, b)
<1> USE DEF FallsBelow
<1> DEFINE D == 0..M
           rank == [m \in D |-> m]
           B == [m \in D \cap T |-> m]
           F == [q \in D \X D |-> q[2]]
<1>1. rank \in [D -> Nat] /\ DOMAIN B = D \cap T /\ \A m \in D \cap T : B[m] = m
  OBVIOUS
<1>2. \A m \in D : m \notin DOMAIN B => b[m] \in D /\ rank[b[m]] < rank[m]
  OBVIOUS
<1>3. \A m \in D, v \in D : F[<<m, v>>] = v
  OBVIOUS
<1>4. PICK it \in [D -> D] : Unfolds(it, D, b, B, F)
  <2>1. \A m \in D \cap DOMAIN B : B[m] \in D
    BY <1>1
  <2>2. \A m \in D, v \in D : m \notin DOMAIN B => F[<<m, v>>] \in D
    BY <1>3
  <2> HIDE DEF D, rank, B, F
  <2> QED BY <1>1, <1>2, <2>1, <2>2, RecursionExists
<1>5. ASSUME NEW m \in D
      PROVE  it[m] = IF m \in T THEN m ELSE it[b[m]]
  <2>1. CASE m \in T
    BY <1>1, <1>4, <2>1 DEF Unfolds
  <2>2. CASE m \notin T
    <3>1. it[m] = F[<<m, it[b[m]]>>] /\ b[m] \in D
      <4>1. m \notin DOMAIN B
        BY <1>1, <2>2
      <4> HIDE DEF D, B, F
      <4> QED BY <1>2, <1>4, <4>1 DEF Unfolds
    <3>2. it[b[m]] \in D
      BY <1>4, <3>1
    <3> QED BY <1>3, <2>2, <3>1, <3>2
  <2> QED BY <2>1, <2>2
<1> QED BY <1>4, <1>5 DEF Falls

\* ... and ends at the greatest of the chain where it may end.
LEMMA FallFinds ==
  ASSUME NEW M \in Nat, NEW T, NEW b, NEW G \in SUBSET (0..M),
         Descends(b, G, T), NEW fall, Falls(fall, M, T, b)
  PROVE  \A m \in G : fall[m] \in G \cap T /\ \A x \in G \cap T : x <= m => x <= fall[m]
<1> USE DEF Descends, Falls
<1> DEFINE Good(m) == fall[m] \in G \cap T /\ \A x \in G \cap T : x <= m => x <= fall[m]
           Bad == {m \in G : ~Good(m)}
<1>1. CASE Bad = {}
  BY <1>1
<1>2. CASE Bad # {}
  <2>1. PICK m \in Bad : \A k \in Bad : m <= k
    <3>1. Bad \in SUBSET Nat
      <4>1. \A m \in G : m \in Nat
        OBVIOUS
      <4> HIDE DEF Good
      <4> QED BY <4>1
    <3> HIDE DEF Bad
    <3> QED BY <1>2, <3>1, LeastNatural
  <2>2. m \in G /\ m \in 0..M /\ ~Good(m)
    BY <2>1
  <2>3. CASE m \in T
    BY <2>2, <2>3
  <2>4. CASE m \notin T
    <3>1. b[m] \in G /\ b[m] < m /\ (\A x \in G : x < m => x <= b[m]) /\ fall[m] = fall[b[m]]
      BY <2>2, <2>4
    <3>2. Good(b[m])
      <4>1. b[m] \in 0..M
        BY <3>1
      <4>2. \A x, y \in 0..M : x < y => ~(y <= x)
        OBVIOUS
      <4>3. ~(m <= b[m])
        BY <2>2, <3>1, <4>1, <4>2
      <4>4. b[m] \notin Bad
        BY <2>1, <4>3
      <4> QED BY <3>1, <4>4
    <3>3. ASSUME NEW x \in G \cap T, x <= m
          PROVE  x <= fall[m]
      <4>1. x \in 0..M /\ x # m
        BY <2>4
      <4>2. x < m
        BY <2>2, <3>3, <4>1
      <4> QED BY <3>1, <3>2, <4>2
    <3> QED BY <2>2, <3>1, <3>2, <3>3
  <2> QED BY <2>3, <2>4
<1> QED BY <1>1, <1>2

\* Borders lead down, and a scan that has them can fall back.
LEMMA BordersFall ==
  ASSUME NEW c, NEW M \in Nat, NEW b, \A m \in 1..M : IsLongest(c, c, m, m - 1, b[m]),
         NEW T, \A m \in 0..M : m \notin T => m # 0
  PROVE  \E fall \in [0..M -> 0..M] : Falls(fall, M, T, b)
<1>1. ASSUME NEW m \in 0..M, m \notin T
      PROVE  b[m] \in 0..M /\ b[m] < m
  <2>1. m \in 1..M
    BY <1>1
  <2>2. b[m] \in 0..(m - 1)
    BY <2>1 DEF IsLongest
  <2> QED BY <2>1, <2>2
<1>2. FallsBelow(M, T, b)
  BY <1>1 DEF FallsBelow
<1> QED BY <1>2, FallExists

\* One step of the scan: from the longest match before the key at n, to the
\* longest that ends with it.
LEMMA ScanStep ==
  ASSUME NEW p, NEW c, NEW n \in Nat \ {0}, NEW lim \in 0..(n - 1), NEW top \in 1..(lim + 1),
         NEW M \in Nat, lim <= M, NEW b,
         \A m \in 1..M : IsLongest(c, c, m, m - 1, b[m]),
         NEW T, \A m \in 0..M : m \notin T => m # 0,
         \A m \in 0..lim : m \in T <=> (m < top /\ (m = 0 \/ p[n].key = c[m + 1].key)),
         NEW m0, IsLongest(p, c, n - 1, lim, m0), NEW fall, Falls(fall, M, T, b)
  PROVE  LET m == fall[m0]
         IN  IsLongest(p, c, n, top, IF p[n].key = c[m + 1].key THEN m + 1 ELSE m)
<1> DEFINE G == {m \in 0..lim : Match(p, c, n - 1, m)}
           f == fall[m0]
<1>2. G \in SUBSET (0..M) /\ m0 \in G /\ \A x \in G : x <= m0
  BY DEF IsLongest
<1>3. ASSUME NEW m \in G, m \notin T
      PROVE  b[m] \in G /\ b[m] < m /\ \A x \in G : x < m => x <= b[m]
  <2>1. m \in 1..M /\ m \in 0..(n - 1) /\ m \in 0..lim /\ n - 1 \in Nat /\ Match(p, c, n - 1, m)
    BY <1>2, <1>3
  <2>2. /\ b[m] \in 0..(m - 1) /\ Match(c, c, m, b[m])
        /\ \A x \in 0..(m - 1) : Match(c, c, m, x) => x <= b[m]
    BY <2>1 DEF IsLongest
  <2>3. b[m] \in 0..m /\ b[m] \in 0..lim /\ b[m] < m
    BY <2>1, <2>2
  <2>4. Match(p, c, n - 1, b[m])
    BY <2>1, <2>2, <2>3, MatchBorders
  <2>5. ASSUME NEW x \in G, x < m
        PROVE  x <= b[m]
    <3>1. x \in 0..m /\ x \in 0..(m - 1) /\ Match(p, c, n - 1, x)
      BY <2>1, <2>5
    <3>2. Match(c, c, m, x)
      BY <2>1, <3>1, MatchBorders
    <3> QED BY <2>2, <3>1, <3>2
  <2> QED BY <2>3, <2>4, <2>5
<1>4. f \in G /\ f \in T /\ \A x \in G \cap T : x <= f
  <2>1. \A m \in G : fall[m] \in G \cap T /\ \A x \in G \cap T : x <= m => x <= fall[m]
    <3>1. Descends(b, G, T)
      BY <1>3 DEF Descends
    <3> HIDE DEF G, f
    <3>2. G \in SUBSET (0..M)
      BY <1>2
    <3> QED BY <3>1, <3>2, FallFinds
  <2> HIDE DEF G
  <2> QED BY <1>2, <2>1
<1>5. /\ f \in 0..lim /\ f \in 0..(n - 1) /\ Match(p, c, n - 1, f) /\ f < top
      /\ (f = 0 \/ p[n].key = c[f + 1].key)
  <2>1. f \in 0..lim /\ Match(p, c, n - 1, f)
    BY <1>4
  <2>2. f < top /\ (f = 0 \/ p[n].key = c[f + 1].key)
    BY <1>4, <2>1
  <2>3. \A x \in 0..lim : x \in 0..(n - 1)
    OBVIOUS
  <2> QED BY <2>1, <2>2, <2>3
\* A match that is longer was a match that may grow.
<1>6. ASSUME NEW y \in 0..top, Match(p, c, n, y), y # 0
      PROVE  y - 1 <= f /\ (y - 1 = 0 => p[n].key = c[1].key)
  <2> DEFINE x == y - 1
  <2>1. x \in 0..lim /\ x \in 0..(n - 1) /\ x < top /\ x + 1 = y
    BY <1>6
  <2>2. Match(p, c, n, x + 1)
    BY <1>6, <2>1
  <2> HIDE DEF x
  <2>3. Match(p, c, n - 1, x) /\ p[n].key = c[x + 1].key
    BY <2>1, <2>2, MatchGrows
  <2>4. x \in G /\ x \in T
    BY <2>1, <2>3
  <2>5. x <= f
    BY <2>4, <1>4
  <2>6. x = 0 => c[x + 1] = c[1]
    BY SMT
  <2> QED BY <2>3, <2>5, <2>6 DEF x
<1> DEFINE next == IF p[n].key = c[f + 1].key THEN f + 1 ELSE f
<1>7. ASSUME p[n].key = c[f + 1].key
      PROVE  IsLongest(p, c, n, top, next)
  <2>1. Match(p, c, n, f + 1)
    BY <1>5, <1>7, MatchGrows
  <2>2. f + 1 \in 0..top
    BY <1>5
  <2>3. ASSUME NEW y \in 0..top, Match(p, c, n, y)
        PROVE  y <= f + 1
    <3>1. y # 0 => y - 1 <= f
      BY <1>6, <2>3
    <3>2. y \in Nat /\ f \in Nat
      BY <1>5
    <3> QED BY <3>1, <3>2
  <2> QED BY <1>7, <2>1, <2>2, <2>3 DEF IsLongest
<1>8. ASSUME p[n].key # c[f + 1].key
      PROVE  IsLongest(p, c, n, top, next)
  <2>1. f = 0 /\ c[f + 1] = c[1]
    BY <1>5, <1>8
  <2>2. Match(p, c, n, 0)
    BY DEF Match
  <2>3. ASSUME NEW y \in 0..top, Match(p, c, n, y)
        PROVE  y <= 0
    <3>1. y # 0 => y - 1 <= 0 /\ (y - 1 = 0 => FALSE)
      BY <1>6, <1>8, <2>1, <2>3
    <3>2. y \in Nat
      OBVIOUS
    <3> QED BY <3>1, <3>2
  <2> QED BY <1>8, <2>1, <2>2, <2>3 DEF IsLongest
<1>9. IsLongest(p, c, n, top, next)
  BY <1>7, <1>8
<1> QED BY <1>9

\* The body of the recursion of Borders ...
NextBorder(s, b, n) ==
    IF n = 1 THEN 0
    ELSE LET fall == CHOOSE f : f = [m \in 0..(n - 1) |->
                         IF m = 0 \/ s[n].key = s[m + 1].key THEN m ELSE f[b[m]]]
             m == fall[b[n - 1]]
         IN  IF s[n].key = s[m + 1].key THEN m + 1 ELSE m
IsBorders(b, s) == b = [n \in 1..Len(s) |-> NextBorder(s, b, n)]

\* ... finds the longest border when it has those of all shorter prefixes.
LEMMA NextBorderLongest ==
  ASSUME NEW s, NEW n \in Nat \ {0}, NEW b,
         \A m \in 1..(n - 1) : IsLongest(s, s, m, m - 1, b[m])
  PROVE  IsLongest(s, s, n, n - 1, NextBorder(s, b, n))
<1>1. CASE n = 1
  BY <1>1 DEF NextBorder, IsLongest, Match
<1>2. CASE n # 1
  <2> DEFINE T == {m \in 0..(n - 1) : m = 0 \/ s[n].key = s[m + 1].key}
             fall == CHOOSE f : f = [m \in 0..(n - 1) |->
                         IF m = 0 \/ s[n].key = s[m + 1].key THEN m ELSE f[b[m]]]
  <2>1. n - 1 \in Nat /\ \A m \in 0..(n - 1) : m \notin T => m # 0
    OBVIOUS
  <2>2. Falls(fall, n - 1, T, b)
    <3>1. PICK g \in [0..(n - 1) -> 0..(n - 1)] : Falls(g, n - 1, T, b)
      <4> HIDE DEF T, fall
      <4> QED BY <2>1, BordersFall
    <3>2. g = [m \in 0..(n - 1) |-> IF m = 0 \/ s[n].key = s[m + 1].key THEN m ELSE g[b[m]]]
      BY <3>1 DEF Falls
    <3>3. fall = [m \in 0..(n - 1) |-> IF m = 0 \/ s[n].key = s[m + 1].key THEN m ELSE fall[b[m]]]
      BY <3>2
    <3> HIDE DEF fall
    <3> QED BY <3>3 DEF Falls
  <2> HIDE DEF fall
  <2>3. /\ n - 2 \in 0..(n - 1) /\ n - 1 \in 1..((n - 2) + 1) /\ n - 2 <= n - 1
        /\ (n - 1) - 1 = n - 2 /\ n - 1 \in 1..(n - 1)
    BY <1>2
  <2>4. \A m \in 0..(n - 2) : m \in T <=> (m < n - 1 /\ (m = 0 \/ s[n].key = s[m + 1].key))
    OBVIOUS
  <2>5. IsLongest(s, s, n - 1, n - 2, b[n - 1])
    BY <2>3
  <2>6. LET m == fall[b[n - 1]]
        IN  IsLongest(s, s, n, n - 1, IF s[n].key = s[m + 1].key THEN m + 1 ELSE m)
    <3> HIDE DEF T
    <3> QED BY <2>1, <2>2, <2>3, <2>4, <2>5, ScanStep
  <2> QED BY <1>2, <2>6 DEF NextBorder, fall
<1> QED BY <1>1, <1>2

\* Borders tells of each prefix of s its longest proper border.
LEMMA BordersAreLongest ==
  ASSUME NEW s, Len(s) \in Nat
  PROVE  \A n \in 1..Len(s) : IsLongest(s, s, n, n - 1, Borders(s)[n])
<1> DEFINE L == Len(s)
           w == [n \in 1..L |-> Longest(s, s, n, n - 1)]
<1>1. ASSUME NEW n \in 1..L
      PROVE  IsLongest(s, s, n, n - 1, w[n])
  <2>1. n \in Nat /\ n - 1 \in 0..n
    OBVIOUS
  <2> QED BY <2>1, LongestFound
<1>2. ASSUME NEW n \in 1..L
      PROVE  w[n] = NextBorder(s, w, n)
  <2>1. n \in Nat \ {0} /\ n - 1 \in 0..n /\ \A m \in 1..(n - 1) : m \in 1..L
    OBVIOUS
  <2> HIDE DEF w
  <2>2. \A m \in 1..(n - 1) : IsLongest(s, s, m, m - 1, w[m])
    BY <1>1, <2>1
  <2>3. IsLongest(s, s, n, n - 1, NextBorder(s, w, n))
    BY <2>1, <2>2, NextBorderLongest
  <2> QED BY <1>1, <2>1, <2>3, LongestFound
<1>3. IsBorders(w, s)
  <2>1. w = [n \in 1..L |-> w[n]]
    OBVIOUS
  <2> HIDE DEF w
  <2> QED BY <1>2, <2>1 DEF IsBorders
<1>4. Borders(s) = CHOOSE b : IsBorders(b, s)
  BY DEF Borders, IsBorders, NextBorder
<1>5. IsBorders(Borders(s), s)
  <2> HIDE DEF w
  <2> QED BY <1>3, <1>4
<1> DEFINE b == Borders(s)
           Bad == {n \in 1..L : ~IsLongest(s, s, n, n - 1, b[n])}
<1>6. CASE Bad = {}
  BY <1>6
<1>7. CASE Bad # {}
  <2> HIDE DEF b
  <2>1. PICK n \in Bad : \A k \in Bad : n <= k
    <3>1. Bad \in SUBSET Nat
      OBVIOUS
    <3> HIDE DEF Bad
    <3> QED BY <1>7, <3>1, LeastNatural
  <2>2. n \in Nat \ {0} /\ n \in 1..L /\ \A m \in 1..(n - 1) : m \in 1..L /\ ~(n <= m)
    OBVIOUS
  <2>3. \A m \in 1..(n - 1) : IsLongest(s, s, m, m - 1, b[m])
    BY <2>1, <2>2
  <2>4. IsLongest(s, s, n, n - 1, NextBorder(s, b, n))
    BY <2>2, <2>3, NextBorderLongest
  <2>5. b[n] = NextBorder(s, b, n)
    BY <1>5, <2>2 DEF b, IsBorders
  <2> QED BY <2>1, <2>4, <2>5
<1> QED BY <1>6, <1>7

\* The body of the recursion of SuffixPrefixOverlap ...
NextMatch(p, c, b, m0, n) ==
    LET fall == CHOOSE f : f = [m \in 0..Len(c) |->
                    IF m < Len(c) /\ (m = 0 \/ p[n].key = c[m + 1].key) THEN m ELSE f[b[m]]]
        m == fall[m0]
    IN  IF p[n].key = c[m + 1].key THEN m + 1 ELSE m
IsScan(w, p, c) ==
    w = [n \in 0..Len(p) |-> IF n = 0 THEN 0 ELSE NextMatch(p, c, Borders(c), w[n - 1], n)]

\* ... goes from the longest match before a key to the longest that ends with it.
LEMMA NextMatchLongest ==
  ASSUME NEW p, NEW c, Len(c) \in Nat \ {0}, NEW n \in Nat \ {0}, NEW m0,
         IsLongest(p, c, n - 1, Least(n - 1, Len(c)), m0)
  PROVE  IsLongest(p, c, n, Least(n, Len(c)), NextMatch(p, c, Borders(c), m0, n))
<1> DEFINE L == Len(c)
           b == Borders(c)
           T == {m \in 0..L : m < L /\ (m = 0 \/ p[n].key = c[m + 1].key)}
           fall == CHOOSE f : f = [m \in 0..L |->
                       IF m < L /\ (m = 0 \/ p[n].key = c[m + 1].key) THEN m ELSE f[b[m]]]
           lim == Least(n - 1, L)
           top == Least(n, L)
<1>1. \A m \in 1..L : IsLongest(c, c, m, m - 1, b[m])
  BY BordersAreLongest
<1>2. L \in Nat /\ \A m \in 0..L : m \notin T => m # 0
  OBVIOUS
<1>3. Falls(fall, L, T, b)
  <2>1. PICK g \in [0..L -> 0..L] : Falls(g, L, T, b)
    <3> HIDE DEF T, fall, b, L
    <3> QED BY <1>1, <1>2, BordersFall
  <2>2. g = [m \in 0..L |-> IF m < L /\ (m = 0 \/ p[n].key = c[m + 1].key) THEN m ELSE g[b[m]]]
    BY <2>1 DEF Falls
  <2>3. fall = [m \in 0..L |-> IF m < L /\ (m = 0 \/ p[n].key = c[m + 1].key) THEN m ELSE fall[b[m]]]
    <3> HIDE DEF b, L
    <3> QED BY <2>2
  <2> HIDE DEF fall, b, L
  <2> QED BY <2>3 DEF Falls
<1>4. lim \in 0..(n - 1) /\ top \in 1..(lim + 1) /\ lim <= L
  BY DEF Least
<1>5. \A m \in 0..lim : m \in T <=> (m < top /\ (m = 0 \/ p[n].key = c[m + 1].key))
  <2>1. \A m \in 0..lim : m \in 0..L /\ (m < L <=> m < top)
    BY DEF Least
  <2> HIDE DEF lim, top
  <2> QED BY <2>1
<1>6. IsLongest(p, c, n - 1, lim, m0)
  OBVIOUS
<1>7. LET m == fall[m0]
      IN  IsLongest(p, c, n, top, IF p[n].key = c[m + 1].key THEN m + 1 ELSE m)
  <2> HIDE DEF fall, T, b, L, lim, top
  <2> QED BY <1>1, <1>2, <1>3, <1>4, <1>5, <1>6, ScanStep
<1>8. NextMatch(p, c, b, m0, n) =
         (LET m == fall[m0] IN IF p[n].key = c[m + 1].key THEN m + 1 ELSE m)
  BY DEF NextMatch
<1> HIDE DEF fall, lim, top, b
<1>9. IsLongest(p, c, n, top, NextMatch(p, c, b, m0, n))
  BY <1>7, <1>8
<1> QED BY <1>9 DEF top, b

\* The scan exists, and tells the longest match at each place of p.
LEMMA ScanIsLongest ==
  ASSUME NEW p, NEW c, Len(p) \in Nat, Len(c) \in Nat \ {0}, c # <<>>
  PROVE  IsLongest(p, c, Len(p), Least(Len(p), Len(c)), SuffixPrefixOverlap(p, c))
<1> DEFINE N == Len(p)
           L == Len(c)
           Right(n, m) == IsLongest(p, c, n, Least(n, L), m)
           w == [n \in 0..N |-> Longest(p, c, n, Least(n, L))]
<1>1. ASSUME NEW n \in 0..N
      PROVE  n \in Nat /\ Right(n, w[n]) /\ \A m : Right(n, m) => m = w[n]
  <2>1. n \in Nat /\ Least(n, L) \in 0..n
    BY DEF Least
  <2> QED BY <2>1, LongestFound
<1>2. Right(0, 0)
  BY DEF IsLongest, Match, Least
<1>3. ASSUME NEW n \in 0..N, n # 0, NEW m, Right(n - 1, m)
      PROVE  Right(n, NextMatch(p, c, Borders(c), m, n))
  <2>1. n \in Nat \ {0}
    BY <1>3
  <2> QED BY <1>3, <2>1, NextMatchLongest
<1> HIDE DEF Right
<1>4. IsScan(w, p, c)
  <2>1. ASSUME NEW n \in 0..N
        PROVE  w[n] = IF n = 0 THEN 0 ELSE NextMatch(p, c, Borders(c), w[n - 1], n)
    <3> HIDE DEF w
    <3>1. CASE n = 0
      BY <1>1, <1>2, <3>1
    <3>2. CASE n # 0
      <4>1. n - 1 \in 0..N
        BY <3>2
      <4> QED BY <1>1, <1>3, <3>2, <4>1
    <3> QED BY <3>1, <3>2
  <2>2. w = [n \in 0..N |-> w[n]]
    OBVIOUS
  <2> HIDE DEF w
  <2> QED BY <2>1, <2>2 DEF IsScan
<1> DEFINE v == CHOOSE x : IsScan(x, p, c)
<1>5. SuffixPrefixOverlap(p, c) = v[N]
  BY DEF SuffixPrefixOverlap, IsScan, NextMatch
<1>6. IsScan(v, p, c)
  <2> HIDE DEF w
  <2> QED BY <1>4
<1> HIDE DEF v
<1> DEFINE Bad == {n \in 0..N : ~Right(n, v[n])}
<1>7. CASE Bad = {}
  BY <1>5, <1>7 DEF Right
<1>8. CASE Bad # {}
  <2>1. PICK n \in Bad : \A k \in Bad : n <= k
    <3>1. Bad \in SUBSET Nat
      OBVIOUS
    <3> HIDE DEF Bad
    <3> QED BY <1>8, <3>1, LeastNatural
  <2>2. n \in 0..N /\ n # 0
    <3>1. v[0] = 0
      BY <1>6 DEF IsScan
    <3> QED BY <1>2, <2>1, <3>1
  <2>3. n - 1 \in 0..N /\ ~(n <= n - 1)
    BY <2>2
  <2>4. Right(n - 1, v[n - 1])
    BY <2>1, <2>3
  <2>5. v[n] = NextMatch(p, c, Borders(c), v[n - 1], n)
    BY <1>6, <2>2 DEF IsScan
  <2> QED BY <1>3, <2>1, <2>2, <2>4, <2>5
<1> QED BY <1>7, <1>8

-----------------------------------------------------------------------------
\* Keys are a sequence.
KeyType == [key : Tags \X (STRING \cup {None}) \X Int, line : Nat]
KeyOf(e) == [key |-> <<e.tag, e.name, e.at>>, line |-> e.line]

\* The keys of a log grow event by event.
LEMMA KeysUnfold ==
  ASSUME NEW l \in Log
  PROVE  \E keys :
            /\ Keys(l) = keys[Len(l.evidence)] /\ keys[0] = <<>>
            /\ \A n \in 0..Len(l.evidence) : keys[n] \in Seq(KeyType)
            /\ \A n \in 1..Len(l.evidence) :
                  keys[n] = IF l.evidence[n].at = None THEN keys[n - 1]
                            ELSE Append(keys[n - 1], KeyOf(l.evidence[n]))
<1> DEFINE N == Len(l.evidence)
           e == l.evidence
           D == 0..N
           rank == [n \in D |-> n]
           c == [n \in D |-> n - 1]
           B == [n \in {0} |-> <<>>]
           K(n) == KeyOf(e[n])
           F == [q \in D \X Seq(KeyType) |->
                    IF e[q[1]].at = None THEN q[2] ELSE Append(q[2], K(q[1]))]
           keys == CHOOSE k : k = [n \in D |-> IF n = 0 THEN <<>>
                       ELSE IF e[n].at = None THEN k[n - 1] ELSE Append(k[n - 1], K(n))]
<1>1. N \in Nat /\ e \in Seq(Evidence)
  BY DEF Log
<1>2. ASSUME NEW n \in D, n # 0, e[n].at # None
      PROVE  K(n) \in KeyType
  <2>1. n \in 1..N
    BY <1>1, <1>2
  <2>2. e[n] \in Evidence
    BY <1>1, <2>1
  <2>3. e[n].tag \in Tags /\ e[n].name \in STRING \cup {None} /\ e[n].at \in Int /\ e[n].line \in Nat
    BY <1>2, <2>2 DEF Evidence
  <2> HIDE DEF e, N
  <2> QED BY <2>3 DEF KeyType, KeyOf
<1>3. ASSUME NEW n \in D, n # 0, NEW v \in Seq(KeyType)
      PROVE  F[<<n, v>>] = (IF e[n].at = None THEN v ELSE Append(v, K(n))) /\ F[<<n, v>>] \in Seq(KeyType)
  <2>1. F[<<n, v>>] = IF e[n].at = None THEN v ELSE Append(v, K(n))
    <3> HIDE DEF K, e, N
    <3> QED OBVIOUS
  <2> HIDE DEF F, K, e, N
  <2>2. CASE e[n].at = None
    BY <2>1, <2>2
  <2>3. CASE e[n].at # None
    <3>1. K(n) \in KeyType
      BY <1>2, <1>3, <2>3
    <3>2. Append(v, K(n)) \in Seq(KeyType)
      BY <3>1
    <3> QED BY <2>1, <2>3, <3>2
  <2> QED BY <2>1, <2>2, <2>3
<1>4. PICK it \in [D -> Seq(KeyType)] : Unfolds(it, D, c, B, F)
  <2>1. rank \in [D -> Nat] /\ DOMAIN B = {0} /\ B[0] = <<>> /\ <<>> \in Seq(KeyType)
    OBVIOUS
  <2>2. \A n \in D : n \notin DOMAIN B => c[n] \in D /\ rank[c[n]] < rank[n]
    <3> HIDE DEF N, B
    <3> QED BY <1>1, <2>1
  <2>3. \A n \in D \cap DOMAIN B : B[n] \in Seq(KeyType)
    <3> HIDE DEF B
    <3> QED BY <2>1
  <2>4. \A n \in D, v \in Seq(KeyType) : n \notin DOMAIN B => F[<<n, v>>] \in Seq(KeyType)
    <3> HIDE DEF B, F
    <3> QED BY <1>3, <2>1
  <2> HIDE DEF D, rank, c, B, F
  <2> QED BY <2>1, <2>2, <2>3, <2>4, RecursionExists
<1>5. ASSUME NEW n \in D
      PROVE  it[n] = IF n = 0 THEN <<>>
                     ELSE IF e[n].at = None THEN it[n - 1] ELSE Append(it[n - 1], K(n))
  <2>1. CASE n = 0
    BY <1>4, <2>1 DEF Unfolds
  <2>2. CASE n # 0
    <3>1. n \notin DOMAIN B /\ c[n] = n - 1 /\ n - 1 \in D
      <4> HIDE DEF N
      <4> QED BY <1>1, <2>2
    <3>2. it[n] = F[<<n, it[n - 1]>>]
      <4> HIDE DEF F, B, c, D
      <4> QED BY <1>4, <3>1 DEF Unfolds
    <3>3. it[n - 1] \in Seq(KeyType)
      BY <1>4, <3>1
    <3> HIDE DEF F, K
    <3> QED BY <1>3, <2>2, <3>2, <3>3
  <2> QED BY <2>1, <2>2
<1>6. it = [n \in D |-> IF n = 0 THEN <<>>
                ELSE IF e[n].at = None THEN it[n - 1] ELSE Append(it[n - 1], K(n))]
  <2> HIDE DEF K
  <2> QED BY <1>4, <1>5
<1>7. keys = [n \in D |-> IF n = 0 THEN <<>>
                  ELSE IF e[n].at = None THEN keys[n - 1] ELSE Append(keys[n - 1], K(n))]
  <2> HIDE DEF K
  <2> QED BY <1>6
<1>8. Keys(l) = keys[N]
  BY DEF Keys, KeyOf
<1> HIDE DEF keys
<1> DEFINE Bad == {n \in D : keys[n] \notin Seq(KeyType)}
<1>9. 0 \in D /\ \A n \in 1..N : n \in D /\ n # 0
  <2> HIDE DEF N
  <2> QED BY <1>1
<1>10. ASSUME Bad # {}
       PROVE  FALSE
  <2>1. PICK n \in Bad : \A k \in Bad : n <= k
    <3>1. Bad \in SUBSET Nat
      OBVIOUS
    <3> HIDE DEF Bad
    <3> QED BY <1>10, <3>1, LeastNatural
  <2>2. n \in D /\ n # 0
    BY <1>1, <1>7, <2>1
  <2>3. n - 1 \in D /\ ~(n <= n - 1)
    BY <1>1, <2>2
  <2>4. keys[n - 1] \in Seq(KeyType)
    BY <2>1, <2>3
  <2>5. keys[n] = IF e[n].at = None THEN keys[n - 1] ELSE Append(keys[n - 1], K(n))
    <3> HIDE DEF K
    <3> QED BY <1>7, <2>2
  <2> HIDE DEF K, e
  <2>6. keys[n] \in Seq(KeyType)
    BY <1>2, <2>2, <2>4, <2>5
  <2> QED BY <2>1, <2>6
<1>11. \A n \in D : keys[n] \in Seq(KeyType)
  BY <1>10
<1>12. keys[0] = <<>> /\ \A n \in 1..N :
          keys[n] = IF e[n].at = None THEN keys[n - 1] ELSE Append(keys[n - 1], K(n))
  <2> HIDE DEF K, D, N
  <2> QED BY <1>7, <1>9
<1> QED BY <1>8, <1>11, <1>12

LEMMA KeysType ==
  ASSUME NEW l \in Log
  PROVE  Keys(l) \in Seq(KeyType)
<1>1. Len(l.evidence) \in Nat
  BY DEF Log
<1>2. Len(l.evidence) \in 0..Len(l.evidence)
  BY <1>1
<1> QED BY <1>2, KeysUnfold

PreviousStands == previous \in Seq(KeyType)

LEMMA PreviousStep == IInv /\ PreviousStands /\ [Next]_vars => PreviousStands'
<1> SUFFICES ASSUME IInv, PreviousStands, [Next]_vars
             PROVE  PreviousStands'
  OBVIOUS
<1>1. CASE CloseLog
  <2>1. logs[i] \in Log
    BY <1>1 DEF IInv, InputStands, CloseLog, Running
  <2>2. Keys(logs[i]) \in Seq(KeyType)
    BY <2>1, KeysType
  <2> QED BY <1>1, <2>2 DEF CloseLog, PreviousStands
<1>2. CASE previous' = previous
  BY <1>2 DEF PreviousStands
<1> QED BY <1>1, <1>2 DEF Next, vars, SkipLog, OpenLog, SkipCopy, StartUndated, StartAgain, Start,
                          Version, Activity, Disconnect, Stopping, End, FinishTail, NextEvent

\* The scan of any keys, empty or not.
LEMMA OverlapLongest ==
  ASSUME NEW p \in Seq(KeyType), NEW c \in Seq(KeyType)
  PROVE  IsLongest(p, c, Len(p), Least(Len(p), Len(c)), SuffixPrefixOverlap(p, c))
<1>1. Len(p) \in Nat /\ Len(c) \in Nat /\ (c = <<>> => Len(c) = 0)
  OBVIOUS
<1>2. CASE c = <<>>
  <2>1. SuffixPrefixOverlap(p, c) = 0 /\ Least(Len(p), Len(c)) = 0
    BY <1>1, <1>2 DEF SuffixPrefixOverlap, Least
  <2> QED BY <1>1, <2>1 DEF IsLongest, Match
<1>3. CASE c # <<>>
  BY <1>3, ScanIsLongest
<1> QED BY <1>2, <1>3

\* What is skipped as a copy is exactly what the logs have in common: the scan
\* finds the longest end of the one before that the next begins with
\* ("Returns the exact longest suffix/prefix match in linear time").
THEOREM OverlapsAreLongest == Spec => []OverlapIsLongest
<1>1. Init => PreviousStands
  BY DEF Init, PreviousStands
<1>2. IInv /\ PreviousStands => OverlapIsLongest
  <2> SUFFICES ASSUME IInv, PreviousStands, Running
               PROVE  LET cur == Keys(logs[i])
                          shorter == Least(Len(previous), Len(cur))
                          Same(n) == \A k \in 1..n : previous[Len(previous) - n + k].key = cur[k].key
                          n == SuffixPrefixOverlap(previous, cur)
                      IN  n \in 0..shorter /\ Same(n) /\ \A k \in (n + 1)..shorter : ~Same(k)
    BY DEF OverlapIsLongest
  <2> DEFINE cur == Keys(logs[i])
             shorter == Least(Len(previous), Len(cur))
             n == SuffixPrefixOverlap(previous, cur)
  <2>1. logs[i] \in Log
    BY DEF IInv, InputStands, Running
  <2>2. cur \in Seq(KeyType) /\ previous \in Seq(KeyType)
    BY <2>1, KeysType DEF PreviousStands
  <2>3. Len(previous) \in Nat /\ Len(cur) \in Nat /\ (cur # <<>> => Len(cur) # 0)
    <3> HIDE DEF cur
    <3> QED BY <2>2
  <2>4. shorter \in 0..Len(previous)
    <3> HIDE DEF cur
    <3> QED BY <2>3 DEF Least
  <2>5. IsLongest(previous, cur, Len(previous), shorter, n)
    <3> HIDE DEF cur
    <3> QED BY <2>2, OverlapLongest
  <2> HIDE DEF n, shorter, cur
  <2>6. n \in 0..shorter /\ \A k \in 1..n : previous[Len(previous) - n + k].key = cur[k].key
    BY <2>5 DEF IsLongest, Match
  <2>7. ASSUME NEW k \in (n + 1)..shorter,
               \A m \in 1..k : previous[Len(previous) - k + m].key = cur[m].key
        PROVE  FALSE
    <3>1. k \in 0..shorter /\ k <= Len(previous) /\ ~(k <= n)
      BY <2>3, <2>4, <2>6
    <3>2. Match(previous, cur, Len(previous), k)
      BY <2>7, <3>1 DEF Match
    <3> QED BY <2>5, <3>1, <3>2 DEF IsLongest
  <2> QED BY <2>6, <2>7 DEF n, shorter, cur
<1> QED BY <1>1, <1>2, PreviousStep, InvariantHolds, PTL DEF Spec

CountsStand == copied \in Nat /\ keyed \in Nat

LEMMA CountsStep == IInv /\ PreviousStands /\ CountsStand /\ [Next]_vars => CountsStand'
<1> SUFFICES ASSUME IInv, PreviousStands, CountsStand, [Next]_vars
             PROVE  CountsStand'
  OBVIOUS
<1>1. CASE OpenLog
  <2> DEFINE cur == Keys(logs[i])
             n == SuffixPrefixOverlap(previous, cur)
  <2>1. logs[i] \in Log
    BY <1>1 DEF IInv, InputStands, OpenLog, Running
  <2>2. cur \in Seq(KeyType) /\ previous \in Seq(KeyType)
    BY <2>1, KeysType DEF PreviousStands
  <2>3. n \in Nat
    <3> HIDE DEF cur
    <3>1. IsLongest(previous, cur, Len(previous), Least(Len(previous), Len(cur)), n)
      BY <2>2, OverlapLongest
    <3> QED BY <3>1 DEF IsLongest
  <2>4. copied' \in {n, 0} /\ keyed' = 0
    <3>1. copied' = CopiedPrefix(previous, cur) /\ keyed' = 0
      BY <1>1 DEF OpenLog
    <3> QED BY <3>1 DEF CopiedPrefix
  <2> HIDE DEF n
  <2> QED BY <2>3, <2>4 DEF CountsStand
<1>2. CASE UNCHANGED copied /\ keyed' \in {keyed, keyed + 1}
  BY <1>2 DEF CountsStand
<1> QED BY <1>1, <1>2 DEF Next, vars, SkipLog, CloseLog, SkipCopy, StartUndated, StartAgain, Start,
                          Version, Activity, Disconnect, Stopping, End, FinishTail, NextEvent, Counted

\* Every variable has its type: the log and the event looked at are of the
\* input, what is built is a builder, and what is finished is a session.
THEOREM TypeCorrect == Spec => []TypeOK
<1>1. Init => PreviousStands /\ CountsStand
  BY DEF Init, PreviousStands, CountsStand
<1>2. IInv /\ CountsStand => TypeOK
  <2> SUFFICES ASSUME IInv, CountsStand
               PROVE  TypeOK
    OBVIOUS
  <2>1. active \in Builder \cup {None}
    BY DEF IInv, SessionsStand, Forward
  <2>2. ASSUME NEW k \in DOMAIN sessions
        PROVE  /\ sessions[k].boundary \in DOMAIN Exits
               /\ sessions[k].score \in 0..100
               /\ sessions[k].links \in SUBSET Positions
    <3>1. sessions[k] \in Session
      BY <2>2 DEF IInv, SessionsStand
    <3> QED BY <3>1 DEF Session, Exits, Boundaries, Observed
  <2> QED BY <2>1, <2>2 DEF TypeOK, IInv, InputStands, CountsStand
<1> QED BY <1>1, <1>2, CountsStep, PreviousStep, InvariantHolds, PTL DEF Spec

-----------------------------------------------------------------------------
(***************************************************************************)
(* Launches are told once.                                                 *)
(*                                                                         *)
(* Of what known launches wrote, what has been read tells the launches so  *)
(* far: a finished session for each that is over, and a builder that tells *)
(* the one that is going on.  An event is either passed over as a copy of  *)
(* one that was told, or is the next of its launch, or opens the next      *)
(* launch when all of the last one has been read.                          *)
(***************************************************************************)

\* The places told anew that are before a line of a log.
Passed(n, x, y) == {p \in Fresh(n) : p[1] < x \/ (p[1] = x /\ p[2] < y)}
\* The places among them at which a launch wrote.
Of(n, P, l) == {p \in P : n.by[p] = l}

\* A builder tells what a launch wrote at these places: its start is that of the
\* launch, its last instant the latest, its hint the latest modification of a log
\* of these, its word of stopping the first.
Builds(n, P, b, l) ==
    /\ \E f \in Of(n, P, l) : Opens(n, f) /\ b.source = f[1] /\ b.start = Happened(n, f).at
    /\ \E p \in Of(n, P, l) : Happened(n, p).at = b.last
    /\ \A p \in Of(n, P, l) : Happened(n, p).at <= b.last /\ Happened(n, p).tag \notin Ends
    /\ IF b.stop = None THEN \A p \in Of(n, P, l) : Happened(n, p).tag # "stopping"
       ELSE /\ \E p \in Of(n, P, l) : Happened(n, p).tag = "stopping" /\ Happened(n, p).at = b.stop
            /\ \A p \in Of(n, P, l) : Happened(n, p).tag = "stopping" => b.stop <= Happened(n, p).at
    /\ IF b.hint = None THEN \A p \in Of(n, P, l) : n.logs[p[1]].end = None
       ELSE /\ \E p \in Of(n, P, l) : n.logs[p[1]].end = b.hint
            /\ \A p \in Of(n, P, l) : n.logs[p[1]].end # None => n.logs[p[1]].end <= b.hint

\* The number of launches told so far.
Begun(ss, b) == Len(ss) + (IF b = None THEN 0 ELSE 1)

\* Each finished session has the bounds of the launch of its number.
ToldAs(n, ss) ==
    \A k \in DOMAIN ss : /\ k \in DOMAIN n.launches
                         /\ ss[k].start = n.launches[k][1] /\ ss[k].end = n.launches[k][2]

\* What was read is of the launches told so far; the one that is built is going
\* on, and when none is built the last one was seen to end.
HistoryStands(n, P, ss, b) ==
    LET l == Begun(ss, b) IN
    /\ \A p \in P : n.by[p] <= l
    /\ l # 0 => Of(n, P, l) # {}
    /\ ToldAs(n, ss)
    /\ IF b # None THEN Builds(n, P, b, l)
       ELSE l # 0 => \E p \in Of(n, P, l) : Happened(n, p).tag \in Ends

\* The contents read are those of the logs so far; the keys kept are those of the
\* log that the one at hand follows; lines of a log that is a copy are not taken.
ReadingStands ==
    /\ seen = {logs[b].content : b \in 1..(IF j = 0 THEN i - 1 ELSE i)}
    /\ \A b \in 1..(i - 1) : LogBefore(input, b, i) => previous = Keys(logs[b])
    /\ previous # <<>> => \E b \in 1..(i - 1) : LogBefore(input, b, i)
    /\ j # 0 => /\ Running /\ Original(input, i)
                /\ copied = input.copies[i] /\ keyed = j - 1

\* What is told of the launches so far, or of all of them at the end.
TruthStands ==
    input.launches # None =>
        /\ Truthful(input) /\ ReadingStands
        /\ \/ HistoryStands(input, Passed(input, i, j), sessions, active)
           \/ Done /\ Len(sessions) = Len(input.launches) /\ ToldAs(input, sessions)

-----------------------------------------------------------------------------
\* Where something is told anew, there is an event with an instant, of a launch.
LEMMA FreshType ==
  ASSUME NEW n, n.logs \in Seq(Log), Truthful(n), NEW p \in Fresh(n)
  PROVE  /\ p[1] \in DOMAIN n.logs /\ p[1] \in Nat \ {0} /\ Original(n, p[1])
         /\ n.copies[p[1]] \in Nat /\ Len(n.logs[p[1]].evidence) \in Nat
         /\ p[2] \in (n.copies[p[1]] + 1)..Len(n.logs[p[1]].evidence) /\ p[2] \in Nat \ {0}
         /\ p = <<p[1], p[2]>>
         /\ Happened(n, p) \in Evidence /\ Happened(n, p).at \in Int
         /\ n.logs[p[1]].end \in Int \cup {None}
         /\ n.by[p] \in DOMAIN n.launches /\ n.by[p] \in Nat \ {0}
         /\ Len(n.launches) \in Nat /\ n.by[p] <= Len(n.launches)
<1>1. PICK a \in DOMAIN n.logs : Original(n, a)
                                 /\ p \in {a} \X ((n.copies[a] + 1)..Len(n.logs[a].evidence))
  BY DEF Fresh
<1>2. p[1] = a /\ p[2] \in (n.copies[a] + 1)..Len(n.logs[a].evidence) /\ p = <<p[1], p[2]>>
  BY <1>1
<1>3. a \in Nat \ {0} /\ n.logs[a] \in Log /\ n.copies[a] \in Nat
  BY <1>1 DEF Truthful
<1>4. Len(n.logs[a].evidence) \in Nat /\ n.logs[a].end \in Int \cup {None}
  BY <1>3 DEF Log
<1>5. p[2] \in Nat \ {0} /\ p[2] \in DOMAIN n.logs[a].evidence
  <2>1. DOMAIN n.logs[a].evidence = 1..Len(n.logs[a].evidence)
    BY <1>3 DEF Log
  <2> QED BY <1>2, <1>3, <1>4, <2>1
<1>6. Happened(n, p) \in Evidence /\ Happened(n, p).at # None
  <2>1. n.logs[a].evidence[p[2]] \in Evidence
    BY <1>3, <1>5 DEF Log
  <2> QED BY <1>1, <1>2, <1>5, <2>1 DEF Happened, Truthful
<1>7. Happened(n, p).at \in Int
  BY <1>6 DEF Evidence
<1>8. n.by[p] \in DOMAIN n.launches /\ n.launches \in Seq(Int \X Int)
  BY DEF Truthful
<1>9. DOMAIN n.launches = 1..Len(n.launches) /\ Len(n.launches) \in Nat
  BY <1>8
<1>10. n.by[p] \in Nat \ {0} /\ n.by[p] <= Len(n.launches)
  BY <1>8, <1>9
<1> QED BY <1>1, <1>2, <1>3, <1>4, <1>5, <1>6, <1>7, <1>8, <1>9, <1>10

\* A line of a log that is not copied is a place where something is told anew.
LEMMA FreshFound ==
  ASSUME NEW n, NEW a \in DOMAIN n.logs, Original(n, a),
         NEW k \in (n.copies[a] + 1)..Len(n.logs[a].evidence)
  PROVE  <<a, k>> \in Fresh(n)
BY DEF Fresh

\* Places are in line.
LEMMA EarlierOrders ==
  ASSUME NEW n, n.logs \in Seq(Log), Truthful(n)
  PROVE  /\ \A p, q \in Fresh(n) : p = q \/ Earlier(p, q) \/ Earlier(q, p)
         /\ \A p, q \in Fresh(n) : Earlier(p, q) => ~Earlier(q, p) /\ p # q
<1> SUFFICES ASSUME NEW p \in Fresh(n), NEW q \in Fresh(n)
             PROVE  /\ p = q \/ Earlier(p, q) \/ Earlier(q, p)
                    /\ Earlier(p, q) => ~Earlier(q, p) /\ p # q
  OBVIOUS
<1>1. p = <<p[1], p[2]>> /\ p[1] \in Nat /\ p[2] \in Nat /\ q = <<q[1], q[2]>> /\ q[1] \in Nat /\ q[2] \in Nat
  BY FreshType
<1> QED BY <1>1 DEF Earlier

\* What the turns of launches say of two places.
LEMMA Turns ==
  ASSUME NEW n, n.logs \in Seq(Log), Truthful(n)
  PROVE  /\ \A p, q \in Fresh(n) : Earlier(p, q) =>
              /\ n.by[p] <= n.by[q] /\ Happened(n, p).at <= Happened(n, q).at
              /\ n.by[p] = n.by[q] /\ Happened(n, p).tag \in Leaving =>
                    Happened(n, q).tag \notin {"start"} \cup Activities
         /\ \A p \in Fresh(n) : n.logs[p[1]].end # None => Happened(n, p).at <= n.logs[p[1]].end
BY DEF Truthful, LaunchesTakeTurns

\* The place that is read next: what was read is before it, what was not is not.
IsNext(n, P, p) ==
    /\ P \subseteq Fresh(n) /\ p \in Fresh(n) \ P
    /\ \A q \in P : Earlier(q, p)
    /\ \A q \in Fresh(n) \ P : q = p \/ Earlier(p, q)

\* The event that is read next goes on with the launch, or opens the next one
\* when all of the launch has been read.
LEMMA NextTurn ==
  ASSUME NEW n, n.logs \in Seq(Log), Truthful(n), NEW P, NEW p, IsNext(n, P, p),
         NEW ss, NEW b, Len(ss) \in Nat, HistoryStands(n, P, ss, b)
  PROVE  LET l == Begun(ss, b) IN
         /\ l \in Nat
         /\ \/ l # 0 /\ n.by[p] = l
            \/ /\ n.by[p] = l + 1 /\ Opens(n, p)
               /\ l # 0 => l \in DOMAIN n.launches /\ Of(n, P, l) = Wrote(n, l)
<1> DEFINE l == Begun(ss, b)
<1>1. l \in Nat
  BY DEF Begun
<1>2. /\ P \subseteq Fresh(n) /\ p \in Fresh(n) \ P
      /\ \A q \in P : Earlier(q, p) /\ n.by[q] <= l
      /\ \A q \in Fresh(n) \ P : q = p \/ Earlier(p, q)
  BY DEF IsNext, HistoryStands
<1>3. \A q \in Fresh(n) : n.by[q] \in Nat \ {0} /\ n.by[q] \in DOMAIN n.launches
  BY FreshType
<1>4. \A q \in P : n.by[q] <= n.by[p]
  BY <1>2, Turns
<1>5. l # 0 => \E q \in P : n.by[q] = l
  BY DEF HistoryStands, Of
<1> HIDE DEF l
<1>6. l <= n.by[p]
  BY <1>1, <1>2, <1>3, <1>4, <1>5
<1>7. CASE n.by[p] = l
  BY <1>1, <1>2, <1>3, <1>7 DEF l
<1>8. CASE n.by[p] # l
  <2>1. l + 1 <= n.by[p]
    BY <1>1, <1>2, <1>3, <1>6, <1>8
  <2>2. l + 1 \in DOMAIN n.launches
    <3>1. n.by[p] <= Len(n.launches) /\ Len(n.launches) \in Nat
      BY <1>2, FreshType
    <3>2. DOMAIN n.launches = 1..Len(n.launches)
      BY DEF Truthful
    <3> QED BY <1>1, <1>2, <1>3, <2>1, <3>1, <3>2
  <2>3. PICK q \in Fresh(n) : n.by[q] = l + 1
    BY <2>2 DEF Truthful, Wrote
  <2>4. q \notin P
    BY <1>1, <1>2, <2>3
  <2>5. n.by[p] <= n.by[q]
    BY <1>2, <1>3, <2>4, Turns
  <2>6. n.by[p] = l + 1
    BY <1>1, <1>2, <1>3, <2>1, <2>3, <2>5
  <2>7. Opens(n, p)
    <3>1. \A r \in Wrote(n, n.by[p]) : r \notin P /\ r \in Fresh(n)
      BY <1>1, <1>2, <2>6 DEF Wrote
    <3> QED BY <1>2, <3>1 DEF Opens
  <2>8. l # 0 => Of(n, P, l) = Wrote(n, l)
    <3>1. \A r \in Fresh(n) : n.by[r] = l => r \in P
      <4> SUFFICES ASSUME NEW r \in Fresh(n), n.by[r] = l, r \notin P
                   PROVE  FALSE
        OBVIOUS
      <4>1. n.by[p] <= n.by[r]
        BY <1>2, <1>3, Turns
      <4> QED BY <1>1, <2>6, <4>1
    <3> QED BY <1>2, <3>1 DEF Of, Wrote
  <2>9. l # 0 => l \in DOMAIN n.launches
    BY <1>2, <1>3, <1>5
  <2> QED BY <1>1, <2>6, <2>7, <2>8, <2>9 DEF l
<1> QED BY <1>7, <1>8

\* What an event adds to the session being built: its instant, when its log was
\* modified, and whether it is the first word of stopping.
Noted(b, c, e, h) ==
    /\ c.start = b.start /\ c.source = b.source
    /\ c.last = IF e.at >= b.last THEN e.at ELSE b.last
    /\ c.hint = IF h # None /\ (b.hint = None \/ h > b.hint) THEN h ELSE b.hint
    /\ c.stop = IF e.tag = "stopping" /\ b.stop = None THEN e.at ELSE b.stop

\* A builder with instants.
Timed(b) ==
    /\ b.start \in Int /\ b.last \in Int /\ b.last >= b.start
    /\ b.stop \in Int \cup {None} /\ b.hint \in Int \cup {None}

\* A builder that notes the event goes on to tell its launch.
LEMMA BuildsOn ==
  ASSUME NEW n, n.logs \in Seq(Log), Truthful(n), NEW P, NEW p, IsNext(n, P, p), NEW l, n.by[p] = l,
         NEW b, Timed(b), Builds(n, P, b, l),
         NEW c, Noted(b, c, Happened(n, p), n.logs[p[1]].end), Happened(n, p).tag \notin Ends
  PROVE  Builds(n, P \cup {p}, c, l)
<1> DEFINE Q == Of(n, P, l)
           e == Happened(n, p)
           h == n.logs[p[1]].end
<1>1. Of(n, P \cup {p}, l) = Q \cup {p} /\ p \in Fresh(n) /\ Q \subseteq Fresh(n)
  BY DEF IsNext, Of
<1>2. /\ \A q \in Fresh(n) : Happened(n, q).at \in Int /\ n.logs[q[1]].end \in Int \cup {None}
      /\ \A q \in Q \cup {p} : Happened(n, q).at \in Int /\ n.logs[q[1]].end \in Int \cup {None}
  BY <1>1, FreshType
<1>3. e.at \in Int /\ h \in Int \cup {None} /\ e.tag \notin Ends
  BY <1>1, <1>2
<1>4. /\ c.start = b.start /\ c.source = b.source
      /\ c.last = IF e.at >= b.last THEN e.at ELSE b.last
      /\ c.hint = IF h # None /\ (b.hint = None \/ h > b.hint) THEN h ELSE b.hint
      /\ c.stop = IF e.tag = "stopping" /\ b.stop = None THEN e.at ELSE b.stop
  BY DEF Noted
<1>5. \E f \in Q \cup {p} : Opens(n, f) /\ c.source = f[1] /\ c.start = Happened(n, f).at
  BY <1>4 DEF Builds
<1>6. /\ \E q \in Q \cup {p} : Happened(n, q).at = c.last
      /\ \A q \in Q \cup {p} : Happened(n, q).at <= c.last /\ Happened(n, q).tag \notin Ends
  <2>1. /\ \E q \in Q : Happened(n, q).at = b.last
        /\ \A q \in Q : Happened(n, q).at <= b.last /\ Happened(n, q).tag \notin Ends
    BY DEF Builds
  <2>2. b.last \in Int /\ b.last <= c.last /\ e.at <= c.last /\ c.last \in Int /\ c.last \in {b.last, e.at}
    BY <1>3, <1>4 DEF Timed
  <2>3. \E q \in Q \cup {p} : Happened(n, q).at = c.last
    BY <2>1, <2>2
  <2>4. \A q \in Q : Happened(n, q).at <= c.last
    BY <1>2, <2>1, <2>2
  <2> QED BY <1>3, <2>1, <2>2, <2>3, <2>4
<1>7. IF c.stop = None THEN \A q \in Q \cup {p} : Happened(n, q).tag # "stopping"
      ELSE /\ \E q \in Q \cup {p} : Happened(n, q).tag = "stopping" /\ Happened(n, q).at = c.stop
           /\ \A q \in Q \cup {p} : Happened(n, q).tag = "stopping" => c.stop <= Happened(n, q).at
  <2>1. IF b.stop = None THEN \A q \in Q : Happened(n, q).tag # "stopping"
        ELSE /\ \E q \in Q : Happened(n, q).tag = "stopping" /\ Happened(n, q).at = b.stop
             /\ \A q \in Q : Happened(n, q).tag = "stopping" => b.stop <= Happened(n, q).at
    BY DEF Builds
  <2>2. \A q \in Q : Happened(n, q).at <= e.at
    <3>1. \A q \in Q : q \in Fresh(n) /\ Earlier(q, p)
      BY DEF IsNext, Of
    <3>2. \A q \in Fresh(n) : Earlier(q, p) => Happened(n, q).at <= Happened(n, p).at
      BY <1>1, Turns
    <3> QED BY <3>1, <3>2
  <2>3. CASE b.stop = None
    BY <1>3, <1>4, <2>1, <2>3
  <2>4. CASE b.stop # None
    <3>1. c.stop = b.stop /\ b.stop \in Int
      BY <1>4, <2>4 DEF Timed
    <3>2. b.stop <= e.at
      BY <1>2, <1>3, <2>1, <2>2, <2>4, <3>1
    <3> QED BY <2>1, <2>4, <3>1, <3>2
  <2> QED BY <2>3, <2>4
<1>8. IF c.hint = None THEN \A q \in Q \cup {p} : n.logs[q[1]].end = None
      ELSE /\ \E q \in Q \cup {p} : n.logs[q[1]].end = c.hint
           /\ \A q \in Q \cup {p} : n.logs[q[1]].end # None => n.logs[q[1]].end <= c.hint
  <2>1. IF b.hint = None THEN \A q \in Q : n.logs[q[1]].end = None
        ELSE /\ \E q \in Q : n.logs[q[1]].end = b.hint
             /\ \A q \in Q : n.logs[q[1]].end # None => n.logs[q[1]].end <= b.hint
    BY DEF Builds
  <2>2. CASE b.hint = None
    <3>1. c.hint = h
      BY <1>4, <2>2
    <3> QED BY <1>3, <2>1, <2>2, <3>1
  <2>3. CASE b.hint # None
    <3>1. b.hint \in Int /\ c.hint \in {b.hint, h} /\ c.hint \in Int /\ b.hint <= c.hint
          /\ (h # None => h <= c.hint)
      BY <1>3, <1>4, <2>3 DEF Timed
    <3>2. \A q \in Q : n.logs[q[1]].end # None => n.logs[q[1]].end <= c.hint
      <4> SUFFICES ASSUME NEW q \in Q, n.logs[q[1]].end # None
                   PROVE  n.logs[q[1]].end <= c.hint
        OBVIOUS
      <4>1. n.logs[q[1]].end \in Int
        BY <1>2
      <4>2. n.logs[q[1]].end <= b.hint
        BY <2>1, <2>3
      <4> HIDE DEF Q, h
      <4> QED BY <3>1, <4>1, <4>2
    <3>3. c.hint # None
      BY <3>1
    <3>4. \E q \in Q \cup {p} : n.logs[q[1]].end = c.hint
      BY <2>1, <2>3, <3>1
    <3> QED BY <3>1, <3>2, <3>3, <3>4
  <2> QED BY <2>2, <2>3
<1> HIDE DEF Q, e, h
<1> QED BY <1>1, <1>5, <1>6, <1>7, <1>8 DEF Builds

\* A builder made of the event that opens a launch tells it.
LEMMA BuildsAnew ==
  ASSUME NEW n, n.logs \in Seq(Log), Truthful(n), NEW P, NEW p, p \in Fresh(n), NEW l, n.by[p] = l,
         \A q \in P : n.by[q] # l, Opens(n, p),
         NEW c, c.start = Happened(n, p).at, c.last = Happened(n, p).at, c.stop = None,
         c.hint = n.logs[p[1]].end, c.source = p[1]
  PROVE  Builds(n, P \cup {p}, c, l) /\ Happened(n, p).tag = "start"
<1>1. Of(n, P \cup {p}, l) = {p}
  BY DEF Of
<1>2. Happened(n, p).at \in Int /\ n.logs[p[1]].end \in Int \cup {None}
  BY FreshType
<1>3. Happened(n, p).tag = "start"
  BY DEF Truthful, BootsAreApart
<1>4. /\ \E f \in {p} : Opens(n, f) /\ c.source = f[1] /\ c.start = Happened(n, f).at
      /\ \E q \in {p} : Happened(n, q).at = c.last
      /\ \A q \in {p} : Happened(n, q).at <= c.last /\ Happened(n, q).tag \notin Ends
      /\ \A q \in {p} : Happened(n, q).tag # "stopping"
  BY <1>2, <1>3 DEF Ends
<1>5. IF c.hint = None THEN \A q \in {p} : n.logs[q[1]].end = None
      ELSE /\ \E q \in {p} : n.logs[q[1]].end = c.hint
           /\ \A q \in {p} : n.logs[q[1]].end # None => n.logs[q[1]].end <= c.hint
  BY <1>2
<1> QED BY <1>1, <1>3, <1>4, <1>5 DEF Builds

\* A builder begins when its launch did.
LEMMA BuildsFromStart ==
  ASSUME NEW n, n.logs \in Seq(Log), Truthful(n), NEW P, P \subseteq Fresh(n), NEW b, NEW l,
         Builds(n, P, b, l)
  PROVE  /\ b.start = n.launches[l][1]
         /\ \A q \in Fresh(n) : n.by[q] = l => b.start <= Happened(n, q).at
<1>1. PICK f \in Of(n, P, l) : Opens(n, f) /\ b.start = Happened(n, f).at
  BY DEF Builds
<1>2. f \in Fresh(n) /\ n.by[f] = l
  BY DEF Of
<1>3. b.start = n.launches[l][1]
  BY <1>1, <1>2 DEF Truthful, BootsAreApart
<1>4. \A q \in Fresh(n) : n.by[q] = l => q = f \/ Earlier(f, q)
  BY <1>1, <1>2 DEF Opens, Wrote
<1>5. Happened(n, f).at \in Int
  BY <1>2, FreshType
<1>6. \A q \in Fresh(n) : Earlier(f, q) => Happened(n, f).at <= Happened(n, q).at
  BY <1>2, Turns
<1>7. Happened(n, f).at <= Happened(n, f).at
  BY <1>5
<1>8. \A q \in Fresh(n) : n.by[q] = l => b.start <= Happened(n, q).at
  BY <1>1, <1>4, <1>6, <1>7
<1> QED BY <1>3, <1>8

\* A launch that boots again or plays has not begun to leave, and boots again
\* soon and in the log that it began in.
LEMMA StillBuilds ==
  ASSUME NEW n, n.logs \in Seq(Log), Truthful(n), NEW P, NEW p, IsNext(n, P, p),
         NEW ss, NEW b, Len(ss) \in Nat, HistoryStands(n, P, ss, b), b # None => Timed(b),
         Begun(ss, b) # 0, n.by[p] = Begun(ss, b), Happened(n, p).tag \in {"start"} \cup Activities
  PROVE  /\ b # None /\ b.stop = None
         /\ Happened(n, p).tag = "start" =>
               b.source = p[1] /\ Seconds(b.start, Happened(n, p).at) \in 0..MergeWindow
<1> DEFINE l == Begun(ss, b)
<1>1. \A q \in Of(n, P, l) : Happened(n, q).tag \notin Leaving
  <2> SUFFICES ASSUME NEW q \in Of(n, P, l), Happened(n, q).tag \in Leaving
               PROVE  FALSE
    OBVIOUS
  <2>1. q \in Fresh(n) /\ p \in Fresh(n) /\ Earlier(q, p) /\ n.by[q] = n.by[p]
    BY DEF Of, IsNext
  <2> QED BY <2>1, Turns
<1>2. b # None
  BY <1>1 DEF HistoryStands, Leaving
<1>3. Builds(n, P, b, l)
  BY <1>2 DEF HistoryStands
<1>4. b.stop = None
  BY <1>1, <1>3 DEF Builds, Leaving
<1>5. PICK f \in Of(n, P, l) : Opens(n, f) /\ b.source = f[1] /\ b.start = Happened(n, f).at
  BY <1>3 DEF Builds
<1>6. f \in Fresh(n) /\ n.by[f] = l /\ p \in Wrote(n, l)
  BY DEF Of, IsNext, Wrote
<1>7. ASSUME Happened(n, p).tag = "start"
      PROVE  b.source = p[1] /\ Seconds(b.start, Happened(n, p).at) \in 0..MergeWindow
  <2>1. p[1] = f[1] /\ Seconds(Happened(n, f).at, Happened(n, p).at) <= MergeWindow
    BY <1>5, <1>6, <1>7 DEF Truthful, BootsAreApart
  <2>2. b.start <= Happened(n, p).at
    BY <1>3, <1>6, BuildsFromStart DEF IsNext, Wrote
  <2>3. b.start \in Int /\ Happened(n, p).at \in Int
    BY <1>2, FreshType DEF IsNext, Timed
  <2>4. Seconds(b.start, Happened(n, p).at) \in Nat
    BY <2>2, <2>3, ElapsedForward
  <2> QED BY <1>5, <2>1, <2>4
<1> QED BY <1>2, <1>4, <1>7

\* The event that opens the next launch is not taken for one of this.
LEMMA BuildsNoMore ==
  ASSUME NEW n, n.logs \in Seq(Log), Truthful(n), NEW P, P \subseteq Fresh(n), NEW p \in Fresh(n),
         NEW b, NEW l, l \in Nat, Builds(n, P, b, l), Timed(b), Of(n, P, l) = Wrote(n, l),
         n.by[p] = l + 1, Opens(n, p)
  PROVE  ~(b.stop = None /\ b.source = p[1]
             /\ Seconds(b.start, Happened(n, p).at) \in 0..MergeWindow)
<1> SUFFICES ASSUME b.stop = None, b.source = p[1],
                    Seconds(b.start, Happened(n, p).at) \in 0..MergeWindow
             PROVE  FALSE
  OBVIOUS
<1>1. PICK f \in Of(n, P, l) : Opens(n, f) /\ b.source = f[1] /\ b.start = Happened(n, f).at
  BY DEF Builds
<1>2. f \in Fresh(n) /\ n.by[f] = l
  BY DEF Of
<1>3. \A q \in Wrote(n, l) : Happened(n, q).tag \notin Leaving
  BY DEF Builds, Leaving
<1>4. p \in Wrote(n, l + 1)
  BY DEF Wrote
<1>5. Happened(n, p).tag = "start"
  BY DEF Truthful, BootsAreApart
<1>6. ~(p[1] = f[1] /\ Seconds(Happened(n, f).at, Happened(n, p).at) <= MergeWindow)
  BY <1>1, <1>2, <1>3, <1>4 DEF Truthful, BootsAreApart
<1> QED BY <1>1, <1>6

\* The instants at which a launch wrote events of some kinds, seen from both sides.
LEMMA InstantsOf ==
  ASSUME NEW n, NEW l, NEW T, NEW p \in Wrote(n, l), Happened(n, p).tag \in T
  PROVE  Happened(n, p).at \in Instants(n, l, T)
BY DEF Instants

LEMMA InstantIsOf ==
  ASSUME NEW n, NEW l, NEW T, NEW t \in Instants(n, l, T)
  PROVE  \E p \in Wrote(n, l) : Happened(n, p).tag \in T /\ t = Happened(n, p).at
BY DEF Instants

\* When all of a launch has been read, what the builder tells of its end is
\* what is known of it.
LEMMA BuildsToEnd ==
  ASSUME NEW n, n.logs \in Seq(Log), Truthful(n), NEW P, P \subseteq Fresh(n),
         NEW l \in DOMAIN n.launches, NEW b, Timed(b), Builds(n, P, b, l), Of(n, P, l) = Wrote(n, l)
  PROVE  /\ b.stop # None => b.stop = n.launches[l][2] /\ b.start <= b.stop
         /\ b.stop = None /\ l # Len(n.launches) => b.last = n.launches[l][2]
         /\ b.stop = None /\ l = Len(n.launches) =>
               n.launches[l][2] = IF b.hint # None /\ Seconds(b.last, b.hint) \in 0..TailLimit
                                  THEN b.hint ELSE b.last
         /\ b.hint # None => b.start <= b.hint
<1> DEFINE end == n.launches[l][2]
           W == Wrote(n, l)
           all == Instants(n, l, Tags)
           stops == Instants(n, l, {"stopping"})
<1>1. \A q \in W : /\ q \in Fresh(n) /\ n.by[q] = l /\ Happened(n, q).tag \in Tags
                   /\ Happened(n, q).at \in Int /\ n.logs[q[1]].end \in Int \cup {None}
  <2>1. \A q \in W : q \in Fresh(n) /\ n.by[q] = l
    BY DEF Wrote
  <2> QED BY <2>1, FreshType DEF Evidence
<1>2. EndIsKnown(n, l, end) /\ end \in Int
  <2>1. n.launches \in Seq(Int \X Int) /\ EndIsKnown(n, l, end)
    BY DEF Truthful
  <2>2. n.launches[l] \in Int \X Int
    BY <2>1
  <2> QED BY <2>1, <2>2
<1>3. Instants(n, l, Ends) = {}
  <2>1. \A q \in W : Happened(n, q).tag \notin Ends
    BY DEF Builds
  <2> QED BY <2>1, InstantIsOf
<1>4. \A q \in W : b.start <= Happened(n, q).at
  BY <1>1, BuildsFromStart
<1>5. b.stop # None => b.stop = end /\ b.start <= b.stop
  <2> SUFFICES ASSUME b.stop # None
               PROVE  b.stop = end /\ b.start <= b.stop
    OBVIOUS
  <2>1. PICK q \in W : Happened(n, q).tag = "stopping" /\ Happened(n, q).at = b.stop
    BY DEF Builds
  <2>2. b.stop \in stops
    BY <2>1, InstantsOf
  <2>3. Earliest(end, stops)
    BY <1>2, <1>3, <2>2 DEF EndIsKnown
  <2>4. PICK r \in W : Happened(n, r).tag \in {"stopping"} /\ Happened(n, r).at = end
    BY <2>3, InstantIsOf DEF Earliest
  <2>5. b.stop <= end
    BY <2>4 DEF Builds
  <2>6. end <= b.stop
    BY <2>2, <2>3 DEF Earliest
  <2>7. b.stop \in Int
    BY <1>1, <2>1
  <2>8. b.stop = end
    BY <1>2, <2>5, <2>6, <2>7
  <2> QED BY <1>4, <2>1, <2>8
<1>6. b.hint # None => b.start <= b.hint
  <2> SUFFICES ASSUME b.hint # None
               PROVE  b.start <= b.hint
    OBVIOUS
  <2>1. PICK q \in W : n.logs[q[1]].end = b.hint
    BY DEF Builds
  <2>2. Happened(n, q).at <= b.hint
    BY <1>1, <2>1, Turns
  <2>3. b.start <= Happened(n, q).at /\ b.start \in Int /\ b.hint \in Int /\ Happened(n, q).at \in Int
    BY <1>1, <1>4 DEF Timed
  <2> QED BY <2>2, <2>3
<1>7. b.stop = None =>
         \E t \in all : /\ Latest(t, all)
                        /\ IF l = Len(n.launches) /\ Modified(n, l) # {}
                           THEN \E h \in Modified(n, l) :
                                   /\ Latest(h, Modified(n, l))
                                   /\ end = IF Seconds(t, h) \in 0..TailLimit THEN h ELSE t
                           ELSE end = t
  <2>1. b.stop = None => stops = {}
    <3>1. b.stop = None => \A q \in W : Happened(n, q).tag # "stopping"
      BY DEF Builds
    <3> QED BY <3>1, InstantIsOf
  <2> QED BY <1>2, <1>3, <2>1 DEF EndIsKnown
<1>8. \A t : Latest(t, all) => t = b.last
  <2> SUFFICES ASSUME NEW t, Latest(t, all)
               PROVE  t = b.last
    OBVIOUS
  <2>1. PICK q \in W : Happened(n, q).at = b.last
    BY DEF Builds
  <2>2. b.last \in all
    BY <1>1, <2>1, InstantsOf
  <2>3. PICK r \in W : Happened(n, r).at = t
    BY InstantIsOf DEF Latest
  <2>4. t <= b.last
    BY <2>3 DEF Builds
  <2>5. b.last <= t
    BY <2>2 DEF Latest
  <2>6. t \in Int /\ b.last \in Int
    BY <1>1, <2>1, <2>3
  <2> QED BY <2>4, <2>5, <2>6
<1>9. /\ \A h : Latest(h, Modified(n, l)) => b.hint # None /\ h = b.hint
      /\ Modified(n, l) = {} => b.hint = None
  <2>1. \A h \in Modified(n, l) : h # None /\ \E q \in W : n.logs[q[1]].end = h
    BY DEF Modified
  <2>2. \A q \in W : n.logs[q[1]].end # None => n.logs[q[1]].end \in Modified(n, l)
    BY DEF Modified
  <2>3. b.hint # None => b.hint \in Modified(n, l)
    BY <2>2 DEF Builds
  <2>4. ASSUME NEW h, Latest(h, Modified(n, l))
        PROVE  b.hint # None /\ h = b.hint
    <3>1. h \in Modified(n, l)
      BY <2>4 DEF Latest
    <3>2. PICK q \in W : n.logs[q[1]].end = h /\ h # None
      BY <2>1, <3>1
    <3>3. b.hint # None
      BY <3>2 DEF Builds
    <3>4. h <= b.hint
      BY <3>2, <3>3 DEF Builds
    <3>5. b.hint <= h
      BY <2>3, <2>4, <3>3 DEF Latest
    <3>6. h \in Int /\ b.hint \in Int
      BY <1>1, <3>2, <3>3 DEF Timed
    <3> QED BY <3>3, <3>4, <3>5, <3>6
  <2> QED BY <2>3, <2>4
<1> HIDE DEF end, W, all, stops
<1>10. b.stop = None /\ l # Len(n.launches) => b.last = end
  BY <1>7, <1>8
<1>11. b.stop = None /\ l = Len(n.launches) =>
          end = IF b.hint # None /\ Seconds(b.last, b.hint) \in 0..TailLimit THEN b.hint ELSE b.last
  <2> SUFFICES ASSUME b.stop = None, l = Len(n.launches)
               PROVE  end = IF b.hint # None /\ Seconds(b.last, b.hint) \in 0..TailLimit
                            THEN b.hint ELSE b.last
    OBVIOUS
  <2>1. CASE Modified(n, l) = {}
    <3>1. end = b.last
      BY <1>7, <1>8, <2>1
    <3> QED BY <1>9, <2>1, <3>1
  <2>2. CASE Modified(n, l) # {}
    <3>1. \E h : Latest(h, Modified(n, l)) /\ end = IF Seconds(b.last, h) \in 0..TailLimit
                                                    THEN h ELSE b.last
      BY <1>7, <1>8, <2>2
    <3> QED BY <1>9, <3>1
  <2> QED BY <2>1, <2>2
<1> QED BY <1>5, <1>6, <1>10, <1>11 DEF end

\* The event that ends a launch tells when.
LEMMA EndsWith ==
  ASSUME NEW n, n.logs \in Seq(Log), Truthful(n), NEW P, NEW p, IsNext(n, P, p),
         NEW l \in DOMAIN n.launches, n.by[p] = l, NEW b, Builds(n, P, b, l), Happened(n, p).tag \in Ends
  PROVE  Happened(n, p).at = n.launches[l][2] /\ b.start <= Happened(n, p).at
<1> DEFINE end == n.launches[l][2]
           ends == Instants(n, l, Ends)
<1>1. p \in Wrote(n, l) /\ Happened(n, p).at \in ends
  <2>1. p \in Wrote(n, l)
    BY DEF IsNext, Wrote
  <2> QED BY <2>1, InstantsOf
<1>2. Earliest(end, ends)
  <2>1. EndIsKnown(n, l, end)
    BY DEF Truthful
  <2> QED BY <1>1, <2>1 DEF EndIsKnown
<1>3. PICK q \in Wrote(n, l) : Happened(n, q).tag \in Ends /\ Happened(n, q).at = end
  BY <1>2, InstantIsOf DEF Earliest
<1>4. q \in Fresh(n) /\ p \in Fresh(n) /\ n.by[q] = l
  BY <1>1, <1>3 DEF Wrote
<1>5. q \notin P
  BY <1>3, <1>4 DEF Builds, Of
<1>6. q = p \/ Earlier(p, q)
  BY <1>4, <1>5 DEF IsNext
<1>7. Happened(n, p).at \in Int /\ Happened(n, q).at \in Int
  BY <1>4, FreshType
<1>8. end = Happened(n, p).at
  <2>1. CASE q = p
    BY <1>3, <2>1
  <2>2. CASE Earlier(p, q)
    <3>1. Happened(n, p).at <= Happened(n, q).at
      BY <1>4, <2>2, Turns
    <3>2. end <= Happened(n, p).at
      BY <1>1, <1>2 DEF Earliest
    <3> QED BY <1>3, <1>7, <3>1, <3>2
  <2> QED BY <1>6, <2>1, <2>2
<1>9. b.start <= Happened(n, p).at
  BY <1>4, BuildsFromStart DEF IsNext
<1> QED BY <1>8, <1>9

\* Of a log whose events all have an instant, each event has a key.
LEMMA KeysOfDated ==
  ASSUME NEW l \in Log, \A k \in DOMAIN l.evidence : l.evidence[k].at # None
  PROVE  /\ Len(Keys(l)) = Len(l.evidence)
         /\ \A k \in 1..Len(l.evidence) : Keys(l)[k] = KeyOf(l.evidence[k])
<1> DEFINE N == Len(l.evidence)
           e == l.evidence
<1>1. N \in Nat /\ e \in Seq(Evidence) /\ DOMAIN e = 1..N
  BY DEF Log
<1>2. PICK keys :
         /\ Keys(l) = keys[N] /\ keys[0] = <<>>
         /\ \A n \in 0..N : keys[n] \in Seq(KeyType)
         /\ \A n \in 1..N : keys[n] = IF e[n].at = None THEN keys[n - 1]
                                      ELSE Append(keys[n - 1], KeyOf(e[n]))
  BY KeysUnfold
<1>3. \A n \in 1..N : e[n].at # None
  BY <1>1
<1>4. \A n \in 1..N : KeyOf(e[n]) \in KeyType
  <2> SUFFICES ASSUME NEW n \in 1..N
               PROVE  KeyOf(e[n]) \in KeyType
    OBVIOUS
  <2>1. e[n] \in Evidence
    BY <1>1
  <2>2. e[n].tag \in Tags /\ e[n].name \in STRING \cup {None} /\ e[n].at \in Int /\ e[n].line \in Nat
    BY <1>3, <2>1 DEF Evidence
  <2> HIDE DEF e, N
  <2> QED BY <2>2 DEF KeyOf, KeyType
<1> DEFINE Good == {n \in 0..N : Len(keys[n]) = n /\ \A k \in 1..n : keys[n][k] = KeyOf(e[k])}
<1> HIDE DEF N, e
<1>5. 0 \in Good
  BY <1>1, <1>2
<1>6. \A n \in 1..N : n - 1 \in Good => n \in Good
  <2> SUFFICES ASSUME NEW n \in 1..N, n - 1 \in Good
               PROVE  n \in Good
    OBVIOUS
  <2>1. n - 1 \in 0..N /\ n \in 0..N /\ n \in Nat
    BY <1>1
  <2>2. /\ keys[n - 1] \in Seq(KeyType) /\ Len(keys[n - 1]) = n - 1
        /\ \A k \in 1..(n - 1) : keys[n - 1][k] = KeyOf(e[k])
    BY <1>2, <2>1
  <2>3. keys[n] = Append(keys[n - 1], KeyOf(e[n]))
    BY <1>2, <1>3
  <2> DEFINE s == keys[n - 1]
             x == KeyOf(e[n])
  <2>4. x \in KeyType
    BY <1>4
  <2> HIDE DEF s, x
  <2>5. s \in Seq(KeyType) /\ Len(s) = n - 1
    BY <2>2 DEF s
  <2>6. Len(Append(s, x)) = n /\ Append(s, x)[n] = x /\ \A k \in 1..(n - 1) : Append(s, x)[k] = s[k]
    BY <2>1, <2>4, <2>5
  <2>7. \A k \in 1..n : k = n \/ k \in 1..(n - 1)
    BY <2>1
  <2>8. keys[n] = Append(s, x) /\ \A k \in 1..(n - 1) : s[k] = KeyOf(e[k])
    BY <2>2, <2>3 DEF s, x
  <2>9. x = KeyOf(e[n])
    BY DEF x
  <2>10. Len(keys[n]) = n
    BY <2>6, <2>8
  <2>11. \A k \in 1..n : keys[n][k] = KeyOf(e[k])
    BY <2>6, <2>7, <2>8, <2>9
  <2> QED BY <2>1, <2>10, <2>11
<1>7. N \in Good
  <2> HIDE DEF Good
  <2> QED BY <1>1, <1>5, <1>6, CountingUp
<1> QED BY <1>2, <1>7 DEF N, e

\* What a log repeats of the one before it is what is skipped of it.
LEMMA CopiesAreFound ==
  ASSUME NEW n, n.logs \in Seq(Log), Truthful(n), NEW a \in DOMAIN n.logs, Original(n, a),
         NEW prev \in Seq(KeyType),
         \A b \in 1..(a - 1) : LogBefore(n, b, a) => prev = Keys(n.logs[b]),
         prev # <<>> => \E b \in 1..(a - 1) : LogBefore(n, b, a)
  PROVE  CopiedPrefix(prev, Keys(n.logs[a])) = n.copies[a]
<1> DEFINE new == n.logs[a].evidence
           cur == Keys(n.logs[a])
           c == n.copies[a]
           m == SuffixPrefixOverlap(prev, cur)
           lim == Least(Len(prev), Len(cur))
<1>1. /\ a \in Nat \ {0} /\ n.logs[a] \in Log /\ c \in Nat
      /\ \A b \in 1..(a - 1) : b \in DOMAIN n.logs /\ n.logs[b] \in Log
  <2>1. Len(n.logs) \in Nat /\ DOMAIN n.logs = 1..Len(n.logs)
    OBVIOUS
  <2>2. a \in Nat \ {0} /\ \A b \in 1..(a - 1) : b \in DOMAIN n.logs
    BY <2>1
  <2>3. \A b \in DOMAIN n.logs : n.logs[b] \in Log
    OBVIOUS
  <2> QED BY <2>2, <2>3 DEF Truthful
<1>2. cur \in Seq(KeyType)
  BY <1>1, KeysType
<1>3. /\ Len(cur) = Len(new) /\ \A k \in 1..Len(new) : cur[k] = KeyOf(new[k])
      /\ \A b \in 1..(a - 1) :
            /\ Len(Keys(n.logs[b])) = Len(n.logs[b].evidence)
            /\ \A k \in 1..Len(n.logs[b].evidence) : Keys(n.logs[b])[k] = KeyOf(n.logs[b].evidence[k])
  <2>1. \A b \in DOMAIN n.logs : \A k \in DOMAIN n.logs[b].evidence : n.logs[b].evidence[k].at # None
    BY DEF Truthful
  <2> QED BY <1>1, <2>1, KeysOfDated
<1>4. m \in 0..lim /\ Match(prev, cur, Len(prev), m)
      /\ \A k \in 0..lim : Match(prev, cur, Len(prev), k) => k <= m
  BY <1>2, OverlapLongest DEF IsLongest
<1>5. Len(prev) \in Nat /\ Len(cur) \in Nat /\ (prev = <<>> => Len(prev) = 0)
  <2> HIDE DEF cur
  <2> QED BY <1>2
<1>6. /\ lim \in Nat /\ lim <= Len(prev) /\ lim <= Len(cur)
      /\ \A k \in Nat : k <= Len(prev) /\ k <= Len(cur) => k \in 0..lim
  <2> HIDE DEF cur
  <2> QED BY <1>5 DEF Least
<1>7. /\ c # 0 => \E b \in {x \in 1..(a - 1) : LogBefore(n, x, a)} : Repeats(n.logs[b].evidence, new, c)
      /\ \A b \in {x \in 1..(a - 1) : LogBefore(n, x, a)} : \A k \in (c + 1)..Len(new) :
            ~SameEvent(new[k], n.logs[b].evidence[Len(n.logs[b].evidence)])
  BY DEF Truthful, CopiesAreTold
<1> HIDE DEF new, cur, c, m, lim
<1>8. \A e, f : SameEvent(e, f) <=> KeyOf(e).key = KeyOf(f).key
  BY DEF SameEvent, KeyOf
<1>9. m <= c
  <2> SUFFICES ASSUME ~(m <= c)
               PROVE  FALSE
    OBVIOUS
  <2>1. m \in Nat /\ m # 0 /\ m \in (c + 1)..Len(new) /\ m \in 1..Len(new) /\ m \in 1..m /\ m <= Len(prev)
    BY <1>1, <1>3, <1>4, <1>5, <1>6
  <2>2. PICK b \in 1..(a - 1) : LogBefore(n, b, a) /\ prev = Keys(n.logs[b])
    BY <1>5, <2>1
  <2>3. prev[Len(prev) - m + m].key = cur[m].key
    BY <1>4, <2>1 DEF Match
  <2>4. Len(prev) - m + m = Len(prev)
    BY <1>5, <2>1
  <2>5. Len(prev) = Len(n.logs[b].evidence) /\ Len(prev) \in 1..Len(prev)
    BY <1>3, <1>5, <2>1, <2>2
  <2>6. prev[Len(prev)] = KeyOf(n.logs[b].evidence[Len(n.logs[b].evidence)]) /\ cur[m] = KeyOf(new[m])
    BY <1>3, <2>1, <2>2, <2>5
  <2>7. SameEvent(new[m], n.logs[b].evidence[Len(n.logs[b].evidence)])
    BY <1>8, <2>3, <2>4, <2>6
  <2> QED BY <1>7, <2>1, <2>2, <2>7
<1>10. CASE c = 0
  <2>1. m = 0
    BY <1>4, <1>6, <1>9, <1>10
  <2>2. CopiedPrefix(prev, cur) = 0
    BY <2>1 DEF CopiedPrefix, MinPartialOverlap, m
  <2> QED BY <1>10, <2>2 DEF cur, c
<1>11. CASE c # 0
  <2>1. PICK b \in 1..(a - 1) : LogBefore(n, b, a) /\ Repeats(n.logs[b].evidence, new, c)
    BY <1>7, <1>11
  <2> DEFINE old == n.logs[b].evidence
             gap == Len(old) - c
  <2>2. /\ prev = Keys(n.logs[b]) /\ Len(prev) = Len(old)
        /\ \A k \in 1..Len(old) : prev[k] = KeyOf(old[k])
    BY <1>3, <2>1
  <2>3. /\ c >= MinPartialOverlap /\ c <= Len(old) /\ c <= Len(new)
        /\ \A k \in 1..c : SameEvent(old[gap + k], new[k])
        /\ \E k \in 1..(c - 1) : old[gap + k].line # old[gap + k + 1].line
        /\ \E k \in 1..(c - 1) : new[k].line # new[k + 1].line
    BY <2>1 DEF Repeats
  <2> HIDE DEF old
  <2>4. gap \in Nat /\ \A k \in 1..c : gap + k \in 1..Len(old) /\ k \in 1..Len(new)
    <3>1. Len(old) \in Nat /\ Len(new) \in Nat
      BY <1>3, <1>5, <2>2
    <3>2. c \in Nat /\ c <= Len(old) /\ c <= Len(new)
      BY <1>1, <2>3
    <3> QED BY <3>1, <3>2
  <2>5. \A k \in 1..c : prev[gap + k] = KeyOf(old[gap + k]) /\ cur[k] = KeyOf(new[k])
    BY <1>3, <2>2, <2>4
  <2>6. Match(prev, cur, Len(prev), c)
    <3>1. \A k \in 1..c : prev[Len(prev) - c + k].key = cur[k].key
      BY <1>8, <2>2, <2>3, <2>5
    <3> QED BY <2>2, <2>3, <3>1 DEF Match
  <2>7. m = c
    <3>1. c \in 0..lim
      BY <1>1, <1>3, <1>6, <2>2, <2>3
    <3>2. c <= m
      BY <1>4, <2>6, <3>1
    <3> QED BY <1>1, <1>4, <1>6, <1>9, <3>2
  <2> DEFINE s == SubSeq(prev, Len(prev) - c + 1, Len(prev))
             t == SubSeq(cur, 1, c)
  <2>8. Len(s) = c /\ \A k \in 1..c : s[k] = prev[gap + k]
    <3>1. Len(prev) - c + 1 \in Nat /\ Len(prev) - c + 1 >= 1 /\ Len(prev) - c + 1 = gap + 1
      BY <1>1, <1>5, <2>2, <2>3
    <3>2. c \in Nat /\ c <= Len(prev) /\ Len(prev) \in Nat /\ prev \in Seq(KeyType)
      BY <1>1, <1>5, <2>2, <2>3
    <3>3. Len(s) = c
      BY <3>2
    <3>4. \A k \in 1..c : s[k] = prev[Len(prev) - c + 1 + k - 1]
      BY <3>2
    <3>5. \A k \in 1..c : Len(prev) - c + 1 + k - 1 = gap + k
      BY <2>2, <3>2
    <3> QED BY <3>3, <3>4, <3>5
  <2>9. Len(t) = c /\ \A k \in 1..c : t[k] = cur[k]
    BY <1>1, <1>2, <1>3, <1>5, <2>3
  <2>10. \A k \in 1..(c - 1) : k \in 1..c /\ k + 1 \in 1..c /\ gap + (k + 1) = gap + k + 1
    BY <1>1, <2>4
  <2>11. \A e : KeyOf(e).line = e.line
    BY DEF KeyOf
  <2> HIDE DEF s, t, gap
  <2>12. SpansLines(s)
    <3>1. PICK k \in 1..(c - 1) : old[gap + k].line # old[gap + k + 1].line
      BY <2>3
    <3>2. s[k].line = old[gap + k].line /\ s[k + 1].line = old[gap + k + 1].line
      BY <2>5, <2>8, <2>10, <2>11
    <3> QED BY <2>8, <3>1, <3>2 DEF SpansLines
  <2>13. SpansLines(t)
    <3>1. PICK k \in 1..(c - 1) : new[k].line # new[k + 1].line
      BY <2>3
    <3>2. t[k].line = new[k].line /\ t[k + 1].line = new[k + 1].line
      BY <2>5, <2>9, <2>10, <2>11
    <3> QED BY <2>9, <3>1, <3>2 DEF SpansLines
  <2>14. CopiedPrefix(prev, cur) = c
    BY <2>3, <2>7, <2>12, <2>13 DEF CopiedPrefix, s, t, m
  <2> QED BY <2>14 DEF cur, c
<1> QED BY <1>10, <1>11

\* One more session told.
LEMMA ToldMore ==
  ASSUME NEW n, NEW S, NEW ss \in Seq(S), NEW s \in S, ToldAs(n, ss), Len(ss) + 1 \in DOMAIN n.launches,
         s.start = n.launches[Len(ss) + 1][1], s.end = n.launches[Len(ss) + 1][2]
  PROVE  ToldAs(n, Append(ss, s)) /\ Len(Append(ss, s)) = Len(ss) + 1 /\ Len(ss) \in Nat
<1>1. /\ DOMAIN Append(ss, s) = 1..(Len(ss) + 1) /\ Len(Append(ss, s)) = Len(ss) + 1
      /\ Len(ss) \in Nat /\ DOMAIN ss = 1..Len(ss)
      /\ Append(ss, s)[Len(ss) + 1] = s
      /\ \A k \in DOMAIN ss : Append(ss, s)[k] = ss[k]
  OBVIOUS
<1>2. \A k \in 1..(Len(ss) + 1) : k \in 1..Len(ss) \/ k = Len(ss) + 1
  BY <1>1
<1>3. ASSUME NEW k \in DOMAIN Append(ss, s)
      PROVE  /\ k \in DOMAIN n.launches
             /\ Append(ss, s)[k].start = n.launches[k][1] /\ Append(ss, s)[k].end = n.launches[k][2]
  <2>1. CASE k = Len(ss) + 1
    BY <1>1, <2>1
  <2>2. CASE k \in 1..Len(ss)
    BY <1>1, <2>2 DEF ToldAs
  <2> QED BY <1>1, <1>2, <2>1, <2>2
<1> QED BY <1>1, <1>3 DEF ToldAs

\* An event of a launch that has ended is passed over.
LEMMA HistoryPassesOver ==
  ASSUME NEW n, n.logs \in Seq(Log), Truthful(n), NEW P, NEW p, IsNext(n, P, p),
         NEW ss, Len(ss) \in Nat, HistoryStands(n, P, ss, None), n.by[p] = Begun(ss, None)
  PROVE  HistoryStands(n, P \cup {p}, ss, None)
<1> DEFINE l == Begun(ss, None)
<1>1. Of(n, P \cup {p}, l) = Of(n, P, l) \cup {p}
  <2>1. n.by[p] = l
    OBVIOUS
  <2> HIDE DEF l
  <2> QED BY <2>1 DEF Of
<1>2. l \in Nat /\ n.by[p] \in Nat /\ n.by[p] <= l
  BY DEF Begun
<1>3. \A q \in P \cup {p} : n.by[q] <= l
  BY <1>2 DEF HistoryStands
<1>4. ToldAs(n, ss) /\ (l # 0 => \E q \in Of(n, P, l) : Happened(n, q).tag \in Ends)
  BY DEF HistoryStands
<1> HIDE DEF l
<1>5. l # 0 => /\ Of(n, P \cup {p}, l) # {}
               /\ \E q \in Of(n, P \cup {p}, l) : Happened(n, q).tag \in Ends
  BY <1>1, <1>4
<1> QED BY <1>3, <1>4, <1>5 DEF HistoryStands, l

\* An event that the session being built notes.
LEMMA HistoryNotes ==
  ASSUME NEW n, n.logs \in Seq(Log), Truthful(n), NEW P, NEW p, IsNext(n, P, p),
         NEW ss, Len(ss) \in Nat, NEW b, b # None, Timed(b), HistoryStands(n, P, ss, b),
         n.by[p] = Begun(ss, b), Happened(n, p).tag \notin Ends,
         NEW c, c # None, Noted(b, c, Happened(n, p), n.logs[p[1]].end)
  PROVE  HistoryStands(n, P \cup {p}, ss, c)
<1> DEFINE l == Begun(ss, b)
<1>1. l = Begun(ss, c) /\ l \in Nat /\ n.by[p] <= l
  BY DEF Begun
<1>2. Of(n, P \cup {p}, l) = Of(n, P, l) \cup {p}
  <2>1. n.by[p] = l
    OBVIOUS
  <2> HIDE DEF l
  <2> QED BY <2>1 DEF Of
<1>3. (\A q \in P : n.by[q] <= l) /\ ToldAs(n, ss) /\ Builds(n, P, b, l)
  BY DEF HistoryStands
<1> HIDE DEF l
<1>4. Builds(n, P \cup {p}, c, l)
  BY <1>3, BuildsOn DEF l
<1>5. \A q \in P \cup {p} : n.by[q] <= l
  BY <1>1, <1>3
<1> QED BY <1>1, <1>2, <1>3, <1>4, <1>5 DEF HistoryStands

\* An event that ends the session being built.
LEMMA HistoryEnds ==
  ASSUME NEW n, n.logs \in Seq(Log), Truthful(n), NEW P, NEW p, IsNext(n, P, p),
         NEW ss \in Seq(Session), NEW b, b # None, Timed(b), HistoryStands(n, P, ss, b),
         n.by[p] = Begun(ss, b), Happened(n, p).tag \in Ends,
         NEW s \in Session, s.start = b.start,
         b.start <= Happened(n, p).at => s.end = Happened(n, p).at
  PROVE  HistoryStands(n, P \cup {p}, Append(ss, s), None)
<1> DEFINE l == Begun(ss, b)
<1>1. l = Len(ss) + 1 /\ Len(ss) \in Nat /\ l \in Nat /\ n.by[p] <= l /\ n.by[p] = l
  BY DEF Begun
<1>2. Of(n, P \cup {p}, l) = Of(n, P, l) \cup {p}
  <2>1. n.by[p] = l
    OBVIOUS
  <2> HIDE DEF l
  <2> QED BY <2>1 DEF Of
<1>3. (\A q \in P : n.by[q] <= l) /\ ToldAs(n, ss) /\ Builds(n, P, b, l)
  BY DEF HistoryStands
<1> HIDE DEF l
<1>4. l \in DOMAIN n.launches /\ P \subseteq Fresh(n)
  BY <1>1, FreshType DEF IsNext
<1>5. Happened(n, p).at = n.launches[l][2] /\ s.end = Happened(n, p).at
  BY <1>1, <1>3, <1>4, EndsWith
<1>6. s.start = n.launches[l][1]
  BY <1>3, <1>4, BuildsFromStart
<1>7. ToldAs(n, Append(ss, s)) /\ Len(Append(ss, s)) = l
  BY <1>1, <1>3, <1>4, <1>5, <1>6, ToldMore
<1>8. Begun(Append(ss, s), None) = l
  BY <1>1, <1>7 DEF Begun
<1>9. \A q \in P \cup {p} : n.by[q] <= l
  BY <1>1, <1>3
<1>10. p \in Of(n, P \cup {p}, l)
  BY <1>2
<1> QED BY <1>7, <1>8, <1>9, <1>10 DEF HistoryStands

\* An event that opens the first launch, or the next after one that ended.
LEMMA HistoryOpens ==
  ASSUME NEW n, n.logs \in Seq(Log), Truthful(n), NEW P, NEW p, IsNext(n, P, p),
         NEW ss, Len(ss) \in Nat, HistoryStands(n, P, ss, None),
         n.by[p] = Begun(ss, None) + 1, Opens(n, p),
         NEW c, c # None, c.start = Happened(n, p).at, c.last = Happened(n, p).at, c.stop = None,
         c.hint = n.logs[p[1]].end, c.source = p[1]
  PROVE  HistoryStands(n, P \cup {p}, ss, c)
<1> DEFINE l == Begun(ss, None)
<1>1. l = Len(ss) /\ l \in Nat /\ n.by[p] = l + 1 /\ Begun(ss, c) = l + 1
  BY DEF Begun
<1>2. (\A q \in P : n.by[q] <= l /\ n.by[q] \in Nat) /\ ToldAs(n, ss) /\ p \in Fresh(n)
  BY FreshType DEF HistoryStands, IsNext
<1> HIDE DEF l
<1>3. \A q \in P : n.by[q] # l + 1
  BY <1>1, <1>2
<1>4. Builds(n, P \cup {p}, c, l + 1)
  BY <1>1, <1>2, <1>3, BuildsAnew
<1>5. \A q \in P \cup {p} : n.by[q] <= l + 1
  BY <1>1, <1>2
<1>6. p \in Of(n, P \cup {p}, l + 1)
  BY <1>1 DEF Of
<1> QED BY <1>1, <1>2, <1>4, <1>5, <1>6 DEF HistoryStands

\* An event that opens the next launch and cuts this one short.
LEMMA HistoryCuts ==
  ASSUME NEW n, n.logs \in Seq(Log), Truthful(n), NEW P, NEW p, IsNext(n, P, p),
         NEW ss \in Seq(Session), NEW b, b # None, Timed(b), HistoryStands(n, P, ss, b),
         n.by[p] = Begun(ss, b) + 1, Opens(n, p), Begun(ss, b) \in DOMAIN n.launches,
         Of(n, P, Begun(ss, b)) = Wrote(n, Begun(ss, b)), CutShort(b) \in Session,
         NEW c, c # None, c.start = Happened(n, p).at, c.last = Happened(n, p).at, c.stop = None,
         c.hint = n.logs[p[1]].end, c.source = p[1]
  PROVE  HistoryStands(n, P \cup {p}, Append(ss, CutShort(b)), c)
<1> DEFINE l == Begun(ss, b)
           s == CutShort(b)
<1>1. l = Len(ss) + 1 /\ Len(ss) \in Nat /\ l \in Nat /\ n.by[p] = l + 1
  BY DEF Begun
<1>2. /\ \A q \in P : n.by[q] <= l /\ n.by[q] \in Nat
      /\ ToldAs(n, ss) /\ Builds(n, P, b, l) /\ p \in Fresh(n) /\ P \subseteq Fresh(n)
  BY FreshType DEF HistoryStands, IsNext
<1>3. l \in DOMAIN n.launches /\ Of(n, P, l) = Wrote(n, l) /\ s \in Session
  OBVIOUS
<1> HIDE DEF l
<1>4. l # Len(n.launches)
  <2>1. n.by[p] <= Len(n.launches) /\ Len(n.launches) \in Nat
    BY <1>2, FreshType
  <2> QED BY <1>1, <2>1
<1>5. s.start = n.launches[l][1]
  <2>1. s.start = b.start
    BY DEF CutShort, Finished
  <2> QED BY <1>2, <2>1, BuildsFromStart
<1>6. s.end = n.launches[l][2]
  <2>1. /\ b.stop # None => b.stop = n.launches[l][2] /\ b.start <= b.stop
        /\ b.stop = None => b.last = n.launches[l][2]
    BY <1>2, <1>3, <1>4, BuildsToEnd
  <2>2. b.start \in Int /\ b.last \in Int /\ b.last >= b.start /\ b.stop \in Int \cup {None}
    BY DEF Timed
  <2>3. ASSUME NEW t \in Int, NEW boundary, b.start <= t
        PROVE  Finished(b, t, boundary).end = t
    BY <2>2, <2>3 DEF Finished
  <2>4. CASE b.stop = None
    <3>1. s = Finished(b, b.last, "NextStart")
      BY <2>4 DEF CutShort
    <3> HIDE DEF s
    <3> QED BY <2>1, <2>2, <2>3, <2>4, <3>1
  <2>5. CASE b.stop # None
    <3>1. s = Finished(b, b.stop, "StopEnd")
      BY <2>5 DEF CutShort
    <3> HIDE DEF s
    <3> QED BY <2>1, <2>2, <2>3, <2>5, <3>1
  <2> QED BY <2>4, <2>5
<1> HIDE DEF s
<1>7. ToldAs(n, Append(ss, s)) /\ Len(Append(ss, s)) = l
  BY <1>1, <1>2, <1>3, <1>5, <1>6, ToldMore
<1>8. Begun(Append(ss, s), c) = l + 1
  BY <1>7 DEF Begun
<1>9. Builds(n, P \cup {p}, c, l + 1)
  <2>1. \A q \in P : n.by[q] # l + 1
    BY <1>1, <1>2
  <2> QED BY <1>1, <1>2, <2>1, BuildsAnew
<1>10. \A q \in P \cup {p} : n.by[q] <= l + 1
  BY <1>1, <1>2
<1>11. p \in Of(n, P \cup {p}, l + 1)
  BY <1>1 DEF Of
<1> QED BY <1>7, <1>8, <1>9, <1>10, <1>11 DEF HistoryStands, s

\* When everything has been read, every launch is told or being built.
LEMMA HistoryDone ==
  ASSUME NEW n, n.logs \in Seq(Log), Truthful(n), NEW ss \in Seq(Session), NEW b,
         HistoryStands(n, Fresh(n), ss, b)
  PROVE  /\ Begun(ss, b) = Len(n.launches) /\ Len(n.launches) \in Nat
         /\ b # None => Of(n, Fresh(n), Begun(ss, b)) = Wrote(n, Begun(ss, b))
<1>1. /\ Len(ss) \in Nat /\ Begun(ss, b) \in Nat
      /\ Len(n.launches) \in Nat /\ DOMAIN n.launches = 1..Len(n.launches)
  BY DEF Begun, Truthful
<1>2. Begun(ss, b) <= Len(n.launches)
  <2>1. Begun(ss, b) # 0 => \E p \in Fresh(n) : n.by[p] = Begun(ss, b)
    BY DEF HistoryStands, Of
  <2> QED BY <1>1, <2>1, FreshType
<1>3. Len(n.launches) <= Begun(ss, b)
  <2>1. Len(n.launches) # 0 => \E p \in Fresh(n) : n.by[p] = Len(n.launches)
    <3>1. Len(n.launches) # 0 => Len(n.launches) \in DOMAIN n.launches
      BY <1>1
    <3> QED BY <3>1 DEF Truthful, Wrote
  <2>2. \A p \in Fresh(n) : n.by[p] <= Begun(ss, b)
    BY DEF HistoryStands
  <2> QED BY <1>1, <2>1, <2>2
<1> QED BY <1>1, <1>2, <1>3 DEF Of, Wrote

\* The last launch, when nothing told of its end.
LEMMA HistoryTail ==
  ASSUME NEW n, n.logs \in Seq(Log), Truthful(n), NEW ss \in Seq(Session), NEW b, b # None, Timed(b),
         HistoryStands(n, Fresh(n), ss, b), TailEnd(b) \in Session
  PROVE  Len(Append(ss, TailEnd(b))) = Len(n.launches) /\ ToldAs(n, Append(ss, TailEnd(b)))
<1> DEFINE l == Begun(ss, b)
           s == TailEnd(b)
<1>1. l = Len(ss) + 1 /\ Len(ss) \in Nat /\ l = Len(n.launches) /\ Of(n, Fresh(n), l) = Wrote(n, l)
  BY HistoryDone DEF Begun
<1>2. ToldAs(n, ss) /\ Builds(n, Fresh(n), b, l) /\ s \in Session
  BY DEF HistoryStands
<1>3. l \in DOMAIN n.launches
  <2>1. DOMAIN n.launches = 1..Len(n.launches)
    BY DEF Truthful
  <2> QED BY <1>1, <2>1
<1> HIDE DEF l
<1>4. s.start = n.launches[l][1]
  <2>1. s.start = b.start
    BY DEF TailEnd, Finished
  <2> QED BY <1>2, <2>1, BuildsFromStart
<1>5. s.end = n.launches[l][2]
  <2>1. /\ b.stop # None => b.stop = n.launches[l][2] /\ b.start <= b.stop
        /\ b.stop = None =>
              n.launches[l][2] = IF b.hint # None /\ Seconds(b.last, b.hint) \in 0..TailLimit
                                 THEN b.hint ELSE b.last
        /\ b.hint # None => b.start <= b.hint
    BY <1>1, <1>2, <1>3, BuildsToEnd
  <2>2. /\ b.start \in Int /\ b.last \in Int /\ b.last >= b.start
        /\ b.stop \in Int \cup {None} /\ b.hint \in Int \cup {None}
    BY DEF Timed
  <2>3. ASSUME NEW t \in Int, NEW boundary, b.start <= t
        PROVE  Finished(b, t, boundary).end = t
    BY <2>2, <2>3 DEF Finished
  <2>4. CASE b.stop # None
    <3>1. s = Finished(b, b.stop, "StopEnd")
      BY <2>4 DEF TailEnd
    <3> HIDE DEF s
    <3> QED BY <2>1, <2>2, <2>3, <2>4, <3>1
  <2>5. CASE b.stop = None /\ b.hint # None /\ Seconds(b.last, b.hint) \in 0..TailLimit
    <3>1. s = Finished(b, b.hint, "SourceEnd")
      BY <2>5 DEF TailEnd
    <3> HIDE DEF s
    <3> QED BY <2>1, <2>2, <2>3, <2>5, <3>1
  <2>6. CASE b.stop = None /\ ~(b.hint # None /\ Seconds(b.last, b.hint) \in 0..TailLimit)
    <3>1. s = Finished(b, b.last, "Truncated")
      BY <2>6 DEF TailEnd
    <3> HIDE DEF s
    <3> QED BY <2>1, <2>2, <2>3, <2>6, <3>1
  <2> QED BY <2>4, <2>5, <2>6
<1> HIDE DEF s
<1>6. ToldAs(n, Append(ss, s)) /\ Len(Append(ss, s)) = Len(ss) + 1
  BY <1>1, <1>2, <1>3, <1>4, <1>5, ToldMore
<1> QED BY <1>1, <1>6 DEF s

-----------------------------------------------------------------------------
\* What the events of a launch leave as it is.
SameCore(b, c) ==
    /\ c.start = b.start /\ c.source = b.source /\ c.last = b.last
    /\ c.hint = b.hint /\ c.stop = b.stop

LEMMA CoreSteps ==
  ASSUME NEW b \in Builder
  PROVE  /\ \A r : SameCore(b, Link(b, r))
         /\ SameCore(b, AddVersion(b)) /\ SameCore(b, AddPlace(b))
         /\ /\ Observe(b).start = b.start /\ Observe(b).source = b.source
            /\ Observe(b).hint = b.hint /\ Observe(b).stop = b.stop
            /\ Observe(b).last = IF Event.at # None /\ Event.at >= b.last THEN Event.at ELSE b.last
         /\ /\ ObserveHint(b).start = b.start /\ ObserveHint(b).source = b.source
            /\ ObserveHint(b).last = b.last /\ ObserveHint(b).stop = b.stop
            /\ ObserveHint(b).hint = IF logs[i].end # None /\ (b.hint = None \/ logs[i].end > b.hint)
                                     THEN logs[i].end ELSE b.hint
<1>1. \A r : SameCore(b, Link(b, r))
  BY DEF Link, SameCore, Builder
<1>2. SameCore(b, AddVersion(b))
  BY DEF AddVersion, SameCore, Builder
<1>3. SameCore(b, AddPlace(b))
  BY DEF AddPlace, SameCore, Builder
<1>4. /\ Observe(b).start = b.start /\ Observe(b).source = b.source
      /\ Observe(b).hint = b.hint /\ Observe(b).stop = b.stop
      /\ Observe(b).last = IF Event.at # None /\ Event.at >= b.last THEN Event.at ELSE b.last
  BY DEF Observe, Builder
<1>5. /\ ObserveHint(b).start = b.start /\ ObserveHint(b).source = b.source
      /\ ObserveHint(b).last = b.last /\ ObserveHint(b).stop = b.stop
      /\ ObserveHint(b).hint = IF logs[i].end # None /\ (b.hint = None \/ logs[i].end > b.hint)
                               THEN logs[i].end ELSE b.hint
  BY DEF ObserveHint, Builder
<1> QED BY <1>1, <1>2, <1>3, <1>4, <1>5

LEMMA BuilderIsTimed ==
  ASSUME NEW b, Forward(b)
  PROVE  b \in Builder /\ b # None /\ Timed(b)
BY AbsentAssumption DEF Forward, Builder, Timed

\* An event that is linked to the session being built is noted by it.
LEMMA LinkedIsNoted ==
  ASSUME InputStands, Looking, Event.at \in Int, NEW b, Forward(b), NEW x, Forward(x), SameCore(b, x)
  PROVE  /\ Event.tag # "stopping" => Noted(b, ObserveHint(Observe(x)), Event, logs[i].end)
         /\ Event.tag = "stopping" =>
               Noted(b, [ObserveHint(Observe(x)) EXCEPT !.stop = IF @ = None THEN Event.at ELSE @],
                     Event, logs[i].end)
         /\ Forward(ObserveHint(Observe(x)))
         /\ Forward([ObserveHint(Observe(x)) EXCEPT !.stop = IF @ = None THEN Event.at ELSE @])
<1> DEFINE y == Observe(x)
           z == ObserveHint(y)
           w == [z EXCEPT !.stop = IF @ = None THEN Event.at ELSE @]
<1>1. Forward(y) /\ y \in Builder /\ x \in Builder
  BY BuilderSteps DEF Forward
<1>2. /\ y.start = x.start /\ y.source = x.source /\ y.hint = x.hint /\ y.stop = x.stop
      /\ y.last = IF Event.at >= x.last THEN Event.at ELSE x.last
  BY <1>1, CoreSteps
<1> HIDE DEF y
<1>3. Forward(z) /\ z \in Builder
  BY <1>1, BuilderSteps DEF Forward
<1>4. /\ z.start = y.start /\ z.source = y.source /\ z.last = y.last /\ z.stop = y.stop
      /\ z.hint = IF logs[i].end # None /\ (y.hint = None \/ logs[i].end > y.hint)
                  THEN logs[i].end ELSE y.hint
  BY <1>1, CoreSteps
<1> HIDE DEF z
<1>5. /\ w.start = z.start /\ w.source = z.source /\ w.last = z.last /\ w.hint = z.hint
      /\ w.stop = IF z.stop = None THEN Event.at ELSE z.stop
  BY <1>3 DEF Builder
<1>6. Forward(w)
  BY <1>3 DEF Forward, Builder
<1> HIDE DEF w
<1>7. Event.tag # "stopping" => Noted(b, z, Event, logs[i].end)
  BY <1>2, <1>4 DEF Noted, SameCore
<1>8. Event.tag = "stopping" => Noted(b, w, Event, logs[i].end)
  BY <1>2, <1>4, <1>5 DEF Noted, SameCore
<1> QED BY <1>3, <1>6, <1>7, <1>8 DEF w, z, y

\* Activity is noted as well, by a builder that has taken the hint first.
LEMMA ActivityIsNoted ==
  ASSUME InputStands, Looking, Event.at \in Int, Event.tag # "stopping", NEW b, Forward(b),
         NEW x, Forward(x), SameCore(ObserveHint(b), x)
  PROVE  Noted(b, Observe(x), Event, logs[i].end) /\ Forward(Observe(x))
<1>1. b \in Builder /\ x \in Builder /\ Forward(Observe(x))
  BY BuilderSteps DEF Forward
<1>2. /\ Observe(x).start = x.start /\ Observe(x).source = x.source
      /\ Observe(x).hint = x.hint /\ Observe(x).stop = x.stop
      /\ Observe(x).last = IF Event.at >= x.last THEN Event.at ELSE x.last
  BY <1>1, CoreSteps
<1>3. /\ ObserveHint(b).start = b.start /\ ObserveHint(b).source = b.source
      /\ ObserveHint(b).last = b.last /\ ObserveHint(b).stop = b.stop
      /\ ObserveHint(b).hint = IF logs[i].end # None /\ (b.hint = None \/ logs[i].end > b.hint)
                               THEN logs[i].end ELSE b.hint
  BY <1>1, CoreSteps
<1> QED BY <1>1, <1>2, <1>3 DEF Noted, SameCore

-----------------------------------------------------------------------------
Spot == <<i, j>>
Known == Passed(input, i, j)

\* The event looked at is a copy, or the next that is told anew.
LEMMA EventIsFresh ==
  ASSUME InputStands, Truthful(input), ReadingStands, Looking
  PROVE  /\ Event.at \in Int /\ Happened(input, Spot) = Event /\ input.logs[Spot[1]].end = logs[i].end
         /\ copied \in Nat /\ keyed \in Nat
         /\ IsCopy => Passed(input, i, j + 1) = Known
         /\ ~IsCopy => IsNext(input, Known, Spot) /\ Passed(input, i, j + 1) = Known \cup {Spot}
<1>1. /\ Event \in Evidence /\ i \in Nat \ {0} /\ j \in Nat \ {0} /\ i \in DOMAIN logs
      /\ j \in 1..Len(logs[i].evidence) /\ j \in DOMAIN logs[i].evidence
  <2>1. Event \in Evidence /\ i \in Nat \ {0} /\ j \in Nat \ {0} /\ logs[i] \in Log
    BY EventType
  <2>2. i \in DOMAIN logs
    BY DEF InputStands, Looking, Running
  <2>3. j \in 1..Len(logs[i].evidence)
    BY DEF Looking
  <2> QED BY <2>1, <2>2, <2>3 DEF Log
<1>2. /\ Original(input, i) /\ copied = input.copies[i] /\ keyed = j - 1
      /\ copied \in Nat /\ keyed \in Nat
  <2>1. Original(input, i) /\ copied = input.copies[i] /\ keyed = j - 1
    BY <1>1 DEF ReadingStands
  <2>2. input.copies[i] \in Nat
    BY <1>1 DEF Truthful, logs
  <2> QED BY <1>1, <2>1, <2>2
<1>3. Event.at # None /\ Event.at \in Int
  <2>1. Event.at # None
    BY <1>1 DEF Truthful, Event, logs
  <2> QED BY <1>1, <2>1 DEF Evidence
<1>4. IsCopy <=> j <= copied
  BY <1>1, <1>2, <1>3 DEF IsCopy
<1>5. \A p \in Fresh(input) : p[1] \in Nat /\ p[2] \in Nat /\ p = <<p[1], p[2]>> /\ ~(p[2] <= input.copies[p[1]])
  <2>1. input.logs \in Seq(Log)
    BY DEF InputStands, logs
  <2> SUFFICES ASSUME NEW p \in Fresh(input)
               PROVE  /\ p[1] \in Nat /\ p[2] \in Nat /\ p = <<p[1], p[2]>>
                      /\ ~(p[2] <= input.copies[p[1]])
    OBVIOUS
  <2>2. /\ p[1] \in Nat /\ p[2] \in Nat /\ p = <<p[1], p[2]>> /\ input.copies[p[1]] \in Nat
        /\ p[2] \in (input.copies[p[1]] + 1)..Len(input.logs[p[1]].evidence)
        /\ Len(input.logs[p[1]].evidence) \in Nat
    BY <2>1, FreshType
  <2> QED BY <2>2
<1>6. Happened(input, Spot) = Event /\ input.logs[Spot[1]].end = logs[i].end
  BY DEF Happened, Spot, Event, logs
<1>7. \A p \in Fresh(input) :
         /\ (p[1] < i \/ (p[1] = i /\ p[2] < j + 1)) <=> ((p[1] < i \/ (p[1] = i /\ p[2] < j)) \/ p = Spot)
         /\ (p[1] < i \/ (p[1] = i /\ p[2] < j)) <=> Earlier(p, Spot)
         /\ ~(p[1] < i \/ (p[1] = i /\ p[2] < j)) => p = Spot \/ Earlier(Spot, p)
         /\ p = Spot => ~(p[1] < i \/ (p[1] = i /\ p[2] < j))
  <2> SUFFICES ASSUME NEW p \in Fresh(input)
               PROVE  /\ (p[1] < i \/ (p[1] = i /\ p[2] < j + 1)) <=> ((p[1] < i \/ (p[1] = i /\ p[2] < j)) \/ p = Spot)
                      /\ (p[1] < i \/ (p[1] = i /\ p[2] < j)) <=> Earlier(p, Spot)
                      /\ ~(p[1] < i \/ (p[1] = i /\ p[2] < j)) => p = Spot \/ Earlier(Spot, p)
                      /\ p = Spot => ~(p[1] < i \/ (p[1] = i /\ p[2] < j))
    OBVIOUS
  <2>1. p[1] \in Nat /\ p[2] \in Nat /\ p = <<p[1], p[2]>> /\ i \in Nat /\ j \in Nat
    BY <1>1, <1>5
  <2>2. p = Spot <=> p[1] = i /\ p[2] = j
    BY <2>1 DEF Spot
  <2>3. Spot[1] = i /\ Spot[2] = j
    BY DEF Spot
  <2> QED BY <2>1, <2>2, <2>3 DEF Earlier
<1>8. CASE IsCopy
  <2>1. Spot \notin Fresh(input)
    BY <1>2, <1>4, <1>5, <1>8 DEF Spot
  <2>2. Passed(input, i, j + 1) = Known
    BY <1>7, <2>1 DEF Passed, Known
  <2> QED BY <1>2, <1>3, <1>6, <1>8, <2>2
<1>9. CASE ~IsCopy
  <2>1. Spot \in Fresh(input)
    <3>1. j \in (input.copies[i] + 1)..Len(input.logs[i].evidence)
      <4>1. ~(j <= input.copies[i]) /\ input.copies[i] \in Nat /\ j \in 1..Len(input.logs[i].evidence)
        BY <1>1, <1>2, <1>4, <1>9 DEF logs
      <4> QED BY <1>1, <4>1
    <3>2. i \in DOMAIN input.logs
      BY <1>1 DEF logs
    <3> QED BY <1>2, <3>1, <3>2, FreshFound DEF Spot
  <2>2. Passed(input, i, j + 1) = Known \cup {Spot}
    BY <1>7, <2>1 DEF Passed, Known
  <2>3. IsNext(input, Known, Spot)
    BY <1>7, <2>1 DEF Passed, Known, IsNext
  <2> QED BY <1>2, <1>3, <1>6, <1>9, <2>2, <2>3
<1> QED BY <1>8, <1>9

\* Reading an event changes nothing of what was read before.
LEMMA ReadingGoesOn ==
  ASSUME InputStands, Truthful(input), ReadingStands, Looking, NextEvent, Counted
  PROVE  ReadingStands'
<1>1. /\ i' = i /\ j' = j + 1 /\ input' = input /\ seen' = seen /\ previous' = previous
      /\ copied' = copied /\ keyed' = keyed + 1 /\ j \in Nat \ {0} /\ j' # 0 /\ logs' = logs
  <2>1. Event.at \in Int
    BY EventIsFresh
  <2>2. i' = i /\ j' = j + 1 /\ input' = input /\ seen' = seen /\ previous' = previous /\ copied' = copied
    BY DEF NextEvent
  <2>3. j \in Nat \ {0}
    BY EventType
  <2>4. keyed' = keyed + 1
    BY <2>1 DEF Counted
  <2> QED BY <2>2, <2>3, <2>4 DEF logs
<1>2. /\ Running /\ Original(input, i) /\ copied = input.copies[i] /\ keyed = j - 1
      /\ seen = {logs[b].content : b \in 1..i}
      /\ \A b \in 1..(i - 1) : LogBefore(input, b, i) => previous = Keys(logs[b])
      /\ previous # <<>> => \E b \in 1..(i - 1) : LogBefore(input, b, i)
  BY <1>1 DEF ReadingStands
<1>3. Running' /\ keyed' = j' - 1
  BY <1>1, <1>2 DEF Running
<1> QED BY <1>1, <1>2, <1>3 DEF ReadingStands

\* Between logs nothing is told anew, and what is known of the logs read stays
\* true.
LEMMA SkipReads ==
  ASSUME InputStands, Truthful(input), ReadingStands, SkipLog
  PROVE  ReadingStands' /\ Passed(input, i', j') = Known /\ input' = input
<1>1. /\ input' = input /\ i' = i + 1 /\ j = 0 /\ j' = 0 /\ previous' = previous /\ seen' = seen
      /\ logs' = logs /\ logs[i].content \in seen /\ i \in Nat \ {0}
  BY DEF SkipLog, logs, InputStands
<1>2. seen = {logs[b].content : b \in 1..(i - 1)}
  BY <1>1 DEF ReadingStands
<1>3. ~Original(input, i)
  BY <1>1, <1>2 DEF Original, logs
<1>4. seen = {logs[b].content : b \in 1..i}
  <2>1. \A b \in 1..i : b = i \/ b \in 1..(i - 1)
    BY <1>1
  <2>2. \A b \in 1..(i - 1) : b \in 1..i
    BY <1>1
  <2> QED BY <1>1, <1>2, <2>1, <2>2
<1>5. /\ \A b \in 1..i : LogBefore(input, b, i + 1) => b \in 1..(i - 1) /\ LogBefore(input, b, i)
      /\ \A b \in 1..(i - 1) : LogBefore(input, b, i) => b \in 1..i /\ LogBefore(input, b, i + 1)
  <2>1. \A b \in 1..i : Original(input, b) => b \in 1..(i - 1)
    BY <1>1, <1>3
  <2>2. \A b \in 1..(i - 1) : /\ b \in 1..i
                              /\ \A d \in (b + 1)..(i - 1) : d \in (b + 1)..i
                              /\ \A d \in (b + 1)..i : d = i \/ d \in (b + 1)..(i - 1)
    BY <1>1
  <2> DEFINE a == i + 1
  <2>3. a - 1 = i
    BY <1>1
  <2> HIDE DEF a
  <2>4. ASSUME NEW b \in 1..i, LogBefore(input, b, a)
        PROVE  b \in 1..(i - 1) /\ LogBefore(input, b, i)
    <3>1. b \in 1..(i - 1)
      BY <2>1, <2>4 DEF LogBefore
    <3>2. \A d \in (b + 1)..i : Original(input, d) => input.logs[d].evidence = <<>>
      BY <2>3, <2>4 DEF LogBefore
    <3>3. \A d \in (b + 1)..(i - 1) : Original(input, d) => input.logs[d].evidence = <<>>
      BY <2>2, <3>1, <3>2
    <3> QED BY <2>4, <3>1, <3>3 DEF LogBefore
  <2>5. ASSUME NEW b \in 1..(i - 1), LogBefore(input, b, i)
        PROVE  b \in 1..i /\ LogBefore(input, b, a)
    <3>1. \A d \in (b + 1)..(i - 1) : Original(input, d) => input.logs[d].evidence = <<>>
      BY <2>5 DEF LogBefore
    <3>2. \A d \in (b + 1)..i : Original(input, d) => input.logs[d].evidence = <<>>
      BY <1>3, <2>2, <3>1
    <3> QED BY <2>2, <2>3, <2>5, <3>2 DEF LogBefore
  <2> QED BY <2>4, <2>5 DEF a
<1>6. /\ \A b \in 1..(i - 1) : LogBefore(input, b, i) => previous = Keys(logs[b])
      /\ previous # <<>> => \E b \in 1..(i - 1) : LogBefore(input, b, i)
  BY DEF ReadingStands
<1>7. ReadingStands'
  <2>1. i' - 1 = i
    BY <1>1
  <2>2. seen' = {logs'[b].content : b \in 1..(i' - 1)}
    BY <1>1, <1>4, <2>1
  <2>3. /\ \A b \in 1..(i' - 1) : LogBefore(input', b, i') => previous' = Keys(logs'[b])
        /\ previous' # <<>> => \E b \in 1..(i' - 1) : LogBefore(input', b, i')
    BY <1>1, <1>5, <1>6, <2>1
  <2> QED BY <1>1, <2>2, <2>3 DEF ReadingStands
<1>8. Passed(input, i + 1, 0) = Passed(input, i, 0)
  <2>1. \A p \in Fresh(input) : p[1] \in Nat /\ p[2] \in Nat \ {0} /\ p[1] # i
    BY <1>3, FreshType DEF InputStands, logs
  <2>2. \A p \in Fresh(input) : (p[1] < i + 1 \/ (p[1] = i + 1 /\ p[2] < 0))
                                   <=> (p[1] < i \/ (p[1] = i /\ p[2] < 0))
    BY <1>1, <2>1
  <2> QED BY <2>2 DEF Passed
<1> QED BY <1>1, <1>7, <1>8 DEF Known

LEMMA OpenReads ==
  ASSUME InputStands, PreviousStands, Truthful(input), ReadingStands, OpenLog
  PROVE  ReadingStands' /\ Passed(input, i', j') = Known /\ input' = input
<1>1. /\ input' = input /\ i' = i /\ j = 0 /\ j' = 1 /\ previous' = previous
      /\ seen' = seen \cup {logs[i].content} /\ keyed' = 0
      /\ copied' = CopiedPrefix(previous, Keys(logs[i]))
      /\ logs' = logs /\ logs[i].content \notin seen /\ i \in Nat \ {0} /\ Running
  BY DEF OpenLog, logs, InputStands
<1>2. seen = {logs[b].content : b \in 1..(i - 1)}
  BY <1>1 DEF ReadingStands
<1>3. Original(input, i)
  BY <1>1, <1>2 DEF Original, logs
<1>4. seen' = {logs[b].content : b \in 1..i}
  <2>1. \A b \in 1..i : b = i \/ b \in 1..(i - 1)
    BY <1>1
  <2>2. i \in 1..i /\ \A b \in 1..(i - 1) : b \in 1..i
    BY <1>1
  <2> QED BY <1>1, <1>2, <2>1, <2>2
<1>5. /\ \A b \in 1..(i - 1) : LogBefore(input, b, i) => previous = Keys(logs[b])
      /\ previous # <<>> => \E b \in 1..(i - 1) : LogBefore(input, b, i)
  BY DEF ReadingStands
<1>6. copied' = input.copies[i]
  <2>1. i \in DOMAIN input.logs /\ input.logs \in Seq(Log) /\ previous \in Seq(KeyType)
    BY <1>1 DEF InputStands, Running, logs, PreviousStands
  <2>2. CopiedPrefix(previous, Keys(input.logs[i])) = input.copies[i]
    BY <1>3, <1>5, <2>1, CopiesAreFound DEF logs
  <2> QED BY <1>1, <2>2 DEF logs
<1>7. ReadingStands'
  <2>1. Running' /\ Original(input', i') /\ copied' = input'.copies[i'] /\ keyed' = j' - 1
    BY <1>1, <1>3, <1>6 DEF Running
  <2>2. /\ \A b \in 1..(i' - 1) : LogBefore(input', b, i') => previous' = Keys(logs'[b])
        /\ previous' # <<>> => \E b \in 1..(i' - 1) : LogBefore(input', b, i')
    BY <1>1, <1>5
  <2>3. seen' = {logs'[b].content : b \in 1..i'}
    BY <1>1, <1>4
  <2> QED BY <1>1, <2>1, <2>2, <2>3 DEF ReadingStands
<1>8. Passed(input, i, 1) = Passed(input, i, 0)
  <2>1. \A p \in Fresh(input) : p[1] \in Nat /\ p[2] \in Nat \ {0}
    BY FreshType DEF InputStands, logs
  <2>2. \A p \in Fresh(input) : p[2] < 1 <=> p[2] < 0
    BY <2>1
  <2> QED BY <2>2 DEF Passed
<1> QED BY <1>1, <1>7, <1>8 DEF Known

LEMMA CloseReads ==
  ASSUME InputStands, Truthful(input), ReadingStands, CloseLog
  PROVE  ReadingStands' /\ Passed(input, i', j') = Known /\ input' = input
<1>1. /\ input' = input /\ i' = i + 1 /\ j' = 0 /\ seen' = seen
      /\ previous' = IF Keys(logs[i]) = <<>> THEN previous ELSE Keys(logs[i])
      /\ logs' = logs /\ i \in Nat \ {0} /\ Running /\ j > Len(logs[i].evidence) /\ j \in Nat
  BY DEF CloseLog, logs, InputStands
<1>2. /\ i \in DOMAIN input.logs /\ input.logs \in Seq(Log) /\ logs[i] \in Log
      /\ Len(logs[i].evidence) \in Nat /\ logs[i].evidence \in Seq(Evidence)
  <2>1. i \in DOMAIN input.logs /\ input.logs \in Seq(Log)
    BY <1>1 DEF InputStands, Running, logs
  <2>2. logs[i] \in Log
    BY <2>1 DEF logs
  <2> QED BY <2>1, <2>2 DEF Log
<1>3. j # 0
  BY <1>1, <1>2
<1>4. Original(input, i) /\ seen = {logs[b].content : b \in 1..i}
  BY <1>3 DEF ReadingStands
<1>5. Keys(logs[i]) = <<>> <=> logs[i].evidence = <<>>
  <2>1. Len(Keys(logs[i])) = Len(logs[i].evidence)
    <3>1. \A k \in DOMAIN logs[i].evidence : logs[i].evidence[k].at # None
      BY <1>2 DEF Truthful, logs
    <3> QED BY <1>2, <3>1, KeysOfDated
  <2>2. Keys(logs[i]) \in Seq(KeyType)
    BY <1>2, KeysType
  <2>3. \A S : \A s \in Seq(S) : s = <<>> <=> Len(s) = 0
    OBVIOUS
  <2> QED BY <1>2, <2>1, <2>2, <2>3
<1>6. \A b \in 1..(i - 1) : /\ b \in 1..i
                            /\ \A d \in (b + 1)..(i - 1) : d \in (b + 1)..(i + 1 - 1)
                            /\ i \in (b + 1)..(i + 1 - 1)
                            /\ \A d \in (b + 1)..(i + 1 - 1) : d = i \/ d \in (b + 1)..(i - 1)
  BY <1>1
<1>7. i \in 1..i /\ (\A b \in 1..i : b = i \/ b \in 1..(i - 1)) /\ (i + 1)..(i + 1 - 1) = {}
  BY <1>1
<1>8. /\ \A b \in 1..(i - 1) : LogBefore(input, b, i) => previous = Keys(logs[b])
      /\ previous # <<>> => \E b \in 1..(i - 1) : LogBefore(input, b, i)
  BY DEF ReadingStands
<1>9. /\ \A b \in 1..i : LogBefore(input, b, i + 1) => previous' = Keys(logs[b])
      /\ previous' # <<>> => \E b \in 1..i : LogBefore(input, b, i + 1)
  <2>1. CASE logs[i].evidence = <<>>
    <3>1. previous' = previous
      BY <1>1, <1>5, <2>1
    <3>2. \A b \in 1..i : LogBefore(input, b, i + 1) => b \in 1..(i - 1) /\ LogBefore(input, b, i)
      BY <1>6, <1>7, <2>1 DEF LogBefore, logs
    <3>3. \A b \in 1..(i - 1) : LogBefore(input, b, i) => b \in 1..i /\ LogBefore(input, b, i + 1)
      BY <1>6, <2>1 DEF LogBefore, logs
    <3> QED BY <1>8, <3>1, <3>2, <3>3
  <2>2. CASE logs[i].evidence # <<>>
    <3>1. previous' = Keys(logs[i])
      BY <1>1, <1>5, <2>2
    <3>2. LogBefore(input, i, i + 1)
      BY <1>4, <1>7, <2>2 DEF LogBefore, logs
    <3>3. \A b \in 1..(i - 1) : ~LogBefore(input, b, i + 1)
      BY <1>4, <1>6, <2>2 DEF LogBefore, logs
    <3> QED BY <1>7, <3>1, <3>2, <3>3
  <2> QED BY <2>1, <2>2
<1>10. ReadingStands'
  <2>1. i' - 1 = i
    BY <1>1
  <2>2. seen' = {logs'[b].content : b \in 1..(i' - 1)}
    BY <1>1, <1>4, <2>1
  <2>3. /\ \A b \in 1..(i' - 1) : LogBefore(input', b, i') => previous' = Keys(logs'[b])
        /\ previous' # <<>> => \E b \in 1..(i' - 1) : LogBefore(input', b, i')
    BY <1>1, <1>9, <2>1
  <2> QED BY <1>1, <2>2, <2>3 DEF ReadingStands
<1>11. Passed(input, i + 1, 0) = Known
  <2>1. ASSUME NEW p \in Fresh(input)
        PROVE  (p[1] < i + 1 \/ (p[1] = i + 1 /\ p[2] < 0)) <=> (p[1] < i \/ (p[1] = i /\ p[2] < j))
    <3>1. /\ p[1] \in Nat /\ p[2] \in Nat \ {0} /\ Len(input.logs[p[1]].evidence) \in Nat
          /\ p[2] \in (input.copies[p[1]] + 1)..Len(input.logs[p[1]].evidence)
          /\ input.copies[p[1]] \in Nat
      BY <1>2, FreshType
    <3>2. p[2] <= Len(input.logs[p[1]].evidence)
      BY <3>1
    <3>3. p[1] = i => p[2] < j
      <4> SUFFICES ASSUME p[1] = i
                   PROVE  p[2] < j
        OBVIOUS
      <4>1. p[2] <= Len(logs[i].evidence)
        BY <3>2 DEF logs
      <4> QED BY <1>1, <1>2, <3>1, <4>1
    <3>4. ~(p[2] < 0) /\ (p[1] < i + 1 <=> p[1] < i \/ p[1] = i)
      BY <1>1, <3>1
    <3> QED BY <3>3, <3>4
  <2> QED BY <2>1 DEF Passed, Known
<1> QED BY <1>1, <1>10, <1>11

\* What is known when an event that is no copy is looked at.
Telling ==
    /\ IInv /\ Truthful(input) /\ ReadingStands /\ Looking /\ ~IsCopy
    /\ HistoryStands(input, Known, sessions, active)

\* What is told by an event: it goes on with its launch, or opens the next.
LEMMA EventTells ==
  ASSUME Telling
  PROVE  /\ input.logs \in Seq(Log) /\ IsNext(input, Known, Spot)
         /\ Passed(input, i, j + 1) = Known \cup {Spot}
         /\ Event.at \in Int /\ Happened(input, Spot) = Event
         /\ input.logs[Spot[1]].end = logs[i].end /\ Spot[1] = i
         /\ sessions \in Seq(Session) /\ Len(sessions) \in Nat
         /\ active # None => Forward(active) /\ active \in Builder /\ Timed(active)
         /\ \/ Begun(sessions, active) # 0 /\ input.by[Spot] = Begun(sessions, active)
            \/ /\ input.by[Spot] = Begun(sessions, active) + 1 /\ Opens(input, Spot)
               /\ Event.tag = "start"
               /\ Begun(sessions, active) # 0 =>
                     /\ Begun(sessions, active) \in DOMAIN input.launches
                     /\ Of(input, Known, Begun(sessions, active)) = Wrote(input, Begun(sessions, active))
<1>1. /\ IInv /\ InputStands /\ SessionsStand /\ Truthful(input) /\ ReadingStands /\ Looking /\ ~IsCopy
      /\ HistoryStands(input, Known, sessions, active)
  BY DEF Telling, IInv
<1>2. input.logs \in Seq(Log)
  BY <1>1 DEF InputStands, logs
<1>3. /\ IsNext(input, Known, Spot) /\ Passed(input, i, j + 1) = Known \cup {Spot}
      /\ Event.at \in Int /\ Happened(input, Spot) = Event
      /\ input.logs[Spot[1]].end = logs[i].end
  BY <1>1, EventIsFresh
<1>4. sessions \in Seq(Session) /\ Len(sessions) \in Nat /\ Spot[1] = i
  BY <1>1 DEF SessionsStand, Spot
<1>5. active # None => Forward(active) /\ active \in Builder /\ Timed(active)
  BY <1>1, BuilderIsTimed DEF SessionsStand
<1> DEFINE l == Begun(sessions, active)
<1>6. \/ l # 0 /\ input.by[Spot] = l
      \/ /\ input.by[Spot] = l + 1 /\ Opens(input, Spot)
         /\ l # 0 => l \in DOMAIN input.launches /\ Of(input, Known, l) = Wrote(input, l)
  BY <1>1, <1>2, <1>3, <1>4, NextTurn
<1>7. Opens(input, Spot) => Event.tag = "start"
  <2>1. Spot \in Fresh(input)
    BY <1>3 DEF IsNext
  <2>2. Opens(input, Spot) => Happened(input, Spot).tag = "start"
    BY <1>1, <2>1 DEF Truthful, BootsAreApart
  <2> QED BY <1>3, <2>2
<1> HIDE DEF l
<1>8. \/ l # 0 /\ input.by[Spot] = l
      \/ /\ input.by[Spot] = l + 1 /\ Opens(input, Spot) /\ Event.tag = "start"
         /\ l # 0 => l \in DOMAIN input.launches /\ Of(input, Known, l) = Wrote(input, l)
  BY <1>6, <1>7
<1> QED BY <1>2, <1>3, <1>4, <1>5, <1>8 DEF l

\* After the event: what is to be shown of each action.
Tells(ss, b) == HistoryStands(input, Known \cup {Spot}, ss, b)

\* An event that is no start and no activity is noted or passed over.
LEMMA NotesOrPasses ==
  ASSUME Telling, Event.tag \notin {"start"} \cup Ends, NEW c,
         IF active = None THEN c = None ELSE c # None /\ Noted(active, c, Event, logs[i].end)
  PROVE  Tells(sessions, c)
<1>1. /\ input.logs \in Seq(Log) /\ IsNext(input, Known, Spot)
      /\ Happened(input, Spot) = Event /\ input.logs[Spot[1]].end = logs[i].end
      /\ Len(sessions) \in Nat /\ (active # None => Timed(active))
      /\ input.by[Spot] = Begun(sessions, active)
  BY EventTells
<1>2. Truthful(input) /\ HistoryStands(input, Known, sessions, active)
  BY DEF Telling
<1>3. CASE active = None
  <2>1. c = None
    BY <1>3
  <2>2. HistoryStands(input, Known \cup {Spot}, sessions, None)
    BY <1>1, <1>2, <1>3, HistoryPassesOver
  <2> QED BY <2>1, <2>2 DEF Tells
<1>4. CASE active # None
  <2>1. c # None /\ Noted(active, c, Happened(input, Spot), input.logs[Spot[1]].end)
    BY <1>1, <1>4
  <2>2. Happened(input, Spot).tag \notin Ends
    BY <1>1
  <2> QED BY <1>1, <1>2, <1>4, <2>1, <2>2, HistoryNotes DEF Tells
<1> QED BY <1>3, <1>4

\* A start or an activity of the launch being told finds it being built.
LEMMA GoesOn ==
  ASSUME Telling, Event.tag \in {"start"} \cup Activities,
         Begun(sessions, active) # 0, input.by[Spot] = Begun(sessions, active)
  PROVE  /\ active # None /\ active.stop = None
         /\ Event.tag = "start" => IsBootstrap
<1>1. /\ input.logs \in Seq(Log) /\ IsNext(input, Known, Spot)
      /\ Happened(input, Spot) = Event /\ Spot[1] = i
      /\ Len(sessions) \in Nat /\ (active # None => Timed(active))
  BY EventTells
<1>2. Truthful(input) /\ HistoryStands(input, Known, sessions, active)
  BY DEF Telling
<1>3. /\ active # None /\ active.stop = None
      /\ Event.tag = "start" =>
            active.source = i /\ Seconds(active.start, Event.at) \in 0..MergeWindow
  BY <1>1, <1>2, StillBuilds
<1> QED BY <1>3 DEF IsBootstrap

LEMMA TellsStartAgain ==
  ASSUME Telling, StartAgain
  PROVE  Tells(sessions', active')
<1>1. /\ Event.tag = "start" /\ IsBootstrap /\ active # None /\ sessions' = sessions /\ Looking
      /\ active' = ObserveHint(Observe(Link(active, "supporting")))
  BY DEF StartAgain, IsBootstrap
<1>2. /\ input.logs \in Seq(Log) /\ IsNext(input, Known, Spot) /\ Event.at \in Int
      /\ Happened(input, Spot) = Event /\ input.logs[Spot[1]].end = logs[i].end /\ Spot[1] = i
      /\ Len(sessions) \in Nat /\ Timed(active) /\ Forward(active) /\ active \in Builder
  BY <1>1, EventTells
<1>3. Truthful(input) /\ HistoryStands(input, Known, sessions, active) /\ InputStands
  BY DEF Telling, IInv
<1>4. input.by[Spot] = Begun(sessions, active)
  <2> SUFFICES ASSUME input.by[Spot] # Begun(sessions, active)
               PROVE  FALSE
    OBVIOUS
  <2> DEFINE l == Begun(sessions, active)
  <2>1. l # 0 /\ l \in Nat
    BY <1>1, <1>2 DEF Begun
  <2>2. input.by[Spot] = l + 1 /\ Opens(input, Spot) /\ Of(input, Known, l) = Wrote(input, l)
    BY <2>1, EventTells
  <2>3. Builds(input, Known, active, l) /\ Known \subseteq Fresh(input) /\ Spot \in Fresh(input)
    BY <1>1, <1>2, <1>3 DEF HistoryStands, IsNext
  <2>4. ~(active.stop = None /\ active.source = Spot[1]
             /\ Seconds(active.start, Happened(input, Spot).at) \in 0..MergeWindow)
    BY <1>2, <1>3, <2>1, <2>2, <2>3, BuildsNoMore
  <2> QED BY <1>1, <1>2, <2>4 DEF IsBootstrap
<1>5. /\ Forward(Link(active, "supporting")) /\ SameCore(active, Link(active, "supporting"))
  BY <1>1, <1>2, <1>3, BuilderSteps, CoreSteps DEF Roles
<1>6. Noted(active, active', Event, logs[i].end) /\ Forward(active')
  BY <1>1, <1>2, <1>3, <1>5, LinkedIsNoted
<1>7. active' # None
  BY <1>6, BuilderIsTimed
<1>8. Happened(input, Spot).tag \notin Ends
  BY <1>1, <1>2 DEF Ends
<1>9. Tells(sessions, active')
  BY <1>1, <1>2, <1>3, <1>4, <1>6, <1>7, <1>8, HistoryNotes DEF Tells
<1> QED BY <1>1, <1>9

LEMMA TellsStart ==
  ASSUME Telling, Start
  PROVE  Tells(sessions', active')
<1>1. /\ Event.tag = "start" /\ Event.at # None /\ ~IsBootstrap /\ Looking
      /\ sessions' = IF active = None THEN sessions ELSE Append(sessions, CutShort(active))
      /\ active' = NewBuilder("explicit")
  BY DEF Start
<1>2. /\ input.logs \in Seq(Log) /\ IsNext(input, Known, Spot) /\ Event.at \in Int
      /\ Happened(input, Spot) = Event /\ input.logs[Spot[1]].end = logs[i].end /\ Spot[1] = i
      /\ sessions \in Seq(Session) /\ Len(sessions) \in Nat
      /\ active # None => Timed(active) /\ Forward(active)
  BY EventTells
<1>3. Truthful(input) /\ HistoryStands(input, Known, sessions, active) /\ InputStands
  BY DEF Telling, IInv
<1>4. /\ input.by[Spot] = Begun(sessions, active) + 1 /\ Opens(input, Spot)
      /\ Begun(sessions, active) # 0 =>
            /\ Begun(sessions, active) \in DOMAIN input.launches
            /\ Of(input, Known, Begun(sessions, active)) = Wrote(input, Begun(sessions, active))
  <2>1. ~(Begun(sessions, active) # 0 /\ input.by[Spot] = Begun(sessions, active))
    BY <1>1, GoesOn
  <2> QED BY <2>1, EventTells
<1> DEFINE c == NewBuilder("explicit")
<1>5. /\ c.start = Happened(input, Spot).at /\ c.last = Happened(input, Spot).at /\ c.stop = None
      /\ c.hint = input.logs[Spot[1]].end /\ c.source = Spot[1]
  BY <1>2 DEF NewBuilder
<1>6. c # None
  <2>1. Forward(c)
    BY <1>1, <1>3, NewBuilderStands
  <2> QED BY <2>1, BuilderIsTimed
<1> HIDE DEF c
<1>7. CASE active = None
  <2>1. HistoryStands(input, Known \cup {Spot}, sessions, c)
    BY <1>2, <1>3, <1>4, <1>5, <1>6, <1>7, HistoryOpens
  <2> QED BY <1>1, <1>7, <2>1 DEF Tells, c
<1>8. CASE active # None
  <2>1. CutShort(active) \in Session
    BY <1>2, <1>8, CutShortIsSound DEF Sound
  <2>2. Begun(sessions, active) # 0
    BY <1>2, <1>8 DEF Begun
  <2>3. HistoryStands(input, Known \cup {Spot}, Append(sessions, CutShort(active)), c)
    BY <1>2, <1>3, <1>4, <1>5, <1>6, <1>8, <2>1, <2>2, HistoryCuts
  <2> QED BY <1>1, <1>8, <2>3 DEF Tells, c
<1> QED BY <1>7, <1>8

LEMMA TellsActivity ==
  ASSUME Telling, Activity
  PROVE  Tells(sessions', active')
<1> DEFINE b == Prepared
           versioned == IF Event.tag = "integrated" /\ Event.name # None
                        THEN Link(AddVersion(b), "version") ELSE b
           c == Observe(Link(AddPlace(versioned), "destination"))
<1>1. /\ Event.tag \in Activities /\ Looking
      /\ sessions' = (IF Stopped THEN Append(sessions, CutShort(active)) ELSE sessions)
      /\ active' = IF b = None THEN None ELSE c
  BY DEF Activity
<1>2. /\ Event.tag \notin {"start", "stopping"} \cup Ends
      /\ input.by[Spot] = Begun(sessions, active) /\ Begun(sessions, active) # 0
      /\ Event.at \in Int
  <2>1. Event.tag \notin {"start", "stopping"} \cup Ends
    BY <1>1 DEF Activities, Ends
  <2> QED BY <2>1, EventTells
<1>3. active # None /\ active.stop = None
  BY <1>1, <1>2, GoesOn
<1>4. /\ Forward(active) /\ active \in Builder /\ InputStands
  BY <1>3, EventTells DEF Telling, IInv
<1>5. sessions' = sessions /\ b = ObserveHint(active)
  BY <1>1, <1>3 DEF Stopped, Prepared
<1>6. Forward(b) /\ b \in Builder /\ b # None
  <2>1. Forward(ObserveHint(active))
    BY <1>1, <1>4, BuilderSteps
  <2> QED BY <1>5, <2>1, BuilderIsTimed
<1> HIDE DEF b
<1>7. Forward(versioned) /\ SameCore(b, versioned)
  <2>1. Forward(AddVersion(b)) /\ SameCore(b, AddVersion(b)) /\ AddVersion(b) \in Builder
    BY <1>1, <1>4, <1>6, BuilderSteps, CoreSteps DEF Forward
  <2> DEFINE x == AddVersion(b)
  <2> HIDE DEF x
  <2>2. x \in Builder /\ Forward(x) => /\ Forward(Link(x, "version")) /\ SameCore(x, Link(x, "version"))
    BY <1>1, <1>4, BuilderSteps, CoreSteps DEF Roles
  <2>3. SameCore(b, b)
    BY DEF SameCore
  <2>4. Forward(Link(x, "version")) /\ SameCore(b, Link(x, "version"))
    BY <2>1, <2>2 DEF SameCore, x
  <2> QED BY <1>6, <2>3, <2>4 DEF x
<1> HIDE DEF versioned
<1> DEFINE y == AddPlace(versioned)
           z == Link(y, "destination")
<1>8. Forward(y) /\ SameCore(versioned, y) /\ y \in Builder
  BY <1>1, <1>4, <1>7, AddPlaceKeeps, CoreSteps DEF Forward
<1> HIDE DEF y
<1>9. Forward(z) /\ SameCore(y, z)
  BY <1>1, <1>4, <1>8, BuilderSteps, CoreSteps DEF Roles
<1> HIDE DEF z
<1>10. SameCore(ObserveHint(active), z)
  BY <1>5, <1>7, <1>8, <1>9 DEF SameCore
<1>11. Noted(active, Observe(z), Event, logs[i].end) /\ Forward(Observe(z))
  BY <1>1, <1>2, <1>4, <1>9, <1>10, ActivityIsNoted
<1>12. active' = Observe(z)
  BY <1>1, <1>6 DEF z, y
<1>13. active' # None
  BY <1>11, <1>12, BuilderIsTimed
<1>14. Tells(sessions, active')
  BY <1>2, <1>3, <1>11, <1>12, <1>13, NotesOrPasses
<1> QED BY <1>5, <1>14

LEMMA TellsOther ==
  ASSUME Telling, Version \/ Disconnect \/ Stopping
  PROVE  Tells(sessions', active')
<1>1. /\ Event.tag \in {"version", "disconnect", "stopping"} /\ Looking /\ sessions' = sessions
      /\ Event.tag \notin {"start"} \cup Ends /\ InputStands /\ Event.at \in Int
      /\ active # None => Forward(active) /\ active \in Builder
  <2>1. Event.at \in Int /\ (active # None => Forward(active) /\ active \in Builder)
    BY EventTells
  <2> QED BY <2>1 DEF Version, Disconnect, Stopping, Ends, Telling, IInv
<1> DEFINE x == Link(AddVersion(active), "version")
           y == Link(active, "supporting")
           z == Link(Link(active, "end"), "exit")
<1>2. active # None => /\ Forward(x) /\ SameCore(active, x) /\ Forward(y) /\ SameCore(active, y)
                       /\ Forward(z) /\ SameCore(active, z)
  <2> SUFFICES ASSUME active # None
               PROVE  /\ Forward(x) /\ SameCore(active, x) /\ Forward(y) /\ SameCore(active, y)
                      /\ Forward(z) /\ SameCore(active, z)
    OBVIOUS
  <2> DEFINE v == AddVersion(active)
             w == Link(active, "end")
  <2>1. Forward(v) /\ SameCore(active, v) /\ v \in Builder
    BY <1>1, BuilderSteps, CoreSteps DEF Forward
  <2>2. /\ Forward(w) /\ SameCore(active, w) /\ w \in Builder
        /\ Forward(y) /\ SameCore(active, y)
    BY <1>1, BuilderSteps, CoreSteps DEF Forward, Roles
  <2> HIDE DEF v, w
  <2>3. Forward(Link(v, "version")) /\ SameCore(v, Link(v, "version"))
    BY <1>1, <2>1, BuilderSteps, CoreSteps DEF Roles
  <2>4. Forward(Link(w, "exit")) /\ SameCore(w, Link(w, "exit"))
    BY <1>1, <2>2, BuilderSteps, CoreSteps DEF Roles
  <2>5. SameCore(active, Link(v, "version")) /\ SameCore(active, Link(w, "exit"))
    BY <2>1, <2>2, <2>3, <2>4 DEF SameCore
  <2> QED BY <2>2, <2>3, <2>4, <2>5 DEF v, w
<1> HIDE DEF x, y, z
<1>3. CASE active = None
  <2>1. active' = None
    BY <1>3 DEF Version, Disconnect, Stopping
  <2> QED BY <1>1, <1>3, <2>1, NotesOrPasses
<1>4. CASE active # None /\ Version
  <2>1. active' = ObserveHint(Observe(x)) /\ Event.tag # "stopping"
    BY <1>4 DEF Version, x
  <2>2. Noted(active, active', Event, logs[i].end) /\ Forward(active')
    BY <1>1, <1>2, <1>4, <2>1, LinkedIsNoted
  <2> QED BY <1>1, <1>4, <2>2, BuilderIsTimed, NotesOrPasses
<1>5. CASE active # None /\ Disconnect
  <2>1. active' = ObserveHint(Observe(y)) /\ Event.tag # "stopping"
    BY <1>5 DEF Disconnect, y
  <2>2. Noted(active, active', Event, logs[i].end) /\ Forward(active')
    BY <1>1, <1>2, <1>5, <2>1, LinkedIsNoted
  <2> QED BY <1>1, <1>5, <2>2, BuilderIsTimed, NotesOrPasses
<1>6. CASE active # None /\ Stopping
  <2>1. /\ active' = [ObserveHint(Observe(z)) EXCEPT !.stop = IF @ = None THEN Event.at ELSE @]
        /\ Event.tag = "stopping"
    BY <1>6 DEF Stopping, z
  <2>2. Noted(active, active', Event, logs[i].end) /\ Forward(active')
    BY <1>1, <1>2, <1>6, <2>1, LinkedIsNoted
  <2> QED BY <1>1, <1>6, <2>2, BuilderIsTimed, NotesOrPasses
<1> QED BY <1>3, <1>4, <1>5, <1>6

LEMMA TellsEnd ==
  ASSUME Telling, End
  PROVE  Tells(sessions', active')
<1>1. /\ Event.tag \in Ends /\ Event.tag # "start" /\ Looking /\ Event.at \in Int
      /\ input.by[Spot] = Begun(sessions, active)
  <2>1. Event.tag \in Ends /\ Event.tag # "start" /\ Looking
    BY DEF End, Ends
  <2> QED BY <2>1, EventTells
<1>2. /\ input.logs \in Seq(Log) /\ IsNext(input, Known, Spot)
      /\ Happened(input, Spot) = Event /\ Len(sessions) \in Nat
      /\ sessions \in Seq(Session) /\ (active # None => Timed(active) /\ Forward(active) /\ active \in Builder)
  BY EventTells
<1>3. Truthful(input) /\ HistoryStands(input, Known, sessions, active) /\ InputStands
  BY DEF Telling, IInv
<1>4. CASE active = None
  <2>1. active' = None /\ sessions' = sessions
    BY <1>4 DEF End
  <2>2. HistoryStands(input, Known \cup {Spot}, sessions, None)
    BY <1>1, <1>2, <1>3, <1>4, HistoryPassesOver
  <2> QED BY <2>1, <2>2 DEF Tells
<1>5. CASE active # None
  <2> DEFINE b == Observe(Link(Link(active, "end"), "exit"))
             boundary == IF Event.tag = "crash" THEN "CrashEnd" ELSE "ShutdownEnd"
             s == Finished(b, Event.at, boundary)
  <2>1. active' = None /\ sessions' = Append(sessions, s)
    BY <1>1, <1>5 DEF End
  <2>2. Forward(b) /\ b.start = active.start
    <3>1. Forward(b)
      BY <1>1, <1>2, <1>3, <1>5, EndLinks
    <3> DEFINE w == Link(active, "end")
               x == Link(w, "exit")
    <3>2. Forward(w) /\ w.start = active.start
      BY <1>1, <1>2, <1>3, <1>5, BuilderSteps, CoreSteps DEF Roles, SameCore
    <3> HIDE DEF w
    <3>3. Forward(x) /\ x.start = w.start
      <4>1. w \in Builder
        BY <3>2 DEF Forward
      <4> QED BY <1>1, <1>3, <3>2, <4>1, BuilderSteps, CoreSteps DEF Roles, SameCore
    <3> HIDE DEF x
    <3>4. Observe(x).start = x.start
      <4>1. x \in Builder
        BY <3>3 DEF Forward
      <4> QED BY <4>1, CoreSteps
    <3> QED BY <3>1, <3>2, <3>3, <3>4 DEF w, x
  <2>3. boundary \in Boundaries
    BY DEF Boundaries, Observed
  <2> HIDE DEF b, boundary
  <2>4. s \in Session
    BY <1>1, <2>2, <2>3, FinishedIsSound DEF Sound
  <2>5. s.start = active.start /\ (active.start <= Happened(input, Spot).at => s.end = Happened(input, Spot).at)
    <3>1. active.start \in Int
      BY <1>2, <1>5 DEF Timed
    <3> QED BY <1>1, <1>2, <2>2, <3>1 DEF Finished
  <2>6. Happened(input, Spot).tag \in Ends
    BY <1>1, <1>2
  <2> HIDE DEF s
  <2>7. HistoryStands(input, Known \cup {Spot}, Append(sessions, s), None)
    BY <1>1, <1>2, <1>3, <1>5, <2>4, <2>5, <2>6, HistoryEnds
  <2> QED BY <2>1, <2>7 DEF Tells
<1> QED BY <1>4, <1>5

\* Every step keeps what is known of the launches.
LEMMA TruthStep == IInv /\ PreviousStands /\ TruthStands /\ [Next]_vars => TruthStands'
<1> SUFFICES ASSUME IInv, PreviousStands, TruthStands, [Next]_vars, input'.launches # None
             PROVE  TruthStands'
  BY DEF TruthStands
<1>1. input' = input
  BY DEF Next, SkipLog, OpenLog, CloseLog, SkipCopy, StartUndated, StartAgain, Start, Version,
         Activity, Disconnect, Stopping, End, FinishTail, NextEvent, vars
<1>2. /\ InputStands /\ SessionsStand /\ Truthful(input) /\ Truthful(input)' /\ ReadingStands
      /\ HistoryStands(input, Known, sessions, active)
            \/ (Done /\ Len(sessions) = Len(input.launches) /\ ToldAs(input, sessions))
  BY <1>1 DEF IInv, TruthStands, Known
<1>3. ASSUME ReadingStands', HistoryStands(input, Passed(input, i', j'), sessions', active')
      PROVE  TruthStands'
  BY <1>1, <1>2, <1>3 DEF TruthStands
<1>4. CASE UNCHANGED vars
  BY <1>1, <1>2, <1>4 DEF vars, TruthStands, ReadingStands, Done, Running, logs, Known
<1>5. ASSUME Running
      PROVE  HistoryStands(input, Known, sessions, active)
  BY <1>2, <1>5 DEF Done
<1>6. CASE SkipLog
  <2>1. Running /\ active' = active /\ sessions' = sessions
    BY <1>6 DEF SkipLog
  <2>2. ReadingStands' /\ Passed(input, i', j') = Known
    BY <1>2, <1>6, SkipReads
  <2> QED BY <1>3, <1>5, <2>1, <2>2
<1>7. CASE OpenLog
  <2>1. Running /\ active' = active /\ sessions' = sessions
    BY <1>7 DEF OpenLog
  <2>2. ReadingStands' /\ Passed(input, i', j') = Known
    BY <1>2, <1>7, OpenReads
  <2> QED BY <1>3, <1>5, <2>1, <2>2
<1>8. CASE CloseLog
  <2>1. Running /\ active' = active /\ sessions' = sessions
    BY <1>8 DEF CloseLog
  <2>2. ReadingStands' /\ Passed(input, i', j') = Known
    BY <1>2, <1>8, CloseReads
  <2> QED BY <1>3, <1>5, <2>1, <2>2
<1>9. CASE SkipCopy
  <2>1. Looking /\ Running /\ IsCopy /\ Counted /\ NextEvent /\ active' = active /\ sessions' = sessions
        /\ i' = i /\ j' = j + 1
    BY <1>9 DEF SkipCopy, Looking, NextEvent
  <2>2. ReadingStands'
    BY <1>2, <2>1, ReadingGoesOn
  <2>3. Passed(input, i, j + 1) = Known
    BY <1>2, <2>1, EventIsFresh
  <2> QED BY <1>3, <1>5, <2>1, <2>2, <2>3
<1>10. ASSUME Looking, ~IsCopy, Counted, NextEvent, Telling => Tells(sessions', active')
       PROVE  TruthStands'
  <2>1. Running /\ i' = i /\ j' = j + 1
    BY <1>10 DEF Looking, NextEvent
  <2>2. HistoryStands(input, Known, sessions, active)
    BY <1>5, <2>1
  <2>3. Telling
    BY <1>2, <1>10, <2>2 DEF Telling
  <2>4. ReadingStands'
    BY <1>2, <1>10, ReadingGoesOn
  <2>5. Passed(input, i, j + 1) = Known \cup {Spot}
    BY <2>3, EventTells
  <2>6. HistoryStands(input, Passed(input, i', j'), sessions', active')
    BY <1>10, <2>1, <2>3, <2>5 DEF Tells
  <2> QED BY <1>3, <2>4, <2>6
<1>11. CASE StartUndated
  <2>1. Looking /\ Event.at = None
    BY <1>11 DEF StartUndated
  <2>2. Event.at \in Int
    BY <1>2, <2>1, EventIsFresh
  <2> QED BY <2>1, <2>2
<1>12. CASE StartAgain
  BY <1>10, <1>12, TellsStartAgain DEF StartAgain
<1>13. CASE Start
  BY <1>10, <1>13, TellsStart DEF Start
<1>14. CASE Version
  BY <1>10, <1>14, TellsOther DEF Version
<1>15. CASE Activity
  BY <1>10, <1>15, TellsActivity DEF Activity
<1>16. CASE Disconnect
  BY <1>10, <1>16, TellsOther DEF Disconnect
<1>17. CASE Stopping
  BY <1>10, <1>17, TellsOther DEF Stopping
<1>18. CASE End
  BY <1>10, <1>18, TellsEnd DEF End
<1>19. CASE FinishTail
  <2>1. /\ ~Running /\ active # None /\ sessions' = Append(sessions, TailEnd(active)) /\ active' = None
        /\ i' = i /\ j' = j /\ seen' = seen /\ previous' = previous /\ copied' = copied /\ keyed' = keyed
    BY <1>19 DEF FinishTail
  <2>2. ReadingStands' /\ Done'
    BY <1>1, <1>2, <2>1 DEF ReadingStands, Done, Running, logs
  <2>3. Known = Fresh(input)
    <3>1. input.logs \in Seq(Log) /\ i = Len(input.logs) + 1 /\ Len(input.logs) \in Nat
          /\ DOMAIN input.logs = 1..Len(input.logs)
      BY <1>2, <2>1 DEF InputStands, Running, logs
    <3>2. \A p \in Fresh(input) : p[1] < i
      BY <1>2, <3>1, FreshType
    <3> QED BY <3>2 DEF Known, Passed
  <2>4. HistoryStands(input, Fresh(input), sessions, active)
    BY <1>2, <2>1, <2>3 DEF Done
  <2>5. /\ input.logs \in Seq(Log) /\ sessions \in Seq(Session)
        /\ TailEnd(active) \in Session /\ Timed(active)
    <3>1. Forward(active)
      BY <1>2, <2>1 DEF SessionsStand
    <3> QED BY <1>2, <3>1, TailEndIsSound, BuilderIsTimed DEF Sound, InputStands, SessionsStand, logs
  <2>6. /\ Len(Append(sessions, TailEnd(active))) = Len(input.launches)
        /\ ToldAs(input, Append(sessions, TailEnd(active)))
    BY <1>2, <2>1, <2>4, <2>5, HistoryTail
  <2> QED BY <1>1, <1>2, <2>1, <2>2, <2>6 DEF TruthStands
<1> QED
  BY <1>4, <1>6, <1>7, <1>8, <1>9, <1>11, <1>12, <1>13, <1>14, <1>15, <1>16, <1>17, <1>18, <1>19 DEF Next

\* Nothing is told before anything is read.
LEMMA TruthStarts == Init => TruthStands
<1> SUFFICES ASSUME Init, input.launches # None
             PROVE  TruthStands
  BY DEF TruthStands
<1>1. Truthful(input) /\ input.logs \in Seq(Log)
  BY HistoriesAssumption, InputsAssumption DEF Init
<1>2. i = 1 /\ j = 0 /\ seen = {} /\ previous = <<>> /\ active = None /\ sessions = <<>>
  BY DEF Init
<1>3. ReadingStands
  <2>1. 1..(1 - 1) = {}
    OBVIOUS
  <2>2. {logs[b].content : b \in {}} = {}
    OBVIOUS
  <2> QED BY <1>2, <2>1, <2>2 DEF ReadingStands
<1>4. Passed(input, 1, 0) = {}
  <2>1. \A p \in Fresh(input) : p[1] \in Nat \ {0} /\ p[2] \in Nat
    BY <1>1, FreshType
  <2>2. \A p \in Fresh(input) : ~(p[1] < 1 \/ (p[1] = 1 /\ p[2] < 0))
    BY <2>1
  <2> QED BY <2>2 DEF Passed
<1>5. HistoryStands(input, {}, <<>>, None)
  <2>1. Begun(<<>>, None) = 0
    BY DEF Begun
  <2> QED BY <2>1 DEF HistoryStands, ToldAs
<1> QED BY <1>1, <1>2, <1>3, <1>4, <1>5 DEF TruthStands

\* Of logs written by known launches, however they are split by rotation,
\* copied whole or overlapping, each launch gives one session, which begins
\* and ends as is known of it.
THEOREM LaunchesAreToldOnce == Spec => []EveryLaunchIsToldOnce
<1>1. TruthStands /\ IInv => EveryLaunchIsToldOnce
  <2> SUFFICES ASSUME TruthStands, IInv, Done, input.launches # None
               PROVE  [k \in DOMAIN sessions |-> <<sessions[k].start, sessions[k].end>>] = input.launches
    BY DEF EveryLaunchIsToldOnce
  <2>1. /\ Truthful(input) /\ input.logs \in Seq(Log) /\ sessions \in Seq(Session) /\ active = None
        /\ i \in 1..(Len(logs) + 1) /\ ~Running
    BY DEF TruthStands, IInv, InputStands, SessionsStand, Done, logs
  <2>2. Passed(input, i, j) = Fresh(input)
    <3>1. i = Len(input.logs) + 1 /\ Len(input.logs) \in Nat /\ DOMAIN input.logs = 1..Len(input.logs)
      BY <2>1 DEF Running, logs
    <3>2. \A p \in Fresh(input) : p[1] < i
      BY <2>1, <3>1, FreshType
    <3> QED BY <3>2 DEF Passed
  <2>3. Len(sessions) = Len(input.launches) /\ ToldAs(input, sessions)
    <3>1. CASE HistoryStands(input, Fresh(input), sessions, None)
      <4>1. Begun(sessions, None) = Len(input.launches)
        BY <2>1, <3>1, HistoryDone
      <4> QED BY <2>1, <3>1, <4>1 DEF Begun, HistoryStands
    <3> QED BY <2>1, <2>2, <3>1 DEF TruthStands
  <2>4. /\ input.launches \in Seq(Int \X Int) /\ DOMAIN input.launches = 1..Len(input.launches)
        /\ DOMAIN sessions = 1..Len(sessions)
    BY <2>1 DEF Truthful
  <2>5. \A k \in DOMAIN input.launches : input.launches[k] = <<sessions[k].start, sessions[k].end>>
    <3> SUFFICES ASSUME NEW k \in DOMAIN input.launches
                 PROVE  input.launches[k] = <<sessions[k].start, sessions[k].end>>
      OBVIOUS
    <3>1. input.launches[k] \in Int \X Int
      BY <2>4
    <3>2. input.launches[k] = <<input.launches[k][1], input.launches[k][2]>>
      BY <3>1
    <3>3. k \in DOMAIN sessions
      BY <2>3, <2>4
    <3> QED BY <2>3, <3>2, <3>3 DEF ToldAs
  <2>6. input.launches = [k \in DOMAIN input.launches |-> input.launches[k]]
    <3> DEFINE L == input.launches
    <3>1. L \in [1..Len(L) -> Int \X Int]
      BY <2>4
    <3> HIDE DEF L
    <3>2. L = [k \in DOMAIN L |-> L[k]]
      BY <3>1
    <3> QED BY <3>2 DEF L
  <2> QED BY <2>3, <2>4, <2>5, <2>6
<1>2. Init => PreviousStands
  BY DEF Init, PreviousStands
<1> QED BY <1>1, <1>2, TruthStarts, TruthStep, PreviousStep, InvariantHolds, PTL DEF Spec
=============================================================================
