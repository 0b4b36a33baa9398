------------------------ MODULE SourceArchive_proofs ------------------------
(***************************************************************************)
(* The archive of an instance stays well formed and every session in it    *)
(* stays traceable to recorded evidence, for every number of launches,     *)
(* rotations, scans and parser revisions and under every fault; without    *)
(* quick scans, complete scans catch up, while every log parses no launch  *)
(* is forgotten, and while every file is found a deep scan over logs that  *)
(* did not change changes no session.                                      *)
(*                                                                         *)
(* The invariant adds to traceability that a link leads to a generation    *)
(* that exists: generations are only ever appended, so what a link once    *)
(* led to stays what it leads to, and a session that a scan leaves alone   *)
(* keeps its evidence; a session that the scan builds has its evidence in  *)
(* the generations just recorded.                                          *)
(*                                                                         *)
(* The next two say what the generation recorded last of a path holds:     *)
(* each of its starts has a session, and what no replacement came after    *)
(* still stands in it.  The last ones compare the archive with what the    *)
(* generations recorded last yield.                                        *)
(***************************************************************************)
EXTENDS SourceArchive, TLAPS

LinksStand == \A k \in links : k[3] \in DOMAIN revisions[k[2]]

IInv ==
    /\ TypeOK
    /\ LinksStand
    /\ SessionsAreTraceable

USE BoundsAssumption DEF BoundsAssumption

\* The initial archive is well formed.
LEMMA InitType == Init => TypeOK
<1> SUFFICES ASSUME Init PROVE TypeOK
  OBVIOUS
<1>1. Latest \in Paths
  BY DEF Latest, Paths
<1>2. /\ disk \in [Paths -> Seq(Event)]
      /\ revisions \in [Paths -> Seq(Revision)]
  BY DEF Init
<1>3. exists \subseteq Paths
  BY <1>1 DEF Init
<1>4. /\ rotations \in 0..MaxRotations /\ launches \in 0..MaxLaunches
      /\ parser \in 1..MaxParser /\ scans \in 0..MaxScans
  BY DEF Init
<1>5. playing \in BOOLEAN /\ (playing => launches # 0)
  BY DEF Init
<1>6. /\ present \subseteq Paths /\ sessions \subseteq Session
      /\ links \subseteq Session \X Paths \X Nat /\ dataset \in Nat
  BY DEF Init
<1> QED
  BY <1>2, <1>3, <1>4, <1>5, <1>6 DEF TypeOK

\* What a scan may observe is made of paths.
LEMMA ObservedPaths ==
  ASSUME TypeOK, NEW m \in Modes, NEW obs \in Observable(m)
  PROVE  obs \subseteq Paths
<1> QED
  BY DEF Observable, Offered, TypeOK

\* decide and the recording of its decision keep the generations well formed.
LEMMA RecordedType ==
  ASSUME TypeOK, NEW obs \in SUBSET Paths, NEW deferred \in BOOLEAN
  PROVE  Recorded(obs, deferred) \in [Paths -> Seq(Revision)]
<1>1. ASSUME NEW p \in Changed(obs)
      PROVE  [content |-> disk[p], parser |-> parser, change |-> Decide(p),
              status |-> IF deferred THEN "failed" ELSE "parsed"] \in Revision
  <2>1. p \in Paths
    BY <1>1 DEF Changed
  <2>2. Decide(p) \in Decision
    BY <1>1 DEF Changed, Decide, Decision
  <2>3. disk[p] \in Seq(Event) /\ parser \in 1..MaxParser
    BY <2>1 DEF TypeOK
  <2> QED
    BY <2>2, <2>3 DEF Revision
<1>2. ASSUME NEW p \in Paths
      PROVE  revisions[p] \in Seq(Revision)
  BY DEF TypeOK
<1> QED
  BY <1>1, <1>2 DEF Recorded

\* Recording appends: what stood in a generation stands there afterwards.
LEMMA RecordedAppends ==
  ASSUME TypeOK, NEW obs \in SUBSET Paths, NEW deferred \in BOOLEAN,
         NEW p \in Paths, NEW g \in DOMAIN revisions[p]
  PROVE  /\ g \in DOMAIN Recorded(obs, deferred)[p]
         /\ Recorded(obs, deferred)[p][g] = revisions[p][g]
<1>1. revisions[p] \in Seq(Revision)
  BY DEF TypeOK
<1>2. ASSUME NEW r
      PROVE  /\ g \in DOMAIN Append(revisions[p], r)
             /\ Append(revisions[p], r)[g] = revisions[p][g]
  BY <1>1
<1> QED
  BY <1>2 DEF Recorded

\* The generation that holds the evidence of an observed path is recorded,
\* with the content that the path has.
LEMMA EvidenceRecorded ==
  ASSUME TypeOK, NEW obs \in SUBSET Paths, NEW deferred \in BOOLEAN, NEW p \in obs
  PROVE  /\ NewGeneration(p) \in DOMAIN Recorded(obs, deferred)[p]
         /\ Recorded(obs, deferred)[p][NewGeneration(p)].content = disk[p]
<1>1. p \in Paths /\ revisions[p] \in Seq(Revision)
  BY DEF TypeOK
<1>2. CASE Decide(p) = "unchanged"
  <2>1. Generation(p) # 0 /\ Current(p).content = disk[p]
    BY <1>2 DEF Decide
  <2>2. Recorded(obs, deferred)[p] = revisions[p]
    BY <1>1, <1>2 DEF Recorded, Changed
  <2> QED
    BY <1>1, <1>2, <2>1, <2>2 DEF NewGeneration, Generation, Current
<1>3. CASE Decide(p) # "unchanged"
  <2> DEFINE r == [content |-> disk[p], parser |-> parser, change |-> Decide(p),
                   status |-> IF deferred THEN "failed" ELSE "parsed"]
  <2>1. Recorded(obs, deferred)[p] = Append(revisions[p], r)
    BY <1>1, <1>3 DEF Recorded, Changed
  <2>2. NewGeneration(p) = Len(revisions[p]) + 1
    BY <1>3 DEF NewGeneration, Generation
  <2>3. r.content = disk[p]
    OBVIOUS
  <2> HIDE DEF r
  <2> QED
    BY <1>1, <2>1, <2>2, <2>3
<1> QED
  BY <1>2, <1>3

\* A place is an observed path and a position in its log, with an event there.
LEMMA PlaceEvent ==
  ASSUME TypeOK, NEW obs \in SUBSET Paths, NEW a \in Place(obs)
  PROVE  /\ a = <<a[1], a[2]>> /\ a[1] \in obs
         /\ a[2] \in DOMAIN disk[a[1]] /\ At(a) \in Event
<1>1. PICK p \in obs : a \in {p} \X DOMAIN disk[p]
  BY DEF Place
<1>2. disk[p] \in Seq(Event)
  BY DEF TypeOK
<1> QED
  BY <1>1, <1>2 DEF At

\* A reconstructed session is well formed, its sources are observed paths,
\* and its boundaries stand in the logs of its sources.
LEMMA SessionBuilt ==
  ASSUME TypeOK, NEW obs \in SUBSET Paths, NEW a \in Starts(obs)
  PROVE  LET s == SessionAt(obs, a) IN
         /\ s \in Session
         /\ SourcesAt(obs, a) \subseteq obs
         /\ \E p \in SourcesAt(obs, a) : \E i \in DOMAIN disk[p] :
               disk[p][i] = [kind |-> "start", launch |-> s.start]
         /\ s.stop # NoStop =>
               \E p \in SourcesAt(obs, a) : \E i \in DOMAIN disk[p] :
                  disk[p][i] = [kind |-> "stop", launch |-> s.stop]
<1> DEFINE s == SessionAt(obs, a)
           b == CHOOSE x \in FirstStop(obs, a) : TRUE
<1>1. /\ a \in Place(obs) /\ At(a).kind = "start"
      /\ a[1] \in obs /\ a[2] \in DOMAIN disk[a[1]] /\ At(a) \in Event
  BY PlaceEvent DEF Starts
<1>2. ASSUME NEW x \in StopsOf(obs, a)
      PROVE  /\ x[1] \in obs /\ x[2] \in DOMAIN disk[x[1]]
             /\ At(x) \in Event /\ At(x).kind = "stop"
  <2>1. x \in Place(obs) /\ At(x).kind = "stop"
    BY DEF StopsOf
  <2> QED
    BY <2>1, PlaceEvent
<1>3. SourcesAt(obs, a) \subseteq obs
  BY <1>1, <1>2 DEF SourcesAt
<1>4. s.start = At(a).launch /\ s.start \in Launches
  BY <1>1 DEF SessionAt, Event
<1>5. \E p \in SourcesAt(obs, a) : \E i \in DOMAIN disk[p] :
         disk[p][i] = [kind |-> "start", launch |-> s.start]
  <2>1. disk[a[1]][a[2]] = [kind |-> "start", launch |-> s.start]
    BY <1>1, <1>4 DEF At, Event
  <2>2. a[1] \in SourcesAt(obs, a)
    BY DEF SourcesAt
  <2> QED
    BY <1>1, <2>1, <2>2
<1>6. CASE FirstStop(obs, a) = {}
  <2>1. s = [start |-> At(a).launch, stop |-> NoStop]
    BY <1>6 DEF SessionAt
  <2> QED
    BY <1>1, <1>3, <1>5, <2>1 DEF Session, Event
<1>7. CASE FirstStop(obs, a) # {}
  <2>1. b \in StopsOf(obs, a)
    BY <1>7 DEF FirstStop
  <2>2. s = [start |-> At(a).launch, stop |-> At(b).launch]
    BY <1>7 DEF SessionAt
  <2>3. s \in Session
    BY <1>1, <1>2, <2>1, <2>2 DEF Session, Event
  <2>4. s.stop = At(b).launch
    BY <2>2
  <2> HIDE DEF s, b
  <2>5. b[1] \in SourcesAt(obs, a)
    BY <2>1 DEF SourcesAt
  <2>6. b[2] \in DOMAIN disk[b[1]] /\ At(b) \in Event /\ At(b).kind = "stop"
    BY <1>2, <2>1
  <2>7. disk[b[1]][b[2]] = [kind |-> "stop", launch |-> s.stop]
    BY <2>4, <2>6 DEF At, Event
  <2> QED
    BY <1>3, <1>5, <2>3, <2>5, <2>6, <2>7 DEF s
<1> QED
  BY <1>6, <1>7

\* The links of the payload are well formed and lead to generations that the
\* scan has recorded.
LEMMA PayloadLinksStand ==
  ASSUME TypeOK, NEW obs \in SUBSET Paths, NEW deferred \in BOOLEAN,
         NEW k \in PayloadLinks(obs)
  PROVE  /\ k \in Session \X Paths \X Nat
         /\ k[3] \in DOMAIN Recorded(obs, deferred)[k[2]]
<1>1. PICK a \in Starts(obs) : \E p \in SourcesAt(obs, a) :
         k = <<SessionAt(obs, a), p, NewGeneration(p)>>
  BY DEF PayloadLinks
<1>2. PICK p \in SourcesAt(obs, a) : k = <<SessionAt(obs, a), p, NewGeneration(p)>>
  BY <1>1
<1>3. SessionAt(obs, a) \in Session /\ p \in obs
  BY SessionBuilt
<1>4. NewGeneration(p) \in DOMAIN Recorded(obs, deferred)[p]
  BY <1>3, EvidenceRecorded
<1>5. revisions[p] \in Seq(Revision)
  BY <1>3 DEF TypeOK
<1>6. NewGeneration(p) \in Nat
  BY <1>5 DEF NewGeneration, Generation
<1> QED
  BY <1>2, <1>3, <1>4, <1>6

\* One step of the specification keeps the archive well formed.
LEMMA TypeStep == TypeOK /\ [Next]_vars => TypeOK'
<1> SUFFICES ASSUME TypeOK, [Next]_vars PROVE TypeOK'
  OBVIOUS
<1> USE DEF folder, catalog
<1>1. Latest \in Paths /\ rotations + 1 \in Int
  BY DEF Latest, Paths, TypeOK
<1>2. ASSUME NEW kind \in {"start", "stop"}, NEW l \in Launches, Write(kind, l)
      PROVE  disk' \in [Paths -> Seq(Event)]
  <2>1. [kind |-> kind, launch |-> l] \in Event
    BY DEF Event
  <2> QED
    BY <1>1, <1>2, <2>1 DEF Write, TypeOK
<1>3. CASE StartGame
  <2>1. launches + 1 \in Launches
    BY <1>3 DEF StartGame, TypeOK, Launches
  <2>2. disk' \in [Paths -> Seq(Event)]
    BY <1>2, <1>3, <2>1 DEF StartGame
  <2>3. launches' \in 0..MaxLaunches /\ launches' # 0 /\ playing' \in BOOLEAN
    BY <1>3 DEF StartGame, TypeOK
  <2> QED
    BY <1>3, <2>2, <2>3 DEF StartGame, TypeOK
<1>4. CASE StopGame
  <2>1. launches \in Launches
    BY <1>4 DEF StopGame, TypeOK, Launches
  <2>2. disk' \in [Paths -> Seq(Event)]
    BY <1>2, <1>4, <2>1 DEF StopGame
  <2>3. playing' = FALSE
    BY <1>4 DEF StopGame
  <2> QED
    BY <1>4, <2>2, <2>3 DEF StopGame, TypeOK
<1>5. CASE Rotate
  <2>1. disk' \in [Paths -> Seq(Event)]
    BY SMTT(20), <1>5, <1>1 DEF Rotate, TypeOK
  <2>2. rotations' \in 0..MaxRotations /\ rotations + 1 \in Paths
    BY <1>5 DEF Rotate, TypeOK, Paths, Latest
  <2> QED
    BY <1>5, <2>1, <2>2 DEF Rotate, TypeOK
<1>6. ASSUME NEW p \in Paths, DeleteRotation(p)
      PROVE  TypeOK'
  BY <1>6 DEF DeleteRotation, TypeOK
<1>7. CASE UpgradeParser
  <2>1. parser' \in 1..MaxParser
    BY <1>7 DEF UpgradeParser, TypeOK
  <2> QED
    BY <1>7, <2>1 DEF UpgradeParser, TypeOK
<1>8. ASSUME NEW m \in Modes, NEW obs \in Observable(m), NEW deferred \in BOOLEAN,
             Scan(m, obs, deferred)
      PROVE  TypeOK'
  <2>1. obs \in SUBSET Paths
    BY ObservedPaths
  <2>2. revisions' \in [Paths -> Seq(Revision)]
    BY <1>8, <2>1, RecordedType DEF Scan
  <2>3. scans' \in 0..MaxScans /\ dataset' \in Nat
    BY <1>8 DEF Scan, TypeOK
  <2>4. present' \subseteq Paths
    BY <1>8, <2>1 DEF Scan, TypeOK
  <2>5. sessions' \subseteq Session /\ links' \subseteq Session \X Paths \X Nat
    <3>1. Kept(m, obs, Recorded(obs, deferred)) \subseteq Session
      BY DEF Kept, TypeOK
    <3>2. Reconstructed(obs) \subseteq Session
      BY <2>1, SessionBuilt, ZenonT(30) DEF Reconstructed
    <3>3. PayloadLinks(obs) \subseteq Session \X Paths \X Nat
      BY <2>1, PayloadLinksStand
    <3> QED
      BY <1>8, <3>1, <3>2, <3>3 DEF Scan, Install, TypeOK
  <2> QED
    BY <1>8, <2>2, <2>3, <2>4, <2>5 DEF Scan, TypeOK
<1>9. CASE UNCHANGED vars
  BY <1>9 DEF vars, TypeOK
<1> QED
  BY <1>3, <1>4, <1>5, <1>6, <1>7, <1>8, <1>9 DEF Next

\* The archive is well formed in every instance of the model.
THEOREM TypeCorrect == Spec => []TypeOK
<1> QED
  BY InitType, TypeStep, PTL DEF Spec

\* What a session is linked to before a scan still evidences it after the
\* scan, if the scan keeps those links.
LEMMA EvidenceStays ==
  ASSUME TypeOK, LinksStand, NEW obs \in SUBSET Paths, NEW deferred \in BOOLEAN,
         revisions' = Recorded(obs, deferred),
         NEW s \in Session, NEW e, Evidenced(s, e),
         \A k \in links : k[1] = s => k \in links'
  PROVE  Evidenced(s, e)'
<1>1. PICK k \in links : k[1] = s /\ Stands(k[2], k[3], e)
  BY DEF Evidenced
<1>2. k[2] \in Paths /\ k[3] \in DOMAIN revisions[k[2]]
  BY DEF TypeOK, LinksStand
<1>3. revisions'[k[2]][k[3]] = revisions[k[2]][k[3]]
  BY <1>2, RecordedAppends
<1>4. Stands(k[2], k[3], e)'
  BY <1>1, <1>3 DEF Stands
<1>5. k \in links'
  BY <1>1
<1> QED
  BY <1>1, <1>4, <1>5 DEF Evidenced

\* A session that the scan builds is evidenced by what the scan recorded.
LEMMA PayloadEvidenced ==
  ASSUME TypeOK, NEW obs \in SUBSET Paths, NEW deferred \in BOOLEAN,
         revisions' = Recorded(obs, deferred),
         PayloadLinks(obs) \subseteq links',
         NEW a \in Starts(obs), NEW s, s = SessionAt(obs, a),
         NEW e, NEW p \in SourcesAt(obs, a),
         \E i \in DOMAIN disk[p] : disk[p][i] = e
  PROVE  Evidenced(s, e)'
<1>1. PICK g : g = NewGeneration(p)
  OBVIOUS
<1>2. <<s, p, g>> \in links'
  BY <1>1 DEF PayloadLinks
<1>3. p \in obs
  BY SessionBuilt
<1>4. revisions'[p][g].content = disk[p]
  BY <1>1, <1>3, EvidenceRecorded
<1>5. Stands(p, g, e)'
  BY <1>4 DEF Stands
<1> QED
  BY <1>2, <1>5 DEF Evidenced

\* A scan keeps every link standing.
LEMMA ScanLinksStand ==
  ASSUME TypeOK, LinksStand, NEW m \in Modes, NEW obs \in SUBSET Paths,
         NEW deferred \in BOOLEAN, Scan(m, obs, deferred)
  PROVE  LinksStand'
<1>1. revisions' = Recorded(obs, deferred)
  BY DEF Scan
<1>2. ASSUME NEW k \in links
      PROVE  k[3] \in DOMAIN Recorded(obs, deferred)[k[2]]
  <2>1. k[2] \in Paths /\ k[3] \in DOMAIN revisions[k[2]]
    BY DEF TypeOK, LinksStand
  <2> QED
    BY <2>1, RecordedAppends
<1>3. ASSUME NEW k \in links'
      PROVE  k \in links \/ k \in PayloadLinks(obs)
  BY DEF Scan, Install
<1> QED
  BY <1>1, <1>2, <1>3, PayloadLinksStand DEF LinksStand

\* A scan keeps every session traceable.
LEMMA ScanTraceable ==
  ASSUME IInv, NEW m \in Modes, NEW obs \in SUBSET Paths,
         NEW deferred \in BOOLEAN, Scan(m, obs, deferred)
  PROVE  SessionsAreTraceable'
<1> DEFINE Wanted(s, e) ==
      \/ e = [kind |-> "start", launch |-> s.start]
      \/ s.stop # NoStop /\ e = [kind |-> "stop", launch |-> s.stop]
<1>1. SUFFICES ASSUME NEW s \in sessions', NEW e, Wanted(s, e)
               PROVE  Evidenced(s, e)'
  BY DEF SessionsAreTraceable
<1>2. revisions' = Recorded(obs, deferred)
  BY DEF Scan
<1>3. ASSUME s \in sessions, \A k \in links : k[1] = s => k \in links'
      PROVE  Evidenced(s, e)'
  <2>1. s \in Session /\ Evidenced(s, e)
    BY <1>1, <1>3 DEF IInv, TypeOK, SessionsAreTraceable
  <2> QED
    BY <1>2, <1>3, <2>1, EvidenceStays DEF IInv
<1>4. CASE UNCHANGED <<sessions, links>>
  BY <1>3, <1>4
<1>5. CASE Install(obs, Kept(m, obs, Recorded(obs, deferred)), Recorded(obs, deferred))
  <2>1. PayloadLinks(obs) \subseteq links'
    BY <1>5 DEF Install
  <2>2. CASE s \in Reconstructed(obs)
    <3>1. PICK a \in Starts(obs) : s = SessionAt(obs, a)
      BY <2>2 DEF Reconstructed
    <3>2. /\ \E p \in SourcesAt(obs, a) : \E i \in DOMAIN disk[p] :
                disk[p][i] = [kind |-> "start", launch |-> s.start]
          /\ s.stop # NoStop =>
                \E p \in SourcesAt(obs, a) : \E i \in DOMAIN disk[p] :
                   disk[p][i] = [kind |-> "stop", launch |-> s.stop]
      BY <3>1, SessionBuilt DEF IInv
    <3>3. \E p \in SourcesAt(obs, a) : \E i \in DOMAIN disk[p] : disk[p][i] = e
      BY <1>1, <3>2
    <3> QED
      BY <1>2, <2>1, <3>1, <3>3, PayloadEvidenced DEF IInv
  <2>3. CASE s \notin Reconstructed(obs)
    <3>1. s \in Kept(m, obs, Recorded(obs, deferred))
      BY <1>1, <1>5, <2>3 DEF Install
    <3>2. s \in sessions
      BY <3>1 DEF Kept
    <3>3. \A k \in links : k[1] = s => k \in links'
      BY <1>5, <2>3, <3>1 DEF Install
    <3> QED
      BY <1>3, <3>2, <3>3
  <2> QED
    BY <2>2, <2>3
<1> QED
  BY <1>4, <1>5 DEF Scan

\* The strengthened invariant holds at first.
LEMMA InitInv == Init => IInv
<1> QED
  BY InitType DEF Init, IInv, LinksStand, SessionsAreTraceable

\* Every step keeps the strengthened invariant: only scans touch what it
\* speaks of.
LEMMA InvStep == IInv /\ [Next]_vars => IInv'
<1> SUFFICES ASSUME IInv, [Next]_vars PROVE IInv'
  OBVIOUS
<1>1. TypeOK'
  BY TypeStep DEF IInv
<1>2. CASE UNCHANGED catalog
  BY SMTT(20), <1>1, <1>2 DEF IInv, LinksStand, SessionsAreTraceable, Evidenced, Stands, catalog
<1>3. ASSUME NEW m \in Modes, NEW obs \in Observable(m), NEW deferred \in BOOLEAN,
             Scan(m, obs, deferred)
      PROVE  IInv'
  <2>1. obs \in SUBSET Paths
    BY ObservedPaths DEF IInv
  <2> QED
    BY <1>1, <1>3, <2>1, ScanLinksStand, ScanTraceable DEF IInv
<1>4. UNCHANGED catalog \/ \E m \in Modes : \E obs \in Observable(m), deferred \in BOOLEAN :
         Scan(m, obs, deferred)
  BY DEF Next, vars, StartGame, StopGame, Rotate, DeleteRotation, UpgradeParser
<1> QED
  BY <1>2, <1>3, <1>4

\* Every session of the archive is traceable to the generations it is linked
\* to, whatever scans of whatever modes did, and whatever failed.
THEOREM SessionsTraceable == Spec => []SessionsAreTraceable
<1>1. IInv => SessionsAreTraceable
  BY DEF IInv
<1> QED
  BY <1>1, InitInv, InvStep, PTL DEF Spec

-----------------------------------------------------------------------------
(***************************************************************************)
(* What is never forgotten.  Quick scans are left out: one may delete a    *)
(* session and not build it anew.                                          *)
(***************************************************************************)
\* A change is a scan, or it leaves the database alone.
ScanStep ==
    \E m \in Modes : \E obs \in Observable(m), deferred \in BOOLEAN : Scan(m, obs, deferred)

LEMMA CatalogStep == [Next]_vars => ScanStep \/ UNCHANGED catalog
BY DEF Next, vars, StartGame, StopGame, Rotate, DeleteRotation, UpgradeParser, ScanStep

\* The starts in an observed log give sessions of the payload.
LEMMA StartIsBuilt ==
  ASSUME NEW obs \in SUBSET Paths, NEW p \in obs, NEW n \in DOMAIN disk[p],
         disk[p][n].kind = "start"
  PROVE  /\ <<p, n>> \in Starts(obs)
         /\ SessionAt(obs, <<p, n>>) \in Reconstructed(obs)
         /\ SessionAt(obs, <<p, n>>).start = disk[p][n].launch
         /\ <<SessionAt(obs, <<p, n>>), p, NewGeneration(p)>> \in PayloadLinks(obs)
<1> DEFINE a == <<p, n>>
<1>1. a[1] = p /\ a[2] = n
  OBVIOUS
<1>2. a \in Place(obs)
  BY DEF Place
<1> HIDE DEF a
<1>3. At(a) = disk[p][n]
  BY <1>1 DEF At
<1>4. a \in Starts(obs)
  BY <1>2, <1>3 DEF Starts
<1>5. SessionAt(obs, a).start = disk[p][n].launch
  BY <1>3 DEF SessionAt
<1>6. p \in SourcesAt(obs, a)
  BY <1>1 DEF SourcesAt
<1>7. SessionAt(obs, a) \in Reconstructed(obs)
  BY <1>4 DEF Reconstructed
<1>8. <<SessionAt(obs, a), p, NewGeneration(p)>> \in PayloadLinks(obs)
  BY <1>4, <1>6 DEF PayloadLinks
<1> QED BY <1>4, <1>5, <1>7, <1>8 DEF a

\* What a scan records of an observed log.
LEMMA RecordedNow ==
  ASSUME TypeOK, NEW obs \in SUBSET Paths, NEW deferred \in BOOLEAN, NEW p \in Paths
  PROVE  LET r == Recorded(obs, deferred)[p] IN
         /\ r \in Seq(Revision) /\ revisions[p] \in Seq(Revision)
         /\ p \notin Changed(obs) => r = revisions[p]
         /\ p \in Changed(obs) =>
               /\ Len(r) = Generation(p) + 1
               /\ r[Len(r)].content = disk[p] /\ r[Len(r)].change = Decide(p)
               /\ r[Len(r)].status = (IF deferred THEN "failed" ELSE "parsed")
<1> DEFINE r == Recorded(obs, deferred)[p]
           e == [content |-> disk[p], parser |-> parser, change |-> Decide(p),
                 status |-> IF deferred THEN "failed" ELSE "parsed"]
<1>1. revisions[p] \in Seq(Revision) /\ Recorded(obs, deferred) \in [Paths -> Seq(Revision)]
  BY RecordedType DEF TypeOK
<1>2. p \notin Changed(obs) => r = revisions[p]
  BY DEF Recorded
<1>3. ASSUME p \in Changed(obs)
      PROVE  /\ Len(r) = Generation(p) + 1
             /\ r[Len(r)].content = disk[p] /\ r[Len(r)].change = Decide(p)
             /\ r[Len(r)].status = (IF deferred THEN "failed" ELSE "parsed")
  <2>1. r = Append(revisions[p], e)
    BY <1>3 DEF Recorded
  <2>2. /\ e.content = disk[p] /\ e.change = Decide(p)
        /\ e.status = (IF deferred THEN "failed" ELSE "parsed")
    OBVIOUS
  <2> HIDE DEF e
  <2>3. Len(r) = Len(revisions[p]) + 1 /\ r[Len(revisions[p]) + 1] = e
    BY <1>1, <2>1
  <2> HIDE DEF r
  <2> QED BY <2>2, <2>3 DEF Generation
<1> QED BY <1>1, <1>2, <1>3

-----------------------------------------------------------------------------
\* Each start in what was last parsed of a path, whether or not the path is
\* still there, has a session that is linked to it.
Covered ==
    \A p \in Paths : Generation(p) # 0 /\ Current(p).status = "parsed" =>
        \A n \in DOMAIN Current(p).content : Current(p).content[n].kind = "start" =>
            \E s \in sessions : /\ s.start = Current(p).content[n].launch
                                /\ <<s, p, Generation(p)>> \in links

LEMMA ScanCovers ==
  ASSUME IInv, Covered, NEW m \in Modes \ {"quick"}, NEW obs \in SUBSET Paths,
         NEW deferred \in BOOLEAN, Scan(m, obs, deferred)
  PROVE  Covered'
<1> DEFINE revs == Recorded(obs, deferred)
           kept == Kept(m, obs, revs)
<1>1. TypeOK /\ LinksStand /\ revisions' = revs /\ disk' = disk
  BY DEF Scan, IInv, folder
<1> SUFFICES ASSUME NEW p \in Paths, Generation(p)' # 0, Current(p).status' = "parsed",
                    NEW n \in DOMAIN Current(p)'.content, Current(p)'.content[n].kind = "start"
             PROVE  \E s \in sessions' : /\ s.start = Current(p)'.content[n].launch
                                         /\ <<s, p, Generation(p)'>> \in links'
  BY DEF Covered
<1>2. Generation(p)' = Len(revs[p]) /\ Current(p)' = revs[p][Len(revs[p])]
  BY <1>1 DEF Generation, Current
<1>3. ASSUME p \notin Changed(obs)
      PROVE  /\ Generation(p)' = Generation(p) /\ Current(p)' = Current(p)
             /\ \E s \in sessions : /\ s.start = Current(p)'.content[n].launch
                                    /\ <<s, p, Generation(p)>> \in links
  <2>1. Generation(p)' = Generation(p) /\ Current(p)' = Current(p)
    BY <1>1, <1>2, <1>3, RecordedNow DEF Generation, Current
  <2> QED BY <2>1 DEF Covered

<1>4. Changed(obs) \subseteq obs
  BY DEF Changed
<1>5. CASE /\ deferred \/ Changed(obs) = {}
           /\ UNCHANGED <<sessions, links>>
  <2>1. p \notin Changed(obs)
    BY <1>1, <1>2, <1>5, RecordedNow
  <2>2. Generation(p)' = Generation(p) /\ sessions' = sessions /\ links' = links
    BY <1>3, <1>5, <2>1
  <2> QED BY <1>3, <2>1, <2>2
<1>6. CASE Install(obs, kept, revs)
  <2>1. CASE p \in obs
    <3>1. Current(p)'.content = disk[p] /\ Generation(p)' = NewGeneration(p)
      <4>1. CASE p \in Changed(obs)
        BY <1>1, <1>2, <4>1, RecordedNow DEF Changed, NewGeneration
      <4>2. CASE p \notin Changed(obs)
        <5>1. Decide(p) = "unchanged"
          BY <2>1, <4>2 DEF Changed
        <5>2. Current(p).content = disk[p] /\ NewGeneration(p) = Generation(p)
          BY <5>1 DEF Decide, NewGeneration
        <5> QED BY <1>3, <4>2, <5>2
      <4> QED BY <4>1, <4>2
    <3>2. n \in DOMAIN disk[p] /\ disk[p][n].kind = "start"
      BY <3>1
    <3> DEFINE s == SessionAt(obs, <<p, n>>)
    <3>3. s \in Reconstructed(obs) /\ s.start = disk[p][n].launch
          /\ <<s, p, NewGeneration(p)>> \in PayloadLinks(obs)
      BY <2>1, <3>2, StartIsBuilt
    <3> HIDE DEF s
    <3>4. s \in sessions' /\ <<s, p, Generation(p)'>> \in links'
      BY <1>6, <3>1, <3>3 DEF Install
    <3> QED BY <3>1, <3>3, <3>4
  <2>2. CASE p \notin obs
    <3>1. p \notin Changed(obs)
      BY <1>4, <2>2
    <3>2. PICK s \in sessions : /\ s.start = Current(p)'.content[n].launch
                                /\ <<s, p, Generation(p)>> \in links
      BY <1>3, <3>1
    <3> DEFINE k == <<s, p, Generation(p)>>
    <3>3. k \in links /\ k[1] = s /\ k[2] = p /\ k[3] = Generation(p)
      BY <3>2
    <3> HIDE DEF k
    <3>4. ~MayReplaceAll(m, obs)
      BY <1>3, <2>2, <3>1 DEF MayReplaceAll
    <3>5. s \in Protected(m, obs, revs)
      BY <2>2, <3>2, <3>3 DEF Protected, Complete
    <3>6. s \in kept
      BY <3>2, <3>4, <3>5 DEF Kept
    <3>7. ~Superseded(revs, p, Generation(p))
      <4>1. revs[p] = revisions[p] /\ revisions[p] \in Seq(Revision)
        BY <1>1, <3>1, RecordedNow
      <4>2. \A h \in DOMAIN revisions[p] : ~(h > Len(revisions[p]))
        BY <4>1
      <4> QED BY <4>1, <4>2 DEF Superseded, Generation
    <3> HIDE DEF kept, revs
    <3>8. s \in sessions' /\ k \in links'
      BY <1>6, <3>3, <3>6, <3>7 DEF Install
    <3>9. k = <<s, p, Generation(p)'>>
      BY <1>3, <3>1 DEF k
    <3> QED BY <3>2, <3>8, <3>9
  <2> QED BY <2>1, <2>2
<1> QED BY <1>1, <1>4, <1>5, <1>6 DEF Scan

\* A complete scan that defers nothing archives every launch whose start it
\* saw, whatever earlier scans skipped, deferred or parsed with an older
\* parser: a log that is left alone because nothing about it changed was
\* covered before.
THEOREM CompleteScansCatchUp ==
  ASSUME "quick" \notin Modes
  PROVE  Spec => CompleteScanArchivesWhatItSaw
<1> DEFINE Saw == \A m \in Modes \ {"quick"} : \A obs \in Observable(m) :
                     Scan(m, obs, FALSE) => \A a \in Starts(obs) : Archived(At(a).launch)'
<1>1. Init => Covered
  BY DEF Init, Covered, Generation
<1>2. IInv /\ Covered /\ [Next]_vars => Covered'
  <2> SUFFICES ASSUME IInv, Covered, [Next]_vars
               PROVE  Covered'
    OBVIOUS
  <2>1. CASE UNCHANGED catalog
    BY <2>1 DEF catalog, Covered, Generation, Current
  <2>2. ASSUME NEW m \in Modes, NEW obs \in Observable(m), NEW deferred \in BOOLEAN,
               Scan(m, obs, deferred)
        PROVE  Covered'
    <3>1. obs \in SUBSET Paths /\ m \in Modes \ {"quick"}
      BY ObservedPaths DEF IInv
    <3> QED BY <2>2, <3>1, ScanCovers
  <2> QED BY <2>1, <2>2, CatalogStep DEF ScanStep
<1>3. IInv /\ Covered /\ IInv' /\ Covered' /\ [Next]_vars => Saw
  <2> SUFFICES ASSUME IInv, Covered, Covered', NEW m \in Modes \ {"quick"}, NEW obs \in Observable(m),
                      Scan(m, obs, FALSE), NEW a \in Starts(obs)
               PROVE  Archived(At(a).launch)'
    OBVIOUS
  <2>1. TypeOK /\ obs \in SUBSET Paths /\ disk' = disk /\ revisions' = Recorded(obs, FALSE)
    BY ObservedPaths DEF IInv, Scan, folder
  <2>2. /\ a[1] \in obs /\ a[1] \in Paths /\ a[2] \in DOMAIN disk[a[1]]
        /\ disk[a[1]][a[2]].kind = "start" /\ At(a)' = disk[a[1]][a[2]]
    BY <2>1, PlaceEvent DEF Starts, At
  <2>3. PICK p, n : p = a[1] /\ n = a[2]
    OBVIOUS
  <2>4. p \in obs /\ p \in Paths /\ n \in DOMAIN disk[p] /\ disk[p][n].kind = "start"
    BY <2>2, <2>3
  <2>5. /\ Generation(p)' # 0 /\ Current(p)'.content = disk[p]
        /\ Current(p)'.status = "parsed"
    <3>1. CASE p \in Changed(obs)
      <4>1. PICK r : r = Recorded(obs, FALSE)[p]
        OBVIOUS
      <4>2. /\ Len(r) = Generation(p) + 1 /\ revisions[p] \in Seq(Revision)
            /\ r[Len(r)].content = disk[p] /\ r[Len(r)].status = "parsed"
        BY <2>1, <2>4, <3>1, <4>1, RecordedNow
      <4>3. Generation(p) \in Nat /\ revisions'[p] = r
        BY <2>1, <4>1, <4>2 DEF Generation
      <4>4. Generation(p)' = Len(r) /\ Current(p)' = r[Len(r)]
        BY <4>3 DEF Generation, Current
      <4> QED BY <4>2, <4>3, <4>4
    <3>2. CASE p \notin Changed(obs)
      <4>1. Decide(p) = "unchanged" /\ revisions[p] \in Seq(Revision)
        BY <2>1, <2>4, <3>2, RecordedNow DEF Changed
      <4>2. /\ Generation(p) # 0 /\ Current(p).content = disk[p]
            /\ Current(p).status # "failed"
        BY <4>1 DEF Decide
      <4>3. Current(p) \in Revision
        BY <4>1, <4>2 DEF Current, Generation
      <4>4. Generation(p)' = Generation(p) /\ Current(p)' = Current(p)
        BY <2>1, <2>4, <3>2, RecordedNow DEF Generation, Current
      <4> QED BY <4>2, <4>3, <4>4 DEF Revision
    <3> QED BY <3>1, <3>2
  <2>6. n \in DOMAIN Current(p)'.content /\ Current(p)'.content[n].kind = "start"
    BY <2>4, <2>5
  <2>7. \E s \in sessions' : s.start = Current(p)'.content[n].launch
    BY <2>4, <2>5, <2>6 DEF Covered
  <2>8. At(a).launch' = Current(p)'.content[n].launch
    BY <2>2, <2>3, <2>5
  <2> QED BY <2>7, <2>8 DEF Archived
<1>4. Spec => [](IInv /\ Covered)
  BY <1>1, <1>2, InitInv, InvStep, PTL DEF Spec
<1>5. Spec => [][Saw]_vars
  BY <1>3, <1>4, PTL DEF Spec
<1> QED BY <1>5 DEF CompleteScanArchivesWhatItSaw

-----------------------------------------------------------------------------
\* What no replacement came after stands in the generation recorded last.
Carried ==
    \A p \in Paths : \A g \in DOMAIN revisions[p] :
        /\ revisions[p][g].status = "parsed"
        /\ ~Superseded(revisions, p, g) =>
              \A n \in DOMAIN revisions[p][g].content :
                  Stands(p, Generation(p), revisions[p][g].content[n])

\* Where one version never fails, a log is not reparsed.
LEMMA NeverReparsed ==
  ASSUME TypeOK, Carried, MaxParser = 1, NEW p \in Paths
  PROVE  Decide(p) # "reparse"
<1>1. CASE Generation(p) = 0
  BY <1>1 DEF Decide
<1>2. CASE Generation(p) # 0
  <2>1. revisions[p] \in Seq(Revision) /\ parser \in 1..1
    BY DEF TypeOK
  <2>2. Generation(p) \in DOMAIN revisions[p]
    BY <1>2, <2>1 DEF Generation
  <2>3. Current(p) \in Revision /\ Current(p).status = "parsed"
    BY <2>1, <2>2 DEF Current, Carried
  <2>4. Current(p).parser = parser
    BY <2>1, <2>3 DEF Revision
  <2> QED BY <2>3, <2>4 DEF Decide
<1> QED BY <1>1, <1>2

\* What no replacement came after stands in the log itself.
LEMMA StillInTheLog ==
  ASSUME TypeOK, Carried, MaxParser = 1, NEW p \in Paths, NEW g \in DOMAIN revisions[p],
         ~Superseded(revisions, p, g), Decide(p) # "replaced", NEW e, Stands(p, g, e)
  PROVE  \E n \in DOMAIN disk[p] : disk[p][n] = e
<1>1. revisions[p] \in Seq(Revision) /\ disk[p] \in Seq(Event)
  BY DEF TypeOK
<1>2. Generation(p) # 0 /\ Generation(p) \in DOMAIN revisions[p]
  BY <1>1 DEF Generation
<1>3. Decide(p) = "unchanged" \/ Decide(p) = "appended"
  BY <1>2, NeverReparsed DEF Decide
<1> DEFINE c == Current(p).content
<1>4. PICK n \in DOMAIN c : c[n] = e
  <2>1. PICK i \in DOMAIN revisions[p][g].content : revisions[p][g].content[i] = e
    BY DEF Stands
  <2>2. Stands(p, Generation(p), revisions[p][g].content[i])
    BY DEF Carried
  <2> QED BY <2>1, <2>2 DEF Stands, Current
<1>5. c \in Seq(Event)
  <2>1. revisions[p][Generation(p)] \in Revision
    BY <1>1, <1>2
  <2> QED BY <2>1 DEF Current, Revision
<1>6. CASE Decide(p) = "unchanged"
  <2>1. c = disk[p]
    BY <1>6 DEF Decide
  <2> QED BY <1>4, <2>1
<1>7. CASE Decide(p) = "appended"
  <2>1. Extends(disk[p], c)
    BY <1>7 DEF Decide
  <2> HIDE DEF c
  <2>2. Len(c) < Len(disk[p]) /\ SubSeq(disk[p], 1, Len(c)) = c
    BY <2>1 DEF Extends
  <2>3. n \in DOMAIN disk[p] /\ n \in 1..Len(c)
    BY <1>1, <1>4, <1>5, <2>2
  <2>4. SubSeq(disk[p], 1, Len(c))[n] = disk[p][n]
    BY <1>1, <1>5, <2>2, <2>3
  <2> QED BY <1>4, <2>2, <2>3, <2>4
<1> QED BY <1>3, <1>6, <1>7

LEMMA ScanCarries ==
  ASSUME TypeOK, Carried, MaxParser = 1, ~ParsingMayFail, NEW m \in Modes,
         NEW obs \in SUBSET Paths, NEW deferred \in BOOLEAN, Scan(m, obs, deferred)
  PROVE  Carried'
<1>1. revisions' = Recorded(obs, FALSE) /\ deferred = FALSE
  BY DEF Scan
<1> SUFFICES ASSUME NEW p \in Paths, NEW g \in DOMAIN revisions'[p]
             PROVE  /\ revisions'[p][g].status = "parsed"
                    /\ ~Superseded(revisions', p, g) =>
                          \A n \in DOMAIN revisions'[p][g].content :
                              Stands(p, Generation(p), revisions[p][g].content[n])'
  BY DEF Carried
<1>2. PICK r : r = revisions'[p]
  OBVIOUS
<1>3. r \in Seq(Revision) /\ revisions[p] \in Seq(Revision) /\ g \in DOMAIN r
  BY <1>1, <1>2, RecordedNow
<1>4. CASE p \notin Changed(obs)
  <2>1. r = revisions[p]
    BY <1>1, <1>2, <1>4, RecordedNow
  <2> QED BY <1>2, <2>1 DEF Carried, Superseded, Stands, Generation
<1>5. CASE p \in Changed(obs)
  <2>1. /\ Len(r) = Generation(p) + 1 /\ r[Len(r)].content = disk[p]
        /\ r[Len(r)].change = Decide(p) /\ r[Len(r)].status = "parsed"
    BY <1>1, <1>2, <1>5, RecordedNow
  <2>2. Generation(p) \in Nat /\ Generation(p)' = Len(r)
    BY <1>2, <1>3 DEF Generation
  <2>3. CASE g = Len(r)
    BY <1>2, <2>1, <2>2, <2>3 DEF Stands
  <2>4. CASE g # Len(r)
    <3>1. g \in DOMAIN revisions[p]
      BY <1>3, <2>1, <2>2, <2>4 DEF Generation
    <3>2. r[g] = revisions[p][g]
      BY <1>1, <1>2, <3>1, RecordedAppends
    <3>3. ASSUME ~Superseded(revisions', p, g), NEW n \in DOMAIN r[g].content
          PROVE  Stands(p, Generation(p), revisions[p][g].content[n])'
      <4>1. ~Superseded(revisions, p, g)
        <5> SUFFICES ASSUME NEW h \in DOMAIN revisions[p], h > g, revisions[p][h].change = "replaced"
                     PROVE  FALSE
          BY DEF Superseded
        <5>1. h \in DOMAIN r /\ r[h] = revisions[p][h]
          BY <1>1, <1>2, RecordedAppends
        <5> QED BY <1>2, <3>3, <5>1 DEF Superseded
      <4>2. Decide(p) # "replaced"
        <5>1. Len(r) \in DOMAIN r /\ Len(r) > g
          BY <1>3, <2>4
        <5> QED BY <1>2, <2>1, <3>3, <5>1 DEF Superseded
      <4>3. Stands(p, g, revisions[p][g].content[n])
        BY <3>2, <3>3 DEF Stands
      <4>4. \E k \in DOMAIN disk[p] : disk[p][k] = revisions[p][g].content[n]
        BY <3>1, <4>1, <4>2, <4>3, StillInTheLog
      <4>5. \E k \in DOMAIN r[Len(r)].content : r[Len(r)].content[k] = r[g].content[n]
        BY <2>1, <3>2, <4>4
      <4> QED BY <1>2, <2>2, <4>5 DEF Stands
    <3> QED BY <1>2, <3>1, <3>2, <3>3 DEF Carried
  <2> QED BY <2>3, <2>4
<1> QED BY <1>4, <1>5

\* A launch that the archive has told of is never forgotten by standard and
\* deep scans of one version that parses whatever it reads: deleted, rotated
\* and hidden logs take no history with them ("Previously imported history that
\* depends on it remains available").
THEOREM LaunchesAreKept ==
  ASSUME "quick" \notin Modes, MaxParser = 1, ~ParsingMayFail
  PROVE  Spec => LaunchesStayArchived
<1> DEFINE Stay == \A l \in Launches : Archived(l) => Archived(l)'
<1>1. Init => Carried
  BY DEF Init, Carried
<1>2. IInv /\ Carried /\ [Next]_vars => Carried'
  <2> SUFFICES ASSUME IInv, Carried, [Next]_vars
               PROVE  Carried'
    OBVIOUS
  <2>1. CASE UNCHANGED catalog
    BY <2>1 DEF catalog, Carried, Superseded, Stands, Generation
  <2>2. CASE ScanStep
    BY <2>2, ObservedPaths, ScanCarries DEF ScanStep, IInv
  <2> QED BY <2>1, <2>2, CatalogStep
<1>3. IInv /\ Carried /\ [Next]_vars => Stay
  <2> SUFFICES ASSUME IInv, Carried, [Next]_vars, NEW l \in Launches, Archived(l)
               PROVE  Archived(l)'
    OBVIOUS
  <2>1. CASE UNCHANGED catalog
    BY <2>1 DEF catalog, Archived
  <2>2. ASSUME NEW m \in Modes, NEW obs \in Observable(m), NEW deferred \in BOOLEAN,
               Scan(m, obs, deferred)
        PROVE  Archived(l)'
    <3> DEFINE revs == Recorded(obs, deferred)
               kept == Kept(m, obs, revs)
    <3>1. TypeOK /\ obs \in SUBSET Paths /\ Complete(m)
      BY ObservedPaths DEF IInv, Complete
    <3>2. PICK s \in sessions : s.start = l
      BY DEF Archived
    <3>3. PICK k \in links : k[1] = s /\ Stands(k[2], k[3], [kind |-> "start", launch |-> l])
      BY <3>2 DEF IInv, SessionsAreTraceable, Evidenced
    <3>4. PICK p, g : p = k[2] /\ g = k[3]
      OBVIOUS
    <3>5. p \in Paths /\ g \in DOMAIN revisions[p] /\ revisions[p] \in Seq(Revision)
      BY <3>3, <3>4 DEF IInv, TypeOK, LinksStand
    <3>6. CASE UNCHANGED <<sessions, links>>
      BY <3>6 DEF Archived
    <3>7. ASSUME Install(obs, kept, revs)
          PROVE  Archived(l)'
      <4>1. CASE s \in kept
        <5> HIDE DEF kept, revs
        <5>1. s \in sessions'
          BY <3>7, <4>1 DEF Install
        <5> QED BY <3>2, <5>1 DEF Archived
      <4>2. CASE s \notin kept
        <5>1. p \in obs /\ ~Superseded(revisions, p, g) /\ Decide(p) # "replaced"
          <6>1. CASE MayReplaceAll(m, obs)
            <7>1. Generation(p) # 0
              BY <3>5 DEF Generation
            <7> QED BY <3>3, <3>4, <3>5, <6>1, <7>1 DEF MayReplaceAll
          <6>2. CASE ~MayReplaceAll(m, obs)
            <7>1. s \notin Protected(m, obs, revs)
              BY <3>2, <4>2, <6>2 DEF Kept
            <7>2. p \in obs /\ ~Superseded(revs, p, g)
              <8> HIDE DEF revs
              <8> QED BY <3>1, <3>2, <3>3, <3>4, <7>1 DEF Protected
            <7>3. \A h \in DOMAIN revisions[p] : h \in DOMAIN revs[p] /\ revs[p][h] = revisions[p][h]
              BY <3>1, <3>5, RecordedAppends
            <7>4. ~Superseded(revisions, p, g)
              <8> HIDE DEF revs
              <8> QED BY <7>2, <7>3 DEF Superseded
            <7>5. Decide(p) # "replaced"
              <8> SUFFICES ASSUME Decide(p) = "replaced"
                           PROVE  FALSE
                OBVIOUS
              <8>1. p \in Changed(obs)
                BY <7>2 DEF Changed
              <8>2. /\ revs[p] \in Seq(Revision) /\ Len(revs[p]) = Generation(p) + 1
                    /\ revs[p][Len(revs[p])].change = "replaced"
                BY <3>1, <3>5, <8>1, RecordedNow
              <8>3. Len(revs[p]) \in DOMAIN revs[p] /\ Len(revs[p]) > g
                <9> HIDE DEF revs
                <9> QED BY <3>5, <8>2 DEF Generation
              <8> HIDE DEF revs
              <8> QED BY <7>2, <8>2, <8>3 DEF Superseded
            <7> QED BY <7>2, <7>4, <7>5
          <6> QED BY <6>1, <6>2
        <5>2. PICK n \in DOMAIN disk[p] : disk[p][n] = [kind |-> "start", launch |-> l]
          <6>1. PICK e : e = [kind |-> "start", launch |-> l]
            OBVIOUS
          <6>2. Stands(p, g, e)
            BY <3>3, <3>4, <6>1
          <6> HIDE DEF revs, kept
          <6>3. \E n \in DOMAIN disk[p] : disk[p][n] = e
            BY <3>1, <3>5, <5>1, <6>2, StillInTheLog
          <6> QED BY <6>1, <6>3
        <5>3. SessionAt(obs, <<p, n>>) \in Reconstructed(obs) /\ SessionAt(obs, <<p, n>>).start = l
          <6>1. disk[p][n].kind = "start" /\ disk[p][n].launch = l
            BY <5>2
          <6> HIDE DEF revs, kept
          <6> QED BY <3>1, <5>1, <5>2, <6>1, StartIsBuilt
        <5>4. SessionAt(obs, <<p, n>>) \in sessions'
          BY <3>7, <5>3 DEF Install
        <5> QED BY <5>3, <5>4 DEF Archived
      <4> QED BY <4>1, <4>2
    <3> QED BY <2>2, <3>6, <3>7 DEF Scan
  <2> QED BY <2>1, <2>2, CatalogStep DEF ScanStep
<1>4. Spec => [](IInv /\ Carried)
  BY <1>1, <1>2, InitInv, InvStep, PTL DEF Spec
<1>5. Spec => [][Stay]_vars
  BY <1>3, <1>4, PTL DEF Spec
<1> QED BY <1>5 DEF LaunchesStayArchived

-----------------------------------------------------------------------------
(***************************************************************************)
(* What a deep scan would make of the logs as they were recorded last:     *)
(* SessionAt and SourcesAt of the model, for any contents of the logs.     *)
(***************************************************************************)
PlaceIn(d, obs) == UNION {{p} \X DOMAIN d[p] : p \in obs}
EventIn(d, a) == d[a[1]][a[2]]
StartsIn(d, obs) == {a \in PlaceIn(d, obs) : EventIn(d, a).kind = "start"}
StopsIn(d, obs, a) ==
    {b \in PlaceIn(d, obs) : /\ EventIn(d, b).kind = "stop" /\ Before(a, b)
                             /\ ~\E c \in StartsIn(d, obs) : Before(a, c) /\ Before(c, b)}
FirstStopIn(d, obs, a) ==
    {b \in StopsIn(d, obs, a) : \A c \in StopsIn(d, obs, a) : ~Before(c, b)}
SessionIn(d, obs, a) ==
    [start |-> EventIn(d, a).launch,
     stop  |-> IF FirstStopIn(d, obs, a) = {} THEN NoStop
               ELSE EventIn(d, CHOOSE b \in FirstStopIn(d, obs, a) : TRUE).launch]
SourcesIn(d, obs, a) == {a[1]} \cup {b[1] : b \in StopsIn(d, obs, a)}

\* What logs with the contents d yield when the paths obs are observed.
Built(d, obs) ==
    {[session |-> SessionIn(d, obs, a), sources |-> SourcesIn(d, obs, a)] :
        a \in StartsIn(d, obs)}

Known == {p \in Paths : Generation(p) # 0}
Told == [p \in Paths |-> IF Generation(p) = 0 THEN <<>> ELSE Current(p).content]
Settled == Known \subseteq exists /\ \A p \in Known : Current(p).status = "parsed"

\* While every known log is there and parsed, the archive is what the recorded
\* logs yield, next to sessions of logs that were replaced.
InStep ==
    Settled =>
        /\ \A b \in Built(Told, Known) :
              /\ b.session \in sessions
              /\ \A p \in b.sources : <<b.session, p, Generation(p)>> \in links
        /\ \A s \in sessions :
              \/ \E b \in Built(Told, Known) : b.session = s
              \/ \E k \in links : k[1] = s /\ Superseded(revisions, k[2], k[3])

\* Whatever is not protected for good is rewritten when its logs change.
Tended ==
    \A s \in sessions : \E k \in links :
        /\ k[1] = s
        /\ \/ Superseded(revisions, k[2], k[3])
           \/ k[3] = Generation(k[2])
           \/ Current(k[2]).status = "failed"
           \/ k[2] \notin exists

\* A rotation to come has no file and no generation.
Rotated ==
    /\ Latest \in exists
    /\ \A p \in exists \cup Known : p <= rotations \/ p = Latest

\* What is reconstructed depends on the observed logs only.
LEMMA SameLogs ==
  ASSUME NEW d1, NEW d2, NEW obs, \A p \in obs : d1[p] = d2[p]
  PROVE  Built(d1, obs) = Built(d2, obs)
<1>1. PlaceIn(d1, obs) = PlaceIn(d2, obs)
  BY DEF PlaceIn
<1>2. ASSUME NEW a \in PlaceIn(d1, obs)
      PROVE  EventIn(d1, a) = EventIn(d2, a)
  BY DEF PlaceIn, EventIn
<1>3. StartsIn(d1, obs) = StartsIn(d2, obs)
  BY <1>1, <1>2 DEF StartsIn
<1>4. ASSUME NEW a
      PROVE  /\ StopsIn(d1, obs, a) = StopsIn(d2, obs, a)
             /\ FirstStopIn(d1, obs, a) = FirstStopIn(d2, obs, a)
  <2>1. StopsIn(d1, obs, a) = StopsIn(d2, obs, a)
    BY <1>1, <1>2, <1>3 DEF StopsIn
  <2> QED BY <2>1 DEF FirstStopIn
<1>5. ASSUME NEW a \in StartsIn(d1, obs)
      PROVE  /\ SessionIn(d1, obs, a) = SessionIn(d2, obs, a)
             /\ SourcesIn(d1, obs, a) = SourcesIn(d2, obs, a)
  <2>1. EventIn(d1, a) = EventIn(d2, a)
    BY <1>2 DEF StartsIn
  <2>2. PICK S : S = FirstStopIn(d1, obs, a) /\ S = FirstStopIn(d2, obs, a)
    BY <1>4
  <2>3. ASSUME S # {}
        PROVE  EventIn(d1, CHOOSE b \in S : TRUE) = EventIn(d2, CHOOSE b \in S : TRUE)
    <3>1. (CHOOSE b \in S : TRUE) \in S
      BY <2>3
    <3>2. S \subseteq PlaceIn(d1, obs)
      BY <2>2 DEF FirstStopIn, StopsIn
    <3> QED BY <1>2, <3>1, <3>2
  <2>4. SessionIn(d1, obs, a) = SessionIn(d2, obs, a)
    BY <2>1, <2>2, <2>3 DEF SessionIn
  <2> QED BY <1>4, <2>4 DEF SourcesIn
<1> QED BY <1>3, <1>5 DEF Built

\* What a payload holds, and what it links.
LEMMA PayloadIsBuilt ==
  ASSUME NEW obs
  PROVE  /\ Reconstructed(obs) = {b.session : b \in Built(disk, obs)}
         /\ \A k : k \in PayloadLinks(obs) <=>
               \E b \in Built(disk, obs) : \E p \in b.sources : k = <<b.session, p, NewGeneration(p)>>
<1>1. StartsIn(disk, obs) = Starts(obs)
  BY DEF StartsIn, Starts, PlaceIn, Place, EventIn, At
<1>2. ASSUME NEW a
      PROVE  StopsIn(disk, obs, a) = StopsOf(obs, a)
  BY <1>1 DEF StopsIn, StopsOf, PlaceIn, Place, EventIn, At
<1>3. ASSUME NEW a
      PROVE  FirstStopIn(disk, obs, a) = FirstStop(obs, a)
  BY <1>2 DEF FirstStopIn, FirstStop
<1>4. ASSUME NEW a
      PROVE  /\ SessionIn(disk, obs, a) = SessionAt(obs, a)
             /\ SourcesIn(disk, obs, a) = SourcesAt(obs, a)
  <2>1. \A x : EventIn(disk, x) = At(x)
    BY DEF EventIn, At
  <2>2. SessionIn(disk, obs, a) = SessionAt(obs, a)
    <3>1. PICK S : S = FirstStop(obs, a) /\ S = FirstStopIn(disk, obs, a)
      BY <1>3
    <3>2. /\ EventIn(disk, a) = At(a)
          /\ EventIn(disk, CHOOSE b \in S : TRUE) = At(CHOOSE b \in S : TRUE)
      BY <2>1
    <3> QED BY <3>1, <3>2 DEF SessionIn, SessionAt
  <2>3. SourcesIn(disk, obs, a) = SourcesAt(obs, a)
    BY <1>2 DEF SourcesIn, SourcesAt
  <2> QED BY <2>2, <2>3
<1>5. Built(disk, obs) =
        {[session |-> SessionAt(obs, a), sources |-> SourcesAt(obs, a)] : a \in Starts(obs)}
  BY <1>1, <1>4 DEF Built
<1>6. ASSUME NEW b
      PROVE  b \in Built(disk, obs) <=>
                \E a \in Starts(obs) : b = [session |-> SessionAt(obs, a), sources |-> SourcesAt(obs, a)]
  BY <1>5
<1>7. ASSUME NEW a \in Starts(obs)
      PROVE  \E b \in Built(disk, obs) : b.session = SessionAt(obs, a) /\ b.sources = SourcesAt(obs, a)
  <2>1. PICK b : b = [session |-> SessionAt(obs, a), sources |-> SourcesAt(obs, a)]
    OBVIOUS
  <2> QED BY <1>6, <2>1
<1>8. ASSUME NEW b \in Built(disk, obs)
      PROVE  \E a \in Starts(obs) : b.session = SessionAt(obs, a) /\ b.sources = SourcesAt(obs, a)
  <2>1. PICK a \in Starts(obs) : b = [session |-> SessionAt(obs, a), sources |-> SourcesAt(obs, a)]
    BY <1>6
  <2> QED BY <2>1
<1>9. Reconstructed(obs) = {b.session : b \in Built(disk, obs)}
  BY <1>7, <1>8, Zenon DEF Reconstructed
<1>10. ASSUME NEW k
       PROVE  k \in PayloadLinks(obs) <=>
                 \E b \in Built(disk, obs) : \E p \in b.sources : k = <<b.session, p, NewGeneration(p)>>
  <2>1. k \in PayloadLinks(obs) <=>
           \E a \in Starts(obs) : \E p \in SourcesAt(obs, a) : k = <<SessionAt(obs, a), p, NewGeneration(p)>>
    BY DEF PayloadLinks
  <2>2. (\E b \in Built(disk, obs) : \E p \in b.sources : k = <<b.session, p, NewGeneration(p)>>)
         <=> \E a \in Starts(obs) : \E p \in SourcesAt(obs, a) : k = <<SessionAt(obs, a), p, NewGeneration(p)>>
    BY <1>7, <1>8, Zenon
  <2> QED BY <2>1, <2>2
<1> QED BY <1>9, <1>10

\* What a scan knows of an observed log when it has recorded it.
LEMMA KnownAfterScan ==
  ASSUME TypeOK, NEW obs \in SUBSET Paths, NEW deferred \in BOOLEAN,
         revisions' = Recorded(obs, deferred), NEW p \in Paths
  PROVE  /\ p \notin Changed(obs) => Generation(p)' = Generation(p) /\ Current(p)' = Current(p)
         /\ p \in obs => /\ Generation(p)' = NewGeneration(p) /\ Generation(p)' # 0
                         /\ Told'[p] = disk[p]
         /\ p \in Changed(obs) =>
               /\ Generation(p)' = Generation(p) + 1
               /\ Current(p)'.status = IF deferred THEN "failed" ELSE "parsed"
<1>1. PICK r : r = Recorded(obs, deferred)[p] /\ r = revisions'[p]
  OBVIOUS
<1>2. /\ r \in Seq(Revision) /\ revisions[p] \in Seq(Revision)
      /\ p \notin Changed(obs) => r = revisions[p]
      /\ p \in Changed(obs) =>
            /\ Len(r) = Generation(p) + 1
            /\ r[Len(r)].content = disk[p]
            /\ r[Len(r)].status = (IF deferred THEN "failed" ELSE "parsed")
  <2>1. r \in Seq(Revision) /\ revisions[p] \in Seq(Revision)
    BY <1>1, RecordedType DEF TypeOK
  <2>2. p \notin Changed(obs) => r = revisions[p]
    BY <1>1, RecordedNow
  <2>3. p \in Changed(obs) => Len(r) = Generation(p) + 1
    BY <1>1, RecordedNow
  <2>4. ASSUME p \in Changed(obs)
        PROVE  /\ r[Len(r)].content = disk[p]
               /\ r[Len(r)].status = (IF deferred THEN "failed" ELSE "parsed")
    BY <1>1, <2>4, RecordedNow
  <2> QED BY <2>1, <2>2, <2>3, <2>4
<1>3. Generation(p)' = Len(r) /\ Current(p)' = r[Len(r)] /\ Generation(p) \in Nat
  BY <1>1, <1>2 DEF Generation, Current
<1>4. p \notin Changed(obs) => Generation(p)' = Generation(p) /\ Current(p)' = Current(p)
  BY <1>1, <1>2 DEF Generation, Current
<1>5. ASSUME p \in obs
      PROVE  /\ Generation(p)' = NewGeneration(p) /\ Generation(p)' # 0
             /\ Current(p)'.content = disk[p]
  <2>1. CASE Decide(p) = "unchanged"
    <3>1. p \notin Changed(obs)
      BY <2>1 DEF Changed
    <3>2. Generation(p) # 0 /\ Current(p).content = disk[p]
      BY <2>1 DEF Decide
    <3> QED BY <1>4, <2>1, <3>1, <3>2 DEF NewGeneration
  <2>2. CASE Decide(p) # "unchanged"
    <3>1. p \in Changed(obs)
      BY <1>5, <2>2 DEF Changed
    <3> QED BY <1>2, <1>3, <2>2, <3>1 DEF NewGeneration
  <2> QED BY <2>1, <2>2
<1>6. p \in obs => Told'[p] = disk[p]
  BY <1>5 DEF Told
<1> QED BY <1>2, <1>3, <1>4, <1>5, <1>6


\* Rotations to come stay without a file and a generation.
LEMMA RotatedStep == TypeOK /\ Rotated /\ [Next]_vars => Rotated'
<1> SUFFICES ASSUME TypeOK, Rotated, [Next]_vars PROVE Rotated'
  OBVIOUS
<1>1. ASSUME NEW m \in Modes, NEW obs \in Observable(m), NEW deferred \in BOOLEAN,
             Scan(m, obs, deferred)
      PROVE  Rotated'
  <2>1. /\ obs \in SUBSET Paths /\ obs \subseteq exists
        /\ revisions' = Recorded(obs, deferred) /\ UNCHANGED <<exists, rotations>>
    BY <1>1 DEF Scan, folder, Observable, Offered, TypeOK
  <2>2. ASSUME NEW p \in Known'
        PROVE  p \in exists \cup Known
    <3>1. p \in Paths /\ Generation(p)' # 0
      BY DEF Known
    <3>2. p \in Changed(obs) => p \in obs
      BY DEF Changed
    <3> QED BY <2>1, <3>1, <3>2, KnownAfterScan DEF Known
  <2> QED BY <2>1, <2>2 DEF Rotated
<1>2. CASE UNCHANGED <<exists, rotations, revisions>>
  <2>1. Known' = Known
    BY <1>2 DEF Known, Generation
  <2> QED BY <1>2, <2>1 DEF Rotated
<1>3. CASE Rotate
  <2>1. Known' = Known
    BY <1>3 DEF Rotate, catalog, Known, Generation
  <2>2. rotations \in Nat /\ rotations' = rotations + 1 /\ exists' = exists \cup {rotations + 1}
    BY <1>3 DEF Rotate, TypeOK
  <2>3. ASSUME NEW p \in exists' \cup Known'
        PROVE  p <= rotations' \/ p = Latest
    <3>1. CASE p = rotations + 1
      BY <2>2, <3>1
    <3>2. CASE p \in exists \cup Known
      <4>1. p \in Int
        BY <3>2 DEF Known, Paths, Latest, TypeOK
      <4>2. p <= rotations \/ p = Latest
        BY <3>2 DEF Rotated
      <4> QED BY <2>2, <4>1, <4>2
    <3> QED BY <2>1, <2>2, <2>3, <3>1, <3>2
  <2> QED BY <2>2, <2>3 DEF Rotated, Latest
<1>4. ASSUME NEW p \in Paths, DeleteRotation(p)
      PROVE  Rotated'
  <2>1. Known' = Known
    BY <1>4 DEF DeleteRotation, catalog, Known, Generation
  <2> QED BY <1>4, <2>1 DEF DeleteRotation, Rotated
<1>5. CASE StartGame \/ StopGame \/ UpgradeParser \/ UNCHANGED vars
  BY <1>2, <1>5 DEF StartGame, StopGame, UpgradeParser, vars, folder, catalog
<1> QED BY <1>1, <1>3, <1>4, <1>5 DEF Next

\* A step of the game, its user or an upgrade leaves the archive in step: a
\* rotation has no generation, and a deleted log is known no less.
LEMMA WorldInStep ==
  ASSUME TypeOK, LinksStand, Rotated, InStep, Tended, [Next]_vars, UNCHANGED catalog
  PROVE  InStep' /\ Tended'
<1>1. /\ revisions' = revisions /\ sessions' = sessions /\ links' = links
  BY DEF catalog
<1>2. Known' = Known /\ Told' = Told /\ \A p : Generation(p)' = Generation(p) /\ Current(p)' = Current(p)
  BY <1>1 DEF Known, Told, Generation, Current
<1>3. ASSUME NEW p \in Known
      PROVE  p \in exists' => p \in exists
  <2>1. CASE Rotate
    <3>1. p \in Paths /\ (p <= rotations \/ p = Latest)
      BY DEF Known, Rotated
    <3>2. p # rotations + 1
      BY <2>1, <3>1 DEF Rotate, TypeOK, Latest, Paths
    <3> QED BY <2>1, <3>2 DEF Rotate
  <2>2. CASE exists' \subseteq exists
    BY <2>2
  <2>3. Rotate \/ exists' \subseteq exists
    BY DEF Next, StartGame, StopGame, Rotate, DeleteRotation, UpgradeParser, Scan, folder, vars
  <2> QED BY <2>1, <2>2, <2>3
<1>4. Settled' => Settled
  BY <1>2, <1>3 DEF Settled
<1>5. Built(Told, Known)' = Built(Told, Known)
  BY <1>2 DEF Built
<1>6. InStep'
  BY <1>1, <1>2, <1>4, <1>5 DEF InStep, Superseded
<1>7. Tended'
  <2>1. SUFFICES ASSUME NEW s \in sessions
                 PROVE  \E k \in links :
                          /\ k[1] = s
                          /\ \/ Superseded(revisions, k[2], k[3]) \/ k[3] = Generation(k[2])
                             \/ Current(k[2]).status = "failed" \/ k[2] \notin exists'
    BY <1>1, <1>2 DEF Tended
  <2>2. PICK k \in links :
          /\ k[1] = s
          /\ \/ Superseded(revisions, k[2], k[3]) \/ k[3] = Generation(k[2])
             \/ Current(k[2]).status = "failed" \/ k[2] \notin exists
    BY DEF Tended
  <2>3. k[2] \in Known
    <3>1. k[2] \in Paths /\ k[3] \in DOMAIN revisions[k[2]] /\ revisions[k[2]] \in Seq(Revision)
      BY DEF TypeOK, LinksStand
    <3> QED BY <3>1 DEF Known, Generation
  <2> QED BY <1>3, <2>2, <2>3
<1> QED BY <1>6, <1>7

\* A scan leaves the sessions alone when it defers them or nothing changed.
LEMMA ScanOutcome ==
  ASSUME NEW m, NEW obs, NEW deferred \in BOOLEAN, Scan(m, obs, deferred)
  PROVE  \/ UNCHANGED <<sessions, links>> /\ (deferred \/ Changed(obs) = {})
         \/ ~deferred /\ Install(obs, Kept(m, obs, Recorded(obs, deferred)), Recorded(obs, deferred))
<1>1. (IF m = "deep" THEN obs # {} ELSE Changed(obs) # {}) \/ Changed(obs) = {}
  BY DEF Changed
<1>2. IF (IF m = "deep" THEN obs # {} ELSE Changed(obs) # {}) /\ ~deferred
      THEN Install(obs, Kept(m, obs, Recorded(obs, deferred)), Recorded(obs, deferred))
      ELSE UNCHANGED <<sessions, links>>
  BY DEF Scan
<1> QED BY <1>1, <1>2

\* What tends a session goes on to tend it when a scan has found every file
\* there is, or has the session rewritten.
LEMMA LinkAfterScan ==
  ASSUME TypeOK, LinksStand, NEW deferred \in BOOLEAN, exists \in SUBSET Paths,
         revisions' = Recorded(exists, deferred), NEW k \in links,
         \/ Superseded(revisions, k[2], k[3]) \/ k[3] = Generation(k[2])
         \/ Current(k[2]).status = "failed" \/ k[2] \notin exists
  PROVE  \/ Superseded(revisions', k[2], k[3])
         \/ k[3] = Generation(k[2])' /\ Decide(k[2]) = "unchanged" /\ k[2] \in exists
         \/ k[2] \notin exists
         \/ Decide(k[2]) \in {"appended", "reparse"} /\ k[2] \in exists
<1> DEFINE revs == Recorded(exists, deferred)
<1>1. PICK p : p = k[2]
  OBVIOUS
<1>2. p \in Paths /\ revisions[p] \in Seq(Revision) /\ k[3] \in 1..Generation(p)
  <2>1. p \in Paths /\ k[3] \in DOMAIN revisions[p] /\ revisions[p] \in Seq(Revision)
    BY <1>1 DEF TypeOK, LinksStand
  <2> QED BY <2>1 DEF Generation
<1>3. ASSUME Superseded(revisions, p, k[3])
      PROVE  Superseded(revs, p, k[3])
  <2>1. PICK h \in DOMAIN revisions[p] : h > k[3] /\ revisions[p][h].change = "replaced"
    BY <1>3 DEF Superseded
  <2>2. h \in DOMAIN revs[p] /\ revs[p][h] = revisions[p][h]
    BY <1>2, RecordedAppends
  <2> HIDE DEF revs
  <2> QED BY <2>1, <2>2 DEF Superseded
<1>4. CASE p \in exists /\ Decide(p) = "unchanged"
  <2>1. p \notin Changed(exists) /\ Current(p).status # "failed"
    BY <1>4 DEF Changed, Decide
  <2>2. Generation(p)' = Generation(p)
    BY <1>2, <2>1, KnownAfterScan
  <2> HIDE DEF revs
  <2> QED BY <1>1, <1>3, <1>4, <2>1, <2>2 DEF revs
<1>5. CASE p \in exists /\ Decide(p) = "replaced"
  <2>1. p \in Changed(exists)
    BY <1>5 DEF Changed
  <2>2. revs[p] \in Seq(Revision) /\ Len(revs[p]) = Generation(p) + 1
    BY <1>2, <2>1, RecordedNow
  <2>3. revs[p][Len(revs[p])].change = "replaced"
    BY <1>2, <1>5, <2>1, RecordedNow
  <2>4. Generation(p) \in Nat /\ Generation(p) + 1 > k[3]
    BY <1>2 DEF Generation
  <2>5. Superseded(revs, p, k[3])
    <3> HIDE DEF revs
    <3>1. Len(revs[p]) \in DOMAIN revs[p] /\ Len(revs[p]) > k[3]
      BY <2>2, <2>4
    <3> QED BY <2>3, <3>1 DEF Superseded
  <2> QED BY <1>1, <2>5
<1>6. Decide(p) # "new"
  BY <1>2 DEF Decide
<1>7. Decide(p) \in {"new", "reparse", "unchanged", "appended", "replaced"}
  BY DEF Decide
<1> QED BY <1>1, <1>4, <1>5, <1>6, <1>7

\* A complete scan that finds every file there is leaves no session untended:
\* what it does not rewrite is protected, or its logs are as they were.
LEMMA ScanTends ==
  ASSUME TypeOK, LinksStand, Tended, NEW m \in Modes \ {"quick"}, NEW deferred \in BOOLEAN,
         exists \in SUBSET Paths, Scan(m, exists, deferred)
  PROVE  Tended'
<1> DEFINE revs == Recorded(exists, deferred)
           kept == Kept(m, exists, revs)
<1>1. /\ revisions' = revs /\ exists' = exists
      /\ \/ UNCHANGED <<sessions, links>>
         \/ ~deferred /\ Install(exists, kept, revs)
  BY DEF Scan, folder
<1>3. ASSUME NEW k \in links,
             \/ Superseded(revisions, k[2], k[3]) \/ k[3] = Generation(k[2])
             \/ Current(k[2]).status = "failed" \/ k[2] \notin exists
      PROVE  \/ Superseded(revs, k[2], k[3])
             \/ k[3] = Generation(k[2])' /\ Decide(k[2]) = "unchanged" /\ k[2] \in exists
             \/ k[2] \notin exists
             \/ Decide(k[2]) \in {"appended", "reparse"} /\ k[2] \in exists
  BY <1>1, <1>3, LinkAfterScan
<1>4. ASSUME NEW k \in links, deferred, k[2] \in exists, Decide(k[2]) \in {"appended", "reparse"}
      PROVE  Current(k[2])'.status = "failed"
  <2>1. k[2] \in Changed(exists) /\ k[2] \in Paths
    BY <1>4 DEF Changed
  <2> QED BY <1>1, <1>4, <2>1, KnownAfterScan
<1>5. CASE UNCHANGED <<sessions, links>> /\ deferred
  <2> HIDE DEF revs
  <2> QED BY <1>1, <1>3, <1>4, <1>5 DEF Tended
<1>6. CASE UNCHANGED <<sessions, links>> /\ ~deferred /\ Changed(exists) = {}
  <2>1. \A k \in links : k[2] \in exists => Decide(k[2]) = "unchanged"
    BY <1>6 DEF Changed
  <2> HIDE DEF revs
  <2> QED BY <1>1, <1>3, <1>6, <2>1 DEF Tended
<1>7. CASE ~deferred /\ Install(exists, kept, revs)
  <2> SUFFICES ASSUME NEW s \in sessions'
               PROVE  \E k \in links' :
                        /\ k[1] = s
                        /\ \/ Superseded(revs, k[2], k[3]) \/ k[3] = Generation(k[2])'
                           \/ Current(k[2])'.status = "failed" \/ k[2] \notin exists
    BY <1>1 DEF Tended
  <2>1. CASE s \in Reconstructed(exists)
    <3>1. PICK a \in Starts(exists) : s = SessionAt(exists, a)
      BY <2>1 DEF Reconstructed
    <3>2. PICK p : p = a[1]
      OBVIOUS
    <3>3. p \in exists /\ p \in SourcesAt(exists, a)
      BY <3>2, PlaceEvent DEF Starts, SourcesAt
    <3>4. PICK g : g = NewGeneration(p)
      OBVIOUS
    <3>5. <<s, p, g>> \in links'
      BY <1>7, <3>1, <3>3, <3>4 DEF Install, PayloadLinks
    <3>6. g = Generation(p)'
      BY <1>1, <3>3, <3>4, KnownAfterScan
    <3> QED BY <3>5, <3>6
  <2>2. CASE s \notin Reconstructed(exists)
    <3> HIDE DEF revs
    <3>1. s \in kept /\ s \in sessions
      BY <1>7, <2>2 DEF Install, Kept
    <3>2. \A k \in links : k[1] = s => k \in links'
      BY <1>7, <2>2, <3>1 DEF Install
    <3>3. s \notin Rewritten(exists) \/ s \in Protected(m, exists, revs)
      BY <3>1 DEF Kept
    <3>4. CASE s \in Protected(m, exists, revs)
      BY <3>2, <3>4 DEF Protected
    <3>5. CASE s \notin Rewritten(exists)
      <4>1. PICK k \in links :
              /\ k[1] = s
              /\ \/ Superseded(revisions, k[2], k[3]) \/ k[3] = Generation(k[2])
                 \/ Current(k[2]).status = "failed" \/ k[2] \notin exists
        BY <3>1 DEF Tended
      <4>2. \/ Superseded(revs, k[2], k[3])
            \/ k[3] = Generation(k[2])' \/ k[2] \notin exists
            \/ Decide(k[2]) \in {"appended", "reparse"} /\ k[2] \in exists
        BY <1>3, <1>7, <4>1
      <4>3. ~(Decide(k[2]) \in {"appended", "reparse"} /\ k[2] \in exists)
        BY <3>1, <3>5, <4>1 DEF Rewritten
      <4> QED BY <3>2, <4>1, <4>2, <4>3
    <3> QED BY <3>3, <3>4, <3>5
  <2> QED BY <2>1, <2>2
<1>8. \/ UNCHANGED <<sessions, links>> /\ (deferred \/ Changed(exists) = {})
      \/ ~deferred /\ Install(exists, kept, revs)
  BY ScanOutcome
<1> QED BY <1>5, <1>6, <1>7, <1>8


\* A scan that finds every file there is keeps the archive in step: what it
\* reconstructs is what its logs yield as they are now recorded, and what it
\* keeps besides is protected by a replacement.
LEMMA ScanInStep ==
  ASSUME TypeOK, LinksStand, Tended, InStep, NEW m \in Modes \ {"quick"}, NEW deferred \in BOOLEAN,
         exists \in SUBSET Paths, Scan(m, exists, deferred)
  PROVE  InStep'
<1> DEFINE revs == Recorded(exists, deferred)
           kept == Kept(m, exists, revs)
<1>1. revisions' = revs /\ exists' = exists
  BY DEF Scan, folder
<1>2. CASE UNCHANGED <<sessions, links>> /\ Changed(exists) = {}
  <2>1. \A p \in Paths : revs[p] = revisions[p]
    BY <1>2, RecordedNow
  <2>2. revs = revisions
    BY <2>1 DEF Recorded, TypeOK
  <2> HIDE DEF revs
  <2>3. Known' = Known /\ Told' = Told /\ \A p : Generation(p)' = Generation(p) /\ Current(p)' = Current(p)
    BY <1>1, <2>2 DEF Known, Told, Generation, Current
  <2>4. Settled' = Settled /\ Built(Told, Known)' = Built(Told, Known)
    BY <1>1, <2>3 DEF Settled, Built
  <2> QED BY <1>1, <1>2, <2>2, <2>3, <2>4 DEF InStep, Superseded
<1>3. CASE deferred /\ Changed(exists) # {}
  <2>1. PICK p : p \in Changed(exists)
    BY <1>3
  <2>2. p \in Paths
    BY <2>1 DEF Changed
  <2>3. Current(p)'.status = "failed" /\ Generation(p)' = Generation(p) + 1
    BY <1>1, <1>3, <2>1, <2>2, KnownAfterScan
  <2>4. Generation(p) \in Nat
    BY <2>2 DEF Generation, TypeOK
  <2>5. p \in Known'
    BY <2>2, <2>3, <2>4 DEF Known
  <2> QED BY <2>3, <2>5 DEF InStep, Settled
<1>4. CASE ~deferred /\ Install(exists, kept, revs)
  <2> SUFFICES ASSUME Settled'
               PROVE  /\ \A b \in Built(Told', Known') :
                            /\ b.session \in sessions'
                            /\ \A p \in b.sources : <<b.session, p, Generation(p)'>> \in links'
                      /\ \A s \in sessions' :
                            \/ \E b \in Built(Told', Known') : b.session = s
                            \/ \E k \in links' : k[1] = s /\ Superseded(revisions', k[2], k[3])
    BY DEF InStep, Built, Superseded
  <2>1. Known' = exists
    <3>1. Known' \subseteq exists
      BY <1>1 DEF Settled
    <3>2. \A p \in exists : p \in Known'
      BY <1>1, KnownAfterScan DEF Known
    <3> QED BY <3>1, <3>2
  <2>2. \A p \in exists : Told'[p] = disk[p]
    BY <1>1, KnownAfterScan
  <2>3. Built(Told', Known') = Built(disk, exists)
    BY <2>1, <2>2, SameLogs
  <2>4. ASSUME NEW b \in Built(disk, exists)
        PROVE  /\ b.session \in sessions'
               /\ \A p \in b.sources : <<b.session, p, Generation(p)'>> \in links'
    <3>1. b.session \in Reconstructed(exists)
      BY PayloadIsBuilt
    <3>2. ASSUME NEW p \in b.sources
          PROVE  <<b.session, p, Generation(p)'>> \in links'
      <4>1. PICK k : k = <<b.session, p, NewGeneration(p)>>
        OBVIOUS
      <4>2. k \in PayloadLinks(exists)
        BY <4>1, PayloadIsBuilt
      <4>3. k[2] \in exists
        <5>1. PICK a \in Starts(exists) : \E q \in SourcesAt(exists, a) :
                 k = <<SessionAt(exists, a), q, NewGeneration(q)>>
          BY <4>2 DEF PayloadLinks
        <5>2. SourcesAt(exists, a) \subseteq exists
          BY SessionBuilt
        <5> QED BY <5>1, <5>2
      <4>4. p \in exists /\ p \in Paths
        BY <4>1, <4>3
      <4>5. Generation(p)' = NewGeneration(p)
        BY <1>1, <4>4, KnownAfterScan
      <4> QED BY <1>4, <4>1, <4>2, <4>5 DEF Install
    <3> QED BY <1>4, <3>1, <3>2 DEF Install
  <2>5. ASSUME NEW s \in sessions', s \notin Reconstructed(exists)
        PROVE  \E k \in links' : k[1] = s /\ Superseded(revisions', k[2], k[3])
    <3>1. s \in kept /\ s \in sessions
      BY <1>4, <2>5 DEF Install, Kept
    <3>2. ~MayReplaceAll(m, exists) /\ (s \notin Rewritten(exists) \/ s \in Protected(m, exists, revs))
      BY <3>1 DEF Kept
    <3> HIDE DEF revs
    <3>3. \A k \in links : k[1] = s => k \in links'
      BY <1>4, <2>5, <3>1 DEF Install
    <3>4. \A k \in links : k[2] \in exists
      <4> SUFFICES ASSUME NEW k \in links
                   PROVE  k[2] \in exists
        OBVIOUS
      <4>1. k[2] \in Paths /\ k[3] \in DOMAIN revisions[k[2]] /\ revisions[k[2]] \in Seq(Revision)
        BY DEF TypeOK, LinksStand
      <4>2. Generation(k[2]) # 0 /\ Generation(k[2]) \in Nat
        BY <4>1 DEF Generation
      <4>3. Generation(k[2])' # 0
        <5>1. k[2] \in Changed(exists) => Generation(k[2])' = Generation(k[2]) + 1
          BY <1>1, <4>1, KnownAfterScan DEF revs
        <5>2. k[2] \notin Changed(exists) => Generation(k[2])' = Generation(k[2])
          BY <1>1, <4>1, KnownAfterScan DEF revs
        <5> QED BY <4>2, <5>1, <5>2
      <4> QED BY <2>1, <4>1, <4>3 DEF Known
    <3>5. CASE s \in Protected(m, exists, revs)
      BY <1>1, <3>3, <3>4, <3>5 DEF Protected
    <3>6. CASE s \notin Rewritten(exists) /\ s \notin Protected(m, exists, revs)
      <4>1. PICK k \in links :
              /\ k[1] = s
              /\ \/ Superseded(revisions, k[2], k[3]) \/ k[3] = Generation(k[2])
                 \/ Current(k[2]).status = "failed" \/ k[2] \notin exists
        BY <3>1 DEF Tended
      <4>2. \/ Superseded(revisions', k[2], k[3])
            \/ k[3] = Generation(k[2])' /\ Decide(k[2]) = "unchanged" /\ k[2] \in exists
            \/ Decide(k[2]) \in {"appended", "reparse"} /\ k[2] \in exists
        BY <1>1, <3>4, <4>1, LinkAfterScan DEF revs
      <4>3. ~(Decide(k[2]) \in {"appended", "reparse"} /\ k[2] \in exists)
        BY <3>1, <3>6, <4>1 DEF Rewritten
      <4>4. ~(k[3] = Generation(k[2])' /\ Decide(k[2]) = "unchanged" /\ k[2] \in exists)
        <5> SUFFICES ASSUME k[3] = Generation(k[2])', Decide(k[2]) = "unchanged", k[2] \in exists
                     PROVE  FALSE
          OBVIOUS
        <5>1. k[2] \notin Changed(exists) /\ k[2] \in Paths
          BY DEF Changed
        <5>2. Generation(k[2])' = Generation(k[2])
          BY <1>1, <5>1, KnownAfterScan DEF revs
        <5> QED BY <3>1, <3>6, <4>1, <5>2 DEF Rewritten
      <4> QED BY <3>3, <4>1, <4>2, <4>3, <4>4
    <3> QED BY <3>2, <3>5, <3>6
  <2>6. \A s \in Reconstructed(exists) : \E b \in Built(disk, exists) : b.session = s
    BY PayloadIsBuilt
  <2> QED BY <2>3, <2>4, <2>5, <2>6
<1>5. \/ UNCHANGED <<sessions, links>> /\ Changed(exists) = {}
      \/ deferred /\ Changed(exists) # {}
      \/ ~deferred /\ Install(exists, kept, revs)
  BY ScanOutcome
<1> QED BY <1>2, <1>3, <1>4, <1>5

\* A deep scan that finds every known file as it was changes no session and
\* adds no link, for any history of standard and deep scans that find every
\* file there is: whatever failed to parse, was deferred, deleted, rotated,
\* replaced or parsed by an older version before.
THEOREM DeepRescansChangeNothing ==
  ASSUME "quick" \notin Modes, ~FilesMayHide
  PROVE  Spec => DeepRescanIsIdempotent
<1> DEFINE Inv == IInv /\ Rotated /\ InStep /\ Tended
           Same == \A obs \in Observable("deep") :
                      /\ Scan("deep", obs, FALSE)
                      /\ \A p \in obs : Decide(p) = "unchanged"
                      /\ \A p \in Paths \ obs : Generation(p) = 0
                      => sessions' = sessions /\ links' \subseteq links
<1>1. Init => Inv
  <2> SUFFICES ASSUME Init PROVE Inv
    OBVIOUS
  <2>1. Known = {}
    BY DEF Init, Known, Generation
  <2>2. Built(Told, Known) = {}
    BY <2>1 DEF Built, StartsIn, PlaceIn
  <2>3. sessions = {} /\ exists = {Latest}
    BY DEF Init
  <2> QED BY <2>1, <2>2, <2>3, InitInv DEF Rotated, InStep, Tended
<1>2. Inv /\ [Next]_vars => Inv'
  <2> SUFFICES ASSUME Inv, [Next]_vars PROVE Inv'
    OBVIOUS
  <2>1. IInv' /\ Rotated'
    BY InvStep, RotatedStep DEF IInv
  <2>2. CASE UNCHANGED catalog
    BY <2>1, <2>2, WorldInStep DEF IInv
  <2>3. ASSUME NEW m \in Modes, NEW obs \in Observable(m), NEW deferred \in BOOLEAN,
               Scan(m, obs, deferred)
        PROVE  Inv'
    <3>1. m \in Modes \ {"quick"} /\ obs = exists /\ exists \in SUBSET Paths
      BY DEF Observable, Offered, Complete, IInv, TypeOK
    <3>2. Tended'
      BY <2>3, <3>1, ScanTends DEF IInv
    <3>3. InStep'
      BY <2>3, <3>1, ScanInStep DEF IInv
    <3> QED BY <2>1, <3>2, <3>3
  <2> HIDE DEF Inv
  <2> QED BY <2>2, <2>3, CatalogStep DEF ScanStep
<1>3. Inv => Same
  <2> SUFFICES ASSUME Inv, NEW obs \in Observable("deep"), Scan("deep", obs, FALSE),
                      \A p \in obs : Decide(p) = "unchanged",
                      \A p \in Paths \ obs : Generation(p) = 0
               PROVE  sessions' = sessions /\ links' \subseteq links
    OBVIOUS
  <2> DEFINE revs == Recorded(obs, FALSE)
             kept == Kept("deep", obs, revs)
  <2>1. obs = exists /\ obs \in SUBSET Paths /\ Changed(obs) = {}
    BY DEF Observable, Offered, Complete, IInv, TypeOK, Changed
  <2>2. ASSUME NEW p \in obs
        PROVE  /\ Generation(p) # 0 /\ Current(p).status = "parsed" /\ Told[p] = disk[p]
               /\ NewGeneration(p) = Generation(p)
    <3>1. /\ Generation(p) # 0 /\ Current(p).status # "failed" /\ Current(p).content = disk[p]
      BY DEF Decide
    <3>2. p \in Paths /\ revisions[p] \in Seq(Revision)
      BY <2>1 DEF IInv, TypeOK
    <3>3. Current(p) \in Revision
      BY <3>1, <3>2 DEF Current, Generation
    <3> QED BY <3>1, <3>2, <3>3 DEF Revision, Told, NewGeneration
  <2>3. Known = obs
    BY <2>1, <2>2 DEF Known
  <2>4. Settled
    BY <2>1, <2>2, <2>3 DEF Settled
  <2>5. Built(Told, Known) = Built(disk, obs)
    BY <2>2, <2>3, SameLogs
  <2>6. /\ \A b \in Built(disk, obs) :
              /\ b.session \in sessions
              /\ \A p \in b.sources : <<b.session, p, Generation(p)>> \in links
        /\ \A s \in sessions :
              \/ \E b \in Built(disk, obs) : b.session = s
              \/ \E k \in links : k[1] = s /\ Superseded(revisions, k[2], k[3])
    BY <2>4, <2>5 DEF InStep
  <2>7. UNCHANGED <<sessions, links>> \/ Install(obs, kept, revs)
    BY ScanOutcome
  <2>8. ASSUME Install(obs, kept, revs)
        PROVE  sessions' = sessions /\ links' \subseteq links
    <3>1. Reconstructed(obs) \subseteq sessions
      BY <2>6, PayloadIsBuilt
    <3>2. PayloadLinks(obs) \subseteq links
      <4> SUFFICES ASSUME NEW k \in PayloadLinks(obs)
                   PROVE  k \in links
        OBVIOUS
      <4>1. PICK b \in Built(disk, obs) : \E p \in b.sources : k = <<b.session, p, NewGeneration(p)>>
        BY PayloadIsBuilt
      <4>2. PICK p \in b.sources : k = <<b.session, p, NewGeneration(p)>>
        BY <4>1
      <4>3. PICK a \in Starts(obs) : \E q \in SourcesAt(obs, a) : k = <<SessionAt(obs, a), q, NewGeneration(q)>>
        BY DEF PayloadLinks
      <4>4. SourcesAt(obs, a) \subseteq obs
        BY <2>1, SessionBuilt DEF IInv
      <4>5. p \in obs
        BY <4>2, <4>3, <4>4
      <4> QED BY <2>2, <2>6, <4>2, <4>5
    <3>3. ASSUME NEW s \in sessions, s \notin Reconstructed(obs)
          PROVE  s \in kept
      <4>1. PICK k \in links : k[1] = s /\ Superseded(revisions, k[2], k[3])
        BY <2>6, <3>3, PayloadIsBuilt
      <4>2. k[2] \in Paths
        BY DEF IInv, TypeOK
      <4>3. revs[k[2]] = revisions[k[2]]
        BY <2>1, <4>2 DEF Recorded
      <4>4. s \in Protected("deep", obs, revs)
        BY <4>1, <4>3 DEF Protected, Superseded
      <4>5. ~MayReplaceAll("deep", obs)
        BY <4>1 DEF MayReplaceAll
      <4> QED BY <4>4, <4>5 DEF Kept
    <3>4. kept \subseteq sessions
      BY DEF Kept
    <3> HIDE DEF kept, revs
    <3> QED BY <2>8, <3>1, <3>2, <3>3, <3>4 DEF Install
  <2> QED BY <2>7, <2>8
<1>4. Spec => []Inv
  BY <1>1, <1>2, PTL DEF Spec
<1>5. Spec => [][Same]_vars
  BY <1>3, <1>4, PTL
<1> QED BY <1>5 DEF DeepRescanIsIdempotent
=============================================================================
