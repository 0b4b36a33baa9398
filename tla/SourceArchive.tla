--------------------------- MODULE SourceArchive ---------------------------
(***************************************************************************)
(* What a scan does to the archive of one Minecraft instance: the log      *)
(* files the game writes and rotates, the generations of content MineTrace *)
(* has recorded for each path, and the sessions it keeps, with their links *)
(* to the generations that hold their evidence.                            *)
(*                                                                         *)
(* Granularity: a scan that reaches promotion is one step.  Its two        *)
(* transactions on these tables, stage_inventory and promote_scan, have no *)
(* other writer between them (ScanLifecycle), and a file that changes      *)
(* between them is refused by the snapshot check and counts as one that    *)
(* does not parse.  A scan that does not reach promotion changes nothing   *)
(* here.                                                                   *)
(*                                                                         *)
(* Data abstracted: a log is the sequence of its session boundaries, and a *)
(* session is known by them: its id hashes its first and last instants.    *)
(* An end guessed from the modification time of a file is no end.          *)
(***************************************************************************)
EXTENDS Integers, Sequences

CONSTANTS
    MaxLaunches,   \* bound: how many times the game is started
    MaxRotations,  \* bound: how many times latest.log is rotated
    MaxScans,      \* bound: how many scans promote
    MaxParser,     \* bound: the last parser revision to be released
    Modes,         \* scan modes in use
    ParsingMayFail,\* whether an instance may fail to parse or exceed a limit
    FilesMayHide   \* whether a file may be skipped by the inventory

ASSUME BoundsAssumption == MaxLaunches \in Nat /\ MaxRotations \in Nat
                              /\ MaxScans \in Nat /\ MaxParser \in Nat \ {0}
ASSUME ModesAssumption == Modes \subseteq {"quick", "standard", "deep"}
ASSUME FaultsAssumption == ParsingMayFail \in BOOLEAN /\ FilesMayHide \in BOOLEAN

\* Rotation n of the log is path n; latest.log comes after all of them, as
\* in sort_logs_chronologically.
Latest == MaxRotations + 1
Paths == 1..Latest

Launches == 1..MaxLaunches
Event == [kind : {"start", "stop"}, launch : Launches]

NoStop == 0
\* A session as its id tells it apart: the start it begins with and the stop
\* it ends with.
Session == [start : Launches, stop : Launches \cup {NoStop}]

VARIABLES
    \* the instance folder
    disk,       \* disk[p]: content of path p
    exists,     \* paths that exist
    rotations,  \* how many rotations there were
    launches,   \* how many launches there were
    playing,    \* whether the last launch has not stopped
    \* the running MineTrace
    parser,     \* PARSER_REVISION of the installed version
    scans,      \* how many scans promoted
    \* the database
    revisions,  \* revisions[p]: source_revisions of path p, by generation
    present,    \* paths whose presence is 'present'
    sessions,   \* sessions of the instance
    links,      \* session_sources: <<session, path, generation>>
    dataset     \* dataset_state.revision

folder  == <<disk, exists, rotations, launches, playing>>
catalog == <<revisions, present, sessions, links, dataset>>
vars    == <<folder, parser, scans, catalog>>

Decision == {"new", "appended", "replaced", "reparse"}
Revision == [content : Seq(Event), parser : 1..MaxParser,
             change : Decision, status : {"parsed", "failed"}]

TypeOK ==
    /\ disk \in [Paths -> Seq(Event)]
    /\ exists \subseteq Paths
    /\ rotations \in 0..MaxRotations
    /\ launches \in 0..MaxLaunches
    /\ playing \in BOOLEAN /\ (playing => launches # 0)
    /\ parser \in 1..MaxParser
    /\ scans \in 0..MaxScans
    /\ revisions \in [Paths -> Seq(Revision)]
    /\ present \subseteq Paths
    /\ sessions \subseteq Session
    /\ links \subseteq Session \X Paths \X Nat
    /\ dataset \in Nat

Init ==
    /\ disk = [p \in Paths |-> <<>>]
    /\ exists = {Latest}
    /\ rotations = 0
    /\ launches = 0
    /\ playing = FALSE
    /\ parser = 1
    /\ scans = 0
    /\ revisions = [p \in Paths |-> <<>>]
    /\ present = {}
    /\ sessions = {}
    /\ links = {}
    /\ dataset = 0

-----------------------------------------------------------------------------
(***************************************************************************)
(* Minecraft and its user.                                                 *)
(***************************************************************************)
Write(kind, l) ==
    disk' = [disk EXCEPT ![Latest] = Append(@, [kind |-> kind, launch |-> l])]

StartGame ==
    /\ launches < MaxLaunches
    /\ launches' = launches + 1
    /\ playing' = TRUE
    /\ Write("start", launches + 1)
    /\ UNCHANGED <<exists, rotations, parser, scans, catalog>>

StopGame ==
    /\ playing
    /\ playing' = FALSE
    /\ Write("stop", launches)
    /\ UNCHANGED <<exists, rotations, launches, parser, scans, catalog>>

\* At a launch and at midnight latest.log becomes a dated file.
Rotate ==
    /\ rotations < MaxRotations
    /\ rotations' = rotations + 1
    /\ disk' = [disk EXCEPT ![rotations + 1] = disk[Latest], ![Latest] = <<>>]
    /\ exists' = exists \cup {rotations + 1}
    /\ UNCHANGED <<launches, playing, parser, scans, catalog>>

DeleteRotation(p) ==
    /\ p \in exists \ {Latest}
    /\ exists' = exists \ {p}
    /\ UNCHANGED <<disk, rotations, launches, playing, parser, scans, catalog>>

\* A new version of MineTrace brings a new parser.
UpgradeParser ==
    /\ parser < MaxParser
    /\ parser' = parser + 1
    /\ UNCHANGED <<folder, scans, catalog>>

-----------------------------------------------------------------------------
(***************************************************************************)
(* stage_inventory: what happened to each observed path.                   *)
(***************************************************************************)
Generation(p) == Len(revisions[p])
Current(p) == revisions[p][Generation(p)]

Extends(long, short) ==
    /\ Len(short) < Len(long)
    /\ SubSeq(long, 1, Len(short)) = short

\* Mutant: the lineage keeps the decision as it is published.
DecideAsPublished(p) ==
    IF Generation(p) = 0 THEN "new"
    ELSE IF Current(p).status = "failed" \/ Current(p).parser # parser THEN "reparse"
    ELSE IF Current(p).content = disk[p] THEN "unchanged"
    ELSE "changed"

\* Mutant: a failed generation is not parsed again while its bytes stay.
DecideIgnoringStatus(p) ==
    IF Generation(p) = 0 THEN "new"
    ELSE IF Current(p).parser # parser THEN "reparse"
    ELSE IF Current(p).content = disk[p] THEN "unchanged"
    ELSE IF Extends(disk[p], Current(p).content) THEN "appended"
    ELSE "replaced"

\* decide, with the order of its tests.
Decide(p) ==
    IF Generation(p) = 0 THEN "new"
    ELSE IF Current(p).status = "failed" \/ Current(p).parser # parser THEN "reparse"
    ELSE IF Current(p).content = disk[p] THEN "unchanged"
    ELSE IF Extends(disk[p], Current(p).content) THEN "appended"
    ELSE "replaced"

Changed(obs) == {p \in obs : Decide(p) # "unchanged"}

\* The generations of every path once the scan has recorded what it saw.
Recorded(obs, deferred) ==
    [p \in Paths |->
        IF p \in Changed(obs)
          THEN Append(revisions[p], [content |-> disk[p], parser |-> parser,
                                     change |-> Decide(p),
                                     status |-> IF deferred THEN "failed" ELSE "parsed"])
          ELSE revisions[p]]

\* Some later generation of the path replaced generation g.
Superseded(revs, p, g) ==
    \E h \in DOMAIN revs[p] : h > g /\ revs[p][h].change = "replaced"

-----------------------------------------------------------------------------
(***************************************************************************)
(* reconstruct_sessions over the observed logs, oldest first: a session    *)
(* begins at every start, takes the stops before the next start for its    *)
(* own, and ends at the first of them.                                     *)
(***************************************************************************)
Place(obs) == UNION {{p} \X DOMAIN disk[p] : p \in obs}
At(a) == disk[a[1]][a[2]]
Before(a, b) == a[1] < b[1] \/ (a[1] = b[1] /\ a[2] < b[2])

Starts(obs) == {a \in Place(obs) : At(a).kind = "start"}
StopsOf(obs, a) ==
    {b \in Place(obs) : /\ At(b).kind = "stop" /\ Before(a, b)
                        /\ ~\E c \in Starts(obs) : Before(a, c) /\ Before(c, b)}

FirstStop(obs, a) ==
    {b \in StopsOf(obs, a) : \A c \in StopsOf(obs, a) : ~Before(c, b)}

SessionAt(obs, a) ==
    [start |-> At(a).launch,
     stop  |-> IF FirstStop(obs, a) = {} THEN NoStop
               ELSE At(CHOOSE b \in FirstStop(obs, a) : TRUE).launch]

\* Mutant: a session is linked to the source of its start alone.
SourcesOfStart(obs, a) == {a[1]}

SourcesAt(obs, a) == {a[1]} \cup {b[1] : b \in StopsOf(obs, a)}

Reconstructed(obs) == {SessionAt(obs, a) : a \in Starts(obs)}

-----------------------------------------------------------------------------
(***************************************************************************)
(* promote_scan and promote_reconstruction_payloads.  revs are the         *)
(* generations after the scan, in which the new ones already stand.        *)
(***************************************************************************)
Complete(m) == m # "quick"

\* Mutant: a missing rotation protects nothing.
ProtectedIfReplaced(m, obs, revs) ==
    {s \in sessions : \E k \in links : k[1] = s /\ Superseded(revs, k[2], k[3])}

\* sessions_linked_to_unavailable_or_replaced_sources.
Protected(m, obs, revs) ==
    {s \in sessions : \E k \in links :
        /\ k[1] = s
        /\ (Complete(m) /\ k[2] \notin obs) \/ Superseded(revs, k[2], k[3])}

\* Sessions whose evidence the payload may hold anew: for an appended or
\* reparsed path those of its older generations, for an unchanged path those
\* of its current one, for a new or a replaced path none.
Rewritten(obs) ==
    {s \in sessions : \E k \in links :
        /\ k[1] = s /\ k[2] \in obs
        /\ \/ Decide(k[2]) \in {"appended", "reparse"}
           \/ Decide(k[2]) = "unchanged" /\ k[3] = Generation(k[2])}

\* The generation that the evidence of path p is recorded under.
NewGeneration(p) == IF Decide(p) = "unchanged" THEN Generation(p) ELSE Generation(p) + 1

\* What the payload links its sessions to.
PayloadLinks(obs) ==
    UNION {{<<SessionAt(obs, a), p, NewGeneration(p)>> : p \in SourcesAt(obs, a)} :
              a \in Starts(obs)}

\* Inserts the payload: a session that is there already keeps its links,
\* but for those that a replacement superseded.
Install(obs, kept, revs) ==
    LET built == Reconstructed(obs) IN
    /\ sessions' = kept \cup built
    /\ links' = {k \in links : k[1] \in kept /\ ~(k[1] \in built /\ Superseded(revs, k[2], k[3]))}
                  \cup PayloadLinks(obs)

\* Mutant: the whole instance is replaced although its history was superseded.
MayReplaceAllForgettingHistory(m, obs) ==
    /\ Complete(m)
    /\ \A p \in Paths \ obs : Generation(p) = 0
    /\ \A p \in obs : Decide(p) # "replaced"

\* replace_all: the payload may stand for everything the instance has.
MayReplaceAll(m, obs) ==
    /\ Complete(m)
    /\ \A p \in Paths \ obs : Generation(p) = 0
    /\ \A p \in obs : Decide(p) # "replaced"
    /\ \A k \in links : ~Superseded(revisions, k[2], k[3])

\* Sessions that stand while the payload is inserted.
Kept(m, obs, revs) ==
    IF MayReplaceAll(m, obs) THEN {}
    ELSE sessions \ (Rewritten(obs) \ Protected(m, obs, revs))

\* One scan of mode m that observes the files obs; deferred: a log of the
\* instance failed to parse, changed meanwhile, or exceeded a limit.
Scan(m, obs, deferred) ==
    LET reconstructs == IF m = "deep" THEN obs # {} ELSE Changed(obs) # {}
        missed       == IF Complete(m) THEN present \ obs ELSE {}
        revs         == Recorded(obs, deferred)
    IN
    /\ scans < MaxScans
    /\ deferred => ParsingMayFail /\ reconstructs
    /\ scans' = scans + 1
    /\ revisions' = revs
    /\ present' = (present \ missed) \cup obs
    /\ IF reconstructs /\ ~deferred
         THEN Install(obs, Kept(m, obs, revs), revs)
         ELSE UNCHANGED <<sessions, links>>
    /\ dataset' = IF Changed(obs) # {} \/ missed # {} \/ (reconstructs /\ ~deferred)
                    THEN dataset + 1 ELSE dataset
    /\ UNCHANGED <<folder, parser>>

\* Files the inventory of a mode looks for, and what it may come back with.
Offered(m) == IF Complete(m) THEN exists ELSE exists \cap {Latest}
Observable(m) == IF FilesMayHide THEN SUBSET Offered(m) ELSE {Offered(m)}

Next ==
    \/ StartGame \/ StopGame \/ Rotate
    \/ \E p \in Paths : DeleteRotation(p)
    \/ UpgradeParser
    \/ \E m \in Modes : \E obs \in Observable(m), deferred \in BOOLEAN : Scan(m, obs, deferred)

Spec == Init /\ [][Next]_vars

-----------------------------------------------------------------------------
(***************************************************************************)
(* Properties.                                                             *)
(***************************************************************************)

\* Event e stands in generation g of path p.
Stands(p, g, e) == \E i \in DOMAIN revisions[p][g].content : revisions[p][g].content[i] = e

Evidenced(s, e) == \E k \in links : k[1] = s /\ Stands(k[2], k[3], e)

\* "A calculated value is traceable to source revisions" (docs/
\* backend-architecture.md, invariant 4): the start of every session, and
\* its stop when it has one, stand in the generations it is linked to,
\* whatever was replaced, reconciled, protected or reparsed meanwhile.
SessionsAreTraceable ==
    \A s \in sessions :
        /\ Evidenced(s, [kind |-> "start", launch |-> s.start])
        /\ s.stop # NoStop => Evidenced(s, [kind |-> "stop", launch |-> s.stop])

\* The archive tells of launch l.
Archived(l) == \E s \in sessions : s.start = l

\* A launch that the archive has told of is never forgotten: deleted,
\* rotated or unreadable logs take no history with them ("Previously
\* imported history that depends on it remains available").
LaunchesStayArchived ==
    [][\A l \in Launches : Archived(l) => Archived(l)']_vars

\* A complete scan that defers nothing archives every launch whose start it
\* saw, whatever earlier scans skipped, deferred or parsed with an older
\* parser.
CompleteScanArchivesWhatItSaw ==
    [][\A m \in Modes \ {"quick"} : \A obs \in Observable(m) :
          Scan(m, obs, FALSE) => \A a \in Starts(obs) : Archived(At(a).launch)']_vars

\* A deep scan that finds every known file as it was changes no session:
\* what standard scans built up step by step is what one reconstruction of
\* the whole instance yields, next to the sessions it must preserve.  It adds
\* no link either; one that was kept to an older generation may go.
DeepRescanIsIdempotent ==
    [][\A obs \in Observable("deep") :
          /\ Scan("deep", obs, FALSE)
          /\ \A p \in obs : Decide(p) = "unchanged"
          /\ \A p \in Paths \ obs : Generation(p) = 0
          => sessions' = sessions /\ links' \subseteq links]_vars

\* No launch is told of twice ("deduplication links both sources to
\* canonical sessions").
OneSessionPerLaunch ==
    \A s, t \in sessions : s.start = t.start => s = t

=============================================================================
