------------------------- MODULE LocationDiscovery -------------------------
(***************************************************************************)
(* From folders on the disk to instances in the database.  A scan looks at *)
(* the places where launchers keep their data and at the saved locations,  *)
(* saves those it will read, and takes an inventory of each; every group   *)
(* of logs becomes an instance.  Meanwhile the user adds locations and the *)
(* folders change.  Locations and instances are saved at once, outside the *)
(* staging of the run: a scan that is cancelled leaves them behind.        *)
(*                                                                         *)
(* Data abstracted: a canonical path is a place and stands for its key and *)
(* for the location id, which is a digest of the key; an instance id is a  *)
(* digest of the location id and the relative root.                        *)
(***************************************************************************)
EXTENDS FolderLayout

CONSTANTS
    Places,          \* folders that are or may become locations
    CandidateOf,     \* candidate place of each adapter
    Layouts,         \* Layouts[p]: trees that may be found at p
    MaxChanges, MaxScans   \* bounds: changes of the disk and by the user, scans

Adapters == {"official", "prism"}
Modes == {"quick", "standard"}
ASSUME PlacesAssumption ==
    /\ CandidateOf \in [Adapters -> Places]
    /\ \A p \in Places : \A t \in Layouts[p] : IsTree(t)

VARIABLES
    disk,         \* the tree at each place
    stored,       \* scan_locations: rows by place
    instances,    \* instances: rows
    scan,         \* what the worker is doing
    mode,
    adapters,     \* adapters not yet looked at
    saved,        \* saved locations read, not yet looked at
    discovered,   \* installations found, by place
    locations,    \* enabled locations not yet read
    report,       \* the last inventory, in a singleton
    groups,       \* groups not yet taken
    taken,        \* instances staged by this scan, in order
    read,         \* locations this scan could read
    adding,       \* the location the user is adding, in a singleton
    changes, scans

finding == <<adapters, saved, discovered>>
reading == <<locations, report, groups, taken, read>>
world   == <<disk, adding, changes>>
vars == <<world, stored, instances, scan, mode, finding, reading, scans>>

Row == [id : Places, adapter : Adapters \cup {"manual"}, origin : {"automatic", "custom"},
        enabled : BOOLEAN]

\* Mutant: the id is of what the location was taken for.
InstanceIdOfAdapter(location, root) == <<location.id, location.adapter, root>>

InstanceId(location, root) == <<location.id, root>>

LocationName == "location"     \* names of locations are not told apart

-----------------------------------------------------------------------------
(***************************************************************************)
(* Discovery.                                                              *)
(***************************************************************************)
Accepts(adapter, kind) == kind = IF adapter = "official" THEN "game" ELSE "launcher"

Installation(place, adapter, origin, count, enabled) ==
    [id |-> place, place |-> place, adapter |-> adapter, origin |-> origin,
     instances |-> count, enabled |-> enabled, name |-> LocationName]

WithFound(place, l) ==
    [p \in DOMAIN discovered \cup {place} |-> IF p = place THEN l ELSE discovered[p]]

StartScan(m) ==
    /\ scan = "idle" /\ scans < MaxScans
    /\ scan' = "discovering" /\ mode' = m /\ scans' = scans + 1
    /\ adapters' = Adapters
    /\ UNCHANGED <<world, stored, instances, saved, discovered, reading>>

DiscoverCandidate(adapter) ==
    /\ scan = "discovering" /\ adapter \in adapters
    /\ adapter = "prism" => "official" \notin adapters
    /\ adapters' = adapters \ {adapter}
    /\ LET place == CandidateOf[adapter]
           found == Validate(disk[place])
       IN  discovered' = IF Supported(found) /\ Accepts(adapter, found.kind)
                         THEN WithFound(place, Installation(place, adapter, "automatic", found.count, TRUE))
                         ELSE discovered
    /\ UNCHANGED <<world, stored, instances, scan, mode, saved, reading, scans>>

ListSaved ==
    /\ scan = "discovering" /\ adapters = {}
    /\ scan' = "checking saved"
    /\ saved' = {[place |-> p, row |-> stored[p]] : p \in DOMAIN stored}
    /\ UNCHANGED <<world, stored, instances, mode, adapters, discovered, reading, scans>>

\* A saved location lends its id to the automatic one of its path; by itself
\* it is a custom one, and unavailable when its folder is not what it was.
WithSaved(s) ==
    IF s.place \in DOMAIN discovered
    THEN [discovered EXCEPT ![s.place].id = s.row.id, ![s.place].enabled = s.row.enabled]
    ELSE LET found     == Validate(disk[s.place])
             available == Supported(found)
             count     == IF ~available THEN 0 ELSE IF found.count = 0 THEN 1 ELSE found.count
         IN  WithFound(s.place,
                 [Installation(s.place, "manual", "custom", count, s.row.enabled /\ available)
                    EXCEPT !.id = s.row.id])
CheckSaved ==
    /\ scan = "checking saved" /\ saved # {}
    /\ LET s == CHOOSE s \in saved : TRUE
       IN  saved' = saved \ {s} /\ discovered' = WithSaved(s)
    /\ UNCHANGED <<world, stored, instances, scan, mode, adapters, reading, scans>>

\* ON CONFLICT(path_key): the row keeps its id.
Saved(rows, found) ==
    [p \in DOMAIN rows \cup {l.place : l \in found} |->
        IF \E l \in found : l.place = p
        THEN LET l == CHOOSE l \in found : l.place = p
             IN  [id |-> IF p \in DOMAIN rows THEN rows[p].id ELSE l.id,
                  adapter |-> l.adapter, origin |-> l.origin, enabled |-> l.enabled]
        ELSE rows[p]]

Enabled == {discovered[p] : p \in {q \in DOMAIN discovered : discovered[q].enabled}}

SaveLocations ==
    /\ scan = "checking saved" /\ saved = {} /\ Enabled # {}
    /\ stored' = Saved(stored, Enabled)
    /\ scan' = "indexing" /\ locations' = Enabled
    /\ UNCHANGED <<world, instances, mode, finding, report, groups, taken, read, scans>>

-----------------------------------------------------------------------------
(***************************************************************************)
(* Inventory of each enabled location.                                     *)
(***************************************************************************)
KnownInstances(place) == {i \in instances : i.location = stored[place].id}

\* Mutant: every known instance is looked for anew.
RevisitedAlways(location, found) ==
    {[root |-> i.root, name |-> i.name, logs |-> {}] : i \in KnownInstances(location.place)}

\* Instances without a log are visited too, so that their logs are missed.
Revisited(location, found) ==
    {[root |-> i.root, name |-> i.name, logs |-> {}] :
        i \in {k \in KnownInstances(location.place) : \A g \in found : g.root # k.root}}

\* Locations and groups are taken in the order of their keys.
NextLocation == CHOOSE l \in locations : TRUE

TakeInventory ==
    /\ scan = "indexing" /\ locations # {} /\ groups = {}
    /\ ~InventoryFails(disk[NextLocation.place])
    /\ LET location == NextLocation
           tree  == disk[location.place]
           logs  == Candidates(tree)
           found == Groups(location, logs, mode)
       IN  /\ report' = {[location |-> location, tree |-> tree, logs |-> logs,
                          warnings |-> Warnings(tree), groups |-> found]}
           /\ groups' = found \cup IF mode = "quick" THEN {} ELSE Revisited(location, found)
    /\ locations' = locations \ {NextLocation}
    /\ read' = read \cup {NextLocation.place}
    /\ UNCHANGED <<world, stored, instances, scan, mode, finding, taken, scans>>

\* An issue is told and the location skipped.
InventoryFailed ==
    /\ scan = "indexing" /\ locations # {} /\ groups = {}
    /\ InventoryFails(disk[NextLocation.place])
    /\ locations' = locations \ {NextLocation}
    /\ UNCHANGED <<world, stored, instances, scan, mode, finding, report, groups, taken, read, scans>>

\* ON CONFLICT(location_id, relative_path_key): the row keeps its id.
WithInstance(rows, location, group) ==
    IF \E i \in rows : i.location = location.id /\ i.root = group.root
    THEN {IF i.location = location.id /\ i.root = group.root
          THEN [i EXCEPT !.name = group.name] ELSE i : i \in rows}
    ELSE rows \cup {[id |-> InstanceId(location, group.root), location |-> location.id,
                     root |-> group.root, name |-> group.name]}

\* upsert_instance, then stage_inventory under the id it returns.
TakeGroup ==
    /\ scan = "indexing" /\ groups # {}
    /\ LET group == CHOOSE g \in groups : TRUE
       IN  \E r \in report :
          /\ groups' = groups \ {group}
          /\ instances' = WithInstance(instances, r.location, group)
          /\ taken' = Append(taken, [instance |-> InstanceId(r.location, group.root),
                                     place |-> r.location.place, logs |-> group.logs])
    /\ UNCHANGED <<world, stored, scan, mode, finding, locations, report, read, scans>>

\* Parsing follows; the scan is over for what is modelled here.
FinishIndexing ==
    /\ scan = "indexing" /\ locations = {} /\ groups = {} /\ read # {}
    /\ scan' = "indexed"
    /\ UNCHANGED <<world, stored, instances, mode, finding, reading, scans>>

\* However a scan ends, locations and instances stay as it has saved them.
Leave ==
    /\ scan' = "idle"
    /\ adapters' = {} /\ saved' = {} /\ discovered' = <<>>
    /\ locations' = {} /\ report' = {} /\ groups' = {} /\ taken' = <<>> /\ read' = {}
    /\ UNCHANGED <<world, stored, instances, mode, scans>>

\* Nothing to scan, or nothing readable.
FailScan ==
    /\ \/ scan = "checking saved" /\ saved = {} /\ Enabled = {}
       \/ scan = "indexing" /\ locations = {} /\ groups = {} /\ read = {}
    /\ Leave
CancelScan == scan \in {"discovering", "checking saved", "indexing"} /\ Leave
EndScan == scan = "indexed" /\ Leave

-----------------------------------------------------------------------------
(***************************************************************************)
(* The user and the disk.                                                  *)
(***************************************************************************)
\* The path is made canonical first, so no link becomes a location.
AddLocation(place) ==
    /\ changes < MaxChanges /\ changes' = changes + 1
    /\ adding = {} /\ Supported(Validate(disk[place])) /\ ~disk[place].linked
    /\ adding' = {Installation(place, "manual", "custom", 0, TRUE)}
    /\ UNCHANGED <<disk, stored, instances, scan, mode, finding, reading, scans>>

StoreLocation ==
    /\ adding # {}
    /\ stored' = Saved(stored, adding)
    /\ adding' = {}
    /\ UNCHANGED <<disk, changes, instances, scan, mode, finding, reading, scans>>

ChangeDisk(place) ==
    /\ changes < MaxChanges /\ changes' = changes + 1
    /\ \E t \in Layouts[place] \ {disk[place]} : disk' = [disk EXCEPT ![place] = t]
    /\ UNCHANGED <<adding, stored, instances, scan, mode, finding, reading, scans>>

-----------------------------------------------------------------------------
Init ==
    /\ disk \in {d \in [Places -> UNION {Layouts[p] : p \in Places}] : \A p \in Places : d[p] \in Layouts[p]}
    /\ stored = <<>> /\ instances = {}
    /\ scan = "idle" /\ mode = "standard" /\ adapters = {} /\ saved = {} /\ discovered = <<>>
    /\ locations = {} /\ report = {} /\ groups = {} /\ taken = <<>> /\ read = {}
    /\ adding = {} /\ changes = 0 /\ scans = 0

Scanning ==
    \/ \E m \in Modes : StartScan(m)
    \/ \E a \in Adapters : DiscoverCandidate(a)
    \/ ListSaved \/ CheckSaved \/ SaveLocations
    \/ TakeInventory \/ InventoryFailed \/ TakeGroup
    \/ FinishIndexing \/ FailScan \/ CancelScan \/ EndScan
Others == (\E p \in Places : AddLocation(p) \/ ChangeDisk(p)) \/ StoreLocation
Next == Scanning \/ Others
Spec == Init /\ [][Next]_vars

-----------------------------------------------------------------------------
\* What a scan stages it stages under an instance that is in the database, of
\* a location that is in the database, whatever the location was taken for by
\* earlier scans, by cancelled ones and by the user: the rows that follow are
\* foreign keys, and old sessions stay with their instance.
StagedUnderKnownInstance ==
    \A n \in DOMAIN taken :
        \E i \in instances, p \in DOMAIN stored :
            i.id = taken[n].instance /\ i.location = stored[p].id /\ p = taken[n].place

\* A complete scan visits every known instance of every location it could read
\* exactly once: one left out keeps logs that are gone, one staged twice has its
\* second visit miss the logs of the first.
EveryInstanceVisitedOnce ==
    scan = "indexed" /\ mode = "standard" =>
        \A i \in instances, p \in read :
            i.location = stored[p].id =>
                Cardinality({n \in DOMAIN taken : taken[n].instance = i.id}) = 1

\* Where launchers put logs: in the game folder, which is the location, a game
\* folder in it, or either of these for each of its instances.
GameFolder(d) ==
    \/ d = <<>> \/ (Len(d) = 1 /\ d[1] \in GameNames)
    \/ Len(d) \in {2, 3} /\ d[1] = "instances" /\ (Len(d) = 3 => d[3] \in GameNames)
LaunchersLog(f) ==
    IsLogName(Last(f)) /\ \E n \in Positions(Front(f), "logs") : GameFolder(SubSeq(f, 1, n - 1))

\* The walk loses no log in silence: what lies where launchers put logs is a
\* candidate, or the log or a folder above it is told as a warning.
NoLogIsLostInSilence ==
    \A r \in report : \A f \in r.tree.files :
        LaunchersLog(f) => \/ f \in r.logs
                           \/ \E n \in 1..Len(f) : SubSeq(f, 1, n) \in r.warnings

\* Instances do not share a group, and the logs of one folder are not split
\* over two, whatever the instances are called.
Pack(f) == IF f[1] = "instances" THEN f[2] ELSE ""
InstancesKeepApart ==
    \A r \in report : \A g, h \in r.groups : \A p \in g.logs, q \in h.logs :
        /\ g = h => Pack(p) = Pack(q)
        /\ Front(p) = Front(q) => g = h
=============================================================================
