---------------------- MODULE LocationDiscovery_proofs ----------------------
(***************************************************************************)
(* What a scan stages hangs on an instance and a location that are in the  *)
(* database, no log is lost in silence, instances are kept apart and each  *)
(* is visited once: for any folders, layouts, number of scans and of       *)
(* changes.                                                                *)
(*                                                                         *)
(* Rows are written by three parties (this scan, earlier ones and the      *)
(* user) and an upsert keeps the id of the row it finds. The invariant is  *)
(* that this never makes a difference: whoever wrote a row of a path, its  *)
(* id is that of the path, and the id of an instance is that of its        *)
(* location and root.                                                      *)
(*                                                                         *)
(* The rest follows a tree from the root down: the root of a log is a      *)
(* function of its folder, and the walk enters every folder on the way to  *)
(* a log or warns of the first it does not.                                *)
(***************************************************************************)
EXTENDS LocationDiscovery, DataInduction, SequenceTheorems

\* A location under the id of its path.
Keyed(l) == {"id", "place"} \subseteq DOMAIN l /\ l.id = l.place

RowsStand ==
    /\ \A p \in DOMAIN stored : stored[p].id = p
    /\ \A l \in adding : Keyed(l)

FindingStands ==
    /\ \A s \in saved : s.row.id = s.place
    /\ \A p \in DOMAIN discovered : Keyed(discovered[p]) /\ discovered[p].place = p

\* Locations that are read have been saved.
ReadingStands ==
    /\ \A l \in locations : Keyed(l) /\ l.place \in DOMAIN stored
    /\ \A r \in report : Keyed(r.location) /\ r.location.place \in DOMAIN stored

InstancesStand ==
    \A i \in instances : {"id", "location", "root"} \subseteq DOMAIN i /\ i.id = <<i.location, i.root>>

Known(t, rows) == \E i \in rows : i.id = t.instance /\ i.location = t.place
TakenStand ==
    /\ taken \in Seq({taken[n] : n \in DOMAIN taken})
    /\ \A n \in DOMAIN taken : taken[n].place \in DOMAIN stored /\ Known(taken[n], instances)

IInv == RowsStand /\ FindingStands /\ ReadingStands /\ InstancesStand /\ TakenStand

-----------------------------------------------------------------------------
\* Saving locations under the ids of their paths keeps every row under its.
LEMMA SavedStand ==
    ASSUME NEW rows, NEW found,
           \A p \in DOMAIN rows : rows[p].id = p,
           \A l \in found : l.id = l.place
    PROVE  /\ \A p \in DOMAIN Saved(rows, found) : Saved(rows, found)[p].id = p
           /\ DOMAIN rows \subseteq DOMAIN Saved(rows, found)
           /\ \A l \in found : l.place \in DOMAIN Saved(rows, found)
<1>1. DOMAIN Saved(rows, found) = DOMAIN rows \cup {l.place : l \in found}
  BY DEF Saved
<1>2. ASSUME NEW p \in DOMAIN Saved(rows, found)
      PROVE  Saved(rows, found)[p].id = p
  <2>1. CASE \E l \in found : l.place = p
    <3> DEFINE l == CHOOSE l \in found : l.place = p
    <3>1. l \in found /\ l.place = p
      BY <2>1
    <3>2. Saved(rows, found)[p].id = IF p \in DOMAIN rows THEN rows[p].id ELSE l.id
      BY <1>1, <2>1 DEF Saved
    <3> QED BY <3>1, <3>2
  <2>2. CASE ~ \E l \in found : l.place = p
    <3>1. p \in DOMAIN rows
      BY <1>1, <2>2
    <3>2. Saved(rows, found)[p] = rows[p]
      BY <1>1, <2>2 DEF Saved
    <3> QED BY <3>1, <3>2
  <2> QED BY <2>1, <2>2
<1> QED BY <1>1, <1>2

\* What was taken keeps its instance when another is saved, and the instance
\* saved is under the id that is staged with it.
LEMMA WithInstanceStands ==
    ASSUME NEW rows, NEW location, NEW group, Keyed(location),
           \A i \in rows : {"id", "location", "root"} \subseteq DOMAIN i /\ i.id = <<i.location, i.root>>
    PROVE  LET new == WithInstance(rows, location, group)
           IN  /\ \A i \in new : {"id", "location", "root"} \subseteq DOMAIN i
                                   /\ i.id = <<i.location, i.root>>
               /\ \A t : Known(t, rows) => Known(t, new)
               /\ \E i \in new : i.id = InstanceId(location, group.root) /\ i.location = location.id
<1> DEFINE Matches(i) == i.location = location.id /\ i.root = group.root
           Renamed(i) == IF Matches(i) THEN [i EXCEPT !.name = group.name] ELSE i
           added == [id |-> InstanceId(location, group.root), location |-> location.id,
                     root |-> group.root, name |-> group.name]
           new == WithInstance(rows, location, group)
<1>1. CASE \E i \in rows : Matches(i)
  <2>1. new = {Renamed(i) : i \in rows}
    BY <1>1 DEF WithInstance
  <2>2. ASSUME NEW i \in rows
        PROVE  /\ {"id", "location", "root"} \subseteq DOMAIN Renamed(i)
               /\ Renamed(i).id = i.id /\ Renamed(i).location = i.location /\ Renamed(i).root = i.root
    OBVIOUS
  <2>3. PICK i \in rows : Matches(i)
    BY <1>1
  <2>4. i.id = InstanceId(location, group.root)
    BY <2>3 DEF InstanceId
  <2> HIDE DEF Renamed
  <2>5. \A k \in new : {"id", "location", "root"} \subseteq DOMAIN k /\ k.id = <<k.location, k.root>>
    BY <2>1, <2>2
  <2>6. \A t : Known(t, rows) => Known(t, new)
    BY <2>1, <2>2 DEF Known
  <2>7. \E k \in new : k.id = InstanceId(location, group.root) /\ k.location = location.id
    BY <2>1, <2>2, <2>3, <2>4
  <2> QED BY <2>5, <2>6, <2>7
<1>2. CASE ~ \E i \in rows : Matches(i)
  <2>1. new = rows \cup {added}
    BY <1>2 DEF WithInstance
  <2>2. {"id", "location", "root"} \subseteq DOMAIN added /\ added.id = <<added.location, added.root>>
    BY DEF InstanceId
  <2>3. added.id = InstanceId(location, group.root) /\ added.location = location.id
    OBVIOUS
  <2> HIDE DEF added
  <2>4. \A t : Known(t, rows) => Known(t, new)
    BY <2>1 DEF Known
  <2> QED BY <2>1, <2>2, <2>3, <2>4
<1> QED BY <1>1, <1>2

-----------------------------------------------------------------------------
\* The installation made of a path is under the id of that path.
LEMMA InstallationKeyed ==
    ASSUME NEW place, NEW adapter, NEW origin, NEW count, NEW enabled
    PROVE  LET l == Installation(place, adapter, origin, count, enabled)
           IN  Keyed(l) /\ l.place = place
BY DEF Installation, Keyed

\* What is discovered is enabled or not under its own id.
LEMMA EnabledKeyed ==
    ASSUME FindingStands
    PROVE  \A l \in Enabled : Keyed(l)
BY DEF FindingStands, Enabled

\* What is found at a place is entered under that place.
LEMMA WithFoundStands ==
    ASSUME FindingStands, NEW place, NEW l, Keyed(l), l.place = place
    PROVE  \A p \in DOMAIN WithFound(place, l) :
               Keyed(WithFound(place, l)[p]) /\ WithFound(place, l)[p].place = p
BY DEF FindingStands, WithFound

\* A saved location that joins what was discovered does so under its id.
LEMMA WithSavedStands ==
    ASSUME FindingStands, NEW s \in saved
    PROVE  \A p \in DOMAIN WithSaved(s) : Keyed(WithSaved(s)[p]) /\ WithSaved(s)[p].place = p
<1>1. CASE s.place \in DOMAIN discovered
  <2> DEFINE l == [[discovered[s.place] EXCEPT !.id = s.row.id] EXCEPT !.enabled = s.row.enabled]
  <2>1. WithSaved(s) = [discovered EXCEPT ![s.place] = l]
    BY <1>1 DEF WithSaved
  <2>2. Keyed(discovered[s.place]) /\ discovered[s.place].place = s.place /\ s.row.id = s.place
    BY <1>1 DEF FindingStands
  <2>3. Keyed(l) /\ l.place = s.place
    BY <2>2 DEF Keyed
  <2> HIDE DEF l
  <2> QED BY <2>1, <2>3 DEF FindingStands
<1>2. CASE s.place \notin DOMAIN discovered
  <2> DEFINE found == Validate(disk[s.place])
             available == Supported(found)
             count == IF ~available THEN 0 ELSE IF found.count = 0 THEN 1 ELSE found.count
             made == Installation(s.place, "manual", "custom", count, s.row.enabled /\ available)
             l == [made EXCEPT !.id = s.row.id]
  <2>1. WithSaved(s) = WithFound(s.place, l)
    BY <1>2 DEF WithSaved
  <2>2. Keyed(made) /\ made.place = s.place
    BY InstallationKeyed
  <2>3. s.row.id = s.place
    BY DEF FindingStands
  <2> HIDE DEF made
  <2>4. Keyed(l) /\ l.place = s.place
    BY <2>2, <2>3 DEF Keyed
  <2> HIDE DEF l
  <2> QED BY <2>1, <2>4, WithFoundStands
<1> QED BY <1>1, <1>2

-----------------------------------------------------------------------------
LEMMA InitHolds == Init => IInv
BY DEF Init, IInv, RowsStand, FindingStands, ReadingStands, InstancesStand, TakenStand

\* Steps that write no row of an instance and stage nothing.
LEMMA KeepsTaken ==
    ASSUME InstancesStand, TakenStand,
           instances' = instances, taken' = taken \/ taken' = <<>>,
           DOMAIN stored \subseteq DOMAIN stored'
    PROVE  InstancesStand' /\ TakenStand'
<1>1. InstancesStand'
  BY DEF InstancesStand
<1>2. CASE taken' = taken
  <2>1. \A n \in DOMAIN taken : taken[n].place \in DOMAIN stored' /\ Known(taken[n], instances)
    BY DEF TakenStand
  <2>2. taken \in Seq({taken[n] : n \in DOMAIN taken})
    BY DEF TakenStand
  <2>3. \A n \in DOMAIN taken' : taken'[n].place \in DOMAIN stored' /\ Known(taken'[n], instances')
    BY <1>2, <2>1 DEF Known
  <2>4. taken' \in Seq({taken'[n] : n \in DOMAIN taken'})
    BY <1>2, <2>2
  <2> QED BY <1>1, <2>3, <2>4 DEF TakenStand
<1>3. CASE taken' = <<>>
  <2>1. DOMAIN taken' = {}
    BY <1>3
  <2>2. taken' \in Seq({taken'[n] : n \in DOMAIN taken'})
    BY <1>3
  <2> QED BY <1>1, <2>1, <2>2 DEF TakenStand
<1> QED BY <1>1, <1>2, <1>3

\* One group: its instance is saved and its logs are staged under it.
LEMMA TakeGroupStands == IInv /\ TakeGroup => IInv'
<1> SUFFICES ASSUME IInv, TakeGroup
             PROVE  IInv'
  OBVIOUS
<1> DEFINE group == CHOOSE g \in groups : TRUE
<1>1. PICK r \in report :
         /\ instances' = WithInstance(instances, r.location, group)
         /\ taken' = Append(taken, [instance |-> InstanceId(r.location, group.root),
                                    place |-> r.location.place, logs |-> group.logs])
  BY DEF TakeGroup
<1> DEFINE t == [instance |-> InstanceId(r.location, group.root),
                 place |-> r.location.place, logs |-> group.logs]
<1>2. UNCHANGED <<stored, adding, saved, discovered, locations, report>>
  BY DEF TakeGroup, world, finding
<1>3. RowsStand' /\ FindingStands' /\ ReadingStands'
  BY <1>2 DEF IInv, RowsStand, FindingStands, ReadingStands
<1> HIDE DEF group
<1>4. Keyed(r.location) /\ r.location.place \in DOMAIN stored
  BY DEF IInv, ReadingStands
<1>5. /\ InstancesStand'
      /\ \A k : Known(k, instances) => Known(k, instances')
      /\ \E i \in instances' : i.id = InstanceId(r.location, group.root) /\ i.location = r.location.id
  BY <1>1, <1>4, WithInstanceStands DEF IInv, InstancesStand
<1>6. Known(t, instances') /\ t.place \in DOMAIN stored'
  BY <1>2, <1>4, <1>5 DEF Known, Keyed
<1>7. taken \in Seq({taken[n] : n \in DOMAIN taken})
  BY DEF IInv, TakenStand
<1> HIDE DEF t
<1>8. taken' = Append(taken, t)
  BY <1>1 DEF t
<1>9. /\ Len(taken) \in Nat /\ DOMAIN taken = 1..Len(taken) /\ DOMAIN taken' = 1..(Len(taken) + 1)
      /\ \A n \in DOMAIN taken : taken'[n] = taken[n]
      /\ taken'[Len(taken) + 1] = t
  BY <1>7, <1>8
<1>10. taken' \in Seq({taken'[n] : n \in DOMAIN taken'})
  <2>1. \A n \in DOMAIN taken : taken[n] \in {taken'[k] : k \in DOMAIN taken'}
    BY <1>9
  <2>2. taken \in Seq({taken'[k] : k \in DOMAIN taken'})
    BY <1>7, <2>1
  <2>3. t \in {taken'[k] : k \in DOMAIN taken'}
    BY <1>9
  <2> QED BY <1>8, <2>2, <2>3
<1>11. ASSUME NEW n \in DOMAIN taken'
       PROVE  taken'[n].place \in DOMAIN stored' /\ Known(taken'[n], instances')
  <2>1. CASE n \in DOMAIN taken
    <3>1. taken[n].place \in DOMAIN stored /\ Known(taken[n], instances)
      BY <2>1 DEF IInv, TakenStand
    <3> QED BY <1>2, <1>5, <1>9, <2>1, <3>1
  <2>2. CASE n = Len(taken) + 1
    BY <1>6, <1>9, <2>2
  <2> QED BY <1>9, <2>1, <2>2
<1>12. TakenStand'
  BY <1>10, <1>11 DEF TakenStand
<1> QED BY <1>3, <1>5, <1>12 DEF IInv
\* Every step keeps the invariant.
LEMMA NextHolds == IInv /\ [Next]_vars => IInv'
<1> SUFFICES ASSUME IInv, [Next]_vars
             PROVE  IInv'
  OBVIOUS
<1> USE DEF IInv
<1>1. ASSUME NEW m \in Modes, StartScan(m)
      PROVE  IInv'
  <2>1. UNCHANGED <<stored, adding, saved, discovered, locations, report, instances, taken>>
    BY <1>1 DEF StartScan, world, reading
  <2>2. RowsStand' /\ FindingStands' /\ ReadingStands'
    BY <2>1 DEF RowsStand, FindingStands, ReadingStands
  <2> QED BY <2>1, <2>2, KeepsTaken
<1>2. ASSUME NEW a \in Adapters, DiscoverCandidate(a)
      PROVE  IInv'
  <2>1. UNCHANGED <<stored, adding, saved, locations, report, instances, taken>>
    BY <1>2 DEF DiscoverCandidate, world, reading
  <2>2. FindingStands'
    <3> DEFINE place == CandidateOf[a]
               found == Validate(disk[place])
               l == Installation(place, a, "automatic", found.count, TRUE)
    <3>1. discovered' = WithFound(place, l) \/ discovered' = discovered
      BY <1>2 DEF DiscoverCandidate
    <3>2. Keyed(l) /\ l.place = place
      BY DEF Installation, Keyed
    <3> HIDE DEF l, place
    <3>3. CASE discovered' = WithFound(place, l)
      BY <2>1, <3>2, <3>3, WithFoundStands DEF FindingStands
    <3>4. CASE discovered' = discovered
      BY <2>1, <3>4 DEF FindingStands
    <3> QED BY <3>1, <3>3, <3>4
  <2>3. RowsStand' /\ ReadingStands'
    BY <2>1 DEF RowsStand, ReadingStands
  <2> QED BY <2>1, <2>2, <2>3, KeepsTaken
<1>3. ASSUME ListSaved
      PROVE  IInv'
  <2>1. UNCHANGED <<stored, adding, discovered, locations, report, instances, taken>>
    BY <1>3 DEF ListSaved, world, reading
  <2>2. saved' = {[place |-> p, row |-> stored[p]] : p \in DOMAIN stored}
    BY <1>3 DEF ListSaved
  <2>3. \A p \in DOMAIN stored : stored[p].id = p
    BY DEF RowsStand
  <2>4. \A s \in saved' : s.row.id = s.place
    BY <2>2, <2>3
  <2>5. RowsStand' /\ FindingStands' /\ ReadingStands'
    BY <2>1, <2>4 DEF RowsStand, FindingStands, ReadingStands
  <2> QED BY <2>1, <2>5, KeepsTaken
<1>4. ASSUME CheckSaved
      PROVE  IInv'
  <2>1. UNCHANGED <<stored, adding, locations, report, instances, taken>>
    BY <1>4 DEF CheckSaved, world, reading
  <2>2. PICK s \in saved : saved' = saved \ {s} /\ discovered' = WithSaved(s)
    BY <1>4 DEF CheckSaved
  <2>3. FindingStands'
    BY <2>2, WithSavedStands DEF FindingStands
  <2>4. RowsStand' /\ ReadingStands'
    BY <2>1 DEF RowsStand, ReadingStands
  <2> QED BY <2>1, <2>3, <2>4, KeepsTaken
<1>5. ASSUME SaveLocations
      PROVE  IInv'
  <2>1. UNCHANGED <<adding, saved, discovered, report, instances, taken>>
    BY <1>5 DEF SaveLocations, world, finding
  <2>2. stored' = Saved(stored, Enabled) /\ locations' = Enabled
    BY <1>5 DEF SaveLocations
  <2>3. \A l \in Enabled : Keyed(l) /\ l.id = l.place
    BY EnabledKeyed DEF Keyed
  <2>4. /\ \A p \in DOMAIN stored' : stored'[p].id = p
        /\ DOMAIN stored \subseteq DOMAIN stored'
        /\ \A l \in Enabled : l.place \in DOMAIN stored'
    BY <2>2, <2>3, SavedStand DEF RowsStand
  <2>5. RowsStand' /\ FindingStands'
    BY <2>1, <2>4 DEF RowsStand, FindingStands
  <2>6. ReadingStands'
    BY <2>1, <2>2, <2>3, <2>4 DEF ReadingStands
  <2> QED BY <2>1, <2>4, <2>5, <2>6, KeepsTaken
<1>6. ASSUME TakeInventory
      PROVE  IInv'
  <2>1. UNCHANGED <<stored, adding, saved, discovered, instances, taken>>
    BY <1>6 DEF TakeInventory, world, finding
  <2>2. locations' \subseteq locations /\ NextLocation \in locations
    BY <1>6 DEF TakeInventory, NextLocation
  <2>3. \A r \in report' : r.location = NextLocation
    BY <1>6 DEF TakeInventory
  <2>4. RowsStand' /\ FindingStands'
    BY <2>1 DEF RowsStand, FindingStands
  <2>5. ReadingStands'
    BY <2>1, <2>2, <2>3 DEF ReadingStands
  <2> QED BY <2>1, <2>4, <2>5, KeepsTaken
<1>7. ASSUME InventoryFailed
      PROVE  IInv'
  <2>1. UNCHANGED <<stored, adding, saved, discovered, report, instances, taken>>
    BY <1>7 DEF InventoryFailed, world, finding
  <2>2. locations' \subseteq locations
    BY <1>7 DEF InventoryFailed
  <2>3. RowsStand' /\ FindingStands' /\ ReadingStands'
    BY <2>1, <2>2 DEF RowsStand, FindingStands, ReadingStands
  <2> QED BY <2>1, <2>3, KeepsTaken
<1>8. CASE TakeGroup
  BY <1>8, TakeGroupStands
<1>9. ASSUME FinishIndexing
      PROVE  IInv'
  <2>1. UNCHANGED <<stored, adding, saved, discovered, locations, report, instances, taken>>
    BY <1>9 DEF FinishIndexing, world, finding, reading
  <2>2. RowsStand' /\ FindingStands' /\ ReadingStands'
    BY <2>1 DEF RowsStand, FindingStands, ReadingStands
  <2> QED BY <2>1, <2>2, KeepsTaken
<1>10. ASSUME Leave
       PROVE  IInv'
  <2>1. /\ UNCHANGED <<stored, adding, instances>>
        /\ saved' = {} /\ discovered' = <<>> /\ locations' = {} /\ report' = {} /\ taken' = <<>>
    BY <1>10 DEF Leave, world
  <2>2. RowsStand' /\ FindingStands' /\ ReadingStands'
    BY <2>1 DEF RowsStand, FindingStands, ReadingStands
  <2> QED BY <2>1, <2>2, KeepsTaken
<1>11. ASSUME NEW p \in Places, AddLocation(p)
       PROVE  IInv'
  <2>1. UNCHANGED <<stored, saved, discovered, locations, report, instances, taken>>
    BY <1>11 DEF AddLocation, finding, reading
  <2>2. adding' = {Installation(p, "manual", "custom", 0, TRUE)}
    BY <1>11 DEF AddLocation
  <2>3. \A l \in adding' : Keyed(l)
    BY <2>2 DEF Installation, Keyed
  <2>4. RowsStand' /\ FindingStands' /\ ReadingStands'
    BY <2>1, <2>3 DEF RowsStand, FindingStands, ReadingStands
  <2> QED BY <2>1, <2>4, KeepsTaken
<1>12. ASSUME StoreLocation
       PROVE  IInv'
  <2>1. /\ UNCHANGED <<saved, discovered, locations, report, instances, taken>>
        /\ stored' = Saved(stored, adding) /\ adding' = {}
    BY <1>12 DEF StoreLocation, finding, reading
  <2>2. /\ \A q \in DOMAIN stored' : stored'[q].id = q
        /\ DOMAIN stored \subseteq DOMAIN stored'
    BY <2>1, SavedStand DEF RowsStand, Keyed
  <2>3. RowsStand' /\ FindingStands' /\ ReadingStands'
    BY <2>1, <2>2 DEF RowsStand, FindingStands, ReadingStands
  <2> QED BY <2>1, <2>2, <2>3, KeepsTaken
<1>13. ASSUME NEW p \in Places, ChangeDisk(p)
       PROVE  IInv'
  <2>1. UNCHANGED <<stored, adding, saved, discovered, locations, report, instances, taken>>
    BY <1>13 DEF ChangeDisk, finding, reading
  <2>2. RowsStand' /\ FindingStands' /\ ReadingStands'
    BY <2>1 DEF RowsStand, FindingStands, ReadingStands
  <2> QED BY <2>1, <2>2, KeepsTaken
<1>14. ASSUME UNCHANGED vars
       PROVE  IInv'
  <2>1. UNCHANGED <<stored, adding, saved, discovered, locations, report, instances, taken>>
    BY <1>14 DEF vars, world, finding, reading
  <2>2. RowsStand' /\ FindingStands' /\ ReadingStands'
    BY <2>1 DEF RowsStand, FindingStands, ReadingStands
  <2> QED BY <2>1, <2>2, KeepsTaken
<1> QED
  BY <1>1, <1>2, <1>3, <1>4, <1>5, <1>6, <1>7, <1>8, <1>9, <1>10, <1>11, <1>12, <1>13, <1>14
     DEF Next, Scanning, Others, FailScan, CancelScan, EndScan

-----------------------------------------------------------------------------
\* Whoever saved a row of a location or an instance, its id is the one that
\* is derived from its path, and what is staged refers to such rows.
THEOREM InvariantHolds == Spec => []IInv
BY InitHolds, NextHolds, PTL DEF Spec

\* No row a scan stages refers to an instance or a location that is not in the
\* database, in any sequence of scans, cancellations, additions by the user and
\* changes of the folders: staging never fails on a foreign key, and sessions
\* of a folder stay with its instance whatever the folder was taken for.
THEOREM StagesUnderKnownInstances == Spec => []StagedUnderKnownInstance
<1>1. IInv => StagedUnderKnownInstance
  <2> SUFFICES ASSUME IInv, NEW n \in DOMAIN taken
               PROVE  \E i \in instances, p \in DOMAIN stored :
                          i.id = taken[n].instance /\ i.location = stored[p].id /\ p = taken[n].place
    BY DEF StagedUnderKnownInstance
  <2>1. taken[n].place \in DOMAIN stored
    BY DEF IInv, TakenStand
  <2>2. PICK i \in instances : i.id = taken[n].instance /\ i.location = taken[n].place
    BY DEF IInv, TakenStand, Known
  <2>3. stored[taken[n].place].id = taken[n].place
    BY <2>1 DEF IInv, RowsStand
  <2> QED BY <2>1, <2>2, <2>3
<1> QED BY <1>1, InvariantHolds, PTL

-----------------------------------------------------------------------------
(***************************************************************************)
(* Grouping.  The root of a log determines the name and the folder of its  *)
(* instance, and the folder of a log determines the root.                  *)
(***************************************************************************)
LEMMA FrontShape ==
    ASSUME NEW S, NEW s \in Seq(S), s # <<>>
    PROVE  /\ Len(s) \in Nat \ {0} /\ Front(s) \in Seq(S) /\ Len(Front(s)) = Len(s) - 1
           /\ \A n \in 1..(Len(s) - 1) : Front(s)[n] = s[n]
<1>1. Len(s) \in Nat \ {0}
  BY EmptySeq
<1>2. Len(s) - 1 \in Nat /\ Len(s) - 1 <= Len(s) /\ \A n \in 1..(Len(s) - 1) : s[n] \in S
  BY <1>1
<1> DEFINE m == Len(s) - 1
<1>3. m \in Nat /\ \A n \in 1..m : s[n] \in S
  BY <1>2
<1> HIDE DEF m
<1>4. /\ SubSeq(s, 1, m) \in Seq(S) /\ Len(SubSeq(s, 1, m)) = IF 1 <= m THEN m - 1 + 1 ELSE 0
      /\ \A n \in 1..(m - 1 + 1) : SubSeq(s, 1, m)[n] = s[1 + n - 1]
  BY <1>3, SubSeqProperties
<1>5. (IF 1 <= m THEN m - 1 + 1 ELSE 0) = m /\ m - 1 + 1 = m
  BY <1>3
<1>6. \A n \in 1..m : SubSeq(s, 1, m)[n] = s[n]
  <2>1. \A n \in 1..m : n \in 1..(m - 1 + 1) /\ 1 + n - 1 = n
    BY <1>3
  <2> QED BY <1>4, <2>1
<1>7. Len(SubSeq(s, 1, m)) = m
  BY <1>4, <1>5, Zenon
<1> QED BY <1>1, <1>4, <1>6, <1>7 DEF Front, m

LEMMA FirstPosition ==
    ASSUME NEW p \in Seq(STRING), NEW name, Positions(p, name) # {}
    PROVE  /\ Min(Positions(p, name)) \in 1..Len(p) /\ p[Min(Positions(p, name))] = name
           /\ \A n \in Positions(p, name) : Min(Positions(p, name)) <= n
<1>1. Positions(p, name) \in SUBSET Nat
  BY DEF Positions
<1>2. PICK n \in Positions(p, name) : \A m \in Positions(p, name) : n <= m
  BY <1>1, LeastNatural
<1>3. Min(Positions(p, name)) \in Positions(p, name)
      /\ \A m \in Positions(p, name) : Min(Positions(p, name)) <= m
  BY <1>2 DEF Min
<1> QED BY <1>3 DEF Positions

LEMMA RootOfLog ==
    ASSUME NEW p \in Seq(STRING), Positions(p, "logs") # {}
    PROVE  /\ LogIndex(p) \in 1..Len(p) /\ p[LogIndex(p)] = "logs" /\ RelativeRoot(p) \in Seq(STRING)
           /\ InInstance(p) =>
                 /\ InstanceIndex(p) \in 1..(LogIndex(p) - 1)
                 /\ p[InstanceIndex(p)] = "instances"
                 /\ \A n \in 1..Len(p) : p[n] = "instances" => InstanceIndex(p) <= n
                 /\ Len(RelativeRoot(p)) = LogIndex(p) - 1
                 /\ \A n \in 1..(LogIndex(p) - 1) : RelativeRoot(p)[n] = p[n]
           /\ ~InInstance(p) => RelativeRoot(p) = <<>> /\ (p[1] # "instances")
<1>1. /\ LogIndex(p) \in 1..Len(p) /\ p[LogIndex(p)] = "logs"
      /\ \A n \in Positions(p, "logs") : LogIndex(p) <= n
  BY FirstPosition DEF LogIndex
<1>2. Len(p) \in Nat /\ DOMAIN p = 1..Len(p) /\ LogIndex(p) \in Nat
  BY <1>1
<1>3. CASE InInstance(p)
  <2>1. PICK n \in Positions(p, "instances") : n < LogIndex(p)
    BY <1>3 DEF InInstance
  <2>2. /\ InstanceIndex(p) \in 1..Len(p) /\ p[InstanceIndex(p)] = "instances"
        /\ \A k \in Positions(p, "instances") : InstanceIndex(p) <= k
    BY <2>1, FirstPosition DEF InstanceIndex
  <2>3. InstanceIndex(p) \in 1..(LogIndex(p) - 1)
    <3>1. n \in Nat /\ InstanceIndex(p) <= n
      BY <2>1, <2>2 DEF Positions
    <3> QED BY <1>2, <2>1, <2>2, <3>1
  <2>4. \A k \in 1..Len(p) : p[k] = "instances" => InstanceIndex(p) <= k
    BY <1>2, <2>2 DEF Positions
  <2>5. RelativeRoot(p) = SubSeq(p, 1, LogIndex(p) - 1)
    BY <1>3 DEF RelativeRoot
  <2>6. /\ LogIndex(p) - 1 \in Nat /\ LogIndex(p) - 1 <= Len(p)
        /\ \A k \in 1..(LogIndex(p) - 1) : p[k] \in STRING
    BY <1>1, <1>2
  <2>7. /\ SubSeq(p, 1, LogIndex(p) - 1) \in Seq(STRING)
        /\ Len(SubSeq(p, 1, LogIndex(p) - 1)) = LogIndex(p) - 1
        /\ \A k \in 1..(LogIndex(p) - 1) : SubSeq(p, 1, LogIndex(p) - 1)[k] = p[k]
    BY <2>6
  <2> QED BY <1>1, <1>3, <2>2, <2>3, <2>4, <2>5, <2>7
<1>4. CASE ~InInstance(p)
  <2>1. RelativeRoot(p) = <<>> /\ <<>> \in Seq(STRING)
    BY <1>4 DEF RelativeRoot
  <2>2. p[1] # "instances"
    <3>1. CASE LogIndex(p) = 1
      BY <1>1, <3>1
    <3>2. CASE LogIndex(p) # 1
      <4>1. 1 \in 1..Len(p) /\ 1 < LogIndex(p)
        BY <1>1, <1>2, <3>2
      <4> QED BY <1>2, <1>4, <4>1 DEF InInstance, Positions
    <3> QED BY <3>1, <3>2
  <2> QED BY <1>1, <1>4, <2>1, <2>2
<1> QED BY <1>3, <1>4

\* Logs of one root are of one instance.
LEMMA SameRoot ==
    ASSUME NEW p \in Seq(STRING), NEW q \in Seq(STRING),
           Positions(p, "logs") # {}, Positions(q, "logs") # {},
           RelativeRoot(p) = RelativeRoot(q), NEW location
    PROVE  InstanceName(p, location) = InstanceName(q, location) /\ Pack(p) = Pack(q)
<1>1. /\ LogIndex(p) \in 1..Len(p) /\ p[LogIndex(p)] = "logs"
      /\ LogIndex(q) \in 1..Len(q) /\ q[LogIndex(q)] = "logs"
  BY RootOfLog
<1>2. Len(p) \in Nat /\ Len(q) \in Nat
  OBVIOUS
<1>3. InInstance(p) <=> Len(RelativeRoot(p)) # 0
  BY <1>1, RootOfLog
<1>4. InInstance(q) <=> Len(RelativeRoot(q)) # 0
  BY <1>1, RootOfLog
<1>5. CASE ~InInstance(p)
  <2>1. ~InInstance(q)
    BY <1>3, <1>4, <1>5
  <2>2. p[1] # "instances" /\ q[1] # "instances"
    BY <1>5, <2>1, RootOfLog
  <2> QED BY <1>5, <2>1, <2>2 DEF InstanceName, Pack
<1>6. CASE InInstance(p)
  <2>1. InInstance(q)
    BY <1>3, <1>4, <1>6
  <2>2. /\ InstanceIndex(p) \in 1..(LogIndex(p) - 1) /\ p[InstanceIndex(p)] = "instances"
        /\ \A n \in 1..Len(p) : p[n] = "instances" => InstanceIndex(p) <= n
        /\ Len(RelativeRoot(p)) = LogIndex(p) - 1
        /\ \A n \in 1..(LogIndex(p) - 1) : RelativeRoot(p)[n] = p[n]
    BY <1>6, RootOfLog
  <2>3. /\ InstanceIndex(q) \in 1..(LogIndex(q) - 1) /\ q[InstanceIndex(q)] = "instances"
        /\ \A n \in 1..Len(q) : q[n] = "instances" => InstanceIndex(q) <= n
        /\ Len(RelativeRoot(q)) = LogIndex(q) - 1
        /\ \A n \in 1..(LogIndex(q) - 1) : RelativeRoot(q)[n] = q[n]
    BY <2>1, RootOfLog
  <2>4. LogIndex(p) = LogIndex(q)
    BY <1>1, <1>2, <2>2, <2>3
  <2>5. \A n \in 1..LogIndex(p) : p[n] = q[n]
    <3> SUFFICES ASSUME NEW n \in 1..LogIndex(p)
                 PROVE  p[n] = q[n]
      OBVIOUS
    <3>1. CASE n = LogIndex(p)
      BY <1>1, <2>4, <3>1
    <3>2. CASE n # LogIndex(p)
      <4>1. n \in 1..(LogIndex(p) - 1)
        BY <1>1, <1>2, <3>2
      <4> QED BY <2>2, <2>3, <2>4, <4>1
    <3> QED BY <3>1, <3>2
  <2>6. InstanceIndex(p) = InstanceIndex(q)
    <3>1. InstanceIndex(p) \in 1..LogIndex(p) /\ InstanceIndex(q) \in 1..LogIndex(p)
          /\ InstanceIndex(p) \in 1..Len(q) /\ InstanceIndex(q) \in 1..Len(p)
      BY <1>1, <1>2, <2>2, <2>3, <2>4
    <3>2. q[InstanceIndex(p)] = "instances" /\ p[InstanceIndex(q)] = "instances"
      BY <2>2, <2>3, <2>5, <3>1
    <3>3. InstanceIndex(q) <= InstanceIndex(p) /\ InstanceIndex(p) <= InstanceIndex(q)
      BY <2>2, <2>3, <3>1, <3>2
    <3> QED BY <1>1, <1>2, <3>1, <3>3
  <2>7. p[InstanceIndex(p) + 1] = q[InstanceIndex(q) + 1]
    <3>1. InstanceIndex(p) + 1 \in 1..LogIndex(p)
      BY <1>1, <1>2, <2>2
    <3> QED BY <2>5, <2>6, <3>1
  <2>8. InstanceName(p, location) = InstanceName(q, location)
    BY <1>6, <2>1, <2>7 DEF InstanceName
  <2>9. p[1] = q[1] /\ (p[1] = "instances" => p[2] = q[2])
    <3>1. 1 \in 1..LogIndex(p) /\ 2 \in 1..LogIndex(p)
      BY <1>1, <1>2, <2>2
    <3> QED BY <2>5, <3>1
  <2> QED BY <2>8, <2>9 DEF Pack
<1> QED BY <1>5, <1>6

\* Logs of one folder have one root.
LEMMA RootOfFolder ==
    ASSUME NEW p \in Seq(STRING), NEW q \in Seq(STRING), Front(p) = Front(q),
           Positions(p, "logs") # {}, Positions(q, "logs") # {},
           Last(p) \notin {"logs", "instances"}, Last(q) \notin {"logs", "instances"}
    PROVE  RelativeRoot(p) = RelativeRoot(q)
<1>1. /\ Len(p) \in Nat \ {0} /\ Len(q) \in Nat \ {0}
      /\ Len(Front(p)) = Len(p) - 1 /\ \A n \in 1..(Len(p) - 1) : Front(p)[n] = p[n]
      /\ Len(Front(q)) = Len(q) - 1 /\ \A n \in 1..(Len(q) - 1) : Front(q)[n] = q[n]
  <2>1. p # <<>> /\ q # <<>>
    BY DEF Positions
  <2> QED BY <2>1, FrontShape
<1>2. Len(p) - 1 = Len(q) - 1
  BY <1>1
<1>3. Len(p) = Len(q)
  BY <1>1, <1>2
<1>4. \A n \in 1..(Len(p) - 1) : p[n] = q[n]
  BY <1>1, <1>3
<1>5. ASSUME NEW name \in {"logs", "instances"}
      PROVE  Positions(p, name) = Positions(q, name)
  <2>1. \A n \in 1..Len(p) : n = Len(p) \/ n \in 1..(Len(p) - 1)
    BY <1>1
  <2>2. p[Len(p)] # name /\ q[Len(p)] # name
    BY <1>3 DEF Last
  <2>3. \A n \in 1..Len(p) : p[n] = name <=> q[n] = name
    BY <1>4, <2>1, <2>2
  <2>4. DOMAIN p = 1..Len(p) /\ DOMAIN q = 1..Len(p)
    BY <1>3
  <2> QED BY <2>3, <2>4 DEF Positions
<1>6. LogIndex(p) = LogIndex(q) /\ (InInstance(p) <=> InInstance(q))
  BY <1>5 DEF LogIndex, InInstance
<1>7. CASE ~InInstance(p)
  BY <1>6, <1>7 DEF RelativeRoot
<1>8. CASE InInstance(p)
  <2>1. /\ RelativeRoot(p) \in Seq(STRING) /\ Len(RelativeRoot(p)) = LogIndex(p) - 1
        /\ \A n \in 1..(LogIndex(p) - 1) : RelativeRoot(p)[n] = p[n]
        /\ RelativeRoot(q) \in Seq(STRING) /\ Len(RelativeRoot(q)) = LogIndex(q) - 1
        /\ \A n \in 1..(LogIndex(q) - 1) : RelativeRoot(q)[n] = q[n]
        /\ LogIndex(p) \in 1..Len(p)
    BY <1>6, <1>8, RootOfLog
  <2>2. \A n \in 1..(LogIndex(p) - 1) : n \in 1..(Len(p) - 1)
    BY <1>1, <2>1
  <2>3. \A n \in 1..Len(RelativeRoot(p)) : RelativeRoot(p)[n] = RelativeRoot(q)[n]
    BY <1>4, <1>6, <2>1, <2>2
  <2> QED BY <1>6, <2>1, <2>3, SeqEqual
<1> QED BY <1>7, <1>8

\* Groups are told apart by their roots.
LEMMA GroupsByRoot ==
    ASSUME NEW location, NEW candidates \in SUBSET Seq(STRING), NEW m,
           NEW g \in Groups(location, candidates, m), NEW h \in Groups(location, candidates, m)
    PROVE  /\ g.root = h.root => g = h
           /\ \A p \in g.logs : /\ p \in candidates /\ Positions(p, "logs") # {}
                                /\ RelativeRoot(p) = g.root
<1> DEFINE logs == {p \in candidates : Grouped(p, location, m)}
           Rooted(p) == [root |-> RelativeRoot(p), name |-> InstanceName(p, location),
                         logs |-> {q \in logs : RelativeRoot(q) = RelativeRoot(p)}]
           found == {Rooted(p) : p \in logs}
           empty == [root |-> <<>>, name |-> location.name, logs |-> {}]
<1>1. \A p \in logs : p \in candidates /\ p \in Seq(STRING) /\ Positions(p, "logs") # {}
  BY DEF Grouped
<1>2. CASE g \in found /\ h \in found
  <2>1. PICK p \in logs : g = Rooted(p)
    BY <1>2
  <2>2. PICK q \in logs : h = Rooted(q)
    BY <1>2
  <2>3. g.root = RelativeRoot(p) /\ h.root = RelativeRoot(q)
    BY <2>1, <2>2
  <2>4. ASSUME g.root = h.root PROVE g = h
    <3>1. RelativeRoot(p) = RelativeRoot(q)
      BY <2>3, <2>4
    <3>2. InstanceName(p, location) = InstanceName(q, location)
      BY <1>1, <3>1, SameRoot
    <3> QED BY <2>1, <2>2, <3>1, <3>2
  <2>5. \A r \in g.logs : r \in logs /\ RelativeRoot(r) = g.root
    BY <2>1
  <2> HIDE DEF logs
  <2> QED BY <1>1, <2>4, <2>5
<1>3. CASE g = empty /\ h = empty
  BY <1>3
<1>4. (g \in found /\ h \in found) \/ (g = empty /\ h = empty)
  <2>1. Groups(location, candidates, m) = found \/ Groups(location, candidates, m) = {empty}
    BY DEF Groups
  <2> HIDE DEF found, empty
  <2>2. (g \in found /\ h \in found) \/ (g \in {empty} /\ h \in {empty})
    BY <2>1
  <2> QED BY <2>2
<1> QED BY <1>2, <1>3, <1>4

-----------------------------------------------------------------------------
(***************************************************************************)
(* What a report says of the tree it is about.                             *)
(***************************************************************************)
PlacesStand ==
    /\ DOMAIN disk = Places /\ \A p \in Places : disk[p] \in Layouts[p]
    /\ DOMAIN stored \subseteq Places /\ DOMAIN discovered \subseteq Places
    /\ \A l \in adding : l.place \in Places
    /\ \A s \in saved : s.place \in Places
    /\ mode \in Modes

ReportStands ==
    \A r \in report :
        /\ IsTree(r.tree) /\ ~InventoryFails(r.tree)
        /\ r.logs = Candidates(r.tree) /\ r.warnings = Warnings(r.tree)
        /\ \E m \in Modes : r.groups = Groups(r.location, r.logs, m)

SurveyStands == PlacesStand /\ ReportStands

LEMMA SurveyStep == IInv /\ SurveyStands /\ [Next]_vars => SurveyStands'
<1> SUFFICES ASSUME IInv, SurveyStands, [Next]_vars
             PROVE  SurveyStands'
  OBVIOUS
<1> USE DEF SurveyStands
<1>1. ASSUME UNCHANGED <<disk, stored, adding, saved, report>>, mode' \in Modes,
             DOMAIN discovered' \subseteq Places
      PROVE  SurveyStands'
  BY <1>1 DEF PlacesStand, ReportStands
<1>2. ASSUME NEW m \in Modes, StartScan(m)
      PROVE  SurveyStands'
  BY <1>1, <1>2 DEF StartScan, world, reading, PlacesStand
<1>3. ASSUME NEW a \in Adapters, DiscoverCandidate(a)
      PROVE  SurveyStands'
  <2>1. CandidateOf[a] \in Places
    BY PlacesAssumption
  <2>2. DOMAIN discovered' \subseteq Places
    <3>1. \A l : DOMAIN WithFound(CandidateOf[a], l) \subseteq Places
      BY <2>1 DEF WithFound, PlacesStand
    <3>2. discovered' = discovered \/ \E l : discovered' = WithFound(CandidateOf[a], l)
      BY <1>3 DEF DiscoverCandidate
    <3> QED BY <3>1, <3>2 DEF PlacesStand
  <2>3. UNCHANGED <<disk, stored, adding, saved, report, mode>>
    BY <1>3 DEF DiscoverCandidate, world, reading
  <2> QED BY <1>1, <2>2, <2>3 DEF PlacesStand
<1>4. CASE ListSaved
  <2>1. UNCHANGED <<disk, stored, adding, discovered, report, mode>>
        /\ saved' = {[place |-> p, row |-> stored[p]] : p \in DOMAIN stored}
    BY <1>4 DEF ListSaved, world, reading
  <2> QED BY <2>1 DEF PlacesStand, ReportStands
<1>5. CASE CheckSaved
  <2>1. PICK s \in saved : saved' = saved \ {s} /\ discovered' = WithSaved(s)
    BY <1>5 DEF CheckSaved
  <2>2. UNCHANGED <<disk, stored, adding, report, mode>>
    BY <1>5 DEF CheckSaved, world, reading
  <2>3. DOMAIN WithSaved(s) \subseteq Places
    <3>1. \A l : DOMAIN WithFound(s.place, l) \subseteq Places
      BY DEF WithFound, PlacesStand
    <3>2. CASE s.place \in DOMAIN discovered
      <4>1. DOMAIN WithSaved(s) = DOMAIN discovered
        BY <3>2 DEF WithSaved
      <4> QED BY <4>1 DEF PlacesStand
    <3>3. CASE s.place \notin DOMAIN discovered
      <4>1. \E l : WithSaved(s) = WithFound(s.place, l)
        BY <3>3 DEF WithSaved
      <4> QED BY <3>1, <4>1
    <3> QED BY <3>2, <3>3
  <2> QED BY <2>1, <2>2, <2>3 DEF PlacesStand, ReportStands
<1>6. CASE SaveLocations
  <2>1. UNCHANGED <<disk, adding, saved, discovered, report, mode>> /\ stored' = Saved(stored, Enabled)
    BY <1>6 DEF SaveLocations, world, finding
  <2>2. \A l \in Enabled : l.place \in Places
    BY DEF Enabled, PlacesStand, IInv, FindingStands
  <2>3. DOMAIN stored' \subseteq Places
    BY <2>1, <2>2 DEF Saved, PlacesStand
  <2> QED BY <2>1, <2>3 DEF PlacesStand, ReportStands
<1>7. CASE TakeInventory
  <2>1. UNCHANGED <<disk, stored, adding, saved, discovered, mode>> /\ ~InventoryFails(disk[NextLocation.place])
        /\ NextLocation \in locations
    BY <1>7 DEF TakeInventory, world, finding, NextLocation
  <2> DEFINE tree == disk[NextLocation.place]
             logs == Candidates(tree)
  <2>2. report' = {[location |-> NextLocation, tree |-> tree, logs |-> logs,
                    warnings |-> Warnings(tree), groups |-> Groups(NextLocation, logs, mode)]}
    BY <1>7 DEF TakeInventory
  <2>3. NextLocation.place \in Places
    BY <2>1 DEF IInv, ReadingStands, PlacesStand
  <2>4. IsTree(tree) /\ ~InventoryFails(tree)
    BY <2>1, <2>3, PlacesAssumption DEF PlacesStand
  <2>5. mode \in Modes
    BY DEF PlacesStand
  <2> HIDE DEF tree, logs
  <2>6. ASSUME NEW r \in report'
        PROVE  /\ r.tree = tree /\ r.logs = logs /\ r.warnings = Warnings(tree)
               /\ r.groups = Groups(r.location, logs, mode)
    BY <2>2
  <2>7. ReportStands'
    <3> SUFFICES ASSUME NEW r \in report'
                 PROVE  /\ IsTree(r.tree) /\ ~InventoryFails(r.tree)
                        /\ r.logs = Candidates(r.tree) /\ r.warnings = Warnings(r.tree)
                        /\ \E m \in Modes : r.groups = Groups(r.location, r.logs, m)
      BY DEF ReportStands
    <3>1. /\ r.tree = tree /\ r.logs = logs /\ r.warnings = Warnings(tree)
          /\ r.groups = Groups(r.location, r.logs, mode)
      BY <2>6
    <3> QED BY <2>4, <2>5, <3>1 DEF tree, logs
  <2> QED BY <2>1, <2>7 DEF PlacesStand
<1>8. CASE InventoryFailed \/ TakeGroup \/ FinishIndexing \/ UNCHANGED vars
  BY <1>1, <1>8 DEF InventoryFailed, TakeGroup, FinishIndexing, vars, world, finding, reading, PlacesStand
<1>9. CASE Leave
  BY <1>9 DEF Leave, world, PlacesStand, ReportStands
<1>10. ASSUME NEW p \in Places, AddLocation(p)
       PROVE  SurveyStands'
  <2>1. UNCHANGED <<disk, stored, saved, discovered, report, mode>>
        /\ adding' = {Installation(p, "manual", "custom", 0, TRUE)}
    BY <1>10 DEF AddLocation, finding, reading
  <2>2. \A l \in adding' : l.place = p
    BY <2>1 DEF Installation
  <2> QED BY <2>1, <2>2 DEF PlacesStand, ReportStands
<1>11. CASE StoreLocation
  <2>1. UNCHANGED <<disk, saved, discovered, report, mode>> /\ stored' = Saved(stored, adding) /\ adding' = {}
    BY <1>11 DEF StoreLocation, finding, reading
  <2>2. DOMAIN stored' \subseteq Places
    BY <2>1 DEF Saved, PlacesStand
  <2> QED BY <2>1, <2>2 DEF PlacesStand, ReportStands
<1>12. ASSUME NEW p \in Places, ChangeDisk(p)
       PROVE  SurveyStands'
  <2>1. UNCHANGED <<stored, adding, saved, discovered, report, mode>>
    BY <1>12 DEF ChangeDisk, finding, reading
  <2>2. PICK t \in Layouts[p] : disk' = [disk EXCEPT ![p] = t]
    BY <1>12 DEF ChangeDisk
  <2>3. DOMAIN disk' = Places /\ \A q \in Places : disk'[q] \in Layouts[q]
    BY <2>2 DEF PlacesStand
  <2> QED BY <2>1, <2>3 DEF PlacesStand, ReportStands
<1> QED
  BY <1>2, <1>3, <1>4, <1>5, <1>6, <1>7, <1>8, <1>9, <1>10, <1>11, <1>12
     DEF Next, Scanning, Others, FailScan, CancelScan, EndScan

\* A report is about a tree that could be read, and says of it what the walk
\* and the grouping make of it, however the disk has changed since.
LEMMA SurveyHolds == Spec => []SurveyStands
<1>1. Init => SurveyStands
  <2> SUFFICES ASSUME Init
               PROVE  SurveyStands
    OBVIOUS
  <2>1. DOMAIN disk = Places /\ \A p \in Places : disk[p] \in Layouts[p]
    BY DEF Init
  <2>2. stored = <<>> /\ discovered = <<>> /\ adding = {} /\ saved = {} /\ report = {} /\ mode = "standard"
    BY DEF Init
  <2> QED BY <2>1, <2>2 DEF SurveyStands, PlacesStand, ReportStands, Modes
<1> QED BY <1>1, SurveyStep, InvariantHolds, PTL DEF Spec

\* Instances never share a group and the logs of one folder are never split
\* over two, for any tree, whatever its folders are called.
THEOREM InstancesAreKeptApart == Spec => []InstancesKeepApart
<1>1. SurveyStands => InstancesKeepApart
  <2> SUFFICES ASSUME SurveyStands, NEW r \in report, NEW g \in r.groups, NEW h \in r.groups,
                      NEW p \in g.logs, NEW q \in h.logs
               PROVE  /\ g = h => Pack(p) = Pack(q)
                      /\ Front(p) = Front(q) => g = h
    BY DEF InstancesKeepApart
  <2>1. PICK m \in Modes : r.groups = Groups(r.location, r.logs, m)
    BY DEF SurveyStands, ReportStands
  <2>2. IsTree(r.tree) /\ r.logs = Candidates(r.tree)
    BY DEF SurveyStands, ReportStands
  <2>3. \A f \in r.logs : f \in Seq(STRING) /\ Last(f) \in {"latest.log", "old.log.gz"}
    BY <2>2 DEF Candidates, IsLog, IsLogName, PlainLogs, CompressedLogs, IsTree, Paths
  <2>4. /\ p \in r.logs /\ Positions(p, "logs") # {} /\ RelativeRoot(p) = g.root
        /\ q \in r.logs /\ Positions(q, "logs") # {} /\ RelativeRoot(q) = h.root
        /\ g.root = h.root => g = h
    <3>1. r.logs \in SUBSET Seq(STRING)
      BY <2>3
    <3>2. g \in Groups(r.location, r.logs, m) /\ h \in Groups(r.location, r.logs, m)
      BY <2>1
    <3>3. /\ g.root = h.root => g = h
          /\ \A x \in g.logs : x \in r.logs /\ Positions(x, "logs") # {} /\ RelativeRoot(x) = g.root
      BY <3>1, <3>2, GroupsByRoot
    <3>4. \A x \in h.logs : x \in r.logs /\ Positions(x, "logs") # {} /\ RelativeRoot(x) = h.root
      BY <3>1, <3>2, GroupsByRoot
    <3> QED BY <3>3, <3>4
  <2>5. g = h => Pack(p) = Pack(q)
    BY <2>3, <2>4, SameRoot
  <2>6. Front(p) = Front(q) => g = h
    <3>1. Last(p) \notin {"logs", "instances"} /\ Last(q) \notin {"logs", "instances"}
      BY <2>3, <2>4
    <3> QED BY <2>3, <2>4, <3>1, RootOfFolder
  <2> QED BY <2>5, <2>6
<1> QED BY <1>1, SurveyHolds, PTL

-----------------------------------------------------------------------------
(***************************************************************************)
(* Visits.  An instance of a location that was read has been taken, or one *)
(* of the groups left is it, never both; and each location is read once.   *)
(***************************************************************************)
Reading == scan \in {"indexing", "indexed"}
Pending(i) == \E g \in groups, r \in report : r.location.place = i.location /\ g.root = i.root
Taken(id) == \E n \in DOMAIN taken : taken[n].instance = id

LocationsStand ==
    /\ ~Reading => locations = {} /\ report = {} /\ groups = {} /\ taken = <<>> /\ read = {}
    /\ \A p \in read : p \in DOMAIN stored
    /\ \A l \in locations : l.place \notin read
    /\ \A l, k \in locations : l.place = k.place => l = k
    /\ \A r \in report : r.location.place \in read /\ \A s \in report : r = s
    /\ groups # {} => report # {}
    /\ scan = "indexed" => groups = {}

VisitsStand ==
    /\ \A i, k \in instances : i.id = k.id => i = k
    /\ \A g, h \in groups : g.root = h.root => g = h
    /\ \A n \in DOMAIN taken : taken[n].place \in read /\ taken[n].instance[1] = taken[n].place
    /\ \A m, n \in DOMAIN taken : taken[m].instance = taken[n].instance => m = n
    /\ \A g \in groups, r \in report : ~Taken(<<r.location.place, g.root>>)
    /\ mode = "standard" => \A i \in instances : i.location \in read => Taken(i.id) \/ Pending(i)

\* The report of an inventory is of the location it was taken of.
LEMMA ReportTaken == TakeInventory => \E r : report' = {r} /\ r.location = NextLocation
<1> SUFFICES ASSUME TakeInventory
             PROVE  \E r : report' = {r} /\ r.location = NextLocation
  OBVIOUS
<1> DEFINE tree == disk[NextLocation.place]
           logs == Candidates(tree)
           r == [location |-> NextLocation, tree |-> tree, logs |-> logs,
                 warnings |-> Warnings(tree), groups |-> Groups(NextLocation, logs, mode)]
<1>1. report' = {r}
  BY DEF TakeInventory
<1>2. r.location = NextLocation
  OBVIOUS
<1> HIDE DEF r
<1> QED BY <1>1, <1>2

LEMMA LocationsStep == IInv /\ LocationsStand /\ [Next]_vars => LocationsStand'
<1> SUFFICES ASSUME IInv, LocationsStand, [Next]_vars
             PROVE  LocationsStand'
  OBVIOUS
<1>1. ASSUME UNCHANGED <<report, groups, taken, read>>, locations' \subseteq locations, Reading' <=> Reading,
             DOMAIN stored \subseteq DOMAIN stored',
             scan' = "indexed" => groups = {}
      PROVE  LocationsStand'
  BY <1>1 DEF LocationsStand
<1>2. ASSUME UNCHANGED <<locations, report, groups, taken, read, stored>>,
             ~Reading, scan' \in {"discovering", "checking saved"}
      PROVE  LocationsStand'
  BY <1>2 DEF LocationsStand, Reading
<1>3. CASE (\E m \in Modes : StartScan(m)) \/ ListSaved
  BY <1>2, <1>3 DEF StartScan, ListSaved, reading, Reading
<1>4. CASE (\E a \in Adapters : DiscoverCandidate(a)) \/ CheckSaved
  BY <1>2, <1>4 DEF DiscoverCandidate, CheckSaved, reading, Reading
<1>5. CASE SaveLocations
  <2>1. /\ scan = "checking saved" /\ scan' = "indexing" /\ locations' = Enabled
        /\ UNCHANGED <<report, groups, taken, read>>
    BY <1>5 DEF SaveLocations
  <2>2. report = {} /\ groups = {} /\ taken = <<>> /\ read = {}
    BY <2>1 DEF LocationsStand, Reading
  <2>3. \A l, k \in Enabled : l.place = k.place => l = k
    BY DEF IInv, FindingStands, Enabled
  <2> QED BY <2>1, <2>2, <2>3 DEF LocationsStand, Reading
<1>6. CASE TakeInventory
  <2>1. /\ scan = "indexing" /\ scan' = scan /\ NextLocation \in locations
        /\ locations' = locations \ {NextLocation}
        /\ read' = read \cup {NextLocation.place} /\ stored' = stored
        /\ NextLocation.place \in DOMAIN stored
    BY <1>6 DEF TakeInventory, NextLocation, IInv, ReadingStands
  <2>2. \E r : report' = {r} /\ r.location = NextLocation
    BY <1>6, ReportTaken
  <2> QED BY <2>1, <2>2 DEF LocationsStand, Reading
<1>7. CASE InventoryFailed
  <2>1. UNCHANGED <<stored, scan, report, groups, taken, read>> /\ locations' \subseteq locations
    BY <1>7 DEF InventoryFailed
  <2> QED BY <1>1, <2>1 DEF Reading, LocationsStand
<1>8. CASE TakeGroup
  <2>1. UNCHANGED <<stored, scan, locations, report, read>> /\ scan = "indexing" /\ groups' \subseteq groups
    BY <1>8 DEF TakeGroup
  <2> QED BY <2>1 DEF LocationsStand, Reading
<1>9. CASE FinishIndexing
  <2>1. /\ UNCHANGED <<stored, locations, report, groups, taken, read>>
        /\ scan = "indexing" /\ groups = {} /\ scan' = "indexed"
    BY <1>9 DEF FinishIndexing, reading
  <2> QED BY <1>1, <2>1 DEF Reading
<1>10. CASE Leave
  <2>1. /\ scan' = "idle" /\ locations' = {} /\ report' = {} /\ groups' = {} /\ taken' = <<>> /\ read' = {}
    BY <1>10 DEF Leave
  <2> QED BY <2>1 DEF LocationsStand, Reading
<1>11. CASE Others \/ UNCHANGED vars
  <2>1. UNCHANGED <<scan, locations, report, groups, taken, read>>
    BY <1>11 DEF Others, AddLocation, StoreLocation, ChangeDisk, vars, reading
  <2>2. stored' = stored \/ stored' = Saved(stored, adding)
    BY <1>11 DEF Others, AddLocation, StoreLocation, ChangeDisk, vars, world
  <2>3. DOMAIN stored \subseteq DOMAIN stored'
    BY <2>2 DEF Saved
  <2> QED BY <2>1, <2>3 DEF LocationsStand, Reading
<1> QED
  BY <1>3, <1>4, <1>5, <1>6, <1>7, <1>8, <1>9, <1>10, <1>11
     DEF Next, Scanning, FailScan, CancelScan, EndScan

\* An upsert gives no two instances one id, and no instance another id.
LEMMA WithInstanceKeeps ==
    ASSUME NEW rows, NEW location, NEW group, \A i, k \in rows : i.id = k.id => i = k,
           \A i \in rows : {"id", "location", "root"} \subseteq DOMAIN i /\ i.id = <<i.location, i.root>>
    PROVE  LET new == WithInstance(rows, location, group)
           IN  /\ \A i, k \in new : i.id = k.id => i = k
               /\ \A i \in new : \/ i.id = InstanceId(location, group.root)
                                 \/ \E k \in rows : k.id = i.id /\ k.location = i.location /\ k.root = i.root
<1> DEFINE Matches(i) == i.location = location.id /\ i.root = group.root
           Renamed(i) == IF Matches(i) THEN [i EXCEPT !.name = group.name] ELSE i
           added == [id |-> InstanceId(location, group.root), location |-> location.id,
                     root |-> group.root, name |-> group.name]
           new == WithInstance(rows, location, group)
<1>1. CASE \E i \in rows : Matches(i)
  <2>1. new = {Renamed(i) : i \in rows}
    BY <1>1 DEF WithInstance
  <2>2. ASSUME NEW i \in rows
        PROVE  Renamed(i).id = i.id /\ Renamed(i).location = i.location /\ Renamed(i).root = i.root
    OBVIOUS
  <2> HIDE DEF Renamed
  <2> QED BY <2>1, <2>2
<1>2. CASE ~ \E i \in rows : Matches(i)
  <2>1. new = rows \cup {added}
    BY <1>2 DEF WithInstance
  <2>2. added.id = InstanceId(location, group.root) /\ added.id = <<location.id, group.root>>
    BY DEF InstanceId
  <2> HIDE DEF added
  <2>3. \A i \in rows : i.id # added.id
    BY <1>2, <2>2
  <2> QED BY <2>1, <2>2, <2>3
<1> QED BY <1>1, <1>2

\* One inventory: its groups and the known instances without one are to visit.
LEMMA TakeInventoryVisits == IInv /\ SurveyStands /\ LocationsStand /\ VisitsStand /\ TakeInventory => VisitsStand'
<1> SUFFICES ASSUME IInv, SurveyStands, LocationsStand, VisitsStand, TakeInventory
             PROVE  VisitsStand'
  OBVIOUS
<1> DEFINE L == NextLocation
           logs == Candidates(disk[L.place])
           found == Groups(L, logs, mode)
           revisited == Revisited(L, found)
<1>1. /\ groups = {} /\ L \in locations /\ UNCHANGED <<instances, taken, mode>>
      /\ groups' = found \cup (IF mode = "quick" THEN {} ELSE revisited)
      /\ read' = read \cup {L.place}
  BY DEF TakeInventory, NextLocation
<1>2. PICK r : report' = {r} /\ r.location = L
  BY ReportTaken
<1>3. stored[L.place].id = L.place /\ L.place \notin read /\ L.place \in Places
  BY <1>1 DEF IInv, RowsStand, ReadingStands, LocationsStand, SurveyStands, PlacesStand
<1>4. \A i \in instances : i.id = <<i.location, i.root>>
  BY DEF IInv, InstancesStand
<1>5. \A g, h \in found : g.root = h.root => g = h
  <2>1. IsTree(disk[L.place])
    BY <1>3, PlacesAssumption DEF SurveyStands, PlacesStand
  <2>2. logs \in SUBSET Seq(STRING)
    BY <2>1 DEF Candidates, IsTree, IsLog, Paths
  <2> HIDE DEF logs, L
  <2> QED BY <2>2, GroupsByRoot DEF found
<1> HIDE DEF L, found, revisited
<1>6. \A g \in revisited : \E i \in instances :
         /\ i.location = L.place /\ g = [root |-> i.root, name |-> i.name, logs |-> {}]
         /\ \A h \in found : h.root # i.root
  BY <1>3 DEF revisited, Revisited, KnownInstances
<1>7. \A i \in instances : i.location = L.place =>
         \/ \E h \in found : h.root = i.root
         \/ \E g \in revisited : g.root = i.root
  <2> SUFFICES ASSUME NEW i \in instances, i.location = L.place, \A h \in found : h.root # i.root
               PROVE  \E g \in revisited : g.root = i.root
    OBVIOUS
  <2> DEFINE e == [root |-> i.root, name |-> i.name, logs |-> {}]
  <2>1. e \in revisited
    BY <1>3 DEF revisited, Revisited, KnownInstances
  <2>2. e.root = i.root
    OBVIOUS
  <2> HIDE DEF e
  <2> QED BY <2>1, <2>2
<1>8. \A g, h \in groups' : g.root = h.root => g = h
  <2>1. \A g, h \in revisited : g.root = h.root => g = h
    <3> SUFFICES ASSUME NEW g \in revisited, NEW h \in revisited, g.root = h.root
                 PROVE  g = h
      OBVIOUS
    <3>1. PICK i \in instances : i.location = L.place /\ g = [root |-> i.root, name |-> i.name, logs |-> {}]
      BY <1>6
    <3>2. PICK k \in instances : k.location = L.place /\ h = [root |-> k.root, name |-> k.name, logs |-> {}]
      BY <1>6
    <3>3. i.id = k.id
      BY <1>4, <3>1, <3>2
    <3> QED BY <3>1, <3>2, <3>3 DEF VisitsStand
  <2>2. \A g \in revisited, h \in found : g.root # h.root
    BY <1>6
  <2> QED BY <1>1, <1>5, <2>1, <2>2
<1>9. ASSUME NEW root
      PROVE  ~Taken(<<L.place, root>>)
  <2>1. \A n \in DOMAIN taken : taken[n].instance[1] \in read
    BY DEF VisitsStand
  <2> QED BY <1>3, <2>1 DEF Taken
<1>10. ASSUME mode = "standard", NEW i \in instances, i.location \in read'
       PROVE  Taken(i.id) \/ Pending(i)'
  <2>1. CASE i.location \in read
    BY <1>1, <1>10, <2>1 DEF VisitsStand, Pending
  <2>2. CASE i.location = L.place
    <3>1. \E g \in groups' : g.root = i.root
      BY <1>1, <1>7, <1>10, <2>2
    <3> QED BY <1>2, <2>2, <3>1 DEF Pending
  <2> QED BY <1>1, <1>10, <2>1, <2>2
<1>11. \A g \in groups', s \in report' : ~Taken(<<s.location.place, g.root>>)
  BY <1>2, <1>9
<1>12. \A id : Taken(id)' <=> Taken(id)
  BY <1>1 DEF Taken
<1> QED BY <1>1, <1>8, <1>10, <1>11, <1>12 DEF VisitsStand

\* One group: its instance has been taken, whether it was known or is new.
LEMMA TakeGroupVisits == IInv /\ LocationsStand /\ VisitsStand /\ TakeGroup => VisitsStand'
<1> SUFFICES ASSUME IInv, LocationsStand, VisitsStand, TakeGroup
             PROVE  VisitsStand'
  OBVIOUS
<1> DEFINE group == CHOOSE g \in groups : TRUE
<1>1. /\ group \in groups /\ groups' = groups \ {group} /\ UNCHANGED <<mode, report, read>>
  BY DEF TakeGroup
<1>2. PICK r \in report :
         /\ instances' = WithInstance(instances, r.location, group)
         /\ taken' = Append(taken, [instance |-> InstanceId(r.location, group.root),
                                    place |-> r.location.place, logs |-> group.logs])
  BY DEF TakeGroup
<1> DEFINE t == [instance |-> InstanceId(r.location, group.root),
                 place |-> r.location.place, logs |-> group.logs]
<1>3. /\ r.location.id = r.location.place /\ r.location.place \in read /\ \A s \in report : s = r
  BY DEF IInv, ReadingStands, Keyed, LocationsStand
<1> HIDE DEF group
<1>4. /\ t.instance = <<r.location.place, group.root>> /\ t.instance[1] = r.location.place
      /\ t.place = r.location.place /\ InstanceId(r.location, group.root) = t.instance
  BY <1>3 DEF InstanceId
<1> HIDE DEF t
<1>5. /\ \A i, k \in instances' : i.id = k.id => i = k
      /\ \A i \in instances' : \/ i.id = t.instance
                               \/ \E k \in instances : k.id = i.id /\ k.location = i.location /\ k.root = i.root
  BY <1>2, <1>4, WithInstanceKeeps DEF IInv, InstancesStand, VisitsStand
<1>6. /\ DOMAIN taken' = 1..(Len(taken) + 1) /\ Len(taken) \in Nat /\ DOMAIN taken = 1..Len(taken)
      /\ \A n \in DOMAIN taken : taken'[n] = taken[n]
      /\ taken'[Len(taken) + 1] = t
  <2>1. taken \in Seq({taken[n] : n \in DOMAIN taken}) /\ taken' = Append(taken, t)
    BY <1>2 DEF IInv, TakenStand, t
  <2> QED BY <2>1
<1>7. \A n \in DOMAIN taken' : n \in DOMAIN taken \/ n = Len(taken) + 1
  BY <1>6
<1>8. ~Taken(t.instance)
  BY <1>1, <1>4 DEF VisitsStand
<1>9. \A id : Taken(id)' <=> Taken(id) \/ id = t.instance
  <2>1. Len(taken) + 1 \in DOMAIN taken' /\ DOMAIN taken \subseteq DOMAIN taken'
    BY <1>6
  <2> QED BY <1>6, <1>7, <2>1 DEF Taken
<1>10. \A n \in DOMAIN taken' : taken'[n].place \in read' /\ taken'[n].instance[1] = taken'[n].place
  BY <1>1, <1>3, <1>4, <1>6, <1>7 DEF VisitsStand
<1>11. \A m, n \in DOMAIN taken' : taken'[m].instance = taken'[n].instance => m = n
  <2>1. \A n \in DOMAIN taken : taken[n].instance # t.instance
    BY <1>8 DEF Taken
  <2> QED BY <1>6, <1>7, <2>1 DEF VisitsStand
<1>12. \A g, h \in groups' : g.root = h.root => g = h
  BY <1>1 DEF VisitsStand
<1>13. ASSUME NEW g \in groups', NEW s \in report'
       PROVE  ~Taken(<<s.location.place, g.root>>)'
  <2>1. g \in groups /\ g # group /\ s = r
    BY <1>1, <1>3, <1>13
  <2>2. g.root # group.root
    BY <1>1, <2>1 DEF VisitsStand
  <2>3. <<s.location.place, g.root>> # t.instance
    BY <1>4, <2>1, <2>2
  <2>4. ~Taken(<<s.location.place, g.root>>)
    BY <1>1, <2>1 DEF VisitsStand
  <2> QED BY <1>9, <2>3, <2>4
<1>14. ASSUME mode' = "standard", NEW i \in instances', i.location \in read'
       PROVE  Taken(i.id)' \/ Pending(i)'
  <2>1. CASE i.id = t.instance
    BY <1>9, <2>1
  <2>2. ASSUME NEW k \in instances, k.id = i.id, k.location = i.location, k.root = i.root
        PROVE  Taken(i.id)' \/ Pending(i)'
    <3>1. Taken(k.id) \/ Pending(k)
      BY <1>1, <1>14, <2>2 DEF VisitsStand
    <3>2. CASE Taken(k.id)
      BY <1>9, <2>2, <3>2
    <3>3. ASSUME NEW g \in groups, NEW s \in report, s.location.place = k.location, g.root = k.root
          PROVE  Taken(i.id)' \/ Pending(i)'
      <4>1. CASE g = group
        <5>1. k.id = t.instance
          BY <1>3, <1>4, <3>3, <4>1 DEF IInv, InstancesStand
        <5> QED BY <1>9, <2>2, <5>1
      <4>2. CASE g # group
        BY <1>1, <2>2, <3>3, <4>2 DEF Pending
      <4> QED BY <4>1, <4>2
    <3> QED BY <3>1, <3>2, <3>3 DEF Pending
  <2> QED BY <1>5, <2>1, <2>2
<1> QED BY <1>5, <1>10, <1>11, <1>12, <1>13, <1>14 DEF VisitsStand

LEMMA VisitsStep == IInv /\ SurveyStands /\ LocationsStand /\ VisitsStand /\ [Next]_vars => VisitsStand'
<1> SUFFICES ASSUME IInv, SurveyStands, LocationsStand, VisitsStand, [Next]_vars
             PROVE  VisitsStand'
  OBVIOUS
<1>1. ASSUME UNCHANGED <<instances, groups, report, taken, read>>, mode' = mode \/ read = {}
      PROVE  VisitsStand'
  <2>1. (\A id : Taken(id)' <=> Taken(id)) /\ (\A i : Pending(i)' <=> Pending(i))
    BY <1>1 DEF Taken, Pending
  <2> QED BY <1>1, <2>1 DEF VisitsStand
<1>2. ASSUME NEW m \in Modes, StartScan(m)
      PROVE  VisitsStand'
  <2>1. UNCHANGED <<instances, groups, report, taken, read>> /\ scan = "idle"
    BY <1>2 DEF StartScan, reading
  <2> QED BY <1>1, <2>1 DEF LocationsStand, Reading
<1>3. CASE (\E a \in Adapters : DiscoverCandidate(a)) \/ ListSaved \/ CheckSaved \/ SaveLocations
  BY <1>1, <1>3 DEF DiscoverCandidate, ListSaved, CheckSaved, SaveLocations, reading
<1>4. CASE InventoryFailed \/ FinishIndexing \/ Others \/ UNCHANGED vars
  BY <1>1, <1>4 DEF InventoryFailed, FinishIndexing, Others, AddLocation, StoreLocation, ChangeDisk, vars, reading
<1>5. CASE Leave
  <2>1. UNCHANGED instances /\ groups' = {} /\ report' = {} /\ taken' = <<>> /\ read' = {}
    BY <1>5 DEF Leave
  <2> QED BY <2>1 DEF VisitsStand
<1> QED
  BY <1>2, <1>3, <1>4, <1>5, TakeInventoryVisits, TakeGroupVisits
     DEF Next, Scanning, FailScan, CancelScan, EndScan

\* A complete scan visits every known instance of every location it could read
\* exactly once, whichever of its logs are gone, whatever was cancelled before
\* and however often the folders change under it.
THEOREM InstancesAreVisitedOnce == Spec => []EveryInstanceVisitedOnce
<1>1. Init => LocationsStand /\ VisitsStand
  BY DEF Init, LocationsStand, VisitsStand, Reading
<1>2. IInv /\ LocationsStand /\ VisitsStand => EveryInstanceVisitedOnce
  <2> SUFFICES ASSUME IInv, LocationsStand, VisitsStand, scan = "indexed", mode = "standard",
                      NEW i \in instances, NEW p \in read, i.location = stored[p].id
               PROVE  Cardinality({n \in DOMAIN taken : taken[n].instance = i.id}) = 1
    BY DEF EveryInstanceVisitedOnce
  <2>1. p \in DOMAIN stored
    BY DEF LocationsStand
  <2>2. i.location = p
    BY <2>1 DEF IInv, RowsStand
  <2>3. Taken(i.id)
    BY <2>2 DEF VisitsStand, LocationsStand, Pending
  <2>4. PICK n \in DOMAIN taken : taken[n].instance = i.id
    BY <2>3 DEF Taken
  <2>5. {k \in DOMAIN taken : taken[k].instance = i.id} = {n}
    BY <2>4 DEF VisitsStand
  <2>6. Cardinality({n}) = 1
    BY FS_Singleton
  <2> QED BY <2>5, <2>6
<1> QED BY <1>1, <1>2, LocationsStep, VisitsStep, SurveyHolds, InvariantHolds, PTL DEF Spec

-----------------------------------------------------------------------------
(***************************************************************************)
(* The walk.  What a folder is entered for depends on its name and on what *)
(* the folder above it was entered for.                                    *)
(***************************************************************************)
Scopes == {"root", "instance", "game", "logs", "collection", "none"}
Prefix(d, n) == SubSeq(d, 1, n)

LEMMA PrefixShape ==
    ASSUME NEW d \in Seq(STRING), NEW n \in 0..Len(d)
    PROVE  /\ Prefix(d, n) \in Seq(STRING) /\ Len(Prefix(d, n)) = n
           /\ \A i \in 1..n : Prefix(d, n)[i] = d[i]
<1>1. n \in Nat /\ n <= Len(d) /\ \A i \in 1..n : d[i] \in STRING
  OBVIOUS
<1>2. /\ SubSeq(d, 1, n) \in Seq(STRING) /\ Len(SubSeq(d, 1, n)) = IF 1 <= n THEN n - 1 + 1 ELSE 0
      /\ \A i \in 1..(n - 1 + 1) : SubSeq(d, 1, n)[i] = d[1 + i - 1]
  BY <1>1, SubSeqProperties
<1>3. (IF 1 <= n THEN n - 1 + 1 ELSE 0) = n /\ n - 1 + 1 = n /\ \A i \in 1..n : 1 + i - 1 = i
  BY <1>1
<1>4. \A i \in 1..n : SubSeq(d, 1, n)[i] = d[i]
  BY <1>2, <1>3
<1>5. Len(SubSeq(d, 1, n)) = n
  BY <1>2, <1>3, Zenon
<1> QED BY <1>2, <1>4, <1>5 DEF Prefix

LEMMA PrefixOfPrefix ==
    ASSUME NEW d \in Seq(STRING), NEW n \in 0..Len(d), NEW k \in 0..n
    PROVE  Prefix(Prefix(d, n), k) = Prefix(d, k)
<1>1. k \in 0..Len(d) /\ \A i \in 1..k : i \in 1..n
  OBVIOUS
<1>2. /\ Prefix(d, n) \in Seq(STRING) /\ Len(Prefix(d, n)) = n
      /\ \A i \in 1..n : Prefix(d, n)[i] = d[i]
  BY PrefixShape
<1>3. /\ Prefix(d, k) \in Seq(STRING) /\ Len(Prefix(d, k)) = k
      /\ \A i \in 1..k : Prefix(d, k)[i] = d[i]
  BY <1>1, PrefixShape
<1> DEFINE e == Prefix(d, n)
<1>4. e \in Seq(STRING) /\ k \in 0..Len(e)
  BY <1>2
<1>5. /\ Prefix(e, k) \in Seq(STRING) /\ Len(Prefix(e, k)) = k
      /\ \A i \in 1..k : Prefix(e, k)[i] = e[i]
  <2> HIDE DEF e
  <2> QED BY <1>4, PrefixShape
<1>6. \A i \in 1..k : Prefix(e, k)[i] = Prefix(d, k)[i]
  BY <1>1, <1>2, <1>3, <1>5
<1> HIDE DEF e
<1>7. Prefix(e, k) = Prefix(d, k)
  BY <1>3, <1>5, <1>6, SeqEqual
<1> QED BY <1>7 DEF e

\* What the fold over the names of a path defines by recursion on sets of
\* positions, the last position first.
IsWalk(it, d) ==
    it = [s \in SUBSET DOMAIN d |-> IF s = {} THEN "root" ELSE ChildScope(it[s \ {Max(s)}], d[Max(s)])]

LEMMA GreatestPosition ==
    ASSUME NEW n \in Nat, NEW s \in SUBSET (1..n), s # {}
    PROVE  Max(s) \in s /\ \A x \in s : x <= Max(s)
<1> DEFINE Gaps == {n - x : x \in s}
<1>1. Gaps \in SUBSET Nat /\ Gaps # {}
  <2>1. \A x \in s : x \in Nat /\ n - x \in Nat
    <3> SUFFICES ASSUME NEW x \in s
                 PROVE  x \in Nat /\ n - x \in Nat
      OBVIOUS
    <3>1. x \in 1..n
      OBVIOUS
    <3> QED BY <3>1
  <2> QED BY <2>1
<1>2. PICK g \in Gaps : \A h \in Gaps : g <= h
  <2> HIDE DEF Gaps
  <2> QED BY <1>1, LeastNatural
<1>3. PICK x \in s : g = n - x
  BY <1>2
<1>4. \A y \in s : x >= y
  <2> SUFFICES ASSUME NEW y \in s
               PROVE  x >= y
    OBVIOUS
  <2>1. n - x <= n - y
    BY <1>2, <1>3
  <2> QED BY <2>1
<1>5. Max(s) \in s /\ \A y \in s : Max(s) >= y
  BY <1>3, <1>4 DEF Max
<1>6. ASSUME NEW y \in s
      PROVE  y <= Max(s)
  <2>1. y \in 1..n /\ Max(s) \in 1..n /\ Max(s) >= y
    BY <1>5
  <2> QED BY <2>1
<1> QED BY <1>5, <1>6

LEMMA WalkExists ==
    ASSUME NEW d \in Seq(STRING)
    PROVE  \E it : IsWalk(it, d)
<1> DEFINE P == 1..Len(d)
           D == SUBSET P
           rank == [s \in D |-> Cardinality(s)]
           c == [s \in D |-> s \ {Max(s)}]
           B == [s \in {{}} |-> "root"]
           F == [p \in D \X Scopes |-> ChildScope(p[2], d[Max(p[1])])]
<1>1. Len(d) \in Nat /\ DOMAIN d = P /\ IsFiniteSet(P)
  BY FS_Interval
<1>2. rank \in [D -> Nat]
  BY <1>1, FS_Subset, FS_CardinalityType
<1>3. ASSUME NEW s \in D, s # {}
      PROVE  Max(s) \in s /\ c[s] \in D /\ rank[c[s]] < rank[s]
  <2>1. Max(s) \in s
    BY <1>1, <1>3, GreatestPosition
  <2>2. IsFiniteSet(s) /\ c[s] \in D /\ c[s] = s \ {Max(s)}
    BY <1>1, FS_Subset
  <2>3. Cardinality(c[s]) = Cardinality(s) - 1 /\ Cardinality(s) \in Nat
    BY <2>1, <2>2, FS_RemoveElement, FS_CardinalityType
  <2> QED BY <2>1, <2>2, <2>3
<1>4. ASSUME NEW s \in D, NEW v \in Scopes, s # {}
      PROVE  F[<<s, v>>] = ChildScope(v, d[Max(s)]) /\ F[<<s, v>>] \in Scopes
  <2>1. F[<<s, v>>] = ChildScope(v, d[Max(s)])
    OBVIOUS
  <2>2. ChildScope(v, d[Max(s)]) \in Scopes
    BY DEF ChildScope, Scopes
  <2> QED BY <2>1, <2>2
<1>5. DOMAIN B = {{}} /\ B[{}] = "root"
  OBVIOUS
<1>6. PICK it \in [D -> Scopes] : Unfolds(it, D, c, B, F)
  <2>1. \A s \in D : s \notin DOMAIN B => c[s] \in D /\ rank[c[s]] < rank[s]
    BY <1>3
  <2>2. \A s \in D, v \in Scopes : s \notin DOMAIN B => F[<<s, v>>] \in Scopes
    BY <1>4, <1>5
  <2>3. \A s \in D \cap DOMAIN B : B[s] \in Scopes
    BY <1>5 DEF Scopes
  <2> HIDE DEF rank, c, B, F, D
  <2> QED BY <1>2, <2>1, <2>2, <2>3, RecursionExists
<1>7. ASSUME NEW s \in D
      PROVE  it[s] = IF s = {} THEN "root" ELSE ChildScope(it[s \ {Max(s)}], d[Max(s)])
  <2>1. CASE s = {}
    BY <1>5, <1>6, <2>1 DEF Unfolds
  <2>2. CASE s # {}
    <3>1. it[s] = F[<<s, it[c[s]]>>]
      BY <1>5, <1>6, <2>2 DEF Unfolds
    <3>2. c[s] = s \ {Max(s)} /\ it[c[s]] \in Scopes
      BY <1>3, <1>6, <2>2
    <3> HIDE DEF F
    <3> QED BY <1>4, <2>2, <3>1, <3>2
  <2> QED BY <2>1, <2>2
<1>8. it = [s \in D |-> it[s]]
  BY <1>6
<1>9. IsWalk(it, d)
  BY <1>1, <1>7, <1>8 DEF IsWalk
<1> QED BY <1>9

\* A walk of a path goes through its prefixes.
LEMMA WalkUnfolds ==
    ASSUME NEW d \in Seq(STRING), NEW it, IsWalk(it, d), NEW n \in 0..Len(d)
    PROVE  /\ n = 0 => it[1..n] = "root"
           /\ n # 0 => it[1..n] = ChildScope(it[1..(n - 1)], d[n])
<1>1. Len(d) \in Nat /\ DOMAIN d = 1..Len(d) /\ n \in Nat /\ 1..n \in SUBSET DOMAIN d
  OBVIOUS
<1>2. CASE n = 0
  <2>1. 1..n = {}
    BY <1>2
  <2>2. it[{}] = "root"
    BY DEF IsWalk
  <2> QED BY <1>2, <2>1, <2>2
<1>3. CASE n # 0
  <2>1. 1..n # {} /\ n \in 1..n
    BY <1>1, <1>3
  <2>2. Max(1..n) \in 1..n /\ \A x \in 1..n : x <= Max(1..n)
    <3> DEFINE s == 1..n
    <3>1. s \in SUBSET (1..n) /\ s # {}
      BY <2>1
    <3> HIDE DEF s
    <3>2. Max(s) \in s /\ \A x \in s : x <= Max(s)
      BY <1>1, <3>1, GreatestPosition
    <3> QED BY <3>2 DEF s
  <2>3. Max(1..n) = n
    BY <2>1, <2>2
  <2>4. (1..n) \ {n} = 1..(n - 1)
    BY <1>1
  <2>5. it[1..n] = ChildScope(it[(1..n) \ {Max(1..n)}], d[Max(1..n)])
    BY <1>1, <2>1 DEF IsWalk
  <2> QED BY <1>3, <2>3, <2>4, <2>5
<1> QED BY <1>2, <1>3

\* The scope of a folder is made of that of the folder above it.
LEMMA ScopeUnfolds ==
    ASSUME NEW d \in Seq(STRING), NEW n \in 0..Len(d)
    PROVE  /\ n = 0 => Scope(Prefix(d, n)) = "root"
           /\ n # 0 => Scope(Prefix(d, n)) = ChildScope(Scope(Prefix(d, n - 1)), d[n])
<1> DEFINE It(e) == CHOOSE it : IsWalk(it, e)
<1>1. ASSUME NEW e \in Seq(STRING)
      PROVE  IsWalk(It(e), e) /\ Scope(e) = It(e)[1..Len(e)]
  <2>1. IsWalk(It(e), e)
    BY WalkExists
  <2>2. Scope(e) = It(e)[DOMAIN e]
    BY DEF Scope, FoldLeft, MapThenFoldSet, IsWalk
  <2> QED BY <2>1, <2>2
<1> HIDE DEF It
<1>2. ASSUME NEW m \in 0..Len(d)
      PROVE  Scope(Prefix(d, m)) = It(d)[1..m]
  <2> DEFINE e == Prefix(d, m)
             Bad == {k \in 0..m : It(e)[1..k] # It(d)[1..k]}
  <2>1. e \in Seq(STRING) /\ Len(e) = m /\ \A i \in 1..m : e[i] = d[i]
    BY PrefixShape
  <2> HIDE DEF e
  <2>2. m \in Nat /\ \A k \in 0..m : k \in 0..Len(d) /\ k \in 0..Len(e)
    BY <2>1
  <2>3. CASE Bad = {}
    <3>1. m \in 0..m
      BY <2>2
    <3>2. It(e)[1..m] = It(d)[1..m]
      BY <2>3, <3>1
    <3>3. Scope(e) = It(e)[1..m]
      BY <1>1, <2>1
    <3> QED BY <3>2, <3>3 DEF e
  <2>4. CASE Bad # {}
    <3>1. Bad \in SUBSET Nat
      OBVIOUS
    <3>2. PICK k \in Bad : \A j \in Bad : k <= j
      <4> HIDE DEF Bad
      <4> QED BY <2>4, <3>1, LeastNatural
    <3>3. k \in 0..m /\ k \in 0..Len(d) /\ k \in 0..Len(e)
      BY <2>2, <3>2
    <3>4. IsWalk(It(e), e) /\ IsWalk(It(d), d)
      BY <1>1, <2>1
    <3>5. k # 0
      BY <2>1, <3>2, <3>3, <3>4, WalkUnfolds
    <3>6. It(e)[1..(k - 1)] = It(d)[1..(k - 1)]
      <4>1. k - 1 \in 0..m /\ ~(k <= k - 1)
        BY <2>2, <3>3, <3>5
      <4> QED BY <3>2, <4>1
    <3>7. e[k] = d[k]
      BY <2>1, <2>2, <3>3, <3>5
    <3>8. It(e)[1..k] = ChildScope(It(e)[1..(k - 1)], e[k])
      <4>1. e \in Seq(STRING) /\ k \in 0..Len(e) /\ IsWalk(It(e), e)
        BY <2>1, <3>3, <3>4
      <4> QED BY <3>5, <4>1, WalkUnfolds
    <3>9. It(d)[1..k] = ChildScope(It(d)[1..(k - 1)], d[k])
      BY <3>3, <3>4, <3>5, WalkUnfolds
    <3>10. It(e)[1..k] = It(d)[1..k]
      BY <3>6, <3>7, <3>8, <3>9
    <3> QED BY <3>2, <3>10
  <2> QED BY <2>3, <2>4
<1>3. IsWalk(It(d), d)
  BY <1>1
<1>4. CASE n = 0
  <2>1. It(d)[1..n] = "root"
    BY <1>3, <1>4, WalkUnfolds
  <2> QED BY <1>2, <1>4, <2>1
<1>5. CASE n # 0
  <2>1. n - 1 \in 0..Len(d)
    BY <1>5
  <2>2. It(d)[1..n] = ChildScope(It(d)[1..(n - 1)], d[n])
    BY <1>3, <1>5, WalkUnfolds
  <2>3. Scope(Prefix(d, n)) = It(d)[1..n]
    BY <1>2
  <2>4. Scope(Prefix(d, n - 1)) = It(d)[1..(n - 1)]
    BY <1>2, <2>1
  <2> QED BY <1>5, <2>2, <2>3, <2>4
<1> QED BY <1>4, <1>5

\* Launchers' folders of logs, and those in them, are entered for their logs,
\* and those above them for the folders they may hold.
LEMMA LaunchersFoldersAreEntered ==
    ASSUME NEW f \in Seq(STRING), f # <<>>, LaunchersLog(f)
    PROVE  /\ \A k \in 0..(Len(f) - 1) : Scope(Prefix(f, k)) # "none"
           /\ Scope(Prefix(f, Len(f) - 1)) = "logs"
<1> DEFINE m == Len(f) - 1
           w == [k \in 0..m |-> Scope(Prefix(f, k))]
<1>1. /\ m \in Nat /\ Len(f) = m + 1 /\ Front(f) \in Seq(STRING) /\ Len(Front(f)) = m
      /\ \A i \in 1..m : Front(f)[i] = f[i]
  BY FrontShape
<1> HIDE DEF m
<1>2. PICK n \in Positions(Front(f), "logs") : GameFolder(SubSeq(f, 1, n - 1))
  BY DEF LaunchersLog
<1>3. n \in 1..m /\ f[n] = "logs" /\ n \in Nat /\ n - 1 \in 0..Len(f) /\ n - 1 \in Nat
  <2>1. n \in DOMAIN Front(f) /\ Front(f)[n] = "logs"
    BY <1>2 DEF Positions
  <2>2. n \in 1..m
    BY <1>1, <2>1
  <2> QED BY <1>1, <2>1, <2>2
<1>4. /\ w[0] = "root"
      /\ \A k \in 1..m : w[k] = ChildScope(w[k - 1], f[k])
  <2>1. \A k \in 0..m : k \in 0..Len(f) /\ (k # 0 => k - 1 \in 0..m) /\ w[k] = Scope(Prefix(f, k))
    BY <1>1
  <2>2. 0 \in 0..m /\ \A k \in 1..m : k \in 0..m /\ k # 0
    BY <1>1
  <2> QED BY <2>1, <2>2, ScopeUnfolds
<1> HIDE DEF w
<1>5. w[n] = "logs" /\ \A k \in 0..n : w[k] # "none"
  <2>1. PICK g : g = Prefix(f, n - 1)
    OBVIOUS
  <2>2. GameFolder(g)
    BY <1>2, <2>1 DEF Prefix
  <2>10. Len(g) = n - 1 /\ \A i \in 1..(n - 1) : g[i] = f[i]
    BY <1>3, <2>1, PrefixShape
  <2>11. n = Len(g) + 1
    BY <1>3, <2>10
  <2>3. \/ n = 1
        \/ n = 2 /\ f[1] \in GameNames
        \/ n = 3 /\ f[1] = "instances"
        \/ n = 4 /\ f[1] = "instances" /\ f[3] \in GameNames
    <3>1. CASE g = <<>>
      <4>1. Len(g) = 0
        BY <3>1
      <4> QED BY <1>3, <2>10, <4>1
    <3>2. CASE Len(g) = 1 /\ g[1] \in GameNames
      <4>1. n = 2
        BY <2>11, <3>2
      <4>2. 1 \in 1..(n - 1)
        BY <4>1
      <4> QED BY <2>10, <3>2, <4>1, <4>2
    <3>3. CASE Len(g) = 2 /\ g[1] = "instances"
      <4>1. n = 3
        BY <2>11, <3>3
      <4>2. 1 \in 1..(n - 1)
        BY <4>1
      <4> QED BY <2>10, <3>3, <4>1, <4>2
    <3>4. CASE Len(g) = 3 /\ g[1] = "instances" /\ g[3] \in GameNames
      <4>1. n = 4
        BY <2>11, <3>4
      <4>2. 1 \in 1..(n - 1) /\ 3 \in 1..(n - 1)
        BY <4>1
      <4> QED BY <2>10, <3>4, <4>1, <4>2
    <3> QED BY <2>2, <3>1, <3>2, <3>3, <3>4 DEF GameFolder
  <2>4. \A name \in GameNames :
           /\ ChildScope("root", name) = "game" /\ ChildScope("instance", name) = "game"
    BY DEF ChildScope, GameNames
  <2>5. /\ ChildScope("root", "instances") = "collection"
        /\ ChildScope("root", "logs") = "logs" /\ ChildScope("instance", "logs") = "logs"
        /\ ChildScope("game", "logs") = "logs" /\ \A name : ChildScope("collection", name) = "instance"
    BY DEF ChildScope, GameNames
  <2>6. CASE n = 1
    <3>1. w[1] = "logs"
      BY <1>3, <1>4, <2>5, <2>6
    <3>2. \A k \in 0..n : k = 0 \/ k = 1
      BY <2>6
    <3> QED BY <1>4, <2>6, <3>1, <3>2
  <2>7. CASE n = 2 /\ f[1] \in GameNames
    <3>1. 1 \in 1..m /\ 1 - 1 = 0 /\ 2 \in 1..m /\ 2 - 1 = 1
      BY <1>1, <1>3, <2>7
    <3>2. w[1] = "game"
      BY <1>4, <2>4, <2>7, <3>1
    <3>3. w[2] = "logs"
      BY <1>3, <1>4, <2>5, <2>7, <3>1, <3>2
    <3>4. \A k \in 0..n : k = 0 \/ k = 1 \/ k = 2
      BY <2>7
    <3> QED BY <1>4, <2>7, <3>2, <3>3, <3>4
  <2>8. CASE n = 3 /\ f[1] = "instances"
    <3>1. 1 \in 1..m /\ 1 - 1 = 0 /\ 2 \in 1..m /\ 2 - 1 = 1 /\ 3 \in 1..m /\ 3 - 1 = 2
      BY <1>1, <1>3, <2>8
    <3>2. w[1] = "collection"
      BY <1>4, <2>5, <2>8, <3>1
    <3>3. w[2] = "instance"
      BY <1>4, <2>5, <3>1, <3>2
    <3>4. w[3] = "logs"
      BY <1>3, <1>4, <2>5, <2>8, <3>1, <3>3
    <3>5. \A k \in 0..n : k = 0 \/ k = 1 \/ k = 2 \/ k = 3
      BY <2>8
    <3> QED BY <1>4, <2>8, <3>2, <3>3, <3>4, <3>5
  <2>9. CASE n = 4 /\ f[1] = "instances" /\ f[3] \in GameNames
    <3>1. /\ 1 \in 1..m /\ 1 - 1 = 0 /\ 2 \in 1..m /\ 2 - 1 = 1
          /\ 3 \in 1..m /\ 3 - 1 = 2 /\ 4 \in 1..m /\ 4 - 1 = 3
      BY <1>1, <1>3, <2>9
    <3>2. w[1] = "collection"
      BY <1>4, <2>5, <2>9, <3>1
    <3>3. w[2] = "instance"
      BY <1>4, <2>5, <3>1, <3>2
    <3>4. w[3] = "game"
      BY <1>4, <2>4, <2>9, <3>1, <3>3
    <3>5. w[4] = "logs"
      BY <1>3, <1>4, <2>5, <2>9, <3>1, <3>4
    <3>6. \A k \in 0..n : k = 0 \/ k = 1 \/ k = 2 \/ k = 3 \/ k = 4
      BY <2>9
    <3> QED BY <1>4, <2>9, <3>2, <3>3, <3>4, <3>5, <3>6
  <2> QED BY <2>3, <2>6, <2>7, <2>8, <2>9
<1>6. \A k \in n..m : w[k] = "logs"
  <2> DEFINE Bad == {k \in n..m : w[k] # "logs"}
  <2>1. CASE Bad # {}
    <3>1. Bad \in SUBSET Nat
      BY <1>3
    <3>2. PICK k \in Bad : \A j \in Bad : k <= j
      <4> HIDE DEF Bad
      <4> QED BY <2>1, <3>1, LeastNatural
    <3>3. k # n /\ k \in n..m
      BY <1>5, <3>2
    <3>4. k - 1 \in n..m /\ k \in 1..m /\ ~(k <= k - 1)
      BY <1>1, <1>3, <3>3
    <3>5. w[k - 1] = "logs"
      BY <3>2, <3>4
    <3>6. \A name : ChildScope("logs", name) = "logs"
      BY DEF ChildScope
    <3> QED BY <1>4, <3>2, <3>4, <3>5, <3>6
  <2> QED BY <2>1
<1>7. \A k \in 0..m : w[k] # "none"
  <2>1. \A k \in 0..m : k \in 0..n \/ k \in n..m
    BY <1>1, <1>3
  <2> QED BY <1>5, <1>6, <2>1
<1>8. m \in n..m /\ m \in 0..m
  BY <1>1, <1>3
<1>9. \A k \in 0..m : w[k] = Scope(Prefix(f, k))
  BY DEF w
<1> QED BY <1>6, <1>7, <1>8, <1>9 DEF m

\* The folders a file lies in are folders of the tree.
LEMMA PrefixesAreFolders ==
    ASSUME NEW t, IsTree(t), NEW f \in Paths(t), f # <<>>, NEW k \in 0..(Len(f) - 1)
    PROVE  Prefix(f, k) \in t.dirs
<1> DEFINE m == Len(f) - 1
           Bad == {j \in 0..m : Prefix(f, m - j) \notin t.dirs}
<1>1. f \in Seq(STRING) /\ m \in Nat /\ Len(f) = m + 1
  <2>1. f \in Seq(STRING)
    BY DEF IsTree
  <2> QED BY <2>1, FrontShape
<1>2. Front(f) = Prefix(f, m) /\ Prefix(f, m) \in t.dirs
  BY DEF Front, Prefix, IsTree
<1> HIDE DEF m
<1>3. CASE Bad # {}
  <2>1. PICK j \in Bad : \A i \in Bad : j <= i
    <3>1. Bad \in SUBSET Nat
      OBVIOUS
    <3> HIDE DEF Bad
    <3> QED BY <1>3, <3>1, LeastNatural
  <2>2. j # 0
    <3>1. j = 0 => m - j = m
      BY <1>1
    <3> QED BY <1>2, <2>1, <3>1
  <2> DEFINE n == m - (j - 1)
  <2>3. /\ j - 1 \in 0..m /\ ~(j <= j - 1) /\ n \in 1..m /\ n \in 0..Len(f) /\ n - 1 \in 0..n
        /\ n - 1 = m - j /\ n # 0
    BY <1>1, <2>1, <2>2
  <2>4. Prefix(f, n) \in t.dirs
    BY <2>1, <2>3
  <2>5. Prefix(f, n) \in Paths(t) /\ Len(Prefix(f, n)) = n
    BY <1>1, <2>3, <2>4, PrefixShape DEF Paths
  <2>6. Prefix(f, n) # <<>>
    BY <2>3, <2>5
  <2>7. Front(Prefix(f, n)) \in t.dirs
    BY <2>5, <2>6 DEF IsTree
  <2>8. Front(Prefix(f, n)) = Prefix(Prefix(f, n), n - 1)
    BY <2>5 DEF Front, Prefix
  <2>9. Prefix(Prefix(f, n), n - 1) = Prefix(f, n - 1)
    BY <1>1, <2>3, PrefixOfPrefix
  <2>10. Prefix(f, n - 1) = Prefix(f, m - j)
    BY <2>3
  <2> QED BY <2>1, <2>7, <2>8, <2>9, <2>10
<1>4. CASE Bad = {}
  <2>1. m - k \in 0..m /\ m - (m - k) = k
    BY <1>1 DEF m
  <2> QED BY <1>4, <2>1
<1> QED BY <1>3, <1>4

\* No log that lies where launchers put logs is lost in silence: the inventory
\* has it, or a warning tells of it or of the folder in which the walk stopped,
\* however deep the folders are nested, whichever cannot be listed, whichever
\* files are too large and whatever else lies around.
THEOREM NoLogIsLost == Spec => []NoLogIsLostInSilence
<1>1. SurveyStands => NoLogIsLostInSilence
  <2> SUFFICES ASSUME SurveyStands, NEW r \in report, NEW f \in r.tree.files, LaunchersLog(f)
               PROVE  f \in r.logs \/ \E n \in 1..Len(f) : SubSeq(f, 1, n) \in r.warnings
    BY DEF NoLogIsLostInSilence
  <2> DEFINE t == r.tree
             m == Len(f) - 1
             Stops(k) == Prefix(f, k) \in t.closed \/ k > MaxDepth
             Bad == {k \in 0..m : Stops(k)}
  <2>1. /\ IsTree(t) /\ ~InventoryFails(t) /\ r.logs = Candidates(t) /\ r.warnings = Warnings(t)
        /\ MaxDepth \in Nat
    BY OptionsAssumption DEF SurveyStands, ReportStands
  <2>2. f \in t.files /\ f \in Paths(t) /\ f \in Seq(STRING)
    BY <2>1 DEF Paths, IsTree
  <2> HIDE DEF t
  <2>3. f # <<>>
    <3> SUFFICES ASSUME f = <<>>
                 PROVE  FALSE
      OBVIOUS
    <3>1. PICK n : n \in DOMAIN Front(f)
      BY DEF LaunchersLog, Positions
    <3>2. Front(f) = <<>>
      BY DEF Front
    <3> QED BY <3>1, <3>2
  <2>4. m \in Nat /\ Len(f) = m + 1
    BY <2>2, <2>3, FrontShape
  <2>5. /\ \A k \in 0..m : Scope(Prefix(f, k)) # "none" /\ Prefix(f, k) \in t.dirs
        /\ Scope(Prefix(f, m)) = "logs"
    BY <2>1, <2>2, <2>3, LaunchersFoldersAreEntered, PrefixesAreFolders
  <2>6. Front(f) = Prefix(f, m) /\ SubSeq(f, 1, m + 1) = f
    BY <2>2, <2>4 DEF Front, Prefix
  <2> HIDE DEF m
  <2>7. \A k \in 0..m : Prefix(f, k) \in Seq(STRING) /\ Len(Prefix(f, k)) = k
    BY <2>2, <2>4, PrefixShape
  <2>8. ASSUME NEW k \in 0..m, \A j \in 0..(k - 1) : ~Stops(j), k <= MaxDepth
        PROVE  Prefix(f, k) \in Reached(t)
    <3>1. \A j \in 0..(k - 1) : SubSeq(Prefix(f, k), 1, j) \notin t.closed
      <4> SUFFICES ASSUME NEW j \in 0..(k - 1)
                   PROVE  SubSeq(Prefix(f, k), 1, j) \notin t.closed
        OBVIOUS
      <4>1. j \in 0..k /\ k \in 0..Len(f)
        BY <2>4
      <4>2. Prefix(Prefix(f, k), j) = Prefix(f, j)
        BY <2>2, <4>1, PrefixOfPrefix
      <4>3. Prefix(f, j) \notin t.closed
        BY <2>8
      <4> QED BY <4>2, <4>3 DEF Prefix
    <3>2. Prefix(f, k) \in t.dirs /\ Scope(Prefix(f, k)) # "none" /\ Len(Prefix(f, k)) = k
      BY <2>5, <2>7
    <3> QED BY <2>8, <3>1, <3>2 DEF Reached
  <2>9. CASE Bad # {}
    <3>1. PICK k \in Bad : \A j \in Bad : k <= j
      <4>1. Bad \in SUBSET Nat
        OBVIOUS
      <4> HIDE DEF Bad
      <4> QED BY <2>9, <4>1, LeastNatural
    <3>2. k \in 0..m /\ Stops(k) /\ \A j \in 0..(k - 1) : ~Stops(j)
      <4>1. \A j \in 0..(k - 1) : j \in 0..m /\ ~(k <= j)
        BY <2>4, <3>1
      <4> QED BY <3>1, <4>1
    <3>3. k # 0
      <4>1. Prefix(f, 0) = <<>>
        BY <2>2 DEF Prefix
      <4>2. <<>> \notin t.closed /\ ~(0 > MaxDepth)
        BY <2>1 DEF InventoryFails, Readable
      <4> QED BY <3>2, <4>1, <4>2
    <3>4. k - 1 \in 0..m /\ k - 1 \in 0..(k - 1) /\ (\A j \in 0..(k - 1 - 1) : j \in 0..(k - 1))
          /\ k \in 0..Len(f) /\ k - 1 \in 0..k
      BY <2>4, <3>2, <3>3
    <3>5. Prefix(f, k - 1) \notin t.closed /\ k - 1 <= MaxDepth
      <4>1. ~(k - 1 > MaxDepth) /\ Prefix(f, k - 1) \notin t.closed
        BY <3>2, <3>4
      <4> QED BY <2>1, <2>4, <3>4, <4>1
    <3>6. Prefix(f, k - 1) \in Walked(t)
      <4>1. Prefix(f, k - 1) \in Reached(t)
        BY <2>8, <3>2, <3>4, <3>5
      <4> QED BY <3>5, <4>1 DEF Walked
    <3>7. Prefix(f, k) \in Visited(t)
      <4>1. Prefix(f, k) # <<>> /\ Prefix(f, k) \in Paths(t) /\ Len(Prefix(f, k)) = k
        BY <2>5, <2>7, <3>2, <3>3 DEF Paths
      <4>2. Front(Prefix(f, k)) = Prefix(Prefix(f, k), k - 1)
        BY <4>1 DEF Front, Prefix
      <4>3. Prefix(Prefix(f, k), k - 1) = Prefix(f, k - 1)
        BY <2>2, <3>4, PrefixOfPrefix
      <4>4. Prefix(f, k) \in Entries(t, Prefix(f, k - 1))
        BY <4>1, <4>2, <4>3 DEF Entries
      <4> QED BY <3>6, <4>4 DEF Visited
    <3>8. Prefix(f, k) \in Warnings(t)
      <4>1. CASE k > MaxDepth
        BY <2>5, <2>7, <3>2, <3>7, <4>1 DEF Warnings
      <4>2. CASE ~(k > MaxDepth)
        <5>1. k <= MaxDepth /\ Prefix(f, k) \in t.closed
          BY <2>1, <2>4, <3>2, <4>2
        <5> QED BY <2>8, <3>2, <5>1 DEF Warnings
      <4> QED BY <4>1, <4>2
    <3>9. k \in 1..Len(f)
      BY <2>4, <3>2, <3>3
    <3> QED BY <2>1, <3>8, <3>9 DEF Prefix
  <2>10. CASE Bad = {}
    <3>1. m \in 0..m /\ (\A j \in 0..(m - 1) : j \in 0..m) /\ m + 1 \in 1..Len(f)
      BY <2>4
    <3>2. \A j \in 0..m : ~Stops(j)
      BY <2>10
    <3>3. m <= MaxDepth /\ Prefix(f, m) \notin t.closed
      BY <2>1, <2>4, <3>1, <3>2
    <3>4. Prefix(f, m) \in Walked(t)
      BY <2>8, <3>1, <3>2, <3>3 DEF Walked
    <3>5. f \in Visited(t)
      <4>1. f \in Entries(t, Prefix(f, m))
        BY <2>2, <2>3, <2>6 DEF Entries
      <4> QED BY <3>4, <4>1 DEF Visited
    <3>6. IsLog(t, f)
      BY <2>2, <2>5, <2>6 DEF IsLog, LaunchersLog
    <3>7. CASE f \in t.big
      BY <2>1, <2>6, <3>1, <3>5, <3>6, <3>7 DEF Warnings
    <3>8. CASE f \notin t.big
      BY <2>1, <3>5, <3>6, <3>8 DEF Candidates
    <3> QED BY <3>7, <3>8
  <2> QED BY <2>9, <2>10
<1> QED BY <1>1, SurveyHolds, PTL
=============================================================================
