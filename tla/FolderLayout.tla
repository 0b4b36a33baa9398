---------------------------- MODULE FolderLayout ----------------------------
(***************************************************************************)
(* What the program makes of a folder: is it a Minecraft folder or a       *)
(* launcher's (validation), which logs lie in it (inventory), and to which *)
(* instance does each log belong (grouping).                               *)
(*                                                                         *)
(* A folder is a tree of the paths below it.  A path is a sequence of      *)
(* names; <<>> is the folder itself.  Names that differ in the case of     *)
(* their letters are one name.  A tree says which paths are folders, files *)
(* and links (to folders), which folders cannot be listed (closed), which  *)
(* files are too large (big), and whether the folder itself is a link.     *)
(***************************************************************************)
EXTENDS Integers, Sequences, FiniteSets, SequencesExt, FiniteSetsExt

CONSTANTS
    MaxLauncherEntries,   \* MAX_LAUNCHER_INSTANCE_ENTRIES
    MaxDepth, MaxEntries  \* InventoryOptions

ASSUME OptionsAssumption ==
    MaxLauncherEntries \in Nat /\ MaxDepth \in Nat /\ MaxEntries \in Nat

Missing == [dirs |-> {}, files |-> {}, links |-> {}, closed |-> {}, big |-> {}, linked |-> FALSE]

\* What lies in a folder lies below it; nothing is found behind a link.
Paths(t) == t.dirs \cup t.files \cup t.links
IsTree(t) ==
    /\ Paths(t) \subseteq Seq(STRING)
    /\ \A p \in Paths(t) : p # <<>> => Front(p) \in t.dirs
    /\ t.closed \subseteq t.dirs /\ t.big \subseteq t.files

Entries(t, d) == {p \in Paths(t) : p # <<>> /\ Front(p) = d}

-----------------------------------------------------------------------------
(***************************************************************************)
(* Validation.  Path::is_dir follows links; DirEntry::file_type does not.  *)
(***************************************************************************)
HasDir(t, p)  == p \in t.dirs \cup t.links
HasFile(t, p) == p \in t.files

GameFolders == [logs |-> 25, versions |-> 18, saves |-> 12, assets |-> 8, libraries |-> 8]
GameFiles == [options |-> 18, launcher_profiles |-> 15]
LauncherFiles == {"prismlauncher.cfg", "multimc.cfg"}

Capped(n) == IF n > 100 THEN 100 ELSE n
Unknown == [kind |-> "unknown", score |-> 0, count |-> 0, markers |-> {}]

InspectGame(t, d) ==
    LET folders == {m \in DOMAIN GameFolders : HasDir(t, Append(d, m))}
        files   == {m \in DOMAIN GameFiles : HasFile(t, Append(d, m))}
        markers == folders \cup files
        score   == Capped(MapThenSumSet(LAMBDA m : GameFolders[m], folders)
                          + MapThenSumSet(LAMBDA m : GameFiles[m], files))
        game    == Cardinality(markers) >= 2 /\ score >= 30
    IN  [kind |-> IF game THEN "game" ELSE "unknown", score |-> score,
         count |-> IF game THEN 1 ELSE 0, markers |-> markers]

\* An instance of a launcher: the game below .minecraft, or the game itself
\* with the launcher's or a mod's files beside its logs.
IsInstance(t, d) ==
    LET game == Append(d, ".minecraft")
    IN  \/ /\ HasDir(t, game)
           /\ \/ HasDir(t, Append(game, "logs")) \/ HasDir(t, Append(game, "versions"))
              \/ HasFile(t, Append(game, "options"))
        \/ /\ HasDir(t, Append(d, "logs"))
           /\ \/ HasFile(t, Append(d, "minecraftinstance.json")) \/ HasFile(t, Append(d, "options"))
              \/ HasDir(t, Append(d, "mods")) \/ HasDir(t, Append(d, "config"))

Instances(t) == {d \in Entries(t, <<"instances">>) \cap t.dirs : IsInstance(t, d)}

InspectLauncher(t) ==
    LET found   == <<"instances">> \in t.dirs
        config  == {m \in LauncherFiles : HasFile(t, <<m>>)}
        count   == IF found THEN Cardinality(Instances(t)) ELSE 0
        markers == (IF found THEN {"instances"} ELSE {}) \cup config
                     \cup (IF count > 0 THEN {"instance-game-directories"} ELSE {})
        score   == Capped((IF found THEN 25 ELSE 0) + 30 * Cardinality(config)
                          + (IF count = 0 THEN 0 ELSE 25 + 5 * (IF count > 4 THEN 4 ELSE count)))
        launcher == found /\ (config # {} \/ count > 0) /\ Cardinality(markers) >= 2
    IN  [kind |-> IF launcher THEN "launcher" ELSE "unknown",
         score |-> score, count |-> count, markers |-> markers]

Supported(report) ==
    report.kind # "unknown" /\ Cardinality(report.markers) >= 2 /\ report.score >= 30

InspectInstance(t) ==
    LET child == InspectGame(t, <<".minecraft">>)
    IN  [kind |-> "instance", score |-> Capped(child.score + 10), count |-> 1,
         markers |-> child.markers \cup {".minecraft"}
                       \cup {m \in {"instance.cfg", "mmc-pack.json"} : HasFile(t, <<m>>)}]

\* Errors (no folder, a folder that cannot be listed, too many instances) have
\* every caller treat the folder as unsupported.
Readable(t) == <<>> \in t.dirs \ t.closed
Validate(t) ==
    IF \/ ~Readable(t) \/ <<"instances">> \in t.closed
       \/ Cardinality(Entries(t, <<"instances">>)) > MaxLauncherEntries THEN Unknown
    ELSE IF Supported(InspectLauncher(t)) THEN InspectLauncher(t)
    ELSE IF HasDir(t, <<".minecraft">>) /\ Supported(InspectGame(t, <<".minecraft">>))
         THEN InspectInstance(t)
    ELSE IF Supported(InspectGame(t, <<>>)) THEN InspectGame(t, <<>>) ELSE Unknown

-----------------------------------------------------------------------------
(***************************************************************************)
(* Inventory.  The walk enters a folder for what it may hold: its scope.   *)
(***************************************************************************)
GameNames == {".minecraft", "minecraft"}

\* Mutant: the instances of MultiMC keep their game in "minecraft".
ChildScopeDotted(scope, name) ==
    CASE scope \in {"root", "instance", "game"} /\ name = "logs" -> "logs"
      [] scope \in {"root", "instance"} /\ name = ".minecraft" -> "game"
      [] scope = "root" /\ name = "instances" -> "collection"
      [] scope = "collection" -> "instance"
      [] scope = "logs" -> "logs"
      [] OTHER -> "none"

ChildScope(scope, name) ==
    CASE scope \in {"root", "instance", "game"} /\ name = "logs" -> "logs"
      [] scope \in {"root", "instance"} /\ name \in GameNames -> "game"
      [] scope = "root" /\ name = "instances" -> "collection"
      [] scope = "collection" -> "instance"
      [] scope = "logs" -> "logs"
      [] OTHER -> "none"

Scope(d) == FoldLeft(ChildScope, "root", d)

\* Folders the walk comes to, and those it lists.  It never follows a link,
\* so whatever lies behind one is in no tree.
Reached(t) == {d \in t.dirs : Scope(d) # "none" /\ Len(d) <= MaxDepth
                                /\ \A n \in 0..Len(d) - 1 : SubSeq(d, 1, n) \notin t.closed}
Walked(t) == Reached(t) \ t.closed
Visited(t) == UNION {Entries(t, d) : d \in Walked(t)}

PlainLogs == {"latest.log"}
CompressedLogs == {"old.log.gz"}
IsLogName(name) == name \in PlainLogs \cup CompressedLogs
IsLog(t, f) == f \in t.files /\ Scope(Front(f)) = "logs" /\ IsLogName(Last(f))

InventoryFails(t) == ~Readable(t) \/ t.linked \/ Cardinality(Visited(t)) > MaxEntries
Candidates(t) == {f \in Visited(t) : IsLog(t, f) /\ f \notin t.big}

Warnings(t) ==
    (Visited(t) \cap t.links) \cup (Reached(t) \cap t.closed)
      \cup {d \in Visited(t) \cap t.dirs : Scope(d) # "none" /\ Len(d) > MaxDepth}
      \cup {f \in Visited(t) : IsLog(t, f) /\ f \in t.big}

-----------------------------------------------------------------------------
(***************************************************************************)
(* Grouping: the folders before the first "logs" name the instance.        *)
(***************************************************************************)
Positions(p, name) == {n \in DOMAIN p : p[n] = name}
LogIndex(p) == Min(Positions(p, "logs"))
InInstance(p) == \E n \in Positions(p, "instances") : n < LogIndex(p)
InstanceIndex(p) == Min(Positions(p, "instances"))

\* Mutant: an instance ends with the folder of the instances.
RelativeRootOfAll(p) == IF InInstance(p) THEN SubSeq(p, 1, InstanceIndex(p)) ELSE <<>>

RelativeRoot(p) == IF InInstance(p) THEN SubSeq(p, 1, LogIndex(p) - 1) ELSE <<>>
InstanceName(p, location) ==
    IF InInstance(p) THEN p[InstanceIndex(p) + 1] ELSE location.name

\* A log outside any instance is not told apart in a folder of instances.
Grouped(p, location, mode) ==
    /\ mode = "quick" => Last(p) = "latest.log"
    /\ Positions(p, "logs") # {}
    /\ InInstance(p) \/ (location.adapter # "prism" /\ location.instances <= 1)

Groups(location, candidates, mode) ==
    LET logs  == {p \in candidates : Grouped(p, location, mode)}
        found == {[root |-> RelativeRoot(p), name |-> InstanceName(p, location),
                   logs |-> {q \in logs : RelativeRoot(q) = RelativeRoot(p)}] : p \in logs}
    IN  IF found = {} /\ mode # "quick" /\ location.adapter # "prism"
        THEN {[root |-> <<>>, name |-> location.name, logs |-> {}]} ELSE found
=============================================================================
