---------------------------- MODULE LogSnapshot ----------------------------
(***************************************************************************)
(* How one log is read while others write.  A scan fingerprints the log    *)
(* ("stage"); later it opens the log again, copies it into a private       *)
(* snapshot ("copy"), parses the snapshot and fingerprints the path once   *)
(* more ("recheck").  Every system call is a step; between two steps a     *)
(* game may append to the log or rotate it, a tool may rewrite it in place *)
(* and give it back its time, and the log or its folder may be swapped for *)
(* a link to a place outside the approved folder.                          *)
(*                                                                         *)
(* Data abstracted: a digest is the bytes it is taken of; of a folder      *)
(* tree only the log's own folder and a folder outside are kept.           *)
(***************************************************************************)
EXTENDS Integers, Sequences, SequencesExt

CONSTANTS
    Byte,           \* the bytes of a log
    InitialLogs,    \* what the log may hold when the scan finds it
    Rewrites,       \* what a tool may put in its place
    PreviousSizes,  \* sizes of the current source: {} when there is none, else a singleton
    PrefixBytes, BufferBytes,    \* FingerprintOptions
    MaxWrites, MaxTime           \* bounds: writes by others, milliseconds that pass

ASSUME OptionsAssumption ==
    /\ InitialLogs \cup Rewrites \subseteq Seq(Byte)
    /\ \A p \in PreviousSizes : p \subseteq Nat /\ \A m, n \in p : m = n
    /\ PrefixBytes \in Nat /\ BufferBytes \in Nat \ {0} /\ MaxWrites \in Nat /\ MaxTime \in Nat

NoFile == 0
Outside == 1     \* the file of the same name in the folder a link leads to
Passes == {"stage", "copy", "recheck"}

VARIABLES
    files,       \* every file there ever was: kind, bytes, modification and birth time
    entry,       \* the file the log's name stands for in the approved folder, or NoFile
    swapped,     \* the log's folder is a link to the outside one
    now, writes,
    pass, step,
    seen,        \* metadata seen at the path before opening it
    handle,      \* the open file, or NoFile
    opened,      \* metadata of the open file
    bytes, prefix, comparison,   \* what was hashed so far
    previous,    \* size of the current source
    fingerprint, \* the staged fingerprint, in a singleton
    snapshot,    \* the private copy
    outcome,     \* "none" while the log is being read
    stood,       \* history: what the log has held since the pass began
    deeds        \* history: what others did to the log since the pass began

world  == <<files, entry, swapped, now, writes>>
hashed == <<bytes, prefix, comparison>>
result == <<fingerprint, snapshot, outcome>>
vars == <<world, pass, step, seen, handle, opened, hashed, previous, result, stood, deeds>>

-----------------------------------------------------------------------------
(***************************************************************************)
(* The file system and those who write to it.                              *)
(***************************************************************************)
Meta(f) == [regular |-> files[f].kind = "file", size |-> Len(files[f].bytes),
            mtime |-> files[f].mtime, birth |-> files[f].birth]

IsLog(f) == f # NoFile /\ Meta(f).regular

\* symlink_metadata follows the links of folders, not the last one.
AtPath == IF swapped THEN Outside ELSE entry

Whole(fs, e) == IF e # NoFile /\ fs[e].kind = "file" THEN {fs[e].bytes} ELSE {}
Recorded == stood' = stood \cup Whole(files', entry')

Write ==
    /\ outcome = "none" /\ writes < MaxWrites
    /\ writes' = writes + 1
    /\ UNCHANGED <<now, pass, step, seen, handle, opened, hashed, previous, result>>

GameAppends ==
    /\ Write /\ IsLog(entry)
    /\ \E b \in Byte : files' = [files EXCEPT ![entry].bytes = Append(@, b), ![entry].mtime = now]
    /\ UNCHANGED <<entry, swapped, deeds>> /\ Recorded

\* A rotated log, a restored one, a link: another file takes the name.
NameIsTaken ==
    /\ Write
    /\ \E kind \in {"file", "link"}, held \in Rewrites, t \in 0..now :
          files' = Append(files, [kind |-> kind, bytes |-> held, mtime |-> t, birth |-> now])
    /\ entry' = Len(files')
    /\ deeds' = deeds \cup {"moved"}
    /\ UNCHANGED swapped /\ Recorded

RewrittenInPlace ==
    /\ Write /\ IsLog(entry)
    /\ \E held \in Rewrites, t \in {now, files[entry].mtime} :
          /\ files' = [files EXCEPT ![entry].bytes = held, ![entry].mtime = t]
          /\ deeds' = deeds \cup {IF t = files[entry].mtime THEN "hidden" ELSE "rewritten"}
    /\ UNCHANGED <<entry, swapped>> /\ Recorded

Removed ==
    /\ Write /\ entry' = NoFile
    /\ deeds' = deeds \cup {"moved"}
    /\ UNCHANGED <<files, swapped, stood>>

FolderSwapped ==
    /\ Write /\ swapped' = ~swapped
    /\ deeds' = deeds \cup {"moved"}
    /\ UNCHANGED <<files, entry, stood>>

Tick ==
    /\ outcome = "none" /\ now < MaxTime /\ now' = now + 1
    /\ UNCHANGED <<files, entry, swapped, writes, pass, step, seen, handle, opened,
                   hashed, previous, result, stood, deeds>>

-----------------------------------------------------------------------------
(***************************************************************************)
(* The reader.                                                             *)
(***************************************************************************)
SameObservation(a, b) == a.size = b.size /\ a.mtime = b.mtime

\* A fingerprint that fails leaves the log out of the scan; later on the log
\* counts as changed.
Refused == outcome' = IF pass = "stage" THEN "skipped" ELSE "changed"
Refuse == /\ Refused
          /\ UNCHANGED <<world, pass, step, seen, handle, opened, hashed, previous,
                         fingerprint, snapshot, stood, deeds>>

Reader(from) == outcome = "none" /\ step = from
Moved(to) == step' = to /\ UNCHANGED <<world, pass, previous, result, stood, deeds>>
Unread == UNCHANGED hashed

\* fingerprint_log: the path must show a regular file before it is opened.
Look ==
    /\ Reader("look")
    /\ \/ /\ IsLog(AtPath)
          /\ seen' = <<Meta(AtPath)>>
          /\ Moved("look again") /\ UNCHANGED <<handle, opened, hashed>>
       \/ ~IsLog(AtPath) /\ Refuse

\* open_log_read_only_no_follow looks at the path for itself.
LookAgain ==
    /\ Reader("look again")
    /\ \/ /\ IsLog(AtPath)
          /\ seen' = Append(seen, Meta(AtPath))
          /\ Moved("open folder") /\ UNCHANGED <<handle, opened, hashed>>
       \/ ~IsLog(AtPath) /\ Refuse

\* Mutant: folders are opened like any other.
OpenFolderFollowing ==
    /\ Reader("open folder")
    /\ \/ ~swapped /\ Moved("open file") /\ UNCHANGED <<seen, handle, opened, hashed>>
       \/ /\ swapped /\ handle' = Outside
          /\ Moved("prove") /\ UNCHANGED <<seen, opened, hashed>>

\* O_NOFOLLOW | O_DIRECTORY on every folder below the approved one.
OpenFolder ==
    /\ Reader("open folder")
    /\ \/ ~swapped /\ Moved("open file") /\ UNCHANGED <<seen, handle, opened, hashed>>
       \/ swapped /\ Refuse

\* O_NOFOLLOW on the name, in the folder that was opened: a swap of the
\* folder comes too late.
OpenFile ==
    /\ Reader("open file")
    /\ \/ /\ IsLog(entry)
          /\ handle' = entry
          /\ Moved("prove") /\ UNCHANGED <<seen, opened, hashed>>
       \/ ~IsLog(entry) /\ Refuse

\* The open file must be the one seen at the path.
Prove ==
    /\ Reader("prove")
    /\ \/ /\ Meta(handle).regular /\ SameObservation(Last(seen), Meta(handle))
          /\ Moved("begin") /\ UNCHANGED <<seen, handle, opened, hashed>>
       \/ ~SameObservation(Last(seen), Meta(handle)) /\ Refuse

MatchesFingerprint(m, f) == m.size = f.size /\ m.mtime = f.mtime

\* The metadata the reading is held against: of the first look, or, for the
\* copy, of the staged fingerprint.
Expected(m) == IF pass = "copy" THEN \A f \in fingerprint : MatchesFingerprint(m, f)
                                ELSE SameObservation(seen[1], m)
Begin ==
    /\ Reader("begin")
    /\ \/ /\ Expected(Meta(handle))
          /\ opened' = Meta(handle)
          /\ bytes' = <<>> /\ prefix' = <<>> /\ comparison' = <<>>
          /\ Moved("read") /\ UNCHANGED <<seen, handle>>
       \/ ~Expected(Meta(handle)) /\ Refuse

\* Mutant: a chunk is hashed whole as long as the limit is not reached.
FilledByChunk(taken, chunk, limit) == IF Len(taken) < limit THEN taken \o chunk ELSE taken

\* What a hash that stops after a number of bytes has taken in.
Filled(taken, chunk, limit) ==
    taken \o SubSeq(chunk, 1, IF Len(chunk) <= limit - Len(taken) THEN Len(chunk)
                                                                  ELSE limit - Len(taken))
Compared == IF pass = "stage" THEN previous ELSE {}

\* One read fills the buffer or falls short of it.
Read ==
    /\ Reader("read")
    /\ \E n \in 1..BufferBytes :
          /\ Len(bytes) + n <= Len(files[handle].bytes)
          /\ LET chunk == SubSeq(files[handle].bytes, Len(bytes) + 1, Len(bytes) + n)
             IN  /\ bytes' = bytes \o chunk
                 /\ prefix' = Filled(prefix, chunk, PrefixBytes)
                 /\ comparison' = IF Compared = {} THEN <<>>
                                  ELSE Filled(comparison, chunk, CHOOSE p \in Compared : TRUE)
    /\ Moved("read") /\ UNCHANGED <<seen, handle, opened>>

EndOfFile ==
    /\ Reader("read") /\ Len(files[handle].bytes) <= Len(bytes)
    /\ Moved("check") /\ Unread /\ UNCHANGED <<seen, handle, opened>>

\* What fingerprint_log returns.
Fingerprint ==
    [size |-> opened.size, mtime |-> opened.mtime, birth |-> opened.birth,
     prefix |-> prefix, full |-> bytes,
     comparison |-> IF \E p \in Compared : p <= Len(bytes) THEN {comparison} ELSE {}]

\* Mutant: the path is not looked at again.
FingerprintHoldsUnseen == Len(bytes) = opened.size

\* The path must still show what was opened, and no more was read than that.
FingerprintHolds ==
    /\ AtPath # NoFile /\ SameObservation(opened, Meta(AtPath))
    /\ Len(bytes) = opened.size

StageFingerprint ==
    /\ Reader("check") /\ pass = "stage"
    /\ \/ /\ FingerprintHolds
          /\ fingerprint' = {Fingerprint} /\ step' = "ended"
          /\ UNCHANGED <<world, pass, seen, handle, opened, hashed, previous,
                         snapshot, outcome, stood, deeds>>
       \/ ~FingerprintHolds /\ Refuse

\* create_verified_file_snapshot: the copied bytes must be the fingerprinted ones.
CopyHolds ==
    /\ SameObservation(opened, Meta(handle))
    /\ \A f \in fingerprint : /\ MatchesFingerprint(Meta(handle), f)
                              /\ Len(bytes) = f.size /\ bytes = f.full
KeepSnapshot ==
    /\ Reader("check") /\ pass = "copy"
    /\ \/ /\ CopyHolds
          /\ snapshot' = bytes /\ step' = "ended"
          /\ UNCHANGED <<world, pass, seen, handle, opened, hashed, previous,
                         fingerprint, outcome, stood, deeds>>
       \/ ~CopyHolds /\ Refuse

\* parse_file: the path must have the staged fingerprint to the end.
StillStaged == \A f \in fingerprint : /\ opened.size = f.size /\ opened.mtime = f.mtime
                                      /\ opened.birth = f.birth /\ bytes = f.full
AcceptParsed ==
    /\ Reader("check") /\ pass = "recheck"
    /\ \/ /\ FingerprintHolds /\ StillStaged
          /\ outcome' = "parsed" /\ step' = "ended"
          /\ UNCHANGED <<world, pass, seen, handle, opened, hashed, previous,
                         fingerprint, snapshot, stood, deeds>>
       \/ ~(FingerprintHolds /\ StillStaged) /\ Refuse

\* The next pass.  The snapshot is parsed before the recheck; that may fail.
NextPass(from, to, first) ==
    /\ Reader("ended") /\ pass = from
    /\ pass' = to /\ step' = first
    /\ seen' = <<>> /\ handle' = NoFile /\ opened' = <<>>
    /\ bytes' = <<>> /\ prefix' = <<>> /\ comparison' = <<>>
    /\ stood' = Whole(files, entry) /\ deeds' = {}
    /\ UNCHANGED <<world, previous, result>>

OpenAgain == NextPass("stage", "copy", "look again")
Parse     == NextPass("copy", "recheck", "look")
ParseEnds(how) ==
    /\ Reader("ended") /\ pass = "copy" /\ outcome' = how
    /\ UNCHANGED <<world, pass, step, seen, handle, opened, hashed, previous,
                   fingerprint, snapshot, stood, deeds>>

ParseFails     == ParseEnds("unreadable")
ParseCancelled == ParseEnds("cancelled")    \* CancellableReader looks at the token

\* The token is looked at before a pass, before every read and after the last.
Cancel ==
    /\ outcome = "none"
    /\ step \in {"read", "check"} \/ (step = "look" /\ pass # "copy") \/ (step = "begin" /\ pass = "copy")
    /\ outcome' = "cancelled"
    /\ UNCHANGED <<world, pass, step, seen, handle, opened, hashed, previous,
                   fingerprint, snapshot, stood, deeds>>

-----------------------------------------------------------------------------
Init ==
    /\ \E held \in InitialLogs :
          files = <<[kind |-> "file", bytes |-> held, mtime |-> 0, birth |-> 0],
                    [kind |-> "file", bytes |-> held, mtime |-> 0, birth |-> 0]>>
    /\ entry = 2 /\ swapped = FALSE /\ now = 0 /\ writes = 0
    /\ pass = "stage" /\ step = "look"
    /\ seen = <<>> /\ handle = NoFile /\ opened = <<>>
    /\ bytes = <<>> /\ prefix = <<>> /\ comparison = <<>>
    /\ previous \in PreviousSizes
    /\ fingerprint = {} /\ snapshot = <<>> /\ outcome = "none"
    /\ stood = Whole(files, entry) /\ deeds = {}

Others == GameAppends \/ NameIsTaken \/ RewrittenInPlace \/ Removed \/ FolderSwapped \/ Tick
Scan ==
    \/ Look \/ LookAgain \/ OpenFolder \/ OpenFile \/ Prove \/ Begin \/ Read \/ EndOfFile
    \/ StageFingerprint \/ KeepSnapshot \/ AcceptParsed
    \/ OpenAgain \/ Parse \/ ParseFails \/ ParseCancelled \/ Cancel
Next == Scan \/ Others
Spec == Init /\ [][Next]_vars

-----------------------------------------------------------------------------
\* A log is read in many steps while others append to it, rotate it, replace
\* it or swap it for a link.  What a pass accepts (the fingerprint, the
\* snapshot, the log counted as parsed) is what the log held, whole, at one
\* instant of that very pass, even when a tool rewrote it in place.  Two things
\* may make the reader take a mixture for a log: a rewrite that keeps the old
\* time, and a rewritten log whose place at the path another file of its size
\* and time takes.  Even then the parser was given the fingerprinted bytes.
Undisguised == "hidden" \notin deeds /\ ~({"rewritten", "moved"} \subseteq deeds)
AcceptedLogStoodWhole ==
    step = "ended" =>
        /\ Undisguised => \A f \in fingerprint : f.full \in stood
        /\ pass # "stage" => \A f \in fingerprint : f.full = snapshot

\* Whatever is swapped for a link, and whenever, no byte is read but from a
\* regular file of the approved folder.
NothingOutsideIsRead ==
    handle # NoFile => handle # Outside /\ files[handle].kind = "file"

\* Reads of any length are cut at the right byte: the prefix and the
\* comparison digest are of exactly the first bytes of the fingerprinted log,
\* and a log shorter than the current source has no comparison digest.  The
\* decision "appended" rests on it.
First(s, n) == IF n <= Len(s) THEN SubSeq(s, 1, n) ELSE s
PrefixesAreOfTheLog ==
    \A f \in fingerprint :
        /\ f.prefix = First(f.full, PrefixBytes) /\ Len(f.full) = f.size
        /\ f.comparison = {First(f.full, n) : n \in {p \in previous : p <= f.size}}

=============================================================================
