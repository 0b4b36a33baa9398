------------------------- MODULE LogReading_proofs -------------------------
(***************************************************************************)
(* The reading of one log, from the open file to its dated evidence.       *)
(*                                                                         *)
(* LogSnapshot, for logs of any length, buffers of any size and any number *)
(* of writes by others: what a scan accepts of a log stood there whole, no *)
(* byte of it is read outside the approved folder, and its partial digests *)
(* are of the right bytes.                                                 *)
(*                                                                         *)
(* LogParser, for any logs, contexts, days and limits: a log is refused    *)
(* exactly when it exceeds a limit, the evidence of a quiet log never runs *)
(* back, and that of a steady one carries the instants of its lines.       *)
(***************************************************************************)
EXTENDS LogSnapshot, LogParser, SequenceTheorems, DataInduction

-----------------------------------------------------------------------------
(***************************************************************************)
(* LogSnapshot.  The invariant follows the open file.  All it ever held    *)
(* since the pass began is in stood, because only the entry of the log is  *)
(* written to and the open file was the entry when it was opened.  What    *)
(* has been read is the beginning of it, unless it was rewritten after it  *)
(* was opened: then its time moved on, and if the name was not given away  *)
(* meanwhile, the metadata at the path will show that.                     *)
(***************************************************************************)
USE OptionsAssumption

File == [kind : {"file", "link"}, bytes : Seq(Byte), mtime : Nat, birth : Nat]

\* Files are only ever added, and none is from the future.
FilesStand ==
    /\ files \in Seq(File) /\ now \in Nat
    /\ \A k \in DOMAIN files : files[k].mtime <= now
    /\ Len(files) >= 1
    /\ entry \in {NoFile} \cup 2..Len(files)

\* The open file is a regular file of the approved folder.
HandleStands ==
    /\ handle \in {NoFile} \cup 2..Len(files)
    /\ handle # NoFile => files[handle].kind = "file"
    /\ step \in {"prove", "begin", "read", "check"} => handle # NoFile

\* While nothing was moved, the open file has the name of the log.
NameStands ==
    "moved" \notin deeds =>
        /\ step = "open file" => ~swapped
        /\ handle # NoFile => entry = handle /\ ~swapped

Witnessed ==
    /\ stood \subseteq Seq(Byte)
    /\ Whole(files, entry) \subseteq stood
    /\ handle # NoFile => files[handle].bytes \in stood

Begins(s, t) == Len(s) <= Len(t) /\ \A i \in 1..Len(s) : s[i] = t[i]

\* The bytes read and the log as it was when opened both begin the open file.
Unspoilt ==
    \E w \in stood : /\ Len(w) = opened.size
                     /\ Begins(w, files[handle].bytes)
                     /\ Begins(bytes, files[handle].bytes)
ReadingStands ==
    /\ bytes \in Seq(Byte)
    /\ step \in {"read", "check"} =>
        /\ opened.mtime \in Nat /\ opened.mtime <= files[handle].mtime
        /\ Undisguised => Unspoilt \/ ("rewritten" \in deeds /\ opened.mtime < files[handle].mtime)

SnapshotStands == pass = "recheck" => \A f \in fingerprint : f.full = snapshot

SnapshotInv ==
    /\ FilesStand /\ HandleStands /\ NameStands /\ Witnessed /\ ReadingStands
    /\ SnapshotStands /\ AcceptedLogStoodWhole

\* What SnapshotInv speaks of.
state == <<files, entry, swapped, now, pass, step, handle, opened, bytes, fingerprint, snapshot, stood, deeds>>

LEMMA Unchanged == SnapshotInv /\ UNCHANGED state => SnapshotInv'
<1> SUFFICES ASSUME SnapshotInv, UNCHANGED state PROVE SnapshotInv'
  OBVIOUS
<1> USE DEF SnapshotInv, state
<1>1. FilesStand' /\ HandleStands' /\ NameStands'
  BY DEF FilesStand, HandleStands, NameStands
<1>2. Witnessed'
  BY DEF Witnessed, Whole
<1>3. ReadingStands'
  <2>1. Undisguised' <=> Undisguised
    BY DEF Undisguised
  <2>2. Unspoilt' <=> Unspoilt
    BY DEF Unspoilt, Begins
  <2> QED
    BY <2>1, <2>2 DEF ReadingStands
<1>4. SnapshotStands' /\ AcceptedLogStoodWhole'
  BY DEF SnapshotStands, AcceptedLogStoodWhole, Undisguised
<1> QED
  BY <1>1, <1>2, <1>3, <1>4

LEMMA InitInv == Init => SnapshotInv
<1> SUFFICES ASSUME Init PROVE SnapshotInv
  OBVIOUS
<1> USE DEF Init
<1>1. PICK kept \in InitialLogs :
         files = <<[kind |-> "file", bytes |-> kept, mtime |-> 0, birth |-> 0],
                   [kind |-> "file", bytes |-> kept, mtime |-> 0, birth |-> 0]>>
  OBVIOUS
<1>2. kept \in Seq(Byte)
  BY DEF OptionsAssumption
<1>3. files \in Seq(File) /\ Len(files) = 2
  BY <1>1, <1>2 DEF File
<1>4. FilesStand
  BY <1>1, <1>3 DEF FilesStand, NoFile
<1>5. Witnessed
  BY <1>1, <1>2 DEF Witnessed, Whole, NoFile
<1> QED
  BY <1>4, <1>5 DEF SnapshotInv, HandleStands, NameStands, ReadingStands, SnapshotStands,
                    AcceptedLogStoodWhole, NoFile

-----------------------------------------------------------------------------
(***************************************************************************)
(* Writers.                                                                *)
(***************************************************************************)

\* The reader stands still while another writes.
Bystander == UNCHANGED <<now, pass, step, handle, opened, bytes, fingerprint, snapshot>>

LEMMA EntryStands ==
  ASSUME SnapshotInv, entry # NoFile
  PROVE  /\ entry \in DOMAIN files /\ entry \in 2..Len(files)
         /\ files[entry] \in File /\ files[entry].bytes \in Seq(Byte)
         /\ now \in Nat /\ files[entry].mtime \in Nat /\ files[entry].mtime <= now
<1>1. files \in Seq(File) /\ entry \in 2..Len(files) /\ now \in Nat
  BY DEF SnapshotInv, FilesStand
<1>2. entry \in DOMAIN files /\ files[entry] \in File
  BY <1>1
<1>3. files[entry].mtime <= now
  BY <1>2 DEF SnapshotInv, FilesStand
<1> QED
  BY <1>1, <1>2, <1>3 DEF File

\* The log is given other bytes and a time that is not earlier.
LEMMA Rewrite ==
  ASSUME SnapshotInv, Bystander, UNCHANGED <<entry, swapped>>, Recorded,
         entry # NoFile, files[entry].kind = "file", deeds \subseteq deeds',
         NEW kept \in Seq(Byte), NEW t \in Nat, t <= now, files[entry].mtime <= t,
         files' = [files EXCEPT ![entry].bytes = kept, ![entry].mtime = t]
  PROVE  /\ FilesStand' /\ HandleStands' /\ NameStands' /\ Witnessed'
         /\ SnapshotStands' /\ AcceptedLogStoodWhole'
         /\ files'[entry].bytes = kept /\ files'[entry].mtime = t
         /\ \A k \in DOMAIN files : k # entry => files'[k] = files[k]
<1> USE DEF Bystander
<1>1. /\ files \in Seq(File) /\ entry \in DOMAIN files /\ entry \in 2..Len(files)
      /\ DOMAIN files = 1..Len(files) /\ Len(files) \in Nat
  BY EntryStands DEF SnapshotInv, FilesStand
<1>2. files[entry] \in File
  BY EntryStands
<1>3. /\ files' \in Seq(File) /\ Len(files') = Len(files)
      /\ files'[entry] = [files[entry] EXCEPT !.bytes = kept, !.mtime = t]
      /\ \A k \in DOMAIN files : k # entry => files'[k] = files[k]
  <2> DEFINE f == [files[entry] EXCEPT !.bytes = kept, !.mtime = t]
  <2>1. f \in File
    BY <1>2 DEF File
  <2>2. files' = [files EXCEPT ![entry] = f]
    BY <1>1
  <2>3. /\ f = [files[entry] EXCEPT !.bytes = kept, !.mtime = t]
    OBVIOUS
  <2> HIDE DEF f
  <2>4. files' \in Seq(File) /\ Len(files') = Len(files)
    <3>1. files \in Seq(File) /\ entry \in 1..Len(files) /\ f \in File
      BY <1>1, <2>1
    <3>2. [files EXCEPT ![entry] = f] \in Seq(File) /\ Len([files EXCEPT ![entry] = f]) = Len(files)
      BY <3>1
    <3> QED
      BY <2>2, <3>2
  <2> QED
    BY <1>1, <2>2, <2>3, <2>4
<1>4. files'[entry].bytes = kept /\ files'[entry].mtime = t /\ files'[entry].kind = "file"
  BY <1>2, <1>3 DEF File
<1>5. FilesStand'
  BY <1>1, <1>3, <1>4 DEF SnapshotInv, FilesStand
<1>6. HandleStands'
  BY <1>1, <1>3, <1>4 DEF SnapshotInv, HandleStands, NoFile
<1>7. NameStands'
  BY DEF SnapshotInv, NameStands
<1>8. stood' = stood \cup {kept}
  BY <1>1, <1>4 DEF Recorded, Whole, NoFile
<1>9. Witnessed'
  BY <1>1, <1>3, <1>4, <1>8 DEF SnapshotInv, Witnessed, Whole, NoFile, HandleStands
<1>10. SnapshotStands' /\ AcceptedLogStoodWhole'
  BY <1>8 DEF SnapshotInv, SnapshotStands, AcceptedLogStoodWhole, Undisguised
<1> QED
  BY <1>3, <1>4, <1>5, <1>6, <1>7, <1>9, <1>10

LEMMA AppendStep == SnapshotInv /\ GameAppends => SnapshotInv'
<1> SUFFICES ASSUME SnapshotInv, GameAppends PROVE SnapshotInv'
  OBVIOUS
<1>1. PICK b \in Byte : files' = [files EXCEPT ![entry].bytes = Append(@, b), ![entry].mtime = now]
  BY DEF GameAppends
<1> DEFINE kept == Append(files[entry].bytes, b)
<1>2. /\ entry # NoFile /\ files[entry].kind = "file" /\ entry \in DOMAIN files /\ files[entry] \in File
      /\ now \in Nat /\ files[entry].mtime \in Nat /\ files[entry].mtime <= now
  BY EntryStands DEF GameAppends, IsLog, Meta
<1>3. kept \in Seq(Byte) /\ files[entry].bytes \in Seq(Byte)
  BY <1>2 DEF File
<1>4. Bystander /\ UNCHANGED <<entry, swapped>> /\ deeds' = deeds /\ Recorded
  BY DEF GameAppends, Write, Bystander, hashed, result
<1>5. files' = [files EXCEPT ![entry].bytes = kept, ![entry].mtime = now]
  BY <1>1
<1>6. /\ FilesStand' /\ HandleStands' /\ NameStands' /\ Witnessed'
      /\ SnapshotStands' /\ AcceptedLogStoodWhole'
      /\ files'[entry].bytes = kept /\ files'[entry].mtime = now
      /\ \A k \in DOMAIN files : k # entry => files'[k] = files[k]
  <2>1. deeds \subseteq deeds' /\ now <= now
    BY <1>2, <1>4
  <2> HIDE DEF kept
  <2> QED
    BY <1>2, <1>3, <1>4, <1>5, <2>1, Rewrite
<1>7. \A w \in Seq(Byte) : Begins(w, files[entry].bytes) => Begins(w, kept)
  BY <1>3 DEF Begins
<1>8. ReadingStands'
  <2>1. SUFFICES ASSUME step \in {"read", "check"}
                 PROVE  ReadingStands'
    BY <1>4 DEF SnapshotInv, ReadingStands, Bystander
  <2>2. CASE handle = entry
    <3>1. ASSUME Unspoilt PROVE Unspoilt'
      <4>1. PICK w \in stood : /\ Len(w) = opened.size
                               /\ Begins(w, files[entry].bytes) /\ Begins(bytes, files[entry].bytes)
        BY <2>2, <3>1 DEF Unspoilt
      <4>2. w \in Seq(Byte) /\ bytes \in Seq(Byte) /\ w \in stood'
        BY <1>4 DEF SnapshotInv, Witnessed, ReadingStands, Recorded
      <4>3. Begins(w, kept) /\ Begins(bytes, kept)
        BY <1>7, <4>1, <4>2
      <4> QED
        BY <1>4, <1>6, <2>2, <4>1, <4>2, <4>3 DEF Unspoilt, Bystander, Begins
    <3>2. Undisguised' <=> Undisguised
      BY <1>4 DEF Undisguised
    <3>3. opened.mtime \in Nat /\ opened.mtime <= files[entry].mtime /\ files'[handle].mtime = now
      BY <1>6, <2>1, <2>2 DEF SnapshotInv, ReadingStands
    <3>4. /\ opened.mtime <= files'[handle].mtime
          /\ opened.mtime < files[handle].mtime => opened.mtime < files'[handle].mtime
      BY <1>2, <2>2, <3>3
    <3> QED
      BY <1>4, <2>1, <3>1, <3>2, <3>3, <3>4 DEF SnapshotInv, ReadingStands, Bystander
  <2>3. CASE handle # entry
    <3>1. files'[handle] = files[handle]
      BY <1>6, <2>1, <2>3 DEF SnapshotInv, HandleStands, FilesStand, NoFile
    <3>2. Unspoilt => Unspoilt'
      BY <1>4, <3>1 DEF Unspoilt, Begins, Bystander, Recorded
    <3> QED
      BY <1>4, <3>1, <3>2 DEF SnapshotInv, ReadingStands, Undisguised, Bystander
  <2> QED
    BY <2>2, <2>3
<1> QED
  BY <1>6, <1>8 DEF SnapshotInv

LEMMA RewriteStep == SnapshotInv /\ RewrittenInPlace => SnapshotInv'
<1> SUFFICES ASSUME SnapshotInv, RewrittenInPlace PROVE SnapshotInv'
  OBVIOUS
<1>1. PICK kept \in Rewrites, t \in {now, files[entry].mtime} :
         /\ files' = [files EXCEPT ![entry].bytes = kept, ![entry].mtime = t]
         /\ deeds' = deeds \cup {IF t = files[entry].mtime THEN "hidden" ELSE "rewritten"}
  BY DEF RewrittenInPlace
<1>2. /\ entry # NoFile /\ files[entry].kind = "file" /\ entry \in DOMAIN files /\ files[entry] \in File
      /\ now \in Nat /\ files[entry].mtime <= now /\ files[entry].mtime \in Nat
  BY EntryStands DEF RewrittenInPlace, IsLog, Meta
<1>3. kept \in Seq(Byte) /\ t \in Nat /\ t <= now /\ files[entry].mtime <= t
  BY <1>2 DEF OptionsAssumption
<1>4. Bystander /\ UNCHANGED <<entry, swapped>> /\ Recorded
  BY DEF RewrittenInPlace, Write, Bystander, hashed, result
<1>5. /\ FilesStand' /\ HandleStands' /\ NameStands' /\ Witnessed'
      /\ SnapshotStands' /\ AcceptedLogStoodWhole'
      /\ files'[entry].mtime = t
      /\ \A k \in DOMAIN files : k # entry => files'[k] = files[k]
  BY <1>1, <1>2, <1>3, <1>4, Rewrite
<1>6. ReadingStands'
  <2>1. SUFFICES ASSUME step \in {"read", "check"}
                 PROVE  ReadingStands'
    BY <1>4 DEF SnapshotInv, ReadingStands, Bystander
  <2>2. CASE handle = entry
    <3>1. opened.mtime \in Nat /\ opened.mtime <= files'[handle].mtime
      BY <1>2, <1>3, <1>5, <2>1, <2>2 DEF SnapshotInv, ReadingStands
    <3>2. Undisguised' => "rewritten" \in deeds' /\ opened.mtime < files'[handle].mtime
      BY <1>1, <1>2, <1>3, <1>5, <2>1, <2>2 DEF SnapshotInv, ReadingStands, Undisguised
    <3> QED
      BY <1>4, <3>1, <3>2 DEF SnapshotInv, ReadingStands, Bystander
  <2>3. CASE handle # entry
    <3>1. files'[handle] = files[handle]
      BY <1>5, <2>1, <2>3 DEF SnapshotInv, HandleStands, FilesStand, NoFile
    <3>2. ~Undisguised'
      BY <1>1, <2>1, <2>3 DEF SnapshotInv, NameStands, HandleStands, Undisguised
    <3> QED
      BY <1>4, <2>1, <3>1, <3>2 DEF SnapshotInv, ReadingStands, Bystander
  <2> QED
    BY <2>2, <2>3
<1> QED
  BY <1>5, <1>6 DEF SnapshotInv

\* Another file takes the name of the log: no file that was there is touched.
LEMMA TakenStep == SnapshotInv /\ NameIsTaken => SnapshotInv'
<1> SUFFICES ASSUME SnapshotInv, NameIsTaken PROVE SnapshotInv'
  OBVIOUS
<1>1. PICK kind \in {"file", "link"}, kept \in Rewrites, t \in 0..now :
         files' = Append(files, [kind |-> kind, bytes |-> kept, mtime |-> t, birth |-> now])
  BY DEF NameIsTaken
<1> DEFINE f == [kind |-> kind, bytes |-> kept, mtime |-> t, birth |-> now]
<1>2. files \in Seq(File) /\ now \in Nat /\ \A k \in DOMAIN files : files[k].mtime <= now
  BY DEF SnapshotInv, FilesStand
<1>3. f \in File /\ f.mtime <= now /\ f.bytes \in Seq(Byte)
  BY <1>2 DEF File, OptionsAssumption
<1>4. /\ Bystander /\ UNCHANGED swapped /\ entry' = Len(files') /\ Recorded
      /\ deeds' = deeds \cup {"moved"}
  BY DEF NameIsTaken, Write, Bystander, hashed, result
<1>5. files' = Append(files, f)
  BY <1>1
<1> HIDE DEF f
<1>6. /\ files' \in Seq(File) /\ Len(files') = Len(files) + 1
      /\ files'[Len(files) + 1] = f
      /\ \A k \in 1..Len(files) : files'[k] = files[k]
  BY <1>2, <1>3, <1>5
<1>7. DOMAIN files = 1..Len(files) /\ DOMAIN files' = 1..(Len(files) + 1) /\ Len(files) \in Nat
  BY <1>2, <1>6
<1>8. Len(files) >= 1
  BY DEF SnapshotInv, FilesStand
<1>9. FilesStand'
  BY <1>2, <1>3, <1>4, <1>6, <1>7, <1>8 DEF FilesStand, Bystander, NoFile
<1>10. handle # NoFile => handle \in 1..Len(files) /\ files'[handle] = files[handle]
  BY <1>6, <1>7 DEF SnapshotInv, HandleStands
<1>11. HandleStands' /\ NameStands'
  <2>1. handle' \in {NoFile} \cup 2..Len(files')
    BY <1>4, <1>6, <1>7 DEF SnapshotInv, HandleStands, Bystander
  <2>2. HandleStands'
    BY <1>4, <1>10, <2>1 DEF SnapshotInv, HandleStands, Bystander
  <2>3. NameStands'
    BY <1>4 DEF NameStands
  <2> QED
    BY <2>2, <2>3
<1>12. Witnessed'
  <2>1. Whole(files', entry') \subseteq Seq(Byte)
    BY <1>3, <1>4, <1>6 DEF Whole
  <2> QED
    BY <1>4, <1>10, <2>1 DEF SnapshotInv, Witnessed, Recorded, Bystander
<1>13. ReadingStands'
  <2>1. SUFFICES ASSUME step \in {"read", "check"} PROVE ReadingStands'
    BY <1>4 DEF SnapshotInv, ReadingStands, Bystander
  <2>2. files'[handle] = files[handle]
    BY <1>10, <2>1 DEF SnapshotInv, HandleStands
  <2>3. Undisguised' => Undisguised
    BY <1>4 DEF Undisguised
  <2>4. Unspoilt => Unspoilt'
    BY <1>4, <2>2 DEF Unspoilt, Begins, Bystander, Recorded
  <2> QED
    BY <1>4, <2>1, <2>2, <2>3, <2>4 DEF SnapshotInv, ReadingStands, Bystander
<1>14. SnapshotStands' /\ AcceptedLogStoodWhole'
  BY <1>4 DEF SnapshotInv, SnapshotStands, AcceptedLogStoodWhole, Undisguised, Bystander, Recorded
<1> QED
  BY <1>9, <1>11, <1>12, <1>13, <1>14 DEF SnapshotInv

\* The name or the folder of the log changes, and no file.
LEMMA NameStep == SnapshotInv /\ (Removed \/ FolderSwapped) => SnapshotInv'
<1> SUFFICES ASSUME SnapshotInv, Removed \/ FolderSwapped PROVE SnapshotInv'
  OBVIOUS
<1>1. /\ Bystander /\ UNCHANGED <<files, stood>> /\ deeds' = deeds \cup {"moved"}
      /\ entry' \in {NoFile, entry}
  BY DEF Removed, FolderSwapped, Write, Bystander, hashed, result
<1>2. FilesStand' /\ HandleStands' /\ NameStands'
  BY <1>1 DEF SnapshotInv, FilesStand, HandleStands, NameStands, Bystander
<1>3. Witnessed'
  BY <1>1 DEF SnapshotInv, Witnessed, Whole, Bystander
<1>4. Undisguised' => Undisguised
  BY <1>1 DEF Undisguised
<1>5. Unspoilt' <=> Unspoilt
  BY <1>1 DEF Unspoilt, Begins, Bystander
<1>6. ReadingStands' /\ SnapshotStands' /\ AcceptedLogStoodWhole'
  BY <1>1, <1>4, <1>5 DEF SnapshotInv, ReadingStands, SnapshotStands, AcceptedLogStoodWhole, Bystander
<1> QED
  BY <1>2, <1>3, <1>6 DEF SnapshotInv

LEMMA TickStep == SnapshotInv /\ Tick => SnapshotInv'
<1> SUFFICES ASSUME SnapshotInv, Tick PROVE SnapshotInv'
  OBVIOUS
<1>1. /\ UNCHANGED <<files, entry, swapped, pass, step, handle, opened, bytes, fingerprint,
                     snapshot, stood, deeds>>
      /\ now' = now + 1
  BY DEF Tick, hashed, result
<1>2. FilesStand'
  <2>1. now \in Nat /\ files \in Seq(File) /\ \A k \in DOMAIN files : files[k] \in File
    BY DEF SnapshotInv, FilesStand
  <2> QED
    BY <1>1, <2>1 DEF SnapshotInv, FilesStand, File
<1>3. HandleStands' /\ NameStands' /\ Witnessed'
  BY <1>1 DEF SnapshotInv, HandleStands, NameStands, Witnessed, Whole
<1>4. (Undisguised' <=> Undisguised) /\ (Unspoilt' <=> Unspoilt)
  BY <1>1 DEF Undisguised, Unspoilt, Begins
<1>5. ReadingStands' /\ SnapshotStands' /\ AcceptedLogStoodWhole'
  BY <1>1, <1>4 DEF SnapshotInv, ReadingStands, SnapshotStands, AcceptedLogStoodWhole
<1> QED
  BY <1>2, <1>3, <1>5 DEF SnapshotInv

-----------------------------------------------------------------------------
(***************************************************************************)
(* The reader.                                                             *)
(***************************************************************************)
Known == <<files, entry, swapped, now, pass, fingerprint, snapshot, stood, deeds>>

LEMMA HandleFile ==
  ASSUME SnapshotInv, handle # NoFile
  PROVE  /\ handle \in DOMAIN files /\ handle \in 2..Len(files)
         /\ files[handle] \in File /\ files[handle].kind = "file"
         /\ files[handle].bytes \in Seq(Byte) /\ files[handle].mtime \in Nat
<1>1. files \in Seq(File) /\ handle \in 2..Len(files) /\ files[handle].kind = "file"
  BY DEF SnapshotInv, FilesStand, HandleStands
<1>2. handle \in DOMAIN files /\ files[handle] \in File
  BY <1>1
<1> QED
  BY <1>1, <1>2 DEF File

\* A refusal, a cancellation and the end of the parser leave everything else.
LEMMA OutcomeStep ==
  SnapshotInv /\ (Refuse \/ Cancel \/ ParseFails \/ ParseCancelled) => SnapshotInv'
<1> SUFFICES ASSUME SnapshotInv, Refuse \/ Cancel \/ ParseFails \/ ParseCancelled PROVE SnapshotInv'
  OBVIOUS
<1>1. UNCHANGED state
  BY DEF Refuse, Cancel, ParseFails, ParseCancelled, ParseEnds, state, world, hashed
<1> QED
  BY <1>1, Unchanged

\* The steps up to the reading.
LEMMA OpeningStep ==
  SnapshotInv /\ (Look \/ LookAgain \/ OpenFolder \/ OpenFile \/ Prove) => SnapshotInv'
<1> SUFFICES ASSUME SnapshotInv, Look \/ LookAgain \/ OpenFolder \/ OpenFile \/ Prove, ~Refuse
             PROVE  SnapshotInv'
  BY OutcomeStep
<1>1. /\ UNCHANGED Known /\ UNCHANGED bytes
      /\ \/ step' \in {"look again", "open folder"} /\ UNCHANGED handle
         \/ step' = "open file" /\ ~swapped /\ UNCHANGED handle
         \/ step = "open file" /\ step' = "prove" /\ IsLog(entry) /\ handle' = entry
         \/ step = "prove" /\ step' = "begin" /\ UNCHANGED handle
  BY DEF Look, LookAgain, OpenFolder, OpenFile, Prove, Reader, Moved, Known, world, hashed, result
<1>2. step' \notin {"read", "check", "ended"}
  BY <1>1
<1>3. FilesStand'
  BY <1>1 DEF SnapshotInv, FilesStand, Known
<1>4. HandleStands' /\ NameStands' /\ Witnessed'
  <2>1. CASE UNCHANGED handle
    <3>1. HandleStands' /\ NameStands'
      BY <1>1, <2>1, <1>2 DEF SnapshotInv, HandleStands, NameStands, Known, IsLog
    <3>2. Witnessed'
      BY <1>1, <2>1 DEF SnapshotInv, Witnessed, Whole, Known
    <3> QED
      BY <3>1, <3>2
  <2>2. CASE step = "open file" /\ step' = "prove" /\ IsLog(entry) /\ handle' = entry
    <3>1. entry # NoFile /\ files[entry].kind = "file" /\ entry \in 2..Len(files)
      BY <2>2, EntryStands DEF IsLog, Meta
    <3>2. HandleStands' /\ NameStands'
      BY <1>1, <2>2, <3>1 DEF SnapshotInv, HandleStands, NameStands, Known
    <3>3. Witnessed'
      BY <1>1, <2>2, <3>1 DEF SnapshotInv, Witnessed, Whole, Known
    <3> QED
      BY <3>2, <3>3
  <2> QED
    BY <1>1, <2>1, <2>2
<1>5. ReadingStands' /\ SnapshotStands' /\ AcceptedLogStoodWhole'
  BY <1>1, <1>2 DEF SnapshotInv, ReadingStands, SnapshotStands, AcceptedLogStoodWhole, Known
<1> QED
  BY <1>3, <1>4, <1>5 DEF SnapshotInv

\* Reading moves neither the file nor the name.
LEMMA HeldStill ==
  ASSUME SnapshotInv, UNCHANGED Known, UNCHANGED handle, handle # NoFile,
         step' \in {"read", "check"}, ReadingStands'
  PROVE  SnapshotInv'
<1>1. FilesStand' /\ HandleStands' /\ NameStands'
  BY DEF SnapshotInv, FilesStand, HandleStands, NameStands, Known
<1>2. Witnessed' /\ SnapshotStands' /\ AcceptedLogStoodWhole'
  BY DEF SnapshotInv, Witnessed, Whole, SnapshotStands, AcceptedLogStoodWhole, Known
<1> QED
  BY <1>1, <1>2 DEF SnapshotInv

LEMMA BeginStep == SnapshotInv /\ Begin => SnapshotInv'
<1> SUFFICES ASSUME SnapshotInv, Begin, ~Refuse PROVE SnapshotInv'
  BY OutcomeStep
<1>1. /\ UNCHANGED Known /\ UNCHANGED handle /\ step = "begin" /\ step' = "read"
      /\ opened' = Meta(handle) /\ bytes' = <<>>
  BY DEF Begin, Reader, Moved, Known, world, result
<1>2. handle # NoFile
  BY <1>1 DEF SnapshotInv, HandleStands
<1>3. files[handle].bytes \in Seq(Byte) /\ files[handle].mtime \in Nat
  BY <1>2, HandleFile
<1>4. files[handle].bytes \in stood
  BY <1>2 DEF SnapshotInv, Witnessed
<1>5. Begins(files[handle].bytes, files[handle].bytes) /\ Begins(<<>>, files[handle].bytes)
  BY <1>3 DEF Begins
<1>6. Unspoilt'
  BY <1>1, <1>3, <1>4, <1>5 DEF Unspoilt, Begins, Known, Meta
<1>7. ReadingStands'
  BY <1>1, <1>3, <1>6 DEF ReadingStands, Known, Meta
<1> QED
  BY <1>1, <1>2, <1>7, HeldStill

LEMMA Joined ==
  \A s, t \in Seq(Byte) :
     /\ s \o t \in Seq(Byte) /\ Len(s \o t) = Len(s) + Len(t)
     /\ \A i \in 1..Len(s) + Len(t) :
           (s \o t)[i] = IF i <= Len(s) THEN s[i] ELSE t[i - Len(s)]
BY ConcatProperties

LEMMA ReadStep == SnapshotInv /\ Read => SnapshotInv'
<1> SUFFICES ASSUME SnapshotInv, Read PROVE SnapshotInv'
  OBVIOUS
<1>1. PICK n \in 1..BufferBytes :
         /\ Len(bytes) + n <= Len(files[handle].bytes)
         /\ bytes' = bytes \o SubSeq(files[handle].bytes, Len(bytes) + 1, Len(bytes) + n)
  BY DEF Read
<1>2. UNCHANGED Known /\ UNCHANGED <<handle, opened>> /\ step = "read" /\ step' = "read"
  BY DEF Read, Reader, Moved, Known, world, result
<1>3. handle # NoFile
  BY <1>2 DEF SnapshotInv, HandleStands
<1> DEFINE kept == files[handle].bytes
           chunk == SubSeq(kept, Len(bytes) + 1, Len(bytes) + n)
<1>4. kept \in Seq(Byte) /\ bytes \in Seq(Byte) /\ Len(bytes) \in Nat /\ n \in Nat \ {0}
  BY <1>3, HandleFile DEF SnapshotInv, ReadingStands, OptionsAssumption
<1> HIDE DEF kept
<1>5. /\ chunk \in Seq(Byte) /\ Len(chunk) = n
      /\ \A i \in 1..n : chunk[i] = kept[Len(bytes) + i]
  BY <1>1, <1>4 DEF kept
<1> HIDE DEF chunk
<1>6. /\ bytes' \in Seq(Byte) /\ Len(bytes') = Len(bytes) + n
      /\ \A i \in 1..Len(bytes) : bytes'[i] = bytes[i]
      /\ \A i \in Len(bytes) + 1..Len(bytes) + n : bytes'[i] = kept[i]
  <2>1. bytes' = bytes \o chunk
    BY <1>1 DEF chunk, kept
  <2>2. /\ bytes' \in Seq(Byte) /\ Len(bytes') = Len(bytes) + n
        /\ \A i \in 1..Len(bytes) + n :
              bytes'[i] = IF i <= Len(bytes) THEN bytes[i] ELSE chunk[i - Len(bytes)]
    <3>1. /\ bytes \o chunk \in Seq(Byte) /\ Len(bytes \o chunk) = Len(bytes) + Len(chunk)
          /\ \A i \in 1..Len(bytes) + Len(chunk) :
                (bytes \o chunk)[i] = IF i <= Len(bytes) THEN bytes[i] ELSE chunk[i - Len(bytes)]
      BY <1>4, <1>5, Joined, Zenon
    <3> QED
      BY <1>5, <2>1, <3>1, Zenon
  <2> DEFINE m == Len(bytes)
  <2>3. m \in Nat /\ n \in Nat
    BY <1>4
  <2>4. /\ \A i \in 1..m + n : bytes'[i] = IF i <= m THEN bytes[i] ELSE chunk[i - m]
        /\ \A i \in 1..n : chunk[i] = kept[m + i]
    BY <1>5, <2>2
  <2> HIDE DEF m
  <2>5. \A i \in 1..m : bytes'[i] = bytes[i]
    BY <2>3, <2>4
  <2>6. \A i \in m + 1..m + n : i - m \in 1..n /\ m + (i - m) = i /\ ~(i <= m) /\ i \in 1..m + n
    BY <2>3
  <2>7. \A i \in m + 1..m + n : bytes'[i] = kept[i]
    BY <2>4, <2>6, Zenon
  <2> QED
    BY <2>2, <2>5, <2>7 DEF m
<1>7. Begins(bytes, kept) => Begins(bytes', kept)
  BY <1>1, <1>4, <1>6 DEF Begins, kept
<1>8. Unspoilt => Unspoilt'
  BY <1>2, <1>7 DEF Unspoilt, Known, kept, Begins
<1>9. Undisguised' <=> Undisguised
  BY <1>2 DEF Undisguised, Known
<1>10. ReadingStands'
  BY <1>2, <1>6, <1>8, <1>9 DEF SnapshotInv, ReadingStands, Known
<1> QED
  BY <1>2, <1>3, <1>10, HeldStill

LEMMA EndStep == SnapshotInv /\ EndOfFile => SnapshotInv'
<1> SUFFICES ASSUME SnapshotInv, EndOfFile PROVE SnapshotInv'
  OBVIOUS
<1>1. /\ UNCHANGED Known /\ UNCHANGED <<handle, opened, bytes>>
      /\ step = "read" /\ step' = "check"
  BY DEF EndOfFile, Unread, Reader, Moved, Known, world, result, hashed
<1>2. (Unspoilt' <=> Unspoilt) /\ (Undisguised' <=> Undisguised)
  BY <1>1 DEF Unspoilt, Undisguised, Begins, Known
<1>3. handle # NoFile /\ ReadingStands'
  BY <1>1, <1>2 DEF SnapshotInv, HandleStands, ReadingStands, Known
<1> QED
  BY <1>1, <1>3, HeldStill

\* Two beginnings of the same length are equal.
LEMMA SameBeginning ==
  ASSUME NEW s \in Seq(Byte), NEW w \in Seq(Byte), NEW t \in Seq(Byte),
         Begins(s, t), Begins(w, t), Len(s) = Len(w)
  PROVE  s = w
BY SeqEqual DEF Begins

\* What was read whole, with the metadata it was opened with still at the open
\* file or at the path, is a state of the log.
LEMMA ReadWhole ==
  ASSUME SnapshotInv, step = "check", Undisguised, Len(bytes) = opened.size,
         \/ opened.mtime = files[handle].mtime
         \/ AtPath # NoFile /\ opened.mtime = files[AtPath].mtime
  PROVE  bytes \in stood
<1>1. handle # NoFile
  BY DEF SnapshotInv, HandleStands
<1>2. files[handle].bytes \in Seq(Byte) /\ files[handle].mtime \in Nat
  BY <1>1, HandleFile
<1>3. opened.mtime \in Nat
  BY DEF SnapshotInv, ReadingStands
<1>4. Unspoilt
  <2>1. SUFFICES ASSUME "rewritten" \in deeds, opened.mtime < files[handle].mtime
                 PROVE  FALSE
    BY DEF SnapshotInv, ReadingStands
  <2>2. "moved" \notin deeds
    BY <2>1 DEF Undisguised
  <2>3. AtPath = handle
    BY <1>1, <2>2 DEF SnapshotInv, NameStands, AtPath
  <2> QED
    BY <1>2, <1>3, <2>1, <2>3
<1>5. PICK w \in stood : /\ Len(w) = opened.size
                         /\ Begins(w, files[handle].bytes) /\ Begins(bytes, files[handle].bytes)
  BY <1>4 DEF Unspoilt
<1>6. w \in Seq(Byte) /\ bytes \in Seq(Byte)
  BY DEF SnapshotInv, Witnessed, ReadingStands
<1>7. bytes = w
  BY <1>2, <1>5, <1>6, SameBeginning
<1> QED
  BY <1>7

\* A pass that accepts the log ends with it.
LEMMA Accepted ==
  ASSUME SnapshotInv, step' = "ended",
         UNCHANGED <<files, entry, swapped, now, pass, handle, opened, bytes, stood, deeds>>,
         SnapshotStands', AcceptedLogStoodWhole'
  PROVE  SnapshotInv'
<1>1. FilesStand' /\ HandleStands' /\ NameStands' /\ Witnessed'
  BY DEF SnapshotInv, FilesStand, HandleStands, NameStands, Witnessed, Whole
<1>2. ReadingStands'
  BY DEF SnapshotInv, ReadingStands
<1> QED
  BY <1>1, <1>2 DEF SnapshotInv

LEMMA StageStep == SnapshotInv /\ StageFingerprint => SnapshotInv'
<1> SUFFICES ASSUME SnapshotInv, StageFingerprint, ~Refuse PROVE SnapshotInv'
  BY OutcomeStep
<1>1. /\ UNCHANGED <<files, entry, swapped, now, pass, handle, opened, bytes, stood, deeds>>
      /\ step = "check" /\ pass = "stage" /\ step' = "ended" /\ fingerprint' = {Fingerprint}
      /\ FingerprintHolds
  BY DEF StageFingerprint, Reader, world, hashed
<1>2. Undisguised => bytes \in stood
  BY <1>1, ReadWhole DEF FingerprintHolds, SameObservation, Meta
<1>3. \A f \in fingerprint' : f.full = bytes
  BY <1>1 DEF Fingerprint
<1>4. SnapshotStands' /\ AcceptedLogStoodWhole'
  BY <1>1, <1>2, <1>3 DEF SnapshotStands, AcceptedLogStoodWhole, Undisguised
<1> QED
  BY <1>1, <1>4, Accepted

LEMMA KeepStep == SnapshotInv /\ KeepSnapshot => SnapshotInv'
<1> SUFFICES ASSUME SnapshotInv, KeepSnapshot, ~Refuse PROVE SnapshotInv'
  BY OutcomeStep
<1>1. /\ UNCHANGED <<files, entry, swapped, now, pass, handle, opened, bytes, fingerprint, stood, deeds>>
      /\ step = "check" /\ pass = "copy" /\ step' = "ended" /\ snapshot' = bytes
      /\ CopyHolds
  BY DEF KeepSnapshot, Reader, world, hashed
<1>2. \A f \in fingerprint : f.full = bytes /\ (Undisguised => bytes \in stood)
  <2>1. TAKE f \in fingerprint
  <2>2. /\ bytes = f.full /\ Len(bytes) = opened.size /\ opened.mtime = files[handle].mtime
    BY <1>1 DEF CopyHolds, SameObservation, MatchesFingerprint, Meta
  <2> QED
    BY <1>1, <2>2, ReadWhole
<1>3. SnapshotStands' /\ AcceptedLogStoodWhole'
  BY <1>1, <1>2 DEF SnapshotStands, AcceptedLogStoodWhole, Undisguised
<1> QED
  BY <1>1, <1>3, Accepted

LEMMA AcceptStep == SnapshotInv /\ AcceptParsed => SnapshotInv'
<1> SUFFICES ASSUME SnapshotInv, AcceptParsed, ~Refuse PROVE SnapshotInv'
  BY OutcomeStep
<1>1. /\ UNCHANGED <<files, entry, swapped, now, pass, handle, opened, bytes, fingerprint,
                     snapshot, stood, deeds>>
      /\ step = "check" /\ pass = "recheck" /\ step' = "ended"
      /\ FingerprintHolds /\ StillStaged
  BY DEF AcceptParsed, Reader, world, hashed
<1>2. Undisguised => bytes \in stood
  BY <1>1, ReadWhole DEF FingerprintHolds, SameObservation, Meta
<1>3. \A f \in fingerprint : f.full = bytes /\ f.full = snapshot
  BY <1>1 DEF StillStaged, SnapshotInv, SnapshotStands
<1>4. SnapshotStands' /\ AcceptedLogStoodWhole'
  BY <1>1, <1>2, <1>3 DEF SnapshotStands, AcceptedLogStoodWhole, Undisguised
<1> QED
  BY <1>1, <1>4, Accepted

\* A new pass starts with the log as it is now.
LEMMA PassStep == SnapshotInv /\ (OpenAgain \/ Parse) => SnapshotInv'
<1> SUFFICES ASSUME SnapshotInv, OpenAgain \/ Parse PROVE SnapshotInv'
  OBVIOUS
<1>1. /\ UNCHANGED <<files, entry, swapped, now, fingerprint, snapshot>>
      /\ handle' = NoFile /\ bytes' = <<>> /\ stood' = Whole(files, entry)
      /\ step' \in {"look again", "look"}
      /\ pass' = "recheck" => step = "ended" /\ pass = "copy"
  BY DEF OpenAgain, Parse, NextPass, Reader, world, result
<1>2. FilesStand' /\ HandleStands' /\ NameStands'
  BY <1>1 DEF SnapshotInv, FilesStand, HandleStands, NameStands
<1>3. Witnessed'
  <2>1. Whole(files, entry) \subseteq Seq(Byte)
    BY DEF SnapshotInv, Witnessed
  <2> QED
    BY <1>1, <2>1 DEF Witnessed, Whole
<1>4. ReadingStands'
  <2>1. bytes' \in Seq(Byte)
    <3>1. <<>> \in Seq(Byte)
      OBVIOUS
    <3> QED
      BY <1>1, <3>1
  <2>2. step' \notin {"read", "check"}
    BY <1>1
  <2> QED
    BY <2>1, <2>2 DEF ReadingStands
<1>5. SnapshotStands'
  BY <1>1 DEF SnapshotInv, SnapshotStands, AcceptedLogStoodWhole
<1>6. AcceptedLogStoodWhole'
  BY <1>1 DEF AcceptedLogStoodWhole
<1> QED
  BY <1>2, <1>3, <1>4, <1>5, <1>6 DEF SnapshotInv

LEMMA InvStep == SnapshotInv /\ [Next]_vars => SnapshotInv'
<1> SUFFICES ASSUME SnapshotInv, [Next]_vars PROVE SnapshotInv'
  OBVIOUS
<1>1. CASE Others
  BY <1>1, AppendStep, TakenStep, RewriteStep, NameStep, TickStep DEF Others
<1>2. CASE Look \/ LookAgain \/ OpenFolder \/ OpenFile \/ Prove
  BY <1>2, OpeningStep
<1>3. CASE Begin \/ Read \/ EndOfFile
  BY <1>3, BeginStep, ReadStep, EndStep
<1>4. CASE StageFingerprint \/ KeepSnapshot \/ AcceptParsed
  BY <1>4, StageStep, KeepStep, AcceptStep
<1>5. CASE OpenAgain \/ Parse
  BY <1>5, PassStep
<1>6. CASE ParseFails \/ ParseCancelled \/ Cancel
  BY <1>6, OutcomeStep
<1>7. CASE UNCHANGED vars
  BY <1>7, Unchanged DEF vars, state, world, hashed, result
<1> QED
  BY <1>1, <1>2, <1>3, <1>4, <1>5, <1>6, <1>7 DEF Next, Scan

-----------------------------------------------------------------------------
LEMMA Invariance == Spec => []SnapshotInv
BY InitInv, InvStep, PTL DEF Spec

\* What a pass accepts of a log (its fingerprint, its snapshot, the log counted
\* as parsed) is what the log held, whole, at one instant of that pass, and the
\* parser was given the fingerprinted bytes: for logs of any length, buffers of
\* any size and any number of writes by others between two steps.
THEOREM AcceptedLogsStood == Spec => []AcceptedLogStoodWhole
<1>1. SnapshotInv => AcceptedLogStoodWhole
  BY DEF SnapshotInv
<1> QED
  BY <1>1, Invariance, PTL

\* No byte is read but from a regular file of the approved folder, whenever and
\* however often the log and its folder are swapped.
THEOREM NothingOutside == Spec => []NothingOutsideIsRead
<1>1. SnapshotInv => NothingOutsideIsRead
  BY DEF SnapshotInv, HandleStands, NothingOutsideIsRead, Outside, NoFile, FilesStand
<1> QED
  BY <1>1, Invariance, PTL

-----------------------------------------------------------------------------
(***************************************************************************)
(* Partial digests.                                                        *)
(***************************************************************************)
ComparedSize == CHOOSE p \in Compared : TRUE

DigestsStand ==
    /\ previous \in PreviousSizes
    /\ step \in {"read", "check"} =>
        /\ prefix = First(bytes, PrefixBytes)
        /\ Compared # {} => comparison = First(bytes, ComparedSize)
    /\ PrefixesAreOfTheLog

LEMMA FirstProperties ==
  ASSUME NEW s \in Seq(Byte), NEW n \in Nat
  PROVE  /\ First(s, n) \in Seq(Byte)
         /\ Len(First(s, n)) = IF n <= Len(s) THEN n ELSE Len(s)
         /\ \A i \in 1..Len(First(s, n)) : First(s, n)[i] = s[i]
<1>1. CASE n <= Len(s)
  <2>1. First(s, n) = SubSeq(s, 1, n)
    BY <1>1 DEF First
  <2>2. \A i \in 1..n : s[i] \in Byte
    BY <1>1
  <2>3. /\ SubSeq(s, 1, n) \in Seq(Byte) /\ Len(SubSeq(s, 1, n)) = n
        /\ \A i \in 1..n : SubSeq(s, 1, n)[i] = s[i]
    BY <1>1, <2>2
  <2> QED
    BY <1>1, <2>1, <2>3
<1>2. CASE ~(n <= Len(s))
  BY <1>2 DEF First
<1> QED
  BY <1>1, <1>2

\* A hash that was fed the beginning of what was read so far, and is fed the
\* next chunk, has been fed the beginning of what is read then.
LEMMA FilledFirst ==
  ASSUME NEW s \in Seq(Byte), NEW c \in Seq(Byte), NEW n \in Nat
  PROVE  Filled(First(s, n), c, n) = First(s \o c, n)
<1> DEFINE taken == First(s, n)
           room  == IF Len(c) <= n - Len(taken) THEN Len(c) ELSE n - Len(taken)
           more  == SubSeq(c, 1, room)
           all   == s \o c
<1>1. /\ taken \in Seq(Byte) /\ Len(taken) = IF n <= Len(s) THEN n ELSE Len(s)
      /\ \A i \in 1..Len(taken) : taken[i] = s[i]
  BY FirstProperties
<1>2. /\ all \in Seq(Byte) /\ Len(all) = Len(s) + Len(c)
      /\ \A i \in 1..Len(s) + Len(c) : all[i] = IF i <= Len(s) THEN s[i] ELSE c[i - Len(s)]
  BY ConcatProperties
<1>3. Filled(taken, c, n) = taken \o more
  BY DEF Filled
<1>4. First(all, n) \in Seq(Byte)
      /\ Len(First(all, n)) = (IF n <= Len(all) THEN n ELSE Len(all))
      /\ \A i \in 1..Len(First(all, n)) : First(all, n)[i] = all[i]
  BY <1>2, FirstProperties
<1>5. Len(s) \in Nat /\ Len(c) \in Nat /\ Len(taken) \in Nat /\ room \in 0..Len(c)
  BY <1>1
<1> HIDE DEF taken
<1>6. \A i \in 1..room : c[i] \in Byte
  BY <1>5
<1> HIDE DEF room
<1>7. more \in Seq(Byte) /\ Len(more) = room /\ \A i \in 1..room : more[i] = c[i]
  BY <1>5, <1>6, SubSeqProperties
<1> HIDE DEF more, all
<1>8. /\ taken \o more \in Seq(Byte) /\ Len(taken \o more) = Len(taken) + Len(more)
      /\ \A i \in 1..Len(taken) + Len(more) :
            (taken \o more)[i] = IF i <= Len(taken) THEN taken[i] ELSE more[i - Len(taken)]
  BY <1>1, <1>7, Joined, Zenon
<1>9. Len(taken) + room = Len(First(all, n)) /\ (room > 0 => Len(taken) = Len(s))
  <2>1. CASE n <= Len(s)
    <3>1. Len(taken) = n /\ room = 0
      BY <1>1, <1>5, <2>1 DEF room
    <3>2. Len(First(all, n)) = n
      BY <1>2, <1>4, <1>5, <2>1
    <3> QED
      BY <3>1, <3>2
  <2>2. CASE ~(n <= Len(s))
    <3>1. Len(taken) = Len(s)
      BY <1>1, <2>2
    <3>2. room = IF Len(c) <= n - Len(s) THEN Len(c) ELSE n - Len(s)
      BY <3>1 DEF room
    <3>3. Len(First(all, n)) = IF n <= Len(s) + Len(c) THEN n ELSE Len(s) + Len(c)
      BY <1>2, <1>4
    <3> QED
      BY <1>5, <2>2, <3>1, <3>2, <3>3
  <2> QED
    BY <2>1, <2>2
<1>10. \A i \in 1..Len(taken) + room : (taken \o more)[i] = First(all, n)[i]
  <2>1. TAKE i \in 1..Len(taken) + room
  <2>2. /\ (taken \o more)[i] = IF i <= Len(taken) THEN taken[i] ELSE more[i - Len(taken)]
        /\ First(all, n)[i] = all[i] /\ i \in 1..Len(s) + Len(c)
    <3>1. i \in 1..Len(First(all, n)) /\ i \in 1..Len(taken) + Len(more)
      BY <1>7, <1>9
    <3>2. /\ (taken \o more)[i] = IF i <= Len(taken) THEN taken[i] ELSE more[i - Len(taken)]
          /\ First(all, n)[i] = all[i]
      BY <1>4, <1>8, <3>1
    <3>3. Len(First(all, n)) <= Len(s) + Len(c)
      BY <1>2, <1>4, <1>5
    <3>4. i \in 1..Len(s) + Len(c)
      BY <1>5, <1>9, <3>1, <3>3
    <3> QED
      BY <3>2, <3>4, Zenon
  <2>3. CASE i <= Len(taken)
    <3>1. i \in 1..Len(taken) /\ i <= Len(s)
      BY <1>1, <1>5, <2>3
    <3>2. taken[i] = s[i] /\ all[i] = s[i]
      BY <1>1, <1>2, <2>2, <3>1
    <3> QED
      BY <2>2, <2>3, <3>2
  <2>4. CASE ~(i <= Len(taken))
    <3>1. room > 0 /\ i - Len(taken) \in 1..room
      BY <1>5, <2>4
    <3>2. Len(taken) = Len(s)
      BY <1>9, <3>1
    <3>3. more[i - Len(taken)] = c[i - Len(s)] /\ all[i] = c[i - Len(s)]
      BY <1>2, <1>5, <1>7, <2>2, <2>4, <3>1, <3>2
    <3> QED
      BY <2>2, <2>4, <3>3
  <2> QED
    BY <2>3, <2>4
<1>11. taken \o more = First(all, n)
  BY <1>4, <1>7, <1>8, <1>9, <1>10, SeqEqual
<1> QED
  BY <1>3, <1>11 DEF taken, all

LEMMA ComparedIsSize ==
  previous \in PreviousSizes /\ Compared # {} =>
    pass = "stage" /\ ComparedSize \in Nat /\ Compared = {ComparedSize} /\ Compared = previous
<1> SUFFICES ASSUME previous \in PreviousSizes, Compared # {}
             PROVE  pass = "stage" /\ ComparedSize \in Nat /\ Compared = {ComparedSize}
                    /\ Compared = previous
  OBVIOUS
<1>1. pass = "stage" /\ Compared = previous /\ ComparedSize \in Compared
  BY DEF Compared, ComparedSize
<1>2. previous \subseteq Nat /\ \A m, n \in previous : m = n
  BY DEF OptionsAssumption
<1>3. ComparedSize \in Nat /\ \A m \in Compared : m = ComparedSize
  BY <1>1, <1>2, Zenon
<1>4. Compared = {ComparedSize}
  <2>1. \A m : m \in Compared <=> m = ComparedSize
    BY <1>1, <1>3
  <2> QED
    BY <2>1
<1> QED
  BY <1>1, <1>3, <1>4

\* Only the reading feeds the digests, and only the staging keeps them.
LEMMA DigestsUnread ==
  ASSUME DigestsStand, UNCHANGED <<previous, fingerprint>>,
         \/ step' \notin {"read", "check"}
         \/ /\ step' = step \/ (step = "read" /\ step' = "check")
            /\ UNCHANGED <<pass, bytes, prefix, comparison>>
  PROVE  DigestsStand'
<1>1. PrefixesAreOfTheLog' <=> PrefixesAreOfTheLog
  BY DEF PrefixesAreOfTheLog
<1>2. CASE step' \notin {"read", "check"}
  BY <1>1, <1>2 DEF DigestsStand
<1>3. CASE UNCHANGED <<pass, bytes, prefix, comparison>> /\ step \in {"read", "check"}
  BY <1>1, <1>3 DEF DigestsStand, Compared, ComparedSize
<1> QED
  BY <1>2, <1>3

LEMMA DigestsBegin == SnapshotInv /\ DigestsStand /\ Begin /\ ~Refuse => DigestsStand'
<1> SUFFICES ASSUME DigestsStand, Begin, ~Refuse PROVE DigestsStand'
  OBVIOUS
<1>1. /\ UNCHANGED <<previous, fingerprint, pass>>
      /\ bytes' = <<>> /\ prefix' = <<>> /\ comparison' = <<>>
  BY DEF Begin, Moved, result
<1>2. \A n \in Nat : First(<<>>, n) = <<>>
  <2>1. TAKE n \in Nat
  <2>2. SubSeq(<<>>, 1, 0) = <<>> /\ Len(<<>>) = 0
    OBVIOUS
  <2> QED
    BY <2>2 DEF First
<1>3. previous' \in PreviousSizes /\ PrefixesAreOfTheLog'
  BY <1>1 DEF DigestsStand, PrefixesAreOfTheLog
<1>4. prefix' = First(bytes', PrefixBytes)
  BY <1>1, <1>2 DEF OptionsAssumption
<1>5. Compared' # {} => comparison' = First(bytes', ComparedSize')
  <2>1. Compared' = Compared /\ ComparedSize' = ComparedSize
    BY <1>1 DEF Compared, ComparedSize
  <2>2. Compared # {} => ComparedSize \in Nat
    BY ComparedIsSize DEF DigestsStand
  <2> QED
    BY <1>1, <1>2, <2>1, <2>2
<1> QED
  BY <1>3, <1>4, <1>5 DEF DigestsStand

LEMMA DigestsRead == SnapshotInv /\ DigestsStand /\ Read => DigestsStand'
<1> SUFFICES ASSUME SnapshotInv, DigestsStand, Read PROVE DigestsStand'
  OBVIOUS
<1> DEFINE kept == files[handle].bytes
           chunk(n) == SubSeq(kept, Len(bytes) + 1, Len(bytes) + n)
<1>1. /\ UNCHANGED <<previous, fingerprint, pass>> /\ step = "read"
      /\ \E n \in 1..BufferBytes :
            /\ Len(bytes) + n <= Len(kept)
            /\ bytes' = bytes \o chunk(n)
            /\ prefix' = Filled(prefix, chunk(n), PrefixBytes)
            /\ comparison' = IF Compared = {} THEN <<>>
                             ELSE Filled(comparison, chunk(n), ComparedSize)
  BY DEF Read, Reader, Moved, result, ComparedSize
<1>2. kept \in Seq(Byte) /\ bytes \in Seq(Byte)
  BY <1>1, HandleFile DEF SnapshotInv, HandleStands, ReadingStands
<1> HIDE DEF kept
<1>3. PICK c \in Seq(Byte) :
         /\ bytes' = bytes \o c
         /\ prefix' = Filled(prefix, c, PrefixBytes)
         /\ Compared # {} => comparison' = Filled(comparison, c, ComparedSize)
  <2>1. PICK n \in 1..BufferBytes :
            /\ Len(bytes) + n <= Len(kept)
            /\ bytes' = bytes \o chunk(n)
            /\ prefix' = Filled(prefix, chunk(n), PrefixBytes)
            /\ comparison' = IF Compared = {} THEN <<>>
                             ELSE Filled(comparison, chunk(n), ComparedSize)
    BY <1>1
  <2>2. chunk(n) \in Seq(Byte)
    BY <1>2, <2>1 DEF OptionsAssumption
  <2> QED
    BY <2>1, <2>2
<1>4. previous' \in PreviousSizes /\ PrefixesAreOfTheLog'
  BY <1>1 DEF DigestsStand, PrefixesAreOfTheLog
<1>5. prefix' = First(bytes', PrefixBytes)
  <2>1. PrefixBytes \in Nat
    BY DEF OptionsAssumption
  <2>2. Filled(First(bytes, PrefixBytes), c, PrefixBytes) = First(bytes \o c, PrefixBytes)
    BY <1>2, <2>1, FilledFirst
  <2>3. prefix = First(bytes, PrefixBytes)
    BY <1>1 DEF DigestsStand
  <2> QED
    BY <1>3, <2>2, <2>3
<1>6. Compared' # {} => comparison' = First(bytes', ComparedSize')
  <2>1. Compared' = Compared /\ ComparedSize' = ComparedSize
    BY <1>1 DEF Compared, ComparedSize
  <2>2. Compared # {} => ComparedSize \in Nat
    BY ComparedIsSize DEF DigestsStand
  <2> QED
    <3>1. SUFFICES ASSUME Compared # {}
                   PROVE  comparison' = First(bytes', ComparedSize)
      BY <2>1
    <3>2. Filled(First(bytes, ComparedSize), c, ComparedSize) = First(bytes \o c, ComparedSize)
      BY <1>2, <2>2, <3>1, FilledFirst
    <3>3. comparison = First(bytes, ComparedSize)
      BY <1>1, <3>1 DEF DigestsStand
    <3> QED
      BY <1>3, <3>1, <3>2, <3>3
<1> QED
  BY <1>4, <1>5, <1>6 DEF DigestsStand

LEMMA DigestsStage == SnapshotInv /\ DigestsStand /\ StageFingerprint /\ ~Refuse => DigestsStand'
<1> SUFFICES ASSUME SnapshotInv, DigestsStand, StageFingerprint, ~Refuse PROVE DigestsStand'
  OBVIOUS
<1>1. /\ UNCHANGED previous /\ fingerprint' = {Fingerprint} /\ step' = "ended"
      /\ step = "check" /\ pass = "stage" /\ Len(bytes) = opened.size
  BY DEF StageFingerprint, Reader, FingerprintHolds
<1>2. Compared = previous /\ previous \in PreviousSizes
  BY <1>1 DEF Compared, DigestsStand
<1>3. /\ Fingerprint.prefix = First(Fingerprint.full, PrefixBytes)
      /\ Len(Fingerprint.full) = Fingerprint.size
  BY <1>1 DEF DigestsStand, Fingerprint
<1>4. Fingerprint.comparison =
        {First(Fingerprint.full, n) : n \in {p \in previous : p <= Fingerprint.size}}
  <2>1. Fingerprint.full = bytes /\ Fingerprint.size = Len(bytes)
        /\ Fingerprint.comparison = IF \E p \in previous : p <= Len(bytes)
                                    THEN {comparison} ELSE {}
    BY <1>1, <1>2 DEF Fingerprint
  <2>2. CASE previous = {}
    BY <2>1, <2>2
  <2>3. CASE previous # {}
    <3>1. previous = {ComparedSize} /\ comparison = First(bytes, ComparedSize)
      BY <1>1, <1>2, <2>3, ComparedIsSize DEF DigestsStand
    <3> QED
      BY <2>1, <3>1
  <2> QED
    BY <2>2, <2>3
<1>5. PrefixesAreOfTheLog'
  BY <1>1, <1>3, <1>4 DEF PrefixesAreOfTheLog
<1> QED
  BY <1>1, <1>2, <1>5 DEF DigestsStand

LEMMA DigestsStep == SnapshotInv /\ DigestsStand /\ [Next]_vars => DigestsStand'
<1> SUFFICES ASSUME SnapshotInv, DigestsStand, [Next]_vars PROVE DigestsStand'
  OBVIOUS
<1>1. CASE Others
  <2>1. UNCHANGED <<previous, fingerprint, pass, step, bytes, prefix, comparison>>
    BY <1>1 DEF Others, GameAppends, NameIsTaken, RewrittenInPlace, Removed, FolderSwapped,
                Tick, Write, hashed, result
  <2> QED
    BY <2>1, DigestsUnread
<1>2. CASE Refuse \/ ParseFails \/ ParseCancelled \/ Cancel \/ UNCHANGED vars
  <2>1. UNCHANGED <<previous, fingerprint, pass, step, bytes, prefix, comparison>>
    BY <1>2 DEF Refuse, ParseFails, ParseCancelled, ParseEnds, Cancel, vars, hashed, result
  <2> QED
    BY <2>1, DigestsUnread
<1>3. CASE (Look \/ LookAgain \/ OpenFolder \/ OpenFile \/ Prove) /\ ~Refuse
  <2>1. UNCHANGED <<previous, fingerprint>> /\ step' \notin {"read", "check"}
    BY <1>3 DEF Look, LookAgain, OpenFolder, OpenFile, Prove, Moved, result
  <2> QED
    BY <2>1, DigestsUnread
<1>4. CASE (Begin /\ ~Refuse) \/ Read
  BY <1>4, DigestsBegin, DigestsRead
<1>5. CASE EndOfFile
  <2>1. /\ UNCHANGED <<previous, fingerprint, pass, bytes, prefix, comparison>>
        /\ step = "read" /\ step' = "check"
    BY <1>5 DEF EndOfFile, Unread, Reader, Moved, hashed, result
  <2> QED
    BY <2>1, DigestsUnread
<1>6. CASE StageFingerprint /\ ~Refuse
  BY <1>6, DigestsStage
<1>7. CASE (KeepSnapshot \/ AcceptParsed \/ OpenAgain \/ Parse) /\ ~Refuse
  <2>1. UNCHANGED <<previous, fingerprint>> /\ step' \notin {"read", "check"}
    BY <1>7 DEF KeepSnapshot, AcceptParsed, OpenAgain, Parse, NextPass, result
  <2> QED
    BY <2>1, DigestsUnread
<1> QED
  BY <1>1, <1>2, <1>3, <1>4, <1>5, <1>6, <1>7 DEF Next, Scan

\* The prefix and the comparison digest of a staged fingerprint are of exactly
\* the first bytes of the log, however its reading was cut: for every size of
\* the prefix, of the current source and of the buffer.
THEOREM PartialDigests == Spec => []PrefixesAreOfTheLog
<1>1. Init => DigestsStand
  BY DEF Init, DigestsStand, PrefixesAreOfTheLog
<1>2. DigestsStand => PrefixesAreOfTheLog
  BY DEF DigestsStand
<1> QED
  BY <1>1, <1>2, Invariance, DigestsStep, PTL DEF Spec

-----------------------------------------------------------------------------
(***************************************************************************)
(* LogParser.  Three invariants go with the lines read so far: what they   *)
(* have cost is a running sum of the whole log, their evidence lies behind *)
(* the clock, and the clock stands at the last of them that had one.       *)
(***************************************************************************)
HIDE OptionsAssumption
USE DayAssumption, LimitsAssumption, NoneAssumption, SourcesAssumption

-----------------------------------------------------------------------------
(***************************************************************************)
(* Days and times of a day.                                                *)
(***************************************************************************)
Midnight(d) == d * Day

LEMMA Midnights ==
    /\ Day \in Nat /\ HalfADay \in Nat \ {0} /\ Day = HalfADay + HalfADay
    /\ \A d \in Int : Midnight(d) \in Int /\ Midnight(d + 1) = Midnight(d) + Day
    /\ \A d, e \in Int : Midnight(d) + Midnight(e) = Midnight(d + e)
    /\ \A d, e \in Int : Midnight(d) - Midnight(e) = Midnight(d - e)
    /\ \A d, e \in Int : d < e => Midnight(d) + Day <= Midnight(e)
    /\ Midnight(0) = 0
<1>1. \A k \in Nat \ {0} : k % 2 = 0 => k \div 2 \in Nat \ {0} /\ k = (k \div 2) + (k \div 2)
  OBVIOUS
<1>2. Day \in Nat \ {0}
  OBVIOUS
<1>3. HalfADay \in Nat \ {0} /\ Day = HalfADay + HalfADay
  BY <1>1 DEF HalfADay
<1>4. \A d \in Int, k \in Nat \ {0} : d * k \in Int /\ (d + 1) * k = d * k + k
  OBVIOUS
<1>5. \A d, e \in Int, k \in Nat \ {0} : d * k + e * k = (d + e) * k
  OBVIOUS
<1>6. \A d, e \in Int, k \in Nat \ {0} : d * k - e * k = (d - e) * k
  OBVIOUS
<1>7. \A d, e \in Int, k \in Nat \ {0} : d < e => d * k + k <= e * k
  OBVIOUS
<1>8. \A k \in Nat \ {0} : 0 * k = 0
  OBVIOUS
<1> DEFINE K == Day
<1> HIDE DEF K
<1>9. K \in Nat \ {0}
  BY <1>2 DEF K
<1>10. \A d \in Int : d * K \in Int /\ (d + 1) * K = d * K + K
  BY <1>4, <1>9, Zenon
<1>11. \A d, e \in Int : d * K + e * K = (d + e) * K
  BY <1>5, <1>9, Zenon
<1>12. \A d, e \in Int : d * K - e * K = (d - e) * K
  BY <1>6, <1>9, Zenon
<1>13. \A d, e \in Int : d < e => d * K + K <= e * K
  BY <1>7, <1>9, Zenon
<1>14. 0 * K = 0
  BY <1>8, <1>9, Zenon
<1> QED BY <1>2, <1>3, <1>10, <1>11, <1>12, <1>13, <1>14, Zenon DEF Midnight, K

\* An instant is a time of a day ...
LEMMA Instants ==
    /\ \A t \in Int : DateOf(t) \in Int /\ TimeOf(t) \in 0..(Day - 1) /\ TimeOf(t) \in Int
                      /\ t = Midnight(DateOf(t)) + TimeOf(t)
<1>1. \A t \in Int, k \in Nat \ {0} : /\ t \div k \in Int /\ t % k \in 0..(k - 1) /\ t % k \in Int
                                      /\ t = (t \div k) * k + (t % k)
  OBVIOUS
<1>2. Day \in Nat \ {0}
  OBVIOUS
<1>3. \A t \in Int : /\ t \div Day \in Int /\ t % Day \in 0..(Day - 1) /\ t % Day \in Int
                     /\ t = (t \div Day) * Day + (t % Day)
  BY <1>1, <1>2, Zenon
<1> QED BY <1>3, Zenon DEF DateOf, TimeOf, Midnight

\* ... in one way.
LEMMA InstantOf ==
    ASSUME NEW d \in Int, NEW r \in 0..(Day - 1)
    PROVE  DateOf(Midnight(d) + r) = d /\ TimeOf(Midnight(d) + r) = r
<1> DEFINE t == Midnight(d) + r
           e == DateOf(t)
           s == TimeOf(t)
<1>1. Day \in Nat /\ Midnight(d) \in Int
  BY Midnights
<1>2. t \in Int /\ r \in Int /\ 0 <= r /\ r < Day /\ t = Midnight(d) + r
  BY <1>1
<1> HIDE DEF t
<1>3. e \in Int /\ s \in 0..(Day - 1) /\ t = Midnight(e) + s
  BY <1>2, Instants
<1> HIDE DEF e, s
<1>4. /\ Midnight(e) \in Int
      /\ d < e => Midnight(d) + Day <= Midnight(e)
      /\ e < d => Midnight(e) + Day <= Midnight(d)
  BY <1>3, Midnights
<1>5. d = e
  BY <1>1, <1>2, <1>3, <1>4
<1>6. s = r
  BY <1>1, <1>2, <1>3, <1>5
<1> QED BY <1>5, <1>6 DEF e, s, t

\* What is not after a time of a day is of that day or of an earlier one.
LEMMA NotLaterDay ==
    ASSUME NEW q \in Int, NEW k \in Int, NEW l \in 0..(Day - 1), q <= Midnight(k) + l
    PROVE  DateOf(q) <= k
<1> DEFINE d == DateOf(q)
           r == TimeOf(q)
           a == Midnight(d)
           b == Midnight(k)
<1>1. d \in Int /\ r \in 0..(Day - 1) /\ q = a + r
  BY Instants
<1>2. Day \in Nat
  BY Midnights
<1> HIDE DEF d, r
<1>3. a \in Int /\ b \in Int /\ (k < d => b + Day <= a)
  BY <1>1, Midnights
<1> HIDE DEF a, b
<1>4. q <= b + l /\ r \in Int /\ 0 <= r /\ l \in Int /\ l < Day
  BY <1>1, <1>2 DEF b
<1>5. ~(k < d)
  BY <1>1, <1>2, <1>3, <1>4
<1>6. d <= k
  BY <1>1, <1>5
<1> QED BY <1>6 DEF d

-----------------------------------------------------------------------------
(***************************************************************************)
(* What lines tell, and the types of what is kept of them.                 *)
(***************************************************************************)
RuleShape(rules) ==
    \E n \in Nat : DOMAIN rules = 1..n /\ \A i \in 1..n : rules[i][2] \in Seq(Tags)

LEMMA FirstMatchType ==
    ASSUME NEW rules, RuleShape(rules), NEW marks
    PROVE  FirstMatch(rules, marks) \in Seq(Tags)
<1> DEFINE hits == {i \in DOMAIN rules : rules[i][1] \in marks}
           least == CHOOSE i \in hits : \A j \in hits : i <= j
<1>1. PICK n \in Nat : DOMAIN rules = 1..n /\ \A i \in 1..n : rules[i][2] \in Seq(Tags)
  BY DEF RuleShape
<1>2. hits \in SUBSET Nat /\ hits \subseteq DOMAIN rules
  BY <1>1
<1>3. FirstMatch(rules, marks) = IF hits = {} THEN <<>> ELSE rules[least][2]
  BY DEF FirstMatch
<1> HIDE DEF hits
<1>4. CASE hits # {}
  <2>1. least \in hits
    BY <1>2, <1>4, LeastNatural
  <2> HIDE DEF least
  <2> QED BY <1>1, <1>2, <1>3, <1>4, <2>1
<1>5. CASE hits = {}
  <2>1. <<>> \in Seq(Tags)
    OBVIOUS
  <2> QED BY <1>3, <1>5, <2>1
<1> QED BY <1>4, <1>5

LEMMA RulesAreShaped ==
    /\ RuleShape(LaunchRules) /\ RuleShape(BootstrapRules) /\ RuleShape(ServerRules)
    /\ RuleShape(IntegratedRules) /\ RuleShape(WorldRules) /\ RuleShape(DisconnectRules)
    /\ RuleShape(StoppingRules) /\ RuleShape(ShutdownRules) /\ RuleShape(CrashRules)
<1>1. \A a \in Tags : <<a>> \in Seq(Tags)
  OBVIOUS
<1>2. \A a, b \in Tags : <<a, b>> \in Seq(Tags)
  OBVIOUS
<1>3. RuleShape(LaunchRules)
  <2>1. <<"start", "version">> \in Seq(Tags) /\ <<"version">> \in Seq(Tags)
    BY <1>1, <1>2 DEF Tags
  <2>2. DOMAIN LaunchRules = 1..4 /\ \A i \in 1..4 : LaunchRules[i][2] \in Seq(Tags)
    BY <2>1 DEF LaunchRules
  <2> QED BY <2>2 DEF RuleShape
<1>4. RuleShape(BootstrapRules)
  <2>1. <<"start">> \in Seq(Tags)
    BY <1>1 DEF Tags
  <2>2. DOMAIN BootstrapRules = 1..2 /\ \A i \in 1..2 : BootstrapRules[i][2] \in Seq(Tags)
    BY <2>1 DEF BootstrapRules
  <2> QED BY <2>2 DEF RuleShape
<1>5. RuleShape(ServerRules)
  <2>1. <<"server">> \in Seq(Tags)
    BY <1>1 DEF Tags
  <2>2. DOMAIN ServerRules = 1..1 /\ \A i \in 1..1 : ServerRules[i][2] \in Seq(Tags)
    BY <2>1 DEF ServerRules
  <2> QED BY <2>2 DEF RuleShape
<1>6. RuleShape(IntegratedRules)
  <2>1. <<"integrated">> \in Seq(Tags)
    BY <1>1 DEF Tags
  <2>2. DOMAIN IntegratedRules = 1..1 /\ \A i \in 1..1 : IntegratedRules[i][2] \in Seq(Tags)
    BY <2>1 DEF IntegratedRules
  <2> QED BY <2>2 DEF RuleShape
<1>7. RuleShape(WorldRules)
  <2>1. <<"world">> \in Seq(Tags)
    BY <1>1 DEF Tags
  <2>2. DOMAIN WorldRules = 1..2 /\ \A i \in 1..2 : WorldRules[i][2] \in Seq(Tags)
    BY <2>1 DEF WorldRules
  <2> QED BY <2>2 DEF RuleShape
<1>8. RuleShape(DisconnectRules)
  <2>1. <<"disconnect">> \in Seq(Tags)
    BY <1>1 DEF Tags
  <2>2. DOMAIN DisconnectRules = 1..3 /\ \A i \in 1..3 : DisconnectRules[i][2] \in Seq(Tags)
    BY <2>1 DEF DisconnectRules
  <2> QED BY <2>2 DEF RuleShape
<1>9. RuleShape(StoppingRules)
  <2>1. <<"stopping">> \in Seq(Tags)
    BY <1>1 DEF Tags
  <2>2. DOMAIN StoppingRules = 1..1 /\ \A i \in 1..1 : StoppingRules[i][2] \in Seq(Tags)
    BY <2>1 DEF StoppingRules
  <2> QED BY <2>2 DEF RuleShape
<1>10. RuleShape(ShutdownRules)
  <2>1. <<"shutdown">> \in Seq(Tags)
    BY <1>1 DEF Tags
  <2>2. DOMAIN ShutdownRules = 1..1 /\ \A i \in 1..1 : ShutdownRules[i][2] \in Seq(Tags)
    BY <2>1 DEF ShutdownRules
  <2> QED BY <2>2 DEF RuleShape
<1>11. RuleShape(CrashRules)
  <2>1. <<"crash">> \in Seq(Tags)
    BY <1>1 DEF Tags
  <2>2. DOMAIN CrashRules = 1..5 /\ \A i \in 1..5 : CrashRules[i][2] \in Seq(Tags)
    BY <2>1 DEF CrashRules
  <2> QED BY <2>2 DEF RuleShape
<1> QED BY <1>3, <1>4, <1>5, <1>6, <1>7, <1>8, <1>9, <1>10, <1>11

LEMMA RecognizedType ==
    ASSUME NEW marks
    PROVE  RecognizeEvents(marks) \in Seq(Tags) /\ Len(RecognizeEvents(marks)) \in Nat
<1> DEFINE launch == FirstMatch(LaunchRules, marks)
           bootstrap == IF "start" \in {launch[i] : i \in DOMAIN launch}
                        THEN <<>> ELSE FirstMatch(BootstrapRules, marks)
           server == FirstMatch(ServerRules, marks)
           integrated == FirstMatch(IntegratedRules, marks)
           level == FirstMatch(WorldRules, marks)
           disconnect == FirstMatch(DisconnectRules, marks)
           stopping == FirstMatch(StoppingRules, marks)
           shutdown == FirstMatch(ShutdownRules, marks)
           crash == FirstMatch(CrashRules, marks)
<1>1. /\ launch \in Seq(Tags) /\ bootstrap \in Seq(Tags) /\ server \in Seq(Tags)
      /\ integrated \in Seq(Tags) /\ level \in Seq(Tags) /\ disconnect \in Seq(Tags)
      /\ stopping \in Seq(Tags) /\ shutdown \in Seq(Tags) /\ crash \in Seq(Tags)
  <2>1. <<>> \in Seq(Tags)
    OBVIOUS
  <2> QED BY <2>1, RulesAreShaped, FirstMatchType
<1>2. RecognizeEvents(marks) = launch \o bootstrap \o server \o integrated \o level
                                 \o disconnect \o stopping \o shutdown \o crash
  BY DEF RecognizeEvents
<1> HIDE DEF launch, bootstrap, server, integrated, level, disconnect, stopping, shutdown, crash
<1>3. \A a, b \in Seq(Tags) : a \o b \in Seq(Tags)
  OBVIOUS
<1>4. RecognizeEvents(marks) \in Seq(Tags)
  BY <1>1, <1>2, <1>3
<1> QED BY <1>4

-----------------------------------------------------------------------------
(***************************************************************************)
(* Steps.  A line is accepted, or the log is refused at it.                *)
(***************************************************************************)
Events(n) == RecognizeEvents(log[n].marks)
Item(n, tag) == [line |-> n, tag |-> tag, stamp |-> Stamp(log[n])]

\* What a step leaves as it is when the log is not refused, and when it is.
Untold == UNCHANGED <<source, next, decoded, clock, evidence, backwards>>

Continue ==
    /\ verdict = "reading" /\ verdict' = verdict /\ next <= Len(log) /\ held < log[next].size
    /\ held' = held + ChunkLength
    /\ ~(held' > MaxLineBytes) /\ ~(decoded + held' > MaxBytes)
    /\ Untold
RefuseLine ==
    /\ verdict = "reading" /\ next <= Len(log) /\ Untold /\ held' = held
    /\ \/ verdict' = "line bytes" /\ held < log[next].size /\ held + ChunkLength > MaxLineBytes
       \/ /\ verdict' = "decoded bytes" /\ held < log[next].size
          /\ decoded + (held + ChunkLength) > MaxBytes
       \/ verdict' = "line count" /\ next > MaxLines
       \/ verdict' = "evidence event count" /\ Len(evidence) + Len(Events(next)) > MaxEvidence
       \/ verdict' = "cancelled"
Accept ==
    /\ verdict = "reading" /\ verdict' = verdict /\ next <= Len(log) /\ held = log[next].size
    /\ next <= MaxLines /\ Len(evidence) + Len(Events(next)) <= MaxEvidence
    /\ UNCHANGED source /\ next' = next + 1 /\ held' = 0 /\ decoded' = decoded + held
    /\ clock' = ClockAfter(log[next])
    /\ backwards' = backwards + (IF RunsBackwards(log[next]) THEN 1 ELSE 0)
    /\ evidence' = evidence \o [i \in 1..Len(Events(next)) |-> Item(next, Events(next)[i])]

LEMMA Steps ==
    ASSUME ParserNext
    PROVE  Continue \/ RefuseLine \/ Accept \/ Finish
<1>1. CASE ReadChunk
  BY <1>1 DEF ReadChunk, Continue, RefuseLine, Untold
<1>2. CASE ParseLine
  BY <1>2, Zenon DEF ParseLine, Accept, RefuseLine, Untold, Events, Item
<1>3. CASE CancelParse
  BY <1>3 DEF CancelParse, RefuseLine, Untold
<1> QED BY <1>1, <1>2, <1>3 DEF ParserNext

\* Evidence of earlier lines stays, and the new one is all of the line.
LEMMA AcceptedItems ==
    ASSUME Accept, NEW T, evidence \in Seq(T), next \in Nat
    PROVE  /\ Len(evidence') = Len(evidence) + Len(Events(next))
           /\ Len(evidence) \in Nat /\ Len(evidence') \in Nat
           /\ DOMAIN evidence = 1..Len(evidence) /\ DOMAIN evidence' = 1..Len(evidence')
           /\ \A i \in DOMAIN evidence : i \in DOMAIN evidence' /\ evidence'[i] = evidence[i]
           /\ \A i \in DOMAIN evidence' \ DOMAIN evidence :
                  \E k \in 1..Len(Events(next)) : evidence'[i] = Item(next, Events(next)[k])
<1> DEFINE n == Len(Events(next))
           new == [i \in 1..n |-> Item(next, Events(next)[i])]
           old == evidence
<1>1. n \in Nat
  BY RecognizedType DEF Events
<1>2. evidence' = old \o new
  BY DEF Accept
<1>3. Len(old) \in Nat /\ DOMAIN old = 1..Len(old)
  OBVIOUS
<1>4. new \in Seq({new[i] : i \in 1..n}) /\ Len(new) = n /\ DOMAIN new = 1..n
  <2> DEFINE R == {new[i] : i \in 1..n}
  <2>1. new \in [1..n -> R]
    <3> HIDE DEF n
    <3> QED OBVIOUS
  <2> HIDE DEF new, n, R
  <2>2. new \in Seq(R) /\ Len(new) = n /\ DOMAIN new = 1..n
    BY <1>1, <2>1
  <2> QED BY <2>2 DEF R
<1>5. \A i \in 1..n : new[i] = Item(next, Events(next)[i])
  OBVIOUS
<1> HIDE DEF new, n, old
<1> DEFINE both == old \o new
<1>6. Len(both) = Len(old) + n /\ DOMAIN both = 1..(Len(old) + n)
      /\ \A i \in 1..(Len(old) + n) : both[i] = IF i <= Len(old) THEN old[i] ELSE new[i - Len(old)]
  <2> DEFINE U == T \cup {new[i] : i \in 1..n}
  <2>1. \A S, V : S \subseteq V => Seq(S) \subseteq Seq(V)
    OBVIOUS
  <2>2. old \in Seq(T)
    BY DEF old
  <2>3. old \in Seq(U) /\ new \in Seq(U)
    BY <1>4, <2>1, <2>2, Zenon
  <2> HIDE DEF U, both
  <2>4. /\ old \o new \in Seq(U) /\ Len(old \o new) = Len(old) + Len(new)
        /\ \A i \in 1..Len(old) + Len(new) :
              (old \o new)[i] = IF i <= Len(old) THEN old[i] ELSE new[i - Len(old)]
    BY <2>3, ConcatProperties
  <2>5. both \in Seq(U)
    BY <2>4 DEF both
  <2>6. DOMAIN both = 1..Len(both)
    BY <2>5
  <2> QED BY <1>4, <2>4, <2>6, Zenon DEF both
<1> HIDE DEF both
<1>7. evidence' = both
  BY <1>2 DEF both
<1>8. \A i \in DOMAIN evidence' \ DOMAIN old : i - Len(old) \in 1..n /\ evidence'[i] = new[i - Len(old)]
  BY <1>1, <1>3, <1>6, <1>7
<1>9. \A i \in DOMAIN old : i \in DOMAIN evidence' /\ evidence'[i] = old[i]
  BY <1>1, <1>3, <1>6, <1>7
<1>10. /\ Len(evidence') = Len(old) + n /\ Len(evidence') \in Nat
       /\ DOMAIN evidence' = 1..Len(evidence')
  BY <1>1, <1>3, <1>6, <1>7
<1>11. \A i \in DOMAIN evidence' \ DOMAIN old : \E k \in 1..n : evidence'[i] = Item(next, Events(next)[k])
  BY <1>5, <1>8
<1> QED BY <1>3, <1>9, <1>10, <1>11 DEF old, n

-----------------------------------------------------------------------------
(***************************************************************************)
(* Types.                                                                  *)
(***************************************************************************)
ClockType == [date : Int \cup {None}, last : Int \cup {None}, day : Nat]
ItemType == [line : Nat, tag : Tags, stamp : StampType]

LEMMA LocalIs ==
    ASSUME NEW context \in Context, NEW d \in Int, NEW t \in Int, NEW origin
    PROVE  /\ Local(context, d, t, origin) =
                [origin |-> origin, time |-> t, seq |-> Midnight(d) + t - context.offset]
           /\ Midnight(d) + t - context.offset \in Int
<1>1. context.offset \in Int
  BY DEF Context
<1>2. Midnight(d) \in Int
  BY Midnights
<1> QED BY <1>1, <1>2 DEF Local, Midnight

LEMMA ClocksAndStamps ==
    ASSUME clock \in ClockType, ctx \in Context, NEW line \in Line
    PROVE  ClockAfter(line) \in ClockType /\ Stamp(line) \in StampType
<1> DEFINE time == TimeOf(line.at)
           date == DateOf(line.at)
           after == ClockAfter(line)
<1>1. /\ line.at \in Int /\ line.form \in {"datetime", "time", "none"}
  BY DEF Line, Forms
<1>2. time \in Int /\ date \in Int
  BY <1>1, Instants
<1>3. clock.date \in Int \cup {None} /\ clock.last \in Int \cup {None} /\ clock.day \in Nat
      /\ clock = [date |-> clock.date, last |-> clock.last, day |-> clock.day]
  BY DEF ClockType
<1>4. after \in ClockType
  <2>1. CASE line.form = "datetime"
    <3>1. after = [date |-> date, last |-> time, day |-> 0]
      BY <2>1 DEF ClockAfter
    <3> HIDE DEF after, time, date
    <3> QED BY <1>2, <3>1 DEF ClockType
  <2>2. CASE line.form = "time" /\ PassesMidnight(time)
    <3> DEFINE d == IF clock.date = None THEN None ELSE clock.date + 1
    <3>1. after = [date |-> d, last |-> time, day |-> clock.day + 1]
      BY <2>2 DEF ClockAfter
    <3>2. d \in Int \cup {None} /\ clock.day + 1 \in Nat
      BY <1>3
    <3> HIDE DEF after, time, date, d
    <3> QED BY <1>2, <3>1, <3>2 DEF ClockType
  <2>3. CASE line.form = "time" /\ ~PassesMidnight(time)
    <3>1. after = [clock EXCEPT !.last = time]
      BY <2>3 DEF ClockAfter
    <3> HIDE DEF after, time, date
    <3> QED BY <1>2, <3>1 DEF ClockType
  <2>4. CASE line.form = "none"
    BY <2>4 DEF ClockAfter
  <2> QED BY <1>1, <2>1, <2>2, <2>3, <2>4
<1> HIDE DEF after, time, date
<1>5. Stamp(line) \in StampType
  <2>1. after.date \in Int \cup {None} /\ after.day \in Nat
    BY <1>4 DEF ClockType
  <2>2. Stamp(line) = CASE line.form = "datetime" -> Local(ctx, after.date, time, "datetime")
                        [] line.form = "time" /\ after.date # None ->
                              Local(ctx, after.date, time, "hinted")
                        [] line.form = "time" /\ after.date = None ->
                              [origin |-> "time", time |-> time, seq |-> after.day * Day + time]
                        [] OTHER -> Missing
    BY DEF Stamp, after, time
  <2>3. CASE line.form = "datetime"
    <3>1. Stamp(line) = Local(ctx, date, time, "datetime")
      BY <2>3 DEF Stamp, ClockAfter, time, date
    <3> QED BY <1>2, <3>1, LocalIs DEF StampType
  <2>4. CASE line.form = "time" /\ after.date # None
    <3>1. Stamp(line) = Local(ctx, after.date, time, "hinted")
      BY <2>2, <2>4
    <3> QED BY <1>2, <2>1, <2>4, <3>1, LocalIs DEF StampType
  <2>5. CASE line.form = "time" /\ after.date = None
    <3>1. Stamp(line) = [origin |-> "time", time |-> time, seq |-> Midnight(after.day) + time]
      BY <2>2, <2>5 DEF Midnight
    <3>2. Midnight(after.day) \in Int
      <4>1. after.day \in Int
        BY <2>1
      <4>2. \A d \in Int : Midnight(d) \in Int
        BY Midnights
      <4> QED BY <4>1, <4>2
    <3> QED BY <1>2, <3>1, <3>2 DEF StampType
  <2>6. CASE line.form = "none"
    <3>1. Stamp(line) = Missing
      BY <2>2, <2>6
    <3> QED BY <3>1 DEF Missing, StampType
  <2> QED BY <1>1, <2>3, <2>4, <2>5, <2>6
<1> QED BY <1>4, <1>5 DEF after

LEMMA AnchoredType ==
    ASSUME TypeOK, NEW e \in ItemType
    PROVE  /\ Anchored(e) \in ItemType /\ Anchored(e).line = e.line /\ Anchored(e).tag = e.tag
           /\ FinalDate \in Int
<1> DEFINE before == clock.day - (e.stamp.seq \div Day)
<1>1. ctx.end \in Int /\ ctx \in Context /\ clock.last \in Int \cup {None} /\ clock.day \in Nat
  BY DEF TypeOK, Context
<1>2. e.stamp.seq \in Int /\ e.stamp.time \in Int /\ e.line \in Nat /\ e.tag \in Tags
      /\ e = [line |-> e.line, tag |-> e.tag, stamp |-> e.stamp] /\ e.stamp \in StampType
  BY DEF ItemType, StampType
<1>3. FinalDate \in Int
  <2>1. DateOf(ctx.end) \in Int
    BY <1>1, Instants
  <2> QED BY <2>1 DEF FinalDate
<1>4. before \in Int
  <2>1. DateOf(e.stamp.seq) \in Int
    BY <1>2, Instants
  <2> QED BY <1>1, <2>1 DEF DateOf
<1> HIDE DEF before
<1> DEFINE s == Local(ctx, FinalDate - before, e.stamp.time, "hinted")
<1>5. s \in StampType
  <2> DEFINE d == FinalDate - before
             q == Midnight(d) + e.stamp.time - ctx.offset
  <2>1. d \in Int /\ ctx \in Context /\ e.stamp.time \in Int
    BY <1>1, <1>2, <1>3, <1>4
  <2> HIDE DEF d
  <2>2. Local(ctx, d, e.stamp.time, "hinted") = [origin |-> "hinted", time |-> e.stamp.time, seq |-> q]
        /\ q \in Int
    BY <2>1, LocalIs, Zenon
  <2> HIDE DEF q
  <2>3. Local(ctx, d, e.stamp.time, "hinted") \in StampType
    BY <1>2, <2>2 DEF StampType
  <2> QED BY <2>3 DEF d
<1>6. Anchored(e) = e \/ Anchored(e) = [e EXCEPT !.stamp = s]
  BY DEF Anchored, before
<1> HIDE DEF s
<1> QED BY <1>2, <1>3, <1>5, <1>6 DEF ItemType

LEMMA LogShape ==
    ASSUME TypeOK
    PROVE  /\ Len(log) \in Nat /\ DOMAIN log = 1..Len(log) /\ next \in Nat \ {0}
           /\ \A n \in DOMAIN log : /\ log[n] \in Line /\ log[n].size \in Nat \ {0}
                                    /\ log[n].at \in Int /\ log[n].form \in Forms
           /\ next <= Len(log) => next \in DOMAIN log /\ log[next] \in Line
<1>1. log \in Seq(Line) /\ next \in 1..(Len(log) + 1)
  BY DEF TypeOK
<1>2. Len(log) \in Nat /\ DOMAIN log = 1..Len(log) /\ \A n \in DOMAIN log : log[n] \in Line
  BY <1>1
<1>3. \A l \in Line : l.size \in Nat \ {0} /\ l.at \in Int /\ l.form \in Forms
  BY DEF Line
<1> QED BY <1>1, <1>2, <1>3

LEMMA ChunkIs ==
    ASSUME TypeOK, next <= Len(log), held < log[next].size
    PROVE  ChunkLength \in Nat \ {0} /\ held + ChunkLength \in 0..log[next].size
<1>1. held \in 0..log[next].size /\ log[next].size \in Nat
  BY LogShape DEF TypeOK
<1>2. Chunk \in Nat \ {0}
  BY DEF LimitsAssumption
<1> DEFINE size == log[next].size
<1>3. ChunkLength = IF size - held < Chunk THEN size - held ELSE Chunk
  BY DEF ChunkLength
<1>4. held \in 0..size /\ size \in Nat /\ held < size
  BY <1>1
<1> HIDE DEF size
<1>5. ChunkLength \in Nat \ {0} /\ held + ChunkLength \in 0..size
  BY <1>2, <1>3, <1>4
<1> QED BY <1>5 DEF size

LEMMA InitType == ParserInit => TypeOK
<1> SUFFICES ASSUME ParserInit
             PROVE  TypeOK
  OBVIOUS
<1>1. log \in Seq(Line) /\ ctx \in Context
  BY DEF ParserInit, SourcesAssumption, log, ctx
<1>2. Len(log) \in Nat /\ \A n \in 1..Len(log) : log[n].size \in Nat
  <2>1. Len(log) \in Nat /\ \A n \in 1..Len(log) : log[n] \in Line
    BY <1>1
  <2> QED BY <2>1 DEF Line
<1>3. clock \in ClockType
  <2>1. InitialDate(ctx) \in Int \cup {None}
    <3>1. ctx.hint \in Int
      BY <1>1 DEF Context
    <3> QED BY <3>1 DEF InitialDate
  <2>2. clock = [date |-> InitialDate(ctx), last |-> None, day |-> 0]
    BY DEF ParserInit, ctx
  <2> QED BY <2>1, <2>2 DEF ClockType
<1>4. next = 1 /\ held = 0 /\ decoded = 0 /\ backwards = 0 /\ verdict = "reading" /\ evidence = <<>>
  BY DEF ParserInit
<1>5. next \in 1..(Len(log) + 1) /\ held \in IF next <= Len(log) THEN 0..log[next].size ELSE {0}
  BY <1>2, <1>4
<1>6. evidence \in Seq(ItemType)
  BY <1>4
<1> QED BY <1>1, <1>3, <1>4, <1>5, <1>6 DEF TypeOK, ClockType, ItemType

LEMMA TypeStep == TypeOK /\ [ParserNext]_parserVars => TypeOK'
<1> SUFFICES ASSUME TypeOK, [ParserNext]_parserVars
             PROVE  TypeOK'
  OBVIOUS
<1>1. CASE Continue
  <2>1. UNCHANGED <<log, ctx>>
    BY <1>1 DEF Continue, Untold, log, ctx
  <2>2. held' \in 0..log[next].size /\ next <= Len(log)
    BY <1>1, ChunkIs DEF Continue
  <2> QED BY <1>1, <2>1, <2>2 DEF TypeOK, Continue, Untold
<1>2. CASE RefuseLine
  <2>1. UNCHANGED <<log, ctx>>
    BY <1>2 DEF RefuseLine, Untold, log, ctx
  <2> QED BY <1>2, <2>1 DEF TypeOK, RefuseLine, Untold, LimitErrors
<1>3. CASE Accept
  <2>1. UNCHANGED <<log, ctx>> /\ log \in Seq(Line) /\ ctx \in Context /\ log[next] \in Line
    BY <1>3, LogShape DEF TypeOK, Accept, log, ctx
  <2>2. clock' \in ClockType /\ Stamp(log[next]) \in StampType
    <3>1. clock \in ClockType
      BY DEF TypeOK, ClockType
    <3> QED BY <1>3, <2>1, <3>1, ClocksAndStamps DEF Accept
  <2>3. /\ Len(log) \in Nat /\ next' = next + 1 /\ next' \in 1..(Len(log) + 1)
        /\ held' = 0 /\ verdict' = "reading"
        /\ \A n \in 1..Len(log) : log[n].size \in Nat
    <3>1. next' = next + 1 /\ next <= Len(log) /\ held' = 0 /\ verdict' = "reading"
      BY <1>3, Zenon DEF Accept
    <3>2. Len(log) \in Nat /\ next \in Nat \ {0} /\ \A n \in 1..Len(log) : log[n].size \in Nat
      BY LogShape
    <3>3. next + 1 \in 1..(Len(log) + 1)
      BY <3>1, <3>2
    <3> QED BY <3>1, <3>2, <3>3
  <2>4. held' \in IF next' <= Len(log) THEN 0..log[next'].size ELSE {0}
    BY <2>3
  <2>5. decoded' \in Nat /\ backwards' \in Nat
    <3>1. held \in Nat /\ decoded \in Nat /\ backwards \in Nat
      <4>1. held = log[next].size /\ next \in DOMAIN log
        BY <1>3, LogShape DEF Accept
      <4>2. log[next].size \in Nat
        BY <4>1, LogShape
      <4>3. decoded \in Nat /\ backwards \in Nat
        BY DEF TypeOK
      <4> QED BY <4>1, <4>2, <4>3
    <3>2. /\ decoded' = decoded + held
          /\ backwards' = backwards + (IF RunsBackwards(log[next]) THEN 1 ELSE 0)
      BY <1>3, Zenon DEF Accept
    <3> QED BY <3>1, <3>2
  <2>6. evidence' \in Seq(ItemType)
    <3> DEFINE k == Len(Events(next))
               new == [i \in 1..k |-> Item(next, Events(next)[i])]
    <3>1. k \in Nat /\ \A i \in 1..k : Events(next)[i] \in Tags
      BY RecognizedType DEF Events
    <3>2. next \in Nat
      BY LogShape
    <3>3. \A i \in 1..k : Item(next, Events(next)[i]) \in ItemType
      <4> HIDE DEF k
      <4> QED BY <2>2, <3>1, <3>2 DEF Item, ItemType
    <3>4. new \in [1..k -> ItemType]
      <4> HIDE DEF k
      <4> QED BY <3>3
    <3>5. evidence' = evidence \o new
      BY <1>3 DEF Accept
    <3> HIDE DEF k, new
    <3>6. new \in Seq(ItemType)
      BY <3>1, <3>4
    <3>7. evidence \in Seq(ItemType)
      BY DEF TypeOK, ItemType
    <3> QED BY <3>5, <3>6, <3>7
  <2> QED BY <2>1, <2>2, <2>3, <2>4, <2>5, <2>6 DEF TypeOK, ClockType, ItemType
<1>4. CASE Finish
  <2>1. UNCHANGED <<log, ctx>>
    BY <1>4 DEF Finish, log, ctx
  <2>2. evidence' \in Seq(ItemType)
    <3>1. evidence \in Seq(ItemType)
      BY DEF TypeOK, ItemType
    <3>2. Len(evidence) \in Nat /\ DOMAIN evidence = 1..Len(evidence) /\ \A i \in DOMAIN evidence : evidence[i] \in ItemType
      BY <3>1
    <3>3. \A i \in DOMAIN evidence : Anchored(evidence[i]) \in ItemType
      BY <3>2, AnchoredType
    <3>4. evidence' = [i \in 1..Len(evidence) |-> Anchored(evidence[i])]
      BY <1>4, <3>2 DEF Finish
    <3>5. evidence' \in [1..Len(evidence) -> ItemType]
      BY <3>2, <3>3, <3>4
    <3> QED BY <3>2, <3>5
  <2> QED BY <1>4, <2>1, <2>2 DEF TypeOK, Finish, ItemType
<1>5. CASE UNCHANGED parserVars
  <2>1. UNCHANGED <<log, ctx>>
    BY <1>5 DEF parserVars, log, ctx
  <2> QED BY <1>5, <2>1 DEF TypeOK, parserVars
<1> QED BY <1>1, <1>2, <1>3, <1>4, <1>5, Steps

\* Every variable keeps its type, for any logs, contexts and limits.
THEOREM ParserTypeCorrect == ParserSpec => []TypeOK
BY InitType, TypeStep, PTL DEF ParserSpec

-----------------------------------------------------------------------------
(***************************************************************************)
(* The limits.  What is read so far is a running sum of the whole log.     *)
(***************************************************************************)
IsRunning(u, f) == u = [n \in 0..Len(f) |-> IF n = 0 THEN 0 ELSE u[n - 1] + f[n]]
Upto(f) == CHOOSE u : IsRunning(u, f)

LEMMA RunningSum ==
    ASSUME NEW f \in Seq(Nat)
    PROVE  /\ Upto(f) \in [0..Len(f) -> Nat] /\ Upto(f)[0] = 0
           /\ \A n \in 1..Len(f) : n - 1 \in 0..Len(f) /\ Upto(f)[n] = Upto(f)[n - 1] + f[n]
           /\ SumOf(f) = Upto(f)[Len(f)]
           /\ \A n \in 0..Len(f) : Upto(f)[n] \in Nat /\ Upto(f)[n] <= SumOf(f)
<1> DEFINE D == 0..Len(f)
           rank == [d \in D |-> d]
           c == [d \in D |-> d - 1]
           B == [d \in {0} |-> 0]
           F == [p \in D \X Nat |-> p[2] + f[p[1]]]
           u == Upto(f)
<1>1. Len(f) \in Nat /\ DOMAIN f = 1..Len(f) /\ \A n \in 1..Len(f) : f[n] \in Nat
  OBVIOUS
<1>2. PICK it \in [D -> Nat] : Unfolds(it, D, c, B, F)
  <2>1. rank \in [D -> Nat]
    BY <1>1
  <2>2. \A d \in D : d \notin DOMAIN B => c[d] \in D /\ rank[c[d]] < rank[d]
    BY <1>1
  <2>3. \A d \in D \cap DOMAIN B : B[d] \in Nat
    OBVIOUS
  <2>4. \A d \in D, v \in Nat : d \notin DOMAIN B => F[<<d, v>>] \in Nat
    <3>1. \A d \in D : d \notin DOMAIN B => f[d] \in Nat
      BY <1>1
    <3>2. \A d \in D, v \in Nat : F[<<d, v>>] = v + f[d]
      OBVIOUS
    <3> HIDE DEF F, B, D
    <3> QED BY <3>1, <3>2
  <2> HIDE DEF D, rank, c, B, F
  <2> QED BY <2>1, <2>2, <2>3, <2>4, RecursionExists
<1>3. IsRunning(it, f)
  <2>1. ASSUME NEW n \in D
        PROVE  it[n] = IF n = 0 THEN 0 ELSE it[n - 1] + f[n]
    <3>1. it[n] = IF n \in DOMAIN B THEN B[n] ELSE F[<<n, it[c[n]]>>]
      BY <1>2 DEF Unfolds
    <3>2. CASE n = 0
      <4>1. n \in DOMAIN B /\ B[n] = 0
        BY <3>2
      <4> QED BY <3>1, <3>2, <4>1
    <3>3. CASE n # 0
      <4>1. n \notin DOMAIN B /\ c[n] = n - 1 /\ n - 1 \in D
        BY <1>1, <3>3
      <4>2. it[n - 1] \in Nat
        BY <1>2, <4>1
      <4>3. F[<<n, it[n - 1]>>] = it[n - 1] + f[n]
        BY <4>2
      <4> HIDE DEF F, B, c
      <4> QED BY <3>1, <3>3, <4>1, <4>3
    <3> QED BY <3>2, <3>3
  <2> QED BY <1>2, <2>1 DEF IsRunning
<1>4. IsRunning(u, f)
  BY <1>3 DEF Upto
<1> HIDE DEF u
<1>5. DOMAIN u = D /\ \A n \in D : u[n] = IF n = 0 THEN 0 ELSE u[n - 1] + f[n]
  BY <1>4 DEF IsRunning
<1>6. u[0] = 0 /\ \A n \in 1..Len(f) : n - 1 \in D /\ u[n] = u[n - 1] + f[n]
  BY <1>1, <1>5
<1>7. ASSUME NEW n \in D
      PROVE  u[n] \in Nat
  <2> DEFINE T == {k \in Nat : u[k] \in Nat}
  <2>1. n \in Nat /\ n <= Len(f) /\ 0 \in T
    BY <1>1, <1>6
  <2>2. \A k \in 1..n : k - 1 \in T => k \in T
    <3> TAKE k \in 1..n
    <3>1. k \in 1..Len(f)
      BY <1>1, <2>1
    <3>2. u[k] = u[k - 1] + f[k] /\ f[k] \in Nat
      BY <1>1, <1>6, <3>1
    <3> QED BY <3>2
  <2>3. n \in T
    <3> HIDE DEF T
    <3> QED BY <2>1, <2>2, CountingUp
  <2> QED BY <2>3
<1>8. SumOf(f) = u[Len(f)]
  BY DEF SumOf, u, Upto, IsRunning
<1>9. ASSUME NEW n \in D
      PROVE  u[n] <= u[Len(f)]
  <2> DEFINE T == {k \in Nat : n + k \in D => u[n] <= u[n + k]}
             m == Len(f) - n
  <2>1. m \in Nat /\ 0 \in T
    BY <1>1, <1>7
  <2>2. \A k \in 1..m : k - 1 \in T => k \in T
    <3> TAKE k \in 1..m
    <3>1. n + k \in 1..Len(f) /\ n + (k - 1) \in D /\ (n + k) - 1 = n + (k - 1) /\ n + k \in D
      BY <1>1
    <3>2. u[n + k] = u[n + (k - 1)] + f[n + k] /\ f[n + k] \in Nat
      BY <1>1, <1>6, <3>1
    <3>3. u[n] \in Nat /\ u[n + (k - 1)] \in Nat /\ u[n + k] \in Nat
      BY <1>7, <3>1
    <3>4. ASSUME k - 1 \in T
          PROVE  u[n] <= u[n + k]
      <4>1. u[n] <= u[n + (k - 1)]
        BY <3>1, <3>4
      <4> QED BY <3>2, <3>3, <4>1
    <3> QED BY <3>1, <3>4
  <2>3. m \in T
    <3> HIDE DEF T, m
    <3> QED BY <2>1, <2>2, CountingUp
  <2>4. n + m = Len(f) /\ Len(f) \in D
    BY <1>1
  <2> HIDE DEF m
  <2> QED BY <2>3, <2>4
<1>10. u \in [D -> Nat]
  <2>1. u = [n \in D |-> u[n]]
    BY <1>4 DEF IsRunning
  <2> HIDE DEF D
  <2> QED BY <1>7, <2>1
<1>11. Len(f) \in D
  BY <1>1
<1> QED BY <1>6, <1>7, <1>8, <1>9, <1>10, <1>11 DEF u

Sizes == [i \in DOMAIN log |-> log[i].size]

\* What a log has cost when its first n lines are read, and what it tells.
BytesUpto(n) == Upto(Sizes)[n]
EventsUpto(n) == Upto(EventsIn(log))[n]

LEMMA Running ==
    ASSUME TypeOK
    PROVE  /\ BytesUpto(0) = 0 /\ EventsUpto(0) = 0
           /\ \A n \in 1..Len(log) : /\ BytesUpto(n) = BytesUpto(n - 1) + log[n].size
                                     /\ EventsUpto(n) = EventsUpto(n - 1) + Len(Events(n))
           /\ \A n \in 0..Len(log) : /\ BytesUpto(n) \in Nat /\ BytesUpto(n) <= SumOf(Sizes)
                                     /\ EventsUpto(n) \in Nat /\ EventsUpto(n) <= SumOf(EventsIn(log))
           /\ SumOf(Sizes) = BytesUpto(Len(log)) /\ SumOf(EventsIn(log)) = EventsUpto(Len(log))
<1>1. Len(log) \in Nat /\ DOMAIN log = 1..Len(log)
  BY LogShape
<1>2. Sizes \in Seq(Nat) /\ Len(Sizes) = Len(log) /\ \A n \in 1..Len(log) : Sizes[n] = log[n].size
  <2>1. \A n \in 1..Len(log) : log[n].size \in Nat
    BY <1>1, LogShape
  <2>2. Sizes \in [1..Len(log) -> Nat] /\ \A n \in 1..Len(log) : Sizes[n] = log[n].size
    BY <1>1, <2>1 DEF Sizes
  <2> QED BY <1>1, <2>2
<1>3. /\ EventsIn(log) \in Seq(Nat) /\ Len(EventsIn(log)) = Len(log)
      /\ \A n \in 1..Len(log) : EventsIn(log)[n] = Len(Events(n))
  <2> DEFINE counts == EventsIn(log)
  <2>1. counts = [n \in 1..Len(log) |-> Len(Events(n))]
    BY <1>1 DEF EventsIn, Events
  <2>2. \A n \in 1..Len(log) : Len(Events(n)) \in Nat
    BY RecognizedType DEF Events
  <2> HIDE DEF counts
  <2>3. counts \in [1..Len(log) -> Nat] /\ \A n \in 1..Len(log) : counts[n] = Len(Events(n))
    BY <2>1, <2>2
  <2>4. counts \in Seq(Nat) /\ Len(counts) = Len(log)
    BY <1>1, <2>3
  <2> QED BY <2>3, <2>4 DEF counts
<1>4. /\ BytesUpto(0) = 0
      /\ \A n \in 1..Len(log) : BytesUpto(n) = BytesUpto(n - 1) + log[n].size
      /\ \A n \in 0..Len(log) : BytesUpto(n) \in Nat /\ BytesUpto(n) <= SumOf(Sizes)
      /\ SumOf(Sizes) = BytesUpto(Len(log))
  <2> DEFINE f == Sizes
  <2>1. f \in Seq(Nat) /\ Len(f) = Len(log) /\ \A n \in 1..Len(log) : f[n] = log[n].size
    BY <1>2
  <2> HIDE DEF f
  <2>2. /\ Upto(f)[0] = 0
        /\ \A n \in 1..Len(f) : Upto(f)[n] = Upto(f)[n - 1] + f[n]
        /\ SumOf(f) = Upto(f)[Len(f)]
        /\ \A n \in 0..Len(f) : Upto(f)[n] \in Nat /\ Upto(f)[n] <= SumOf(f)
    BY <2>1, RunningSum
  <2> QED BY <2>1, <2>2, Zenon DEF BytesUpto, f
<1>5. /\ EventsUpto(0) = 0
      /\ \A n \in 1..Len(log) : EventsUpto(n) = EventsUpto(n - 1) + Len(Events(n))
      /\ \A n \in 0..Len(log) : EventsUpto(n) \in Nat /\ EventsUpto(n) <= SumOf(EventsIn(log))
      /\ SumOf(EventsIn(log)) = EventsUpto(Len(log))
  <2> DEFINE f == EventsIn(log)
  <2>1. f \in Seq(Nat) /\ Len(f) = Len(log) /\ \A n \in 1..Len(log) : f[n] = Len(Events(n))
    BY <1>3
  <2> HIDE DEF f
  <2>2. /\ Upto(f)[0] = 0
        /\ \A n \in 1..Len(f) : Upto(f)[n] = Upto(f)[n - 1] + f[n]
        /\ SumOf(f) = Upto(f)[Len(f)]
        /\ \A n \in 0..Len(f) : Upto(f)[n] \in Nat /\ Upto(f)[n] <= SumOf(f)
    BY <2>1, RunningSum
  <2> QED BY <2>1, <2>2, Zenon DEF EventsUpto, f
<1> QED BY <1>4, <1>5

\* A log not refused yet is within the limits as far as it is read, and a
\* refused one exceeds them with what follows.
LimitsInv ==
    /\ verdict \in {"reading", "parsed"} =>
          /\ decoded = BytesUpto(next - 1) /\ Len(evidence) = EventsUpto(next - 1)
          /\ \A i \in 1..(next - 1) : log[i].size <= MaxLineBytes
          /\ held <= MaxLineBytes /\ decoded + held <= MaxBytes
          /\ next - 1 <= MaxLines /\ Len(evidence) <= MaxEvidence
    /\ verdict = "parsed" => next = Len(log) + 1
    /\ verdict \in LimitErrors => ~WithinLimits(log)

\* How a log is within its limits.
LEMMA Within ==
    ASSUME TypeOK
    PROVE  WithinLimits(log) <=>
             /\ Len(log) <= MaxLines
             /\ \A i \in 1..Len(log) : log[i].size <= MaxLineBytes
             /\ BytesUpto(Len(log)) <= MaxBytes
             /\ EventsUpto(Len(log)) <= MaxEvidence
<1>1. DOMAIN log = 1..Len(log)
  BY LogShape
<1>2. SumOf(Sizes) = BytesUpto(Len(log)) /\ SumOf(EventsIn(log)) = EventsUpto(Len(log))
  BY Running
<1> QED BY <1>1, <1>2, Zenon DEF WithinLimits, Sizes

LEMMA LimitsInit == ParserInit => LimitsInv
<1> SUFFICES ASSUME ParserInit
             PROVE  LimitsInv
  OBVIOUS
<1>1. TypeOK
  BY InitType
<1>2. next = 1 /\ held = 0 /\ decoded = 0 /\ verdict = "reading" /\ evidence = <<>>
  BY DEF ParserInit
<1>3. decoded = BytesUpto(next - 1) /\ Len(evidence) = EventsUpto(next - 1)
  <2>1. BytesUpto(0) = 0 /\ EventsUpto(0) = 0 /\ next - 1 = 0 /\ Len(evidence) = 0
    BY <1>1, <1>2, Running
  <2> QED BY <1>2, <2>1
<1>4. MaxBytes \in Nat /\ MaxLineBytes \in Nat /\ MaxLines \in Nat /\ MaxEvidence \in Nat
  BY DEF LimitsAssumption
<1>5. Len(evidence) = 0 /\ next - 1 = 0 /\ 1..(next - 1) = {} /\ decoded + held = 0
  BY <1>2
<1> QED BY <1>2, <1>3, <1>4, <1>5 DEF LimitsInv, LimitErrors

LEMMA LimitsStep == TypeOK /\ LimitsInv /\ [ParserNext]_parserVars => LimitsInv'
<1> SUFFICES ASSUME TypeOK, LimitsInv, [ParserNext]_parserVars
             PROVE  LimitsInv'
  OBVIOUS
<1> USE DEF LimitErrors
<1>a. Len(log) \in Nat /\ DOMAIN log = 1..Len(log) /\ next \in Nat \ {0}
  BY LogShape
<1>b. \A n \in 1..Len(log) : log[n].size \in Nat
  BY LogShape
<1>c. MaxBytes \in Nat /\ MaxLineBytes \in Nat /\ MaxLines \in Nat /\ MaxEvidence \in Nat
  BY DEF LimitsAssumption
<1>1. CASE Continue
  <2>1. UNCHANGED log /\ UNCHANGED <<next, decoded, evidence, verdict>> /\ verdict = "reading"
        /\ ~(held' > MaxLineBytes) /\ ~(decoded + held' > MaxBytes)
    BY <1>1 DEF Continue, Untold, log
  <2>3. held' \in Nat /\ decoded \in Nat
    <3>1. held' \in 0..log[next].size /\ log[next].size \in Nat
      BY <1>1, <1>a, <1>b, ChunkIs DEF Continue
    <3>2. decoded \in Nat
      BY DEF TypeOK
    <3> QED BY <3>1, <3>2
  <2>4. held' <= MaxLineBytes /\ decoded + held' <= MaxBytes
    <3>1. ~(held' > MaxLineBytes) /\ ~(decoded + held' > MaxBytes)
      BY <2>1
    <3>2. \A a, b \in Nat : a + b \in Nat /\ (~(a > b) => a <= b)
      OBVIOUS
    <3>3. decoded + held' \in Nat
      BY <2>3, <3>2, Zenon
    <3> QED BY <1>c, <2>3, <3>1, <3>2, <3>3, Zenon
  <2>5. /\ decoded = BytesUpto(next - 1) /\ Len(evidence) = EventsUpto(next - 1)
        /\ \A i \in 1..(next - 1) : log[i].size <= MaxLineBytes
        /\ next - 1 <= MaxLines /\ Len(evidence) <= MaxEvidence
    BY <2>1 DEF LimitsInv
  <2>6. BytesUpto(next - 1)' = BytesUpto(next - 1) /\ EventsUpto(next - 1)' = EventsUpto(next - 1)
    BY <2>1, Zenon DEF BytesUpto, EventsUpto, Sizes
  <2> QED BY <2>1, <2>4, <2>5, <2>6 DEF LimitsInv
<1>2. CASE RefuseLine
  <2>1. UNCHANGED log /\ verdict = "reading" /\ next <= Len(log) /\ next \in 1..Len(log)
    <3>1. UNCHANGED log /\ verdict = "reading" /\ next <= Len(log)
      BY <1>2, Zenon DEF RefuseLine, Untold, log
    <3> QED BY <1>a, <3>1
  <2>2. /\ decoded = BytesUpto(next - 1) /\ Len(evidence) = EventsUpto(next - 1)
    BY <2>1 DEF LimitsInv
  <2>3. /\ BytesUpto(next) = BytesUpto(next - 1) + log[next].size
        /\ EventsUpto(next) = EventsUpto(next - 1) + Len(Events(next))
        /\ BytesUpto(next) \in Nat /\ BytesUpto(next) <= BytesUpto(Len(log))
        /\ EventsUpto(next) \in Nat /\ EventsUpto(next) <= EventsUpto(Len(log))
        /\ BytesUpto(Len(log)) \in Nat /\ EventsUpto(Len(log)) \in Nat
    <3>1. next \in 0..Len(log) /\ Len(log) \in 0..Len(log)
      BY <1>a, <2>1
    <3> QED BY <2>1, <3>1, Running
  <2>4. verdict' = "cancelled" \/ ~WithinLimits(log)
    <3>1. CASE verdict' = "line bytes" /\ held < log[next].size /\ held + ChunkLength > MaxLineBytes
      <4>1. held + ChunkLength \in 0..log[next].size
        BY <2>1, <3>1, ChunkIs
      <4>2. held + ChunkLength > MaxLineBytes /\ log[next].size \in Nat
        BY <1>b, <2>1, <3>1
      <4>3. ~(log[next].size <= MaxLineBytes)
        BY <1>c, <4>1, <4>2
      <4> QED BY <2>1, <4>3, Within
    <3>2. CASE /\ verdict' = "decoded bytes" /\ held < log[next].size
               /\ decoded + (held + ChunkLength) > MaxBytes
      <4>1. held + ChunkLength \in 0..log[next].size
        BY <2>1, <3>2, ChunkIs
      <4>2. decoded + log[next].size <= BytesUpto(Len(log)) /\ decoded \in Nat
        <5>1. decoded \in Nat
          BY DEF TypeOK
        <5> QED BY <2>2, <2>3, <5>1
      <4>3. decoded + (held + ChunkLength) > MaxBytes /\ log[next].size \in Nat
            /\ BytesUpto(Len(log)) \in Nat
        BY <1>b, <2>1, <2>3, <3>2
      <4>4. ~(BytesUpto(Len(log)) <= MaxBytes)
        BY <1>c, <4>1, <4>2, <4>3
      <4> QED BY <4>4, Within
    <3>3. CASE verdict' = "line count" /\ next > MaxLines
      <4>1. next > MaxLines /\ next <= Len(log)
        BY <2>1, <3>3
      <4>2. ~(Len(log) <= MaxLines)
        BY <1>a, <1>c, <4>1
      <4> QED BY <4>2, Within
    <3>4. CASE verdict' = "evidence event count" /\ Len(evidence) + Len(Events(next)) > MaxEvidence
      <4>1. Len(evidence) + Len(Events(next)) = EventsUpto(next)
        BY <2>2, <2>3
      <4>2. EventsUpto(next) > MaxEvidence
        BY <3>4, <4>1
      <4>3. ~(EventsUpto(Len(log)) <= MaxEvidence)
        BY <1>c, <2>3, <4>2
      <4> QED BY <4>3, Within
    <3> QED BY <1>2, <3>1, <3>2, <3>3, <3>4 DEF RefuseLine
  <2>5. verdict' \in LimitErrors \cup {"cancelled"}
    BY <1>2 DEF RefuseLine
  <2>6. WithinLimits(log)' = WithinLimits(log)
    BY <2>1, Zenon DEF WithinLimits
  <2> QED BY <2>1, <2>4, <2>5, <2>6 DEF LimitsInv
<1>3. CASE Accept
  <2>1. /\ UNCHANGED log /\ verdict = "reading" /\ verdict' = "reading"
        /\ next <= Len(log) /\ next \in 1..Len(log)
        /\ next' = next + 1 /\ held' = 0 /\ held = log[next].size /\ decoded' = decoded + held
        /\ next <= MaxLines /\ Len(evidence) + Len(Events(next)) <= MaxEvidence
    <3>1. /\ UNCHANGED log /\ verdict = "reading" /\ verdict' = "reading" /\ next <= Len(log)
          /\ next' = next + 1 /\ held' = 0 /\ held = log[next].size /\ decoded' = decoded + held
          /\ next <= MaxLines /\ Len(evidence) + Len(Events(next)) <= MaxEvidence
      BY <1>3, Zenon DEF Accept, log
    <3> QED BY <1>a, <3>1
  <2>2. /\ decoded = BytesUpto(next - 1) /\ Len(evidence) = EventsUpto(next - 1)
        /\ \A i \in 1..(next - 1) : log[i].size <= MaxLineBytes
        /\ held <= MaxLineBytes /\ decoded + held <= MaxBytes
    BY <2>1 DEF LimitsInv
  <2>3. Len(evidence') = Len(evidence) + Len(Events(next))
    <3>1. evidence \in Seq(ItemType)
      BY DEF TypeOK, ItemType
    <3> QED BY <1>3, <1>a, <3>1, AcceptedItems
  <2>4. /\ BytesUpto(next) = BytesUpto(next - 1) + log[next].size
        /\ EventsUpto(next) = EventsUpto(next - 1) + Len(Events(next))
    BY <2>1, Running
  <2>5. next' - 1 = next /\ BytesUpto(next - 1)' = BytesUpto(next) /\ EventsUpto(next - 1)' = EventsUpto(next)
    <3>1. next' - 1 = next
      BY <1>a, <2>1
    <3> QED BY <2>1, <3>1, Zenon DEF BytesUpto, EventsUpto, Sizes
  <2>6. decoded' = BytesUpto(next) /\ Len(evidence') = EventsUpto(next)
    BY <2>1, <2>2, <2>3, <2>4
  <2>7. \A i \in 1..next : log[i].size <= MaxLineBytes
    BY <1>a, <2>1, <2>2
  <2>8. held' <= MaxLineBytes /\ decoded' + held' <= MaxBytes
    <3>1. decoded \in Nat /\ held \in Nat
      <4>1. decoded \in Nat
        BY DEF TypeOK
      <4> QED BY <1>b, <2>1, <4>1
    <3> QED BY <1>c, <2>1, <2>2, <3>1
  <2> QED BY <2>1, <2>3, <2>5, <2>6, <2>7, <2>8 DEF LimitsInv
<1>4. CASE Finish
  <2>1. /\ UNCHANGED log /\ UNCHANGED <<next, held, decoded>> /\ verdict = "reading" /\ verdict' = "parsed"
        /\ next = Len(log) + 1
    <3>1. next \in 1..(Len(log) + 1)
      BY DEF TypeOK
    <3>2. next > Len(log) /\ verdict = "reading" /\ verdict' = "parsed" /\ UNCHANGED <<next, held, decoded>>
      BY <1>4 DEF Finish
    <3> QED BY <1>4, <1>a, <3>1, <3>2 DEF Finish, log
  <2>2. Len(evidence') = Len(evidence)
    <3>1. evidence \in Seq(ItemType)
      BY DEF TypeOK, ItemType
    <3>2. Len(evidence) \in Nat /\ DOMAIN evidence = 1..Len(evidence)
      BY <3>1
    <3>3. DOMAIN evidence' = 1..Len(evidence) /\ evidence' = [i \in 1..Len(evidence) |-> evidence'[i]]
      BY <1>4, <3>2 DEF Finish
    <3> DEFINE k == Len(evidence)
               R == {evidence'[i] : i \in 1..k}
    <3>4. evidence' \in [1..k -> R]
      BY <3>3
    <3> HIDE DEF k, R
    <3>5. k \in Nat
      BY <3>2 DEF k
    <3>6. Len(evidence') = k
      BY <3>4, <3>5
    <3> QED BY <3>6 DEF k
  <2>3. BytesUpto(next - 1)' = BytesUpto(next - 1) /\ EventsUpto(next - 1)' = EventsUpto(next - 1)
    BY <2>1, Zenon DEF BytesUpto, EventsUpto, Sizes
  <2>4. /\ decoded = BytesUpto(next - 1) /\ Len(evidence) = EventsUpto(next - 1)
        /\ \A i \in 1..(next - 1) : log[i].size <= MaxLineBytes
        /\ held <= MaxLineBytes /\ decoded + held <= MaxBytes
        /\ next - 1 <= MaxLines /\ Len(evidence) <= MaxEvidence
    BY <2>1 DEF LimitsInv
  <2> QED BY <2>1, <2>2, <2>3, <2>4 DEF LimitsInv
<1>5. CASE UNCHANGED parserVars
  <2>1. UNCHANGED <<log, next, held, decoded, evidence, verdict>>
    BY <1>5 DEF parserVars, log
  <2>2. BytesUpto(next - 1)' = BytesUpto(next - 1) /\ EventsUpto(next - 1)' = EventsUpto(next - 1)
        /\ WithinLimits(log)' = WithinLimits(log)
    BY <2>1, Zenon DEF BytesUpto, EventsUpto, Sizes, WithinLimits
  <2> QED BY <2>1, <2>2, Zenon DEF LimitsInv
<1> QED BY <1>1, <1>2, <1>3, <1>4, <1>5, Steps

LEMMA LimitsMeans == TypeOK /\ LimitsInv => RefusedExactlyOverLimits
<1> SUFFICES ASSUME TypeOK, LimitsInv
             PROVE  RefusedExactlyOverLimits
  OBVIOUS
<1>1. ASSUME verdict = "parsed"
      PROVE  WithinLimits(log) /\ Len(evidence) = SumOf(EventsIn(log))
  <2>1. Len(log) \in Nat /\ next - 1 = Len(log)
    BY <1>1, LogShape DEF LimitsInv
  <2>2. /\ decoded = BytesUpto(Len(log)) /\ Len(evidence) = EventsUpto(Len(log))
        /\ \A i \in 1..Len(log) : log[i].size <= MaxLineBytes
        /\ decoded + held <= MaxBytes /\ Len(log) <= MaxLines /\ Len(evidence) <= MaxEvidence
    BY <1>1, <2>1 DEF LimitsInv
  <2>3. held = 0 /\ decoded \in Nat
    <3>1. ~(next <= Len(log))
      BY <2>1, LogShape
    <3> QED BY <3>1, Zenon DEF TypeOK
  <2>4. decoded <= MaxBytes
    BY <2>2, <2>3 DEF LimitsAssumption
  <2>5. WithinLimits(log)
    BY <2>2, <2>4, Within
  <2>6. SumOf(EventsIn(log)) = EventsUpto(Len(log))
    BY Running
  <2> QED BY <2>2, <2>5, <2>6
<1> QED BY <1>1 DEF RefusedExactlyOverLimits, LimitsInv

\* The limits tested chunk by chunk and line by line are those of the whole
\* log: it is refused exactly when it exceeds one, and loses no event otherwise.
THEOREM LogsAreRefusedExactlyOverLimits == ParserSpec => []RefusedExactlyOverLimits
<1>1. ParserInit => TypeOK /\ LimitsInv
  BY InitType, LimitsInit
<1>2. TypeOK /\ LimitsInv /\ [ParserNext]_parserVars => (TypeOK /\ LimitsInv)'
  BY TypeStep, LimitsStep
<1>3. TypeOK /\ LimitsInv => RefusedExactlyOverLimits
  BY LimitsMeans
<1> QED BY <1>1, <1>2, <1>3, PTL DEF ParserSpec

-----------------------------------------------------------------------------
(***************************************************************************)
(* Clocks and the order of evidence.                                       *)
(***************************************************************************)
ClockInv == clock.last # None => clock.last \in 0..(Day - 1)

Dated(e) == e.stamp.origin # "missing"

\* Where a clock stands, on the scale of the evidence it dates.
PositionOf(c) == IF c.date = None THEN Midnight(c.day) + c.last
                 ELSE Midnight(c.date) + c.last - ctx.offset

\* What a line with a time only makes of the clock, and how it is stamped.
LEMMA TimeLine ==
    ASSUME clock \in ClockType, ctx \in Context, NEW line \in Line, line.form = "time",
           NEW time, time = TimeOf(line.at), NEW after, after = ClockAfter(line)
    PROVE  /\ time \in 0..(Day - 1) /\ time \in Int /\ after \in ClockType /\ after.last = time
           /\ PassesMidnight(time) =>
                 /\ after.day = clock.day + 1 /\ clock.last # None
                 /\ after.date = IF clock.date = None THEN None ELSE clock.date + 1
           /\ ~PassesMidnight(time) => after.day = clock.day /\ after.date = clock.date
           /\ clock.date = None <=> after.date = None
           /\ Stamp(line).seq = PositionOf(after) /\ Stamp(line).time = time
           /\ Stamp(line).origin = IF after.date = None THEN "time" ELSE "hinted"
<1>1. line.at \in Int
  BY DEF Line
<1>2. time \in 0..(Day - 1) /\ time \in Int
  BY <1>1, Instants
<1>3. after \in ClockType
  BY ClocksAndStamps
<1>4. clock.date \in Int \cup {None} /\ clock.last \in Int \cup {None} /\ clock.day \in Nat
  BY DEF ClockType
<1>5. clock = [date |-> clock.date, last |-> clock.last, day |-> clock.day]
  BY DEF ClockType
<1>6. ASSUME PassesMidnight(time)
      PROVE  /\ after.last = time /\ after.day = clock.day + 1 /\ clock.last # None
             /\ after.date = IF clock.date = None THEN None ELSE clock.date + 1
  <2>1. after = [date |-> IF clock.date = None THEN None ELSE clock.date + 1,
                 last |-> time, day |-> clock.day + 1]
    BY <1>6, Zenon DEF ClockAfter
  <2>2. clock.last # None
    BY <1>6 DEF PassesMidnight
  <2> QED BY <2>1, <2>2
<1>7. ASSUME ~PassesMidnight(time)
      PROVE  after.last = time /\ after.day = clock.day /\ after.date = clock.date
  <2>1. after = [clock EXCEPT !.last = time]
    BY <1>7, Zenon DEF ClockAfter
  <2> QED BY <1>5, <2>1
<1>8. clock.date = None <=> after.date = None
  <2>1. clock.date # None => clock.date + 1 # None
    BY <1>4
  <2> QED BY <1>6, <1>7, <2>1
<1>9. after.last = time
  BY <1>6, <1>7
<1>10. /\ Stamp(line).seq = PositionOf(after) /\ Stamp(line).time = time
       /\ Stamp(line).origin = IF after.date = None THEN "time" ELSE "hinted"
  <2>1. CASE after.date = None
    <3>1. Stamp(line) = [origin |-> "time", time |-> time, seq |-> after.day * Day + time]
      BY <2>1, Zenon DEF Stamp
    <3> QED BY <1>9, <2>1, <3>1 DEF PositionOf, Midnight
  <2>2. CASE after.date # None
    <3>1. Stamp(line) = Local(ctx, after.date, time, "hinted")
      BY <2>2, Zenon DEF Stamp
    <3>2. after.date \in Int
      BY <1>3, <2>2 DEF ClockType
    <3>3. Stamp(line) = [origin |-> "hinted", time |-> time,
                         seq |-> Midnight(after.date) + time - ctx.offset]
      BY <1>2, <3>1, <3>2, LocalIs
    <3> QED BY <1>9, <2>2, <3>3 DEF PositionOf
  <2> QED BY <2>1, <2>2
<1> QED BY <1>2, <1>3, <1>6, <1>7, <1>8, <1>9, <1>10

\* A line that carries a date as well.
LEMMA DateLine ==
    ASSUME clock \in ClockType, ctx \in Context, NEW line \in Line, line.form = "datetime",
           NEW after, after = ClockAfter(line)
    PROVE  /\ after.last = TimeOf(line.at) /\ after.date = DateOf(line.at) /\ after.date # None
           /\ TimeOf(line.at) \in 0..(Day - 1)
           /\ Stamp(line).origin = "datetime" /\ Stamp(line).seq = line.at - ctx.offset
<1>1. line.at \in Int
  BY DEF Line
<1>2. /\ DateOf(line.at) \in Int /\ TimeOf(line.at) \in Int /\ TimeOf(line.at) \in 0..(Day - 1)
      /\ line.at = Midnight(DateOf(line.at)) + TimeOf(line.at)
  BY <1>1, Instants
<1>3. after = [date |-> DateOf(line.at), last |-> TimeOf(line.at), day |-> 0]
  BY Zenon DEF ClockAfter
<1>4. Stamp(line) = Local(ctx, after.date, TimeOf(line.at), "datetime")
  BY Zenon DEF Stamp
<1>5. after.last = TimeOf(line.at) /\ after.date = DateOf(line.at)
  BY <1>3
<1>6. Stamp(line) = [origin |-> "datetime", time |-> TimeOf(line.at),
                     seq |-> Midnight(DateOf(line.at)) + TimeOf(line.at) - ctx.offset]
  BY <1>2, <1>4, <1>5, LocalIs
<1>7. Stamp(line).origin = "datetime" /\ Stamp(line).seq = line.at - ctx.offset
  <2> DEFINE q == Midnight(DateOf(line.at)) + TimeOf(line.at) - ctx.offset
  <2>1. q = line.at - ctx.offset
    <3> DEFINE t == line.at
               d == DateOf(line.at)
               r == TimeOf(line.at)
    <3>1. t = Midnight(d) + r /\ r \in Int /\ Midnight(d) \in Int
      BY <1>2, Midnights
    <3>2. ctx.offset \in Int
      BY DEF Context
    <3> HIDE DEF t, d, r
    <3>3. Midnight(d) + r - ctx.offset = t - ctx.offset
      BY <3>1, <3>2
    <3> QED BY <3>3 DEF t, d, r
  <2>2. Stamp(line) = [origin |-> "datetime", time |-> TimeOf(line.at), seq |-> q]
    BY <1>6
  <2> HIDE DEF q
  <2>3. Stamp(line).seq = q /\ Stamp(line).origin = "datetime"
    BY <2>2
  <2> QED BY <2>1, <2>3
<1>8. after.date # None
  BY <1>2, <1>5 DEF NoneAssumption
<1> QED BY <1>2, <1>5, <1>7, <1>8

LEMMA BareLine ==
    ASSUME NEW line \in Line, line.form = "none"
    PROVE  ClockAfter(line) = clock /\ Stamp(line).origin = "missing" /\ ~RunsBackwards(line)
<1>1. ClockAfter(line) = clock
  BY Zenon DEF ClockAfter
<1>2. Stamp(line) = Missing
  BY Zenon DEF Stamp
<1>3. Stamp(line).origin = "missing"
  BY <1>2 DEF Missing
<1>4. ~RunsBackwards(line)
  BY DEF RunsBackwards
<1> QED BY <1>1, <1>3, <1>4

\* A line that does not run backwards takes the clock forward.
LEMMA Forward ==
    ASSUME clock \in ClockType, ctx \in Context, ClockInv, clock.last # None,
           NEW line \in Line, line.form = "time", ~RunsBackwards(line)
    PROVE  PositionOf(clock) <= PositionOf(ClockAfter(line))
<1> DEFINE time == TimeOf(line.at)
           after == ClockAfter(line)
           old == PositionOf(clock)
           new == PositionOf(after)
<1>1. /\ time \in 0..(Day - 1) /\ time \in Int /\ after \in ClockType /\ after.last = time
      /\ PassesMidnight(time) =>
            /\ after.day = clock.day + 1
            /\ after.date = IF clock.date = None THEN None ELSE clock.date + 1
      /\ ~PassesMidnight(time) => after.day = clock.day /\ after.date = clock.date
      /\ clock.date = None <=> after.date = None
  BY TimeLine
<1>2. ~PassesMidnight(time) => ~(time < clock.last)
  BY Zenon DEF RunsBackwards
<1>3. clock.last \in 0..(Day - 1) /\ clock.last \in Int /\ clock.day \in Nat /\ clock.day \in Int
      /\ ctx.offset \in Int /\ Day \in Nat
  <2>1. clock.last \in 0..(Day - 1) /\ clock.last \in Int
    BY DEF ClockInv, ClockType
  <2>2. Day \in Nat
    BY Midnights
  <2>3. clock.day \in Nat
    BY DEF ClockType
  <2> QED BY <2>1, <2>2, <2>3 DEF Context
<1> HIDE DEF time, after
<1>4. CASE clock.date = None
  <2>1. old = Midnight(clock.day) + clock.last /\ new = Midnight(after.day) + time
    BY <1>1, <1>4 DEF PositionOf
  <2>2. Midnight(clock.day) \in Int /\ Midnight(clock.day + 1) = Midnight(clock.day) + Day
    BY <1>3, Midnights
  <2> HIDE DEF old, new
  <2>3. CASE PassesMidnight(time)
    <3>1. new = Midnight(clock.day) + Day + time
      BY <1>1, <2>1, <2>2, <2>3
    <3>2. time \in Int /\ 0 <= time
      BY <1>1
    <3>3. clock.last \in Int /\ clock.last < Day
      BY <1>3
    <3>4. old <= new
      BY <1>3, <2>1, <2>2, <3>1, <3>2, <3>3
    <3> QED BY <3>4 DEF old, new, after
  <2>4. CASE ~PassesMidnight(time)
    <3>1. new = Midnight(clock.day) + time
      BY <1>1, <2>1, <2>4
    <3>2. time \in Int /\ ~(time < clock.last)
      BY <1>1, <1>2, <2>4
    <3>3. old <= new
      BY <1>3, <2>1, <2>2, <3>1, <3>2
    <3> QED BY <3>3 DEF old, new, after
  <2> QED BY <2>3, <2>4
<1>5. CASE clock.date # None
  <2>1. old = Midnight(clock.date) + clock.last - ctx.offset
        /\ new = Midnight(after.date) + time - ctx.offset
    BY <1>1, <1>5 DEF PositionOf
  <2>2. Midnight(clock.date) \in Int /\ Midnight(clock.date + 1) = Midnight(clock.date) + Day
    <3>1. clock.date \in Int
      BY <1>5 DEF ClockType
    <3> QED BY <3>1, Midnights
  <2> HIDE DEF old, new
  <2>3. CASE PassesMidnight(time)
    <3>1. new = Midnight(clock.date) + Day + time - ctx.offset
      BY <1>1, <1>5, <2>1, <2>2, <2>3
    <3>2. time \in Int /\ 0 <= time
      BY <1>1
    <3>3. clock.last \in Int /\ clock.last < Day
      BY <1>3
    <3>4. old <= new
      BY <1>3, <2>1, <2>2, <3>1, <3>2, <3>3
    <3> QED BY <3>4 DEF old, new, after
  <2>4. CASE ~PassesMidnight(time)
    <3>1. new = Midnight(clock.date) + time - ctx.offset
      BY <1>1, <2>1, <2>4
    <3>2. time \in Int /\ ~(time < clock.last)
      BY <1>1, <1>2, <2>4
    <3>3. old <= new
      BY <1>3, <2>1, <2>2, <3>1, <3>2
    <3> QED BY <3>3 DEF old, new, after
  <2> QED BY <2>3, <2>4
<1> QED BY <1>4, <1>5

LEMMA ClockStep ==
    /\ ParserInit => ClockInv
    /\ TypeOK /\ ClockInv /\ [ParserNext]_parserVars => ClockInv'
<1>1. ASSUME ParserInit
      PROVE  ClockInv
  BY <1>1 DEF ParserInit, ClockInv
<1>2. ASSUME TypeOK, ClockInv, [ParserNext]_parserVars
      PROVE  ClockInv'
  <2>1. CASE Accept
    <3>1. clock' = ClockAfter(log[next]) /\ log[next] \in Line /\ clock \in ClockType /\ ctx \in Context
      BY <1>2, <2>1, LogShape DEF Accept, TypeOK, ClockType
    <3>2. log[next].form \in {"datetime", "time", "none"}
      BY <3>1 DEF Line, Forms
    <3>3. CASE log[next].form = "datetime"
      BY <3>1, <3>3, DateLine, Zenon DEF ClockInv
    <3>4. CASE log[next].form = "time"
      <4>1. ClockAfter(log[next]).last \in 0..(Day - 1)
        BY <3>1, <3>4, TimeLine
      <4> QED BY <3>1, <4>1 DEF ClockInv
    <3>5. CASE log[next].form = "none"
      BY <1>2, <3>1, <3>5, BareLine, Zenon DEF ClockInv
    <3> QED BY <3>2, <3>3, <3>4, <3>5
  <2>2. CASE Continue \/ RefuseLine \/ Finish \/ UNCHANGED parserVars
    <3>1. UNCHANGED clock
      BY <2>2 DEF Continue, RefuseLine, Untold, Finish, parserVars
    <3> QED BY <1>2, <3>1, Zenon DEF ClockInv
  <2> QED BY <1>2, <2>1, <2>2, Steps
<1> QED BY <1>1, <1>2

\* What an accepted line adds: items with its number and its stamp.
LEMMA Added ==
    ASSUME TypeOK, Accept
    PROVE  /\ Len(evidence) \in Nat /\ DOMAIN evidence = 1..Len(evidence)
           /\ Len(evidence') \in Nat /\ DOMAIN evidence' = 1..Len(evidence')
           /\ \A i \in DOMAIN evidence : evidence[i] \in ItemType
           /\ \A i \in DOMAIN evidence' :
                 \/ i \in DOMAIN evidence /\ evidence'[i] = evidence[i]
                 \/ /\ i \notin DOMAIN evidence
                    /\ evidence'[i].line = next /\ evidence'[i].stamp = Stamp(log[next])
<1>1. evidence \in Seq(ItemType)
  BY DEF TypeOK, ItemType
<1>2. \A i \in DOMAIN evidence : evidence[i] \in ItemType
  BY <1>1
<1>3. /\ Len(evidence) \in Nat /\ DOMAIN evidence = 1..Len(evidence)
      /\ Len(evidence') \in Nat /\ DOMAIN evidence' = 1..Len(evidence')
      /\ \A i \in DOMAIN evidence : i \in DOMAIN evidence' /\ evidence'[i] = evidence[i]
      /\ \A i \in DOMAIN evidence' \ DOMAIN evidence :
             \E k \in 1..Len(Events(next)) : evidence'[i] = Item(next, Events(next)[k])
  BY <1>1, LogShape, AcceptedItems
<1>4. \A n, tag : Item(n, tag).line = n /\ Item(n, tag).stamp = Stamp(log[n])
  BY DEF Item
<1>5. \A i \in DOMAIN evidence' \ DOMAIN evidence :
          evidence'[i].line = next /\ evidence'[i].stamp = Stamp(log[next])
  <2> TAKE i \in DOMAIN evidence' \ DOMAIN evidence
  <2>1. PICK k \in 1..Len(Events(next)) : evidence'[i] = Item(next, Events(next)[k])
    BY <1>3
  <2> QED BY <1>4, <2>1, Zenon
<1> QED BY <1>2, <1>3, <1>5, Zenon

\* Evidence known by its time only moves by as much as any other when it is
\* dated back.
Shift == Midnight(FinalDate - clock.day) - ctx.offset

LEMMA AnchoredShift ==
    ASSUME TypeOK, NEW e \in ItemType, ctx.basis = "final", e.stamp.origin = "time",
           e.stamp.time = TimeOf(e.stamp.seq), DateOf(e.stamp.seq) <= clock.day
    PROVE  /\ Anchored(e).stamp.seq = e.stamp.seq + Shift /\ Anchored(e).stamp.origin = "hinted"
           /\ Anchored(e).line = e.line /\ Shift \in Int
<1> DEFINE q == e.stamp.seq
           d == DateOf(q)
           r == TimeOf(q)
           before == clock.day - d
           s == Local(ctx, FinalDate - before, r, "hinted")
<1>1. q \in Int /\ clock.day \in Int /\ ctx \in Context /\ ctx.offset \in Int
  BY DEF ItemType, StampType, TypeOK, Context
<1>2. d \in Int /\ r \in Int /\ q = Midnight(d) + r
  BY <1>1, Instants
<1>3. FinalDate \in Int
  BY AnchoredType
<1>4. before >= 0 /\ before \in Int
  BY <1>1, <1>2
<1>5. Anchored(e) = [e EXCEPT !.stamp = s]
  BY <1>4, Zenon DEF Anchored, DateOf
<1> HIDE DEF d, r, q
<1>6. Midnight(FinalDate - before) = Midnight(FinalDate - clock.day) + Midnight(d)
  <2>1. FinalDate - before = (FinalDate - clock.day) + d /\ FinalDate - clock.day \in Int
    BY <1>1, <1>2, <1>3
  <2>2. Midnight(FinalDate - clock.day) + Midnight(d) = Midnight((FinalDate - clock.day) + d)
    BY <1>2, <2>1, Midnights
  <2> QED BY <2>1, <2>2
<1>7. s.origin = "hinted" /\ s.seq = Midnight(FinalDate - before) + r - ctx.offset
  <2> DEFINE f == FinalDate - before
             p == Midnight(f) + r - ctx.offset
  <2>1. f \in Int
    BY <1>3, <1>4
  <2> HIDE DEF f
  <2>2. Local(ctx, f, r, "hinted") = [origin |-> "hinted", time |-> r, seq |-> p]
    BY <1>1, <1>2, <2>1, LocalIs
  <2> HIDE DEF p
  <2>3. Local(ctx, f, r, "hinted").origin = "hinted" /\ Local(ctx, f, r, "hinted").seq = p
    BY <2>2
  <2> QED BY <2>3 DEF p, f
<1> HIDE DEF s, before
<1>8. Midnight(FinalDate - clock.day) \in Int /\ Midnight(d) \in Int
  <2>1. FinalDate - clock.day \in Int
    BY <1>1, <1>3
  <2> QED BY <1>2, <2>1, Midnights
<1>9. s.seq = q + Shift /\ Shift \in Int
  <2> DEFINE a == Midnight(FinalDate - clock.day)
             b == Midnight(d)
             c == Midnight(FinalDate - before)
             o == ctx.offset
  <2>1. a \in Int /\ b \in Int /\ o \in Int /\ r \in Int /\ c = a + b /\ q = b + r
    BY <1>1, <1>2, <1>6, <1>8
  <2>2. s.seq = c + r - o
    BY <1>7
  <2>3. Shift = a - o
    BY DEF Shift
  <2> HIDE DEF a, b, c, o
  <2>4. c + r - o = (b + r) + (a - o) /\ a - o \in Int
    BY <2>1
  <2> QED BY <2>1, <2>2, <2>3, <2>4, Zenon
<1>10. e = [line |-> e.line, tag |-> e.tag, stamp |-> e.stamp]
  BY DEF ItemType
<1>11. Anchored(e).stamp = s /\ Anchored(e).line = e.line
  BY <1>5, <1>10
<1> QED BY <1>7, <1>9, <1>11 DEF q

\* An item not after the clock, and dated the way the clock dates.
Behind(e) ==
    /\ clock.last # None /\ e.stamp.seq <= PositionOf(clock)
    /\ e.stamp.origin = IF clock.date = None THEN "time" ELSE "hinted"
    /\ clock.date = None => e.stamp.time = TimeOf(e.stamp.seq)

Ordered ==
    \A i, j \in DOMAIN evidence :
        i < j /\ Dated(evidence[i]) /\ Dated(evidence[j])
            => evidence[i].stamp.seq <= evidence[j].stamp.seq

\* In a quiet log of times only the clock either never knows a date or always
\* does, and all evidence lies behind it.
QuietInv ==
    TimeOnly /\ backwards = 0 =>
        /\ clock.date = None <=> ctx.basis = "final"
        /\ Ordered
        /\ verdict # "parsed" => \A i \in DOMAIN evidence : Dated(evidence[i]) => Behind(evidence[i])

LEMMA QuietInit == ParserInit => QuietInv
<1> SUFFICES ASSUME ParserInit
             PROVE  QuietInv
  OBVIOUS
<1>1. clock.date = InitialDate(ctx) /\ evidence = <<>>
  BY DEF ParserInit, ctx
<1>2. clock.date = None <=> ctx.basis = "final"
  <2>1. TypeOK
    BY InitType
  <2>2. ctx.hint \in Int /\ ctx.basis \in {"first", "final"}
    BY <2>1 DEF TypeOK, Context
  <2> QED BY <1>1, <2>2 DEF InitialDate
<1>3. DOMAIN evidence = {}
  BY <1>1
<1> QED BY <1>2, <1>3 DEF QuietInv, Ordered

LEMMA QuietAccept ==
    ASSUME TypeOK, ClockInv, QuietInv, Accept
    PROVE  QuietInv'
<1> SUFFICES ASSUME TimeOnly, backwards' = 0
             PROVE  /\ clock'.date = None <=> ctx.basis = "final"
                    /\ Ordered'
                    /\ \A i \in DOMAIN evidence' : Dated(evidence'[i]) => Behind(evidence[i])'
  <2>1. UNCHANGED <<log, ctx>>
    BY DEF Accept, log, ctx
  <2>2. TimeOnly' = TimeOnly /\ ctx'.basis = ctx.basis
    BY <2>1 DEF TimeOnly, Clocked
  <2>3. \A i : Dated(evidence[i])' = Dated(evidence'[i])
    BY DEF Dated
  <2> QED BY <2>2, <2>3, Zenon DEF QuietInv
<1> DEFINE line == log[next]
           after == ClockAfter(line)
           old == PositionOf(clock)
           new == PositionOf(after)
<1>1. /\ UNCHANGED <<log, ctx>> /\ clock' = after /\ next \in DOMAIN log /\ line \in Line
      /\ clock \in ClockType /\ ctx \in Context /\ verdict = "reading"
  <2>1. clock \in ClockType /\ ctx \in Context
    BY Zenon DEF TypeOK, ClockType
  <2>2. UNCHANGED <<log, ctx>> /\ clock' = after /\ verdict = "reading" /\ next <= Len(log)
    BY DEF Accept, log, ctx
  <2> QED BY <2>1, <2>2, LogShape
<1>2. backwards = 0 /\ ~RunsBackwards(line)
  <2>1. backwards \in Nat
    BY DEF TypeOK
  <2>2. backwards' = backwards + (IF RunsBackwards(line) THEN 1 ELSE 0)
    BY Zenon DEF Accept
  <2>3. backwards + (IF RunsBackwards(line) THEN 1 ELSE 0) = 0
    BY <2>2
  <2> QED BY <2>1, <2>3
<1>3. /\ clock.date = None <=> ctx.basis = "final"
      /\ Ordered
      /\ \A i \in DOMAIN evidence : Dated(evidence[i]) => Behind(evidence[i])
  BY <1>1, <1>2 DEF QuietInv
<1>4. /\ Len(evidence) \in Nat /\ DOMAIN evidence = 1..Len(evidence)
      /\ Len(evidence') \in Nat /\ DOMAIN evidence' = 1..Len(evidence')
      /\ \A i \in DOMAIN evidence : evidence[i] \in ItemType
      /\ \A i \in DOMAIN evidence' :
            \/ i \in DOMAIN evidence /\ evidence'[i] = evidence[i]
            \/ /\ i \notin DOMAIN evidence
               /\ evidence'[i].line = next /\ evidence'[i].stamp = Stamp(line)
  BY Added
<1>5. CASE line.form = "none"
  <2>1. UNCHANGED clock /\ Stamp(line).origin = "missing"
    BY <1>1, <1>5, BareLine
  <2>2. \A i \in DOMAIN evidence' : Dated(evidence'[i]) => i \in DOMAIN evidence /\ evidence'[i] = evidence[i]
    BY <1>4, <2>1, Zenon DEF Dated
  <2>3. PositionOf(clock)' = PositionOf(clock)
    BY <1>1, <2>1, Zenon DEF PositionOf
  <2>4. \A i : evidence'[i] = evidence[i] => Behind(evidence[i])' = Behind(evidence[i])
    BY <2>1, <2>3, Zenon DEF Behind
  <2>5. Ordered'
    BY <1>3, <2>2, Zenon DEF Ordered, Dated
  <2>6. \A i \in DOMAIN evidence' : Dated(evidence'[i]) => Behind(evidence[i])'
    BY <1>3, <2>2, <2>4, Zenon
  <2> QED BY <1>3, <2>1, <2>5, <2>6, Zenon
<1>6. CASE line.form = "time"
  <2> DEFINE time == TimeOf(line.at)
             s == Stamp(line)
  <2>1. /\ time \in 0..(Day - 1) /\ time \in Int /\ after \in ClockType /\ after.last = time
        /\ clock.date = None <=> after.date = None
        /\ s.seq = new /\ s.time = time
        /\ s.origin = IF after.date = None THEN "time" ELSE "hinted"
    BY <1>1, <1>6, TimeLine
  <2>2. clock.last # None => old <= new
    BY <1>1, <1>2, <1>6, Forward
  <2>3. after.last # None
    BY <2>1
  <2>4. after.date = None => s.time = TimeOf(s.seq)
    <3> SUFFICES ASSUME after.date = None
                 PROVE  time = TimeOf(new)
      BY <2>1
    <3>1. new = Midnight(after.day) + time
      BY <2>1 DEF PositionOf
    <3>2. after.day \in Int
      BY <2>1 DEF ClockType
    <3> HIDE DEF time, after, new
    <3> QED BY <2>1, <3>1, <3>2, InstantOf
  <2>5. old \in Int \/ clock.last = None
    <3>1. clock.last \in Int \cup {None} /\ clock.date \in Int \cup {None} /\ clock.day \in Int /\ ctx.offset \in Int
      BY <1>1 DEF ClockType, Context
    <3>2. Midnight(clock.day) \in Int /\ (clock.date \in Int => Midnight(clock.date) \in Int)
      BY <3>1, Midnights
    <3>3. CASE clock.date = None
      <4>1. old = Midnight(clock.day) + clock.last
        BY <3>3 DEF PositionOf
      <4> HIDE DEF old
      <4> QED BY <3>1, <3>2, <4>1
    <3>4. CASE clock.date # None
      <4>1. old = Midnight(clock.date) + clock.last - ctx.offset
        BY <3>4 DEF PositionOf
      <4> HIDE DEF old
      <4> QED BY <3>1, <3>2, <3>4, <4>1
    <3> QED BY <3>3, <3>4
  <2>6. new \in Int
    <3>1. s \in StampType
      BY <1>1, ClocksAndStamps
    <3>2. s.seq \in Int
      BY <3>1 DEF StampType
    <3> QED BY <2>1, <3>2
  <2> HIDE DEF s, old, new, after, time, line
  <2>7. \A i \in DOMAIN evidence : Dated(evidence[i]) =>
            /\ evidence[i].stamp.seq <= new /\ clock.last # None
            /\ evidence[i].stamp.origin = IF after.date = None THEN "time" ELSE "hinted"
            /\ after.date = None => evidence[i].stamp.time = TimeOf(evidence[i].stamp.seq)
    <3> SUFFICES ASSUME NEW i \in DOMAIN evidence, Dated(evidence[i])
                 PROVE  /\ evidence[i].stamp.seq <= new /\ clock.last # None
                        /\ evidence[i].stamp.origin = IF after.date = None THEN "time" ELSE "hinted"
                        /\ after.date = None => evidence[i].stamp.time = TimeOf(evidence[i].stamp.seq)
      OBVIOUS
    <3>1. Behind(evidence[i])
      BY <1>3
    <3>2. /\ clock.last # None /\ evidence[i].stamp.seq <= old
          /\ evidence[i].stamp.origin = IF clock.date = None THEN "time" ELSE "hinted"
          /\ clock.date = None => evidence[i].stamp.time = TimeOf(evidence[i].stamp.seq)
      BY <3>1, Zenon DEF Behind, old
    <3>3. evidence[i].stamp.seq \in Int
      <4>1. evidence[i] \in ItemType
        BY <1>4
      <4> QED BY <4>1 DEF ItemType, StampType
    <3>4. evidence[i].stamp.seq <= new
      <4> DEFINE q == evidence[i].stamp.seq
      <4>1. q \in Int /\ q <= old /\ old <= new /\ old \in Int
        BY <2>2, <2>5, <3>2, <3>3
      <4> HIDE DEF q
      <4>2. q <= new
        BY <2>6, <4>1
      <4> QED BY <4>2 DEF q
    <3> QED BY <2>1, <3>2, <3>4, Zenon
  <2>8. \A i \in DOMAIN evidence' : Dated(evidence'[i]) =>
            /\ evidence'[i].stamp.seq <= new
            /\ evidence'[i].stamp.origin = IF after.date = None THEN "time" ELSE "hinted"
            /\ after.date = None => evidence'[i].stamp.time = TimeOf(evidence'[i].stamp.seq)
            /\ i \notin DOMAIN evidence => evidence'[i].stamp.seq = new
    <3> SUFFICES ASSUME NEW i \in DOMAIN evidence', Dated(evidence'[i])
                 PROVE  /\ evidence'[i].stamp.seq <= new
                        /\ evidence'[i].stamp.origin = IF after.date = None THEN "time" ELSE "hinted"
                        /\ after.date = None => evidence'[i].stamp.time = TimeOf(evidence'[i].stamp.seq)
                        /\ i \notin DOMAIN evidence => evidence'[i].stamp.seq = new
      OBVIOUS
    <3>1. CASE i \in DOMAIN evidence /\ evidence'[i] = evidence[i]
      BY <2>7, <3>1, Zenon
    <3>2. CASE i \notin DOMAIN evidence /\ evidence'[i].stamp = s
      <4>1. new <= new
        BY <2>6
      <4> QED BY <2>1, <2>4, <3>2, <4>1, Zenon
    <3> QED BY <1>4, <3>1, <3>2, Zenon DEF s
  <2>9. PositionOf(clock)' = new
    BY <1>1, Zenon DEF PositionOf, new
  <2>10. \A i \in DOMAIN evidence' : Dated(evidence'[i]) => Behind(evidence[i])'
    BY <1>1, <2>3, <2>8, <2>9, Zenon DEF Behind
  <2>11. Ordered'
    <3> SUFFICES ASSUME NEW i \in DOMAIN evidence', NEW j \in DOMAIN evidence', i < j,
                        Dated(evidence'[i]), Dated(evidence'[j])
                 PROVE  evidence'[i].stamp.seq <= evidence'[j].stamp.seq
      BY DEF Ordered, Dated
    <3>1. CASE j \in DOMAIN evidence
      <4>1. i \in DOMAIN evidence
        BY <1>4, <3>1
      <4>2. evidence'[i] = evidence[i] /\ evidence'[j] = evidence[j]
        BY <1>4, <3>1, <4>1
      <4> QED BY <1>3, <3>1, <4>1, <4>2, Zenon DEF Ordered
    <3>2. CASE j \notin DOMAIN evidence
      BY <2>8, <3>2, Zenon
    <3> QED BY <3>1, <3>2
  <2> QED BY <1>1, <1>3, <2>1, <2>10, <2>11, Zenon
<1>7. line.form \in {"time", "none"}
  <2>1. line.form \in {"datetime", "time", "none"}
    BY <1>1 DEF Line, Forms
  <2>2. line.form # "none" => line.form = "time"
    BY <1>1, Zenon DEF TimeOnly, Clocked
  <2> QED BY <2>1, <2>2
<1> QED BY <1>5, <1>6, <1>7

\* What the end of the stream makes of the evidence.
LEMMA Ended ==
    ASSUME TypeOK, Finish
    PROVE  /\ DOMAIN evidence' = DOMAIN evidence
           /\ \A i \in DOMAIN evidence :
                 evidence[i] \in ItemType /\ evidence'[i] = Anchored(evidence[i])
<1>1. evidence \in Seq(ItemType)
  BY DEF TypeOK, ItemType
<1>2. \A i \in DOMAIN evidence : evidence[i] \in ItemType
  BY <1>1
<1>3. evidence' = [i \in DOMAIN evidence |-> Anchored(evidence[i])]
  BY DEF Finish
<1> QED BY <1>2, <1>3, Zenon

LEMMA QuietFinish ==
    ASSUME TypeOK, ClockInv, QuietInv, Finish
    PROVE  QuietInv'
<1>1. /\ UNCHANGED <<log, ctx, clock, backwards>> /\ verdict = "reading" /\ verdict' = "parsed"
      /\ ctx \in Context /\ clock \in ClockType
  <2>1. ctx \in Context /\ clock \in ClockType
    BY Zenon DEF TypeOK, ClockType
  <2> QED BY <2>1 DEF Finish, log, ctx
<1>2. TimeOnly' = TimeOnly /\ ctx'.basis = ctx.basis
  BY <1>1 DEF TimeOnly, Clocked
<1> SUFFICES ASSUME TimeOnly, backwards = 0
             PROVE  Ordered'
  BY <1>1, <1>2, Zenon DEF QuietInv
<1>3. /\ clock.date = None <=> ctx.basis = "final"
      /\ Ordered
      /\ \A i \in DOMAIN evidence : Dated(evidence[i]) => Behind(evidence[i])
  BY <1>1 DEF QuietInv
<1>4. /\ DOMAIN evidence' = DOMAIN evidence
      /\ \A i \in DOMAIN evidence : evidence[i] \in ItemType /\ evidence'[i] = Anchored(evidence[i])
  BY Ended
<1>5. CASE ctx.basis # "final"
  <2>1. \A i \in DOMAIN evidence : evidence'[i] = evidence[i]
    BY <1>4, <1>5, Zenon DEF Anchored
  <2> QED BY <1>3, <1>4, <2>1, Zenon DEF Ordered, Dated
<1>6. CASE ctx.basis = "final"
  <2>1. ASSUME NEW i \in DOMAIN evidence, Dated(evidence'[i])
        PROVE  /\ Dated(evidence[i]) /\ Shift \in Int /\ evidence[i].stamp.seq \in Int
               /\ evidence'[i].stamp.seq = evidence[i].stamp.seq + Shift
    <3> DEFINE e == evidence[i]
               q == e.stamp.seq
    <3>1. e \in ItemType /\ evidence'[i] = Anchored(e) /\ q \in Int
      <4>1. \A x \in ItemType : x.stamp.seq \in Int
        BY DEF ItemType, StampType
      <4> QED BY <1>4, <4>1
    <3>2. Dated(e)
      <4> SUFFICES ASSUME ~Dated(e)
                   PROVE  FALSE
        OBVIOUS
      <4>1. Anchored(e) = e
        BY Zenon DEF Dated, Anchored
      <4> QED BY <2>1, <3>1, <4>1, Zenon
    <3>3. Behind(e) /\ clock.date = None
      BY <1>3, <1>6, <3>2
    <3>4. /\ e.stamp.origin = "time" /\ e.stamp.time = TimeOf(q)
          /\ q <= Midnight(clock.day) + clock.last /\ clock.last # None
      BY <3>3, Zenon DEF Behind, PositionOf
    <3>5. DateOf(q) <= clock.day
      <4>1. clock.last \in 0..(Day - 1) /\ clock.day \in Int
        BY <1>1, <3>4 DEF ClockInv, ClockType
      <4> HIDE DEF q
      <4> QED BY <3>1, <3>4, <4>1, NotLaterDay
    <3>6. Anchored(e).stamp.seq = q + Shift /\ Shift \in Int
      <4> HIDE DEF e
      <4> QED BY <1>6, <3>1, <3>4, <3>5, AnchoredShift
    <3> QED BY <3>1, <3>2, <3>6
  <2> SUFFICES ASSUME NEW i \in DOMAIN evidence, NEW j \in DOMAIN evidence, i < j,
                      Dated(evidence'[i]), Dated(evidence'[j])
               PROVE  evidence'[i].stamp.seq <= evidence'[j].stamp.seq
    BY <1>4 DEF Ordered, Dated
  <2> DEFINE p == evidence[i].stamp.seq
             q == evidence[j].stamp.seq
  <2>2. p \in Int /\ q \in Int /\ Shift \in Int /\ p <= q
    <3>1. Dated(evidence[i]) /\ Dated(evidence[j])
      BY <2>1
    <3>2. p <= q
      BY <1>3, <3>1, Zenon DEF Ordered
    <3> QED BY <2>1, <3>2
  <2>3. evidence'[i].stamp.seq = p + Shift /\ evidence'[j].stamp.seq = q + Shift
    BY <2>1
  <2> HIDE DEF p, q
  <2>4. p + Shift <= q + Shift
    BY <2>2
  <2> QED BY <2>3, <2>4, Zenon
<1> QED BY <1>5, <1>6

LEMMA QuietStep == TypeOK /\ ClockInv /\ QuietInv /\ [ParserNext]_parserVars => QuietInv'
<1> SUFFICES ASSUME TypeOK, ClockInv, QuietInv, [ParserNext]_parserVars
             PROVE  QuietInv'
  OBVIOUS
<1>1. CASE Continue \/ RefuseLine \/ UNCHANGED parserVars
  <2>1. UNCHANGED <<log, ctx, clock, evidence, backwards>> /\ (verdict' # "parsed" => verdict # "parsed")
    BY <1>1 DEF Continue, RefuseLine, Untold, parserVars, log, ctx
  <2>2. TimeOnly' = TimeOnly /\ Ordered' = Ordered /\ ctx'.basis = ctx.basis
    BY <2>1 DEF TimeOnly, Clocked, Ordered, Dated
  <2>3. \A i : Behind(evidence[i])' = Behind(evidence[i]) /\ Dated(evidence[i])' = Dated(evidence[i])
    BY <2>1, Zenon DEF Behind, PositionOf, Dated
  <2> QED BY <2>1, <2>2, <2>3, Zenon DEF QuietInv
<1> QED BY <1>1, QuietAccept, QuietFinish, Steps

\* What a log of times only with no reported step back tells never runs back,
\* neither while it is read nor when it is dated back from its last day.
THEOREM QuietEvidenceRunsForward == ParserSpec => []QuietLogsRunForward
<1> DEFINE Inv == TypeOK /\ ClockInv /\ QuietInv
<1>1. ParserInit => Inv
  BY InitType, ClockStep, QuietInit
<1>2. Inv /\ [ParserNext]_parserVars => Inv'
  BY TypeStep, ClockStep, QuietStep
<1>3. Inv => QuietLogsRunForward
  BY Zenon DEF QuietInv, Ordered, Dated, QuietLogsRunForward
<1> QED BY <1>1, <1>2, <1>3, PTL DEF ParserSpec

-----------------------------------------------------------------------------
(***************************************************************************)
(* Instants.  The clock stands at the last clocked line that was read: by  *)
(* the calendar, or by the days since the log began when nothing tells the *)
(* date until its end.                                                     *)
(***************************************************************************)
Undated == ctx.basis = "final" /\ TimeOnly
ClockedBefore(n) == {i \in Clocked : i < n}

\* The midnight before an undated log: its clock counts days from there.
DayZero == Midnight(DateOf(log[FirstClocked].at))

\* The clock after line c, read last.
ClockAt(c) ==
    /\ clock.last = TimeOf(log[c].at)
    /\ IF Undated
       THEN clock.date = None /\ Midnight(clock.day) + clock.last = log[c].at - DayZero
       ELSE clock.date = DateOf(log[c].at)

DatedBack(e) ==
    e.stamp.origin # "time" /\ e.stamp.seq = log[e.line].at - ctx.offset
NotDatedYet(e) ==
    /\ e.stamp.origin = "time" /\ e.stamp.time = TimeOf(e.stamp.seq)
    /\ e.stamp.seq = log[e.line].at - DayZero
    /\ e.stamp.seq <= Midnight(clock.day) + clock.last

ExactInv ==
    Steady /\ Placed =>
        /\ ClockedBefore(next) = {} =>
              clock = [date |-> InitialDate(ctx), last |-> None, day |-> 0]
        /\ \A c \in ClockedBefore(next) : (\A k \in ClockedBefore(next) : k <= c) => ClockAt(c)
        /\ \A i \in DOMAIN evidence : Dated(evidence[i]) =>
              /\ evidence[i].line \in ClockedBefore(next)
              /\ IF Undated /\ verdict # "parsed" THEN NotDatedYet(evidence[i])
                 ELSE DatedBack(evidence[i])

\* Two instants less than half a day apart: the time of day falls by more than
\* half a day just when a midnight lies between them.
LEMMA Rollover ==
    ASSUME NEW t \in Int, NEW u \in Int, u - t \in 0..(HalfADay - 1)
    PROVE  /\ TimeOf(t) - TimeOf(u) > HalfADay => DateOf(u) = DateOf(t) + 1
           /\ ~(TimeOf(t) - TimeOf(u) > HalfADay) => DateOf(u) = DateOf(t)
<1> DEFINE d == DateOf(t)
           e == DateOf(u)
           r == TimeOf(t)
           s == TimeOf(u)
<1>1. /\ d \in Int /\ r \in 0..(Day - 1) /\ r \in Int /\ t = Midnight(d) + r
      /\ e \in Int /\ s \in 0..(Day - 1) /\ s \in Int /\ u = Midnight(e) + s
  BY Instants
<1>2. Day \in Nat /\ HalfADay \in Nat \ {0} /\ Day = HalfADay + HalfADay
  BY Midnights
<1> HIDE DEF d, e, r, s
<1> DEFINE a == Midnight(d)
           b == Midnight(e)
           h == HalfADay
<1>3. /\ a \in Int /\ b \in Int
      /\ e < d => b + Day <= a
      /\ d + 1 < e => a + Day + Day <= b
      /\ Midnight(d + 1) = a + Day
  <2>1. d + 1 \in Int
    BY <1>1
  <2>2. /\ a \in Int /\ b \in Int /\ Midnight(d + 1) = a + Day
        /\ e < d => b + Day <= a
        /\ d + 1 < e => Midnight(d + 1) + Day <= b
    BY <1>1, <2>1, Midnights
  <2> QED BY <2>2
<1>4. t = a + r /\ u = b + s /\ e = d + 1 => b = a + Day
  BY <1>1, <1>3
<1>5. e = d => b = a
  OBVIOUS
<1>6. 0 <= r /\ r < Day /\ 0 <= s /\ s < Day /\ 0 <= u - t /\ u - t < h /\ h \in Int
      /\ t = a + r /\ u = b + s
  BY <1>1, <1>2
<1> HIDE DEF a, b, h
<1>7. ~(e < d)
  BY <1>1, <1>2, <1>3, <1>6
<1>8. ~(d + 1 < e)
  <2>1. Day = h + h
    BY <1>2 DEF h
  <2> QED BY <1>1, <1>2, <1>3, <1>6, <2>1
<1>9. e = d \/ e = d + 1
  BY <1>1, <1>7, <1>8
<1>10. CASE e = d
  <2>1. b = a
    BY <1>5, <1>10
  <2>2. ~(r - s > h)
    BY <1>1, <1>3, <1>6, <2>1
  <2> QED BY <1>10, <2>2 DEF d, e, r, s, h
<1>11. CASE e = d + 1
  <2>1. b = a + Day /\ Day = h + h
    BY <1>2, <1>4, <1>6, <1>11 DEF h
  <2>2. r - s > h
    BY <1>1, <1>2, <1>3, <1>6, <2>1
  <2> QED BY <1>11, <2>2 DEF d, e, r, s, h
<1> QED BY <1>9, <1>10, <1>11

\* Of the clocked lines there is a first, a last, and a last one read.
LEMMA ClockedLines ==
    ASSUME TypeOK
    PROVE  /\ Clocked \subseteq 1..Len(log)
           /\ Clocked # {} => /\ FirstClocked \in Clocked /\ \A i \in Clocked : FirstClocked <= i
                              /\ LastClocked \in Clocked /\ \A i \in Clocked : i <= LastClocked
           /\ \A n : ClockedBefore(n) # {} =>
                 \E c \in ClockedBefore(n) : \A k \in ClockedBefore(n) : k <= c
<1>1. Len(log) \in Nat /\ DOMAIN log = 1..Len(log)
  BY LogShape
<1>2. Clocked \subseteq 1..Len(log)
  BY <1>1 DEF Clocked
<1>3. \A S \in SUBSET (1..Len(log)) : S # {} => \E c \in S : \A k \in S : k <= c
  <2> SUFFICES ASSUME NEW S \in SUBSET (1..Len(log)), S # {}
               PROVE  \E c \in S : \A k \in S : k <= c
    OBVIOUS
  <2>1. S \in SUBSET (0..Len(log))
    BY <1>1
  <2> QED BY <1>1, <2>1, GreatestNatural
<1>4. \A S \in SUBSET (1..Len(log)) : S # {} => \E c \in S : \A k \in S : c <= k
  <2> SUFFICES ASSUME NEW S \in SUBSET (1..Len(log)), S # {}
               PROVE  \E c \in S : \A k \in S : c <= k
    OBVIOUS
  <2>1. S \in SUBSET Nat
    BY <1>1
  <2> QED BY <2>1, LeastNatural
<1>5. ASSUME Clocked # {}
      PROVE  /\ FirstClocked \in Clocked /\ \A i \in Clocked : FirstClocked <= i
             /\ LastClocked \in Clocked /\ \A i \in Clocked : i <= LastClocked
  <2>1. (\E c \in Clocked : \A k \in Clocked : k <= c) /\ \E c \in Clocked : \A k \in Clocked : c <= k
    BY <1>2, <1>3, <1>4, <1>5
  <2> HIDE DEF Clocked
  <2> QED BY <2>1, Zenon DEF FirstClocked, LastClocked
<1>6. \A n : ClockedBefore(n) \in SUBSET (1..Len(log))
  BY <1>2 DEF ClockedBefore
<1> QED BY <1>2, <1>3, <1>5, <1>6, Zenon

\* A log that nothing dates until its end, and one that is dated as it is read.
LEMMA Placement ==
    ASSUME TypeOK, Placed, Clocked # {}
    PROVE  /\ Undated => /\ ctx.end - log[LastClocked].at \in 0..(HalfADay - 1)
                         /\ log[FirstClocked].form = "time"
           /\ ~Undated => \/ log[FirstClocked].form = "datetime"
                          \/ ctx.basis = "first" /\ DateOf(log[FirstClocked].at) = ctx.hint
<1>1. FirstClocked \in Clocked
  BY ClockedLines
<1>2. TimeOnly => log[FirstClocked].form = "time"
  BY <1>1, Zenon DEF TimeOnly
<1>3. ctx.basis = "final" => ~(ctx.basis = "first")
  OBVIOUS
<1>4. log[FirstClocked].form = "time" => ~(log[FirstClocked].form = "datetime")
  OBVIOUS
<1> QED BY <1>2, <1>3, <1>4, Zenon DEF Placed, Undated

\* How the clock gets from one clocked line to the next.
LEMMA ClockReaches ==
    ASSUME TypeOK, ExactInv, Steady, Placed, next \in Clocked,
           NEW after, after = ClockAfter(log[next])
    PROVE  /\ after.last = TimeOf(log[next].at) /\ DayZero \in Int
           /\ Undated => after.date = None /\ Midnight(after.day) + after.last = log[next].at - DayZero
           /\ ~Undated => after.date = DateOf(log[next].at)
           /\ Undated /\ ClockedBefore(next) # {} =>
                 Midnight(clock.day) + clock.last <= log[next].at - DayZero
<1> DEFINE line == log[next]
           u == line.at
           time == TimeOf(u)
<1>1. /\ line \in Line /\ u \in Int /\ line.form \in {"datetime", "time"}
      /\ clock \in ClockType /\ ctx \in Context /\ next \in 1..Len(log) /\ next \in Int
  <2>1. line \in Line /\ u \in Int /\ line.form \in Forms /\ line.form # "none" /\ next \in 1..Len(log)
        /\ next \in Int
    BY LogShape DEF Clocked
  <2>2. clock \in ClockType /\ ctx \in Context
    BY Zenon DEF TypeOK, ClockType
  <2> QED BY <2>1, <2>2 DEF Forms
<1>2. /\ time \in 0..(Day - 1) /\ time \in Int /\ DateOf(u) \in Int /\ u = Midnight(DateOf(u)) + time
      /\ Midnight(DateOf(u)) \in Int
  BY <1>1, Instants, Midnights
<1>3. /\ FirstClocked \in Clocked /\ \A i \in Clocked : FirstClocked <= i
      /\ log[FirstClocked].at \in Int /\ DayZero \in Int
  <2>1. FirstClocked \in Clocked /\ \A i \in Clocked : FirstClocked <= i
    BY ClockedLines
  <2>2. log[FirstClocked].at \in Int
    BY <2>1, LogShape DEF Clocked
  <2>3. DateOf(log[FirstClocked].at) \in Int
    BY <2>2, Instants
  <2>4. DayZero \in Int
    BY <2>3, Midnights DEF DayZero
  <2> QED BY <2>1, <2>2, <2>4
<1>4. CASE line.form = "datetime"
  <2>1. after.last = time /\ after.date = DateOf(u)
    BY <1>1, <1>4, DateLine
  <2>2. ~Undated
    BY <1>4, Zenon DEF Undated, TimeOnly
  <2> QED BY <1>3, <2>1, <2>2
<1>5. CASE line.form = "time"
  <2>1. /\ after \in ClockType /\ after.last = time
        /\ PassesMidnight(time) =>
              /\ after.day = clock.day + 1 /\ clock.last # None
              /\ after.date = IF clock.date = None THEN None ELSE clock.date + 1
        /\ ~PassesMidnight(time) => after.day = clock.day /\ after.date = clock.date
        /\ clock.date = None <=> after.date = None
    BY <1>1, <1>5, TimeLine
  <2>2. CASE ClockedBefore(next) = {}
    <3>1. clock = [date |-> InitialDate(ctx), last |-> None, day |-> 0]
      BY <2>2 DEF ExactInv
    <3>2. clock.date = InitialDate(ctx) /\ clock.last = None /\ clock.day = 0
      BY <3>1
    <3>3. ~PassesMidnight(time)
      BY <3>2 DEF PassesMidnight
    <3>4. after.day = 0 /\ after.date = InitialDate(ctx)
      BY <2>1, <3>2, <3>3
    <3>5. FirstClocked = next
      <4>1. ~(FirstClocked < next)
        BY <1>3, <2>2 DEF ClockedBefore
      <4>2. FirstClocked <= next /\ FirstClocked \in Int
        <5>1. \A i \in Clocked : i \in Int
          BY LogShape DEF Clocked
        <5> QED BY <1>3, <5>1
      <4> QED BY <1>1, <4>1, <4>2
    <3>6. ASSUME Undated
          PROVE  after.date = None /\ Midnight(after.day) + after.last = u - DayZero
      <4>1. after.date = None
        BY <3>4, <3>6 DEF Undated, InitialDate
      <4>2. DayZero = Midnight(DateOf(u))
        BY <3>5, Zenon DEF DayZero
      <4>3. Midnight(after.day) = 0
        BY <3>4, Midnights
      <4> DEFINE b == Midnight(DateOf(u))
      <4>4. u = b + time /\ b \in Int
        BY <1>2
      <4> HIDE DEF u, time, b
      <4>5. 0 + time = u - b
        BY <1>2, <4>4
      <4> QED BY <2>1, <4>1, <4>2, <4>3, <4>5, Zenon DEF b
    <3>7. ASSUME ~Undated
          PROVE  after.date = DateOf(u)
      <4>1. ctx.basis = "first" /\ DateOf(u) = ctx.hint
        <5>1. \/ line.form = "datetime"
              \/ ctx.basis = "first" /\ DateOf(u) = ctx.hint
          BY <3>5, <3>7, Placement
        <5> QED BY <1>5, <5>1
      <4> QED BY <3>4, <4>1 DEF InitialDate
    <3> QED BY <1>3, <2>1, <2>2, <3>6, <3>7
  <2>3. CASE ClockedBefore(next) # {}
    <3>1. PICK c \in ClockedBefore(next) : \A k \in ClockedBefore(next) : k <= c
      BY <2>3, ClockedLines
    <3> DEFINE t == log[c].at
    <3>2. c \in Clocked /\ c < next /\ c \in Int /\ t \in Int
      BY <3>1, LogShape DEF ClockedBefore, Clocked
    <3>3. ClockAt(c)
      BY <3>1, Zenon DEF ExactInv
    <3>4. u - t \in 0..(HalfADay - 1)
      <4>1. \A k \in Clocked : k <= c \/ next <= k
        <5>1. \A k \in Clocked : k \in Int
          BY LogShape DEF Clocked
        <5>2. \A k \in Clocked : k < next => k <= c
          BY <3>1, Zenon DEF ClockedBefore
        <5>3. next \in Int
          BY <1>1
        <5> HIDE DEF Clocked
        <5> QED BY <5>1, <5>2, <5>3
      <4> QED BY <3>2, <4>1, Zenon DEF Steady
    <3>5. clock.last = TimeOf(t) /\ clock.last # None /\ TimeOf(t) \in Int
          /\ TimeOf(t) \in 0..(Day - 1) /\ DateOf(t) \in Int /\ t = Midnight(DateOf(t)) + TimeOf(t)
      <4>1. clock.last = TimeOf(t)
        BY <3>3 DEF ClockAt
      <4> HIDE DEF t
      <4>2. TimeOf(t) \in Int /\ TimeOf(t) \in 0..(Day - 1) /\ DateOf(t) \in Int
            /\ t = Midnight(DateOf(t)) + TimeOf(t)
        BY <3>2, Instants
      <4> QED BY <4>1, <4>2 DEF NoneAssumption
    <3>6. /\ PassesMidnight(time) => DateOf(u) = DateOf(t) + 1
          /\ ~PassesMidnight(time) => DateOf(u) = DateOf(t)
      <4>1. /\ TimeOf(t) - time > HalfADay => DateOf(u) = DateOf(t) + 1
            /\ ~(TimeOf(t) - time > HalfADay) => DateOf(u) = DateOf(t)
        <5> HIDE DEF t, u
        <5> QED BY <1>1, <3>2, <3>4, Rollover
      <4> QED BY <3>5, <4>1, Zenon DEF PassesMidnight
    <3>7. ASSUME ~Undated
          PROVE  after.date = DateOf(u)
      <4>1. clock.date = DateOf(t) /\ clock.date # None
        <5>1. clock.date = DateOf(t)
          BY <3>3, <3>7 DEF ClockAt
        <5> QED BY <3>5, <5>1 DEF NoneAssumption
      <4> QED BY <2>1, <3>6, <4>1
    <3>8. ASSUME Undated
          PROVE  /\ after.date = None /\ Midnight(after.day) + after.last = u - DayZero
                 /\ Midnight(clock.day) + clock.last <= u - DayZero
      <4>1. clock.date = None /\ Midnight(clock.day) + TimeOf(t) = t - DayZero
        BY <3>3, <3>5, <3>8 DEF ClockAt
      <4>2. clock.day \in Int
        BY <1>1 DEF ClockType
      <4> DEFINE a == Midnight(clock.day)
                 b == Midnight(DateOf(t))
                 e == Midnight(DateOf(u))
                 f == Midnight(after.day)
                 r == TimeOf(t)
                 z == DayZero
                 h == HalfADay
      <4>3. /\ a \in Int /\ b \in Int /\ e \in Int /\ z \in Int /\ r \in Int /\ t \in Int /\ u \in Int
            /\ t = b + r /\ u = e + time /\ a + r = t - z /\ time \in Int
        <5>1. a \in Int /\ b \in Int /\ e \in Int
          BY <1>2, <3>5, <4>2, Midnights
        <5>2. u = e + time
          BY <1>2
        <5>3. t = b + r
          BY <3>5
        <5>4. a + r = t - z
          BY <4>1
        <5>5. z \in Int /\ r \in Int /\ t \in Int /\ u \in Int /\ time \in Int
          BY <1>1, <1>2, <1>3, <3>2, <3>5
        <5> HIDE DEF a, b, e, r, z, t, u, time
        <5> QED BY <5>1, <5>2, <5>3, <5>4, <5>5
      <4>4. Midnight(clock.day + 1) = a + Day /\ Midnight(DateOf(t) + 1) = b + Day /\ Day \in Int
        <5>1. \A d \in Int : Midnight(d + 1) = Midnight(d) + Day
          BY Midnights
        <5>2. DateOf(t) \in Int
          BY <3>5
        <5>3. Day \in Int
          BY Midnights
        <5> QED BY <4>2, <5>1, <5>2, <5>3, Zenon
      <4>5. \/ f = a + Day /\ e = b + Day
            \/ f = a /\ e = b
        <5>1. CASE PassesMidnight(time)
          BY <2>1, <3>6, <4>4, <5>1, Zenon
        <5>2. CASE ~PassesMidnight(time)
          BY <2>1, <3>6, <5>2, Zenon
        <5> QED BY <5>1, <5>2
      <4>6. u - t \in Int /\ 0 <= u - t
        BY <3>4
      <4> HIDE DEF a, b, e, f, r, z, h, t, u, time
      <4>7. f + time = u - z /\ a + r <= u - z
        BY <4>3, <4>4, <4>5, <4>6
      <4>8. after.date = None
        BY <2>1, <4>1
      <4> QED BY <2>1, <3>5, <4>7, <4>8, Zenon DEF a, f, r, z
    <3> QED BY <1>3, <2>1, <3>7, <3>8
  <2> QED BY <2>2, <2>3
<1> QED BY <1>1, <1>4, <1>5

LEMMA ExactInit == ParserInit => ExactInv
<1> SUFFICES ASSUME ParserInit
             PROVE  ExactInv
  OBVIOUS
<1>1. TypeOK
  BY InitType
<1>2. clock = [date |-> InitialDate(ctx), last |-> None, day |-> 0] /\ evidence = <<>> /\ next = 1
  BY DEF ParserInit, ctx
<1>3. ClockedBefore(next) = {}
  <2>1. Clocked \subseteq 1..Len(log) /\ Len(log) \in Nat
    BY <1>1, ClockedLines, LogShape
  <2>2. \A i \in Clocked : i \in Int /\ 1 <= i
    BY <2>1
  <2> HIDE DEF Clocked
  <2> QED BY <1>2, <2>2 DEF ClockedBefore
<1>4. DOMAIN evidence = {}
  BY <1>2
<1> QED BY <1>2, <1>3, <1>4, Zenon DEF ExactInv

LEMMA ExactAccept ==
    ASSUME TypeOK, ClockInv, ExactInv, Accept
    PROVE  ExactInv'
<1> DEFINE line == log[next]
           after == ClockAfter(line)
           u == line.at
           s == Stamp(line)
<1>1. /\ UNCHANGED <<log, ctx>> /\ clock' = after /\ next \in DOMAIN log /\ next \in Int /\ next' = next + 1
      /\ line \in Line /\ clock \in ClockType /\ ctx \in Context
      /\ verdict = "reading" /\ verdict' = "reading"
  <2>1. clock \in ClockType /\ ctx \in Context
    BY Zenon DEF TypeOK, ClockType
  <2>2. UNCHANGED <<log, ctx>> /\ clock' = after /\ verdict = "reading" /\ next <= Len(log)
        /\ verdict' = "reading" /\ next' = next + 1
    BY DEF Accept, log, ctx
  <2> QED BY <2>1, <2>2, LogShape
<1>2. /\ Steady' = Steady /\ Placed' = Placed /\ Undated' = Undated /\ DayZero' = DayZero
      /\ Clocked' = Clocked
  BY <1>1, Zenon DEF Steady, Placed, Undated, DayZero, Clocked, TimeOnly, FirstClocked, LastClocked
<1> SUFFICES ASSUME Steady, Placed
             PROVE  ExactInv'
  BY <1>2, Zenon DEF ExactInv
<1>3. /\ ClockedBefore(next) = {} => clock = [date |-> InitialDate(ctx), last |-> None, day |-> 0]
      /\ \A c \in ClockedBefore(next) : (\A k \in ClockedBefore(next) : k <= c) => ClockAt(c)
      /\ \A i \in DOMAIN evidence : Dated(evidence[i]) =>
            /\ evidence[i].line \in ClockedBefore(next)
            /\ IF Undated THEN NotDatedYet(evidence[i]) ELSE DatedBack(evidence[i])
  BY <1>1 DEF ExactInv
<1>4. /\ DOMAIN evidence' = 1..Len(evidence')
      /\ \A i \in DOMAIN evidence : evidence[i] \in ItemType
      /\ \A i \in DOMAIN evidence' :
            \/ i \in DOMAIN evidence /\ evidence'[i] = evidence[i]
            \/ /\ i \notin DOMAIN evidence
               /\ evidence'[i].line = next /\ evidence'[i].stamp = s
  BY Added
<1>5. \A i \in Clocked : i \in Int
  BY LogShape DEF Clocked
<1>6. CASE line.form = "none"
  <2>1. UNCHANGED clock /\ s.origin = "missing"
    BY <1>1, <1>6, BareLine
  <2>2. next \notin Clocked
    BY <1>6 DEF Clocked
  <2>3. ClockedBefore(next)' = ClockedBefore(next)
    <3> HIDE DEF Clocked
    <3>1. \A i \in Clocked : i < next + 1 <=> i < next
      BY <1>1, <1>5, <2>2
    <3> QED BY <1>1, <1>2, <3>1 DEF ClockedBefore
  <2>4. \A i \in DOMAIN evidence' : Dated(evidence'[i]) => i \in DOMAIN evidence /\ evidence'[i] = evidence[i]
    BY <1>4, <2>1, Zenon DEF Dated
  <2>5. /\ \A c : ClockAt(c)' = ClockAt(c)
        /\ \A i : evidence'[i] = evidence[i] =>
              /\ NotDatedYet(evidence[i])' = NotDatedYet(evidence[i])
              /\ DatedBack(evidence[i])' = DatedBack(evidence[i])
    BY <1>1, <1>2, <2>1, Zenon DEF ClockAt, NotDatedYet, DatedBack
  <2>6. \A i \in DOMAIN evidence' : Dated(evidence'[i]) =>
            /\ evidence'[i].line \in ClockedBefore(next)
            /\ IF Undated THEN NotDatedYet(evidence[i])' ELSE DatedBack(evidence[i])'
    BY <1>3, <2>4, <2>5, Zenon
  <2>7. InitialDate(ctx)' = InitialDate(ctx)
    BY <1>1 DEF InitialDate
  <2>8. verdict' # "parsed"
    BY <1>1
  <2> QED BY <1>1, <1>2, <1>3, <2>1, <2>3, <2>5, <2>6, <2>7, <2>8, Zenon DEF ExactInv, Dated
<1>7. CASE line.form # "none"
  <2>1. next \in Clocked
    BY <1>1, <1>7 DEF Clocked
  <2>2. /\ after.last = TimeOf(u) /\ DayZero \in Int
        /\ Undated => after.date = None /\ Midnight(after.day) + after.last = u - DayZero
        /\ ~Undated => after.date = DateOf(u)
        /\ Undated /\ ClockedBefore(next) # {} => Midnight(clock.day) + clock.last <= u - DayZero
    BY <2>1, ClockReaches
  <2>3. /\ ClockedBefore(next)' = ClockedBefore(next) \cup {next}
        /\ \A c \in ClockedBefore(next) : c < next
    <3> HIDE DEF Clocked
    <3>1. \A i \in Clocked : i < next + 1 <=> i < next \/ i = next
      BY <1>1, <1>5
    <3> QED BY <1>1, <1>2, <2>1, <3>1 DEF ClockedBefore
  <2>4. ASSUME NEW c \in ClockedBefore(next)', \A k \in ClockedBefore(next)' : k <= c
        PROVE  ClockAt(c)'
    <3>1. c = next
      <4>1. c = next \/ (c < next /\ c \in Int)
        BY <1>5, <2>3 DEF ClockedBefore
      <4>2. next <= c
        BY <2>3, <2>4
      <4> QED BY <1>1, <4>1, <4>2
    <3>2. log' = log /\ log[c] = line /\ clock' = after
      BY <1>1, <3>1
    <3> QED BY <1>2, <2>2, <3>2, Zenon DEF ClockAt
  <2>5. /\ u \in Int /\ line.form \in {"datetime", "time"} /\ after.day \in Nat
        /\ s.seq \in Int /\ after.last \in Int /\ ctx.offset \in Int
    <3>1. u \in Int /\ line.form \in {"datetime", "time"}
      BY <1>1, <1>7 DEF Line, Forms
    <3>2. after \in ClockType /\ s \in StampType
      BY <1>1, ClocksAndStamps
    <3>3. TimeOf(u) \in Int
      BY <3>1, Instants
    <3>4. after.day \in Nat /\ s.seq \in Int
      BY <3>2 DEF ClockType, StampType
    <3>5. ctx.offset \in Int
      BY <1>1 DEF Context
    <3> QED BY <2>2, <3>1, <3>3, <3>4, <3>5
  <2>6. Undated => /\ s.origin = "time" /\ s.time = TimeOf(s.seq) /\ s.seq = u - DayZero
                   /\ s.seq <= Midnight(after.day) + after.last
    <3> SUFFICES ASSUME Undated
                 PROVE  /\ s.origin = "time" /\ s.time = TimeOf(s.seq) /\ s.seq = u - DayZero
                        /\ s.seq <= Midnight(after.day) + after.last
      OBVIOUS
    <3>1. line.form = "time"
      BY <2>1, Zenon DEF Undated, TimeOnly
    <3>2. /\ TimeOf(u) \in 0..(Day - 1) /\ s.seq = PositionOf(after) /\ s.time = TimeOf(u)
          /\ s.origin = IF after.date = None THEN "time" ELSE "hinted"
      BY <1>1, <3>1, TimeLine
    <3>3. s.seq = Midnight(after.day) + after.last
      BY <2>2, <3>2 DEF PositionOf
    <3>4. TimeOf(s.seq) = TimeOf(u)
      <4> DEFINE r == TimeOf(u)
                 d == after.day
      <4>1. s.seq = Midnight(d) + r /\ d \in Int /\ r \in 0..(Day - 1)
        BY <2>2, <2>5, <3>2, <3>3
      <4> HIDE DEF r, d
      <4>2. TimeOf(Midnight(d) + r) = r
        BY <4>1, InstantOf
      <4> QED BY <4>1, <4>2 DEF r
    <3>5. s.seq <= s.seq
      BY <2>5
    <3> QED BY <2>2, <3>2, <3>3, <3>4, <3>5, Zenon
  <2>7. ~Undated => s.origin # "time" /\ s.seq = u - ctx.offset
    <3> SUFFICES ASSUME ~Undated
                 PROVE  s.origin # "time" /\ s.seq = u - ctx.offset
      OBVIOUS
    <3>1. CASE line.form = "datetime"
      BY <1>1, <3>1, DateLine
    <3>2. CASE line.form = "time"
      <4>1. /\ s.seq = PositionOf(after)
            /\ s.origin = IF after.date = None THEN "time" ELSE "hinted"
        BY <1>1, <3>2, TimeLine
      <4>2. after.date = DateOf(u) /\ DateOf(u) \in Int
        BY <2>2, <2>5, Instants
      <4>3. after.date # None
        BY <4>2 DEF NoneAssumption
      <4>4. s.seq = Midnight(DateOf(u)) + TimeOf(u) - ctx.offset
        BY <2>2, <4>1, <4>2, <4>3, Zenon DEF PositionOf
      <4>5. Midnight(DateOf(u)) + TimeOf(u) - ctx.offset = u - ctx.offset
        <5> DEFINE a == Midnight(DateOf(u))
                   r == TimeOf(u)
        <5>1. u = a + r
          BY <2>5, Instants
        <5>2. a \in Int /\ r \in Int
          BY <2>5, <4>2, Instants, Midnights
        <5> HIDE DEF a, r, u
        <5>3. a + r - ctx.offset = u - ctx.offset
          BY <2>5, <5>1, <5>2
        <5> QED BY <5>3 DEF a, r
      <4> QED BY <4>1, <4>3, <4>4, <4>5
    <3> QED BY <2>5, <3>1, <3>2
  <2> HIDE DEF s, after
  <2>8. ASSUME NEW i \in DOMAIN evidence', Dated(evidence'[i])
        PROVE  /\ evidence'[i].line \in ClockedBefore(next)'
               /\ IF Undated THEN NotDatedYet(evidence[i])' ELSE DatedBack(evidence[i])'
    <3> DEFINE e == evidence'[i]
    <3>1. CASE i \in DOMAIN evidence /\ evidence'[i] = evidence[i]
      <4>1. Dated(evidence[i])
        BY <2>8, <3>1
      <4>2. /\ evidence[i].line \in ClockedBefore(next)
            /\ IF Undated THEN NotDatedYet(evidence[i]) ELSE DatedBack(evidence[i])
        BY <1>3, <3>1, <4>1
      <4>3. ASSUME ~Undated
            PROVE  DatedBack(evidence[i])'
        <5>1. DatedBack(evidence[i])
          BY <4>2, <4>3
        <5> QED BY <1>1, <3>1, <5>1, Zenon DEF DatedBack
      <4>4. ASSUME Undated
            PROVE  NotDatedYet(evidence[i])'
        <5>1. NotDatedYet(evidence[i])
          BY <4>2, <4>4
        <5>2. evidence[i].stamp.seq <= Midnight(after.day) + after.last
          <6> DEFINE q == evidence[i].stamp.seq
                     a == Midnight(clock.day)
                     b == Midnight(after.day)
                     z == DayZero
                     l == clock.last
                     r == after.last
          <6>1. q \in Int
            <7>1. evidence[i] \in ItemType
              BY <1>4, <3>1
            <7> QED BY <7>1 DEF ItemType, StampType
          <6>2. a \in Int /\ b \in Int
            <7>1. clock.day \in Int /\ after.day \in Int
              BY <1>1, <2>5 DEF ClockType
            <7> QED BY <7>1, Midnights
          <6>3. q <= a + l
            BY <5>1 DEF NotDatedYet
          <6>4. a + l <= u - z /\ b + r = u - z /\ z \in Int
            BY <2>2, <4>2, <4>4
          <6>5. l \in Int
            <7>1. PICK c \in ClockedBefore(next) : \A k \in ClockedBefore(next) : k <= c
              BY <4>2, ClockedLines
            <7>2. l = TimeOf(log[c].at)
              BY <1>3, <7>1 DEF ClockAt
            <7>3. log[c].at \in Int
              BY <7>1, LogShape DEF ClockedBefore, Clocked
            <7> QED BY <7>2, <7>3, Instants
          <6>6. u \in Int /\ r \in Int
            BY <2>5
          <6> HIDE DEF q, a, b, z, l, r, u
          <6>7. q <= b + r
            BY <6>1, <6>2, <6>3, <6>4, <6>5, <6>6
          <6> QED BY <6>7 DEF q, b, r
        <5>3. /\ clock' = after /\ evidence'[i] = evidence[i] /\ DayZero' = DayZero /\ log' = log
          BY <1>1, <1>2, <3>1
        <5> QED BY <5>1, <5>2, <5>3, Zenon DEF NotDatedYet
      <4> QED BY <2>3, <3>1, <4>2, <4>3, <4>4
    <3>2. CASE i \notin DOMAIN evidence /\ evidence'[i].line = next /\ evidence'[i].stamp = s
      <4>1. ASSUME ~Undated
            PROVE  DatedBack(evidence[i])'
        BY <1>1, <2>7, <3>2, <4>1, Zenon DEF DatedBack
      <4>2. ASSUME Undated
            PROVE  NotDatedYet(evidence[i])'
        BY <1>1, <1>2, <2>6, <3>2, <4>2, Zenon DEF NotDatedYet
      <4> QED BY <2>3, <3>2, <4>1, <4>2
    <3> QED BY <1>4, <3>1, <3>2
  <2>9. ClockedBefore(next)' # {} /\ verdict' # "parsed"
    BY <1>1, <2>3
  <2> QED BY <1>2, <2>4, <2>8, <2>9, Zenon DEF ExactInv, Dated
<1> QED BY <1>6, <1>7

LEMMA ExactFinish ==
    ASSUME TypeOK, ClockInv, ExactInv, Finish
    PROVE  ExactInv'
<1>1. /\ UNCHANGED <<log, ctx, clock, next>> /\ verdict = "reading" /\ verdict' = "parsed"
      /\ ctx \in Context /\ clock \in ClockType /\ next > Len(log)
  <2>1. ctx \in Context /\ clock \in ClockType
    BY Zenon DEF TypeOK, ClockType
  <2> QED BY <2>1 DEF Finish, log, ctx
<1>2. /\ Steady' = Steady /\ Placed' = Placed /\ Undated' = Undated
      /\ ClockedBefore(next)' = ClockedBefore(next) /\ InitialDate(ctx)' = InitialDate(ctx)
      /\ \A c : ClockAt(c)' = ClockAt(c)
  BY <1>1, Zenon DEF Steady, Placed, Undated, DayZero, Clocked, TimeOnly, FirstClocked, LastClocked,
       ClockedBefore, ClockAt, InitialDate
<1> SUFFICES ASSUME Steady, Placed
             PROVE  ExactInv'
  BY <1>2, Zenon DEF ExactInv
<1>3. /\ ClockedBefore(next) = {} => clock = [date |-> InitialDate(ctx), last |-> None, day |-> 0]
      /\ \A c \in ClockedBefore(next) : (\A k \in ClockedBefore(next) : k <= c) => ClockAt(c)
      /\ \A i \in DOMAIN evidence : Dated(evidence[i]) =>
            /\ evidence[i].line \in ClockedBefore(next)
            /\ IF Undated THEN NotDatedYet(evidence[i]) ELSE DatedBack(evidence[i])
  BY <1>1 DEF ExactInv
<1>4. /\ DOMAIN evidence' = DOMAIN evidence
      /\ \A i \in DOMAIN evidence : evidence[i] \in ItemType /\ evidence'[i] = Anchored(evidence[i])
  BY Ended
<1>5. ASSUME NEW i \in DOMAIN evidence, Dated(evidence'[i])
      PROVE  evidence'[i].line \in ClockedBefore(next) /\ DatedBack(evidence[i])'
  <2> DEFINE e == evidence[i]
             q == e.stamp.seq
  <2>1. e \in ItemType /\ evidence'[i] = Anchored(e) /\ q \in Int
    <3>1. \A x \in ItemType : x.stamp.seq \in Int
      BY DEF ItemType, StampType
    <3> QED BY <1>4, <3>1
  <2>2. Dated(e)
    <3> SUFFICES ASSUME ~Dated(e)
                 PROVE  FALSE
      OBVIOUS
    <3>1. Anchored(e) = e
      BY Zenon DEF Dated, Anchored
    <3> QED BY <1>5, <2>1, <3>1, Zenon
  <2>3. e.line \in ClockedBefore(next)
        /\ IF Undated THEN NotDatedYet(e) ELSE DatedBack(e)
    BY <1>3, <2>2
  <2>4. CASE ~Undated
    <3>1. DatedBack(e)
      BY <2>3, <2>4
    <3>2. Anchored(e) = e
      BY <3>1, Zenon DEF DatedBack, Anchored
    <3>3. evidence'[i] = evidence[i]
      BY <2>1, <3>2
    <3> QED BY <1>1, <2>3, <3>1, <3>3, Zenon DEF DatedBack
  <2>5. CASE Undated
    <3>1. /\ e.stamp.origin = "time" /\ e.stamp.time = TimeOf(q)
          /\ q = log[e.line].at - DayZero
          /\ q <= Midnight(clock.day) + clock.last
      BY <2>3, <2>5, Zenon DEF NotDatedYet
    <3>2. PICK c \in ClockedBefore(next) : \A k \in ClockedBefore(next) : k <= c
      BY <2>3, ClockedLines
    <3>3. ClockedBefore(next) = Clocked /\ Clocked # {}
      <4>1. Len(log) \in Nat /\ Clocked \subseteq 1..Len(log) /\ next \in Nat
        BY LogShape, ClockedLines
      <4>2. \A k \in Clocked : k < next
        <5> HIDE DEF Clocked
        <5> QED BY <1>1, <4>1
      <4> QED BY <3>2, <4>2 DEF ClockedBefore
    <3>4. c = LastClocked /\ LastClocked \in Clocked
      <4>1. LastClocked \in Clocked /\ LastClocked <= c /\ c <= LastClocked /\ c \in Clocked
        BY <3>2, <3>3, ClockedLines
      <4>2. \A k \in Clocked : k \in Int
        BY LogShape DEF Clocked
      <4> QED BY <4>1, <4>2
    <3> DEFINE t == log[c].at
               end == ctx.end
    <3>5. t \in Int /\ end \in Int /\ end - t \in 0..(HalfADay - 1)
      <4>1. t \in Int
        BY <3>3, <3>4, LogShape DEF Clocked
      <4>2. ctx.end - log[LastClocked].at \in 0..(HalfADay - 1)
        BY <2>5, <3>3, Placement
      <4>3. ctx.end \in Int
        BY <1>1 DEF Context
      <4> QED BY <3>4, <4>1, <4>2, <4>3
    <3>6. clock.last = TimeOf(t) /\ Midnight(clock.day) + TimeOf(t) = t - DayZero
      <4>1. ClockAt(c)
        BY <1>3, <3>2
      <4> QED BY <2>5, <4>1 DEF ClockAt
    <3>7. /\ DateOf(t) \in Int /\ TimeOf(t) \in Int /\ TimeOf(t) \in 0..(Day - 1)
          /\ t = Midnight(DateOf(t)) + TimeOf(t) /\ Midnight(DateOf(t)) \in Int
          /\ DateOf(end) \in Int /\ clock.last # None
      <4> HIDE DEF t, end
      <4>1. /\ DateOf(t) \in Int /\ TimeOf(t) \in Int /\ TimeOf(t) \in 0..(Day - 1)
            /\ t = Midnight(DateOf(t)) + TimeOf(t) /\ Midnight(DateOf(t)) \in Int
            /\ DateOf(end) \in Int
        BY <3>5, Instants, Midnights
      <4>2. TimeOf(t) # None
        BY <4>1 DEF NoneAssumption
      <4> QED BY <3>6, <4>1, <4>2
    <3>8. FinalDate = DateOf(t)
      <4>1. /\ TimeOf(t) - TimeOf(end) > HalfADay => DateOf(end) = DateOf(t) + 1
            /\ ~(TimeOf(t) - TimeOf(end) > HalfADay) => DateOf(end) = DateOf(t)
        <5> HIDE DEF t, end
        <5> QED BY <3>5, Rollover
      <4>2. FinalDate = IF TimeOf(t) - TimeOf(end) > HalfADay THEN DateOf(end) - 1 ELSE DateOf(end)
        BY <3>6, <3>7, Zenon DEF FinalDate
      <4> HIDE DEF t, end
      <4> QED BY <3>7, <4>1, <4>2
    <3>9. clock.day \in Int /\ clock.last \in 0..(Day - 1) /\ Day \in Nat /\ ctx.offset \in Int
      <4>1. clock.last \in 0..(Day - 1)
        BY <3>7 DEF ClockInv
      <4>2. clock.day \in Int /\ ctx.offset \in Int
        BY <1>1 DEF ClockType, Context
      <4> QED BY <4>1, <4>2, Midnights
    <3>10. DateOf(q) <= clock.day
      <4> HIDE DEF q
      <4> QED BY <2>1, <3>1, <3>9, NotLaterDay
    <3>11. /\ Anchored(e).stamp.seq = q + Shift /\ Anchored(e).stamp.origin = "hinted"
           /\ Anchored(e).line = e.line /\ Shift \in Int
      <4>1. ctx.basis = "final"
        BY <2>5 DEF Undated
      <4> HIDE DEF e
      <4> QED BY <2>1, <3>1, <3>10, <4>1, AnchoredShift
    <3>12. q + Shift = log[e.line].at - ctx.offset
      <4>1. Midnight(DateOf(t) - clock.day) = Midnight(DateOf(t)) - Midnight(clock.day)
            /\ Midnight(clock.day) \in Int
        <5>1. \A x, y \in Int : Midnight(x) - Midnight(y) = Midnight(x - y) /\ Midnight(y) \in Int
          BY Midnights
        <5> HIDE DEF t
        <5> QED BY <3>7, <3>9, <5>1, Zenon
      <4> DEFINE a == Midnight(DateOf(t))
                 b == Midnight(clock.day)
                 r == TimeOf(t)
                 z == DayZero
                 o == ctx.offset
                 v == log[e.line].at
      <4>2. Shift = a - b - o
        BY <3>8, <4>1 DEF Shift
      <4>3. v \in Int
        BY <2>3, LogShape DEF ClockedBefore, Clocked
      <4>4. z \in Int
        <5>1. FirstClocked \in Clocked
          BY <3>3, ClockedLines
        <5>2. log[FirstClocked].at \in Int
          BY <5>1, LogShape DEF Clocked
        <5>3. DateOf(log[FirstClocked].at) \in Int
          BY <5>2, Instants
        <5> QED BY <5>3, Midnights DEF DayZero
      <4>5. a \in Int /\ b \in Int /\ r \in Int /\ o \in Int /\ q = v - z
        BY <3>1, <3>7, <3>9, <4>1
      <4>6. t = a + r
        BY <3>7
      <4>7. b + r = t - z
        BY <3>6
      <4> HIDE DEF a, b, r, z, o, v, q, t
      <4>8. q + (a - b - o) = v - o
        BY <3>5, <4>3, <4>4, <4>5, <4>6, <4>7
      <4> QED BY <4>2, <4>8 DEF v, o
    <3>13. /\ evidence'[i].stamp.origin # "time"
           /\ evidence'[i].stamp.seq = log[evidence'[i].line].at - ctx.offset
      BY <2>1, <3>11, <3>12
    <3> QED BY <1>1, <2>1, <2>3, <3>11, <3>13, Zenon DEF DatedBack
  <2> QED BY <2>4, <2>5
<1>6. verdict' = "parsed"
  BY <1>1
<1> QED BY <1>1, <1>2, <1>3, <1>4, <1>5, <1>6, Zenon DEF ExactInv, Dated

LEMMA ExactStep == TypeOK /\ ClockInv /\ ExactInv /\ [ParserNext]_parserVars => ExactInv'
<1> SUFFICES ASSUME TypeOK, ClockInv, ExactInv, [ParserNext]_parserVars
             PROVE  ExactInv'
  OBVIOUS
<1>1. CASE Continue \/ RefuseLine \/ UNCHANGED parserVars
  <2>1. /\ UNCHANGED <<log, ctx, next, clock, evidence>> /\ (verdict' = "parsed" <=> verdict = "parsed")
    BY <1>1 DEF Continue, RefuseLine, Untold, parserVars, log, ctx
  <2>2. /\ Steady' = Steady /\ Placed' = Placed /\ Undated' = Undated
        /\ ClockedBefore(next)' = ClockedBefore(next) /\ InitialDate(ctx)' = InitialDate(ctx)
        /\ \A c : ClockAt(c)' = ClockAt(c)
        /\ \A i : /\ Dated(evidence[i])' = Dated(evidence[i])
                  /\ NotDatedYet(evidence[i])' = NotDatedYet(evidence[i])
                  /\ DatedBack(evidence[i])' = DatedBack(evidence[i])
    BY <2>1, Zenon DEF Steady, Placed, Undated, DayZero, Clocked, TimeOnly, FirstClocked, LastClocked,
         ClockedBefore, ClockAt, InitialDate, Dated, NotDatedYet, DatedBack
  <2> QED BY <2>1, <2>2, Zenon DEF ExactInv
<1> QED BY <1>1, ExactAccept, ExactFinish, Steps

\* However many midnights a steady log crosses, and whichever end its date is
\* known from, its evidence carries the instants its lines were written at.
THEOREM InstantsAreExact == ParserSpec => []ObservedTimesAreExact
<1> DEFINE Inv == TypeOK /\ ClockInv /\ ExactInv
<1>1. ParserInit => Inv
  BY InitType, ClockStep, ExactInit
<1>2. Inv /\ [ParserNext]_parserVars => Inv'
  BY TypeStep, ClockStep, ExactStep
<1>3. Inv => ObservedTimesAreExact
  BY Zenon DEF ExactInv, Dated, DatedBack, ObservedTimesAreExact
<1> QED BY <1>1, <1>2, <1>3, PTL DEF ParserSpec
=============================================================================
