-------------------------- MODULE Dashboard_proofs --------------------------
(***************************************************************************)
(* A dashboard counts no session twice and every session stored from the   *)
(* first batch to the last; its unique playtime, active days, calendar and *)
(* totals are what the sessions it counted say: for any sessions, any size *)
(* of a batch and any promotions.                                          *)
(*                                                                         *)
(* Counting: the order of the query is a strict total order of the         *)
(* sessions. A batch is the beginning, in that order, of what lies behind  *)
(* the cursor, so the sessions added are strictly ordered, and what was    *)
(* stored all along either was added or still lies behind the cursor.      *)
(*                                                                         *)
(* Accumulation: the dashboard is what the sessions added make of an empty *)
(* one. What a pass over sessions sorted by descending start computes is   *)
(* proved by the shortest sequence for which it would be wrong: all but    *)
(* its last session have been added rightly, and the last one starts no    *)
(* later than they do.                                                     *)
(*                                                                         *)
(* Moving windows: a day is closed once no later session can reach it, and *)
(* a cell that leaves the calendar is missed by no later window. What the  *)
(* queries saw is carried along for as long as nothing is promoted.        *)
(***************************************************************************)
EXTENDS Dashboard, DataInduction, SequenceTheorems

USE UnitsAssumption, PoolAssumption

-----------------------------------------------------------------------------
(***************************************************************************)
(* The order of the query and the ranks it gives.                          *)
(***************************************************************************)
LEMMA Ordered ==
  /\ \A s, t \in Pool : s = t \/ Precedes(s, t) \/ Precedes(t, s)
  /\ \A s \in Pool : ~Precedes(s, s)
  /\ \A s, t, u \in Pool : Precedes(s, t) /\ Precedes(t, u) => Precedes(s, u)
  /\ \A s, t \in Pool : After(s, t) <=> Precedes(s, t)
<1>1. \A s \in Pool : s.start \in Nat /\ s.id \in Nat
  BY DEF PoolAssumption, SessionShape
<1>2. \A s, t \in Pool : s.id = t.id => s = t
  BY DEF PoolAssumption
<1> QED
  BY <1>1, <1>2 DEF Precedes, After

Before(R, s) == {t \in R : Precedes(t, s)}
RankIn(R, s) == Cardinality(Before(R, s)) + 1

LEMMA BeforeFinite ==
  ASSUME NEW R \in SUBSET Pool, IsFiniteSet(R), NEW s \in R
  PROVE  /\ IsFiniteSet(Before(R, s)) /\ Cardinality(Before(R, s)) \in Nat
         /\ RankIn(R, s) \in 1..Cardinality(R)
<1>1. Before(R, s) \in SUBSET (R \ {s})
  BY Ordered DEF Before
<1>2. IsFiniteSet(R \ {s}) /\ Cardinality(R \ {s}) = Cardinality(R) - 1
  BY FS_RemoveElement
<1>3. IsFiniteSet(Before(R, s)) /\ Cardinality(Before(R, s)) <= Cardinality(R) - 1
  BY <1>1, <1>2, FS_Subset
<1>4. Cardinality(Before(R, s)) \in Nat /\ Cardinality(R) \in Nat
  BY <1>3, FS_CardinalityType
<1> QED
  BY <1>3, <1>4 DEF RankIn

LEMMA RankGrows ==
  ASSUME NEW R \in SUBSET Pool, IsFiniteSet(R), NEW s \in R, NEW t \in R, Precedes(s, t)
  PROVE  RankIn(R, s) < RankIn(R, t)
<1>1. Before(R, s) \in SUBSET Before(R, t)
  BY Ordered DEF Before
<1>2. s \in Before(R, t) /\ s \notin Before(R, s)
  BY Ordered DEF Before
<1>3. /\ IsFiniteSet(Before(R, t)) /\ Cardinality(Before(R, t)) \in Nat
      /\ Cardinality(Before(R, s)) \in Nat
  BY BeforeFinite
<1>4. /\ Cardinality(Before(R, s)) <= Cardinality(Before(R, t))
      /\ Cardinality(Before(R, s)) # Cardinality(Before(R, t))
  <2>1. /\ Cardinality(Before(R, s)) <= Cardinality(Before(R, t))
        /\ Cardinality(Before(R, t)) = Cardinality(Before(R, s)) => Before(R, t) = Before(R, s)
    BY <1>1, <1>3, FS_Subset
  <2> QED
    BY <1>2, <2>1
<1> QED
  BY <1>3, <1>4 DEF RankIn

\* Ranks order the sessions, and every rank is taken once.
LEMMA RankOrders ==
  ASSUME NEW R \in SUBSET Pool, IsFiniteSet(R), NEW s \in R, NEW t \in R
  PROVE  /\ RankIn(R, s) = RankIn(R, t) => s = t
         /\ RankIn(R, s) < RankIn(R, t) => Precedes(s, t)
<1>1. s = t \/ Precedes(s, t) \/ Precedes(t, s)
  BY Ordered
<1>2. RankIn(R, s) \in Nat /\ RankIn(R, t) \in Nat
  BY BeforeFinite
<1>3. Precedes(s, t) => RankIn(R, s) < RankIn(R, t)
  BY RankGrows
<1>4. Precedes(t, s) => RankIn(R, t) < RankIn(R, s)
  BY RankGrows
<1> QED
  BY <1>1, <1>2, <1>3, <1>4

LEMMA RankTaken ==
  ASSUME NEW R \in SUBSET Pool, IsFiniteSet(R), NEW n \in 1..Cardinality(R)
  PROVE  \E s \in R : RankIn(R, s) = n
<1> SUFFICES ASSUME \A s \in R : RankIn(R, s) # n PROVE FALSE
  OBVIOUS
<1> DEFINE T == (1..Cardinality(R)) \ {n}
           f == [s \in R |-> RankIn(R, s)]
<1>1. Cardinality(R) \in Nat
  BY FS_CardinalityType
<1>2. IsFiniteSet(1..Cardinality(R)) /\ Cardinality(1..Cardinality(R)) = Cardinality(R)
  <2>1. ASSUME NEW k \in Nat
        PROVE  IsFiniteSet(1..k) /\ Cardinality(1..k) = k
    <3>1. /\ IsFiniteSet(1..k)
          /\ Cardinality(1..k) = IF 1 > k THEN 0 ELSE k - 1 + 1
      <4>1. 1 \in Int /\ k \in Int
        OBVIOUS
      <4> QED
        BY <4>1, FS_Interval, Zenon
    <3> QED
      BY <3>1
  <2> QED
    BY <1>1, <2>1
<1>3. IsFiniteSet(T) /\ Cardinality(T) = Cardinality(R) - 1
  <2>1. ASSUME NEW S, IsFiniteSet(S), n \in S
        PROVE  IsFiniteSet(S \ {n}) /\ Cardinality(S \ {n}) = Cardinality(S) - 1
    BY <2>1, FS_RemoveElement
  <2> QED
    BY <1>2, <2>1
<1>4. f \in [R -> T]
  BY BeforeFinite
<1>5. \E s, t \in R : s # t /\ f[s] = f[t]
  <2> HIDE DEF T, f
  <2> QED
    BY <1>1, <1>3, <1>4, FS_PigeonHole
<1> QED
  BY <1>5, RankOrders

-----------------------------------------------------------------------------
(***************************************************************************)
(* What a batch holds.                                                     *)
(***************************************************************************)
Rest == {s \in sessions : \A c \in cursor : After(c, s)}
Sorted(q) == \A m, n \in DOMAIN q : m < n => Precedes(q[m], q[n])

LEMMA BatchLength ==
  ASSUME NEW k \in Nat
  PROVE  Min({BatchSize, k}) = IF BatchSize <= k THEN BatchSize ELSE k
<1>1. BatchSize \in Nat
  BY DEF UnitsAssumption
<1>2. \A m, n \in Nat : Min({m, n}) = IF m <= n THEN m ELSE n
  BY DEF Min
<1> QED
  BY <1>1, <1>2

LEMMA BatchProperties ==
  ASSUME sessions \in SUBSET Pool, IsFiniteSet(sessions), NEW batch, batch = Batch(sessions)
  PROVE  /\ batch \in Seq(Pool) /\ Sorted(batch)
         /\ Len(batch) <= BatchSize
         /\ \A n \in DOMAIN batch : batch[n] \in Rest
         /\ \A s \in Rest : s \in ToSet(batch)
                            \/ (Len(batch) = BatchSize /\ Precedes(Last(batch), s))
<1> DEFINE k == Cardinality(Rest)
           len == Min({BatchSize, k})
           At(n) == CHOOSE s \in Rest : RankIn(Rest, s) = n
<1>1. Rest \in SUBSET Pool /\ IsFiniteSet(Rest) /\ k \in Nat
  <2>1. Rest \in SUBSET sessions
    BY DEF Rest
  <2>2. IsFiniteSet(Rest)
    BY <2>1, FS_Subset
  <2> QED
    BY <2>1, <2>2, FS_CardinalityType
<1>2. batch = [n \in 1..len |-> At(n)]
  BY DEF Batch, Rest, RankIn, Before
<1> HIDE DEF k
<1>3. len \in Nat /\ len <= k /\ len <= BatchSize /\ (len = BatchSize \/ len = k) /\ BatchSize \in Nat \ {0}
  BY <1>1, BatchLength DEF UnitsAssumption
<1> HIDE DEF len
<1>4. \A n \in 1..len : At(n) \in Rest /\ RankIn(Rest, At(n)) = n
  <2>1. TAKE n \in 1..len
  <2>2. n \in 1..Cardinality(Rest)
    BY <1>1, <1>3 DEF k
  <2>3. \E s \in Rest : RankIn(Rest, s) = n
    BY <1>1, <2>2, RankTaken
  <2> QED
    BY <2>3
<1> HIDE DEF At
<1>5. DOMAIN batch = 1..len /\ Len(batch) = len /\ \A n \in 1..len : batch[n] = At(n)
  BY <1>2, <1>3
<1>6. batch \in Seq(Pool)
  BY <1>1, <1>2, <1>3, <1>4
<1>7. Sorted(batch)
  <2>1. SUFFICES ASSUME NEW m \in 1..len, NEW n \in 1..len, m < n
                 PROVE  Precedes(At(m), At(n))
    BY <1>5 DEF Sorted
  <2> QED
    BY <1>1, <1>4, <2>1, RankOrders
<1>8. ASSUME NEW s \in Rest
      PROVE  s \in ToSet(batch) \/ (Len(batch) = BatchSize /\ Precedes(Last(batch), s))
  <2>1. RankIn(Rest, s) \in 1..k
    BY <1>1, <1>8, BeforeFinite DEF k
  <2>2. CASE RankIn(Rest, s) <= len
    <3>1. RankIn(Rest, s) \in 1..len
      BY <1>3, <2>1, <2>2
    <3>2. At(RankIn(Rest, s)) = s
      BY <1>1, <1>4, <1>8, <3>1, RankOrders
    <3> QED
      BY <1>5, <3>1, <3>2 DEF ToSet
  <2>3. CASE len < RankIn(Rest, s)
    <3>1. len = BatchSize /\ len \in 1..len
      BY <1>1, <1>3, <2>1, <2>3
    <3>2. Last(batch) = At(len) /\ RankIn(Rest, At(len)) = len /\ At(len) \in Rest
      BY <1>4, <1>5, <3>1 DEF Last
    <3> QED
      BY <1>1, <1>5, <1>8, <2>3, <3>1, <3>2, RankOrders
  <2> QED
    BY <1>1, <1>3, <2>1, <2>2, <2>3
<1> QED
  BY <1>3, <1>4, <1>5, <1>6, <1>7, <1>8

-----------------------------------------------------------------------------
(***************************************************************************)
(* The invariant.                                                          *)
(***************************************************************************)
ArchiveStands ==
    /\ sessions \in SUBSET Pool /\ IsFiniteSet(sessions)
    /\ stable \in SUBSET sessions

AddedStands == added \in Seq(Pool) /\ Sorted(added)

Unstarted == cursor = {} /\ added = <<>>

\* Between two batches nothing that was stored all along lies before the cursor
\* unless it was added.
Underway ==
    /\ added # <<>> /\ cursor = {Last(added)}
    /\ \A s \in stable : s \in Counted \/ Precedes(Last(added), s)

CursorStands ==
    /\ phase \in {"revision", "scanned", "top", "months"} => Unstarted
    /\ phase = "batches" => Unstarted \/ Underway

AnswerStands ==
    /\ phase # "done" => answer = {}
    /\ \A a \in answer : a.state = "ready" => stable \subseteq Counted

IInv == ArchiveStands /\ AddedStands /\ CursorStands /\ AnswerStands

LEMMA InitInv == Init => IInv
<1> SUFFICES ASSUME Init PROVE IInv
  OBVIOUS
<1>1. sessions \in SUBSET Pool /\ IsFiniteSet(sessions) /\ stable = {}
  BY DEF Init, PoolAssumption
<1>2. added \in Seq(Pool) /\ Sorted(added)
  <2>1. added = <<>> /\ <<>> \in Seq(Pool) /\ DOMAIN <<>> = {}
    BY DEF Init
  <2> QED
    BY <2>1 DEF Sorted
<1> QED
  BY <1>1, <1>2 DEF Init, IInv, ArchiveStands, AddedStands, CursorStands, Unstarted, AnswerStands

LEMMA PromoteStep == IInv /\ Promote => IInv'
<1> SUFFICES ASSUME IInv, Promote PROVE IInv'
  OBVIOUS
<1>1. PICK next \in {sessions} \cup {sessions \cup {s} : s \in Pool} \cup {sessions \ {s} : s \in Pool} :
         sessions' = next /\ stable' = stable \cap next
  BY DEF Promote
<1>2. UNCHANGED <<phase, cursor, answer, added>> /\ phase # "done"
  BY DEF Promote
<1>3. next \in SUBSET Pool /\ IsFiniteSet(next)
  <2>1. sessions \in SUBSET Pool /\ IsFiniteSet(sessions)
    BY DEF IInv, ArchiveStands
  <2>2. \A s : IsFiniteSet(sessions \cup {s})
    BY <2>1, FS_AddElement
  <2>3. \A s : IsFiniteSet(sessions \ {s})
    BY <2>1, FS_RemoveElement
  <2>4. CASE next = sessions
    BY <2>1, <2>4
  <2>5. ASSUME NEW s \in Pool, next = sessions \cup {s}
        PROVE  next \in SUBSET Pool /\ IsFiniteSet(next)
    BY <2>1, <2>2, <2>5
  <2>6. ASSUME NEW s \in Pool, next = sessions \ {s}
        PROVE  next \in SUBSET Pool /\ IsFiniteSet(next)
    BY <2>1, <2>3, <2>6
  <2> QED
    BY <2>4, <2>5, <2>6
<1>4. ArchiveStands'
  BY <1>1, <1>3 DEF ArchiveStands
<1>5. AddedStands' /\ Counted' = Counted
  BY <1>2 DEF IInv, AddedStands, Sorted, Counted
<1>6. CursorStands'
  BY <1>1, <1>2, <1>5 DEF IInv, CursorStands, Unstarted, Underway
<1>7. AnswerStands'
  BY <1>1, <1>2, <1>5 DEF IInv, AnswerStands
<1> QED
  BY <1>4, <1>5, <1>6, <1>7 DEF IInv

LEMMA QueryStep == IInv /\ (ReadRevision \/ ReadScanned \/ ReadTop \/ ReadMonths) => IInv'
<1> SUFFICES ASSUME IInv, ReadRevision \/ ReadScanned \/ ReadTop \/ ReadMonths PROVE IInv'
  OBVIOUS
<1>1. /\ UNCHANGED <<sessions, stable, added, cursor, answer>>
      /\ phase \in {"revision", "scanned", "top", "months"}
      /\ phase' \in {"scanned", "empty", "top", "months", "batches"}
  BY DEF ReadRevision, ReadScanned, ReadTop, ReadMonths, archive
<1>2. ArchiveStands' /\ AddedStands' /\ Counted' = Counted
  BY <1>1 DEF IInv, ArchiveStands, AddedStands, Sorted, Counted
<1>3. CursorStands' /\ AnswerStands'
  BY <1>1, <1>2 DEF IInv, CursorStands, Unstarted, AnswerStands
<1> QED
  BY <1>2, <1>3 DEF IInv

LEMMA EmptyStep == IInv /\ AnswerEmpty => IInv'
<1> SUFFICES ASSUME IInv, AnswerEmpty PROVE IInv'
  OBVIOUS
<1>1. /\ UNCHANGED <<sessions, stable, added, cursor>> /\ phase' = "done"
      /\ answer' = {EmptyAnswer}
  BY DEF AnswerEmpty, archive
<1>2. EmptyAnswer.state # "ready"
  BY DEF EmptyAnswer
<1>3. ArchiveStands' /\ AddedStands'
  BY <1>1 DEF IInv, ArchiveStands, AddedStands, Sorted
<1>4. CursorStands' /\ AnswerStands'
  BY <1>1, <1>2 DEF CursorStands, AnswerStands
<1> QED
  BY <1>3, <1>4 DEF IInv

\* A sorted sequence stays sorted when what follows its last session is added.
LEMMA SortedConcat ==
  ASSUME NEW s \in Seq(Pool), NEW t \in Seq(Pool), Sorted(s), Sorted(t),
         s = <<>> \/ \A n \in DOMAIN t : Precedes(Last(s), t[n])
  PROVE  /\ s \o t \in Seq(Pool) /\ Sorted(s \o t)
         /\ ToSet(s \o t) = ToSet(s) \cup ToSet(t)
         /\ t # <<>> => Last(s \o t) = Last(t)
<1> DEFINE q == s \o t
<1>1. /\ q \in Seq(Pool) /\ Len(q) = Len(s) + Len(t) /\ DOMAIN q = 1..Len(s) + Len(t)
      /\ \A i \in 1..Len(s) + Len(t) : q[i] = IF i <= Len(s) THEN s[i] ELSE t[i - Len(s)]
  BY ConcatProperties
<1> HIDE DEF q
<1>2. /\ DOMAIN s = 1..Len(s) /\ DOMAIN t = 1..Len(t) /\ Len(s) \in Nat /\ Len(t) \in Nat
      /\ \A i \in 1..Len(s) : s[i] \in Pool
      /\ \A i \in 1..Len(t) : t[i] \in Pool
  OBVIOUS
<1>3. /\ \A i \in 1..Len(s) : i \in DOMAIN q /\ q[i] = s[i]
      /\ \A j \in 1..Len(t) : Len(s) + j \in DOMAIN q /\ q[Len(s) + j] = t[j]
      /\ \A i \in DOMAIN q : i > Len(s) => \E j \in 1..Len(t) : i = Len(s) + j
  <2>1. ASSUME NEW i \in 1..Len(s) PROVE i \in DOMAIN q /\ q[i] = s[i]
    BY <1>1, <1>2
  <2>2. ASSUME NEW j \in 1..Len(t) PROVE Len(s) + j \in DOMAIN q /\ q[Len(s) + j] = t[j]
    <3>1. Len(s) + j \in 1..Len(s) + Len(t) /\ ~(Len(s) + j <= Len(s))
      BY <1>2
    <3>2. \A i \in 1..Len(s) + Len(t) : ~(i <= Len(s)) => \A k \in Int : k = i - Len(s) => q[i] = t[k]
      BY <1>1
    <3>3. j \in Int /\ j = (Len(s) + j) - Len(s)
      BY <1>2
    <3>4. q[Len(s) + j] = t[j]
      BY <3>1, <3>2, <3>3
    <3> QED
      BY <1>1, <3>1, <3>4
  <2>3. ASSUME NEW i \in 1..Len(s) + Len(t), i > Len(s)
        PROVE  \E j \in 1..Len(t) : i = Len(s) + j
    <3>1. i - Len(s) \in 1..Len(t) /\ i = Len(s) + (i - Len(s))
      BY <1>2, <2>3
    <3> QED
      BY <3>1
  <2> QED
    BY <1>1, <2>1, <2>2, <2>3
<1>4. ASSUME NEW m \in 1..Len(s), NEW n \in 1..Len(t)
      PROVE  Precedes(s[m], t[n])
  <2>1. /\ Len(s) \in 1..Len(s) /\ Last(s) = s[Len(s)]
        /\ Precedes(Last(s), t[n])
    <3>1. Len(s) \in Nat /\ m \in Int /\ 1 <= m /\ m <= Len(s)
      BY <1>2
    <3>2. Len(s) \in 1..Len(s) /\ s # <<>>
      BY <3>1
    <3>3. n \in DOMAIN t
      BY <1>2
    <3> QED
      BY <3>2, <3>3 DEF Last
  <2>2. CASE m = Len(s)
    BY <2>1, <2>2
  <2>3. CASE m < Len(s)
    <3>1. Precedes(s[m], s[Len(s)])
      BY <1>2, <2>1, <2>3 DEF Sorted
    <3> QED
      BY <1>2, <2>1, <3>1, Ordered
  <2>4. m \in Int /\ Len(s) \in Int /\ m <= Len(s)
    BY <1>2
  <2>5. m = Len(s) \/ m < Len(s)
    BY <2>4
  <2> QED
    BY <2>2, <2>3, <2>5, Zenon
<1>5. Sorted(q)
  <2>1. SUFFICES ASSUME NEW m \in DOMAIN q, NEW n \in DOMAIN q, m < n
                 PROVE  Precedes(q[m], q[n])
    BY DEF Sorted
  <2>2. m \in Int /\ n \in Int /\ m >= 1
    BY <1>1, <1>2
  <2>3. CASE n <= Len(s)
    <3>1. m \in DOMAIN s /\ n \in DOMAIN s
      BY <1>2, <2>1, <2>2, <2>3
    <3> QED
      BY <1>2, <1>3, <2>1, <3>1 DEF Sorted
  <2>4. CASE n > Len(s)
    <3>1. PICK j \in 1..Len(t) : n = Len(s) + j /\ q[n] = t[j]
      <4>1. PICK j \in 1..Len(t) : n = Len(s) + j
        BY <1>3, <2>4, Zenon
      <4>2. q[Len(s) + j] = t[j]
        BY <1>3, Zenon
      <4> QED
        BY <4>1, <4>2, Zenon
    <3>2. CASE m <= Len(s)
      <4>1. m \in 1..Len(s)
        BY <1>2, <2>2, <3>2
      <4>2. q[m] = s[m]
        BY <1>3, <4>1, Zenon
      <4> QED
        BY <1>4, <3>1, <4>1, <4>2, Zenon
    <3>3. CASE m > Len(s)
      <4>1. PICK i \in 1..Len(t) : m = Len(s) + i /\ q[m] = t[i]
        <5>1. PICK i \in 1..Len(t) : m = Len(s) + i
          BY <1>3, <3>3, Zenon
        <5>2. q[Len(s) + i] = t[i]
          BY <1>3, Zenon
        <5> QED
          BY <5>1, <5>2, Zenon
      <4>2. i < j
        BY <1>2, <2>1, <3>1, <4>1
      <4> QED
        BY <1>2, <3>1, <4>1, <4>2 DEF Sorted
    <3> QED
      BY <1>2, <2>2, <3>2, <3>3
  <2> QED
    BY <1>2, <2>2, <2>3, <2>4
<1>6. ToSet(q) = ToSet(s) \cup ToSet(t)
  <2>1. ASSUME NEW i \in DOMAIN q PROVE q[i] \in ToSet(s) \cup ToSet(t)
    <3>1. CASE i <= Len(s)
      <4>1. i \in DOMAIN s /\ q[i] = s[i]
        BY <1>1, <1>2, <1>3, <2>1, <3>1
      <4> QED
        BY <4>1 DEF ToSet
    <3>2. CASE i > Len(s)
      <4>1. PICK j \in 1..Len(t) : i = Len(s) + j
        BY <1>3, <2>1, <3>2
      <4>2. j \in DOMAIN t /\ q[i] = t[j]
        BY <1>2, <1>3, <4>1
      <4> QED
        BY <4>2 DEF ToSet
    <3> QED
      BY <1>1, <1>2, <2>1, <3>1, <3>2
  <2>2. \A i \in DOMAIN s : s[i] \in ToSet(q)
    BY <1>2, <1>3 DEF ToSet
  <2>3. \A j \in DOMAIN t : t[j] \in ToSet(q)
    BY <1>2, <1>3 DEF ToSet
  <2> QED
    BY <2>1, <2>2, <2>3 DEF ToSet
<1>7. t # <<>> => Last(q) = Last(t)
  <2>1. SUFFICES ASSUME t # <<>> PROVE Last(q) = Last(t)
    OBVIOUS
  <2>2. Len(t) \in 1..Len(t)
    BY <1>2, <2>1
  <2>3. q[Len(s) + Len(t)] = t[Len(t)]
    BY <1>3, <2>2
  <2> QED
    BY <1>1, <2>3 DEF Last
<1> QED
  BY <1>1, <1>5, <1>6, <1>7 DEF q

LEMMA BatchStep == IInv /\ ReadBatch => IInv'
<1> SUFFICES ASSUME IInv, ReadBatch PROVE IInv'
  OBVIOUS
<1> DEFINE batch == Batch(sessions)
<1>1. /\ phase = "batches" /\ UNCHANGED sessions
      /\ added' = added \o batch
      /\ stable' = IF cursor = {} THEN sessions ELSE stable
      /\ \/ Len(batch) = BatchSize /\ cursor' = {Last(batch)} /\ UNCHANGED <<phase, answer>>
         \/ Len(batch) # BatchSize /\ phase' = "empty" /\ answer' = {}
         \/ Len(batch) # BatchSize /\ phase' = "done"
  BY DEF ReadBatch, archive
<1>2. /\ sessions \in SUBSET Pool /\ IsFiniteSet(sessions) /\ stable \in SUBSET sessions
      /\ added \in Seq(Pool) /\ Sorted(added)
      /\ Unstarted \/ Underway
      /\ answer = {}
  BY <1>1 DEF IInv, ArchiveStands, AddedStands, CursorStands, AnswerStands
<1>3. /\ batch \in Seq(Pool) /\ Sorted(batch)
      /\ \A n \in DOMAIN batch : batch[n] \in Rest
      /\ \A s \in Rest : s \in ToSet(batch)
                         \/ (Len(batch) = BatchSize /\ Precedes(Last(batch), s))
  BY <1>2, BatchProperties
<1> HIDE DEF batch
<1>4. added = <<>> \/ \A n \in DOMAIN batch : Precedes(Last(added), batch[n])
  <2>1. CASE Unstarted
    BY <2>1 DEF Unstarted
  <2>2. CASE Underway
    <3>1. Last(added) \in Pool
      <4>1. added # <<>> /\ Len(added) \in 1..Len(added) /\ Last(added) = added[Len(added)]
        BY <1>2, <2>2 DEF Underway, Last
      <4> QED
        BY <1>2, <4>1
    <3>2. \A s \in Rest : s \in Pool /\ After(Last(added), s)
      BY <1>2, <2>2 DEF Rest, Underway
    <3> QED
      BY <1>3, <3>1, <3>2, Ordered
  <2> QED
    BY <1>2, <2>1, <2>2
<1>5. /\ added' \in Seq(Pool) /\ Sorted(added')
      /\ ToSet(added') = ToSet(added) \cup ToSet(batch)
      /\ batch # <<>> => Last(added') = Last(batch)
  BY <1>1, <1>2, <1>3, <1>4, SortedConcat
<1>6. ArchiveStands' /\ AddedStands'
  BY <1>1, <1>2, <1>5 DEF ArchiveStands, AddedStands
<1>7. \A s \in stable' : s \in Counted' \/ (Len(batch) = BatchSize /\ Precedes(Last(batch), s))
  <2>1. TAKE s \in stable'
  <2>2. s \in Counted \/ s \in Rest
    <3>1. CASE Unstarted
      BY <1>1, <2>1, <3>1 DEF Unstarted, Rest
    <3>2. CASE Underway
      <4>1. s \in stable /\ s \in sessions /\ s \in Pool
        BY <1>1, <1>2, <2>1, <3>2 DEF Underway
      <4>2. Last(added) \in Pool
        <5>1. added # <<>> /\ Len(added) \in 1..Len(added) /\ Last(added) = added[Len(added)]
          BY <1>2, <3>2 DEF Underway, Last
        <5> QED
          BY <1>2, <5>1
      <4> QED
        BY <3>2, <4>1, <4>2, Ordered DEF Underway, Rest
    <3> QED
      BY <1>2, <3>1, <3>2
  <2> QED
    BY <1>3, <1>5, <2>2 DEF Counted
<1>8. CASE Len(batch) = BatchSize /\ cursor' = {Last(batch)} /\ UNCHANGED <<phase, answer>>
  <2>1. batch # <<>>
    BY <1>8 DEF UnitsAssumption
  <2>2. added' # <<>>
    <3>1. batch[1] \in ToSet(batch)
      BY <1>3, <2>1 DEF ToSet
    <3>2. ToSet(<<>>) = {}
      BY DEF ToSet
    <3> QED
      BY <1>5, <3>1, <3>2
  <2>3. Underway'
    BY <1>5, <1>7, <1>8, <2>1, <2>2 DEF Underway
  <2> QED
    BY <1>1, <1>2, <1>6, <1>8, <2>3 DEF IInv, CursorStands, AnswerStands
<1>9. CASE Len(batch) # BatchSize /\ phase' \in {"empty", "done"} /\ (phase' = "empty" => answer' = {})
  BY <1>6, <1>7, <1>9 DEF IInv, CursorStands, AnswerStands
<1> QED
  BY <1>1, <1>8, <1>9

LEMMA InvStep == IInv /\ [Next]_vars => IInv'
<1> SUFFICES ASSUME IInv, [Next]_vars PROVE IInv'
  OBVIOUS
<1>1. CASE UNCHANGED vars
  BY <1>1 DEF vars, archive, IInv, ArchiveStands, AddedStands, Sorted, CursorStands, Unstarted,
              Underway, AnswerStands, Counted
<1> QED
  BY <1>1, PromoteStep, QueryStep, EmptyStep, BatchStep DEF Next

-----------------------------------------------------------------------------
\* No session is counted twice in a dashboard, and one that was stored from the
\* first batch to the last is counted, whatever other processes promote between
\* two batches: for any sessions and any size of a batch.
THEOREM SessionsCountedOnce == Spec => []EverySessionCountedOnce
<1>1. IInv => EverySessionCountedOnce
  <2> SUFFICES ASSUME IInv PROVE EverySessionCountedOnce
    OBVIOUS
  <2>1. ASSUME NEW s \in Counted PROVE Times(s) = 1
    <3>1. PICK n \in DOMAIN added : added[n] = s
      BY <2>1 DEF Counted, ToSet
    <3>2. \A m \in DOMAIN added : added[m] = s => m = n
      <4>1. ASSUME NEW m \in DOMAIN added, added[m] = s, m # n PROVE FALSE
        <5>1. s \in Pool /\ m \in Int /\ n \in Int
          BY <3>1 DEF IInv, AddedStands
        <5>2. m < n \/ n < m
          BY <4>1, <5>1
        <5>3. Precedes(s, s)
          BY <3>1, <4>1, <5>2 DEF IInv, AddedStands, Sorted
        <5> QED
          BY <5>1, <5>3, Ordered
      <4> QED
        BY <4>1
    <3>3. {m \in DOMAIN added : added[m] = s} = {n}
      BY <3>1, <3>2
    <3> QED
      BY <3>3, FS_Singleton DEF Times
  <2> QED
    BY <2>1 DEF IInv, AnswerStands, EverySessionCountedOnce, Ready
<1> QED
  BY <1>1, InitInv, InvStep, PTL DEF Spec

-----------------------------------------------------------------------------
(***************************************************************************)
(* What has been accumulated, session by session.                          *)
(***************************************************************************)
\* f[m] is what is accumulated from a over the first m sessions of q.
Accumulates(f, a, q, n) == f = [m \in 0..n |-> IF m = 0 THEN a ELSE Add(f[m - 1], q[m])]

LEMMA AccumulationExists ==
  ASSUME NEW a, NEW q, NEW n \in Nat
  PROVE  \E f : Accumulates(f, a, q, n)
<1> DEFINE Bad == {m \in Nat : ~\E f : Accumulates(f, a, q, m)}
<1>1. CASE Bad = {}
  BY <1>1
<1>2. CASE Bad # {}
  <2>1. PICK k \in Bad : \A m \in Bad : k <= m
    <3>1. Bad \in SUBSET Nat
      OBVIOUS
    <3> HIDE DEF Bad
    <3> QED
      BY <1>2, <3>1, LeastNatural
  <2>2. k \in Nat /\ ~\E f : Accumulates(f, a, q, k)
    BY <2>1
  <2>3. k # 0
    <3>1. Accumulates([m \in 0..0 |-> a], a, q, 0)
      BY DEF Accumulates
    <3> QED
      BY <2>2, <3>1
  <2>4. k - 1 \in Nat /\ k - 1 \notin Bad
    BY <2>1, <2>2, <2>3
  <2>5. PICK f : Accumulates(f, a, q, k - 1)
    BY <2>4
  <2> DEFINE g == [m \in 0..k |-> IF m = k THEN Add(f[k - 1], q[k]) ELSE f[m]]
  <2>6. g = [m \in 0..k |-> IF m = 0 THEN a ELSE Add(g[m - 1], q[m])]
    <3>1. ASSUME NEW m \in 0..k
          PROVE  g[m] = IF m = 0 THEN a ELSE Add(g[m - 1], q[m])
      <4>1. CASE m = 0
        BY <2>3, <2>4, <2>5, <4>1 DEF Accumulates
      <4>2. CASE m # 0
        <5>1. m - 1 \in 0..(k - 1) /\ m - 1 \in 0..k /\ m - 1 # k
          BY <2>2, <4>2
        <5>2. g[m - 1] = f[m - 1]
          BY <5>1
        <5>3. g[m] = Add(f[m - 1], q[m])
          <6>1. CASE m = k
            BY <6>1
          <6>2. CASE m # k
            <7>1. m \in 0..(k - 1)
              BY <2>2, <6>2
            <7> QED
              BY <2>5, <4>2, <6>2, <7>1 DEF Accumulates
          <6> QED
            BY <6>1, <6>2
        <5> QED
          BY <4>2, <5>2, <5>3
      <4> QED
        BY <4>1, <4>2
    <3> QED
      BY <3>1
  <2>7. Accumulates(g, a, q, k)
    BY <2>6 DEF Accumulates
  <2> QED
    BY <2>2, <2>7
<1> QED
  BY <1>1, <1>2

\* Two sequences that begin alike accumulate alike.
LEMMA AccumulationUnique ==
  ASSUME NEW a, NEW p, NEW q, NEW m \in Nat, NEW n \in Nat, m <= n,
         \A k \in 1..m : p[k] = q[k],
         NEW f, NEW g, Accumulates(f, a, p, m), Accumulates(g, a, q, n)
  PROVE  \A k \in 0..m : f[k] = g[k]
<1> DEFINE Bad == {k \in 0..m : f[k] # g[k]}
<1>1. CASE Bad = {}
  BY <1>1
<1>2. CASE Bad # {}
  <2>1. PICK k \in Bad : \A j \in Bad : k <= j
    <3>1. Bad \in SUBSET Nat
      OBVIOUS
    <3> HIDE DEF Bad
    <3> QED
      BY <1>2, <3>1, LeastNatural
  <2>2. k \in 0..m /\ k \in 0..n /\ f[k] # g[k]
    BY <2>1
  <2>3. k # 0
    BY <2>2 DEF Accumulates
  <2>4. k - 1 \in 0..m /\ k \in 1..m /\ k - 1 < k
    BY <2>2, <2>3
  <2>5. f[k - 1] = g[k - 1]
    BY <2>1, <2>4
  <2>6. f[k] = Add(f[k - 1], p[k])
    BY <2>2, <2>3 DEF Accumulates
  <2>7. g[k] = Add(g[k - 1], q[k])
    BY <2>2, <2>3 DEF Accumulates
  <2> QED
    BY <2>2, <2>4, <2>5, <2>6, <2>7
<1> QED
  BY <1>1, <1>2

LEMMA AccumulatedIs ==
  ASSUME NEW a, NEW q, Len(q) \in Nat, NEW f, Accumulates(f, a, q, Len(q))
  PROVE  Accumulated(a, q) = f[Len(q)]
<1> DEFINE g == CHOOSE h : h = [m \in 0..Len(q) |-> IF m = 0 THEN a ELSE Add(h[m - 1], q[m])]
<1>1. Accumulated(a, q) = g[Len(q)]
  BY DEF Accumulated
<1>2. Accumulates(g, a, q, Len(q))
  BY DEF Accumulates
<1> HIDE DEF g
<1>3. \A k \in 0..Len(q) : g[k] = f[k]
  BY <1>2, AccumulationUnique
<1> QED
  BY <1>1, <1>3

LEMMA AccumulatedConcat ==
  ASSUME NEW a, NEW p \in Seq(Pool), NEW q \in Seq(Pool)
  PROVE  Accumulated(Accumulated(a, p), q) = Accumulated(a, p \o q)
<1> DEFINE r == p \o q
           m == Len(p)
           n == Len(q)
<1>1. m \in Nat /\ n \in Nat /\ Len(r) = m + n
  OBVIOUS
<1>2. /\ \A k \in 1..m : p[k] = r[k]
      /\ \A k \in 1..n : q[k] = r[m + k]
  <2>1. r \in Seq(Pool) /\ \A i \in 1..m + n : r[i] = IF i <= m THEN p[i] ELSE q[i - m]
    BY ConcatProperties
  <2> HIDE DEF r
  <2>2. \A k \in 1..n : m + k \in 1..m + n /\ ~(m + k <= m) /\ (m + k) - m = k
    BY <1>1
  <2>3. \A k \in 1..m : k \in 1..m + n /\ k <= m
    BY <1>1
  <2> HIDE DEF m, n
  <2> QED
    BY <2>1, <2>2, <2>3
<1> HIDE DEF r
<1>3. PICK f : Accumulates(f, a, r, m + n)
  <2>1. m + n \in Nat
    BY <1>1
  <2> HIDE DEF m, n
  <2> QED
    BY <2>1, AccumulationExists
<1>4. PICK h : Accumulates(h, a, p, m)
  BY <1>1, AccumulationExists
<1>5. Accumulated(a, p) = f[m]
  <2>1. Accumulated(a, p) = h[m]
    BY <1>4, AccumulatedIs
  <2>2. \A k \in 0..m : h[k] = f[k]
    <3> DEFINE l == m + n
    <3>1. m \in Nat /\ l \in Nat /\ m <= l
      BY <1>1
    <3>2. Accumulates(h, a, p, m) /\ Accumulates(f, a, r, l)
      BY <1>3, <1>4
    <3>3. \A k \in 1..m : p[k] = r[k]
      BY <1>2
    <3> HIDE DEF m, n, l
    <3> QED
      BY <3>1, <3>2, <3>3, AccumulationUnique
  <2> QED
    BY <1>1, <2>1, <2>2
<1> DEFINE g == [k \in 0..n |-> f[m + k]]
<1>6. Accumulates(g, f[m], q, n)
  <2> HIDE DEF m, n
  <2>1. ASSUME NEW k \in 0..n
        PROVE  g[k] = IF k = 0 THEN f[m] ELSE Add(g[k - 1], q[k])
    <3>1. CASE k = 0
      <4>1. m + 0 = m /\ g[k] = f[m + k]
        BY <1>1
      <4> QED
        BY <3>1, <4>1
    <3>2. CASE k # 0
      <4>1. m + k \in 0..(m + n) /\ m + k # 0 /\ k - 1 \in 0..n /\ k \in 1..n /\ (m + k) - 1 = m + (k - 1)
        BY <1>1, <3>2
      <4>2. f[m + k] = Add(f[(m + k) - 1], r[m + k])
        BY <1>3, <4>1 DEF Accumulates
      <4>3. g[k] = f[m + k] /\ g[k - 1] = f[m + (k - 1)] /\ r[m + k] = q[k]
        BY <1>2, <4>1
      <4> HIDE DEF g
      <4> QED
        BY <3>2, <4>1, <4>2, <4>3
    <3> QED
      BY <3>1, <3>2
  <2>2. g = [k \in 0..n |-> IF k = 0 THEN f[m] ELSE Add(g[k - 1], q[k])]
    BY <2>1
  <2> QED
    BY <2>2 DEF Accumulates
<1>7. Accumulated(f[m], q) = g[n]
  <2> HIDE DEF g
  <2> QED
    BY <1>1, <1>6, AccumulatedIs
<1>8. g[n] = f[m + n]
  BY <1>1
<1>9. Accumulated(a, r) = f[m + n]
  BY <1>1, <1>3, AccumulatedIs
<1> QED
  BY <1>5, <1>7, <1>8, <1>9 DEF r

-----------------------------------------------------------------------------
(***************************************************************************)
(* One session.                                                            *)
(***************************************************************************)
LEMMA SessionTimes ==
  ASSUME NEW s \in Pool
  PROVE  /\ s.start \in Nat /\ ObservedEnd(s) \in Nat /\ s.start <= ObservedEnd(s)
<1>1. /\ s \in SessionShape
      /\ s.start \in Nat /\ s.end \in Nat \cup {None} /\ s.duration \in Nat \cup {None}
  BY DEF PoolAssumption, SessionShape
<1>2. TicksPerSecond \in Nat /\ None = -1
  BY DEF UnitsAssumption, None
<1>3. CASE Implausible(s)
  <2>1. Bounds(s).end = None /\ Bounds(s).duration = None
    BY <1>1, <1>3 DEF Bounds, SessionShape
  <2> QED
    BY <1>1, <2>1 DEF ObservedEnd, IntervalEnd
<1>4. CASE ~Implausible(s)
  <2>1. Bounds(s) = s
    BY <1>4 DEF Bounds
  <2>2. CASE s.end # None
    <3>1. ~(s.end < s.start)
      BY <1>4, <2>2 DEF Implausible
    <3>2. ObservedEnd(s) = s.end
      BY <2>1, <2>2 DEF ObservedEnd, IntervalEnd
    <3> QED
      BY <1>1, <1>2, <2>2, <3>1, <3>2
  <2>3. CASE s.end = None /\ s.duration # None
    <3>1. ObservedEnd(s) = s.start + s.duration * TicksPerSecond
      <4>1. IntervalEnd(s) = s.start + s.duration * TicksPerSecond
        BY <2>1, <2>3 DEF IntervalEnd
      <4>2. s.duration \in Nat
        BY <1>1, <2>3
      <4>3. s.duration * TicksPerSecond \in Nat
        <5>1. \A m, n \in Nat : m * n \in Nat
          OBVIOUS
        <5> QED
          BY <1>2, <4>2, <5>1
      <4>4. \A m, n \in Nat : m + n # -1
        OBVIOUS
      <4>5. IntervalEnd(s) # None
        BY <1>1, <1>2, <4>1, <4>3, <4>4
      <4> QED
        BY <4>1, <4>5 DEF ObservedEnd
    <3>2. s.duration * TicksPerSecond \in Nat
      <4>1. s.duration \in Nat
        BY <1>1, <2>3
      <4>2. \A m, n \in Nat : m * n \in Nat
        OBVIOUS
      <4> QED
        BY <1>2, <4>1, <4>2
    <3>3. \A m, n \in Nat : m + n \in Nat /\ m <= m + n
      OBVIOUS
    <3> QED
      BY <1>1, <3>1, <3>2, <3>3
  <2>4. CASE s.end = None /\ s.duration = None
    <3>1. IntervalEnd(s) = None
      BY <2>1, <2>4 DEF IntervalEnd
    <3> QED
      BY <1>1, <3>1 DEF ObservedEnd
  <2> QED
    BY <2>2, <2>3, <2>4
<1> QED
  BY <1>3, <1>4

\* What one session adds to the unique time.
LEMMA UnionOfSum ==
  ASSUME NEW a, NEW s, "union" \in DOMAIN a
  PROVE  /\ "union" \in DOMAIN Add(a, s)
         /\ Add(a, s).union = IF ObservedEnd(s) > s.start THEN UnionAdd(a.union, s.start, ObservedEnd(s))
                                                          ELSE a.union
<1> DEFINE b == UpdateCalendarEnd(a, Local(s, ObservedEnd(s)))
<1>1. DOMAIN b = DOMAIN a /\ b.union = a.union
  BY DEF UpdateCalendarEnd
<1> HIDE DEF b
<1> QED
  BY <1>1 DEF Add, b

-----------------------------------------------------------------------------
(***************************************************************************)
(* The unique time.                                                        *)
(***************************************************************************)
Length == [s \in Pool |-> ObservedEnd(s) - s.start]
Reach(C) == UNION {s.start..(ObservedEnd(s) - 1) : s \in C}
\* The interval that is kept is empty or reached throughout by sessions of C,
\* and the time counted so far lies between what they reach and their lengths.
UnionStands(u, C) ==
    /\ u.millis \in Nat
    /\ \/ u.current = {} /\ u.millis = 0 /\ Reach(C) = {}
       \/ \E a, b \in Nat : /\ u.current = {<<a, b>>} /\ a < b
                            /\ a..(b - 1) \subseteq Reach(C)
                            /\ \E s \in C : a = s.start
    /\ Cardinality(Reach(C)) <= u.millis + CurrentLength(u)
    /\ u.millis + CurrentLength(u) <= Total(Length, C)

LEMMA CurrentLengthIs ==
  ASSUME NEW u
  PROVE  /\ u.current = {} => CurrentLength(u) = 0
         /\ \A a, b \in Nat : u.current = {<<a, b>>} /\ a <= b => CurrentLength(u) = b - a
<1> DEFINE w == [c \in u.current |-> c[2] - c[1]]
<1>1. CurrentLength(u) = Total(w, u.current)
  BY DEF CurrentLength, SumOver, Total
<1>2. CASE u.current = {}
  <2> HIDE DEF w
  <2>1. Total(w, {}) = 0
    <3>1. IsFiniteSet({})
      BY FS_EmptySet
    <3> QED
      BY <3>1, TotalUnfolds
  <2> QED
    BY <1>1, <1>2, <2>1
<1>3. ASSUME NEW a \in Nat, NEW b \in Nat, u.current = {<<a, b>>}, a <= b
      PROVE  CurrentLength(u) = b - a
  <2>1. w[<<a, b>>] = b - a /\ b - a \in Nat
    BY <1>3
  <2>2. IsFiniteSet({<<a, b>>}) /\ {<<a, b>>} \ {<<a, b>>} = {}
    BY FS_Singleton
  <2> HIDE DEF w
  <2>3. /\ Total(w, {}) = 0
        /\ Total(w, {<<a, b>>}) = w[<<a, b>>] + Total(w, {<<a, b>>} \ {<<a, b>>})
    <3> DEFINE one == {<<a, b>>}
    <3>1. IsFiniteSet(one) /\ <<a, b>> \in one /\ \A x \in one : w[x] \in Nat
      BY <2>1, <2>2
    <3>2. Total(w, {}) = 0
      <4> HIDE DEF one
      <4> QED
        BY <3>1, TotalUnfolds
    <3>3. Total(w, one) = w[<<a, b>>] + Total(w, one \ {<<a, b>>})
      <4> HIDE DEF one
      <4> QED
        BY <3>1, TotalWithout
    <3> QED
      BY <3>2, <3>3
  <2>4. Total(w, u.current) = b - a
    <3>1. Total(w, u.current) = Total(w, {<<a, b>>})
      BY <1>3
    <3>2. Total(w, {<<a, b>>} \ {<<a, b>>}) = Total(w, {})
      BY <2>2
    <3>3. Total(w, u.current) = w[<<a, b>>] + 0
      BY <2>3, <3>1, <3>2
    <3> QED
      BY <2>1, <3>3
  <2> QED
    BY <1>1, <2>4
<1> QED
  BY <1>2, <1>3

LEMMA IntervalSize ==
  ASSUME NEW a \in Nat, NEW b \in Nat, a <= b
  PROVE  IsFiniteSet(a..(b - 1)) /\ Cardinality(a..(b - 1)) = b - a
<1>1. a \in Int /\ b - 1 \in Int
  OBVIOUS
<1>2. /\ IsFiniteSet(a..(b - 1))
      /\ Cardinality(a..(b - 1)) = IF a > b - 1 THEN 0 ELSE (b - 1) - a + 1
  BY <1>1, FS_Interval, Zenon
<1> QED
  BY <1>2

\* Few instants are reached for the first time.
LEMMA ReachGrows ==
  ASSUME NEW R, IsFiniteSet(R), NEW N, IsFiniteSet(N), NEW T, T \subseteq R \cup N
  PROVE  /\ IsFiniteSet(T)
         /\ Cardinality(T) <= Cardinality(R) + Cardinality(N)
<1>1. IsFiniteSet(R \cup N) /\ Cardinality(R \cup N) = Cardinality(R) + Cardinality(N) - Cardinality(R \cap N)
  BY FS_Union
<1>2. IsFiniteSet(R \cap N)
  <2>1. R \cap N \in SUBSET R
    OBVIOUS
  <2> QED
    BY <2>1, FS_Subset
<1>3. T \in SUBSET (R \cup N)
  OBVIOUS
<1> DEFINE U == R \cup N
<1>4. IsFiniteSet(T) /\ Cardinality(T) <= Cardinality(U)
  <2>1. IsFiniteSet(U) /\ T \in SUBSET U
    BY <1>1, <1>3
  <2> HIDE DEF U
  <2> QED
    BY <2>1, FS_Subset
<1>5. /\ Cardinality(R) \in Nat /\ Cardinality(N) \in Nat /\ Cardinality(R \cap N) \in Nat
      /\ Cardinality(T) \in Nat
  BY <1>2, <1>4, FS_CardinalityType
<1> QED
  BY <1>1, <1>4, <1>5

Joins(R, a, b, x, y, late) ==
    /\ x..(late - 1) \subseteq R \cup (x..(y - 1))
    /\ IsFiniteSet(R \cup (x..(y - 1)))
    /\ Cardinality(R \cup (x..(y - 1))) <= Cardinality(R) + ((late - x) - (b - a))
    /\ (late - x) - (b - a) <= y - x
    /\ x < late

\* An interval that ends at or after the start of another one joins it: at most
\* the instants before the old start and those from the old end on are new.
LEMMA JoinedSize ==
  ASSUME NEW a \in Nat, NEW b \in Nat, a < b, NEW x \in Nat, NEW y \in Nat, x < y, x <= a, a <= y,
         NEW R, IsFiniteSet(R), a..(b - 1) \subseteq R,
         NEW late \in Nat, late = IF b <= y THEN y ELSE b
  PROVE  Joins(R, a, b, x, y, late)
<1> DEFINE Old == x..(a - 1)
           Late == b..(late - 1)
           New == Old \cup Late
<1>1. x..(late - 1) \subseteq R \cup (x..(y - 1))
  <2>1. ASSUME NEW i \in x..(late - 1) PROVE i \in (a..(b - 1)) \cup (x..(y - 1))
    <3>1. i \in Int /\ x <= i /\ (i < y \/ i < b)
      OBVIOUS
    <3>2. CASE i < y
      BY <3>1, <3>2
    <3>3. CASE i >= y
      BY <3>1, <3>3
    <3> QED
      BY <3>1, <3>2, <3>3
  <2> QED
    BY <2>1
<1>2. /\ IsFiniteSet(Old) /\ Cardinality(Old) = a - x
      /\ IsFiniteSet(Late) /\ Cardinality(Late) = late - b
  <2>1. b <= late
    OBVIOUS
  <2>2. IsFiniteSet(x..(a - 1)) /\ Cardinality(x..(a - 1)) = a - x
    BY IntervalSize
  <2>3. IsFiniteSet(b..(late - 1)) /\ Cardinality(b..(late - 1)) = late - b
    BY <2>1, IntervalSize
  <2> QED
    BY <2>2, <2>3
<1> HIDE DEF Old, Late
<1>3. IsFiniteSet(New) /\ Cardinality(New) <= (a - x) + (late - b)
  BY <1>2, ReachGrows
<1>4. R \cup (x..(y - 1)) \subseteq R \cup New
  <2>1. ASSUME NEW i \in x..(y - 1) PROVE i \in (a..(b - 1)) \cup Old \cup Late
    BY DEF Old, Late
  <2> QED
    BY <2>1
<1> HIDE DEF New
<1>5. /\ IsFiniteSet(R \cup (x..(y - 1)))
      /\ Cardinality(R \cup (x..(y - 1))) <= Cardinality(R) + Cardinality(New)
  <2> DEFINE T == R \cup (x..(y - 1))
  <2>1. T \subseteq R \cup New
    BY <1>4
  <2> HIDE DEF T
  <2>2. IsFiniteSet(T) /\ Cardinality(T) <= Cardinality(R) + Cardinality(New)
    BY <1>3, <2>1, ReachGrows
  <2> QED
    BY <2>2 DEF T
<1>6. Cardinality(R) \in Nat /\ Cardinality(New) \in Nat /\ Cardinality(R \cup (x..(y - 1))) \in Nat
  BY <1>3, <1>5, FS_CardinalityType
<1> DEFINE r == Cardinality(R)
           n == Cardinality(New)
           t == Cardinality(R \cup (x..(y - 1)))
<1>7. t <= r + ((late - x) - (b - a))
  <2>1. r \in Nat /\ n \in Nat /\ t \in Nat /\ t <= r + n /\ n <= (a - x) + (late - b)
    BY <1>3, <1>5, <1>6
  <2> HIDE DEF r, n, t
  <2> QED
    BY <2>1
<1> QED
  BY <1>1, <1>5, <1>7 DEF Joins

LEMMA MinMaxOfTwo ==
  ASSUME NEW m \in Int, NEW n \in Int
  PROVE  /\ Min({m, n}) = IF m <= n THEN m ELSE n
         /\ Max({m, n}) = IF m <= n THEN n ELSE m
BY DEF Min, Max

\* What a session that starts no later than the others does to the union.
AddsTo(u, x, y, a, b) ==
    /\ u.current = {} => UnionAdd(u, x, y) = [u EXCEPT !.current = {<<x, y>>}]
    /\ u.current = {<<a, b>>} /\ y >= a =>
         UnionAdd(u, x, y) = [u EXCEPT !.current = {<<x, IF b <= y THEN y ELSE b>>}]
    /\ u.current = {<<a, b>>} /\ y < a =>
         UnionAdd(u, x, y) = [current |-> {<<x, y>>}, millis |-> u.millis + (b - a)]

LEMMA UnionAddIs ==
  ASSUME NEW u, NEW x \in Nat, NEW y \in Nat, NEW a \in Nat, NEW b \in Nat, x <= a, a < b
  PROVE  AddsTo(u, x, y, a, b)
<1>1. CASE u.current = {}
  <2> DEFINE joined == u.current \cup {<<x, y>>}
  <2>1. {c[1] : c \in joined} = {x, x} /\ {c[2] : c \in joined} = {y, y}
    <3>1. joined = {<<x, y>>}
      BY <1>1
    <3> HIDE DEF joined
    <3>2. {c[1] : c \in joined} = {x} /\ {c[2] : c \in joined} = {y}
      BY <3>1
    <3> QED
      BY <3>2
  <2>2. Min({x, x}) = x /\ Max({y, y}) = y
    <3>1. Min({x, x}) = (IF x <= x THEN x ELSE x) /\ Max({y, y}) = (IF y <= y THEN y ELSE y)
      <4>1. x \in Int /\ y \in Int
        OBVIOUS
      <4> QED
        BY <4>1, MinMaxOfTwo, Zenon
    <3> QED
      BY <3>1, Zenon
  <2>3. Min({c[1] : c \in joined}) = x /\ Max({c[2] : c \in joined}) = y
    BY <2>1, <2>2
  <2>4. UnionAdd(u, x, y) = [u EXCEPT !.current = {<<Min({c[1] : c \in joined}), Max({c[2] : c \in joined})>>}]
    BY <1>1 DEF UnionAdd
  <2> QED
    BY <1>1, <2>3, <2>4 DEF AddsTo
<1>2. CASE u.current = {<<a, b>>} /\ y >= a
  <2> DEFINE joined == u.current \cup {<<x, y>>}
             late == IF b <= y THEN y ELSE b
  <2>1. {c[1] : c \in joined} = {x, a} /\ {c[2] : c \in joined} = {b, y}
    BY <1>2
  <2>2. Min({x, a}) = x /\ Max({b, y}) = late
    <3>1. x \in Int /\ a \in Int /\ b \in Int /\ y \in Int
      OBVIOUS
    <3> QED
      BY <3>1, MinMaxOfTwo
  <2>3. Min({c[1] : c \in joined}) = x /\ Max({c[2] : c \in joined}) = late
    BY <2>1, <2>2
  <2>4. UnionAdd(u, x, y) = [u EXCEPT !.current = {<<Min({c[1] : c \in joined}), Max({c[2] : c \in joined})>>}]
    <3>1. \A c \in u.current : y >= c[1]
      BY <1>2
    <3> QED
      BY <3>1 DEF UnionAdd
  <2>5. u.current # {} /\ ~(y < a)
    BY <1>2
  <2> QED
    BY <1>2, <2>3, <2>4, <2>5 DEF AddsTo
<1>3. CASE u.current = {<<a, b>>} /\ y < a
  <2>1. ~\A c \in u.current : y >= c[1]
    BY <1>3
  <2>2. CurrentLength(u) = b - a
    BY <1>3, CurrentLengthIs
  <2>3. UnionAdd(u, x, y) = [current |-> {<<x, y>>}, millis |-> u.millis + (b - a)]
    BY <2>1, <2>2 DEF UnionAdd
  <2>4. u.current # {} /\ ~(y >= a)
    BY <1>3
  <2> QED
    BY <1>3, <2>3, <2>4 DEF AddsTo
<1> QED
  BY <1>1, <1>2, <1>3 DEF AddsTo

LEMMA UnionStep ==
  ASSUME NEW u \in [current : SUBSET (Nat \X Nat), millis : Nat],
         NEW C \in SUBSET Pool, IsFiniteSet(C), IsFiniteSet(Reach(C)), UnionStands(u, C),
         NEW s \in Pool \ C, \A t \in C : s.start <= t.start,
         NEW v, v = IF ObservedEnd(s) > s.start THEN UnionAdd(u, s.start, ObservedEnd(s)) ELSE u
  PROVE  /\ v \in [current : SUBSET (Nat \X Nat), millis : Nat]
         /\ IsFiniteSet(Reach(C \cup {s}))
         /\ UnionStands(v, C \cup {s})
<1> DEFINE x == s.start
           y == ObservedEnd(s)
           D == C \cup {s}
<1>1. x \in Nat /\ y \in Nat /\ x <= y /\ Length[s] = y - x /\ y - x \in Nat
  BY SessionTimes DEF Length
<1>2. /\ IsFiniteSet(D) /\ Total(Length, D) = (y - x) + Total(Length, C)
      /\ Total(Length, C) \in Nat
  <2>1. \A t \in D : Length[t] \in Nat
    BY SessionTimes DEF Length
  <2>2. IsFiniteSet(D) /\ s \in D /\ D \ {s} = C
    BY FS_AddElement
  <2> HIDE DEF D
  <2>3. Total(Length, D) = Length[s] + Total(Length, D \ {s})
    BY <2>1, <2>2, TotalWithout
  <2>4. Total(Length, C) \in Nat
    <3>1. \A t \in C : Length[t] \in Nat
      BY <2>1, <2>2
    <3> QED
      BY <3>1, TotalUnfolds
  <2> QED
    BY <1>1, <2>2, <2>3, <2>4
<1>3. Reach(D) = Reach(C) \cup (x..(y - 1))
  BY DEF Reach
<1>4. u.millis \in Nat /\ u.current \in SUBSET (Nat \X Nat)
  OBVIOUS
<1> DEFINE r == Cardinality(Reach(C))
           t == Cardinality(Reach(D))
           sum == Total(Length, C)
<1>5. r \in Nat /\ CurrentLength(u) \in Nat /\ r <= u.millis + CurrentLength(u)
      /\ u.millis + CurrentLength(u) <= sum
  <2>1. r \in Nat
    BY FS_CardinalityType
  <2>2. CurrentLength(u) \in Nat
    <3>1. CASE u.current = {}
      BY <3>1, CurrentLengthIs
    <3>2. ASSUME NEW a \in Nat, NEW b \in Nat, u.current = {<<a, b>>}, a < b
          PROVE  CurrentLength(u) \in Nat
      <4>1. a <= b
        BY <3>2
      <4>2. CurrentLength(u) = b - a
        BY <3>2, <4>1, CurrentLengthIs
      <4> QED
        BY <3>2, <4>2
    <3> QED
      BY <3>1, <3>2 DEF UnionStands
  <2> QED
    BY <2>1, <2>2 DEF UnionStands
<1> HIDE DEF D
<1>6. CASE ~(y > x)
  <2>1. v = u /\ x = y /\ x..(y - 1) = {}
    BY <1>1, <1>6
  <2>2. Reach(D) = Reach(C)
    BY <1>3, <2>1
  <2>3. Total(Length, D) = Total(Length, C)
    BY <1>1, <1>2, <2>1
  <2>4. C \subseteq D
    BY DEF D
  <2>5. UnionStands(u, D)
    <3>1. u.current = {} /\ u.millis = 0 /\ Reach(C) = {} => Reach(D) = {}
      BY <2>2
    <3> QED
      BY <2>2, <2>3, <2>4 DEF UnionStands
  <2> QED
    BY <2>1, <2>2, <2>5 DEF D
<1>7. CASE y > x
  <2>1. v = UnionAdd(u, x, y)
    BY <1>7
  <2> HIDE DEF x, y, r, t, sum
  <2>2. CASE u.current = {}
    <3>1. /\ v = [u EXCEPT !.current = {<<x, y>>}] /\ u.millis = 0 /\ Reach(C) = {}
      <4>1. UnionAdd(u, x, y) = [u EXCEPT !.current = {<<x, y>>}]
        <5>1. x <= x /\ x < x + 1 /\ x + 1 \in Nat
          BY <1>1
        <5>2. AddsTo(u, x, y, x, x + 1)
          BY <1>1, <5>1, UnionAddIs
        <5> QED
          BY <2>2, <5>2 DEF AddsTo
      <4>2. u.millis = 0 /\ Reach(C) = {}
        BY <2>2 DEF UnionStands
      <4> QED
        BY <2>1, <4>1, <4>2
    <3>2. v \in [current : SUBSET (Nat \X Nat), millis : Nat] /\ v.current = {<<x, y>>} /\ v.millis = 0
      BY <1>1, <3>1
    <3>3. CurrentLength(v) = y - x
      BY <1>1, <3>2, CurrentLengthIs
    <3>4. Reach(D) = x..(y - 1) /\ IsFiniteSet(Reach(D)) /\ t = y - x
      <4>1. Reach(D) = x..(y - 1)
        BY <1>3, <3>1
      <4>2. IsFiniteSet(x..(y - 1)) /\ Cardinality(x..(y - 1)) = y - x
        BY <1>1, IntervalSize
      <4> QED
        BY <4>1, <4>2 DEF t
    <3>5. UnionStands(v, D)
      <4>1. x = s.start /\ s \in D
        BY DEF x, D
      <4>2. t <= v.millis + CurrentLength(v) /\ v.millis + CurrentLength(v) <= Total(Length, D)
        <5>1. /\ v.millis = 0 /\ CurrentLength(v) = y - x /\ t = y - x
              /\ Total(Length, D) = (y - x) + sum /\ sum \in Nat /\ y - x \in Nat
          BY <1>1, <1>2, <3>2, <3>3, <3>4 DEF sum
        <5>2. \A m, n \in Nat : m <= 0 + m /\ 0 + m <= m + n
          OBVIOUS
        <5> QED
          BY <5>1, <5>2
      <4>3. x..(y - 1) \subseteq Reach(D)
        BY <3>4
      <4> QED
        BY <1>1, <1>7, <3>2, <4>1, <4>2, <4>3 DEF UnionStands, t
    <3> QED
      BY <3>2, <3>4, <3>5 DEF D
  <2>3. ASSUME NEW a \in Nat, NEW b \in Nat, u.current = {<<a, b>>}, a < b,
               a..(b - 1) \subseteq Reach(C), x <= a
        PROVE  /\ v \in [current : SUBSET (Nat \X Nat), millis : Nat]
               /\ IsFiniteSet(Reach(D)) /\ UnionStands(v, D)
    <3>1. CurrentLength(u) = b - a
      BY <2>3, CurrentLengthIs
    <3>2. CASE y >= a
      <4> DEFINE late == IF b <= y THEN y ELSE b
      <4>1. v = [u EXCEPT !.current = {<<x, late>>}] /\ late \in Nat
        <5>1. u.current = {<<a, b>>} /\ y >= a =>
                UnionAdd(u, x, y) = [u EXCEPT !.current = {<<x, IF b <= y THEN y ELSE b>>}]
          <6>1. AddsTo(u, x, y, a, b)
            BY <1>1, <2>3, UnionAddIs
          <6> QED
            BY <6>1 DEF AddsTo
        <5>2. late \in Nat
          BY <1>1
        <5> QED
          BY <2>1, <2>3, <3>2, <5>1, <5>2
      <4>2. /\ x..(late - 1) \subseteq Reach(D)
            /\ IsFiniteSet(Reach(D))
            /\ t <= r + ((late - x) - (b - a))
            /\ (late - x) - (b - a) <= y - x
            /\ x < late
        <5> DEFINE R == Reach(C)
        <5>1. /\ x..(late - 1) \subseteq R \cup (x..(y - 1))
              /\ IsFiniteSet(R \cup (x..(y - 1)))
              /\ Cardinality(R \cup (x..(y - 1))) <= Cardinality(R) + ((late - x) - (b - a))
              /\ (late - x) - (b - a) <= y - x
              /\ x < late
          <6>1. IsFiniteSet(R) /\ a..(b - 1) \subseteq R /\ x < y /\ a <= y
            BY <1>1, <1>7, <2>3, <3>2
          <6>2. late = IF b <= y THEN y ELSE b
            OBVIOUS
          <6>3. late \in Nat
            BY <4>1
          <6>4. x \in Nat /\ y \in Nat /\ a < b /\ x <= a
            BY <1>1, <2>3
          <6> HIDE DEF R, late
          <6>5. Joins(R, a, b, x, y, late)
            BY <6>1, <6>2, <6>3, <6>4, JoinedSize
          <6> QED
            BY <6>5 DEF Joins
        <5> QED
          BY <1>3, <5>1 DEF r, t
      <4> HIDE DEF late
      <4>3. v \in [current : SUBSET (Nat \X Nat), millis : Nat] /\ v.current = {<<x, late>>} /\ v.millis = u.millis
        BY <1>1, <4>1
      <4>4. CurrentLength(v) = late - x
        BY <1>1, <4>1, <4>2, <4>3, CurrentLengthIs
      <4>5. t \in Nat
        BY <4>2, FS_CardinalityType DEF t
      <4>6. t <= v.millis + CurrentLength(v) /\ v.millis + CurrentLength(v) <= Total(Length, D)
        <5>1. u.millis \in Nat /\ CurrentLength(u) = b - a /\ v.millis = u.millis
              /\ CurrentLength(v) = late - x /\ sum \in Nat /\ Total(Length, D) = (y - x) + sum
          BY <1>2, <1>4, <3>1, <4>3, <4>4 DEF sum
        <5> QED
          BY <1>1, <1>5, <2>3, <4>1, <4>2, <4>5, <5>1
      <4>7. x = s.start /\ s \in D
        BY DEF x, D
      <4>8. UnionStands(v, D)
        BY <1>1, <4>1, <4>2, <4>3, <4>6, <4>7 DEF UnionStands, t
      <4> QED
        BY <4>2, <4>3, <4>8
    <3>3. CASE y < a
      <4>1. v = [current |-> {<<x, y>>}, millis |-> u.millis + (b - a)]
        <5>1. u.current = {<<a, b>>} /\ y < a =>
                UnionAdd(u, x, y) = [current |-> {<<x, y>>}, millis |-> u.millis + (b - a)]
          <6>1. AddsTo(u, x, y, a, b)
            BY <1>1, <2>3, UnionAddIs
          <6> QED
            BY <6>1 DEF AddsTo
        <5> QED
          BY <2>1, <2>3, <3>3, <5>1
      <4>2. /\ v \in [current : SUBSET (Nat \X Nat), millis : Nat] /\ v.current = {<<x, y>>}
            /\ v.millis = u.millis + (b - a)
        <5>1. u.millis + (b - a) \in Nat
          BY <1>4, <2>3
        <5> QED
          BY <1>1, <4>1, <5>1
      <4>3. CurrentLength(v) = y - x
        BY <1>1, <4>2, CurrentLengthIs
      <4>4. IsFiniteSet(Reach(D)) /\ t <= r + (y - x)
        <5>1. IsFiniteSet(x..(y - 1)) /\ Cardinality(x..(y - 1)) = y - x
          BY <1>1, IntervalSize
        <5>2. Reach(D) \subseteq Reach(C) \cup (x..(y - 1))
          BY <1>3
        <5> DEFINE I == x..(y - 1)
        <5>3. IsFiniteSet(I) /\ Cardinality(I) = y - x /\ Reach(D) \subseteq Reach(C) \cup I
          BY <5>1, <5>2
        <5> HIDE DEF I
        <5> QED
          BY <5>3, ReachGrows DEF r, t
      <4>5. t \in Nat
        BY <4>4, FS_CardinalityType DEF t
      <4>6. t <= v.millis + CurrentLength(v) /\ v.millis + CurrentLength(v) <= Total(Length, D)
        <5>1. u.millis \in Nat /\ CurrentLength(u) = b - a /\ v.millis = u.millis + (b - a)
              /\ CurrentLength(v) = y - x /\ sum \in Nat /\ Total(Length, D) = (y - x) + sum
          BY <1>2, <1>4, <3>1, <4>2, <4>3 DEF sum
        <5> QED
          BY <1>1, <1>5, <2>3, <4>4, <4>5, <5>1
      <4>7. x = s.start /\ s \in D
        BY DEF x, D
      <4>8. x..(y - 1) \subseteq Reach(D)
        BY <1>3
      <4>9. UnionStands(v, D)
        <5>1. v.millis \in Nat
          BY <4>2
        <5> QED
          BY <1>1, <1>7, <4>2, <4>6, <4>7, <4>8, <5>1 DEF UnionStands, t
      <4> QED
        BY <4>2, <4>4, <4>9
    <3> QED
      BY <1>1, <2>3, <3>2, <3>3
  <2>4. \/ u.current = {}
        \/ \E a, b \in Nat : /\ u.current = {<<a, b>>} /\ a < b
                             /\ a..(b - 1) \subseteq Reach(C) /\ x <= a
    BY DEF UnionStands, x
  <2> QED
    BY <2>2, <2>3, <2>4 DEF D
<1> QED
  BY <1>6, <1>7

-----------------------------------------------------------------------------
(***************************************************************************)
(* The dashboard is what the sessions added make of an empty one, and a    *)
(* ready answer is made of that dashboard.                                 *)
(***************************************************************************)
Firsts(q, n) == {q[k] : k \in 1..n}

LEMMA FirstsGrow ==
  ASSUME NEW q \in Seq(Pool), Sorted(q), NEW n \in 0..Len(q), n # 0
  PROVE  /\ q[n] \in Pool \ Firsts(q, n - 1)
         /\ \A t \in Firsts(q, n - 1) : q[n].start <= t.start
         /\ Firsts(q, n) = Firsts(q, n - 1) \cup {q[n]}
<1>1. n \in 1..Len(q) /\ DOMAIN q = 1..Len(q) /\ \A k \in 1..Len(q) : q[k] \in Pool
  OBVIOUS
<1>2. ASSUME NEW k \in 1..(n - 1) PROVE Precedes(q[k], q[n]) /\ k \in 1..Len(q) /\ k \in 1..n
  <2>1. k \in 1..Len(q) /\ k \in 1..n /\ k < n
    BY <1>1
  <2>2. k \in DOMAIN q /\ n \in DOMAIN q
    BY <1>1, <2>1
  <2> QED
    BY <2>1, <2>2 DEF Sorted
<1>3. ASSUME NEW k \in 1..(n - 1) PROVE q[k] # q[n] /\ q[n].start <= q[k].start
  <2> DEFINE s == q[n]
             t == q[k]
  <2>1. s \in Pool /\ t \in Pool /\ Precedes(t, s)
    BY <1>1, <1>2
  <2> HIDE DEF s, t
  <2>2. ~Precedes(s, s) /\ s.start \in Nat /\ t.start \in Nat
    BY <2>1, Ordered, SessionTimes
  <2>3. t # s
    BY <2>1, <2>2
  <2>4. s.start <= t.start
    <3>1. t.start > s.start \/ t.start = s.start
      BY <2>1 DEF Precedes
    <3>2. \A i, j \in Nat : j > i \/ j = i => i <= j
      OBVIOUS
    <3> QED
      BY <2>2, <3>1, <3>2
  <2> QED
    BY <2>3, <2>4 DEF s, t
<1>4. 1..n = (1..(n - 1)) \cup {n}
  BY <1>1
<1>5. q[n] \in Pool /\ q[n] \notin Firsts(q, n - 1)
  BY <1>1, <1>3 DEF Firsts
<1>6. \A t \in Firsts(q, n - 1) : q[n].start <= t.start
  BY <1>3 DEF Firsts
<1>7. Firsts(q, n) = Firsts(q, n - 1) \cup {q[n]}
  <2> DEFINE B == 1..(n - 1)
  <2>1. {q[k] : k \in B \cup {n}} = {q[k] : k \in B} \cup {q[n]}
    <3> HIDE DEF B
    <3> QED
      OBVIOUS
  <2> QED
    BY <1>4, <2>1 DEF Firsts
<1> QED
  BY <1>5, <1>6, <1>7

LEMMA FirstsFinite ==
  ASSUME NEW q \in Seq(Pool), NEW n \in 0..Len(q)
  PROVE  /\ Firsts(q, n) \in SUBSET Pool /\ IsFiniteSet(Firsts(q, n))
         /\ Firsts(q, 0) = {}
         /\ Firsts(q, Len(q)) = ToSet(q)
<1>1. \A k \in 1..n : k \in 1..Len(q) /\ q[k] \in Pool
  OBVIOUS
<1>2. IsFiniteSet(Firsts(q, n))
  <2>1. IsFiniteSet(1..n)
    <3>1. 1 \in Int /\ n \in Int
      OBVIOUS
    <3> QED
      BY <3>1, FS_Interval
  <2> DEFINE f == [k \in 1..n |-> q[k]]
             T == Firsts(q, n)
  <2>2. f \in [1..n -> T] /\ \A t \in T : \E k \in 1..n : f[k] = t
    BY DEF Firsts
  <2> HIDE DEF f, T
  <2>3. f \in Surjection(1..n, T)
    BY <2>2 DEF Surjection
  <2>4. IsFiniteSet(T)
    BY <2>1, <2>3, FS_Surjection
  <2> QED
    BY <2>4 DEF T
<1> QED
  BY <1>1, <1>2 DEF Firsts, ToSet

AccumulationStands ==
    /\ dashboard = Accumulated(EmptyDashboard, added)
    /\ \A a \in answer : a.state = "ready" => a = Finish(dashboard)

LEMMA AccumulatedNothing ==
  ASSUME NEW a
  PROVE  Accumulated(a, <<>>) = a
<1>1. PICK f : Accumulates(f, a, <<>>, 0)
  <2>1. 0 \in Nat
    OBVIOUS
  <2> QED
    BY <2>1, AccumulationExists, Zenon
<1>2. Len(<<>>) = 0 /\ f[0] = a
  BY <1>1 DEF Accumulates
<1> QED
  BY <1>1, <1>2, AccumulatedIs

LEMMA InitAccumulation == Init => AccumulationStands
<1> SUFFICES ASSUME Init PROVE AccumulationStands
  OBVIOUS
<1> QED
  BY AccumulatedNothing DEF Init, AccumulationStands

LEMMA AccumulationStep == IInv /\ AccumulationStands /\ [Next]_vars => AccumulationStands'
<1> SUFFICES ASSUME IInv, AccumulationStands, [Next]_vars PROVE AccumulationStands'
  OBVIOUS
<1>1. CASE UNCHANGED <<dashboard, added, answer>> /\ (answer = {} \/ UNCHANGED months)
  <2>1. Finish(dashboard)' = Finish(dashboard) \/ answer' = {}
    BY <1>1 DEF Finish
  <2>2. dashboard' = Accumulated(EmptyDashboard, added')
    BY <1>1 DEF AccumulationStands
  <2>3. \A a \in answer' : a.state = "ready" => a = Finish(dashboard)'
    BY <1>1, <2>1 DEF AccumulationStands
  <2> QED
    BY <2>2, <2>3 DEF AccumulationStands
<1>2. CASE AnswerEmpty
  <2>1. UNCHANGED <<dashboard, added>> /\ answer' = {EmptyAnswer}
    BY <1>2 DEF AnswerEmpty
  <2>2. EmptyAnswer.state # "ready"
    BY DEF EmptyAnswer
  <2> QED
    BY <2>1, <2>2 DEF AccumulationStands
<1>3. CASE ReadBatch
  <2> DEFINE batch == Batch(sessions)
  <2>1. /\ dashboard' = Accumulated(dashboard, batch)
        /\ added' = added \o batch
        /\ UNCHANGED months
        /\ UNCHANGED answer \/ answer' = {} \/ answer' = {Finish(Accumulated(dashboard, batch))}
    BY <1>3 DEF ReadBatch, queries
  <2>2. answer = {} /\ sessions \in SUBSET Pool /\ IsFiniteSet(sessions) /\ added \in Seq(Pool)
    BY <1>3 DEF ReadBatch, IInv, AnswerStands, ArchiveStands, AddedStands
  <2>3. batch \in Seq(Pool)
    BY <2>2, BatchProperties
  <2> HIDE DEF batch
  <2>4. dashboard' = Accumulated(EmptyDashboard, added')
    <3>1. Accumulated(Accumulated(EmptyDashboard, added), batch) = Accumulated(EmptyDashboard, added \o batch)
      BY <2>2, <2>3, AccumulatedConcat
    <3> QED
      BY <2>1, <3>1 DEF AccumulationStands
  <2>5. Finish(dashboard)' = Finish(Accumulated(dashboard, batch))
    <3> DEFINE d == Accumulated(dashboard, batch)
    <3>1. dashboard' = d /\ months' = months
      BY <2>1
    <3> HIDE DEF d
    <3>2. Finish(dashboard)' = Finish(d)
      BY <3>1 DEF Finish
    <3> QED
      BY <3>2 DEF d
  <2>6. \A a \in answer' : a = Finish(dashboard)'
    BY <2>1, <2>2, <2>5
  <2> QED
    BY <2>4, <2>6 DEF AccumulationStands
<1>4. CASE Promote
  BY <1>1, <1>4 DEF Promote, queries
<1>5. CASE ReadRevision \/ ReadScanned \/ ReadTop \/ ReadMonths
  <2>1. answer = {}
    BY <1>5 DEF ReadRevision, ReadScanned, ReadTop, ReadMonths, IInv, AnswerStands
  <2> QED
    BY <1>1, <1>5, <2>1 DEF ReadRevision, ReadScanned, ReadTop, ReadMonths
<1>6. CASE UNCHANGED vars
  BY <1>1, <1>6 DEF vars, queries
<1> QED
  BY <1>2, <1>3, <1>4, <1>5, <1>6 DEF Next

LEMMA UnionHolds ==
  ASSUME NEW q \in Seq(Pool), Sorted(q)
  PROVE  LET u == Accumulated(EmptyDashboard, q).union
             C == ToSet(q)
         IN  /\ u \in [current : SUBSET (Nat \X Nat), millis : Nat]
             /\ IsFiniteSet(Reach(C)) /\ UnionStands(u, C)
<1> DEFINE Holds(a, n) == /\ "union" \in DOMAIN a
                          /\ a.union \in [current : SUBSET (Nat \X Nat), millis : Nat]
                          /\ IsFiniteSet(Reach(Firsts(q, n))) /\ UnionStands(a.union, Firsts(q, n))
<1>1. PICK f : Accumulates(f, EmptyDashboard, q, Len(q))
  <2>1. Len(q) \in Nat
    OBVIOUS
  <2> QED
    BY <2>1, AccumulationExists
<1>2. Holds(EmptyDashboard, 0)
  <2>1. "union" \in DOMAIN EmptyDashboard /\ EmptyDashboard.union = [current |-> {}, millis |-> 0]
    BY DEF EmptyDashboard, NoUnion
  <2> DEFINE u == EmptyDashboard.union
  <2>2. u \in [current : SUBSET (Nat \X Nat), millis : Nat] /\ u.current = {} /\ u.millis = 0
    BY <2>1
  <2> HIDE DEF u
  <2>3. Reach({}) = {} /\ IsFiniteSet({}) /\ Cardinality({}) = 0
    BY FS_EmptySet DEF Reach
  <2>4. CurrentLength(u) = 0
    BY <2>2, CurrentLengthIs
  <2>5. Total(Length, {}) = 0
    BY <2>3, TotalUnfolds
  <2>6. Firsts(q, 0) = {}
    BY DEF Firsts
  <2>7. UnionStands(u, {})
    <3>1. Cardinality(Reach({})) = 0
      BY <2>3
    <3>2. u.millis + CurrentLength(u) = 0
      BY <2>2, <2>4
    <3>3. Cardinality(Reach({})) <= u.millis + CurrentLength(u)
      BY <3>1, <3>2
    <3>4. u.millis + CurrentLength(u) <= Total(Length, {})
      BY <2>5, <3>2
    <3> QED
      BY <2>2, <2>3, <3>3, <3>4 DEF UnionStands
  <2> QED
    BY <2>1, <2>2, <2>3, <2>6, <2>7 DEF u
<1>3. ASSUME NEW n \in 0..Len(q), n # 0, Holds(f[n - 1], n - 1)
      PROVE  Holds(f[n], n)
  <2> DEFINE a == f[n - 1]
             s == q[n]
             C == Firsts(q, n - 1)
             u == a.union
  <2>1. f[n] = Add(a, s)
    BY <1>1, <1>3 DEF Accumulates
  <2>2. /\ s \in Pool \ C /\ \A t \in C : s.start <= t.start
        /\ Firsts(q, n) = C \cup {s}
    BY <1>3, FirstsGrow
  <2>3. C \in SUBSET Pool /\ IsFiniteSet(C)
    <3>1. n - 1 \in 0..Len(q)
      BY <1>3
    <3> QED
      BY <3>1, FirstsFinite
  <2>4. /\ "union" \in DOMAIN a /\ u \in [current : SUBSET (Nat \X Nat), millis : Nat]
        /\ IsFiniteSet(Reach(C)) /\ UnionStands(u, C)
    BY <1>3
  <2> HIDE DEF a, s, C
  <2>5. /\ "union" \in DOMAIN Add(a, s)
        /\ Add(a, s).union = IF ObservedEnd(s) > s.start THEN UnionAdd(u, s.start, ObservedEnd(s)) ELSE u
    BY <2>4, UnionOfSum
  <2> HIDE DEF u
  <2> DEFINE v == Add(a, s).union
  <2>6. v = IF ObservedEnd(s) > s.start THEN UnionAdd(u, s.start, ObservedEnd(s)) ELSE u
    BY <2>5
  <2> HIDE DEF v
  <2>7. /\ v \in [current : SUBSET (Nat \X Nat), millis : Nat]
        /\ IsFiniteSet(Reach(C \cup {s})) /\ UnionStands(v, C \cup {s})
    BY <2>2, <2>3, <2>4, <2>6, UnionStep
  <2> QED
    BY <2>1, <2>2, <2>5, <2>7 DEF v
<1> DEFINE T == {n \in 0..Len(q) : Holds(f[n], n)}
<1> HIDE DEF Holds
<1>4. /\ Len(q) \in Nat /\ 0 \in T /\ \A n \in 1..Len(q) : n - 1 \in T => n \in T
  <2>1. f[0] = EmptyDashboard
    BY <1>1 DEF Accumulates
  <2>2. ASSUME NEW n \in 1..Len(q), n - 1 \in T PROVE n \in T
    <3>1. n \in 0..Len(q) /\ n # 0
      OBVIOUS
    <3> QED
      BY <1>3, <2>2, <3>1
  <2> QED
    BY <1>2, <2>1, <2>2
<1>5. Holds(f[Len(q)], Len(q))
  <2> DEFINE m == Len(q)
  <2>1. m \in T
    <3> HIDE DEF T, m
    <3>1. m \in Nat /\ \A n \in 1..m : n - 1 \in T => n \in T
      BY <1>4 DEF m
    <3> QED
      BY <1>4, <3>1, CountingUp
  <2> QED
    BY <2>1
<1>6. Accumulated(EmptyDashboard, q) = f[Len(q)] /\ Firsts(q, Len(q)) = ToSet(q)
  <2>1. Len(q) \in Nat /\ Len(q) \in 0..Len(q)
    OBVIOUS
  <2> QED
    BY <1>1, <2>1, AccumulatedIs, FirstsFinite
<1> QED
  BY <1>5, <1>6 DEF Holds

-----------------------------------------------------------------------------
\* The one interval the accumulator keeps never loses time that a session
\* covered, and never counts a session more than once: for any sessions, of any
\* lengths, and whatever is promoted between two batches.
THEOREM UniqueTimeBetweenBounds == Spec => []UniqueTimeIsBracketed
<1>1. IInv /\ AccumulationStands => UniqueTimeIsBracketed
  <2> SUFFICES ASSUME IInv, AccumulationStands, NEW a \in answer, Ready(a)
               PROVE  /\ a.unique >= Cardinality(Covered) \div TicksPerSecond
                      /\ a.unique * TicksPerSecond <= SumOver([s \in Counted |-> ObservedEnd(s) - s.start])
    BY DEF UniqueTimeIsBracketed
  <2> DEFINE u == Accumulated(EmptyDashboard, added).union
             time == u.millis + CurrentLength(u)
             card == Cardinality(Covered)
             sum == SumOver([s \in Counted |-> ObservedEnd(s) - s.start])
  <2>1. a.unique = UnionSeconds(u)
    <3>1. a = Finish(Accumulated(EmptyDashboard, added))
      BY DEF AccumulationStands, Ready
    <3> DEFINE d == Accumulated(EmptyDashboard, added)
    <3> HIDE DEF d
    <3>2. Finish(d).unique = UnionSeconds(d.union)
      BY DEF Finish
    <3> QED
      BY <3>1, <3>2 DEF d
  <2>2. /\ added \in Seq(Pool) /\ Sorted(added) /\ Counted = ToSet(added)
    BY DEF IInv, AddedStands, Counted
  <2>3. /\ u \in [current : SUBSET (Nat \X Nat), millis : Nat]
        /\ IsFiniteSet(Reach(Counted)) /\ UnionStands(u, Counted)
    BY <2>2, UnionHolds
  <2>4. Counted \in SUBSET Pool /\ IsFiniteSet(Counted)
    <3>1. Len(added) \in 0..Len(added)
      BY <2>2
    <3> QED
      BY <2>2, <3>1, FirstsFinite
  <2>5. sum = Total(Length, Counted) /\ Covered = Reach(Counted)
    <3> DEFINE w == [s \in Counted |-> ObservedEnd(s) - s.start]
    <3>1. \A s \in Counted : Length[s] \in Nat /\ w[s] = Length[s]
      BY <2>4, SessionTimes DEF Length
    <3>2. sum = Total(w, Counted)
      BY DEF SumOver, Total
    <3> HIDE DEF w
    <3>3. Total(w, Counted) = Total(Length, Counted)
      BY <2>4, <3>1, TotalAgrees
    <3>4. Covered = Reach(Counted)
      BY DEF Covered, Reach
    <3> QED
      BY <3>2, <3>3, <3>4
  <2> HIDE DEF u, sum
  <2>6. time \in Nat /\ card \in Nat /\ card <= time /\ time <= sum /\ sum \in Nat
    <3>1. u.millis \in Nat
      BY <2>3
    <3>2. CurrentLength(u) \in Nat
      <4>1. CASE u.current = {}
        BY <4>1, CurrentLengthIs
      <4>2. ASSUME NEW b \in Nat, NEW c \in Nat, u.current = {<<b, c>>}, b < c
            PROVE  CurrentLength(u) \in Nat
        <5>1. b <= c
          BY <4>2
        <5>2. CurrentLength(u) = c - b
          BY <4>2, <5>1, CurrentLengthIs
        <5> QED
          BY <4>2, <5>2
      <4> QED
        BY <2>3, <4>1, <4>2 DEF UnionStands
    <3>3. card \in Nat
      BY <2>3, <2>5, FS_CardinalityType
    <3>4. sum \in Nat
      <4>1. \A s \in Counted : Length[s] \in Nat
        BY <2>4, SessionTimes DEF Length
      <4> QED
        BY <2>4, <2>5, <4>1, TotalUnfolds
    <3> QED
      BY <2>3, <2>5, <3>1, <3>2, <3>3, <3>4 DEF UnionStands
  <2>7. a.unique = time \div TicksPerSecond
    BY <2>1 DEF UnionSeconds
  <2> HIDE DEF time, card
  <2>8. TicksPerSecond \in Nat \ {0}
    BY DEF UnitsAssumption
  <2>9. \A m, n \in Nat, k \in Nat \ {0} : m <= n => m \div k <= n \div k
    OBVIOUS
  <2>10. \A n \in Nat, k \in Nat \ {0} : (n \div k) * k <= n /\ n \div k \in Nat /\ (n \div k) * k \in Nat
    OBVIOUS
  <2>11. card \div TicksPerSecond <= time \div TicksPerSecond
    BY <2>6, <2>8, <2>9
  <2>12. (time \div TicksPerSecond) * TicksPerSecond <= sum
    <3>1. \A i, j, k \in Nat : i <= j /\ j <= k => i <= k
      OBVIOUS
    <3> QED
      BY <2>6, <2>8, <2>10, <3>1
  <2>13. \A m, n \in Nat : m <= n => n >= m
    OBVIOUS
  <2>14. card \div TicksPerSecond \in Nat /\ time \div TicksPerSecond \in Nat
    BY <2>6, <2>8, <2>10
  <2>15. time \div TicksPerSecond >= card \div TicksPerSecond
    BY <2>11, <2>13, <2>14
  <2> QED
    BY <2>7, <2>12, <2>15 DEF card, sum
<1> QED
  BY <1>1, InitInv, InvStep, InitAccumulation, AccumulationStep, PTL DEF Spec

-----------------------------------------------------------------------------
(***************************************************************************)
(* The days of a session.                                                  *)
(***************************************************************************)
LEMMA DayOfIs ==
  /\ \A x \in Int : DayOf(x) \in Int /\ DayOf(x) * TicksPerDay <= x /\ x < (DayOf(x) + 1) * TicksPerDay
  /\ \A x, d \in Int : x < (d + 1) * TicksPerDay => DayOf(x) <= d
  /\ \A x, y \in Int : x <= y => DayOf(x) <= DayOf(y)
  /\ \A x, m \in Int : DayOf(x + m * TicksPerDay) = DayOf(x) + m
<1>1. TicksPerDay \in Nat \ {0}
  BY DEF UnitsAssumption
<1>2. \A x \in Int, k \in Nat \ {0} : x \div k \in Int /\ (x \div k) * k <= x
  OBVIOUS
<1>3. \A x \in Int, k \in Nat \ {0} : x < ((x \div k) + 1) * k
  OBVIOUS
<1>4. \A x, d \in Int, k \in Nat \ {0} : x < (d + 1) * k => x \div k <= d
  OBVIOUS
<1>5. \A x, y \in Int, k \in Nat \ {0} : x <= y => x \div k <= y \div k
  OBVIOUS
<1>6. \A x, m \in Int, k \in Nat \ {0} : (x + m * k) \div k = (x \div k) + m
  OBVIOUS
<1> DEFINE K == TicksPerDay
<1>7. /\ \A x \in Int : x \div K \in Int /\ (x \div K) * K <= x /\ x < ((x \div K) + 1) * K
      /\ \A x, d \in Int : x < (d + 1) * K => x \div K <= d
      /\ \A x, y \in Int : x <= y => x \div K <= y \div K
      /\ \A x, m \in Int : (x + m * K) \div K = (x \div K) + m
  <2> HIDE DEF K
  <2>1. K \in Nat \ {0}
    BY <1>1 DEF K
  <2>2. \A x \in Int : x \div K \in Int /\ (x \div K) * K <= x
    BY <1>2, <2>1, Zenon
  <2>3. \A x \in Int : x < ((x \div K) + 1) * K
    BY <1>3, <2>1, Zenon
  <2>4. \A x, d \in Int : x < (d + 1) * K => x \div K <= d
    BY <1>4, <2>1, Zenon
  <2>5. \A x, y \in Int : x <= y => x \div K <= y \div K
    BY <1>5, <2>1, Zenon
  <2>6. \A x, m \in Int : (x + m * K) \div K = (x \div K) + m
    BY <1>6, <2>1, Zenon
  <2> QED
    BY <2>2, <2>3, <2>4, <2>5, <2>6, Zenon
<1> QED
  BY <1>7, Zenon DEF DayOf

LEMMA DaySlices ==
  ASSUME NEW from \in Int, NEW len \in Nat, NEW to \in Int, to = from + len,
         NEW last, last = IF to > from THEN DayOf(to - 1) ELSE DayOf(from)
  PROVE  /\ last \in Int /\ DayOf(from) \in Int /\ DayOf(from) <= last
         /\ \A m \in Nat : len <= m * TicksPerDay => last <= DayOf(from) + m
         /\ \A d \in DayOf(from)..last :
              Min({to, (d + 1) * TicksPerDay}) - Max({from, d * TicksPerDay}) \in Nat
<1> DEFINE K == TicksPerDay
           first == DayOf(from)
<1>1. K \in Nat \ {0}
  BY DEF UnitsAssumption
<1>2. /\ \A x \in Int : DayOf(x) \in Int /\ DayOf(x) * K <= x /\ x < (DayOf(x) + 1) * K
      /\ \A x, y \in Int : x <= y => DayOf(x) <= DayOf(y)
      /\ \A x, m \in Int : DayOf(x + m * K) = DayOf(x) + m
  BY DayOfIs
<1>3. first \in Int /\ last \in Int /\ first <= last
  <2>1. first \in Int
    BY <1>2
  <2>2. CASE to > from
    <3>1. from <= to - 1 /\ to - 1 \in Int
      BY <2>2
    <3>2. DayOf(to - 1) \in Int /\ DayOf(from) <= DayOf(to - 1)
      BY <1>2, <3>1
    <3> QED
      BY <2>1, <2>2, <3>2
  <2>3. CASE ~(to > from)
    <3>1. last = first
      BY <2>3
    <3> QED
      BY <2>1, <3>1
  <2> QED
    BY <2>2, <2>3
<1> HIDE DEF K
<1>4. ASSUME NEW m \in Nat, len <= m * K
      PROVE  last <= first + m
  <2>1. m * K \in Int
    BY <1>1
  <2>2. from <= from + m * K /\ to - 1 <= from + m * K /\ from + m * K \in Int /\ to - 1 \in Int
    BY <1>4, <2>1
  <2>3. DayOf(from) <= DayOf(from + m * K) /\ DayOf(to - 1) <= DayOf(from + m * K)
    BY <1>2, <2>2
  <2>4. DayOf(from + m * K) = first + m
    BY <1>2
  <2> QED
    BY <2>3, <2>4
<1>5. ASSUME NEW d \in first..last
      PROVE  Min({to, (d + 1) * K}) - Max({from, d * K}) \in Nat
  <2> DEFINE low == d * K
             high == (d + 1) * K
  <2>1. d \in Int /\ first <= d /\ d <= last
    BY <1>3
  <2>2. low \in Int /\ high \in Int /\ low <= high
    <3>1. \A i \in Int, k \in Nat \ {0} : i * k \in Int /\ (i + 1) * k \in Int /\ i * k <= (i + 1) * k
      OBVIOUS
    <3> QED
      BY <1>1, <2>1, <3>1
  <2>3. \A i, j \in Int, k \in Nat \ {0} : i <= j => i * k <= j * k
    OBVIOUS
  <2>4. low <= last * K
    BY <1>1, <1>3, <2>1, <2>3
  <2>5. (first + 1) * K <= high
    <3>1. first + 1 \in Int /\ d + 1 \in Int /\ first + 1 <= d + 1
      BY <1>3, <2>1
    <3> QED
      BY <1>1, <2>3, <3>1
  <2>6. last * K <= to
    <3>1. CASE to > from
      <4>1. to - 1 \in Int /\ DayOf(to - 1) * K <= to - 1
        BY <1>2
      <4>2. last * K <= to - 1
        BY <3>1, <4>1
      <4>3. last * K \in Int
        BY <1>1, <1>3
      <4> QED
        BY <4>2, <4>3
    <3>2. CASE ~(to > from)
      <4>1. to = from /\ last = DayOf(from)
        BY <3>2
      <4> QED
        BY <1>2, <4>1
    <3> QED
      BY <3>1, <3>2
  <2>7. from < (first + 1) * K
    BY <1>2
  <2>8. last * K \in Int /\ (first + 1) * K \in Int
    BY <1>1, <1>3
  <2> HIDE DEF low, high
  <2>9. low <= to /\ from <= high /\ from <= to
    BY <2>2, <2>4, <2>5, <2>6, <2>7, <2>8
  <2>10. Min({to, high}) = (IF to <= high THEN to ELSE high) /\ Max({from, low}) = IF from <= low THEN low ELSE from
    BY <2>2, MinMaxOfTwo
  <2>11. Min({to, high}) - Max({from, low}) \in Nat
    BY <2>2, <2>9, <2>10
  <2> QED
    BY <2>11 DEF low, high
<1> QED
  BY <1>3, <1>4, <1>5 DEF K

LEMMA PlayedSeconds ==
  ASSUME NEW s \in Pool
  PROVE  /\ Seconds(s) \in Nat /\ Seconds(s) * TicksPerSecond \in Nat
         /\ Seconds(s) * TicksPerSecond <= MaxSessionDays * TicksPerDay
         /\ Offset(s) \in Int /\ Offset(s) < TicksPerDay /\ -TicksPerDay < Offset(s)
<1>1. /\ s \in SessionShape /\ s.duration \in Nat \cup {None} /\ s.offset \in Int
  BY DEF PoolAssumption, SessionShape
<1>2. TicksPerSecond \in Nat \ {0} /\ TicksPerDay \in Nat \ {0} /\ MaxSessionDays \in Nat /\ None = -1
  BY DEF UnitsAssumption, None
<1> DEFINE days == MaxSessionDays * TicksPerDay
<1>3. days \in Nat
  <2>1. \A m, n \in Nat : m * n \in Nat
    OBVIOUS
  <2> QED
    BY <1>2, <2>1
<1> HIDE DEF days
<1>4. MaxSessionSeconds \in Nat /\ MaxSessionSeconds * TicksPerSecond <= days
  <2>1. \A n \in Nat, k \in Nat \ {0} : n \div k \in Nat /\ (n \div k) * k <= n
    OBVIOUS
  <2> QED
    BY <1>2, <1>3, <2>1 DEF MaxSessionSeconds, days
<1>5. Seconds(s) \in Nat /\ Seconds(s) <= MaxSessionSeconds
  <2> DEFINE d == Bounds(s).duration
  <2>1. d \in Nat \cup {None} /\ d <= MaxSessionSeconds
    <3>1. CASE Implausible(s)
      <4>1. d = None
        BY <1>1, <3>1 DEF Bounds, SessionShape
      <4> QED
        BY <1>2, <1>4, <4>1
    <3>2. CASE ~Implausible(s)
      <4>1. d = s.duration /\ ~(s.duration > MaxSessionSeconds)
        BY <3>2 DEF Bounds, Implausible
      <4> QED
        BY <1>1, <1>2, <1>4, <4>1
    <3> QED
      BY <3>1, <3>2
  <2>2. Seconds(s) = Max({0, d})
    BY DEF Seconds
  <2> HIDE DEF d
  <2>3. Max({0, d}) = IF 0 <= d THEN d ELSE 0
    <3>1. d \in Int /\ 0 \in Int
      BY <1>2, <2>1
    <3> QED
      BY <3>1, MinMaxOfTwo
  <2> QED
    BY <1>2, <1>4, <2>1, <2>2, <2>3
<1>6. Seconds(s) * TicksPerSecond \in Nat /\ Seconds(s) * TicksPerSecond <= days
  <2>1. \A i, j \in Nat, k \in Nat \ {0} : i <= j => i * k \in Nat /\ j * k \in Nat /\ i * k <= j * k
    OBVIOUS
  <2>2. \A i, j, k \in Nat : i <= j /\ j <= k => i <= k
    OBVIOUS
  <2> QED
    BY <1>2, <1>3, <1>4, <1>5, <2>1, <2>2
<1>7. Offset(s) \in Int /\ Offset(s) < TicksPerDay /\ -TicksPerDay < Offset(s)
  BY <1>1, <1>2 DEF Offset, Abs
<1> QED
  BY <1>5, <1>6, <1>7 DEF days

\* A session has seconds on the days from the one it started on to at most
\* MaxSessionDays later.
LEMMA SessionDays ==
  ASSUME NEW s \in Pool
  PROVE  /\ Local(s, s.start) \in Int
         /\ \E last \in Int : /\ DOMAIN DayAllocations(s) = Local(s, s.start)..last
                              /\ Local(s, s.start) <= last
                              /\ last <= Local(s, s.start) + MaxSessionDays
         /\ \A d \in DOMAIN DayAllocations(s) : DayAllocations(s)[d] \in Nat
<1> DEFINE from == s.start + Offset(s)
           len == Seconds(s) * TicksPerSecond
           to == from + len
           last == IF to > from THEN DayOf(to - 1) ELSE DayOf(from)
           slice == [d \in DayOf(from)..last |->
                       Min({to, (d + 1) * TicksPerDay}) - Max({from, d * TicksPerDay})]
<1>1. DayAllocations(s) = [d \in DayOf(from)..last |-> slice[d] \div TicksPerSecond]
  BY DEF DayAllocations
<1>2. Local(s, s.start) = DayOf(from)
  BY DEF Local
<1>3. from \in Int /\ len \in Nat /\ to \in Int /\ len <= MaxSessionDays * TicksPerDay
  BY PlayedSeconds, SessionTimes
<1>4. MaxSessionDays \in Nat /\ TicksPerSecond \in Nat \ {0}
  BY DEF UnitsAssumption
<1>5. \A d \in DayOf(from)..last :
        slice[d] = Min({to, (d + 1) * TicksPerDay}) - Max({from, d * TicksPerDay})
  OBVIOUS
<1>6. to = from + len /\ last = IF to > from THEN DayOf(to - 1) ELSE DayOf(from)
  OBVIOUS
<1> HIDE DEF from, len, to, last, slice
<1>7. /\ last \in Int /\ DayOf(from) \in Int /\ DayOf(from) <= last
      /\ last <= DayOf(from) + MaxSessionDays
      /\ \A d \in DayOf(from)..last : slice[d] \in Nat
  <2>1. /\ last \in Int /\ DayOf(from) \in Int /\ DayOf(from) <= last
        /\ \A m \in Nat : len <= m * TicksPerDay => last <= DayOf(from) + m
        /\ \A d \in DayOf(from)..last :
             Min({to, (d + 1) * TicksPerDay}) - Max({from, d * TicksPerDay}) \in Nat
    BY <1>3, <1>6, DaySlices
  <2>2. last <= DayOf(from) + MaxSessionDays
    BY <1>3, <1>4, <2>1, Zenon
  <2>3. ASSUME NEW d \in DayOf(from)..last PROVE slice[d] \in Nat
    <3>1. slice[d] = Min({to, (d + 1) * TicksPerDay}) - Max({from, d * TicksPerDay})
      BY <1>5, Zenon
    <3>2. Min({to, (d + 1) * TicksPerDay}) - Max({from, d * TicksPerDay}) \in Nat
      BY <2>1, Zenon
    <3> QED
      BY <3>1, <3>2, Zenon
  <2> QED
    BY <2>1, <2>2, <2>3
<1>8. \A n \in Nat, k \in Nat \ {0} : n \div k \in Nat
  OBVIOUS
<1>9. \A d \in DayOf(from)..last : slice[d] \div TicksPerSecond \in Nat
  BY <1>4, <1>7, <1>8
<1> QED
  BY <1>1, <1>2, <1>7, <1>9

-----------------------------------------------------------------------------
(***************************************************************************)
(* The seconds of many sessions on one day.                                *)
(***************************************************************************)
OnDay(S, d) == {t \in S : d \in DOMAIN DayAllocations(t)}
DayWeight(d) == [s \in Pool |-> IF d \in DOMAIN DayAllocations(s) THEN DayAllocations(s)[d] ELSE 0]

LEMMA SecondsOnIs ==
  ASSUME NEW C \in SUBSET Pool, IsFiniteSet(C), NEW d
  PROVE  /\ IsFiniteSet(OnDay(C, d)) /\ OnDay(C, d) \in SUBSET Pool
         /\ SecondsOn(C, d) = Total(DayWeight(d), OnDay(C, d))
         /\ SecondsOn(C, d) \in Nat
         /\ d \notin DaysOf(C) => SecondsOn(C, d) = 0
<1> DEFINE T == OnDay(C, d)
           w == [s \in T |-> DayAllocations(s)[d]]
           v == DayWeight(d)
<1>1. IsFiniteSet(T) /\ T \in SUBSET Pool
  <2>1. T \in SUBSET C
    BY DEF OnDay
  <2> QED
    BY <2>1, FS_Subset
<1>2. ASSUME NEW s \in T PROVE w[s] \in Nat /\ v[s] \in Nat /\ w[s] = v[s]
  <2>1. s \in Pool /\ d \in DOMAIN DayAllocations(s)
    BY <1>1, <1>2 DEF OnDay
  <2>2. DayAllocations(s)[d] \in Nat
    BY <2>1, SessionDays
  <2>3. w[s] = DayAllocations(s)[d] /\ v[s] = DayAllocations(s)[d]
    BY <1>2, <2>1 DEF DayWeight
  <2> QED
    BY <2>2, <2>3
<1>3. SecondsOn(C, d) = Total(w, T)
  BY DEF SecondsOn, SumOver, Total, OnDay
<1>4. d \notin DaysOf(C) => T = {}
  BY DEF DaysOf, OnDay
<1> HIDE DEF T, w, v
<1>5. Total(w, T) = Total(v, T)
  BY <1>1, <1>2, TotalAgrees
<1>6. Total(v, T) \in Nat /\ Total(v, {}) = 0
  BY <1>1, <1>2, TotalUnfolds
<1> QED
  BY <1>1, <1>3, <1>4, <1>5, <1>6 DEF T, v

LEMMA SecondsGrow ==
  ASSUME NEW C \in SUBSET Pool, IsFiniteSet(C), NEW s \in Pool \ C, NEW d
  PROVE  SecondsOn(C \cup {s}, d) = SecondsOn(C, d) + (IF d \in DOMAIN DayAllocations(s) THEN DayAllocations(s)[d] ELSE 0)
<1> DEFINE D == C \cup {s}
           v == DayWeight(d)
           T == OnDay(C, d)
           U == OnDay(D, d)
<1>1. D \in SUBSET Pool /\ IsFiniteSet(D)
  BY FS_AddElement
<1>2. /\ IsFiniteSet(T) /\ T \in SUBSET Pool /\ SecondsOn(C, d) = Total(v, T) /\ SecondsOn(C, d) \in Nat
  BY SecondsOnIs
<1>3. IsFiniteSet(U) /\ U \in SUBSET Pool /\ SecondsOn(D, d) = Total(v, U)
  <2> HIDE DEF D
  <2> QED
    BY <1>1, SecondsOnIs
<1>4. ASSUME NEW t \in Pool PROVE v[t] \in Nat
  BY SessionDays DEF DayWeight
<1>5. CASE d \in DOMAIN DayAllocations(s)
  <2>1. U = T \cup {s} /\ s \notin T /\ s \in U /\ U \ {s} = T
    BY <1>5 DEF OnDay
  <2>2. v[s] = DayAllocations(s)[d]
    BY <1>5 DEF DayWeight
  <2> HIDE DEF U, T, v, D
  <2>3. Total(v, U) = v[s] + Total(v, U \ {s})
    BY <1>3, <1>4, <2>1, TotalWithout
  <2>4. Total(v, U) = DayAllocations(s)[d] + SecondsOn(C, d)
    BY <1>2, <2>1, <2>2, <2>3
  <2>5. DayAllocations(s)[d] \in Nat
    BY <1>4, <2>2
  <2> QED
    BY <1>2, <1>3, <1>5, <2>4, <2>5 DEF D
<1>6. CASE d \notin DOMAIN DayAllocations(s)
  <2>1. U = T
    BY <1>6 DEF OnDay
  <2>2. Total(v, U) = Total(v, T)
    BY <2>1
  <2> QED
    BY <1>2, <1>3, <1>6, <2>2
<1> QED
  BY <1>5, <1>6

LEMMA DaysGrow ==
  ASSUME NEW C, NEW s \in Pool
  PROVE  /\ DaysOf(C \cup {s}) = DaysOf(C) \cup DOMAIN DayAllocations(s)
         /\ IsFiniteSet(DOMAIN DayAllocations(s)) /\ DOMAIN DayAllocations(s) \subseteq Int
         /\ IsFiniteSet(DaysOf(C)) => IsFiniteSet(DaysOf(C \cup {s}))
<1>1. DaysOf(C \cup {s}) = DaysOf(C) \cup DOMAIN DayAllocations(s)
  BY DEF DaysOf
<1>2. PICK first \in Int, last \in Int : DOMAIN DayAllocations(s) = first..last
  BY SessionDays
<1>3. IsFiniteSet(first..last) /\ first..last \subseteq Int
  BY FS_Interval
<1>4. IsFiniteSet(DOMAIN DayAllocations(s)) /\ DOMAIN DayAllocations(s) \subseteq Int
  BY <1>2, <1>3
<1>5. ASSUME IsFiniteSet(DaysOf(C)) PROVE IsFiniteSet(DaysOf(C) \cup DOMAIN DayAllocations(s))
  <2> DEFINE A == DaysOf(C)
             B == DOMAIN DayAllocations(s)
  <2>1. IsFiniteSet(A) /\ IsFiniteSet(B)
    BY <1>4, <1>5
  <2> HIDE DEF A, B
  <2>2. IsFiniteSet(A \cup B)
    BY <2>1, FS_Union
  <2> QED
    BY <2>2 DEF A, B
<1> QED
  BY <1>1, <1>4, <1>5

-----------------------------------------------------------------------------
(***************************************************************************)
(* The active days.                                                        *)
(***************************************************************************)
\* No session that starts no later than s reaches a day after the cutoff.
LEMMA CutoffIsFinal ==
  ASSUME NEW s \in Pool, NEW t \in Pool, t.start <= s.start, NEW d \in DOMAIN DayAllocations(t)
  PROVE  d \in Int /\ ~(d > Cutoff(Local(s, s.start)))
<1> DEFINE f == t.start + Offset(t)
           g == s.start + Offset(s)
           K == TicksPerDay
<1>1. /\ Offset(s) \in Int /\ Offset(t) \in Int /\ Offset(t) < K /\ -K < Offset(s)
      /\ s.start \in Nat /\ t.start \in Nat /\ K \in Nat /\ MaxSessionDays \in Nat
  BY PlayedSeconds, SessionTimes DEF UnitsAssumption
<1>2. f <= g + 2 * K /\ f \in Int /\ g \in Int /\ g + 2 * K \in Int
  BY <1>1
<1> HIDE DEF f, g
<1>3. DayOf(f) <= DayOf(g + 2 * K)
  BY <1>2, DayOfIs
<1>4. DayOf(g + 2 * K) = DayOf(g) + 2 /\ DayOf(g) \in Int /\ DayOf(f) \in Int
  <2>1. \A x, m \in Int : DayOf(x + m * TicksPerDay) = DayOf(x) + m
    BY DayOfIs
  <2>2. 2 \in Int
    OBVIOUS
  <2>3. DayOf(g + 2 * TicksPerDay) = DayOf(g) + 2
    BY <1>2, <2>1, <2>2, Zenon
  <2>4. DayOf(g) \in Int /\ DayOf(f) \in Int
    BY <1>2, DayOfIs
  <2> QED
    BY <2>3, <2>4 DEF K
<1>5. Local(t, t.start) = DayOf(f) /\ Local(s, s.start) = DayOf(g)
  BY DEF Local, f, g
<1>6. d \in Int /\ d <= DayOf(f) + MaxSessionDays
  <2>1. PICK last \in Int : /\ DOMAIN DayAllocations(t) = Local(t, t.start)..last
                            /\ last <= Local(t, t.start) + MaxSessionDays
    BY SessionDays
  <2>2. d \in DayOf(f)..last /\ last <= DayOf(f) + MaxSessionDays
    BY <1>5, <2>1
  <2>3. \A i, j \in Int : \A m \in Nat : \A k \in i..j : j <= i + m => k \in Int /\ k <= i + m
    OBVIOUS
  <2>4. DayOf(f) \in Int /\ MaxSessionDays \in Nat /\ last \in Int
    BY <1>1, <1>4, <2>1
  <2> QED
    BY <2>2, <2>3, <2>4, Zenon
<1> QED
  BY <1>1, <1>3, <1>4, <1>5, <1>6 DEF Cutoff

Active(C, F) == {d \in F : SecondsOn(C, d) >= SecondsPerMinute}
\* The days are closed, in F, or pending: no session that may still come
\* reaches a closed one, and pending days have all the seconds so far.
ActiveDaysStand(a, C) ==
    \E F : /\ IsFiniteSet(F)
           /\ F \cap DOMAIN a.pending = {} /\ F \cup DOMAIN a.pending = DaysOf(C)
           /\ \A d \in DOMAIN a.pending : a.pending[d] = SecondsOn(C, d)
           /\ a.completed = Cardinality(Active(C, F))
           /\ \A d \in F, t \in Pool : (\A s \in C : t.start <= s.start) => d \notin DOMAIN DayAllocations(t)

LEMMA ShownDaysAre ==
  ASSUME NEW C \in SUBSET Pool, IsFiniteSet(C), NEW p, \A d \in DOMAIN p : p[d] = SecondsOn(C, d)
  PROVE  ShownDays(p) = Active(C, DOMAIN p)
<1>1. \A d \in DOMAIN p : p[d] \in Nat
  BY SecondsOnIs
<1>2. SecondsPerMinute \in Nat \ {0}
  BY DEF UnitsAssumption
<1>3. \A n \in Nat, k \in Nat \ {0} : n \div k > 0 <=> n >= k
  OBVIOUS
<1>4. \A d \in DOMAIN p : p[d] \div SecondsPerMinute > 0 <=> SecondsOn(C, d) >= SecondsPerMinute
  BY <1>1, <1>2, <1>3
<1> QED
  BY <1>4 DEF ShownDays, Active

LEMMA ActiveAdds ==
  ASSUME NEW C, NEW F, NEW G, IsFiniteSet(F), IsFiniteSet(G), F \cap G = {}
  PROVE  Cardinality(Active(C, F \cup G)) = Cardinality(Active(C, F)) + Cardinality(Active(C, G))
<1> DEFINE A == Active(C, F)
           B == Active(C, G)
<1>1. Active(C, F \cup G) = A \cup B /\ A \cap B = {} /\ A \in SUBSET F /\ B \in SUBSET G
  BY DEF Active
<1> HIDE DEF A, B
<1>2. IsFiniteSet(A) /\ IsFiniteSet(B)
  BY <1>1, FS_Subset
<1>3. Cardinality(A \cup B) = Cardinality(A) + Cardinality(B) - Cardinality(A \cap B)
  BY <1>2, FS_Union
<1>4. Cardinality(A \cap B) = 0
  BY <1>1, FS_EmptySet
<1>5. Cardinality(A) \in Nat /\ Cardinality(B) \in Nat
  BY <1>2, FS_CardinalityType
<1>6. Cardinality(A \cup B) = Cardinality(A) + Cardinality(B)
  BY <1>3, <1>4, <1>5
<1> QED
  BY <1>1, <1>6 DEF A, B

LEMMA ActiveStep ==
  ASSUME NEW C \in SUBSET Pool, IsFiniteSet(C), IsFiniteSet(DaysOf(C)),
         NEW s \in Pool \ C, \A t \in C : s.start <= t.start,
         NEW a, ActiveDaysStand(a, C),
         NEW b, b = ActiveDaysAdd(a, Local(s, s.start), DayAllocations(s))
  PROVE  ActiveDaysStand(b, C \cup {s})
<1> DEFINE D == C \cup {s}
           P == a.pending
           day == Local(s, s.start)
           slices == DayAllocations(s)
           G == {d \in DOMAIN P : d > Cutoff(day)}
           old == Restrict(P, DOMAIN P \ G)
<1>1. PICK F : /\ IsFiniteSet(F)
               /\ F \cap DOMAIN P = {} /\ F \cup DOMAIN P = DaysOf(C)
               /\ \A d \in DOMAIN P : P[d] = SecondsOn(C, d)
               /\ a.completed = Cardinality(Active(C, F))
               /\ \A d \in F, t \in Pool : (\A r \in C : t.start <= r.start) => d \notin DOMAIN DayAllocations(t)
  BY DEF ActiveDaysStand
<1>2. /\ b.pending = Plus(old, slices)
      /\ b.completed = a.completed + Cardinality(ShownDays(P) \cap G)
  BY DEF ActiveDaysAdd
<1>3. /\ DOMAIN old = DOMAIN P \ G /\ \A d \in DOMAIN P \ G : old[d] = P[d]
  BY DEF Restrict
<1>4. s \in Pool /\ D \in SUBSET Pool /\ IsFiniteSet(D)
  BY FS_AddElement
<1>5. DOMAIN slices \cap F = {} /\ DOMAIN slices \cap G = {}
  <2>1. DOMAIN slices \cap F = {}
    BY <1>1, <1>4
  <2>2. \A d \in DOMAIN slices : ~(d > Cutoff(day))
    <3>1. s.start <= s.start
      BY SessionTimes
    <3> QED
      BY <1>4, <3>1, CutoffIsFinal
  <2> QED
    BY <2>1, <2>2
<1>6. IsFiniteSet(G) /\ IsFiniteSet(F \cup G) /\ IsFiniteSet(DOMAIN P)
  <2>1. DOMAIN P \in SUBSET DaysOf(C) /\ G \in SUBSET DaysOf(C)
    BY <1>1
  <2>2. IsFiniteSet(DOMAIN P) /\ IsFiniteSet(G)
    BY <2>1, FS_Subset
  <2> HIDE DEF G, P
  <2> QED
    BY <1>1, <2>2, FS_Union
<1> HIDE DEF old
<1>7. /\ DOMAIN b.pending = (DOMAIN P \ G) \cup DOMAIN slices
      /\ \A d \in DOMAIN b.pending :
           b.pending[d] = (IF d \in DOMAIN P \ G THEN P[d] ELSE 0) + (IF d \in DOMAIN slices THEN slices[d] ELSE 0)
  BY <1>2, <1>3 DEF Plus
<1>8. DaysOf(D) = DaysOf(C) \cup DOMAIN slices
  BY <1>4, DaysGrow
<1> HIDE DEF G
<1>9. G \subseteq DOMAIN P /\ G \subseteq DaysOf(C)
  BY <1>1 DEF G
<1>10. (F \cup G) \cap DOMAIN b.pending = {} /\ (F \cup G) \cup DOMAIN b.pending = DaysOf(D)
  BY <1>1, <1>5, <1>7, <1>8, <1>9
<1>11. \A d : /\ SecondsOn(D, d) = SecondsOn(C, d) + (IF d \in DOMAIN slices THEN slices[d] ELSE 0)
              /\ SecondsOn(C, d) \in Nat
              /\ d \notin DaysOf(C) => SecondsOn(C, d) = 0
  BY SecondsGrow, SecondsOnIs
<1>12. ASSUME NEW d \in DOMAIN b.pending PROVE b.pending[d] = SecondsOn(D, d)
  <2>1. CASE d \in DOMAIN P \ G
    <3>1. P[d] = SecondsOn(C, d)
      BY <1>1, <2>1
    <3>2. b.pending[d] = P[d] + (IF d \in DOMAIN slices THEN slices[d] ELSE 0)
      BY <1>7, <2>1
    <3> QED
      BY <1>11, <3>1, <3>2
  <2>2. CASE d \notin DOMAIN P \ G
    <3>1. d \in DOMAIN slices /\ d \notin DaysOf(C)
      BY <1>1, <1>5, <1>7, <2>2
    <3> QED
      BY <1>7, <1>11, <2>2, <3>1
  <2> QED
    BY <2>1, <2>2
<1>13. Active(D, F \cup G) = Active(C, F \cup G)
  <2>1. ASSUME NEW d \in F \cup G PROVE SecondsOn(D, d) = SecondsOn(C, d)
    <3>1. d \notin DOMAIN slices
      BY <1>5, <2>1
    <3>2. SecondsOn(C, d) + 0 = SecondsOn(C, d)
      BY <1>11
    <3> QED
      BY <1>11, <3>1, <3>2
  <2> QED
    BY <2>1 DEF Active
<1>14. ShownDays(P) \cap G = Active(C, G)
  <2>1. ShownDays(P) = Active(C, DOMAIN P)
    <3> HIDE DEF P
    <3> QED
      BY <1>1, ShownDaysAre
  <2> QED
    BY <1>9, <2>1 DEF Active
<1>15. b.completed = Cardinality(Active(D, F \cup G))
  <2>1. F \cap G = {}
    BY <1>1, <1>9
  <2>2. Cardinality(Active(C, F \cup G)) = Cardinality(Active(C, F)) + Cardinality(Active(C, G))
    BY <1>1, <1>6, <2>1, ActiveAdds
  <2> QED
    BY <1>1, <1>2, <1>13, <1>14, <2>2
<1>16. ASSUME NEW d \in F \cup G, NEW t \in Pool, \A r \in D : t.start <= r.start
       PROVE  d \notin DOMAIN DayAllocations(t)
  <2>1. CASE d \in F
    BY <1>1, <1>16, <2>1
  <2>2. CASE d \in G
    <3>1. t.start <= s.start /\ d > Cutoff(day)
      BY <1>16, <2>2 DEF G
    <3> QED
      BY <1>4, <3>1, CutoffIsFinal
  <2> QED
    BY <2>1, <2>2
<1> DEFINE H == F \cup G
<1>17. /\ IsFiniteSet(H) /\ H \cap DOMAIN b.pending = {} /\ H \cup DOMAIN b.pending = DaysOf(D)
       /\ b.completed = Cardinality(Active(D, H))
       /\ \A d \in H, t \in Pool : (\A r \in D : t.start <= r.start) => d \notin DOMAIN DayAllocations(t)
  BY <1>6, <1>10, <1>15, <1>16
<1> HIDE DEF H, D
<1>18. ActiveDaysStand(b, D)
  BY <1>12, <1>17 DEF ActiveDaysStand
<1> QED
  BY <1>18 DEF D

LEMMA ActiveOfSum ==
  ASSUME NEW a, NEW s, "active" \in DOMAIN a
  PROVE  /\ "active" \in DOMAIN Add(a, s)
         /\ Add(a, s).active = ActiveDaysAdd(a.active, Local(s, s.start), DayAllocations(s))
<1> DEFINE b == UpdateCalendarEnd(a, Local(s, ObservedEnd(s)))
<1>1. DOMAIN b = DOMAIN a /\ b.active = a.active
  BY DEF UpdateCalendarEnd
<1> HIDE DEF b
<1> QED
  BY <1>1 DEF Add, b

LEMMA ActiveHolds ==
  ASSUME NEW q \in Seq(Pool), Sorted(q)
  PROVE  /\ IsFiniteSet(DaysOf(ToSet(q)))
         /\ ActiveDaysStand(Accumulated(EmptyDashboard, q).active, ToSet(q))
<1> DEFINE Holds(a, n) == /\ "active" \in DOMAIN a
                          /\ IsFiniteSet(DaysOf(Firsts(q, n))) /\ ActiveDaysStand(a.active, Firsts(q, n))
<1>1. PICK f : Accumulates(f, EmptyDashboard, q, Len(q))
  <2>1. Len(q) \in Nat
    OBVIOUS
  <2> QED
    BY <2>1, AccumulationExists
<1>2. Holds(EmptyDashboard, 0)
  <2>1. "active" \in DOMAIN EmptyDashboard /\ EmptyDashboard.active = [pending |-> <<>>, completed |-> 0]
    BY DEF EmptyDashboard, NoActiveDays
  <2> DEFINE a == EmptyDashboard.active
  <2>2. a.pending = <<>> /\ a.completed = 0 /\ DOMAIN <<>> = {}
    BY <2>1
  <2> HIDE DEF a
  <2>3. Firsts(q, 0) = {} /\ DaysOf({}) = {} /\ IsFiniteSet({}) /\ Cardinality({}) = 0 /\ Active({}, {}) = {}
    BY FS_EmptySet DEF Firsts, DaysOf, Active
  <2>4. DOMAIN a.pending = {}
    BY <2>2
  <2>5. a.completed = Cardinality(Active({}, {}))
    BY <2>2, <2>3
  <2>6. ActiveDaysStand(a, {})
    BY <2>3, <2>4, <2>5 DEF ActiveDaysStand
  <2> QED
    BY <2>1, <2>3, <2>6 DEF a
<1>3. ASSUME NEW n \in 0..Len(q), n # 0, Holds(f[n - 1], n - 1)
      PROVE  Holds(f[n], n)
  <2> DEFINE a == f[n - 1]
             s == q[n]
             C == Firsts(q, n - 1)
  <2>1. f[n] = Add(a, s)
    BY <1>1, <1>3 DEF Accumulates
  <2>2. /\ s \in Pool \ C /\ \A t \in C : s.start <= t.start
        /\ Firsts(q, n) = C \cup {s}
    BY <1>3, FirstsGrow
  <2>3. C \in SUBSET Pool /\ IsFiniteSet(C)
    <3>1. n - 1 \in 0..Len(q)
      BY <1>3
    <3> QED
      BY <3>1, FirstsFinite
  <2>4. "active" \in DOMAIN a /\ IsFiniteSet(DaysOf(C)) /\ ActiveDaysStand(a.active, C)
    BY <1>3
  <2> HIDE DEF a, s, C
  <2>5. /\ "active" \in DOMAIN Add(a, s)
        /\ Add(a, s).active = ActiveDaysAdd(a.active, Local(s, s.start), DayAllocations(s))
    BY <2>4, ActiveOfSum
  <2>6. ActiveDaysStand(Add(a, s).active, C \cup {s})
    BY <2>2, <2>3, <2>4, <2>5, ActiveStep
  <2>7. IsFiniteSet(DaysOf(C \cup {s}))
    BY <2>2, <2>4, DaysGrow
  <2> QED
    BY <2>1, <2>2, <2>5, <2>6, <2>7
<1> DEFINE T == {n \in 0..Len(q) : Holds(f[n], n)}
<1> HIDE DEF Holds
<1>4. /\ Len(q) \in Nat /\ 0 \in T /\ \A n \in 1..Len(q) : n - 1 \in T => n \in T
  <2>1. f[0] = EmptyDashboard
    BY <1>1 DEF Accumulates
  <2>2. ASSUME NEW n \in 1..Len(q), n - 1 \in T PROVE n \in T
    <3>1. n \in 0..Len(q) /\ n # 0
      OBVIOUS
    <3> QED
      BY <1>3, <2>2, <3>1
  <2> QED
    BY <1>2, <2>1, <2>2
<1>5. Holds(f[Len(q)], Len(q))
  <2> DEFINE m == Len(q)
  <2>1. m \in T
    <3> HIDE DEF T, m
    <3>1. m \in Nat /\ \A n \in 1..m : n - 1 \in T => n \in T
      BY <1>4 DEF m
    <3> QED
      BY <1>4, <3>1, CountingUp
  <2> QED
    BY <2>1
<1>6. Accumulated(EmptyDashboard, q) = f[Len(q)] /\ Firsts(q, Len(q)) = ToSet(q)
  <2>1. Len(q) \in Nat /\ Len(q) \in 0..Len(q)
    OBVIOUS
  <2> QED
    BY <1>1, <2>1, AccumulatedIs, FirstsFinite
<1> QED
  BY <1>5, <1>6 DEF Holds

\* The active days of a dashboard are the days with a minute of playtime,
\* though a day is closed while older sessions still arrive, in any time zones
\* and of any plausible lengths.
THEOREM ActiveDaysAreCounted == Spec => []ActiveDaysAreExact
<1>1. IInv /\ AccumulationStands => ActiveDaysAreExact
  <2> SUFFICES ASSUME IInv, AccumulationStands, NEW a \in answer, Ready(a)
               PROVE  a.activeDays = Cardinality({d \in DaysOf(Counted) : SecondsOn(Counted, d) >= SecondsPerMinute})
    BY DEF ActiveDaysAreExact
  <2> DEFINE e == Accumulated(EmptyDashboard, added).active
             P == e.pending
  <2>1. a.activeDays = ActiveDays(e)
    <3>1. a = Finish(Accumulated(EmptyDashboard, added))
      BY DEF AccumulationStands, Ready
    <3> DEFINE d == Accumulated(EmptyDashboard, added)
    <3> HIDE DEF d
    <3>2. Finish(d).activeDays = ActiveDays(d.active)
      BY DEF Finish
    <3> QED
      BY <3>1, <3>2 DEF d
  <2>2. /\ added \in Seq(Pool) /\ Sorted(added) /\ Counted = ToSet(added)
    BY DEF IInv, AddedStands, Counted
  <2>3. IsFiniteSet(DaysOf(Counted)) /\ ActiveDaysStand(e, Counted)
    BY <2>2, ActiveHolds
  <2>4. Counted \in SUBSET Pool /\ IsFiniteSet(Counted)
    <3>1. Len(added) \in 0..Len(added)
      BY <2>2
    <3> QED
      BY <2>2, <3>1, FirstsFinite
  <2> HIDE DEF e
  <2>5. PICK F : /\ IsFiniteSet(F)
                 /\ F \cap DOMAIN P = {} /\ F \cup DOMAIN P = DaysOf(Counted)
                 /\ \A d \in DOMAIN P : P[d] = SecondsOn(Counted, d)
                 /\ e.completed = Cardinality(Active(Counted, F))
    BY <2>3 DEF ActiveDaysStand
  <2>6. ActiveDays(e) = e.completed + Cardinality(ShownDays(P))
    BY DEF ActiveDays
  <2> DEFINE G == DOMAIN P
  <2>7. IsFiniteSet(G)
    <3>1. G \in SUBSET DaysOf(Counted)
      BY <2>5
    <3> QED
      BY <2>3, <3>1, FS_Subset
  <2>8. ShownDays(P) = Active(Counted, G)
    <3> HIDE DEF P
    <3> QED
      BY <2>4, <2>5, ShownDaysAre
  <2>9. F \cap G = {} /\ F \cup G = DaysOf(Counted)
    BY <2>5
  <2> HIDE DEF G, P
  <2>10. Cardinality(Active(Counted, F \cup G)) = Cardinality(Active(Counted, F)) + Cardinality(Active(Counted, G))
    BY <2>5, <2>7, <2>9, ActiveAdds
  <2>11. a.activeDays = Cardinality(Active(Counted, DaysOf(Counted)))
    BY <2>1, <2>5, <2>6, <2>8, <2>9, <2>10
  <2> QED
    BY <2>11 DEF Active
<1> QED
  BY <1>1, InitInv, InvStep, InitAccumulation, AccumulationStep, PTL DEF Spec

-----------------------------------------------------------------------------
(***************************************************************************)
(* What the queries compute of one session, and of many.                   *)
(***************************************************************************)
LEMMA RuntimeIsSeconds ==
  ASSUME NEW s \in Pool
  PROVE  RuntimeSeconds(s) = Seconds(s)
<1>1. s \in SessionShape /\ s.start \in Nat /\ s.end \in Nat \cup {None} /\ s.duration \in Nat \cup {None}
  BY DEF PoolAssumption, SessionShape
<1>2. None = -1 /\ MaxSessionSeconds \in Int /\ TicksPerSecond \in Int
  <2>1. TicksPerSecond \in Nat \ {0} /\ MaxSessionDays \in Nat /\ TicksPerDay \in Nat
    BY DEF UnitsAssumption
  <2>2. \A i, j \in Nat, k \in Nat \ {0} : (i * j) \div k \in Int
    OBVIOUS
  <2> QED
    BY <2>1, <2>2 DEF MaxSessionSeconds, None
<1>3. Max({0, None}) = 0 /\ \A n \in Nat : Max({0, n}) = n
  <2>1. \A n \in Int : Max({0, n}) = IF 0 <= n THEN n ELSE 0
    <3>1. 0 \in Int
      OBVIOUS
    <3> QED
      BY <3>1, MinMaxOfTwo
  <2>2. None \in Int /\ ~(0 <= None) /\ \A n \in Nat : n \in Int /\ 0 <= n
    BY <1>2
  <2> QED
    BY <2>1, <2>2
<1>4. Implausible(s) <=> s.duration > MaxSessionSeconds \/ (s.end # None /\ SqlDisagrees(s))
  <2>1. s.end # None => s.end \in Nat
    BY <1>1
  <2> QED
    BY <1>1, <1>2, <2>1 DEF Implausible, SqlDisagrees
<1>5. CASE Implausible(s)
  <2>1. Bounds(s).duration = None
    BY <1>1, <1>5 DEF Bounds, SessionShape
  <2> QED
    BY <1>3, <1>4, <1>5, <2>1 DEF Seconds, RuntimeSeconds
<1>6. CASE ~Implausible(s)
  <2>1. Bounds(s).duration = s.duration
    BY <1>6 DEF Bounds
  <2> QED
    BY <1>1, <1>3, <1>4, <1>6, <2>1 DEF Seconds, RuntimeSeconds
<1> QED
  BY <1>5, <1>6

LEMMA QueriedDays ==
  ASSUME NEW s \in Pool
  PROVE  {d \in {Local(s, s.start) + k : k \in 0..MaxSessionDays} : d <= EndDate(s)} = DOMAIN DayAllocations(s)
<1> DEFINE from == s.start + Offset(s)
           len == Seconds(s) * TicksPerSecond
           to == from + len
           last == IF to > from THEN DayOf(to - 1) ELSE DayOf(from)
<1>1. DOMAIN DayAllocations(s) = DayOf(from)..last
  BY DEF DayAllocations
<1>2. Local(s, s.start) = DayOf(from)
  BY DEF Local
<1>3. from \in Int /\ len \in Nat /\ len <= MaxSessionDays * TicksPerDay /\ s.start \in Nat /\ Offset(s) \in Int
  BY PlayedSeconds, SessionTimes
<1>4. EndDate(s) = last
  <2> DEFINE back == Max({0, len - 1})
  <2>1. EndDate(s) = DayOf((s.start + back) + Offset(s))
    BY RuntimeIsSeconds DEF EndDate, Local
  <2> HIDE DEF len
  <2>2. back = IF len > 0 THEN len - 1 ELSE 0
    <3>1. 0 \in Int /\ len - 1 \in Int
      BY <1>3
    <3>2. Max({0, len - 1}) = IF 0 <= len - 1 THEN len - 1 ELSE 0
      BY <3>1, MinMaxOfTwo
    <3>3. 0 <= len - 1 <=> len > 0
      BY <1>3
    <3> QED
      BY <3>2, <3>3
  <2> HIDE DEF back
  <2>3. (s.start + back) + Offset(s) = IF to > from THEN to - 1 ELSE from
    <3>1. CASE len > 0
      BY <1>3, <2>2, <3>1
    <3>2. CASE ~(len > 0)
      BY <1>3, <2>2, <3>2
    <3> QED
      BY <3>1, <3>2
  <2>4. DayOf((s.start + back) + Offset(s)) = last
    BY <2>3
  <2> QED
    BY <2>1, <2>4
<1>5. MaxSessionDays \in Nat
  BY DEF UnitsAssumption
<1> HIDE DEF from, len, to
<1>6. /\ last \in Int /\ DayOf(from) \in Int /\ DayOf(from) <= last
      /\ last <= DayOf(from) + MaxSessionDays
  <2>1. to = from + len /\ to \in Int
    BY <1>3 DEF to
  <2>2. /\ last \in Int /\ DayOf(from) \in Int /\ DayOf(from) <= last
        /\ \A m \in Nat : len <= m * TicksPerDay => last <= DayOf(from) + m
    BY <1>3, <2>1, DaySlices
  <2>3. last <= DayOf(from) + MaxSessionDays
    BY <1>3, <1>5, <2>2, Zenon
  <2> QED
    BY <2>2, <2>3
<1> HIDE DEF last
<1> DEFINE day == DayOf(from)
<1> HIDE DEF day
<1>7. ASSUME NEW d \in day..last PROVE \E k \in 0..MaxSessionDays : d = day + k
  <2>1. d - day \in 0..MaxSessionDays /\ d = day + (d - day)
    BY <1>5, <1>6, <1>7 DEF day
  <2> QED
    BY <2>1
<1>8. {d \in {day + k : k \in 0..MaxSessionDays} : d <= last} = day..last
  <2>1. ASSUME NEW k \in 0..MaxSessionDays, day + k <= last PROVE day + k \in day..last
    BY <1>5, <1>6, <2>1 DEF day
  <2>2. \A d \in day..last : d <= last
    BY <1>6 DEF day
  <2> QED
    BY <1>7, <2>1, <2>2
<1> QED
  BY <1>1, <1>2, <1>4, <1>8 DEF day

LEMMA QueriedMonths ==
  ASSUME NEW C \in SUBSET Pool
  PROVE  ObservedMonths(C) = {MonthIndex(d) : d \in DaysOf(C)}
<1> DEFINE Dates(s) == {d \in {Local(s, s.start) + k : k \in 0..MaxSessionDays} : d <= EndDate(s)}
<1>1. ObservedMonths(C) = {MonthIndex(d) : d \in UNION {Dates(s) : s \in C}}
  BY DEF ObservedMonths
<1>2. \A s \in C : Dates(s) = DOMAIN DayAllocations(s)
  BY QueriedDays
<1> HIDE DEF Dates
<1>3. UNION {Dates(s) : s \in C} = DaysOf(C)
  BY <1>2 DEF DaysOf
<1> QED
  BY <1>1, <1>3

Playtime == [s \in Pool |-> Seconds(s)]
Players(C) == {s.instance : s \in C}
PlayedBy(C, i) == SumOver([s \in {t \in C : t.instance = i} |-> Seconds(s)])

LEMMA PlayedByIs ==
  ASSUME NEW C \in SUBSET Pool, IsFiniteSet(C), NEW i
  PROVE  /\ PlayedBy(C, i) = Total(Playtime, {t \in C : t.instance = i})
         /\ PlayedBy(C, i) \in Nat
         /\ InstanceSeconds(C, i) = PlayedBy(C, i)
<1> DEFINE T == {t \in C : t.instance = i}
           w == [s \in T |-> Seconds(s)]
           r == [s \in T |-> RuntimeSeconds(s)]
<1>1. IsFiniteSet(T) /\ T \in SUBSET Pool
  <2>1. T \in SUBSET C
    OBVIOUS
  <2> QED
    BY <2>1, FS_Subset
<1>2. \A s \in T : /\ w[s] \in Nat /\ r[s] = w[s] /\ Playtime[s] = w[s]
  BY <1>1, RuntimeIsSeconds, PlayedSeconds DEF Playtime
<1>3. PlayedBy(C, i) = Total(w, T) /\ InstanceSeconds(C, i) = Total(r, T)
  BY DEF PlayedBy, InstanceSeconds, SumOver, Total
<1> HIDE DEF T, w, r
<1>4. Total(r, T) = Total(w, T) /\ Total(Playtime, T) = Total(w, T) /\ Total(w, T) \in Nat
  <2>1. Total(r, T) = Total(w, T)
    BY <1>1, <1>2, TotalAgrees
  <2>2. Total(Playtime, T) = Total(w, T)
    BY <1>1, <1>2, TotalAgrees
  <2>3. Total(w, T) \in Nat
    BY <1>1, <1>2, TotalUnfolds
  <2> QED
    BY <2>1, <2>2, <2>3
<1> QED
  BY <1>3, <1>4 DEF T

LEMMA PlayersFinite ==
  ASSUME NEW C \in SUBSET Pool, IsFiniteSet(C)
  PROVE  IsFiniteSet(Players(C)) /\ Players(C) \subseteq Nat
<1> DEFINE f == [s \in C |-> s.instance]
           T == Players(C)
<1>1. f \in [C -> T] /\ \A t \in T : \E s \in C : f[s] = t
  BY DEF Players
<1>2. T \subseteq Nat
  BY DEF Players, PoolAssumption, SessionShape
<1> HIDE DEF f, T
<1>3. f \in Surjection(C, T)
  BY <1>1 DEF Surjection
<1>4. IsFiniteSet(T)
  BY <1>3, FS_Surjection
<1> QED
  BY <1>2, <1>4 DEF T

\* The top instance has the most of what was played.
LEMMA TopIsGreatest ==
  ASSUME NEW C \in SUBSET Pool, IsFiniteSet(C), C # {}
  PROVE  TopInstance(C).seconds = Max({PlayedBy(C, i) : i \in Players(C)})
<1> DEFINE names == Players(C)
           w == [i \in names |-> PlayedBy(C, i)]
           best == {i \in names : \A j \in names : InstanceSeconds(C, j) <= InstanceSeconds(C, i)}
           chosen == Min(best)
<1>1. \A i \in names : w[i] \in Nat /\ InstanceSeconds(C, i) = w[i] /\ PlayedBy(C, i) = w[i]
  BY PlayedByIs
<1>2. IsFiniteSet(names) /\ names # {} /\ names \in SUBSET Nat
  <2>1. names # {}
    BY DEF Players
  <2> QED
    BY <2>1, PlayersFinite
<1>3. TopInstance(C) = [instance |-> chosen, seconds |-> InstanceSeconds(C, chosen)]
  BY DEF TopInstance, Players
<1> HIDE DEF names, w
<1>4. PICK x \in names : \A y \in names : w[y] <= w[x]
  BY <1>1, <1>2, GreatestWeight
<1>5. best \in SUBSET Nat /\ best # {}
  <2>1. \A j \in names : InstanceSeconds(C, j) <= InstanceSeconds(C, x)
    BY <1>1, <1>4
  <2>2. x \in best
    BY <2>1
  <2>3. best \subseteq names
    OBVIOUS
  <2> QED
    BY <1>2, <2>2, <2>3
<1>6. chosen \in best
  <2> HIDE DEF best
  <2>1. \E n \in best : \A m \in best : n <= m
    BY <1>5, LeastNatural
  <2> QED
    BY <2>1 DEF Min
<1>7. chosen \in names /\ \A j \in names : w[j] <= w[chosen]
  BY <1>1, <1>6
<1> HIDE DEF chosen, best
<1> DEFINE values == {PlayedBy(C, i) : i \in names}
<1>8. values = {w[i] : i \in names}
  BY <1>1
<1>9. Max(values) = w[chosen]
  <2>1. w[chosen] \in values /\ \A v \in values : w[chosen] >= v
    BY <1>1, <1>7, <1>8
  <2>2. \A v \in values : v \in Nat
    BY <1>1, <1>8
  <2> HIDE DEF values
  <2>3. Max(values) \in values /\ \A v \in values : Max(values) >= v
    BY <2>1 DEF Max
  <2> QED
    BY <2>1, <2>2, <2>3
<1>10. TopInstance(C).seconds = w[chosen]
  BY <1>1, <1>3, <1>7
<1> QED
  BY <1>9, <1>10 DEF names

LEMMA PlaytimesAddUp ==
  ASSUME NEW C \in SUBSET Pool, IsFiniteSet(C)
  PROVE  SumOver([i \in Players(C) |-> PlayedBy(C, i)]) = Total(Playtime, C)
<1> DEFINE I == Players(C)
           h == [i \in I |-> PlayedBy(C, i)]
           g == [s \in C |-> s.instance]
<1>1. SumOver(h) = Total(h, I)
  BY DEF SumOver, Total
<1>2. IsFiniteSet(I) /\ \A s \in C : g[s] \in I /\ Playtime[s] \in Nat
  BY PlayersFinite, PlayedSeconds DEF Players, Playtime
<1>3. ASSUME NEW i \in I PROVE h[i] = Total(Playtime, Group(g, C, i))
  <2>1. Group(g, C, i) = {t \in C : t.instance = i}
    BY DEF Group
  <2>2. h[i] = PlayedBy(C, i)
    BY <1>3
  <2>3. PlayedBy(C, i) = Total(Playtime, {t \in C : t.instance = i})
    BY PlayedByIs
  <2> QED
    BY <2>1, <2>2, <2>3
<1> HIDE DEF I, h, g
<1>4. Total(h, I) = Total(Playtime, C)
  BY <1>2, <1>3, TotalByGroups
<1> QED
  BY <1>1, <1>4 DEF I, h

-----------------------------------------------------------------------------
(***************************************************************************)
(* The total, and what the queries of an undisturbed load have seen.       *)
(***************************************************************************)
LEMMA TotalOfSum ==
  ASSUME NEW a, NEW s, "total" \in DOMAIN a
  PROVE  /\ "total" \in DOMAIN Add(a, s)
         /\ Add(a, s).total = a.total + Seconds(s)
<1> DEFINE b == UpdateCalendarEnd(a, Local(s, ObservedEnd(s)))
<1>1. DOMAIN b = DOMAIN a /\ b.total = a.total
  BY DEF UpdateCalendarEnd
<1> HIDE DEF b
<1> QED
  BY <1>1 DEF Add, b

LEMMA TotalHolds ==
  ASSUME NEW q \in Seq(Pool), Sorted(q)
  PROVE  Accumulated(EmptyDashboard, q).total = Total(Playtime, ToSet(q))
<1> DEFINE Holds(a, n) == "total" \in DOMAIN a /\ a.total = Total(Playtime, Firsts(q, n))
<1>1. PICK f : Accumulates(f, EmptyDashboard, q, Len(q))
  <2>1. Len(q) \in Nat
    OBVIOUS
  <2> QED
    BY <2>1, AccumulationExists
<1>2. Holds(EmptyDashboard, 0)
  <2>1. "total" \in DOMAIN EmptyDashboard /\ EmptyDashboard.total = 0
    BY DEF EmptyDashboard
  <2>2. Total(Playtime, {}) = 0
    BY FS_EmptySet, TotalUnfolds
  <2>3. Firsts(q, 0) = {}
    BY DEF Firsts
  <2> QED
    BY <2>1, <2>2, <2>3
<1>3. ASSUME NEW n \in 0..Len(q), n # 0, Holds(f[n - 1], n - 1)
      PROVE  Holds(f[n], n)
  <2> DEFINE a == f[n - 1]
             s == q[n]
             C == Firsts(q, n - 1)
             D == C \cup {s}
  <2>1. f[n] = Add(a, s)
    BY <1>1, <1>3 DEF Accumulates
  <2>2. s \in Pool \ C /\ Firsts(q, n) = D
    BY <1>3, FirstsGrow
  <2>3. C \in SUBSET Pool /\ IsFiniteSet(C)
    <3>1. n - 1 \in 0..Len(q)
      BY <1>3
    <3> QED
      BY <3>1, FirstsFinite
  <2>4. "total" \in DOMAIN a /\ a.total = Total(Playtime, C)
    BY <1>3
  <2> HIDE DEF a, s, C
  <2>5. "total" \in DOMAIN Add(a, s) /\ Add(a, s).total = a.total + Seconds(s)
    BY <2>4, TotalOfSum
  <2>6. /\ IsFiniteSet(D) /\ s \in D /\ D \ {s} = C /\ \A t \in D : Playtime[t] \in Nat
        /\ Playtime[s] = Seconds(s)
    <3>1. IsFiniteSet(D)
      BY <2>3, FS_AddElement
    <3>2. s \in D /\ D \ {s} = C /\ D \subseteq Pool
      BY <2>2, <2>3
    <3>3. \A t \in Pool : Playtime[t] = Seconds(t) /\ Seconds(t) \in Nat
      BY PlayedSeconds DEF Playtime
    <3> HIDE DEF D
    <3> QED
      BY <2>2, <3>1, <3>2, <3>3
  <2> HIDE DEF D
  <2>7. Total(Playtime, D) = Playtime[s] + Total(Playtime, D \ {s})
    BY <2>6, TotalWithout
  <2>8. Total(Playtime, C) \in Nat /\ Seconds(s) \in Nat
    <3>1. \A t \in C : Playtime[t] \in Nat
      BY <2>6
    <3> QED
      BY <2>2, <2>3, <3>1, TotalUnfolds, PlayedSeconds
  <2>9. Add(a, s).total = Total(Playtime, D)
    <3>1. Total(Playtime, D \ {s}) = Total(Playtime, C)
      BY <2>6
    <3>2. Total(Playtime, D) = Seconds(s) + Total(Playtime, C)
      BY <2>6, <2>7, <3>1
    <3>3. Add(a, s).total = Total(Playtime, C) + Seconds(s)
      BY <2>4, <2>5
    <3>4. \A m, k \in Nat : m + k = k + m
      OBVIOUS
    <3>5. Total(Playtime, C) + Seconds(s) = Seconds(s) + Total(Playtime, C)
      BY <2>8, <3>4, Zenon
    <3> QED
      BY <3>2, <3>3, <3>5, Zenon
  <2> QED
    BY <2>1, <2>2, <2>5, <2>9
<1> DEFINE T == {n \in 0..Len(q) : Holds(f[n], n)}
<1> HIDE DEF Holds
<1>4. /\ Len(q) \in Nat /\ 0 \in T /\ \A n \in 1..Len(q) : n - 1 \in T => n \in T
  <2>1. f[0] = EmptyDashboard
    BY <1>1 DEF Accumulates
  <2>2. ASSUME NEW n \in 1..Len(q), n - 1 \in T PROVE n \in T
    <3>1. n \in 0..Len(q) /\ n # 0
      OBVIOUS
    <3> QED
      BY <1>3, <2>2, <3>1
  <2> QED
    BY <1>2, <2>1, <2>2
<1>5. Holds(f[Len(q)], Len(q))
  <2> DEFINE m == Len(q)
  <2>1. m \in T
    <3> HIDE DEF T, m
    <3>1. m \in Nat /\ \A n \in 1..m : n - 1 \in T => n \in T
      BY <1>4 DEF m
    <3> QED
      BY <1>4, <3>1, CountingUp
  <2> QED
    BY <2>1
<1>6. Accumulated(EmptyDashboard, q) = f[Len(q)] /\ Firsts(q, Len(q)) = ToSet(q)
  <2>1. Len(q) \in Nat /\ Len(q) \in 0..Len(q)
    OBVIOUS
  <2> QED
    BY <1>1, <2>1, AccumulatedIs, FirstsFinite
<1> QED
  BY <1>5, <1>6 DEF Holds

QueriesSaw(S) == top = TopInstance(S) /\ months = Cardinality(ObservedMonths(S))
\* As long as nothing is promoted, the archive is what the queries saw and all
\* that is counted is in it.
UndisturbedStands ==
    /\ undisturbed /\ phase = "months" => top = TopInstance(sessions)
    /\ undisturbed /\ phase = "batches" =>
         /\ QueriesSaw(sessions)
         /\ Counted \subseteq sessions
         /\ cursor # {} => stable = sessions
    /\ \A a \in answer : a.state = "ready" =>
         /\ added # <<>>
         /\ undisturbed => QueriesSaw(Counted)

LEMMA InitUndisturbed == Init => UndisturbedStands
BY DEF Init, UndisturbedStands

LEMMA UndisturbedStep == IInv /\ AccumulationStands /\ UndisturbedStands /\ [Next]_vars => UndisturbedStands'
<1> SUFFICES ASSUME IInv, AccumulationStands, UndisturbedStands, [Next]_vars PROVE UndisturbedStands'
  OBVIOUS
<1>1. CASE UNCHANGED vars
  BY <1>1 DEF vars, archive, queries, UndisturbedStands, QueriesSaw, Counted
<1>2. CASE Promote
  <2>1. /\ phase # "done" /\ UNCHANGED <<phase, answer>> /\ undisturbed' = (phase = "revision")
    BY <1>2 DEF Promote
  <2>2. answer' = {}
    BY <2>1 DEF IInv, AnswerStands
  <2>3. undisturbed' => phase' = "revision"
    BY <2>1
  <2> QED
    BY <2>2, <2>3 DEF UndisturbedStands
<1>3. CASE ReadRevision \/ ReadScanned
  <2>1. phase' \in {"scanned", "empty", "top"} /\ answer' = {}
    BY <1>3 DEF ReadRevision, ReadScanned, IInv, AnswerStands
  <2> QED
    BY <2>1 DEF UndisturbedStands
<1>4. CASE AnswerEmpty
  <2>1. phase' = "done" /\ \A a \in answer' : a.state # "ready"
    BY <1>4 DEF AnswerEmpty, EmptyAnswer
  <2> QED
    BY <2>1 DEF UndisturbedStands
<1>5. CASE ReadTop
  <2>1. phase' = "months" /\ answer' = {} /\ top' = TopInstance(sessions) /\ UNCHANGED sessions
    BY <1>5 DEF ReadTop, archive, IInv, AnswerStands
  <2>2. top' = TopInstance(sessions')
    BY <2>1
  <2> QED
    BY <2>1, <2>2 DEF UndisturbedStands
<1>6. CASE ReadMonths
  <2>1. /\ phase = "months" /\ phase' = "batches" /\ answer' = {}
        /\ months' = Cardinality(ObservedMonths(sessions)) /\ UNCHANGED <<sessions, top, cursor, added, undisturbed>>
    BY <1>6 DEF ReadMonths, archive, IInv, AnswerStands
  <2>2. cursor = {} /\ added = <<>>
    BY <2>1 DEF IInv, CursorStands, Unstarted
  <2>3. undisturbed' => QueriesSaw(sessions)'
    BY <2>1 DEF QueriesSaw, UndisturbedStands
  <2>4. Counted' = {}
    <3>1. DOMAIN added' = {}
      BY <2>1, <2>2
    <3> QED
      BY <3>1 DEF Counted, ToSet
  <2> QED
    BY <2>1, <2>2, <2>3, <2>4 DEF UndisturbedStands
<1>7. CASE ReadBatch
  <2> DEFINE batch == Batch(sessions)
  <2>1. /\ phase = "batches" /\ UNCHANGED <<sessions, top, months, undisturbed>>
        /\ added' = added \o batch
        /\ stable' = IF cursor = {} THEN sessions ELSE stable
        /\ dashboard' = Accumulated(dashboard, batch)
        /\ \/ UNCHANGED <<phase, answer>>
           \/ phase' = "empty" /\ answer' = {}
           \/ phase' = "done" /\ dashboard'.count # 0
    BY <1>7 DEF ReadBatch, archive, queries
  <2>2. /\ sessions \in SUBSET Pool /\ IsFiniteSet(sessions) /\ answer = {}
        /\ added \in Seq(Pool) /\ Sorted(added)
    BY <2>1 DEF IInv, ArchiveStands, AddedStands, AnswerStands
  <2>3. batch \in Seq(Pool) /\ \A n \in DOMAIN batch : batch[n] \in Rest
    BY <2>2, BatchProperties
  <2> HIDE DEF batch
  <2>4. ToSet(batch) \subseteq sessions
    BY <2>3 DEF ToSet, Rest
  <2>5. Counted' = Counted \cup ToSet(batch)
    <3> DEFINE q == added \o batch
               m == Len(added)
               k == Len(batch)
    <3>1. /\ q \in Seq(Pool) /\ Len(q) = m + k
          /\ \A i \in 1..m + k : q[i] = IF i <= m THEN added[i] ELSE batch[i - m]
      BY <2>2, <2>3, ConcatProperties
    <3>2. m \in Nat /\ k \in Nat /\ DOMAIN added = 1..m /\ DOMAIN batch = 1..k
      BY <2>2, <2>3
    <3> HIDE DEF q
    <3>3. DOMAIN q = 1..m + k
      BY <3>1
    <3> HIDE DEF m, k
    <3>4. ASSUME NEW i \in 1..m + k PROVE q[i] \in Counted \cup ToSet(batch)
      <4>1. CASE i <= m
        <5>1. i \in 1..m
          BY <3>2, <4>1
        <5> QED
          BY <3>1, <3>2, <4>1, <5>1 DEF Counted, ToSet
      <4>2. CASE ~(i <= m)
        <5>1. i - m \in 1..k
          BY <3>2, <4>2
        <5> QED
          BY <3>1, <3>2, <4>2, <5>1 DEF ToSet
      <4> QED
        BY <4>1, <4>2
    <3>5. ASSUME NEW i \in 1..m PROVE added[i] \in ToSet(q)
      <4>1. i \in 1..m + k /\ i <= m
        BY <3>2
      <4> QED
        BY <3>1, <3>3, <4>1 DEF ToSet
    <3>6. ASSUME NEW i \in 1..k PROVE batch[i] \in ToSet(q)
      <4>1. m + i \in 1..m + k /\ ~(m + i <= m) /\ (m + i) - m = i
        BY <3>2
      <4>2. q[m + i] = batch[i]
        BY <3>1, <4>1
      <4> QED
        BY <3>3, <4>1, <4>2 DEF ToSet
    <3>7. ToSet(q) = Counted \cup ToSet(batch)
      <4>1. ToSet(q) = {q[i] : i \in 1..m + k} /\ Counted = {added[i] : i \in 1..m}
        BY <3>2, <3>3 DEF Counted, ToSet
      <4>2. ToSet(batch) = {batch[i] : i \in 1..k}
        <5>1. DOMAIN batch = 1..k
          BY <3>2
        <5> QED
          BY <5>1, Zenon DEF ToSet
      <4>3. ASSUME NEW v \in ToSet(q) PROVE v \in Counted \cup ToSet(batch)
        <5>1. PICK i \in 1..m + k : v = q[i]
          BY <4>1
        <5> QED
          BY <3>4, <5>1
      <4>4. Counted \subseteq ToSet(q)
        BY <3>5, <4>1, Zenon
      <4>5. ToSet(batch) \subseteq ToSet(q)
        BY <3>6, <4>2, Zenon
      <4> QED
        BY <4>3, <4>4, <4>5, Zenon
    <3> QED
      BY <2>1, <3>7 DEF q, Counted
  <2>6. undisturbed' => /\ QueriesSaw(sessions)' /\ Counted' \subseteq sessions' /\ stable' = sessions'
    BY <2>1, <2>4, <2>5 DEF UndisturbedStands, QueriesSaw
  <2>7. ASSUME NEW a \in answer', a.state = "ready"
        PROVE  added' # <<>> /\ (undisturbed' => QueriesSaw(Counted)')
    <3>1. dashboard'.count # 0
      BY <2>1, <2>2, <2>7
    <3>2. added' # <<>>
      <4>1. dashboard' = Accumulated(EmptyDashboard, added')
        BY AccumulationStep DEF AccumulationStands
      <4>2. Accumulated(EmptyDashboard, <<>>).count = 0
        BY AccumulatedNothing DEF EmptyDashboard
      <4> QED
        BY <3>1, <4>1, <4>2
    <3>3. stable' \subseteq Counted'
      BY <2>7, BatchStep, <1>7 DEF IInv, AnswerStands
    <3>4. undisturbed' => Counted' = sessions'
      BY <2>6, <3>3
    <3> QED
      BY <2>6, <3>2, <3>4 DEF QueriesSaw
  <2>8. phase' # "months"
    BY <2>1
  <2> QED
    BY <2>6, <2>7, <2>8 DEF UndisturbedStands
<1> QED
  BY <1>1, <1>2, <1>3, <1>4, <1>5, <1>6, <1>7 DEF Next

\* When nothing is promoted during a load, the queries and the accumulator agree
\* on the months observed, on what the top instance played and on the total,
\* though one computes in SQL and the other in Rust.
THEOREM QueriesAgree == Spec => []ReadingsAgree
<1>1. IInv /\ AccumulationStands /\ UndisturbedStands => ReadingsAgree
  <2> SUFFICES ASSUME IInv, AccumulationStands, UndisturbedStands, NEW a \in answer, Ready(a), undisturbed
               PROVE  /\ months = Cardinality({MonthIndex(d) : d \in DaysOf(Counted)})
                      /\ top.seconds = Max({[i \in Players(Counted) |-> PlayedBy(Counted, i)][j] : j \in Players(Counted)})
                      /\ SumOver([i \in Players(Counted) |-> PlayedBy(Counted, i)]) = a.total
    BY DEF ReadingsAgree, Players, PlayedBy
  <2>1. added # <<>> /\ top = TopInstance(Counted) /\ months = Cardinality(ObservedMonths(Counted))
    BY DEF UndisturbedStands, QueriesSaw, Ready
  <2>2. /\ added \in Seq(Pool) /\ Sorted(added) /\ Counted = ToSet(added)
    BY DEF IInv, AddedStands, Counted
  <2>3. Counted \in SUBSET Pool /\ IsFiniteSet(Counted)
    <3>1. Len(added) \in 0..Len(added)
      BY <2>2
    <3> QED
      BY <2>2, <3>1, FirstsFinite
  <2>4. Counted # {}
    <3>1. 1 \in DOMAIN added
      BY <2>1, <2>2
    <3> QED
      BY <3>1 DEF Counted, ToSet
  <2>5. months = Cardinality({MonthIndex(d) : d \in DaysOf(Counted)})
    BY <2>1, <2>3, QueriedMonths
  <2>6. top.seconds = Max({PlayedBy(Counted, i) : i \in Players(Counted)})
    BY <2>1, <2>3, <2>4, TopIsGreatest
  <2>7. {[i \in Players(Counted) |-> PlayedBy(Counted, i)][j] : j \in Players(Counted)}
          = {PlayedBy(Counted, i) : i \in Players(Counted)}
    OBVIOUS
  <2>8. a.total = Total(Playtime, Counted)
    <3>1. a = Finish(Accumulated(EmptyDashboard, added))
      BY DEF AccumulationStands, Ready
    <3> DEFINE d == Accumulated(EmptyDashboard, added)
    <3>2. d.total = Total(Playtime, Counted)
      BY <2>2, TotalHolds
    <3> HIDE DEF d
    <3>3. Finish(d).total = d.total
      BY DEF Finish
    <3> QED
      BY <3>1, <3>2, <3>3 DEF d
  <2>9. SumOver([i \in Players(Counted) |-> PlayedBy(Counted, i)]) = a.total
    BY <2>3, <2>8, PlaytimesAddUp
  <2> QED
    BY <2>5, <2>6, <2>7, <2>9
<1> QED
  BY <1>1, InitInv, InvStep, InitAccumulation, AccumulationStep, InitUndisturbed, UndisturbedStep, PTL DEF Spec

-----------------------------------------------------------------------------
(***************************************************************************)
(* The calendar.  A session may reach at most the local day of its         *)
(* observed end, as long as its stored length is not rounded up: then a    *)
(* cell that falls out of the calendar is not missed when it moves on.     *)
(***************************************************************************)
\* finish_session divides the length of a session by 1_000, and a payload has
\* either that length and the end it was taken from or neither.
DurationsRoundedDown ==
    \A s \in Pool : ~Implausible(s) /\ s.end # None /\ s.duration # None =>
        s.start + s.duration * TicksPerSecond <= s.end

LastDay(s) == Local(s, ObservedEnd(s))

LEMMA PlayedWithinObserved ==
  ASSUME DurationsRoundedDown, NEW s \in Pool
  PROVE  s.start + Seconds(s) * TicksPerSecond <= ObservedEnd(s)
<1>1. /\ s \in SessionShape
      /\ s.start \in Nat /\ s.end \in Nat \cup {None} /\ s.duration \in Nat \cup {None}
  BY DEF PoolAssumption, SessionShape
<1>2. TicksPerSecond \in Nat /\ None = -1 /\ 0 * TicksPerSecond = 0
  BY DEF UnitsAssumption, None
<1>3. Max({0, None}) = 0 /\ \A n \in Nat : Max({0, n}) = n
  <2>1. \A n \in Int : Max({0, n}) = IF 0 <= n THEN n ELSE 0
    <3>1. 0 \in Int
      OBVIOUS
    <3> QED
      BY <3>1, MinMaxOfTwo
  <2>2. None \in Int /\ ~(0 <= None) /\ \A n \in Nat : n \in Int /\ 0 <= n
    BY <1>2
  <2> QED
    BY <2>1, <2>2
<1>4. CASE Bounds(s).duration = None
  <2>1. Seconds(s) = 0
    BY <1>3, <1>4 DEF Seconds
  <2>2. s.start + 0 = s.start
    BY <1>1
  <2> QED
    BY <1>2, <2>1, <2>2, SessionTimes
<1>5. CASE Bounds(s).duration # None
  <2>1. ~Implausible(s) /\ Bounds(s) = s
    BY <1>1, <1>5 DEF Bounds, SessionShape
  <2>2. s.duration \in Nat /\ Seconds(s) = s.duration
    BY <1>1, <1>3, <1>5, <2>1 DEF Seconds
  <2>3. CASE s.end # None
    <3>1. ObservedEnd(s) = s.end
      BY <2>1, <2>3 DEF ObservedEnd, IntervalEnd
    <3> QED
      BY <1>5, <2>1, <2>2, <2>3, <3>1 DEF DurationsRoundedDown
  <2>4. CASE s.end = None
    <3>1. IntervalEnd(s) = s.start + s.duration * TicksPerSecond
      BY <1>5, <2>1, <2>4 DEF IntervalEnd
    <3>2. s.start + s.duration * TicksPerSecond \in Nat
      <4>1. \A i, j, k \in Nat : i + j * k \in Nat
        OBVIOUS
      <4> QED
        BY <1>1, <1>2, <2>2, <4>1, Zenon
    <3>3. ObservedEnd(s) = s.start + s.duration * TicksPerSecond
      BY <1>2, <3>1, <3>2 DEF ObservedEnd
    <3> QED
      BY <2>2, <3>2, <3>3
  <2> QED
    BY <2>3, <2>4
<1> QED
  BY <1>4, <1>5

LEMMA SessionEnds ==
  ASSUME DurationsRoundedDown, NEW s \in Pool
  PROVE  LastDay(s) \in Int /\ \A d \in DOMAIN DayAllocations(s) : d \in Int /\ d <= LastDay(s)
<1> DEFINE from == s.start + Offset(s)
           len == Seconds(s) * TicksPerSecond
           to == from + len
           last == IF to > from THEN DayOf(to - 1) ELSE DayOf(from)
           end == ObservedEnd(s) + Offset(s)
<1>1. DOMAIN DayAllocations(s) = DayOf(from)..last
  BY DEF DayAllocations
<1>2. LastDay(s) = DayOf(end)
  BY DEF LastDay, Local
<1>3. /\ from \in Int /\ len \in Nat /\ to \in Int /\ end \in Int /\ from <= end /\ to <= end
  <2>1. /\ s.start \in Nat /\ ObservedEnd(s) \in Nat /\ s.start <= ObservedEnd(s)
        /\ Offset(s) \in Int /\ len \in Nat /\ s.start + len <= ObservedEnd(s)
    BY PlayedSeconds, SessionTimes, PlayedWithinObserved
  <2> HIDE DEF len
  <2> QED
    BY <2>1
<1>4. last = IF to > from THEN DayOf(to - 1) ELSE DayOf(from)
  OBVIOUS
<1> HIDE DEF from, len, to, last, end
<1>5. to - 1 \in Int /\ to - 1 <= end
  BY <1>3
<1>6. /\ DayOf(end) \in Int /\ DayOf(to - 1) \in Int /\ DayOf(from) \in Int
      /\ DayOf(to - 1) <= DayOf(end) /\ DayOf(from) <= DayOf(end)
  BY <1>3, <1>5, DayOfIs
<1>7. last \in Int /\ last <= DayOf(end)
  BY <1>4, <1>6
<1>8. \A d \in DayOf(from)..last : d \in Int /\ d <= DayOf(end)
  BY <1>6, <1>7
<1> QED
  BY <1>1, <1>2, <1>6, <1>8

\* The cells of the calendar are days or months: key maps a day to its cell.
ByDay == [d \in Int |-> d]
ByMonth == [d \in Int |-> MonthIndex(d)]
KeysOf(key, S) == {key[d] : d \in DaysOf(S)}
DaysAt(key, S, k) == {d \in DaysOf(S) : key[d] = k}
SlicesAt(key, s, k) == {d \in DOMAIN DayAllocations(s) : key[d] = k}
Touching(key, S, k) == {s \in S : SlicesAt(key, s, k) # {}}
DaySeconds(S) == [d \in Int |-> SecondsOn(S, d)]
SecondsAt(key, S, k) == Total(DaySeconds(S), DaysAt(key, S, k))
Share(key, s, k) == Total(DayAllocations(s), SlicesAt(key, s, k))

LEMMA ShareIs ==
  ASSUME NEW s \in Pool, NEW key, NEW k
  PROVE  /\ IsFiniteSet(SlicesAt(key, s, k)) /\ SlicesAt(key, s, k) \in SUBSET Int
         /\ Share(key, s, k) \in Nat
<1> DEFINE X == SlicesAt(key, s, k)
<1>1. X \in SUBSET DOMAIN DayAllocations(s)
  BY DEF SlicesAt
<1>2. IsFiniteSet(DOMAIN DayAllocations(s)) /\ DOMAIN DayAllocations(s) \subseteq Int
  BY DaysGrow
<1>3. IsFiniteSet(X) /\ X \in SUBSET Int
  BY <1>1, <1>2, FS_Subset
<1>4. \A d \in X : DayAllocations(s)[d] \in Nat
  BY <1>1, SessionDays
<1> HIDE DEF X
<1>5. Total(DayAllocations(s), X) \in Nat
  BY <1>3, <1>4, TotalUnfolds
<1> QED
  BY <1>3, <1>5 DEF X, Share

LEMMA DaysAreFinite ==
  ASSUME NEW C \in SUBSET Pool, IsFiniteSet(DaysOf(C)), NEW key, NEW k
  PROVE  /\ IsFiniteSet(DaysAt(key, C, k)) /\ DaysAt(key, C, k) \in SUBSET Int
         /\ DaysOf(C) \in SUBSET Int
<1>1. DaysAt(key, C, k) \in SUBSET DaysOf(C)
  BY DEF DaysAt
<1>2. DaysOf(C) \in SUBSET Int
  BY DaysGrow DEF DaysOf
<1> QED
  BY <1>1, <1>2, FS_Subset

\* A session adds its share to the seconds of a cell.
LEMMA SecondsAtGrow ==
  ASSUME NEW C \in SUBSET Pool, IsFiniteSet(C), IsFiniteSet(DaysOf(C)), NEW s \in Pool \ C,
         NEW key, NEW k
  PROVE  /\ SecondsAt(key, C \cup {s}, k) = SecondsAt(key, C, k) + Share(key, s, k)
         /\ SecondsAt(key, C, k) \in Nat
<1> DEFINE D == C \cup {s}
           slices == DayAllocations(s)
           w == DaySeconds(C)
           u == DaySeconds(D)
           g == [d \in Int |-> IF d \in DOMAIN slices THEN slices[d] ELSE 0]
           M == DaysAt(key, C, k)
           X == SlicesAt(key, s, k)
           N == DaysAt(key, D, k)
<1>1. /\ DaysOf(D) = DaysOf(C) \cup DOMAIN slices
      /\ D \in SUBSET Pool /\ IsFiniteSet(DaysOf(D)) /\ DOMAIN slices \subseteq Int
  BY DaysGrow
<1>2. N = M \cup X
  BY <1>1 DEF DaysAt, SlicesAt
<1>3. IsFiniteSet(M) /\ M \in SUBSET Int
  BY DaysAreFinite
<1>4. IsFiniteSet(X) /\ X \in SUBSET Int
  BY ShareIs
<1>5. IsFiniteSet(N) /\ N \in SUBSET Int /\ M \in SUBSET N /\ X \in SUBSET N
  <2> HIDE DEF M, X, N
  <2> QED
    BY <1>2, <1>3, <1>4, FS_Union
<1>6. ASSUME NEW d \in Int
      PROVE  /\ w[d] \in Nat /\ g[d] \in Nat /\ u[d] = w[d] + g[d]
             /\ d \notin DaysOf(C) => w[d] = 0
             /\ d \in DOMAIN slices => g[d] = slices[d]
             /\ d \notin DOMAIN slices => g[d] = 0
  <2>1. w[d] = SecondsOn(C, d) /\ u[d] = SecondsOn(D, d)
    BY DEF DaySeconds
  <2>2. SecondsOn(C, d) \in Nat /\ (d \notin DaysOf(C) => SecondsOn(C, d) = 0)
    BY SecondsOnIs
  <2>3. SecondsOn(D, d) = SecondsOn(C, d) + (IF d \in DOMAIN slices THEN slices[d] ELSE 0)
    BY SecondsGrow
  <2>4. g[d] = IF d \in DOMAIN slices THEN slices[d] ELSE 0
    OBVIOUS
  <2>5. d \in DOMAIN slices => slices[d] \in Nat
    BY SessionDays
  <2> HIDE DEF w, u, g, D, slices
  <2> QED
    BY <2>1, <2>2, <2>3, <2>4, <2>5
<1>7. \A d \in N \ M : d \notin DaysOf(C)
  BY DEF DaysAt
<1>8. \A d \in X : d \in DOMAIN slices
  BY DEF SlicesAt
<1>9. \A d \in N \ X : d \notin DOMAIN slices
  BY <1>1 DEF DaysAt, SlicesAt
<1> HIDE DEF w, u, g, M, N, X, slices, D
<1>10. \A d \in N : w[d] \in Nat /\ g[d] \in Nat /\ u[d] = w[d] + g[d]
  BY <1>5, <1>6
<1>11. Total(u, N) = Total(w, N) + Total(g, N)
  BY <1>5, <1>10, TotalOfSums
<1>12. Total(w, N) = Total(w, M)
  <2>1. (\A d \in N : w[d] \in Nat) /\ \A d \in N \ M : w[d] = 0
    BY <1>5, <1>6, <1>7
  <2> QED
    BY <1>5, <2>1, TotalOfSupport
<1>13. Total(g, N) = Total(g, X)
  <2>1. (\A d \in N : g[d] \in Nat) /\ \A d \in N \ X : g[d] = 0
    BY <1>5, <1>6, <1>9
  <2> QED
    BY <1>5, <2>1, TotalOfSupport
<1>14. Total(g, X) = Total(slices, X)
  <2>1. \A d \in X : g[d] \in Nat /\ slices[d] \in Nat /\ g[d] = slices[d]
    BY <1>4, <1>6, <1>8
  <2> QED
    BY <1>4, <2>1, TotalAgrees
<1>15. Total(w, M) \in Nat
  <2>1. \A d \in M : w[d] \in Nat
    BY <1>3, <1>6
  <2> QED
    BY <1>3, <2>1, TotalUnfolds
<1> QED
  BY <1>11, <1>12, <1>13, <1>14, <1>15 DEF SecondsAt, Share, w, u, M, N, X, slices, D

LEMMA ConfidenceIs ==
  ASSUME NEW s \in Pool
  PROVE  Confidence(s) \in 1..4
<1>1. s.confidence \in 1..4
  BY DEF PoolAssumption, SessionShape
<1>2. Weaker(s.confidence, Partial) \in 1..4
  <2>1. Min({s.confidence, Partial}) = IF s.confidence <= Partial THEN s.confidence ELSE Partial
    <3>1. s.confidence \in Int /\ Partial \in Int
      BY <1>1 DEF Partial
    <3> QED
      BY <3>1, MinMaxOfTwo
  <2>2. Partial = 2
    BY DEF Partial
  <2> QED
    BY <1>1, <2>1, <2>2 DEF Weaker
<1> QED
  BY <1>1, <1>2 DEF Confidence

\* c is the least of the values.
IsLeast(c, T) == c \in T /\ \A d \in T : c <= d

LEMMA MinIs ==
  ASSUME NEW T \in SUBSET Int, NEW c, IsLeast(c, T)
  PROVE  Min(T) = c
<1> DEFINE m == CHOOSE x \in T : \A y \in T : x <= y
<1>1. c \in T /\ \A y \in T : c <= y
  BY DEF IsLeast
<1>2. m \in T /\ \A y \in T : m <= y
  BY <1>1
<1>3. Min(T) = m
  BY DEF Min
<1> HIDE DEF m
<1>4. m <= c /\ c <= m /\ m \in Int /\ c \in Int
  BY <1>1, <1>2
<1> QED
  BY <1>3, <1>4

LEMMA MaxIs ==
  ASSUME NEW T \in SUBSET Int, NEW c \in T, \A d \in T : d <= c
  PROVE  Max(T) = c
<1> DEFINE m == CHOOSE x \in T : \A y \in T : x >= y
<1>1. \A y \in T : c >= y
  OBVIOUS
<1>2. m \in T /\ \A y \in T : m >= y
  BY <1>1
<1>3. Max(T) = m
  BY DEF Max
<1> HIDE DEF m
<1>4. m <= c /\ c <= m /\ m \in Int /\ c \in Int
  BY <1>1, <1>2
<1> QED
  BY <1>3, <1>4

Confidences(key, S, k) == {Confidence(s) : s \in Touching(key, S, k)}
\* What a cell tells of the sessions.
CellStands(c, key, S, k) ==
    /\ c.seconds = SecondsAt(key, S, k)
    /\ c.sessions = Cardinality(Touching(key, S, k))
    /\ IsLeast(c.confidence, Confidences(key, S, k))

LEMMA TouchingIs ==
  ASSUME NEW C \in SUBSET Pool, IsFiniteSet(C), NEW key, NEW k
  PROVE  /\ IsFiniteSet(Touching(key, C, k)) /\ Touching(key, C, k) \in SUBSET C
         /\ Cardinality(Touching(key, C, k)) \in Nat
         /\ Touching(key, C, k) # {} <=> k \in KeysOf(key, C)
         /\ Confidences(key, C, k) \in SUBSET (1..4)
<1>1. Touching(key, C, k) \in SUBSET C
  BY DEF Touching
<1>2. IsFiniteSet(Touching(key, C, k)) /\ Cardinality(Touching(key, C, k)) \in Nat
  BY <1>1, FS_Subset, FS_CardinalityType
<1>3. Touching(key, C, k) # {} <=> k \in KeysOf(key, C)
  BY DEF Touching, SlicesAt, KeysOf, DaysOf
<1>4. Confidences(key, C, k) \in SUBSET (1..4)
  BY <1>1, ConfidenceIs DEF Confidences
<1> QED
  BY <1>1, <1>2, <1>3, <1>4

\* A session that does not reach a cell changes nothing of it.
LEMMA CellStays ==
  ASSUME NEW C \in SUBSET Pool, IsFiniteSet(C), IsFiniteSet(DaysOf(C)), NEW s \in Pool \ C,
         NEW key, NEW k, SlicesAt(key, s, k) = {},
         NEW c, CellStands(c, key, C, k)
  PROVE  CellStands(c, key, C \cup {s}, k)
<1>1. Touching(key, C \cup {s}, k) = Touching(key, C, k)
  BY DEF Touching
<1>2. Share(key, s, k) = 0
  <2>1. Total(DayAllocations(s), {}) = 0
    BY FS_EmptySet, TotalUnfolds
  <2> QED
    BY <2>1 DEF Share
<1>3. SecondsAt(key, C \cup {s}, k) = SecondsAt(key, C, k)
  BY <1>2, SecondsAtGrow
<1> QED
  BY <1>1, <1>3 DEF CellStands, Confidences

\* A session that reaches a cell is added to it.
LEMMA CellGrows ==
  ASSUME NEW C \in SUBSET Pool, IsFiniteSet(C), IsFiniteSet(DaysOf(C)), NEW s \in Pool \ C,
         NEW key, NEW k, SlicesAt(key, s, k) # {},
         NEW c, IF k \in KeysOf(key, C) THEN CellStands(c, key, C, k) ELSE c = EmptyCell
  PROVE  CellStands(CellPlus(c, Share(key, s, k), Confidence(s)), key, C \cup {s}, k)
<1> DEFINE D == C \cup {s}
           T == Touching(key, C, k)
           U == Touching(key, D, k)
           new == CellPlus(c, Share(key, s, k), Confidence(s))
<1>1. /\ new.seconds = c.seconds + Share(key, s, k) /\ new.sessions = c.sessions + 1
      /\ new.confidence = Min({c.confidence, Confidence(s)})
  BY DEF CellPlus, Weaker
<1>2. U = T \cup {s} /\ s \notin T
  BY DEF Touching
<1>3. IsFiniteSet(T) /\ Cardinality(T) \in Nat /\ (T # {} <=> k \in KeysOf(key, C))
      /\ Confidences(key, C, k) \in SUBSET (1..4)
  BY TouchingIs
<1>4. Cardinality(U) = Cardinality(T) + 1
  <2> HIDE DEF T, U
  <2> QED
    BY <1>2, <1>3, FS_AddElement
<1>5. /\ SecondsAt(key, D, k) = SecondsAt(key, C, k) + Share(key, s, k)
      /\ SecondsAt(key, C, k) \in Nat
  BY SecondsAtGrow
<1>6. Confidences(key, D, k) = Confidences(key, C, k) \cup {Confidence(s)}
  <2>1. {Confidence(t) : t \in T \cup {s}} = {Confidence(t) : t \in T} \cup {Confidence(s)}
    <3> HIDE DEF T
    <3> QED
      OBVIOUS
  <2>2. Confidences(key, D, k) = {Confidence(t) : t \in U} /\ Confidences(key, C, k) = {Confidence(t) : t \in T}
    BY DEF Confidences
  <2> HIDE DEF T, U, D
  <2> QED
    BY <1>2, <2>1, <2>2
<1>7. Confidence(s) \in 1..4
  BY ConfidenceIs
<1>8. c.seconds = SecondsAt(key, C, k) /\ c.sessions = Cardinality(T)
  <2>1. CASE k \in KeysOf(key, C)
    BY <2>1 DEF CellStands
  <2>2. CASE k \notin KeysOf(key, C)
    <3>1. c.seconds = 0 /\ c.sessions = 0
      BY <2>2 DEF EmptyCell
    <3>2. T = {}
      BY <1>3, <2>2
    <3>3. DaysAt(key, C, k) = {}
      BY <2>2 DEF DaysAt, KeysOf
    <3>4. SecondsAt(key, C, k) = 0
      <4>1. Total(DaySeconds(C), {}) = 0
        BY FS_EmptySet, TotalUnfolds
      <4> QED
        BY <3>3, <4>1 DEF SecondsAt
    <3>5. Cardinality({}) = 0
      BY FS_EmptySet
    <3> QED
      BY <3>1, <3>2, <3>4, <3>5
  <2> QED
    BY <2>1, <2>2
<1>9. IsLeast(new.confidence, Confidences(key, D, k))
  <2> DEFINE old == c.confidence
             conf == Confidence(s)
             P == Confidences(key, C, k)
             Q == Confidences(key, D, k)
  <2>1. \/ IsLeast(old, P)
        \/ P = {} /\ old = 4
    <3>1. CASE k \in KeysOf(key, C)
      BY <3>1 DEF CellStands
    <3>2. CASE k \notin KeysOf(key, C)
      <4>1. T = {}
        BY <1>3, <3>2
      <4>2. P = {}
        BY <4>1 DEF Confidences
      <4>3. old = 4
        BY <3>2 DEF EmptyCell, Verified
      <4> QED
        BY <4>2, <4>3
    <3> QED
      BY <3>1, <3>2
  <2>2. Q = P \cup {conf} /\ P \in SUBSET (1..4) /\ conf \in 1..4 /\ new.confidence = Min({old, conf})
    BY <1>1, <1>3, <1>6, <1>7
  <2> HIDE DEF old, conf, P, Q, new
  <2>3. old \in Int /\ old <= 4
    BY <2>1, <2>2 DEF IsLeast
  <2>4. Min({old, conf}) = IF old <= conf THEN old ELSE conf
    <3>1. old \in Int /\ conf \in Int
      BY <2>2, <2>3
    <3> QED
      BY <3>1, MinMaxOfTwo
  <2>5. new.confidence = IF old <= conf THEN old ELSE conf
    BY <2>2, <2>4
  <2>6. ASSUME IsLeast(old, P) PROVE IsLeast(new.confidence, Q)
    <3>1. old \in P /\ \A d \in P : old <= d
      BY <2>6 DEF IsLeast
    <3>2. \A d \in P : d \in Int
      BY <2>2
    <3>3. conf \in Int
      BY <2>2
    <3>4. new.confidence \in Q
      BY <2>2, <2>5, <3>1
    <3>5. new.confidence <= conf /\ new.confidence <= old /\ new.confidence \in Int
      BY <2>3, <2>5, <3>3
    <3>6. ASSUME NEW d \in Q PROVE new.confidence <= d
      <4>1. CASE d = conf
        BY <3>5, <4>1
      <4>2. CASE d \in P
        BY <2>3, <3>1, <3>2, <3>5, <4>2
      <4> QED
        BY <2>2, <4>1, <4>2
    <3> QED
      BY <3>4, <3>6 DEF IsLeast
  <2>7. ASSUME P = {}, old = 4 PROVE IsLeast(new.confidence, Q)
    BY <2>2, <2>5, <2>7 DEF IsLeast
  <2> QED
    BY <2>1, <2>6, <2>7 DEF Q
<1> HIDE DEF new, T, U, D
<1>10. /\ new.seconds = SecondsAt(key, D, k) /\ new.sessions = Cardinality(U)
  BY <1>1, <1>4, <1>5, <1>8
<1> QED
  BY <1>9, <1>10 DEF CellStands, new, U, D

\* The cells that lie in the window tell all there is to tell.
CellsStand(cells, key, S, window) ==
    /\ DOMAIN cells = KeysOf(key, S) \cap window
    /\ \A k \in DOMAIN cells : CellStands(cells[k], key, S, k)

\* The window moves from old to window, and s is added to what is left.
LEMMA CellsStep ==
  ASSUME NEW C \in SUBSET Pool, IsFiniteSet(C), IsFiniteSet(DaysOf(C)), NEW s \in Pool \ C,
         NEW key, NEW old, NEW window, KeysOf(key, C) \cap window \subseteq old,
         NEW cells, CellsStand(cells, key, C, old),
         NEW left, DOMAIN left = DOMAIN cells \cap window, \A k \in DOMAIN left : left[k] = cells[k],
         NEW values, DOMAIN values = {k \in window : SlicesAt(key, s, k) # {}},
         \A k \in DOMAIN values : values[k] = Share(key, s, k)
  PROVE  CellsStand(CellsPlus(left, values, Confidence(s)), key, C \cup {s}, window)
<1> DEFINE D == C \cup {s}
           new == CellsPlus(left, values, Confidence(s))
<1>1. /\ DOMAIN new = DOMAIN left \cup DOMAIN values
      /\ \A k \in DOMAIN new :
           new[k] = IF k \notin DOMAIN values THEN left[k]
                    ELSE CellPlus(IF k \in DOMAIN left THEN left[k] ELSE EmptyCell, values[k], Confidence(s))
  BY DEF CellsPlus
<1>2. \A k : k \in KeysOf(key, D) <=> k \in KeysOf(key, C) \/ SlicesAt(key, s, k) # {}
  BY DEF KeysOf, DaysOf, SlicesAt
<1>3. DOMAIN left = KeysOf(key, C) \cap window
  BY DEF CellsStand
<1>4. DOMAIN new = KeysOf(key, D) \cap window
  BY <1>1, <1>2, <1>3
<1>5. ASSUME NEW k \in DOMAIN new PROVE CellStands(new[k], key, D, k)
  <2>1. k \in window
    BY <1>4, <1>5
  <2>2. k \in DOMAIN left => CellStands(left[k], key, C, k)
    BY DEF CellsStand
  <2>3. CASE k \notin DOMAIN values
    <3>1. k \in DOMAIN left /\ new[k] = left[k] /\ SlicesAt(key, s, k) = {}
      BY <1>1, <1>5, <2>1, <2>3
    <3>2. CellStands(left[k], key, C \cup {s}, k)
      BY <2>2, <3>1, CellStays
    <3> QED
      BY <3>1, <3>2
  <2>4. CASE k \in DOMAIN values
    <3> DEFINE c == IF k \in DOMAIN left THEN left[k] ELSE EmptyCell
    <3>1. new[k] = CellPlus(c, Share(key, s, k), Confidence(s)) /\ SlicesAt(key, s, k) # {}
      BY <1>1, <1>5, <2>4
    <3>2. IF k \in KeysOf(key, C) THEN CellStands(c, key, C, k) ELSE c = EmptyCell
      BY <1>3, <2>1, <2>2
    <3> HIDE DEF c
    <3>3. CellStands(CellPlus(c, Share(key, s, k), Confidence(s)), key, C \cup {s}, k)
      BY <3>1, <3>2, CellGrows
    <3> QED
      BY <3>1, <3>3
  <2> QED
    BY <2>3, <2>4
<1> QED
  BY <1>4, <1>5 DEF CellsStand

\* The calendar ends on the latest day that a session ended on.
EndStands(end, S) ==
    /\ S = {} => end = {}
    /\ S # {} => \E e \in Int : /\ end = {e}
                                /\ \E s \in S : e = LastDay(s)
                                /\ \A s \in S : LastDay(s) <= e

CalendarStands(a, S) ==
    /\ {"calendarEnd", "daily", "monthly"} \subseteq DOMAIN a
    /\ EndStands(a.calendarEnd, S)
    /\ CellsStand(a.daily, ByDay, S, CalendarWindow(a.calendarEnd))
    /\ CellsStand(a.monthly, ByMonth, S, MonthWindow(a.calendarEnd))

\* The calendar has moved to end, and what is left of a is in b.
MovesOn(a, b, S, end) ==
    /\ DOMAIN b = DOMAIN a /\ b.calendarEnd = end
    /\ DOMAIN b.daily = DOMAIN a.daily \cap CalendarWindow(end)
    /\ \A k \in DOMAIN b.daily : b.daily[k] = a.daily[k]
    /\ DOMAIN b.monthly = DOMAIN a.monthly \cap MonthWindow(end)
    /\ \A k \in DOMAIN b.monthly : b.monthly[k] = a.monthly[k]
    /\ KeysOf(ByDay, S) \cap CalendarWindow(end) \subseteq CalendarWindow(a.calendarEnd)
    /\ KeysOf(ByMonth, S) \cap MonthWindow(end) \subseteq MonthWindow(a.calendarEnd)

LEMMA MonthIndexIs ==
  /\ \A d \in Int : MonthIndex(d) \in Int
  /\ \A d, e \in Int : d <= e => MonthIndex(d) <= MonthIndex(e)
<1>1. DaysPerMonth \in Nat \ {0}
  BY DEF UnitsAssumption
<1>2. \A k \in Nat \ {0} : \A d, e \in Int : d \div k \in Int /\ (d <= e => d \div k <= e \div k)
  OBVIOUS
<1> QED
  BY <1>1, <1>2 DEF MonthIndex

LEMMA CalendarMoves ==
  ASSUME DurationsRoundedDown,
         NEW C \in SUBSET Pool, NEW s \in Pool \ C, NEW a, CalendarStands(a, C)
  PROVE  \E end : /\ MovesOn(a, UpdateCalendarEnd(a, LastDay(s)), C, end)
                  /\ EndStands(end, C \cup {s})
<1> DEFINE day == LastDay(s)
           b == UpdateCalendarEnd(a, day)
           old == a.calendarEnd
<1>1. day \in Int
  BY SessionEnds
<1>2. ASSUME NEW e \in Int PROVE /\ CalendarWindow({e}) = Window(e, CalendarDays)
                                 /\ MonthWindow({e}) = Window(MonthIndex(e), CalendarMonths)
  BY DEF CalendarWindow, MonthWindow
<1>3. EndStands(old, C)
  BY DEF CalendarStands
<1>4. CASE \E e \in old : day <= e
  <2>1. b = a
    BY <1>4 DEF UpdateCalendarEnd
  <2>2. DOMAIN a.daily \subseteq CalendarWindow(old) /\ DOMAIN a.monthly \subseteq MonthWindow(old)
    BY DEF CalendarStands, CellsStand
  <2>3. MovesOn(a, b, C, old)
    BY <2>1, <2>2 DEF MovesOn
  <2>4. EndStands(old, C \cup {s})
    <3>1. C # {}
      BY <1>3, <1>4 DEF EndStands
    <3>2. PICK e \in Int : old = {e} /\ (\E t \in C : e = LastDay(t)) /\ \A t \in C : LastDay(t) <= e
      BY <1>3, <3>1 DEF EndStands
    <3>3. \A t \in C \cup {s} : LastDay(t) <= e
      BY <1>4, <3>2
    <3> QED
      BY <3>2, <3>3 DEF EndStands
  <2> QED
    BY <2>3, <2>4
<1>5. CASE ~\E e \in old : day <= e
  <2>1. b = [a EXCEPT !.calendarEnd = {day},
                      !.daily = Restrict(@, DOMAIN @ \cap CalendarWindow({day})),
                      !.monthly = Restrict(@, DOMAIN @ \cap MonthWindow({day}))]
    BY <1>5 DEF UpdateCalendarEnd
  <2>2. {"calendarEnd", "daily", "monthly"} \subseteq DOMAIN a
    BY DEF CalendarStands
  <2>3. /\ DOMAIN b = DOMAIN a /\ b.calendarEnd = {day}
        /\ b.daily = Restrict(a.daily, DOMAIN a.daily \cap CalendarWindow({day}))
        /\ b.monthly = Restrict(a.monthly, DOMAIN a.monthly \cap MonthWindow({day}))
    BY <2>1, <2>2
  <2>4. \A t \in C : LastDay(t) \in Int /\ LastDay(t) < day /\ \E e \in Int : old = {e} /\ LastDay(t) <= e /\ e < day
    <3>1. ASSUME NEW t \in C PROVE \E e \in Int : old = {e} /\ LastDay(t) <= e /\ e < day
      BY <1>1, <1>3, <1>5, <3>1 DEF EndStands
    <3>2. ASSUME NEW t \in C PROVE LastDay(t) \in Int
      BY SessionEnds
    <3> QED
      BY <1>1, <3>1, <3>2
  <2>5. ASSUME NEW d \in DaysOf(C)
        PROVE  \E e \in Int : old = {e} /\ d \in Int /\ d <= e /\ e < day
    <3>1. PICK t \in C : d \in DOMAIN DayAllocations(t)
      BY DEF DaysOf
    <3>2. d \in Int /\ d <= LastDay(t)
      BY <3>1, SessionEnds
    <3> QED
      BY <2>4, <3>2
  <2>6. KeysOf(ByDay, C) \cap CalendarWindow({day}) \subseteq CalendarWindow(old)
    <3>1. ASSUME NEW k \in KeysOf(ByDay, C), k \in CalendarWindow({day}) PROVE k \in CalendarWindow(old)
      <4>1. PICK d \in DaysOf(C) : k = ByDay[d]
        BY <3>1 DEF KeysOf
      <4>2. PICK e \in Int : old = {e} /\ d \in Int /\ d <= e /\ e < day
        BY <2>5
      <4>3. k = d
        BY <4>1, <4>2 DEF ByDay
      <4>4. k \in Window(day, CalendarDays) /\ CalendarWindow(old) = Window(e, CalendarDays)
        BY <1>1, <1>2, <3>1, <4>2
      <4>5. CalendarDays \in Nat
        BY DEF UnitsAssumption
      <4>6. k \in Window(e, CalendarDays)
        BY <1>1, <4>2, <4>3, <4>4, <4>5 DEF Window
      <4> QED
        BY <4>4, <4>6
    <3> QED
      BY <3>1
  <2>7. KeysOf(ByMonth, C) \cap MonthWindow({day}) \subseteq MonthWindow(old)
    <3>1. ASSUME NEW k \in KeysOf(ByMonth, C), k \in MonthWindow({day}) PROVE k \in MonthWindow(old)
      <4>1. PICK d \in DaysOf(C) : k = ByMonth[d]
        BY <3>1 DEF KeysOf
      <4>2. PICK e \in Int : old = {e} /\ d \in Int /\ d <= e /\ e < day
        BY <2>5
      <4>3. k = MonthIndex(d)
        BY <4>1, <4>2 DEF ByMonth
      <4> DEFINE l == MonthIndex(e)
                 m == MonthIndex(day)
      <4>4. k \in Window(m, CalendarMonths) /\ MonthWindow(old) = Window(l, CalendarMonths)
        BY <1>1, <1>2, <3>1, <4>2
      <4>5. CalendarMonths \in Nat
        BY DEF UnitsAssumption
      <4>6. k \in Int /\ l \in Int /\ m \in Int /\ k <= l /\ l <= m
        BY <1>1, <4>2, <4>3, MonthIndexIs
      <4> HIDE DEF l, m
      <4>7. k \in Window(l, CalendarMonths)
        BY <4>4, <4>5, <4>6 DEF Window
      <4> QED
        BY <4>4, <4>7
    <3> QED
      BY <3>1
  <2>8. EndStands({day}, C \cup {s})
    <3>1. \A t \in C \cup {s} : LastDay(t) <= day
      BY <1>1, <2>4
    <3> QED
      BY <1>1, <3>1 DEF EndStands
  <2> HIDE DEF b, day, old
  <2>9. MovesOn(a, b, C, {day})
    BY <2>3, <2>6, <2>7 DEF MovesOn, Restrict, old
  <2> QED
    BY <2>8, <2>9 DEF b, day
<1> QED
  BY <1>4, <1>5

LEMMA CalendarOfSum ==
  ASSUME NEW a, NEW s,
         NEW b, b = UpdateCalendarEnd(a, LastDay(s)), {"calendarEnd", "daily", "monthly"} \subseteq DOMAIN b,
         NEW slices, slices = DayAllocations(s),
         NEW days, days = Restrict(slices, DOMAIN slices \cap CalendarWindow(b.calendarEnd)),
         NEW ms, ms = Restrict(Monthly(slices), DOMAIN Monthly(slices) \cap MonthWindow(b.calendarEnd))
  PROVE  /\ {"calendarEnd", "daily", "monthly"} \subseteq DOMAIN Add(a, s)
         /\ Add(a, s).calendarEnd = b.calendarEnd
         /\ Add(a, s).daily = CellsPlus(b.daily, days, Confidence(s))
         /\ Add(a, s).monthly = CellsPlus(b.monthly, ms, Confidence(s))
BY DEF Add, LastDay

\* Cut to a window, the slices of a session are its shares of days and months.
DaysWithin(s, window) == Restrict(DayAllocations(s), DOMAIN DayAllocations(s) \cap window)
MonthsWithin(s, window) == Restrict(Monthly(DayAllocations(s)), DOMAIN Monthly(DayAllocations(s)) \cap window)
Shares(v, key, s, window) ==
    /\ DOMAIN v = {k \in window : SlicesAt(key, s, k) # {}}
    /\ \A k \in DOMAIN v : v[k] = Share(key, s, k)

LEMMA DayShares ==
  ASSUME NEW s \in Pool, NEW window
  PROVE  Shares(DaysWithin(s, window), ByDay, s, window)
<1> DEFINE slices == DayAllocations(s)
           v == DaysWithin(s, window)
<1>1. DOMAIN slices \subseteq Int /\ \A d \in DOMAIN slices : slices[d] \in Nat
  BY DaysGrow, SessionDays
<1>2. DOMAIN v = DOMAIN slices \cap window /\ \A k \in DOMAIN v : v[k] = slices[k]
  BY DEF Restrict, DaysWithin
<1> HIDE DEF v
<1>3. \A k : SlicesAt(ByDay, s, k) = IF k \in DOMAIN slices THEN {k} ELSE {}
  BY <1>1 DEF SlicesAt, ByDay
<1>4. DOMAIN v = {k \in window : SlicesAt(ByDay, s, k) # {}}
  BY <1>2, <1>3
<1>5. ASSUME NEW k \in DOMAIN v PROVE v[k] = Share(ByDay, s, k)
  <2>1. k \in DOMAIN slices /\ v[k] = slices[k]
    BY <1>2, <1>5
  <2>2. Share(ByDay, s, k) = Total(slices, {k})
    BY <1>3, <2>1 DEF Share
  <2> HIDE DEF slices
  <2>3. IsFiniteSet({k}) /\ {k} \ {k} = {} /\ (\A d \in {k} : slices[d] \in Nat) /\ k \in {k}
    BY <1>1, <2>1, FS_Singleton
  <2>4. Total(slices, {k}) = slices[k] + Total(slices, {k} \ {k})
    BY <2>3, TotalWithout
  <2>5. Total(slices, {}) = 0
    BY FS_EmptySet, TotalUnfolds
  <2>6. slices[k] \in Nat /\ Total(slices, {k}) = slices[k] + 0
    BY <2>3, <2>4, <2>5
  <2> QED
    BY <2>1, <2>2, <2>6
<1> QED
  BY <1>4, <1>5 DEF Shares, v

LEMMA MonthShares ==
  ASSUME NEW s \in Pool, NEW window
  PROVE  Shares(MonthsWithin(s, window), ByMonth, s, window)
<1> DEFINE slices == DayAllocations(s)
           v == MonthsWithin(s, window)
           At(k) == {d \in DOMAIN slices : MonthIndex(d) = k}
<1>1. DOMAIN slices \subseteq Int /\ \A d \in DOMAIN slices : slices[d] \in Nat
  BY DaysGrow, SessionDays
<1>2. /\ DOMAIN v = {MonthIndex(d) : d \in DOMAIN slices} \cap window
      /\ \A k \in DOMAIN v : v[k] = SumOver(Restrict(slices, At(k)))
  BY DEF Restrict, Monthly, MonthsWithin
<1> HIDE DEF v
<1>3. \A k : SlicesAt(ByMonth, s, k) = At(k)
  BY <1>1 DEF SlicesAt, ByMonth
<1>4. DOMAIN v = {k \in window : SlicesAt(ByMonth, s, k) # {}}
  <2>1. \A k : k \in {MonthIndex(d) : d \in DOMAIN slices} <=> At(k) # {}
    OBVIOUS
  <2> HIDE DEF At, slices
  <2> QED
    BY <1>2, <1>3, <2>1
<1>5. ASSUME NEW k \in DOMAIN v PROVE v[k] = Share(ByMonth, s, k)
  <2> DEFINE X == At(k)
             r == Restrict(slices, X)
  <2>1. v[k] = Total(r, X)
    BY <1>2, <1>5 DEF SumOver, Total, Restrict
  <2>2. Share(ByMonth, s, k) = Total(slices, X)
    BY <1>3 DEF Share
  <2>3. IsFiniteSet(X)
    <3>1. X = SlicesAt(ByMonth, s, k)
      BY <1>3
    <3> HIDE DEF X
    <3> QED
      BY <3>1, ShareIs
  <2>4. \A d \in X : slices[d] \in Nat /\ r[d] = slices[d]
    BY <1>1 DEF Restrict
  <2> HIDE DEF X, r, slices
  <2>5. Total(r, X) = Total(slices, X)
    BY <2>3, <2>4, TotalAgrees
  <2> QED
    BY <2>1, <2>2, <2>5
<1> QED
  BY <1>4, <1>5 DEF Shares, v

LEMMA CalendarStep ==
  ASSUME DurationsRoundedDown,
         NEW C \in SUBSET Pool, IsFiniteSet(C), IsFiniteSet(DaysOf(C)), NEW s \in Pool \ C,
         NEW a, CalendarStands(a, C)
  PROVE  CalendarStands(Add(a, s), C \cup {s})
<1> DEFINE D == C \cup {s}
           b == UpdateCalendarEnd(a, LastDay(s))
           slices == DayAllocations(s)
           days == Restrict(slices, DOMAIN slices \cap CalendarWindow(b.calendarEnd))
           ms == Restrict(Monthly(slices), DOMAIN Monthly(slices) \cap MonthWindow(b.calendarEnd))
<1>1. PICK end : MovesOn(a, b, C, end) /\ EndStands(end, D)
  BY CalendarMoves
<1>2. {"calendarEnd", "daily", "monthly"} \subseteq DOMAIN b /\ b.calendarEnd = end
  BY <1>1 DEF CalendarStands, MovesOn
<1>3. Shares(days, ByDay, s, CalendarWindow(end))
  <2>1. days = DaysWithin(s, CalendarWindow(end))
    BY <1>2 DEF DaysWithin
  <2> HIDE DEF days
  <2> QED
    BY <2>1, DayShares
<1>4. Shares(ms, ByMonth, s, MonthWindow(end))
  <2>1. ms = MonthsWithin(s, MonthWindow(end))
    BY <1>2 DEF MonthsWithin
  <2> HIDE DEF ms
  <2> QED
    BY <2>1, MonthShares
<1>5. /\ {"calendarEnd", "daily", "monthly"} \subseteq DOMAIN Add(a, s)
      /\ Add(a, s).calendarEnd = end
      /\ Add(a, s).daily = CellsPlus(b.daily, days, Confidence(s))
      /\ Add(a, s).monthly = CellsPlus(b.monthly, ms, Confidence(s))
  <2>1. b = UpdateCalendarEnd(a, LastDay(s)) /\ slices = DayAllocations(s)
    OBVIOUS
  <2>2. /\ days = Restrict(slices, DOMAIN slices \cap CalendarWindow(b.calendarEnd))
        /\ ms = Restrict(Monthly(slices), DOMAIN Monthly(slices) \cap MonthWindow(b.calendarEnd))
    OBVIOUS
  <2> HIDE DEF b, days, ms, slices
  <2> QED
    BY <1>2, <2>1, <2>2, CalendarOfSum
<1> HIDE DEF b, days, ms, slices
<1>6. CellsStand(CellsPlus(b.daily, days, Confidence(s)), ByDay, C \cup {s}, CalendarWindow(end))
  <2>1. CellsStand(a.daily, ByDay, C, CalendarWindow(a.calendarEnd))
    BY DEF CalendarStands
  <2>2. /\ DOMAIN b.daily = DOMAIN a.daily \cap CalendarWindow(end)
        /\ \A k \in DOMAIN b.daily : b.daily[k] = a.daily[k]
        /\ KeysOf(ByDay, C) \cap CalendarWindow(end) \subseteq CalendarWindow(a.calendarEnd)
    BY <1>1 DEF MovesOn
  <2> DEFINE key == ByDay
             window == CalendarWindow(end)
             old == CalendarWindow(a.calendarEnd)
             cells == a.daily
             left == b.daily
  <2>3. /\ KeysOf(key, C) \cap window \subseteq old /\ CellsStand(cells, key, C, old)
        /\ DOMAIN left = DOMAIN cells \cap window /\ \A k \in DOMAIN left : left[k] = cells[k]
        /\ DOMAIN days = {k \in window : SlicesAt(key, s, k) # {}}
        /\ \A k \in DOMAIN days : days[k] = Share(key, s, k)
    BY <1>3, <2>1, <2>2 DEF Shares
  <2> HIDE DEF key, window, old, cells, left
  <2>4. CellsStand(CellsPlus(left, days, Confidence(s)), key, C \cup {s}, window)
    BY <2>3, CellsStep
  <2> QED
    BY <2>4 DEF key, window, left
<1>7. CellsStand(CellsPlus(b.monthly, ms, Confidence(s)), ByMonth, C \cup {s}, MonthWindow(end))
  <2>1. CellsStand(a.monthly, ByMonth, C, MonthWindow(a.calendarEnd))
    BY DEF CalendarStands
  <2>2. /\ DOMAIN b.monthly = DOMAIN a.monthly \cap MonthWindow(end)
        /\ \A k \in DOMAIN b.monthly : b.monthly[k] = a.monthly[k]
        /\ KeysOf(ByMonth, C) \cap MonthWindow(end) \subseteq MonthWindow(a.calendarEnd)
    BY <1>1 DEF MovesOn
  <2> DEFINE key == ByMonth
             window == MonthWindow(end)
             old == MonthWindow(a.calendarEnd)
             cells == a.monthly
             left == b.monthly
  <2>3. /\ KeysOf(key, C) \cap window \subseteq old /\ CellsStand(cells, key, C, old)
        /\ DOMAIN left = DOMAIN cells \cap window /\ \A k \in DOMAIN left : left[k] = cells[k]
        /\ DOMAIN ms = {k \in window : SlicesAt(key, s, k) # {}}
        /\ \A k \in DOMAIN ms : ms[k] = Share(key, s, k)
    BY <1>4, <2>1, <2>2 DEF Shares
  <2> HIDE DEF key, window, old, cells, left
  <2>4. CellsStand(CellsPlus(left, ms, Confidence(s)), key, C \cup {s}, window)
    BY <2>3, CellsStep
  <2> QED
    BY <2>4 DEF key, window, left
<1> QED
  BY <1>1, <1>5, <1>6, <1>7 DEF CalendarStands

LEMMA CalendarHolds ==
  ASSUME DurationsRoundedDown, NEW q \in Seq(Pool), Sorted(q)
  PROVE  /\ IsFiniteSet(DaysOf(ToSet(q)))
         /\ CalendarStands(Accumulated(EmptyDashboard, q), ToSet(q))
<1> DEFINE Holds(a, n) == IsFiniteSet(DaysOf(Firsts(q, n))) /\ CalendarStands(a, Firsts(q, n))
<1>1. PICK f : Accumulates(f, EmptyDashboard, q, Len(q))
  <2>1. Len(q) \in Nat
    OBVIOUS
  <2> QED
    BY <2>1, AccumulationExists
<1>2. Holds(EmptyDashboard, 0)
  <2> DEFINE a == EmptyDashboard
  <2>1. /\ {"calendarEnd", "daily", "monthly"} \subseteq DOMAIN a
        /\ a.calendarEnd = {} /\ DOMAIN a.daily = {} /\ DOMAIN a.monthly = {}
    BY DEF EmptyDashboard
  <2> HIDE DEF a
  <2>2. Firsts(q, 0) = {} /\ DaysOf({}) = {} /\ IsFiniteSet({})
    BY FS_EmptySet DEF Firsts, DaysOf
  <2>3. \A key : KeysOf(key, {}) = {}
    BY <2>2 DEF KeysOf
  <2>4. CalendarStands(a, {})
    BY <2>1, <2>3 DEF CalendarStands, EndStands, CellsStand
  <2> QED
    BY <2>2, <2>4 DEF a
<1>3. ASSUME NEW n \in 0..Len(q), n # 0, Holds(f[n - 1], n - 1)
      PROVE  Holds(f[n], n)
  <2> DEFINE a == f[n - 1]
             s == q[n]
             C == Firsts(q, n - 1)
  <2>1. f[n] = Add(a, s)
    BY <1>1, <1>3 DEF Accumulates
  <2>2. s \in Pool \ C /\ Firsts(q, n) = C \cup {s}
    BY <1>3, FirstsGrow
  <2>3. C \in SUBSET Pool /\ IsFiniteSet(C)
    <3>1. n - 1 \in 0..Len(q)
      BY <1>3
    <3> QED
      BY <3>1, FirstsFinite
  <2>4. IsFiniteSet(DaysOf(C)) /\ CalendarStands(a, C)
    BY <1>3
  <2> HIDE DEF a, s, C
  <2>5. CalendarStands(Add(a, s), C \cup {s})
    BY <2>2, <2>3, <2>4, CalendarStep
  <2>6. IsFiniteSet(DaysOf(C \cup {s}))
    BY <2>2, <2>4, DaysGrow
  <2> QED
    BY <2>1, <2>2, <2>5, <2>6
<1> DEFINE T == {n \in 0..Len(q) : Holds(f[n], n)}
<1> HIDE DEF Holds
<1>4. /\ Len(q) \in Nat /\ 0 \in T /\ \A n \in 1..Len(q) : n - 1 \in T => n \in T
  <2>1. f[0] = EmptyDashboard
    BY <1>1 DEF Accumulates
  <2>2. ASSUME NEW n \in 1..Len(q), n - 1 \in T PROVE n \in T
    <3>1. n \in 0..Len(q) /\ n # 0
      OBVIOUS
    <3> QED
      BY <1>3, <2>2, <3>1
  <2> QED
    BY <1>2, <2>1, <2>2
<1>5. Holds(f[Len(q)], Len(q))
  <2> DEFINE m == Len(q)
  <2>1. m \in T
    <3> HIDE DEF T, m
    <3>1. m \in Nat /\ \A n \in 1..m : n - 1 \in T => n \in T
      BY <1>4 DEF m
    <3> QED
      BY <1>4, <3>1, CountingUp
  <2> QED
    BY <2>1
<1>6. Accumulated(EmptyDashboard, q) = f[Len(q)] /\ Firsts(q, Len(q)) = ToSet(q)
  <2>1. Len(q) \in Nat /\ Len(q) \in 0..Len(q)
    OBVIOUS
  <2> QED
    BY <1>1, <2>1, AccumulatedIs, FirstsFinite
<1> QED
  BY <1>5, <1>6 DEF Holds

\* What the dashboard shows of a cell.
CellIs(key, S, k) ==
    [minutes |-> SecondsAt(key, S, k) \div SecondsPerMinute,
     sessions |-> Cardinality(Touching(key, S, k)),
     confidence |-> Min(Confidences(key, S, k))]

LEMMA CellShown ==
  ASSUME NEW C \in SUBSET Pool, IsFiniteSet(C), NEW key, NEW k, NEW c, CellStands(c, key, C, k)
  PROVE  [minutes |-> c.seconds \div SecondsPerMinute, sessions |-> c.sessions, confidence |-> c.confidence]
           = CellIs(key, C, k)
<1>1. Confidences(key, C, k) \in SUBSET Int
  BY TouchingIs
<1>2. Min(Confidences(key, C, k)) = c.confidence
  BY <1>1, MinIs DEF CellStands
<1> QED
  BY <1>2 DEF CellStands, CellIs

LEMMA DaySumIs ==
  ASSUME NEW C \in SUBSET Pool, IsFiniteSet(C), IsFiniteSet(DaysOf(C)), NEW key, NEW k,
         NEW days, days = DaysAt(key, C, k)
  PROVE  SumOver([d \in days |-> SecondsOn(C, d)]) = SecondsAt(key, C, k)
<1> DEFINE w == [d \in days |-> SecondsOn(C, d)]
           v == DaySeconds(C)
<1>1. SumOver(w) = Total(w, days)
  BY DEF SumOver, Total
<1>2. IsFiniteSet(days) /\ days \in SUBSET Int
  BY DaysAreFinite
<1>3. \A d \in days : v[d] \in Nat /\ w[d] = v[d]
  BY <1>2, SecondsOnIs DEF DaySeconds
<1> HIDE DEF w, v
<1>4. Total(w, days) = Total(v, days)
  BY <1>2, <1>3, TotalAgrees
<1> QED
  BY <1>1, <1>4 DEF w, v, SecondsAt

\* The cells that CalendarIsExact compares with.
LEMMA DayCells ==
  ASSUME NEW C \in SUBSET Pool, IsFiniteSet(C), IsFiniteSet(DaysOf(C))
  PROVE  LET Day(d) == d
         IN  /\ DOMAIN CellOf(C, Day) = KeysOf(ByDay, C)
             /\ \A k \in KeysOf(ByDay, C) : CellOf(C, Day)[k] = CellIs(ByDay, C, k)
<1> DEFINE Day(d) == d
<1>1. DaysOf(C) \in SUBSET Int
  BY DaysAreFinite
<1>2. {d : d \in DaysOf(C)} = KeysOf(ByDay, C)
  BY <1>1 DEF KeysOf, ByDay
<1>3. ASSUME NEW k PROVE {d \in DaysOf(C) : d = k} = DaysAt(ByDay, C, k)
  BY <1>1 DEF DaysAt, ByDay
<1>4. ASSUME NEW k
      PROVE  {s \in C : DOMAIN DayAllocations(s) \cap DaysAt(ByDay, C, k) # {}} = Touching(ByDay, C, k)
  BY DEF Touching, SlicesAt, DaysAt, DaysOf
<1>5. DOMAIN CellOf(C, Day) = KeysOf(ByDay, C)
  BY <1>2 DEF CellOf
<1>6. ASSUME NEW k \in KeysOf(ByDay, C) PROVE CellOf(C, Day)[k] = CellIs(ByDay, C, k)
  <2> DEFINE days == {d \in DaysOf(C) : d = k}
             touching == {s \in C : DOMAIN DayAllocations(s) \cap days # {}}
  <2>1. CellOf(C, Day)[k] = [minutes |-> SumOver([d \in days |-> SecondsOn(C, d)]) \div SecondsPerMinute,
                             sessions |-> Cardinality(touching),
                             confidence |-> Min({Confidence(s) : s \in touching})]
    BY <1>2, <1>6 DEF CellOf
  <2>2. days = DaysAt(ByDay, C, k)
    BY <1>3
  <2>3. touching = Touching(ByDay, C, k)
    BY <1>4, <2>2
  <2> HIDE DEF days, touching
  <2>4. SumOver([d \in days |-> SecondsOn(C, d)]) = SecondsAt(ByDay, C, k)
    BY <2>2, DaySumIs
  <2>5. {Confidence(s) : s \in touching} = Confidences(ByDay, C, k)
    BY <2>3 DEF Confidences
  <2> QED
    BY <2>1, <2>3, <2>4, <2>5 DEF CellIs
<1> QED
  BY <1>5, <1>6

LEMMA MonthCells ==
  ASSUME NEW C \in SUBSET Pool, IsFiniteSet(C), IsFiniteSet(DaysOf(C))
  PROVE  /\ DOMAIN CellOf(C, MonthIndex) = KeysOf(ByMonth, C)
         /\ \A k \in KeysOf(ByMonth, C) : CellOf(C, MonthIndex)[k] = CellIs(ByMonth, C, k)
<1>1. DaysOf(C) \in SUBSET Int
  BY DaysAreFinite
<1>2. {MonthIndex(d) : d \in DaysOf(C)} = KeysOf(ByMonth, C)
  BY <1>1 DEF KeysOf, ByMonth
<1>3. ASSUME NEW k PROVE {d \in DaysOf(C) : MonthIndex(d) = k} = DaysAt(ByMonth, C, k)
  BY <1>1 DEF DaysAt, ByMonth
<1>4. ASSUME NEW k
      PROVE  {s \in C : DOMAIN DayAllocations(s) \cap DaysAt(ByMonth, C, k) # {}} = Touching(ByMonth, C, k)
  BY DEF Touching, SlicesAt, DaysAt, DaysOf
<1>5. DOMAIN CellOf(C, MonthIndex) = KeysOf(ByMonth, C)
  BY <1>2 DEF CellOf
<1>6. ASSUME NEW k \in KeysOf(ByMonth, C) PROVE CellOf(C, MonthIndex)[k] = CellIs(ByMonth, C, k)
  <2> DEFINE days == {d \in DaysOf(C) : MonthIndex(d) = k}
             touching == {s \in C : DOMAIN DayAllocations(s) \cap days # {}}
  <2>1. CellOf(C, MonthIndex)[k] = [minutes |-> SumOver([d \in days |-> SecondsOn(C, d)]) \div SecondsPerMinute,
                             sessions |-> Cardinality(touching),
                             confidence |-> Min({Confidence(s) : s \in touching})]
    BY <1>2, <1>6 DEF CellOf
  <2>2. days = DaysAt(ByMonth, C, k)
    BY <1>3
  <2>3. touching = Touching(ByMonth, C, k)
    BY <1>4, <2>2
  <2> HIDE DEF days, touching
  <2>4. SumOver([d \in days |-> SecondsOn(C, d)]) = SecondsAt(ByMonth, C, k)
    BY <2>2, DaySumIs
  <2>5. {Confidence(s) : s \in touching} = Confidences(ByMonth, C, k)
    BY <2>3 DEF Confidences
  <2> QED
    BY <2>1, <2>3, <2>4, <2>5 DEF CellIs
<1> QED
  BY <1>5, <1>6

\* Shown through another window, cells that stand agree with what they should
\* tell, in every key of both windows.
LEMMA CellsAgree ==
  ASSUME NEW C \in SUBSET Pool, IsFiniteSet(C), NEW key, NEW window, NEW shown,
         NEW cells, CellsStand(cells, key, C, window),
         NEW g, DOMAIN g = KeysOf(key, C), \A k \in KeysOf(key, C) : g[k] = CellIs(key, C, k),
         NEW K, K \subseteq window, \A k \in K : k \in shown \/ k \notin DOMAIN g
  PROVE  AgreeOn(Shown(cells, shown), g, K)
<1> DEFINE f == Shown(cells, shown)
<1>1. /\ DOMAIN f = DOMAIN cells \cap shown
      /\ \A k \in DOMAIN f : f[k] = [minutes |-> cells[k].seconds \div SecondsPerMinute,
                                     sessions |-> cells[k].sessions, confidence |-> cells[k].confidence]
  BY DEF Shown
<1>2. DOMAIN cells = KeysOf(key, C) \cap window /\ \A k \in DOMAIN cells : CellStands(cells[k], key, C, k)
  BY DEF CellsStand
<1> HIDE DEF f
<1>3. ASSUME NEW k \in K PROVE k \in DOMAIN f <=> k \in DOMAIN g
  BY <1>1, <1>2
<1>4. ASSUME NEW k \in DOMAIN f PROVE f[k] = g[k]
  <2>1. k \in KeysOf(key, C) /\ CellStands(cells[k], key, C, k)
    BY <1>1, <1>2
  <2> DEFINE c == cells[k]
  <2>2. CellStands(c, key, C, k) /\ f[k] = [minutes |-> c.seconds \div SecondsPerMinute,
                                            sessions |-> c.sessions, confidence |-> c.confidence]
    BY <1>1, <2>1
  <2> HIDE DEF c
  <2>3. f[k] = CellIs(key, C, k)
    BY <2>2, CellShown
  <2> QED
    BY <2>1, <2>3
<1> QED
  BY <1>3, <1>4 DEF AgreeOn, f

\* Every day and month that is shown and in the calendar of the latest local day
\* tells all that the sessions spent on it, and none that they touched is
\* missing, though the calendar moves forward while sessions arrive: for any sessions whose stored length is the one reconstruction gave
\* them, rounded down, in any time zones.
THEOREM CalendarTellsAll ==
  ASSUME DurationsRoundedDown
  PROVE  Spec => []CalendarIsExact
<1>1. IInv /\ AccumulationStands => CalendarIsExact
  <2> DEFINE latest == {Max({Local(s, ObservedEnd(s)) : s \in Counted})}
             Day(d) == d
  <2> SUFFICES ASSUME IInv, AccumulationStands, NEW a \in answer, Ready(a)
               PROVE  /\ AgreeOn(a.daily, CellOf(Counted, Day),
                                 CalendarWindow(latest) \cap Window(a.lastDay, CalendarDays))
                      /\ AgreeOn(a.monthly, CellOf(Counted, MonthIndex),
                                 MonthWindow(latest) \cap ShownMonths(a.firstDay, a.lastDay))
    BY DEF CalendarIsExact
  <2> DEFINE e == Accumulated(EmptyDashboard, added)
  <2>1. a = Finish(e)
    BY DEF AccumulationStands, Ready
  <2>2. /\ a.daily = Shown(e.daily, Window(a.lastDay, CalendarDays))
        /\ a.monthly = Shown(e.monthly, ShownMonths(a.firstDay, a.lastDay))
    <3> DEFINE firstDay == (CHOOSE o \in e.first : TRUE)[2]
               lastDay == (CHOOSE o \in e.last : TRUE)[2]
    <3> HIDE DEF e
    <3>1. /\ Finish(e).firstDay = firstDay /\ Finish(e).lastDay = lastDay
          /\ Finish(e).daily = Shown(e.daily, Window(lastDay, CalendarDays))
          /\ Finish(e).monthly = Shown(e.monthly, ShownMonths(firstDay, lastDay))
      BY DEF Finish
    <3> HIDE DEF firstDay, lastDay
    <3> QED
      BY <2>1, <3>1
  <2>3. /\ added \in Seq(Pool) /\ Sorted(added) /\ Counted = ToSet(added)
    BY DEF IInv, AddedStands, Counted
  <2>4. IsFiniteSet(DaysOf(Counted)) /\ CalendarStands(e, Counted)
    BY <2>3, CalendarHolds
  <2>5. Counted \in SUBSET Pool /\ IsFiniteSet(Counted)
    <3>1. Len(added) \in 0..Len(added)
      BY <2>3
    <3> QED
      BY <2>3, <3>1, FirstsFinite
  <2> HIDE DEF e
  <2>6. /\ DOMAIN CellOf(Counted, Day) = KeysOf(ByDay, Counted)
        /\ \A k \in KeysOf(ByDay, Counted) : CellOf(Counted, Day)[k] = CellIs(ByDay, Counted, k)
    BY <2>4, <2>5, DayCells
  <2>7. /\ DOMAIN CellOf(Counted, MonthIndex) = KeysOf(ByMonth, Counted)
        /\ \A k \in KeysOf(ByMonth, Counted) : CellOf(Counted, MonthIndex)[k] = CellIs(ByMonth, Counted, k)
    BY <2>4, <2>5, MonthCells
  <2> DEFINE g == CellOf(Counted, Day)
             h == CellOf(Counted, MonthIndex)
  <2>8. CASE Counted = {}
    <3>1. KeysOf(ByDay, Counted) = {} /\ KeysOf(ByMonth, Counted) = {}
      BY <2>8 DEF KeysOf, DaysOf
    <3>2. DOMAIN e.daily = {} /\ DOMAIN e.monthly = {}
      BY <2>4, <3>1 DEF CalendarStands, CellsStand
    <3>3. DOMAIN a.daily = {} /\ DOMAIN a.monthly = {} /\ DOMAIN g = {} /\ DOMAIN h = {}
      BY <2>2, <2>6, <2>7, <3>1, <3>2 DEF Shown
    <3> HIDE DEF g, h, latest
    <3>4. AgreeOn(a.daily, g, CalendarWindow(latest) \cap Window(a.lastDay, CalendarDays))
      BY <3>3 DEF AgreeOn
    <3>5. AgreeOn(a.monthly, h, MonthWindow(latest) \cap ShownMonths(a.firstDay, a.lastDay))
      BY <3>3 DEF AgreeOn
    <3> QED
      BY <3>4, <3>5 DEF g, h, latest
  <2>9. CASE Counted # {}
    <3>1. latest = e.calendarEnd
      <4>1. PICK day \in Int : /\ e.calendarEnd = {day}
                               /\ \E s \in Counted : day = LastDay(s)
                               /\ \A s \in Counted : LastDay(s) <= day
        BY <2>4, <2>9 DEF CalendarStands, EndStands
      <4> DEFINE T == {Local(s, ObservedEnd(s)) : s \in Counted}
      <4>2. T \in SUBSET Int /\ day \in T /\ \A d \in T : d <= day
        BY <2>5, <4>1, SessionEnds DEF LastDay
      <4> HIDE DEF T
      <4>3. Max(T) = day
        BY <4>2, MaxIs
      <4> QED
        BY <4>1, <4>3 DEF T
    <3> HIDE DEF g, h, latest
    <3>2. AgreeOn(a.daily, g, CalendarWindow(latest) \cap Window(a.lastDay, CalendarDays))
      <4> DEFINE window == CalendarWindow(latest)
                 shown == Window(a.lastDay, CalendarDays)
                 K == window \cap shown
                 cells == e.daily
      <4>1. CellsStand(cells, ByDay, Counted, window)
        BY <2>4, <3>1 DEF CalendarStands
      <4>2. DOMAIN g = KeysOf(ByDay, Counted) /\ \A k \in KeysOf(ByDay, Counted) : g[k] = CellIs(ByDay, Counted, k)
        BY <2>6 DEF g
      <4>3. K \subseteq window /\ \A k \in K : k \in shown \/ k \notin DOMAIN g
        OBVIOUS
      <4>4. a.daily = Shown(cells, shown)
        BY <2>2
      <4> HIDE DEF window, shown, K, cells
      <4>5. AgreeOn(Shown(cells, shown), g, K)
        BY <2>5, <4>1, <4>2, <4>3, CellsAgree
      <4> QED
        BY <4>4, <4>5 DEF window, shown, K
    <3>3. AgreeOn(a.monthly, h, MonthWindow(latest) \cap ShownMonths(a.firstDay, a.lastDay))
      <4> DEFINE window == MonthWindow(latest)
                 shown == ShownMonths(a.firstDay, a.lastDay)
                 K == window \cap shown
                 cells == e.monthly
      <4>1. CellsStand(cells, ByMonth, Counted, window)
        BY <2>4, <3>1 DEF CalendarStands
      <4>2. DOMAIN h = KeysOf(ByMonth, Counted) /\ \A k \in KeysOf(ByMonth, Counted) : h[k] = CellIs(ByMonth, Counted, k)
        BY <2>7 DEF h
      <4>3. K \subseteq window /\ \A k \in K : k \in shown \/ k \notin DOMAIN h
        OBVIOUS
      <4>4. a.monthly = Shown(cells, shown)
        BY <2>2
      <4> HIDE DEF window, shown, K, cells
      <4>5. AgreeOn(Shown(cells, shown), h, K)
        BY <2>5, <4>1, <4>2, <4>3, CellsAgree
      <4> QED
        BY <4>4, <4>5 DEF window, shown, K
    <3> QED
      BY <3>2, <3>3 DEF g, h, latest
  <2> QED
    BY <2>8, <2>9
<1> QED
  BY <1>1, InitInv, InvStep, InitAccumulation, AccumulationStep, PTL DEF Spec
=============================================================================
