------------------------- MODULE ShardStore_proofs -------------------------
(***************************************************************************)
(* Proofs about ShardStore, for any devices, rows and bounds.              *)
(*                                                                         *)
(* The argument for RowsStay: a tombstone is a copy, and no write of       *)
(* isDeleted has a number above the last (Sound), so that a shard without  *)
(* a copy is not marked; sync brings no verdict that no replica had; and a *)
(* copy-on-write marks only a shard below the one it writes to, unless a   *)
(* pointer fell in between.  NoGapUnlessOvertaken needs the types only: a  *)
(* pointer, a probe or a row goes at most one shard beyond one that holds  *)
(* rows.                                                                   *)
(***************************************************************************)
EXTENDS ShardStore, TLAPS, WellFoundedInduction

\* A copy marked deleted is a copy, and its mark is no later than the last.
Sound ==
  \A r \in Replicas : \A i \in Indexes : \A x \in Rows :
    /\ copies[r][i][x].dead => copies[r][i][x].there
    /\ copies[r][i][x].flips <= lastFlip[i][x]

IInv == TypeOK /\ Sound

Copy == [there : BOOLEAN, dead : BOOLEAN, flips : Nat]

-----------------------------------------------------------------------------
(* What the operators return.                                               *)

\* A bounded nonempty set of numbers has a largest one.
LEMMA LargestExists ==
  ASSUME NEW n \in Nat, NEW S \in SUBSET (0..n), S # {}
  PROVE  \E m \in S : \A k \in S : k <= m
<1> DEFINE T == {n - k : k \in S}
<1>1. T \subseteq Nat /\ T # {}
  <2>1. \A k \in S : k \in 0..n  OBVIOUS
  <2>2. \A k \in S : n - k \in Nat  BY <2>1
  <2> QED  BY <2>2
<1>2. PICK t \in T : \A u \in T : ~(<<u, t>> \in OpToRel(<, Nat))
  BY <1>1, WFMin, NatLessThanWellFounded, Zenon
<1>3. \A u \in T : ~(u < t)
  <2> TAKE u \in T
  <2>1. u \in Nat /\ t \in Nat  BY <1>1
  <2>2. u < t => <<u, t>> \in OpToRel(<, Nat)  BY <2>1 DEF OpToRel
  <2> QED  BY <2>2, <1>2
<1>4. PICK m \in S : t = n - m
  BY <1>2
<1>5. \A k \in S : ~(n - k < n - m)
  BY <1>3, <1>4
<1> QED  BY <1>5

\* The newest copy a device sees is one it sees.
LEMMA NewestIsVisible ==
  ASSUME TypeOK, NEW d \in Devices, NEW x \in Rows, VisibleAt(d, x) # {}
  PROVE  /\ Newest(d, x) \in Indexes /\ Newest(d, x) <= Active(d)
         /\ copies[d][Newest(d, x)][x].there
<1>1. Active(d) \in Indexes
  BY DEF TypeOK, Active, Replicas
<1>2. MaxIndex \in Nat
  BY ShardAssumption
<1>3. Active(d) \in Nat /\ VisibleAt(d, x) \in SUBSET (0..Active(d))
  BY <1>1, <1>2 DEF Indexes, VisibleAt
<1>4. \E m \in VisibleAt(d, x) : \A k \in VisibleAt(d, x) : k <= m
  BY <1>3, LargestExists
<1>5. Newest(d, x) \in VisibleAt(d, x)
  BY <1>4 DEF Newest
<1> QED  BY <1>1, <1>2, <1>5 DEF VisibleAt, Indexes

\* A sync round leaves every copy, brings none that no replica had, and no mark either.
LEMMA SyncedCopies ==
  ASSUME IInv, NEW d \in Devices, NEW shards, SyncShards(d, shards), UNCHANGED lastFlip
  PROVE  /\ copies' \in [Replicas -> [Indexes -> [Rows -> Copy]]]
         /\ Sound'
         /\ \A r \in Replicas : \A i \in Indexes : \A x \in Rows :
              /\ copies[r][i][x].there => copies'[r][i][x].there
              /\ copies'[r][i][x].there => \E q \in Replicas : copies[q][i][x].there
              /\ \E q \in Replicas :
                   /\ copies'[r][i][x].dead = copies[q][i][x].dead
                   /\ copies'[r][i][x].flips = copies[q][i][x].flips
<1> DEFINE Both(i) == [x \in Rows |-> Merged(copies[d][i][x], copies[Relay][i][x])]
<1>1. d \in Replicas /\ Relay \in Replicas
  BY DEF Replicas
<1>2. \A r \in Replicas : \A i \in Indexes : \A x \in Rows : copies[r][i][x] \in Copy
  BY DEF IInv, TypeOK, Copy
<1>3. \A i \in Indexes : \A x \in Rows :
        /\ Both(i)[x] \in Copy
        /\ Both(i)[x].there <=> copies[d][i][x].there \/ copies[Relay][i][x].there
        /\ \/ /\ Both(i)[x].dead = copies[d][i][x].dead
              /\ Both(i)[x].flips = copies[d][i][x].flips
           \/ /\ Both(i)[x].dead = copies[Relay][i][x].dead
              /\ Both(i)[x].flips = copies[Relay][i][x].flips
  BY <1>1, <1>2 DEF Merged, Copy
<1>4. \A r \in Replicas : \A i \in Indexes :
        \/ copies'[r][i] = copies[r][i]
        \/ r \in {d, Relay} /\ copies'[r][i] = Both(i)
  BY <1>1 DEF SyncShards, IInv, TypeOK
<1>5. copies' \in [Replicas -> [Indexes -> [Rows -> Copy]]]
  <2>1. \A i \in Indexes : Both(i) \in [Rows -> Copy]
    BY <1>3
  <2>2. \A r \in Replicas : copies[r] \in [Indexes -> [Rows -> Copy]]
    BY DEF IInv, TypeOK, Copy
  <2>3. \A r \in Replicas : [i \in Indexes |-> IF i \in shards THEN Both(i) ELSE copies[r][i]]
          \in [Indexes -> [Rows -> Copy]]
    BY <2>1, <2>2
  <2> QED  BY <1>1, <2>2, <2>3 DEF SyncShards, IInv, TypeOK, Copy
<1> HIDE DEF Both
<1>6. ASSUME NEW r \in Replicas, NEW i \in Indexes, NEW x \in Rows
      PROVE  /\ copies[r][i][x].there => copies'[r][i][x].there
             /\ copies'[r][i][x].there => \E q \in Replicas : copies[q][i][x].there
             /\ \E q \in Replicas :
                   /\ copies'[r][i][x].dead = copies[q][i][x].dead
                   /\ copies'[r][i][x].flips = copies[q][i][x].flips
             /\ copies'[r][i][x].dead => copies'[r][i][x].there
             /\ copies'[r][i][x].flips <= lastFlip[i][x]
  <2>1. CASE copies'[r][i] = copies[r][i]
    BY <2>1 DEF IInv, Sound
  <2>2. CASE r \in {d, Relay} /\ copies'[r][i] = Both(i)
    <3>1. copies'[r][i][x] = Both(i)[x] /\ d \in Replicas /\ Relay \in Replicas
      BY <2>2, <1>1
    <3>2. \A q \in {d, Relay} :
            /\ copies[q][i][x].dead => copies[q][i][x].there
            /\ copies[q][i][x].flips <= lastFlip[i][x]
      BY <3>1 DEF IInv, Sound
    <3>3. /\ copies'[r][i][x].there <=> copies[d][i][x].there \/ copies[Relay][i][x].there
          /\ \E q \in {d, Relay} :
               /\ copies'[r][i][x].dead = copies[q][i][x].dead
               /\ copies'[r][i][x].flips = copies[q][i][x].flips
      BY <3>1, <1>3
    <3>4. PICK q \in {d, Relay} :
               /\ copies'[r][i][x].dead = copies[q][i][x].dead
               /\ copies'[r][i][x].flips = copies[q][i][x].flips
      BY <3>3
    <3>5. q \in Replicas
      BY <3>1
    <3>6. /\ copies[r][i][x].there => copies'[r][i][x].there
          /\ copies'[r][i][x].there => \E p \in Replicas : copies[p][i][x].there
      BY <2>2, <3>1, <3>3
    <3>7. copies'[r][i][x].dead => copies'[r][i][x].there
      BY <3>2, <3>3, <3>4
    <3>8. copies'[r][i][x].flips <= lastFlip[i][x]
      BY <3>2, <3>4
    <3> QED  BY <3>4, <3>5, <3>6, <3>7, <3>8
  <2> QED  BY <2>1, <2>2, <1>4, Zenon
<1> QED  BY <1>5, <1>6 DEF Sound

\* Replacing one copy.
LEMMA OneCopy ==
  ASSUME NEW before \in [Replicas -> [Indexes -> [Rows -> Copy]]],
         NEW d \in Replicas, NEW i \in Indexes, NEW x \in Rows, NEW copy \in Copy
  PROVE  LET after == [before EXCEPT ![d][i][x] = copy] IN
         /\ after \in [Replicas -> [Indexes -> [Rows -> Copy]]]
         /\ after[d][i][x] = copy
         /\ \A r \in Replicas : \A j \in Indexes : \A y \in Rows :
              ~(r = d /\ j = i /\ y = x) => after[r][j][y] = before[r][j][y]
<1> DEFINE row == [before[d][i] EXCEPT ![x] = copy]
           shard == [before[d] EXCEPT ![i] = row]
           after == [before EXCEPT ![d] = shard]
<1>1. /\ row \in [Rows -> Copy] /\ row[x] = copy
      /\ \A y \in Rows : y # x => row[y] = before[d][i][y]
  OBVIOUS
<1> HIDE DEF row
<1>2. /\ shard \in [Indexes -> [Rows -> Copy]] /\ shard[i] = row
      /\ \A j \in Indexes : j # i => shard[j] = before[d][j]
  BY <1>1
<1> HIDE DEF shard
<1>3. /\ after \in [Replicas -> [Indexes -> [Rows -> Copy]]] /\ after[d] = shard
      /\ \A r \in Replicas : r # d => after[r] = before[r]
  BY <1>2
<1>4. after = [before EXCEPT ![d][i][x] = copy]
  BY DEF shard, row
<1> HIDE DEF after
<1>5. /\ after[d][i][x] = copy
      /\ \A r \in Replicas : \A j \in Indexes : \A y \in Rows :
              ~(r = d /\ j = i /\ y = x) => after[r][j][y] = before[r][j][y]
  BY <1>1, <1>2, <1>3
<1> QED  BY <1>3, <1>4, <1>5

\* A marked copy replaces one copy.
LEMMA MarkedCopies ==
  ASSUME IInv, NEW d \in Devices, NEW x \in Rows, NEW to \in Indexes, NEW dead \in BOOLEAN,
         Mark(d, to, x, dead)
  PROVE  /\ copies' \in [Replicas -> [Indexes -> [Rows -> Copy]]]
         /\ lastFlip' \in [Indexes -> [Rows -> Nat]]
         /\ \A i \in Indexes : \A y \in Rows :
              lastFlip'[i][y] = IF i = to /\ y = x THEN lastFlip[i][y] + 1 ELSE lastFlip[i][y]
         /\ \A r \in Replicas : \A i \in Indexes : \A y \in Rows :
              copies'[r][i][y] = IF r = d /\ i = to /\ y = x THEN Marked(to, x, dead)
                                 ELSE copies[r][i][y]
<1>1. d \in Replicas
  BY DEF Replicas
<1>2. /\ copies \in [Replicas -> [Indexes -> [Rows -> Copy]]]
      /\ lastFlip \in [Indexes -> [Rows -> Nat]]
  BY DEF IInv, TypeOK, Copy
<1>3. lastFlip[to][x] + 1 \in Nat
  BY <1>2
<1>4. Marked(to, x, dead) \in Copy
  BY <1>3 DEF Marked, Copy
<1>5. copies' = [copies EXCEPT ![d][to][x] = Marked(to, x, dead)]
  BY DEF Mark
<1>6. lastFlip' = [lastFlip EXCEPT ![to][x] = @ + 1]
  BY DEF Mark
<1>7. /\ lastFlip' \in [Indexes -> [Rows -> Nat]]
      /\ \A i \in Indexes : \A y \in Rows :
           lastFlip'[i][y] = IF i = to /\ y = x THEN lastFlip[i][y] + 1 ELSE lastFlip[i][y]
  BY <1>2, <1>3, <1>6
<1>8. copies' \in [Replicas -> [Indexes -> [Rows -> Copy]]]
  BY <1>1, <1>2, <1>4, <1>5
<1>9. \A r \in Replicas : \A i \in Indexes : \A y \in Rows :
        copies'[r][i][y] = IF r = d /\ i = to /\ y = x THEN Marked(to, x, dead)
                           ELSE copies[r][i][y]
  BY <1>1, <1>2, <1>5
<1> QED  BY <1>7, <1>8, <1>9

\* A plain write makes a copy of one that may not be there, and changes no mark.
Stored(copy) == [copy EXCEPT !.there = TRUE]

LEMMA StoredCopy ==
  ASSUME NEW copy \in Copy
  PROVE  /\ Stored(copy) \in Copy /\ Stored(copy).there
         /\ Stored(copy).dead = copy.dead /\ Stored(copy).flips = copy.flips
BY DEF Stored, Copy

\* Copy-on-write makes a copy in the active shard, with the mark it had there, and marks
\* the old copy if that is in another shard.
Moved(d, x, from, to) ==
  /\ copies' \in [Replicas -> [Indexes -> [Rows -> Copy]]]
  /\ lastFlip' \in [Indexes -> [Rows -> Nat]]
  /\ \A i \in Indexes : \A y \in Rows :
       lastFlip'[i][y] = IF i = from /\ from # to /\ y = x THEN lastFlip[i][y] + 1
                                                          ELSE lastFlip[i][y]
  /\ copies'[d][to][x].there
  /\ copies'[d][to][x].dead = copies[d][to][x].dead
  /\ copies'[d][to][x].flips = copies[d][to][x].flips
  /\ from # to => copies'[d][from][x] = Marked(from, x, TRUE)
  /\ \A r \in Replicas : \A i \in Indexes : \A y \in Rows :
       ~(r = d /\ i \in {from, to} /\ y = x) => copies'[r][i][y] = copies[r][i][y]

LEMMA MovedCopies ==
  ASSUME IInv, NEW d \in Devices, NEW x \in Rows, NEW from \in Indexes, NEW to \in Indexes,
         CopyOnWrite(d, x, from, to)
  PROVE  Moved(d, x, from, to)
<1> DEFINE old == IF from = to THEN copies[d][from][x] ELSE Marked(from, x, TRUE)
           mid == [copies EXCEPT ![d][from][x] = old]
           after == [mid EXCEPT ![d][to][x] = Stored(mid[d][to][x])]
<1>1. d \in Replicas
  BY DEF Replicas
<1>2. /\ copies \in [Replicas -> [Indexes -> [Rows -> Copy]]]
      /\ lastFlip \in [Indexes -> [Rows -> Nat]]
  BY DEF IInv, TypeOK, Copy
<1>3. lastFlip[from][x] + 1 \in Nat
  BY <1>2
<1>4. Marked(from, x, TRUE) \in Copy
  BY <1>3 DEF Marked, Copy
<1>5. old \in Copy
  <2>1. copies[d][from][x] \in Copy
    BY <1>1, <1>2
  <2> QED  BY <1>4, <2>1
<1>6. copies' = after
  BY DEF CopyOnWrite, Stored
<1> HIDE DEF old
<1>7. /\ mid \in [Replicas -> [Indexes -> [Rows -> Copy]]]
      /\ mid[d][from][x] = old
      /\ \A r \in Replicas : \A i \in Indexes : \A y \in Rows :
           ~(r = d /\ i = from /\ y = x) => mid[r][i][y] = copies[r][i][y]
  BY <1>1, <1>2, <1>5, OneCopy
<1> HIDE DEF mid
<1>8. /\ after \in [Replicas -> [Indexes -> [Rows -> Copy]]]
      /\ after[d][to][x].there
      /\ after[d][to][x].dead = mid[d][to][x].dead
      /\ after[d][to][x].flips = mid[d][to][x].flips
      /\ \A r \in Replicas : \A i \in Indexes : \A y \in Rows :
           ~(r = d /\ i = to /\ y = x) => after[r][i][y] = mid[r][i][y]
  <2>1. mid[d][to][x] \in Copy
    BY <1>1, <1>7
  <2>2. /\ Stored(mid[d][to][x]) \in Copy /\ Stored(mid[d][to][x]).there
        /\ Stored(mid[d][to][x]).dead = mid[d][to][x].dead
        /\ Stored(mid[d][to][x]).flips = mid[d][to][x].flips
    BY <2>1, StoredCopy
  <2>3. /\ after \in [Replicas -> [Indexes -> [Rows -> Copy]]]
        /\ after[d][to][x] = Stored(mid[d][to][x])
        /\ \A r \in Replicas : \A i \in Indexes : \A y \in Rows :
             ~(r = d /\ i = to /\ y = x) => after[r][i][y] = mid[r][i][y]
    BY <1>1, <1>7, <2>2, OneCopy
  <2> QED  BY <2>2, <2>3
<1> HIDE DEF after
<1>9. mid[d][to][x] = copies[d][to][x]
  BY <1>1, <1>7 DEF old
<1>10. /\ lastFlip' \in [Indexes -> [Rows -> Nat]]
       /\ \A i \in Indexes : \A y \in Rows :
              lastFlip'[i][y] = IF i = from /\ from # to /\ y = x THEN lastFlip[i][y] + 1
                                                                 ELSE lastFlip[i][y]
  BY <1>2, <1>3 DEF CopyOnWrite
<1>11. from # to => copies'[d][from][x] = Marked(from, x, TRUE)
  BY <1>1, <1>6, <1>7, <1>8 DEF old
<1>12. \A r \in Replicas : \A i \in Indexes : \A y \in Rows :
              ~(r = d /\ i \in {from, to} /\ y = x) => copies'[r][i][y] = copies[r][i][y]
  BY <1>6, <1>7, <1>8
<1> QED  BY <1>6, <1>8, <1>9, <1>10, <1>11, <1>12 DEF Moved

LEMMA InsertedCopies ==
  ASSUME IInv, NEW d \in Devices, NEW x \in Rows, Insert(d, x)
  PROVE  /\ Active(d) \in Indexes
         /\ copies' \in [Replicas -> [Indexes -> [Rows -> Copy]]]
         /\ copies'[d][Active(d)][x].there
         /\ copies'[d][Active(d)][x].dead = copies[d][Active(d)][x].dead
         /\ copies'[d][Active(d)][x].flips = copies[d][Active(d)][x].flips
         /\ \A r \in Replicas : \A i \in Indexes : \A y \in Rows :
              ~(r = d /\ i = Active(d) /\ y = x) => copies'[r][i][y] = copies[r][i][y]
<1> DEFINE to == Active(d)
           after == [copies EXCEPT ![d][to][x] = Stored(copies[d][to][x])]
<1>1. d \in Replicas
  BY DEF Replicas
<1>2. copies \in [Replicas -> [Indexes -> [Rows -> Copy]]] /\ to \in Indexes
  BY <1>1 DEF IInv, TypeOK, Copy, Active
<1>3. copies' = after
  BY DEF Insert, Stored
<1> HIDE DEF to
<1>4. copies[d][to][x] \in Copy
  BY <1>1, <1>2
<1>5. /\ Stored(copies[d][to][x]) \in Copy /\ Stored(copies[d][to][x]).there
      /\ Stored(copies[d][to][x]).dead = copies[d][to][x].dead
      /\ Stored(copies[d][to][x]).flips = copies[d][to][x].flips
  BY <1>4, StoredCopy
<1>6. /\ after \in [Replicas -> [Indexes -> [Rows -> Copy]]]
      /\ after[d][to][x] = Stored(copies[d][to][x])
      /\ \A r \in Replicas : \A i \in Indexes : \A y \in Rows :
           ~(r = d /\ i = to /\ y = x) => after[r][i][y] = copies[r][i][y]
  BY <1>1, <1>2, <1>5, OneCopy
<1> QED  BY <1>2, <1>3, <1>5, <1>6 DEF to

-----------------------------------------------------------------------------
(* The invariant.                                                           *)

CopiesOK ==
  /\ copies \in [Replicas -> [Indexes -> [Rows -> Copy]]]
  /\ lastFlip \in [Indexes -> [Rows -> Nat]]

OthersOK ==
  /\ pointer \in [Replicas -> [index : Indexes, turns : Nat]]
  /\ start \in [Devices -> [probing : BOOLEAN, top : Indexes]]
  /\ lastTurn \in Nat

LEMMA TypesSplit == TypeOK <=> CopiesOK /\ OthersOK
BY DEF TypeOK, CopiesOK, OthersOK, Copy

LEMMA NextInvariant == CopiesOK' /\ OthersOK' /\ Sound' => IInv'
BY DEF TypeOK, CopiesOK, OthersOK, Copy, IInv

\* A mark is the last of its register.
LEMMA MarkKeeps ==
  ASSUME IInv, NEW d \in Devices, NEW x \in Rows, NEW to \in Indexes, NEW dead \in BOOLEAN,
         Mark(d, to, x, dead)
  PROVE  CopiesOK' /\ Sound'
<1>1. CopiesOK'
  BY MarkedCopies DEF CopiesOK
<1>2. ASSUME NEW r \in Replicas, NEW i \in Indexes, NEW y \in Rows
      PROVE  /\ copies'[r][i][y].dead => copies'[r][i][y].there
             /\ copies'[r][i][y].flips <= lastFlip'[i][y]
  <2>1. copies[r][i][y] \in Copy /\ lastFlip[i][y] \in Nat
    BY DEF IInv, TypeOK, Copy
  <2>2. /\ copies[r][i][y].dead => copies[r][i][y].there
        /\ copies[r][i][y].flips <= lastFlip[i][y]
    BY DEF IInv, Sound
  <2>3. CASE r = d /\ i = to /\ y = x
    <3>1. copies'[r][i][y] = Marked(i, y, dead) /\ lastFlip'[i][y] = lastFlip[i][y] + 1
      BY <2>3, MarkedCopies
    <3> QED  BY <2>1, <3>1 DEF Marked
  <2>4. CASE ~(r = d /\ i = to /\ y = x)
    <3>1. copies'[r][i][y] = copies[r][i][y]
      BY <2>4, MarkedCopies
    <3>2. lastFlip'[i][y] \in {lastFlip[i][y], lastFlip[i][y] + 1}
      BY MarkedCopies
    <3>3. copies[r][i][y].flips \in Nat
      BY <2>1 DEF Copy
    <3> QED  BY <2>1, <2>2, <3>1, <3>2, <3>3
  <2> QED  BY <2>3, <2>4
<1> QED  BY <1>1, <1>2 DEF Sound

LEMMA MoveKeeps ==
  ASSUME IInv, NEW d \in Devices, NEW x \in Rows, NEW from \in Indexes, NEW to \in Indexes,
         CopyOnWrite(d, x, from, to)
  PROVE  CopiesOK' /\ Sound'
<1>0. Moved(d, x, from, to)
  BY MovedCopies
<1>1. CopiesOK'
  BY <1>0 DEF CopiesOK, Moved
<1>2. ASSUME NEW r \in Replicas, NEW i \in Indexes, NEW y \in Rows
      PROVE  /\ copies'[r][i][y].dead => copies'[r][i][y].there
             /\ copies'[r][i][y].flips <= lastFlip'[i][y]
  <2>1. copies[r][i][y] \in Copy /\ lastFlip[i][y] \in Nat
    BY DEF IInv, TypeOK, Copy
  <2>2. /\ copies[r][i][y].dead => copies[r][i][y].there
        /\ copies[r][i][y].flips <= lastFlip[i][y]
    BY DEF IInv, Sound
  <2>3. copies[r][i][y].flips \in Nat
    BY <2>1 DEF Copy
  <2>4. lastFlip'[i][y] \in {lastFlip[i][y], lastFlip[i][y] + 1}
    BY <1>0 DEF Moved
  <2>5. CASE r = d /\ i = to /\ y = x
    <3>1. copies'[r][i][y].there /\ copies'[r][i][y].flips = copies[r][i][y].flips
      BY <2>5, <1>0 DEF Moved
    <3> QED  BY <2>1, <2>2, <2>3, <2>4, <3>1
  <2>6. CASE r = d /\ i = from /\ from # to /\ y = x
    <3>1. copies'[r][i][y] = Marked(i, y, TRUE) /\ lastFlip'[i][y] = lastFlip[i][y] + 1
      BY <2>6, <1>0 DEF Moved
    <3> QED  BY <2>1, <3>1 DEF Marked
  <2>7. CASE ~(r = d /\ i \in {from, to} /\ y = x)
    <3>1. copies'[r][i][y] = copies[r][i][y]
      BY <2>7, <1>0 DEF Moved
    <3> QED  BY <2>1, <2>2, <2>3, <2>4, <3>1
  <2> QED  BY <2>5, <2>6, <2>7
<1> QED  BY <1>1, <1>2 DEF Sound

LEMMA InsertKeeps ==
  ASSUME IInv, NEW d \in Devices, NEW x \in Rows, Insert(d, x)
  PROVE  CopiesOK' /\ Sound'
<1>1. lastFlip' = lastFlip
  BY DEF Insert, clock
<1>2. CopiesOK'
  BY <1>1, InsertedCopies DEF CopiesOK, IInv, TypeOK
<1>3. ASSUME NEW r \in Replicas, NEW i \in Indexes, NEW y \in Rows
      PROVE  /\ copies'[r][i][y].dead => copies'[r][i][y].there
             /\ copies'[r][i][y].flips <= lastFlip'[i][y]
  <2>1. /\ copies[r][i][y].dead => copies[r][i][y].there
        /\ copies[r][i][y].flips <= lastFlip[i][y]
    BY DEF IInv, Sound
  <2>2. CASE r = d /\ i = Active(d) /\ y = x
    BY <1>1, <2>1, <2>2, InsertedCopies
  <2>3. CASE ~(r = d /\ i = Active(d) /\ y = x)
    BY <1>1, <2>1, <2>3, InsertedCopies
  <2> QED  BY <2>2, <2>3
<1> QED  BY <1>2, <1>3 DEF Sound

LEMMA SyncKeeps ==
  ASSUME IInv, NEW d \in Devices, NEW shards, SyncShards(d, shards), UNCHANGED lastFlip
  PROVE  CopiesOK' /\ Sound'
BY SyncedCopies DEF CopiesOK, IInv, TypeOK

\* The pointer a device takes from the relay, or writes.
LEMMA PointerTypes ==
  ASSUME TypeOK, NEW d \in Devices
  PROVE  /\ Active(d) \in Indexes /\ Active(d) \in Nat /\ ActiveThen \in Indexes
         /\ SyncPointer(d) => pointer' \in [Replicas -> [index : Indexes, turns : Nat]]
         /\ \A i \in Indexes : MovePointer(d, i) =>
              /\ pointer' \in [Replicas -> [index : Indexes, turns : Nat]]
              /\ lastTurn' \in Nat
<1>1. d \in Replicas /\ Relay \in Replicas
  BY DEF Replicas
<1>2. \A r \in Replicas : pointer[r] \in [index : Indexes, turns : Nat]
  BY DEF TypeOK
<1>3. Active(d) \in Indexes /\ ActiveThen \in Indexes
  BY <1>1, <1>2 DEF Active, ActiveThen
<1>4. Active(d) \in Nat
  BY <1>3, ShardAssumption DEF Indexes
<1>5. SyncPointer(d) => pointer' \in [Replicas -> [index : Indexes, turns : Nat]]
  <2>1. LaterPointer(pointer[d], pointer[Relay]) \in [index : Indexes, turns : Nat]
    BY <1>1, <1>2 DEF LaterPointer
  <2> QED  BY <2>1 DEF SyncPointer, TypeOK
<1>6. \A i \in Indexes : MovePointer(d, i) =>
              /\ pointer' \in [Replicas -> [index : Indexes, turns : Nat]]
              /\ lastTurn' \in Nat
  <2> SUFFICES ASSUME NEW i \in Indexes, MovePointer(d, i)
               PROVE  /\ pointer' \in [Replicas -> [index : Indexes, turns : Nat]]
                      /\ lastTurn' \in Nat
    OBVIOUS
  <2>1. lastTurn + 1 \in Nat
    BY DEF TypeOK
  <2>2. [index |-> i, turns |-> lastTurn + 1] \in [index : Indexes, turns : Nat]
    BY <2>1
  <2> QED  BY <2>1, <2>2 DEF MovePointer, TypeOK
<1> QED  BY <1>3, <1>4, <1>5, <1>6

LEMMA NextIndex ==
  ASSUME NEW i \in Indexes, i < MaxIndex
  PROVE  i + 1 \in Indexes
BY ShardAssumption DEF Indexes

LEMMA CopiesUnchanged ==
  ASSUME IInv, UNCHANGED <<copies, lastFlip>>
  PROVE  CopiesOK' /\ Sound'
BY DEF IInv, TypeOK, CopiesOK, Copy, Sound

LEMMA WritesKeep ==
  ASSUME IInv, NEW d \in Devices, NEW x \in Rows, WriteRow(d, x)
  PROVE  IInv'
<1>0. TypeOK /\ OthersOK
  BY TypesSplit DEF IInv
<1>1. CASE Insert(d, x)
  <2>1. OthersOK'
    BY <1>0, <1>1 DEF Insert, OthersOK, clock
  <2> QED  BY <1>1, <2>1, InsertKeeps, NextInvariant
<1>2. ASSUME NEW to \in Indexes, NEW dead \in BOOLEAN, Mark(d, to, x, dead)
      PROVE  IInv'
  <2>1. OthersOK'
    BY <1>0, <1>2 DEF Mark, OthersOK
  <2> QED  BY <1>2, <2>1, MarkKeeps, NextInvariant
<1>3. CASE Revive(d, x) \/ Bury(d, x)
  BY <1>0, <1>2, <1>3, PointerTypes DEF Revive, Bury
<1>4. CASE Remove(d, x)
  <2>1. Newest(d, x) \in Indexes
    BY <1>0, <1>4, NewestIsVisible DEF Remove, ShownAt
  <2> QED  BY <1>2, <1>4, <2>1 DEF Remove
<1>5. CASE Update(d, x)
  <2>1. Newest(d, x) \in Indexes
    BY <1>0, <1>5, NewestIsVisible DEF Update, ShownAt
  <2>2. CopiesOK' /\ Sound'
    BY <1>0, <1>5, <2>1, MoveKeeps, PointerTypes DEF Update
  <2>3. OthersOK'
    BY <1>0, <1>5 DEF Update, CopyOnWrite, OthersOK
  <2> QED  BY <2>2, <2>3, NextInvariant
<1>6. CASE UpdateOvertaken(d, x)
  <2>1. Newest(d, x) \in Indexes
    BY <1>0, <1>6, NewestIsVisible DEF UpdateOvertaken, ShownAt
  <2>2. CopiesOK' /\ Sound'
    BY <1>0, <1>6, <2>1, MoveKeeps, PointerTypes DEF UpdateOvertaken
  <2>3. OthersOK'
    <3>1. pointer[Relay] \in [index : Indexes, turns : Nat]
      BY <1>0 DEF OthersOK, Replicas
    <3>2. pointer' \in [Replicas -> [index : Indexes, turns : Nat]]
      BY <1>0, <1>6, <3>1 DEF UpdateOvertaken, OthersOK
    <3> QED  BY <1>0, <1>6, <3>2 DEF UpdateOvertaken, CopyOnWrite, OthersOK
  <2> QED  BY <2>2, <2>3, NextInvariant
<1> QED  BY <1>1, <1>3, <1>4, <1>5, <1>6 DEF WriteRow

LEMMA SyncsKeep ==
  ASSUME IInv, NEW d \in Devices, Sync(d)
  PROVE  IInv'
<1>0. TypeOK /\ OthersOK
  BY TypesSplit DEF IInv
<1>1. CASE SyncAccount(d)
  <2>1. OthersOK'
    BY <1>0, <1>1, PointerTypes DEF SyncAccount, OthersOK, clock
  <2>2. CopiesOK' /\ Sound'
    BY <1>1, CopiesUnchanged DEF SyncAccount, clock
  <2> QED  BY <2>1, <2>2, NextInvariant
<1>2. ASSUME NEW i \in Indexes, SyncShard(d, i)
      PROVE  IInv'
  <2>1. OthersOK'
    BY <1>0, <1>2 DEF SyncShard, OthersOK, clock
  <2>2. CopiesOK' /\ Sound'
    BY <1>2, SyncKeeps DEF SyncShard, clock
  <2> QED  BY <2>1, <2>2, NextInvariant
<1> QED  BY <1>1, <1>2 DEF Sync

LEMMA StartsKeep ==
  ASSUME IInv, NEW d \in Devices, Starting(d)
  PROVE  IInv'
<1>0. TypeOK /\ OthersOK
  BY TypesSplit DEF IInv
<1>1. start[d] \in [probing : BOOLEAN, top : Indexes]
  BY <1>0 DEF OthersOK
<1>2. Started \in [probing : BOOLEAN, top : Indexes]
  BY ShardAssumption DEF Started, Indexes
<1>3. CASE Hydrate(d)
  <2>1. pointer' \in [Replicas -> [index : Indexes, turns : Nat]]
    BY <1>0, <1>3, PointerTypes DEF Hydrate
  <2>2. Probing(Active(d)') \in [probing : BOOLEAN, top : Indexes]
    BY <2>1 DEF Probing, Active, Replicas
  <2>3. OthersOK'
    BY <1>0, <1>3, <2>1, <2>2 DEF Hydrate, OthersOK, clock
  <2>4. CopiesOK' /\ Sound'
    BY <1>3, SyncKeeps DEF Hydrate, clock
  <2> QED  BY <2>3, <2>4, NextInvariant
<1>4. CASE Climb(d)
  <2>1. start[d].top + 1 \in Indexes
    BY <1>1, <1>4, NextIndex DEF Climb
  <2>2. start' \in [Devices -> [probing : BOOLEAN, top : Indexes]]
    BY <1>0, <1>1, <1>4, <2>1 DEF Climb, OthersOK
  <2>3. OthersOK'
    BY <1>0, <1>4, <2>2 DEF Climb, OthersOK, clock
  <2>4. CopiesOK' /\ Sound'
    BY <1>4, SyncKeeps DEF Climb, clock
  <2> QED  BY <2>3, <2>4, NextInvariant
<1>5. CASE Repair(d)
  <2>1. start' \in [Devices -> [probing : BOOLEAN, top : Indexes]]
    BY <1>0, <1>2, <1>5 DEF Repair, OthersOK
  <2>2. CASE UNCHANGED <<pointer, copies, clock>>
    <3>1. OthersOK'
      BY <1>0, <2>1, <2>2 DEF OthersOK, clock
    <3>2. CopiesOK' /\ Sound'
      BY <2>2, CopiesUnchanged DEF clock
    <3> QED  BY <3>1, <3>2, NextInvariant
  <2>3. CASE MovePointer(d, start[d].top)
    <3>1. OthersOK'
      BY <1>0, <1>1, <2>1, <2>3, PointerTypes DEF OthersOK
    <3>2. CopiesOK' /\ Sound'
      BY <2>3, CopiesUnchanged DEF MovePointer
    <3> QED  BY <3>1, <3>2, NextInvariant
  <2> QED  BY <1>5, <2>2, <2>3 DEF Repair
<1> QED  BY <1>3, <1>4, <1>5 DEF Starting

LEMMA RotationsKeep ==
  ASSUME IInv, NEW d \in Devices, Rotate(d) \/ RotateOvertaken(d)
  PROVE  IInv'
<1>0. TypeOK /\ OthersOK
  BY TypesSplit DEF IInv
<1>1. PICK i \in Indexes : MovePointer(d, i) /\ UNCHANGED start
  <2>1. CASE Rotate(d)
    BY <1>0, <2>1, PointerTypes, NextIndex DEF Rotate
  <2>2. CASE RotateOvertaken(d)
    BY <1>0, <2>2, PointerTypes, NextIndex DEF RotateOvertaken
  <2> QED  BY <2>1, <2>2
<1>2. OthersOK'
  BY <1>0, <1>1, PointerTypes DEF OthersOK
<1>3. CopiesOK' /\ Sound'
  BY <1>1, CopiesUnchanged DEF MovePointer
<1> QED  BY <1>2, <1>3, NextInvariant

LEMMA Initially == Init => IInv
<1> SUFFICES ASSUME Init PROVE IInv
  OBVIOUS
<1>0. 0 \in Indexes /\ 1 \in Indexes
  BY ShardAssumption DEF Indexes
<1>1. NoCopy \in Copy /\ LiveCopy \in Copy
  BY DEF NoCopy, LiveCopy, Copy
<1>2. CopiesOK
  BY <1>1 DEF Init, CopiesOK
<1>3. OthersOK
  BY <1>0 DEF Init, OthersOK, Started
<1>4. Sound
  BY DEF Init, Sound, NoCopy, LiveCopy
<1> QED  BY <1>2, <1>3, <1>4, TypesSplit DEF IInv

LEMMA Steps == IInv /\ [Next]_vars => IInv'
<1> SUFFICES ASSUME IInv, [Next]_vars PROVE IInv'
  OBVIOUS
<1>1. CASE Next
  <2>1. PICK d \in Devices : \/ Sync(d) \/ Starting(d)
                             \/ \E x \in Rows : WriteRow(d, x)
                             \/ Rotate(d) \/ RotateOvertaken(d)
    BY <1>1 DEF Next
  <2> QED  BY <2>1, SyncsKeep, StartsKeep, WritesKeep, RotationsKeep
<1>2. CASE UNCHANGED vars
  BY <1>2 DEF vars, clock, IInv, TypeOK, Sound
<1> QED  BY <1>1, <1>2

\* A device stores and repairs what has the types of the model, whatever the account,
\* its rows and its devices.
THEOREM TypeCorrect == Spec => []TypeOK
<1>1. IInv => TypeOK
  BY DEF IInv
<1> QED  BY Initially, Steps, <1>1, PTL DEF Spec

-----------------------------------------------------------------------------
(* No row is lost but by a removal, or an update overtaken.                 *)

\* A row that was kept still is if its copies stay, only one shard may be new to it and
\* has a copy now, and no copy of that shard or of a later one is newly marked.
LEMMA KeptStays ==
  ASSUME IInv, NEW x \in Rows, NEW to \in Indexes, Kept(x),
         \A r \in Replicas : \A i \in Indexes :
           /\ copies[r][i][x].there => copies'[r][i][x].there
           /\ i # to /\ copies'[r][i][x].there => i \in Shards(x),
         \A i \in Indexes : i >= to /\ Dead(i, x)' => Dead(i, x),
         to \in Shards(x)'
  PROVE  Kept(x)'
<1>1. PICK t \in Shards(x) : ~Dead(t, x) /\ \A j \in Shards(x) : j <= t
  BY DEF Kept
<1>2. t \in Indexes /\ t \in Nat /\ to \in Nat
  BY <1>1, ShardAssumption DEF Shards, Indexes
<1>3. t \in Shards(x)'
  BY <1>1, <1>2 DEF Shards
<1>4. \A j \in Shards(x)' : j = to \/ j \in Shards(x)
  BY DEF Shards
<1>5. CASE to <= t
  <2>1. ~Dead(t, x)'
    BY <1>1, <1>2, <1>5
  <2>2. \A j \in Shards(x)' : j <= t
    BY <1>1, <1>4, <1>5
  <2> QED  BY <1>3, <2>1, <2>2 DEF Kept
<1>6. CASE ~(to <= t)
  <2>1. to \notin Shards(x)
    BY <1>1, <1>6
  <2>2. ~Dead(to, x)
    BY <2>1 DEF Dead, Shards, IInv, Sound
  <2>3. ~Dead(to, x)'
    BY <1>2, <2>2
  <2>4. \A j \in Shards(x)' : j <= to
    <3> TAKE j \in Shards(x)'
    <3>1. j \in Indexes
      BY DEF Shards
    <3> QED  BY <1>1, <1>2, <1>4, <1>6, <3>1, ShardAssumption DEF Indexes
  <2> QED  BY <2>3, <2>4 DEF Kept
<1> QED  BY <1>5, <1>6

LEMMA KeptAfterSync ==
  ASSUME IInv, NEW d \in Devices, NEW shards, SyncShards(d, shards), UNCHANGED lastFlip,
         NEW x \in Rows, Kept(x)
  PROVE  Kept(x)'
<1>1. \A r \in Replicas : \A i \in Indexes :
              /\ copies[r][i][x].there => copies'[r][i][x].there
              /\ copies'[r][i][x].there => \E q \in Replicas : copies[q][i][x].there
              /\ \E q \in Replicas :
                   /\ copies'[r][i][x].dead = copies[q][i][x].dead
                   /\ copies'[r][i][x].flips = copies[q][i][x].flips
  BY SyncedCopies
<1>2. \A r \in Replicas : \A i \in Indexes : copies'[r][i][x].there => i \in Shards(x)
  BY <1>1 DEF Shards
<1>3. \A i \in Indexes : Dead(i, x)' => Dead(i, x)
  <2> SUFFICES ASSUME NEW i \in Indexes, Dead(i, x)' PROVE Dead(i, x)
    OBVIOUS
  <2>1. PICK r \in Replicas : copies'[r][i][x].dead /\ copies'[r][i][x].flips = lastFlip[i][x]
    BY DEF Dead
  <2>2. PICK q \in Replicas :
                   /\ copies'[r][i][x].dead = copies[q][i][x].dead
                   /\ copies'[r][i][x].flips = copies[q][i][x].flips
    BY <1>1
  <2> QED  BY <2>1, <2>2 DEF Dead
<1>4. PICK t \in Shards(x) : TRUE
  BY DEF Kept
<1>5. t \in Indexes /\ t \in Shards(x)'
  BY <1>1, <1>4 DEF Shards
<1> QED  BY <1>1, <1>2, <1>3, <1>5, KeptStays

LEMMA KeptUntouched ==
  ASSUME NEW x \in Rows, Kept(x),
         \A i \in Indexes :
           /\ lastFlip'[i][x] = lastFlip[i][x]
           /\ \A r \in Replicas : copies'[r][i][x] = copies[r][i][x]
  PROVE  Kept(x)'
<1>1. Shards(x)' = Shards(x)
  BY DEF Shards
<1>2. \A i \in Indexes : Dead(i, x)' <=> Dead(i, x)
  BY DEF Dead
<1>3. \A i \in Shards(x) : i \in Indexes
  BY DEF Shards
<1> QED  BY <1>1, <1>2, <1>3 DEF Kept

LEMMA KeptAfterInsert ==
  ASSUME IInv, NEW d \in Devices, NEW y \in Rows, Insert(d, y), NEW x \in Rows, Kept(x)
  PROVE  Kept(x)'
<1>1. lastFlip' = lastFlip
  BY DEF Insert, clock
<1>2. CASE y # x
  BY <1>1, <1>2, InsertedCopies, KeptUntouched
<1>3. CASE y = x
  <2> DEFINE to == Active(d)
  <2>1. d \in Replicas
    BY DEF Replicas
  <2>2. /\ to \in Indexes
        /\ copies'[d][to][x].there
        /\ copies'[d][to][x].dead = copies[d][to][x].dead
        /\ copies'[d][to][x].flips = copies[d][to][x].flips
        /\ \A r \in Replicas : \A i \in Indexes :
              ~(r = d /\ i = to) => copies'[r][i][x] = copies[r][i][x]
    BY <1>3, InsertedCopies
  <2> HIDE DEF to
  <2>3. \A r \in Replicas : \A i \in Indexes :
           /\ copies[r][i][x].there => copies'[r][i][x].there
           /\ i # to /\ copies'[r][i][x].there => i \in Shards(x)
    BY <2>2 DEF Shards
  <2>4. \A i \in Indexes : Dead(i, x)' => Dead(i, x)
    BY <1>1, <2>2 DEF Dead
  <2>5. to \in Shards(x)'
    BY <2>1, <2>2 DEF Shards
  <2> QED  BY <2>2, <2>3, <2>4, <2>5, KeptStays
<1> QED  BY <1>2, <1>3

LEMMA KeptAfterMark ==
  ASSUME IInv, NEW d \in Devices, NEW y \in Rows, NEW to \in Indexes, NEW dead \in BOOLEAN,
         Mark(d, to, y, dead), NEW x \in Rows, Kept(x), y # x \/ ~dead
  PROVE  Kept(x)'
<1>0. /\ \A i \in Indexes : \A z \in Rows :
           lastFlip'[i][z] = IF i = to /\ z = y THEN lastFlip[i][z] + 1 ELSE lastFlip[i][z]
      /\ \A r \in Replicas : \A i \in Indexes : \A z \in Rows :
           copies'[r][i][z] = IF r = d /\ i = to /\ z = y THEN Marked(to, y, dead)
                              ELSE copies[r][i][z]
  BY MarkedCopies
<1>1. CASE y # x
  BY <1>0, <1>1, KeptUntouched
<1>2. CASE y = x
  <2>1. d \in Replicas
    BY DEF Replicas
  <2>2. /\ copies'[d][to][x] = Marked(to, x, FALSE)
        /\ lastFlip'[to][x] = lastFlip[to][x] + 1
        /\ \A i \in Indexes : i # to => lastFlip'[i][x] = lastFlip[i][x]
        /\ \A r \in Replicas : \A i \in Indexes :
              ~(r = d /\ i = to) => copies'[r][i][x] = copies[r][i][x]
    BY <1>0, <1>2, <2>1
  <2>3. copies'[d][to][x].there /\ ~copies'[d][to][x].dead
    BY <2>2 DEF Marked
  <2>4. \A r \in Replicas : \A i \in Indexes :
           /\ copies[r][i][x].there => copies'[r][i][x].there
           /\ i # to /\ copies'[r][i][x].there => i \in Shards(x)
    BY <2>2, <2>3 DEF Shards
  <2>5. \A r \in Replicas : copies[r][to][x].flips # lastFlip'[to][x]
    <3> TAKE r \in Replicas
    <3>1. /\ copies[r][to][x].flips \in Nat /\ lastFlip[to][x] \in Nat
          /\ copies[r][to][x].flips <= lastFlip[to][x]
      BY DEF IInv, TypeOK, Sound
    <3> QED  BY <2>2, <3>1
  <2>6. \A i \in Indexes : Dead(i, x)' => Dead(i, x)
    <3> SUFFICES ASSUME NEW i \in Indexes, Dead(i, x)' PROVE Dead(i, x)
      OBVIOUS
    <3>1. PICK r \in Replicas : copies'[r][i][x].dead /\ copies'[r][i][x].flips = lastFlip'[i][x]
      BY DEF Dead
    <3>2. ~(r = d /\ i = to)
      BY <2>3, <3>1
    <3>3. copies[r][i][x].dead /\ copies[r][i][x].flips = lastFlip'[i][x]
      BY <2>2, <3>1, <3>2
    <3>4. i # to
      BY <2>5, <3>3
    <3> QED  BY <2>2, <3>3, <3>4 DEF Dead
  <2>7. to \in Shards(x)'
    BY <2>1, <2>3 DEF Shards
  <2> QED  BY <2>4, <2>6, <2>7, KeptStays
<1> QED  BY <1>1, <1>2

LEMMA KeptAfterMove ==
  ASSUME IInv, NEW d \in Devices, NEW y \in Rows, NEW from \in Indexes, NEW to \in Indexes,
         CopyOnWrite(d, y, from, to), copies[d][from][y].there,
         NEW x \in Rows, Kept(x), y # x \/ from <= to
  PROVE  Kept(x)'
<1>0. Moved(d, y, from, to)
  BY MovedCopies
<1>1. CASE y # x
  BY <1>0, <1>1, KeptUntouched DEF Moved
<1>2. CASE y = x
  <2>1. d \in Replicas /\ from \in Nat /\ to \in Nat /\ from <= to
    BY <1>2, ShardAssumption DEF Replicas, Indexes
  <2>2. /\ copies'[d][to][x].there
        /\ copies'[d][to][x].dead = copies[d][to][x].dead
        /\ copies'[d][to][x].flips = copies[d][to][x].flips
        /\ from # to => copies'[d][from][x].there
        /\ \A i \in Indexes : i >= to => lastFlip'[i][x] = lastFlip[i][x]
        /\ \A r \in Replicas : \A i \in Indexes :
              ~(r = d /\ i \in {from, to}) => copies'[r][i][x] = copies[r][i][x]
    <3>1. from # to => copies'[d][from][x].there
      BY <1>0, <1>2 DEF Moved, Marked
    <3>2. ASSUME NEW i \in Indexes, i >= to
          PROVE  lastFlip'[i][x] = lastFlip[i][x]
      <4>1. ~(i = from /\ from # to)
        BY <2>1, <3>2
      <4> QED  BY <1>0, <1>2, <4>1 DEF Moved
    <3> QED  BY <1>0, <1>2, <3>1, <3>2 DEF Moved
  <2>3. from \in Shards(x)
    BY <1>2, <2>1 DEF Shards
  <2>4. \A r \in Replicas : \A i \in Indexes :
           /\ copies[r][i][x].there => copies'[r][i][x].there
           /\ i # to /\ copies'[r][i][x].there => i \in Shards(x) \/ i = from
    BY <2>2 DEF Shards
  <2>5. \A i \in Indexes : i >= to /\ Dead(i, x)' => Dead(i, x)
    <3> SUFFICES ASSUME NEW i \in Indexes, i >= to, Dead(i, x)'
                 PROVE  Dead(i, x)
      OBVIOUS
    <3>1. PICK r \in Replicas : /\ copies'[r][i][x].dead
                               /\ copies'[r][i][x].flips = lastFlip'[i][x]
      BY DEF Dead
    <3>2. lastFlip'[i][x] = lastFlip[i][x]
      BY <2>2
    <3>3. r = d => i = to \/ i # from
      BY <2>1
    <3>4. /\ copies'[r][i][x].dead = copies[r][i][x].dead
          /\ copies'[r][i][x].flips = copies[r][i][x].flips
      <4>1. CASE r = d /\ i = to
        BY <2>2, <4>1
      <4>2. CASE ~(r = d /\ i = to)
        <5>1. ~(r = d /\ i \in {from, to})
          BY <3>3, <4>2
        <5> QED  BY <2>2, <5>1
      <4> QED  BY <4>1, <4>2
    <3> QED  BY <3>1, <3>2, <3>4 DEF Dead
  <2>6. to \in Shards(x)'
    BY <2>1, <2>2 DEF Shards
  <2> QED  BY <2>3, <2>4, <2>5, <2>6, KeptStays
<1> QED  BY <1>1, <1>2

LEMMA NoRowLost ==
  ASSUME IInv, [Next]_vars, NEW x \in Rows, Kept(x),
         ~\E d \in Devices : Bury(d, x) \/ Remove(d, x) \/ LosesRow(d, x)
  PROVE  Kept(x)'
<1>0. TypeOK
  BY DEF IInv
<1>1. ASSUME UNCHANGED <<copies, lastFlip>>
      PROVE  Kept(x)'
  BY <1>1, KeptUntouched
<1>2. CASE UNCHANGED vars
  BY <1>1, <1>2 DEF vars, clock
<1>3. ASSUME NEW d \in Devices, Sync(d) \/ Starting(d)
      PROVE  Kept(x)'
  <2>1. CASE SyncAccount(d)
    BY <1>1, <2>1 DEF SyncAccount, clock
  <2>2. ASSUME NEW i \in Indexes, SyncShard(d, i)
        PROVE  Kept(x)'
    BY <2>2, KeptAfterSync DEF SyncShard, clock
  <2>3. CASE Hydrate(d)
    BY <2>3, KeptAfterSync DEF Hydrate, clock
  <2>4. CASE Climb(d)
    BY <2>4, KeptAfterSync DEF Climb, clock
  <2>5. CASE Repair(d)
    BY <1>1, <2>5 DEF Repair, MovePointer, clock
  <2> QED  BY <1>3, <2>1, <2>2, <2>3, <2>4, <2>5 DEF Sync, Starting
<1>4. ASSUME NEW d \in Devices, Rotate(d) \/ RotateOvertaken(d)
      PROVE  Kept(x)'
  BY <1>1, <1>4 DEF Rotate, RotateOvertaken, MovePointer
<1>5. ASSUME NEW d \in Devices, NEW y \in Rows, WriteRow(d, y)
      PROVE  Kept(x)'
  <2>0. /\ Active(d) \in Indexes /\ ActiveThen \in Indexes
        /\ ShownAt(d, y) => /\ Newest(d, y) \in Indexes /\ Newest(d, y) <= Active(d)
                            /\ copies[d][Newest(d, y)][y].there
    BY <1>0, PointerTypes, NewestIsVisible DEF ShownAt
  <2>1. CASE Insert(d, y)
    BY <2>1, KeptAfterInsert
  <2>2. CASE Revive(d, y)
    BY <2>0, <2>2, KeptAfterMark DEF Revive
  <2>3. CASE Bury(d, y)
    <3>1. y # x
      BY <2>3
    <3>2. Mark(d, Active(d), y, TRUE)
      BY <2>3 DEF Bury
    <3> QED  BY <2>0, <3>1, <3>2, KeptAfterMark
  <2>4. CASE Remove(d, y)
    <3>1. y # x
      BY <2>4
    <3>2. Mark(d, Newest(d, y), y, TRUE) /\ Newest(d, y) \in Indexes
      BY <2>0, <2>4 DEF Remove
    <3> QED  BY <3>1, <3>2, KeptAfterMark
  <2>5. CASE Update(d, y)
    BY <2>0, <2>5, KeptAfterMove DEF Update
  <2>6. CASE UpdateOvertaken(d, y)
    <3>1. CASE y # x
      BY <2>0, <2>6, <3>1, KeptAfterMove DEF UpdateOvertaken
    <3>2. CASE y = x
      <4>1. ~(ActiveThen < Newest(d, y))
        BY <2>6, <3>2 DEF LosesRow
      <4>2. Newest(d, y) <= ActiveThen
        BY <2>0, <2>6, <4>1, ShardAssumption DEF UpdateOvertaken, Indexes
      <4> QED  BY <2>0, <2>6, <4>2, KeptAfterMove DEF UpdateOvertaken
    <3> QED  BY <3>1, <3>2
  <2> QED  BY <1>5, <2>1, <2>2, <2>3, <2>4, <2>5, <2>6 DEF WriteRow
<1> QED  BY <1>2, <1>3, <1>4, <1>5 DEF Next

\* Copy-on-write, rotation, repair and sync cost no account a row, however many devices
\* it has: one that is gone was removed, or an update was overtaken by a falling pointer.
THEOREM RowsAreKept == Spec => RowsStay
<1>1. IInv /\ [Next]_vars =>
        [\A x \in Rows : Kept(x) /\ ~Kept(x)' =>
           \E d \in Devices : Bury(d, x) \/ Remove(d, x) \/ LosesRow(d, x)]_copies
  BY NoRowLost
<1> QED  BY Initially, Steps, <1>1, PTL DEF Spec, RowsStay

-----------------------------------------------------------------------------
(* No shard is passed over but by a rotation overtaken.                     *)

Held(i) == \E r \in Replicas : HeldBy(r, i)

\* What held rows holds rows; what is reached was reached, or the shard below holds rows.
StepsUp ==
  /\ \A i \in Indexes : Held(i) => Held(i)'
  /\ \A j \in Indexes : Reached(j)' => Reached(j) \/ \E k \in Indexes : j = k + 1 /\ Held(k)

LEMMA NoNewGap == StepsUp /\ Gap' => Gap
<1> SUFFICES ASSUME StepsUp, Gap' PROVE Gap
  OBVIOUS
<1>1. PICK i \in Indexes, j \in Indexes : i < j /\ Reached(j)' /\ ~Held(i)'
  BY DEF Gap, Held
<1>2. ~Held(i) /\ i \in Nat /\ j \in Nat
  BY <1>1, ShardAssumption DEF StepsUp, Indexes
<1>3. CASE Reached(j)
  BY <1>1, <1>2, <1>3 DEF Gap, Held
<1>4. ASSUME NEW k \in Indexes, j = k + 1, Held(k)
      PROVE  Gap
  <2>1. k \in Nat /\ k # i
    BY <1>2, <1>4, ShardAssumption DEF Indexes
  <2>2. i < k
    BY <1>1, <1>2, <1>4, <2>1
  <2>3. Reached(k)
    BY <1>4 DEF Held, Reached
  <2> QED  BY <1>2, <2>2, <2>3 DEF Gap, Held
<1> QED  BY <1>1, <1>3, <1>4 DEF StepsUp

\* A step that only writes rows, into a shard that was reached.
LEMMA RowsStepUp ==
  ASSUME IInv, UNCHANGED start,
         \A r \in Replicas : \E q \in Replicas : pointer'[r] = pointer[q],
         \A r \in Replicas : \A i \in Indexes : \A x \in Rows :
           /\ copies[r][i][x].there => copies'[r][i][x].there
           /\ copies'[r][i][x].there => Reached(i)
  PROVE  StepsUp
<1>1. \A i \in Indexes : Held(i) => Held(i)'
  BY DEF Held, HeldBy
<1>2. \A i \in Indexes : \A r \in Replicas : HeldBy(r, i)' => Reached(i)
  BY DEF HeldBy
<1>3. \A i \in Indexes : \A r \in Replicas : pointer'[r].index = i => Reached(i)
  BY DEF Reached
<1>4. \A i \in Indexes : Reached(i)' => Reached(i)
  BY <1>2, <1>3 DEF Reached
<1> QED  BY <1>1, <1>4 DEF StepsUp

LEMMA HeldIsReached ==
  ASSUME NEW i \in Indexes, NEW r \in Replicas, NEW x \in Rows, copies[r][i][x].there
  PROVE  Reached(i)
BY DEF Reached, HeldBy

LEMMA PointerIsReached ==
  ASSUME NEW d \in Devices
  PROVE  Reached(Active(d)) /\ Reached(ActiveThen)
BY DEF Reached, Active, ActiveThen, Replicas

LEMMA WritesStepUp ==
  ASSUME IInv, NEW d \in Devices, NEW x \in Rows, WriteRow(d, x)
  PROVE  StepsUp
<1>0. TypeOK
  BY DEF IInv
<1>1. /\ Active(d) \in Indexes /\ ActiveThen \in Indexes
      /\ Reached(Active(d)) /\ Reached(ActiveThen)
      /\ d \in Replicas /\ Relay \in Replicas
  BY <1>0, PointerTypes, PointerIsReached DEF Replicas
<1>2. ShownAt(d, x) => /\ Newest(d, x) \in Indexes /\ Reached(Newest(d, x))
  BY <1>0, <1>1, NewestIsVisible, HeldIsReached DEF ShownAt
<1>3. CASE Insert(d, x)
  <2>1. \A r \in Replicas : \A i \in Indexes : \A y \in Rows :
           /\ copies[r][i][y].there => copies'[r][i][y].there
           /\ copies'[r][i][y].there => copies[r][i][y].there \/ i = Active(d)
    BY <1>3, InsertedCopies
  <2>2. UNCHANGED <<pointer, start>>
    BY <1>3 DEF Insert
  <2> QED  BY <1>1, <2>1, <2>2, HeldIsReached, RowsStepUp
<1>4. ASSUME NEW to \in Indexes, Reached(to), NEW dead \in BOOLEAN, Mark(d, to, x, dead)
      PROVE  StepsUp
  <2>1. \A r \in Replicas : \A i \in Indexes : \A y \in Rows :
              copies'[r][i][y] = IF r = d /\ i = to /\ y = x THEN Marked(to, x, dead)
                                 ELSE copies[r][i][y]
    BY <1>4, MarkedCopies
  <2>2. \A r \in Replicas : \A i \in Indexes : \A y \in Rows :
           /\ copies[r][i][y].there => copies'[r][i][y].there
           /\ copies'[r][i][y].there => copies[r][i][y].there \/ i = to
    BY <2>1 DEF Marked
  <2>3. UNCHANGED <<pointer, start>>
    BY <1>4 DEF Mark
  <2> QED  BY <1>4, <2>2, <2>3, HeldIsReached, RowsStepUp
<1>5. CASE Revive(d, x) \/ Bury(d, x) \/ Remove(d, x)
  BY <1>1, <1>2, <1>4, <1>5 DEF Revive, Bury, Remove
<1>6. ASSUME NEW from \in Indexes, Reached(from), NEW to \in Indexes, Reached(to),
             CopyOnWrite(d, x, from, to),
             \A r \in Replicas : \E q \in Replicas : pointer'[r] = pointer[q]
      PROVE  StepsUp
  <2>1. Moved(d, x, from, to)
    BY <1>6, MovedCopies
  <2>2. \A r \in Replicas : \A i \in Indexes : \A y \in Rows :
           /\ copies[r][i][y].there => copies'[r][i][y].there
           /\ copies'[r][i][y].there => copies[r][i][y].there \/ i \in {from, to}
    BY <2>1 DEF Moved, Marked
  <2>3. UNCHANGED start
    BY <1>6 DEF CopyOnWrite
  <2> QED  BY <1>6, <2>2, <2>3, HeldIsReached, RowsStepUp
<1>7. CASE Update(d, x)
  <2>1. \A r \in Replicas : \E q \in Replicas : pointer'[r] = pointer[q]
    BY <1>7 DEF Update
  <2> QED  BY <1>1, <1>2, <1>6, <1>7, <2>1 DEF Update
<1>8. CASE UpdateOvertaken(d, x)
  <2>1. \A r \in Replicas : pointer'[r] \in {pointer[r], pointer[Relay]}
    BY <1>0, <1>8 DEF UpdateOvertaken, TypeOK
  <2>2. \A r \in Replicas : \E q \in Replicas : pointer'[r] = pointer[q]
    BY <1>1, <2>1
  <2> QED  BY <1>1, <1>2, <1>6, <1>8, <2>2 DEF UpdateOvertaken
<1> QED  BY <1>3, <1>5, <1>7, <1>8 DEF WriteRow

\* A step that changes no copy and takes pointers and tops that were reached, or are next
\* to a shard with rows.
LEMMA PointersStepUp ==
  ASSUME \A i \in Indexes : Held(i)' <=> Held(i),
         \A i \in Indexes : \A r \in Replicas :
           pointer'[r].index = i => Reached(i) \/ \E k \in Indexes : i = k + 1 /\ Held(k),
         \A i \in Indexes : \A e \in Devices :
           start'[e].probing /\ start'[e].top = i => Reached(i)
  PROVE  StepsUp
<1>1. \A i \in Indexes : \A r \in Replicas : HeldBy(r, i)' => Reached(i)
  BY DEF Held, Reached
<1> QED  BY <1>1 DEF StepsUp, Reached

LEMMA HeldAfterSync ==
  ASSUME IInv, NEW d \in Devices, NEW shards, SyncShards(d, shards), UNCHANGED lastFlip
  PROVE  \A i \in Indexes : Held(i)' <=> Held(i)
<1>1. \A r \in Replicas : \A i \in Indexes : \A x \in Rows :
              /\ copies[r][i][x].there => copies'[r][i][x].there
              /\ copies'[r][i][x].there => \E q \in Replicas : copies[q][i][x].there
  BY SyncedCopies
<1> QED  BY <1>1 DEF Held, HeldBy

LEMMA SyncedPointers ==
  ASSUME IInv, NEW d \in Devices, SyncPointer(d)
  PROVE  \A r \in Replicas : \E q \in Replicas : pointer'[r] = pointer[q]
<1>1. d \in Replicas /\ Relay \in Replicas
  BY DEF Replicas
<1>2. LaterPointer(pointer[d], pointer[Relay]) \in {pointer[d], pointer[Relay]}
  BY DEF LaterPointer
<1>3. \A r \in Replicas : pointer'[r] \in {pointer[r], pointer[d], pointer[Relay]}
  BY <1>2 DEF SyncPointer, IInv, TypeOK
<1> QED  BY <1>1, <1>3

LEMMA OthersStepUp ==
  ASSUME IInv, NEW d \in Devices, Sync(d) \/ Starting(d) \/ Rotate(d)
  PROVE  StepsUp
<1>0. TypeOK /\ d \in Replicas
  BY DEF IInv, Replicas
<1>1. CASE SyncAccount(d)
  <2>1. \A r \in Replicas : \E q \in Replicas : pointer'[r] = pointer[q]
    BY <1>1, SyncedPointers DEF SyncAccount
  <2>2. \A i \in Indexes : Held(i)' <=> Held(i)
    BY <1>1 DEF SyncAccount, Held, HeldBy
  <2> QED  BY <1>1, <2>1, <2>2, PointersStepUp DEF SyncAccount, Reached
<1>2. ASSUME NEW i \in Indexes, SyncShard(d, i)
      PROVE  StepsUp
  <2>1. \A j \in Indexes : Held(j)' <=> Held(j)
    BY <1>2, HeldAfterSync DEF SyncShard, clock
  <2> QED  BY <1>2, <2>1, PointersStepUp DEF SyncShard, Reached
<1>3. CASE Hydrate(d)
  <2>1. \A r \in Replicas : \E q \in Replicas : pointer'[r] = pointer[q]
    BY <1>3, SyncedPointers DEF Hydrate
  <2>2. \A i \in Indexes : Held(i)' <=> Held(i)
    BY <1>3, HeldAfterSync DEF Hydrate, clock
  <2>3. \A e \in Devices : start'[e] = start[e] \/ start'[e].top = pointer'[d].index
    BY <1>0, <1>3 DEF Hydrate, Probing, Active, TypeOK
  <2>4. \A i \in Indexes : \A e \in Devices :
           start'[e].probing /\ start'[e].top = i => Reached(i)
    BY <1>0, <2>1, <2>3 DEF Reached
  <2> QED  BY <2>1, <2>2, <2>4, PointersStepUp DEF Reached
<1>4. CASE Climb(d)
  <2>1. \A i \in Indexes : Held(i)' <=> Held(i)
    BY <1>4, HeldAfterSync DEF Climb, clock
  <2>2. Reached(start[d].top + 1)
    BY <1>0, <1>4 DEF Climb, ProbeHolds, Reached, HeldBy, Replicas
  <2>3. \A e \in Devices : start'[e] = start[e] \/ start'[e].top = start[d].top + 1
    BY <1>0, <1>4 DEF Climb, TypeOK
  <2>4. \A i \in Indexes : \A e \in Devices :
           start'[e].probing /\ start'[e].top = i => Reached(i)
    BY <2>2, <2>3 DEF Reached
  <2> QED  BY <1>4, <2>1, <2>4, PointersStepUp DEF Climb, Reached
<1>5. CASE Repair(d)
  <2>1. \A i \in Indexes : Held(i)' <=> Held(i)
    BY <1>5 DEF Repair, MovePointer, Held, HeldBy
  <2>2. Reached(start[d].top)
    BY <1>5 DEF Repair, Reached
  <2>3. \A r \in Replicas : pointer'[r] = pointer[r] \/ pointer'[r].index = start[d].top
    BY <1>0, <1>5 DEF Repair, MovePointer, TypeOK
  <2>4. \A e \in Devices : start'[e] = start[e] \/ ~start'[e].probing
    BY <1>0, <1>5 DEF Repair, Started, TypeOK
  <2> QED  BY <2>1, <2>2, <2>3, <2>4, PointersStepUp DEF Reached
<1>6. CASE Rotate(d)
  <2>1. \A i \in Indexes : Held(i)' <=> Held(i)
    BY <1>6 DEF Rotate, MovePointer, Held, HeldBy
  <2>2. Active(d) \in Indexes /\ Held(Active(d))
    BY <1>0, <1>6, PointerTypes DEF Rotate, MayRotate, Held
  <2>3. \A r \in Replicas : pointer'[r] = pointer[r] \/ pointer'[r].index = Active(d) + 1
    BY <1>0, <1>6 DEF Rotate, MovePointer, TypeOK
  <2> QED  BY <1>6, <2>1, <2>2, <2>3, PointersStepUp DEF Rotate, Reached
<1> QED  BY <1>1, <1>2, <1>3, <1>4, <1>5, <1>6 DEF Sync, Starting

LEMMA GapsNeedARotation ==
  ASSUME IInv, [Next]_vars, ~\E d \in Devices : RotateOvertaken(d)
  PROVE  Gap' => Gap
<1>1. CASE Next
  BY <1>1, WritesStepUp, OthersStepUp, NoNewGap DEF Next
<1>2. CASE UNCHANGED vars
  BY <1>2 DEF vars, clock, Gap, Reached, HeldBy
<1> QED  BY <1>1, <1>2

\* Pointers, repairs and rows never pass over an empty shard, however many devices move
\* the pointer, unless a pointer overtakes a rotation after its rule was checked.
THEOREM GapsAreOvertaken == Spec => NoGapUnlessOvertaken
<1>1. IInv /\ [Next]_vars => [~Gap /\ Gap' => \E d \in Devices : RotateOvertaken(d)]_vars
  BY GapsNeedARotation
<1> QED  BY Initially, Steps, <1>1, PTL DEF Spec, NoGapUnlessOvertaken

=============================================================================
