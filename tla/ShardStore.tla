----------------------------- MODULE ShardStore -----------------------------
(***************************************************************************)
(* One rotating scope of linksync's ShardStore, on several devices of one  *)
(* account.  The scope's rows live in shards 0, 1, 2, ..., each an Evolu   *)
(* owner of its own; a pointer, one synced row of the app owner, names the *)
(* active shard.  Devices write offline and meet only through the relay,   *)
(* owner by owner, and the last writer of a column wins.                   *)
(*                                                                         *)
(* A row's columns are abstracted to whether a shard holds a copy and the  *)
(* register isDeleted.  A write comes after every write of the same        *)
(* register so far (clocks agree).  An operation reads its rows, reads the *)
(* active index and writes; what can arrive in between and matter is a     *)
(* pointer, and then the operation is overtaken.  The scope forgets        *)
(* nothing, no device is new to the account, and a second tab is one more  *)
(* device.                                                                 *)
(***************************************************************************)
EXTENDS Naturals

CONSTANTS
    Devices,
    Relay,
    Behind,      \* the devices that have not heard of the account's first rotation
    Removers,    \* bound: the devices that revive, bury and remove rows
    Rows,
    Old,         \* the rows shard 0 holds at first: it was not empty when it was left
    MaxIndex,    \* bound: the last shard
    MaxTurns,    \* bound: no rotation after this many pointer writes
    MaxFlips     \* bound: no revival or removal after this many writes of isDeleted

ASSUME ShardAssumption ==
    /\ Relay \notin Devices /\ Behind \subseteq Devices /\ Removers \subseteq Devices
    /\ Old \subseteq Rows /\ Old # {}
    /\ MaxIndex \in Nat \ {0} /\ MaxTurns \in Nat /\ MaxFlips \in Nat

Replicas == Devices \cup {Relay}
Indexes == 0..MaxIndex

VARIABLES
    pointer,     \* per replica: the pointer row, and the number of its last write
    copies,      \* per replica, shard and row: is there a copy, and isDeleted likewise
    start,       \* per device: is its start still probing, and the top it found so far
    lastTurn,    \* the number of the last pointer write on any device
    lastFlip     \* per shard and row: the number of the last write of isDeleted on any

clock == <<lastTurn, lastFlip>>
vars == <<pointer, copies, start, clock>>

-----------------------------------------------------------------------------

NoCopy == [there |-> FALSE, dead |-> FALSE, flips |-> 0]
LiveCopy == [there |-> TRUE, dead |-> FALSE, flips |-> 0]

Started == [probing |-> FALSE, top |-> 0]

\* Mutant: the repair begins above the first shard it has to probe.
ProbingAbove(top) == [probing |-> TRUE, top |-> top + 1]

Probing(top) == [probing |-> TRUE, top |-> top]

Init ==
    /\ pointer = [r \in Replicas |-> IF r \in Behind THEN [index |-> 0, turns |-> 0]
                                                      ELSE [index |-> 1, turns |-> 1]]
    /\ copies = [r \in Replicas |-> [i \in Indexes |-> [x \in Rows |->
                    IF i = 0 /\ x \in Old THEN LiveCopy ELSE NoCopy]]]
    /\ start = [d \in Devices |-> Started]
    /\ lastTurn = 1
    /\ lastFlip = [i \in Indexes |-> [x \in Rows |-> 0]]

-----------------------------------------------------------------------------
(* Reading the database.                                                    *)

\* A device that moves the pointer reads it back before anything else runs, which
\* clears pendingIndex again.
Active(d) == pointer[d].index

HeldBy(d, i) == \E x \in Rows : copies[d][i][x].there

VisibleAt(d, x) == {i \in 0..Active(d) : copies[d][i][x].there}

Newest(d, x) == CHOOSE i \in VisibleAt(d, x) : \A j \in VisibleAt(d, x) : j <= i

ShownAt(d, x) == VisibleAt(d, x) # {} /\ ~copies[d][Newest(d, x)][x].dead

-----------------------------------------------------------------------------
(* Sync, owner by owner: a round with the relay exchanges what either lacks. *)

LaterPointer(a, b) == IF a.turns < b.turns THEN b ELSE a

Merged(a, b) ==
    [there |-> a.there \/ b.there,
     dead |-> IF a.flips < b.flips THEN b.dead ELSE a.dead,
     flips |-> IF a.flips < b.flips THEN b.flips ELSE a.flips]

SyncPointer(d) ==
    LET latest == LaterPointer(pointer[d], pointer[Relay]) IN
    pointer' = [pointer EXCEPT ![d] = latest, ![Relay] = latest]

SyncShards(d, shards) ==
    LET Both(i) == [x \in Rows |-> Merged(copies[d][i][x], copies[Relay][i][x])]
        After(r) == [i \in Indexes |-> IF i \in shards THEN Both(i) ELSE copies[r][i]]
    IN copies' = [copies EXCEPT ![d] = After(d), ![Relay] = After(Relay)]

SyncAccount(d) ==
    /\ pointer[d] # pointer[Relay]
    /\ SyncPointer(d)
    /\ UNCHANGED <<copies, start, clock>>

\* The visible shards are in use.
SyncShard(d, i) ==
    /\ i <= Active(d)
    /\ copies[d][i] # copies[Relay][i]
    /\ SyncShards(d, {i})
    /\ UNCHANGED <<pointer, start, clock>>

\* The app is opened again and hydrates: the first round of the app owner, and then of
\* every shard its pointer makes visible.  The repair reads where to begin.
Hydrate(d) ==
    /\ start[d] = Started
    /\ SyncPointer(d)
    /\ SyncShards(d, 0..Active(d)')
    /\ start' = [start EXCEPT ![d] = Probing(Active(d)')]
    /\ UNCHANGED clock

-----------------------------------------------------------------------------
(* Row operations.                                                          *)

MayFlip(d, x) == d \in Removers /\ \A i \in Indexes : lastFlip[i][x] < MaxFlips

Marked(i, x, dead) == [there |-> TRUE, dead |-> dead, flips |-> lastFlip[i][x] + 1]

Mark(d, i, x, dead) ==
    /\ MayFlip(d, x)
    /\ copies' = [copies EXCEPT ![d][i][x] = Marked(i, x, dead)]
    /\ lastFlip' = [lastFlip EXCEPT ![i][x] = @ + 1]
    /\ UNCHANGED <<pointer, start, lastTurn>>

\* A plain insert leaves a tombstone of the active shard in place.  insertIfAbsent and
\* ingest look for copies first, at any earlier time.
Insert(d, x) ==
    /\ copies' = [copies EXCEPT ![d][Active(d)][x].there = TRUE]
    /\ UNCHANGED <<pointer, start, clock>>

\* A repository's insert revives the row.
Revive(d, x) == Mark(d, Active(d), x, FALSE)

\* removeIfAbsent; the row may have arrived since it looked.
Bury(d, x) == Mark(d, Active(d), x, TRUE)

Remove(d, x) == ShownAt(d, x) /\ Mark(d, Newest(d, x), x, TRUE)

\* Mutant: the old copy becomes a tombstone even when it is the active shard's.
CopyAndBury(d, x, from, to) ==
    /\ copies' = [copies EXCEPT ![d][to][x].there = TRUE, ![d][from][x] = Marked(from, x, TRUE)]
    /\ lastFlip' = [lastFlip EXCEPT ![from][x] = @ + 1]
    /\ UNCHANGED <<start, lastTurn>>

\* A copy of the active shard is patched in place; one of another shard is copied into
\* the active shard and becomes a tombstone, in one transaction.
CopyOnWrite(d, x, from, to) ==
    /\ copies' = [copies EXCEPT ![d][from][x] = IF from = to THEN @ ELSE Marked(from, x, TRUE),
                                ![d][to][x].there = TRUE]
    /\ lastFlip' = [lastFlip EXCEPT ![from][x] = IF from = to THEN @ ELSE @ + 1]
    /\ UNCHANGED <<start, lastTurn>>

Update(d, x) ==
    /\ ShownAt(d, x)
    /\ CopyOnWrite(d, x, Newest(d, x), Active(d))
    /\ UNCHANGED pointer

-----------------------------------------------------------------------------
(* A pointer arrives while an operation runs.                               *)

PointerArrives(d) == pointer[d].turns < pointer[Relay].turns

ActiveThen == pointer[Relay].index

\* After the update found the row, before it read the active index.
UpdateOvertaken(d, x) ==
    /\ ShownAt(d, x)
    /\ PointerArrives(d)
    /\ pointer' = [pointer EXCEPT ![d] = pointer[Relay]]
    /\ CopyOnWrite(d, x, Newest(d, x), ActiveThen)

-----------------------------------------------------------------------------
(* Moving the pointer.  pointerLock keeps this device's other writer out from *)
(* the read until the write is confirmed, so the two are a step.             *)

MovePointer(d, index) ==
    /\ pointer' = [pointer EXCEPT ![d] = [index |-> index, turns |-> lastTurn + 1]]
    /\ lastTurn' = lastTurn + 1
    /\ UNCHANGED <<copies, lastFlip>>

\* Mutant: a rotation needs no rows in the shard it leaves.
MayAlwaysRotate(d) == lastTurn < MaxTurns

\* The active shard is over a threshold, which an empty one never is; the cooldown is
\* over, and no rotation is on its way.
MayRotate(d) == lastTurn < MaxTurns /\ HeldBy(d, Active(d))

Rotate(d) ==
    /\ MayRotate(d)
    /\ Active(d) < MaxIndex
    /\ MovePointer(d, Active(d) + 1)
    /\ UNCHANGED start

\* After the rule was checked, before the lock.
RotateOvertaken(d) ==
    /\ MayRotate(d)
    /\ PointerArrives(d)
    /\ ActiveThen < MaxIndex
    /\ MovePointer(d, ActiveThen + 1)
    /\ UNCHANGED start

\* The relay answered for the shard above: does it hold rows?
ProbeHolds(d) ==
    \E x \in Rows : \E r \in {d, Relay} : copies[r][start[d].top + 1][x].there

Climb(d) ==
    /\ start[d].probing
    /\ start[d].top < MaxIndex /\ ProbeHolds(d)
    /\ SyncShards(d, {start[d].top + 1})
    /\ start' = [start EXCEPT ![d].top = @ + 1]
    /\ UNCHANGED <<pointer, clock>>

\* Mutant: the repair compares the wrong way round.
RepairDown(d) ==
    /\ start[d].probing
    /\ start[d].top < MaxIndex => ~ProbeHolds(d)
    /\ IF start[d].top >= Active(d)
       THEN UNCHANGED <<pointer, copies, clock>>
       ELSE MovePointer(d, start[d].top)
    /\ start' = [start EXCEPT ![d] = Started]

\* It holds none, as do the shards above the last.  The pointer moves unless it is
\* there by now.
Repair(d) ==
    /\ start[d].probing
    /\ start[d].top < MaxIndex => ~ProbeHolds(d)
    /\ IF start[d].top <= Active(d)
       THEN UNCHANGED <<pointer, copies, clock>>
       ELSE MovePointer(d, start[d].top)
    /\ start' = [start EXCEPT ![d] = Started]

-----------------------------------------------------------------------------

WriteRow(d, x) ==
    \/ Insert(d, x) \/ Revive(d, x) \/ Bury(d, x) \/ Remove(d, x)
    \/ Update(d, x) \/ UpdateOvertaken(d, x)

Sync(d) == SyncAccount(d) \/ \E i \in Indexes : SyncShard(d, i)

Starting(d) == Hydrate(d) \/ Climb(d) \/ Repair(d)

Next == \E d \in Devices :
    \/ Sync(d) \/ Starting(d)
    \/ \E x \in Rows : WriteRow(d, x)
    \/ Rotate(d) \/ RotateOvertaken(d)

Spec == Init /\ [][Next]_vars

\* Every device is online now and then, its start goes on while it is, and it is opened
\* again now and then.
FairSpec == Spec /\ \A d \in Devices : WF_vars(Sync(d)) /\ WF_vars(Starting(d))

-----------------------------------------------------------------------------

\* The variables have the types of what a replica stores and a start keeps.
TypeOK ==
    /\ pointer \in [Replicas -> [index : Indexes, turns : Nat]]
    /\ copies \in [Replicas -> [Indexes -> [Rows -> [there : BOOLEAN, dead : BOOLEAN, flips : Nat]]]]
    /\ start \in [Devices -> [probing : BOOLEAN, top : Indexes]]
    /\ lastTurn \in Nat /\ lastFlip \in [Indexes -> [Rows -> Nat]]

\* The shards in which some replica has a copy of the row, and the verdict of the last
\* write on the copy in one of them.
Shards(x) == {i \in Indexes : \E r \in Replicas : copies[r][i][x].there}

Dead(i, x) == \E r \in Replicas : copies[r][i][x].dead /\ copies[r][i][x].flips = lastFlip[i][x]

\* What a device that had everything and saw every shard would show.
Kept(x) == \E i \in Shards(x) : ~Dead(i, x) /\ \A j \in Shards(x) : j <= i

\* The pointer fell below the shard in which the update had found the row: the copy goes
\* below, and the tombstone stays above it.
LosesRow(d, x) == UpdateOvertaken(d, x) /\ ActiveThen < Newest(d, x)

\* Copy-on-write, rotation, repair and sync never cost the account a row: one that was
\* kept is gone only because a device removed it, or because of an update that a falling
\* pointer overtook (update, shardStore.ts).
RowsStay ==
    [][\A x \in Rows : Kept(x) /\ ~Kept(x)' =>
         \E d \in Devices : Bury(d, x) \/ Remove(d, x) \/ LosesRow(d, x)]_copies

\* A pointer, a repair or a row has come to the shard.
Reached(i) ==
    \/ \E r \in Replicas : pointer[r].index = i \/ HeldBy(r, i)
    \/ \E d \in Devices : start[d].probing /\ start[d].top = i

\* A shard that nobody wrote to lies below one that was reached.
Gap == \E i, j \in Indexes : i < j /\ Reached(j) /\ \A r \in Replicas : ~HeldBy(r, i)

\* Repair climbs from shard to shard and stops at the first empty one, so neither
\* pointers nor rows may pass an empty shard: they do only after a pointer arrived
\* between the check of the rotation rule and the rotation (maybeRotate, rotate).
NoGapUnlessOvertaken == [][~Gap /\ Gap' => \E d \in Devices : RotateOvertaken(d)]_vars

\* Whatever the pointers did, every device shows at last, and for good, each row the
\* account keeps: repairPointers finds what a fallen pointer hides.
Shown == \A d \in Devices : <>[](\A x \in Rows : Kept(x) => ShownAt(d, x))

=============================================================================
