-------------------------- MODULE WrapInbox_proofs --------------------------
(***************************************************************************)
(* That the inbox skips nothing, for every set of relays and wraps and all *)
(* bounds that InboxAssumption admits.  What a walk covers is said as long *)
(* as relays return at most a page, or store less than a page of wraps for *)
(* each second (Paged): WrapInbox takes a page shorter than the largest    *)
(* one for a whole second, and after a doubled page a crowded second may   *)
(* be cut off by the plain limit (see MCWrapCrowded.cfg).                  *)
(***************************************************************************)
EXTENDS WrapInbox, FiniteSetTheorems, WellFoundedInduction, TLAPS

\* Relays return at most a page of stored wraps, however many are asked for.
Capped == Cap <= PageLimit

\* The wraps of one second at a relay.
Second(r, t) == {w \in stored[r] : created[w] = t}

\* No relay stores a page of wraps for one second.
Uncrowded ==
    \A r \in Relays, t \in Times : Cardinality(Second(r, t)) < Smaller(PageLimit, Cap)

Paged == Capped \/ Uncrowded

\* Relays store what has been published.
PublishedOnly == \A r \in Relays : \A w \in stored[r] : created[w] # Never

\* The cursor is not in the future, whatever senders write.
NotAhead == newest <= now /\ saved <= now

\* A closed session keeps nothing.
ClosedIsIdle ==
    ~open =>
        /\ queue = {} /\ seen = {} /\ taken = {} /\ walking = {} /\ gaveUp = {}
        /\ \A r \in Relays : attempt[r].pc = "down"

\* What left the stream is stored.
SeenIsSettled == seen \ taken \subseteq handled

\* A relay that is walked holds the cursor.
WalkHolds == \A r \in Relays : attempt[r].pc = "walk" => r \in walking

\* The wraps that reached this session.
Arrived == queue \cup seen

\* No page is larger than a relay's cap, and all of them arrived.
PagesArrive ==
    \A r \in Relays :
        (Capped => attempt[r].largest <= Cap) /\ attempt[r].delivered \subseteq Arrived

\* Above the second it has come to, a walk missed nothing but what it knows of.
WalkCovers ==
    Paged => \A r \in Relays : attempt[r].pc = "walk" =>
        \A w \in stored[r] :
            since <= created[w] /\ attempt[r].until < created[w] =>
                w \in Arrived \/ attempt[r].lowest <= created[w]

\* A relay that does not hold the cursor was walked: what has not arrived is no
\* older than its boundary, or came while it was out of touch.
WalkedCovers ==
    Paged /\ open =>
        \A r \in Relays \ (walking \cup gaveUp) : \A w \in stored[r] :
            since <= created[w] =>
                \/ w \in Arrived
                \/ boundary[r] <= created[w]
                \/ attempt[r].pc \in {"down", "asked"} /\ now - lost[r] - Backdate <= created[w]

IInv ==
    /\ TypeOK /\ PublishedOnly /\ NotAhead /\ ClosedIsIdle /\ SeenIsSettled
    /\ WalkHolds /\ PagesArrive /\ WalkCovers /\ WalkedCovers

-----------------------------------------------------------------------------
(* What the operators return                                               *)

\* A set of natural numbers has a smallest one.
LEMMA SmallestExists ==
    ASSUME NEW S \in SUBSET Nat, S # {}
    PROVE  \E m \in S : \A k \in S : m <= k
<1>1. PICK m \in S : \A k \in S : ~(<<k, m>> \in OpToRel(<, Nat))
  BY WFMin, NatLessThanWellFounded, Zenon
<1>2. ASSUME NEW k \in S
      PROVE  m <= k
  <2>1. k \in Nat /\ m \in Nat
    OBVIOUS
  <2>2. k < m => <<k, m>> \in OpToRel(<, Nat)
    BY <2>1 DEF OpToRel
  <2>3. ~(k < m)
    BY <1>1, <2>2, Zenon
  <2>4. QED
    BY <2>1, <2>3
<1>3. QED
  BY <1>2

\* The cursor moves when nothing is outstanding, no further than what is confirmed
\* and than any boundary.
LEMMA CursorMoves ==
    ASSUME NEW outstanding, NEW holding, NEW confirmed \in Nat, NEW boundaries \in [Relays -> Nat],
           AdvanceWhenSettled(outstanding, holding, confirmed, boundaries), saved' # saved
    PROVE  /\ outstanding = {} /\ holding = {}
           /\ saved' \in Nat /\ saved' <= confirmed
           /\ \A r \in Relays : saved' <= boundaries[r]
<1> DEFINE S == {confirmed} \cup {boundaries[r] : r \in Relays}
           target == CHOOSE t \in S : \A u \in S : t <= u
<1>1. S \subseteq Nat /\ confirmed \in S /\ \A r \in Relays : boundaries[r] \in S
  OBVIOUS
<1>2. target \in S /\ \A u \in S : target <= u
  BY <1>1, SmallestExists
<1>3. outstanding = {} /\ holding = {} /\ saved' = target
  BY DEF AdvanceWhenSettled
<1> HIDE DEF S, target
<1>4. QED
  BY <1>1, <1>2, <1>3

\* The fields of a relay's attempt outside a walk.
LEMMA NoWalkFields ==
    ASSUME NEW pc \in {"down", "asked", "walk", "live"}, NEW failed \in 0..MaxFailed
    PROVE  /\ NoWalk(pc, failed) \in Attempts
           /\ NoWalk(pc, failed).pc = pc /\ NoWalk(pc, failed).until = Never
           /\ NoWalk(pc, failed).largest = 0 /\ NoWalk(pc, failed).delivered = {}
  BY InboxAssumption DEF NoWalk, Attempts, Never, Times

\* A page is what the window holds newest, and all of it when it is short.
LEMMA PageOf ==
    ASSUME TypeOK, NEW r \in Relays, NEW until, NEW n \in Nat \ {0},
           NEW page \in NewestOf(Window(r, until), n)
    PROVE  /\ page \subseteq Window(r, until) /\ page \subseteq Wraps
           /\ Cardinality(page) \in Nat /\ Cardinality(page) <= n
           /\ Cardinality(page) < n \/ page = {} => page = Window(r, until)
           /\ \A w \in page, v \in Window(r, until) \ page : created[v] <= created[w]
<1> DEFINE W == Window(r, until)
<1>1. W \subseteq Wraps /\ IsFiniteSet(Wraps)
  BY InboxAssumption DEF Window, TypeOK
<1>2. IsFiniteSet(W) /\ Cardinality(W) \in Nat
  BY <1>1, FS_Subset, FS_CardinalityType
<1>3. page \subseteq W /\ Cardinality(page) = Smaller(n, Cardinality(W))
      /\ \A w \in page, v \in W \ page : created[v] <= created[w]
  BY DEF NewestOf
<1>4. /\ Cardinality(page) \in Nat /\ (Cardinality(W) = Cardinality(page) => W = page)
      /\ (page = {} => Cardinality(page) = 0)
  BY <1>2, <1>3, FS_Subset, FS_CardinalityType, FS_EmptySet
<1> HIDE DEF W
<1>5. Cardinality(page) <= n /\ (Cardinality(page) < n \/ page = {} => page = W)
  BY <1>2, <1>3, <1>4 DEF Smaller
<1>6. QED
  BY <1>1, <1>3, <1>4, <1>5 DEF W

\* Where a walk goes on: below a second it repeats, else in the oldest one it saw.
LEMMA NextUntilOf ==
    ASSUME TypeOK, NEW a, NEW page \in SUBSET Wraps, page # {}
    PROVE  /\ Repeats(a, page) => NextUntil(a, page) = a.until - 1
           /\ ~Repeats(a, page) =>
                /\ \E w \in page : NextUntil(a, page) = created[w]
                /\ \A w \in page : NextUntil(a, page) <= created[w]
<1> DEFINE S == {created[w] : w \in page}
           t == CHOOSE t \in S : \A w \in page : t <= created[w]
<1>1. \A w \in Wraps : created[w] \in Nat
  BY InboxAssumption DEF TypeOK, Times, Never
<1>2. S \subseteq Nat /\ S # {}
  BY <1>1
<1>3. \E m \in S : \A w \in page : m <= created[w]
  <2>1. PICK m \in S : \A k \in S : m <= k
    BY <1>2, SmallestExists
  <2>2. \A w \in page : created[w] \in S
    OBVIOUS
  <2>3. QED
    BY <2>1, <2>2
<1>4. t \in S /\ \A w \in page : t <= created[w]
  BY <1>3
<1>5. ~Repeats(a, page) => NextUntil(a, page) = t
  BY DEF NextUntil
<1> HIDE DEF t
<1>6. QED
  BY <1>4, <1>5 DEF NextUntil

-----------------------------------------------------------------------------
(* The steps                                                               *)

\* The numbers in a state.
LEMMA Typed ==
    ASSUME TypeOK
    PROVE  /\ MaxTime \in Nat /\ Never \in Nat /\ Times \subseteq Nat /\ Outage \in Nat
           /\ now \in Nat /\ since \in Nat /\ newest \in Nat /\ saved \in Nat
           /\ \A w \in Wraps : created[w] \in Nat
           /\ \A r \in Relays :
                /\ boundary[r] \in Nat /\ lost[r] \in Nat /\ lost[r] <= Outage
                /\ stored[r] \subseteq Wraps
  BY InboxAssumption DEF TypeOK, Times, Never

\* The fields of an attempt.
LEMMA AttemptTyped ==
    ASSUME TypeOK, NEW r \in Relays
    PROVE  /\ attempt[r].pc \in {"down", "asked", "walk", "live"}
           /\ attempt[r].failed \in 0..MaxFailed
           /\ attempt[r].until \in Times \cup {Never} /\ attempt[r].until \in Nat
           /\ attempt[r].limit \in {PageLimit, 2 * PageLimit}
           /\ attempt[r].largest \in Nat /\ attempt[r].delivered \subseteq Wraps
           /\ attempt[r].lowest \in Times \cup {Never} /\ attempt[r].lowest \in Nat
<1>1. attempt[r] \in Attempts
  BY DEF TypeOK
<1>2. QED
  BY <1>1, Typed DEF Attempts

\* The conjuncts of the invariant.
LEMMA IInvParts ==
    ASSUME IInv
    PROVE  /\ TypeOK /\ PublishedOnly /\ NotAhead /\ ClosedIsIdle /\ SeenIsSettled
           /\ WalkHolds /\ PagesArrive /\ WalkCovers /\ WalkedCovers
  BY DEF IInv

\* Pages are large enough as long as relays store what they did.
LEMMA PagedStays ==
    ASSUME UNCHANGED <<created, stored>>
    PROVE  Paged' <=> Paged
  BY DEF Paged, Capped, Uncrowded, Second

\* They were before a relay stored more.
LEMMA PagedEarlier ==
    ASSUME Paged',
           \A r \in Relays : /\ stored[r] \subseteq stored'[r] /\ stored'[r] \subseteq Wraps
                            /\ \A w \in stored[r] : created'[w] = created[w]
    PROVE  Paged
<1>1. SUFFICES ASSUME Uncrowded', NEW r \in Relays, NEW t \in Times
               PROVE  Cardinality(Second(r, t)) < Smaller(PageLimit, Cap)
  BY DEF Paged, Capped, Uncrowded
<1>2. Second(r, t) \subseteq Second(r, t)' /\ Second(r, t)' \subseteq Wraps
  BY DEF Second
<1>3. IsFiniteSet(Second(r, t)')
  BY <1>2, InboxAssumption, FS_Subset
<1>4. /\ Cardinality(Second(r, t)) \in Nat /\ Cardinality(Second(r, t)') \in Nat
      /\ Cardinality(Second(r, t)) <= Cardinality(Second(r, t)')
  BY <1>2, <1>3, FS_Subset, FS_CardinalityType
<1>5. Cardinality(Second(r, t)') < Smaller(PageLimit, Cap)
  BY <1>1 DEF Uncrowded
<1>6. Smaller(PageLimit, Cap) \in Nat
  BY InboxAssumption DEF Smaller
<1>7. QED
  BY <1>4, <1>5, <1>6

\* At first nothing is open.
LEMMA InitIInv == Init => IInv
<1> SUFFICES ASSUME Init PROVE IInv
  OBVIOUS
<1>1. 0 \in Times /\ Never \in Nat /\ MaxTime \in Nat /\ Outage \in Nat /\ MaxBreaks \in Nat
      /\ MaxFailed \in Nat /\ Cap \in Nat
  BY InboxAssumption DEF Times, Never
<1>2. \A r \in Relays : attempt[r] = NoWalk("down", 0)
  BY DEF Init
<1>3. TypeOK
  <2>1. NoWalk("down", 0) \in Attempts
    BY <1>1, NoWalkFields
  <2>2. 0 \in 0..Outage /\ 0 \in 0..MaxBreaks
    BY <1>1
  <2>3. QED
    BY <1>1, <2>1, <2>2 DEF Init, TypeOK
<1>4. \A r \in Relays :
        attempt[r].pc = "down" /\ attempt[r].largest = 0 /\ attempt[r].delivered = {}
  BY <1>1, <1>2, NoWalkFields
<1>5. QED
  BY <1>1, <1>3, <1>4, InboxAssumption DEF Init, IInv, PublishedOnly, NotAhead, ClosedIsIdle, SeenIsSettled,
     WalkHolds, PagesArrive, WalkCovers, WalkedCovers

\* A session opens: every read relay holds the cursor.
LEMMA KeepOpen ==
    ASSUME IInv, Open
    PROVE  IInv'
<1>1. /\ TypeOK /\ PublishedOnly /\ NotAhead /\ ClosedIsIdle /\ SeenIsSettled /\ PagesArrive
      /\ UNCHANGED <<relayVars, saved, handled, boundary, attempt, gaveUp, lost, streamVars, breaks>>
      /\ ~open /\ open' /\ walking' = Relays
  BY IInvParts DEF Open
<1>2. \A r \in Relays : attempt[r].pc = "down"
  BY <1>1 DEF ClosedIsIdle
<1>3. since' \in Times
  BY <1>1, Typed, InboxAssumption DEF Open, TypeOK, Larger, Times
<1>4. TypeOK'
  BY <1>1, <1>3 DEF TypeOK, relayVars, streamVars, ClosedIsIdle
<1>5. QED
  BY <1>1, <1>2, <1>4 DEF relayVars, streamVars, IInv, PublishedOnly, NotAhead, ClosedIsIdle,
     SeenIsSettled, WalkHolds, PagesArrive, WalkCovers, WalkedCovers, Arrived

\* A session closes, and forgets.
LEMMA KeepClose ==
    ASSUME IInv, Close
    PROVE  IInv'
<1>1. /\ TypeOK /\ PublishedOnly /\ NotAhead /\ UNCHANGED <<relayVars, saved, handled>>
      /\ ~open' /\ since' = 0 /\ newest' = 0 /\ walking' = {} /\ gaveUp' = {}
      /\ queue' = {} /\ seen' = {} /\ taken' = {} /\ breaks' = breaks + 1 /\ breaks < MaxBreaks
      /\ boundary' = [r \in Relays |-> Never] /\ lost' = [r \in Relays |-> 0]
      /\ attempt' = [r \in Relays |-> NoWalk("down", 0)] /\ open' = FALSE
  BY IInvParts DEF Close
<1>2. 0 \in Times /\ Cap \in Nat /\ 0 \in 0..MaxFailed /\ 0 \in 0..Outage
  BY InboxAssumption DEF Times
<1>3. \A r \in Relays : /\ attempt'[r] \in Attempts /\ attempt'[r].pc = "down"
                        /\ attempt'[r].largest = 0 /\ attempt'[r].delivered = {}
  BY <1>1, <1>2, NoWalkFields
<1>4. TypeOK'
  <2>1. breaks' \in 0..MaxBreaks
    BY <1>1, InboxAssumption DEF TypeOK
  <2>2. attempt' \in [Relays -> Attempts]
    BY <1>1, <1>3
  <2>3. QED
    BY <1>1, <1>2, <2>1, <2>2, Typed DEF TypeOK, relayVars
<1>5. QED
  BY <1>1, <1>2, <1>3, <1>4, Typed DEF relayVars, IInv, PublishedOnly, NotAhead, ClosedIsIdle,
     SeenIsSettled, WalkHolds, PagesArrive, WalkCovers, WalkedCovers, Arrived

\* A relay is asked again; what it missed while it was down stays bounded.
LEMMA KeepSubscribe ==
    ASSUME IInv, NEW r \in Relays, Subscribe(r)
    PROVE  IInv'
<1> DEFINE b == [attempt[r] EXCEPT !.pc = "asked"]
<1>1. /\ UNCHANGED <<relayVars, saved, handled, open, since, walking, boundary, gaveUp, lost,
                     streamVars, breaks>>
      /\ open /\ attempt[r].pc = "down" /\ attempt' = [attempt EXCEPT ![r].pc = "asked"]
  BY DEF Subscribe, Connected
<1>2. attempt[r] \in Attempts /\ attempt \in [Relays -> Attempts]
  BY IInvParts DEF TypeOK
<1>3. /\ b \in Attempts /\ b.pc = "asked"
      /\ b.largest = attempt[r].largest /\ b.delivered = attempt[r].delivered
  BY <1>2 DEF Attempts
<1>4. attempt' = [attempt EXCEPT ![r] = b]
  BY <1>1
<1> HIDE DEF b
<1>5. \A q \in Relays : attempt'[q] = IF q = r THEN b ELSE attempt[q]
  BY <1>2, <1>4
<1>6. TypeOK'
  BY <1>1, <1>2, <1>3, <1>4, IInvParts DEF TypeOK, relayVars, streamVars
<1>7. QED
  BY <1>1, <1>3, <1>5, <1>6, PagedStays DEF relayVars, streamVars, IInv, PublishedOnly, NotAhead, ClosedIsIdle,
     SeenIsSettled, WalkHolds, PagesArrive, WalkCovers, WalkedCovers, Arrived

\* A walk starts, with nothing covered yet.
LEMMA KeepEose ==
    ASSUME IInv, NEW r \in Relays, Eose(r)
    PROVE  IInv'
<1> DEFINE b == NoWalk("walk", attempt[r].failed)
<1>1. /\ UNCHANGED <<relayVars, saved, handled, open, since, boundary, newest, seen, taken, breaks>>
      /\ attempt[r].pc = "asked" /\ attempt' = [attempt EXCEPT ![r] = b]
      /\ walking' = walking \cup {r} /\ gaveUp' = gaveUp \ {r} /\ lost' = [lost EXCEPT ![r] = 0]
  BY DEF Eose
<1>2. PICK P : queue' = queue \cup P /\ P \subseteq Wraps
  <2>1. PICK P \in {{}} \cup NewestOf(Window(r, Never), 1) : queue' = queue \cup P
    BY DEF Eose
  <2>2. P \subseteq Wraps
    BY <2>1, IInvParts, Typed DEF NewestOf, Window
  <2>3. QED
    BY <2>1, <2>2
<1>3. /\ b \in Attempts /\ b.pc = "walk" /\ b.until = Never /\ b.largest = 0 /\ b.delivered = {}
      /\ 0 \in 0..Outage /\ 0 <= Cap
  BY IInvParts, AttemptTyped, NoWalkFields, InboxAssumption
<1> HIDE DEF b
<1>4. /\ \A q \in Relays : attempt'[q] = IF q = r THEN b ELSE attempt[q]
      /\ \A q \in Relays : q # r => lost'[q] = lost[q]
  BY <1>1, IInvParts DEF TypeOK
<1>5. TypeOK'
  BY <1>1, <1>2, <1>3, IInvParts DEF TypeOK, relayVars
<1>6. \A w \in Wraps : ~(Never < created[w])
  BY IInvParts, InboxAssumption DEF TypeOK, Times, Never
<1>7. Arrived \subseteq Arrived'
  BY <1>1, <1>2 DEF Arrived
<1>8. WalkCovers'
  BY <1>1, <1>3, <1>4, <1>6, <1>7, PagedStays, IInvParts, Typed DEF relayVars, WalkCovers
<1>9. WalkedCovers'
  BY <1>1, <1>4, <1>7, PagedStays, IInvParts DEF relayVars, WalkedCovers
<1>10. PagesArrive' /\ WalkHolds' /\ ClosedIsIdle'
  BY <1>1, <1>3, <1>4, <1>7, IInvParts DEF PagesArrive, WalkHolds, ClosedIsIdle
<1>11. PublishedOnly' /\ NotAhead' /\ SeenIsSettled'
  BY <1>1, IInvParts DEF relayVars, PublishedOnly, NotAhead, SeenIsSettled
<1>12. QED
  BY <1>5, <1>8, <1>9, <1>10, <1>11 DEF IInv

\* What a page, or its absence, leaves uncovered above where the walk goes on.
LEMMA PageCovers ==
    ASSUME IInv, Paged, NEW r \in Relays, attempt[r].pc = "walk",
           NEW page \in NewestOf(Window(r, attempt[r].until), Smaller(attempt[r].limit, Cap)),
           queue' = queue \cup (page \ attempt[r].delivered), UNCHANGED seen,
           NEW w \in stored[r], since <= created[w],
           page = {} \/ NextUntil(attempt[r], page) < created[w]
    PROVE  \/ w \in Arrived'
           \/ (IF page = {} THEN attempt[r].lowest ELSE Unresolved(attempt[r], page)) <= created[w]
<1> DEFINE a == attempt[r]
           n == Smaller(a.limit, Cap)
<1>1. /\ TypeOK /\ WalkCovers /\ a.until \in Nat /\ a.lowest \in Nat /\ a.largest \in Nat
      /\ (Capped => a.largest <= Cap) /\ a.delivered \subseteq Arrived
      /\ a.limit \in {PageLimit, 2 * PageLimit} /\ created[w] \in Nat
      /\ a.until \in Times \cup {Never}
  BY IInvParts, AttemptTyped, Typed DEF PagesArrive
<1>2. /\ n \in Nat \ {0} /\ Smaller(PageLimit, Cap) <= n /\ Smaller(PageLimit, Cap) \in Nat
      /\ Capped => n = Cap
  BY <1>1, InboxAssumption DEF Smaller, Capped
<1> HIDE DEF n
<1>3. /\ page \subseteq Wraps /\ Cardinality(page) \in Nat /\ page \subseteq Window(r, a.until)
      /\ Cardinality(page) < n \/ page = {} => page = Window(r, a.until)
      /\ \A v \in page : \A u \in Window(r, a.until) \ page : created[u] <= created[v]
  <2>1. page \in NewestOf(Window(r, a.until), n)
    BY DEF n
  <2>2. QED
    BY <1>1, <1>2, <2>1, PageOf
<1>4. page \subseteq Arrived' /\ Arrived \subseteq Arrived'
  BY <1>1 DEF Arrived
<1>5. /\ Unresolved(a, page) <= a.lowest
      /\ Saturates(a, page) => Unresolved(a, page) <= a.until
  BY <1>1 DEF Unresolved, Smaller
<1>6. Unresolved(a, page) \in Nat
  BY <1>1 DEF Unresolved, Smaller
<1> HIDE DEF a
<1>7. CASE a.until < created[w]
  BY <1>1, <1>4, <1>5, <1>6, <1>7 DEF WalkCovers, a
<1>8. CASE ~(a.until < created[w]) /\ w \notin page
  <2>1. w \in Window(r, a.until)
    BY <1>1, <1>8 DEF Window
  <2>2. page # {} /\ page # Window(r, a.until)
    BY <1>3, <1>8, <2>1
  <2>3. /\ NextUntil(a, page) < created[w]
        /\ Repeats(a, page) => NextUntil(a, page) = a.until - 1
        /\ ~Repeats(a, page) => \E v \in page : NextUntil(a, page) = created[v]
    BY <1>1, <1>3, <2>2, NextUntilOf DEF a
  <2>4. Repeats(a, page)
    <3>1. ASSUME NEW v \in page, NextUntil(a, page) = created[v]
          PROVE  FALSE
      <4>1. created[w] <= created[v] /\ created[v] \in Nat
        BY <1>1, <1>3, <1>8, <2>1, Typed
      <4>2. QED
        BY <1>1, <2>3, <3>1, <4>1
    <3>2. QED
      BY <2>3, <3>1
  <2>5. created[w] = a.until
    BY <1>1, <1>8, <2>3, <2>4
  <2>6. ~Uncrowded
    <3>1. \A v \in page : created[v] \in Nat /\ a.until <= created[v] /\ created[v] <= a.until
      BY <1>1, <1>3, <2>4, Typed DEF Repeats, Window
    <3>2. page \subseteq Second(r, a.until)
      BY <1>1, <1>3, <3>1 DEF Window, Second
    <3>3. a.until \in Times
      BY <1>1, <2>4 DEF Repeats
    <3>4. IsFiniteSet(Second(r, a.until))
      <4>1. Second(r, a.until) \subseteq Wraps
        BY <1>1, Typed DEF Second
      <4>2. QED
        BY <4>1, InboxAssumption, FS_Subset
    <3>5. /\ Cardinality(page) <= Cardinality(Second(r, a.until))
          /\ Cardinality(Second(r, a.until)) \in Nat
      BY <3>2, <3>4, FS_Subset, FS_CardinalityType
    <3>6. ~(Cardinality(page) < n)
      BY <1>3, <2>2
    <3>7. ~(Cardinality(Second(r, a.until)) < Smaller(PageLimit, Cap))
      BY <1>2, <1>3, <3>5, <3>6
    <3>8. QED
      BY <3>3, <3>7 DEF Uncrowded
  <2>7. Saturates(a, page)
    BY <1>1, <1>2, <1>3, <2>2, <2>4, <2>6 DEF Saturates, Paged
  <2>8. QED
    BY <1>5, <2>2, <2>5, <2>7 DEF a
<1>9. QED
  BY <1>4, <1>7, <1>8

\* What a page leaves of a relay's walk, as far as its largest page and what it delivered.
LEMMA ReceivedOf ==
    ASSUME IInv, NEW r \in Relays, attempt[r].pc = "walk",
           NEW page \in NewestOf(Window(r, attempt[r].until), Smaller(attempt[r].limit, Cap)),
           queue' = queue \cup (page \ attempt[r].delivered), UNCHANGED seen
    PROVE  /\ page \subseteq Wraps /\ \A w \in page : since <= created[w]
           /\ queue' \subseteq Wraps /\ Arrived \subseteq Arrived'
           /\ Larger(attempt[r].largest, Cardinality(page)) \in Nat
           /\ attempt[r].delivered \cup page \subseteq Wraps
           /\ attempt[r].delivered \cup page \subseteq Arrived'
           /\ Capped => Larger(attempt[r].largest, Cardinality(page)) <= Cap
<1> DEFINE a == attempt[r]
           n == Smaller(a.limit, Cap)
<1>1. /\ TypeOK /\ a.largest \in Nat /\ a.delivered \subseteq Wraps
      /\ a.limit \in {PageLimit, 2 * PageLimit}
      /\ (Capped => a.largest <= Cap) /\ a.delivered \subseteq Arrived
  BY IInvParts, AttemptTyped DEF PagesArrive
<1>2. n \in Nat \ {0} /\ n <= Cap /\ Cap \in Nat
  BY <1>1, InboxAssumption DEF Smaller
<1> HIDE DEF n
<1>3. /\ page \subseteq Window(r, a.until) /\ page \subseteq Wraps
      /\ Cardinality(page) \in Nat /\ Cardinality(page) <= n
  <2>1. page \in NewestOf(Window(r, a.until), n)
    BY DEF n
  <2>2. QED
    BY <1>1, <1>2, <2>1, PageOf
<1>4. \A w \in page : since <= created[w]
  BY <1>3 DEF Window
<1>5. /\ Larger(a.largest, Cardinality(page)) \in Nat
      /\ Capped => Larger(a.largest, Cardinality(page)) <= Cap
  BY <1>1, <1>2, <1>3 DEF Larger
<1>6. queue' = queue \cup (page \ a.delivered) /\ seen' = seen
  OBVIOUS
<1>7. queue' \subseteq Wraps /\ Arrived \subseteq Arrived' /\ page \subseteq Arrived'
  BY <1>1, <1>3, <1>6 DEF Arrived, TypeOK
<1>8. QED
  BY <1>1, <1>3, <1>4, <1>5, <1>7

\* What a page leaves alone, whichever way the walk goes on.
PageLeaves ==
    UNCHANGED <<relayVars, handled, open, since, gaveUp, lost, newest, seen, taken, breaks>>

\* The invariant after a page, from what is left to show of the walk it belongs to.
LEMMA AfterPage ==
    ASSUME IInv, NEW r \in Relays, NEW b \in Attempts, PageLeaves,
           attempt[r].pc = "walk", attempt' = [attempt EXCEPT ![r] = b],
           queue' \subseteq Wraps, Arrived \subseteq Arrived',
           walking' \subseteq walking, walking \ {r} \subseteq walking',
           boundary' \in [Relays -> Times \cup {Never}],
           \A q \in Relays : q # r => boundary'[q] = boundary[q],
           saved' \in Times, saved' <= now,
           b.pc = "walk" => r \in walking',
           b.delivered \subseteq Arrived', Capped => b.largest <= Cap,
           Paged => /\ b.pc = "walk" => \A w \in stored[r] :
                         since <= created[w] /\ b.until < created[w] =>
                           w \in Arrived' \/ b.lowest <= created[w]
                    /\ r \notin walking' => \A w \in stored[r] :
                         since <= created[w] => w \in Arrived' \/ boundary'[r] <= created[w]
    PROVE  IInv'
<1>1. /\ TypeOK /\ PublishedOnly /\ NotAhead /\ ClosedIsIdle /\ SeenIsSettled
      /\ WalkHolds /\ PagesArrive /\ WalkCovers /\ WalkedCovers
      /\ UNCHANGED <<now, created, stored, handled, open, since, gaveUp, lost, newest, seen, taken, breaks>>
  BY IInvParts DEF PageLeaves, relayVars
<1>2. \A q \in Relays : attempt'[q] = IF q = r THEN b ELSE attempt[q]
  BY <1>1 DEF TypeOK
<1>3. TypeOK'
  <2>1. attempt' \in [Relays -> Attempts]
    BY <1>1 DEF TypeOK
  <2>2. QED
    BY <1>1, <2>1 DEF TypeOK
<1>4. open
  BY <1>1 DEF ClosedIsIdle
<1>5. PublishedOnly' /\ NotAhead' /\ ClosedIsIdle' /\ SeenIsSettled'
  BY <1>1, <1>4 DEF PublishedOnly, NotAhead, ClosedIsIdle, SeenIsSettled
<1>6. WalkHolds' /\ PagesArrive'
  BY <1>1, <1>2 DEF WalkHolds, PagesArrive
<1>7. WalkCovers'
  BY <1>1, <1>2, PagedStays DEF WalkCovers
<1>8. WalkedCovers'
  <2>1. SUFFICES ASSUME Paged, NEW q \in Relays, q \notin walking', q \notin gaveUp,
                        NEW w \in stored[q], since <= created[w]
                 PROVE  \/ w \in Arrived' \/ boundary'[q] <= created[w]
                        \/ attempt'[q].pc \in {"down", "asked"} /\ now - lost[q] - Backdate <= created[w]
    BY <1>1, PagedStays DEF WalkedCovers
  <2>2. CASE q = r
    BY <2>1, <2>2
  <2>3. CASE q # r
    BY <1>1, <1>2, <1>4, <2>1, <2>3 DEF WalkedCovers
  <2>4. QED
    BY <2>2, <2>3
<1>9. QED
  BY <1>3, <1>5, <1>6, <1>7, <1>8 DEF IInv

\* A page: the walk asks again for the second it stopped in, goes on, or has ended.
LEMMA KeepPage ==
    ASSUME IInv, NEW r \in Relays, Page(r)
    PROVE  IInv'
<1> DEFINE a == attempt[r]
<1>1. attempt[r].pc = "walk" /\ PageLeaves /\ UNCHANGED seen
  BY DEF Page, PageLeaves
<1>2. PICK page \in NewestOf(Window(r, attempt[r].until), Smaller(attempt[r].limit, Cap)) :
        /\ queue' = queue \cup (page \ attempt[r].delivered)
        /\ PageDoubles(r, page) \/ PageContinues(r, page) \/ PageEnds(r, page)
  BY DEF Page
<1> DEFINE most == Larger(a.largest, Cardinality(page))
           all == a.delivered \cup page
           low == Unresolved(a, page)
           next == NextUntil(a, page)
<1>3. /\ page \subseteq Wraps /\ \A w \in page : since <= created[w]
      /\ queue' \subseteq Wraps /\ Arrived \subseteq Arrived' /\ most \in Nat /\ all \subseteq Wraps
      /\ all \subseteq Arrived' /\ (Capped => most <= Cap)
  BY <1>1, <1>2, ReceivedOf
<1>4. /\ TypeOK /\ NotAhead /\ WalkHolds /\ WalkCovers /\ a \in Attempts
      /\ a.failed \in 0..MaxFailed /\ a.until \in Times \cup {Never} /\ a.until \in Nat
      /\ a.lowest \in Times \cup {Never} /\ a.lowest \in Nat
      /\ r \in walking /\ now \in Times /\ saved \in Times
      /\ boundary \in [Relays -> Times \cup {Never}] /\ newest \in Nat
      /\ attempt \in [Relays -> Attempts]
  BY <1>1, IInvParts, AttemptTyped, Typed DEF WalkHolds, TypeOK
<1>5. low \in Times \cup {Never} /\ low <= a.lowest
  BY <1>4 DEF Unresolved, Smaller
<1>6. Paged => \A w \in stored[r] :
        since <= created[w] /\ (page = {} \/ next < created[w]) =>
          w \in Arrived' \/ (IF page = {} THEN a.lowest ELSE low) <= created[w]
  BY <1>1, <1>2, PageCovers
<1>7. CASE PageDoubles(r, page)
  <2> DEFINE b == [a EXCEPT !.largest = most, !.delivered = all, !.limit = 2 * PageLimit]
  <2>1. attempt' = [attempt EXCEPT ![r] = b] /\ UNCHANGED <<saved, walking, boundary>>
    BY <1>7, <1>4 DEF PageDoubles, Received, Attempts
  <2>2. /\ b \in Attempts /\ b.pc = "walk" /\ b.largest = most /\ b.delivered = all
        /\ b.until = a.until /\ b.lowest = a.lowest
    <3> HIDE DEF most, all
    <3>1. a \in Attempts /\ a.pc = "walk"
      BY <1>1, <1>4
    <3> HIDE DEF a
    <3>2. QED
      BY <1>3, <3>1 DEF Attempts
  <2> HIDE DEF b
  <2>3. Paged => \A w \in stored[r] :
          since <= created[w] /\ b.until < created[w] => w \in Arrived' \/ b.lowest <= created[w]
    BY <1>1, <1>3, <1>4, <2>2 DEF WalkCovers
  <2>4. saved <= now
    BY <1>4 DEF NotAhead
  <2> HIDE DEF most, all, low, next, a
  <2>5. QED
    BY <1>1, <1>3, <1>4, <2>1, <2>2, <2>3, <2>4, AfterPage
<1>8. CASE PageContinues(r, page)
  <2> DEFINE b == [a EXCEPT !.largest = most, !.delivered = all, !.limit = PageLimit,
                            !.until = next, !.lowest = low]
  <2>1. /\ attempt' = [attempt EXCEPT ![r] = b] /\ UNCHANGED <<saved, walking>>
        /\ boundary' = [boundary EXCEPT ![r] = IF Saturates(a, page) THEN Smaller(@, low) ELSE @]
        /\ page # {} /\ next >= since
    BY <1>8, <1>4 DEF PageContinues, Received, Attempts, Ends
  <2>2. next \in Times \cup {Never}
    <3>1. Repeats(a, page) => next = a.until - 1
      BY <1>3, <1>4, <2>1, NextUntilOf
    <3>2. ~Repeats(a, page) => \E w \in page : next = created[w]
      BY <1>3, <1>4, <2>1, NextUntilOf
    <3>3. since \in Nat /\ MaxTime \in Nat
      BY <1>4, Typed
    <3> HIDE DEF next, a
    <3>4. CASE Repeats(a, page)
      BY <1>4, <2>1, <3>1, <3>3, <3>4 DEF Times, Never
    <3>5. CASE ~Repeats(a, page)
      BY <1>3, <1>4, <3>2, <3>5 DEF TypeOK
    <3>6. QED
      BY <3>4, <3>5
  <2>3. /\ b \in Attempts /\ b.pc = "walk" /\ b.largest = most /\ b.delivered = all
        /\ b.until = next /\ b.lowest = low
    <3> HIDE DEF most, all, low, next
    <3>1. a \in Attempts /\ a.pc = "walk"
      BY <1>1, <1>4
    <3> HIDE DEF a
    <3>2. QED
      BY <1>3, <1>5, <2>2, <3>1 DEF Attempts
  <2>4. Paged => \A w \in stored[r] :
          since <= created[w] /\ b.until < created[w] => w \in Arrived' \/ b.lowest <= created[w]
    BY <1>6, <2>1, <2>3
  <2>5. /\ boundary' \in [Relays -> Times \cup {Never}]
        /\ \A q \in Relays : q # r => boundary'[q] = boundary[q]
    <3> HIDE DEF low
    <3>1. (IF Saturates(a, page) THEN Smaller(boundary[r], low) ELSE boundary[r]) \in Times \cup {Never}
      BY <1>4, <1>5 DEF Smaller
    <3>2. QED
      BY <1>4, <2>1, <3>1
  <2>6. saved <= now
    BY <1>4 DEF NotAhead
  <2> HIDE DEF b, most, all, low, next, a
  <2>7. QED
    BY <1>1, <1>3, <1>4, <2>1, <2>3, <2>4, <2>5, <2>6, AfterPage
<1>9. CASE PageEnds(r, page)
  <2> DEFINE b == NoWalk("live", a.failed)
             bound == IF page = {} THEN a.lowest ELSE low
  <2>1. /\ attempt' = [attempt EXCEPT ![r] = b] /\ boundary' = [boundary EXCEPT ![r] = bound]
        /\ walking' = walking \ {r} /\ (page = {} \/ next < since)
        /\ AdvanceWhenSettled(queue' \cup taken, walking', newest, boundary')
    <3>1. next \in Int \/ page = {}
      <4>1. page # {} => (Repeats(a, page) => next = a.until - 1)
                         /\ (~Repeats(a, page) => \E w \in page : next = created[w])
        BY <1>3, <1>4, NextUntilOf
      <4> HIDE DEF next, a
      <4>2. QED
        BY <1>3, <1>4, <4>1, Typed
    <3>2. since \in Nat
      BY <1>4, Typed
    <3>3. ~(page # {} /\ next >= since)
      BY <1>9 DEF PageEnds, Ends
    <3>4. page = {} \/ next < since
      <4> HIDE DEF next
      <4>1. QED
        BY <3>1, <3>2, <3>3
    <3>5. QED
      BY <1>9, <3>4 DEF PageEnds
  <2>2. /\ b \in Attempts /\ b.pc = "live" /\ b.largest = 0 /\ b.delivered = {}
        /\ bound \in Times \cup {Never}
    BY <1>4, <1>5, NoWalkFields
  <2>3. 0 <= Cap
    BY InboxAssumption
  <2>4. /\ boundary' \in [Relays -> Times \cup {Never}] /\ boundary'[r] = bound
        /\ \A q \in Relays : q # r => boundary'[q] = boundary[q]
    <3> HIDE DEF bound
    <3>1. QED
      BY <1>4, <2>1, <2>2
  <2>5. saved' \in Times /\ saved' <= now
    <3>1. boundary' \in [Relays -> Nat]
      BY <1>4, <2>4, Typed
    <3>2. saved' # saved => saved' \in Nat /\ saved' <= newest
      <4> HIDE DEF b, bound, most, all, low, next, a
      <4>1. QED
        BY <1>4, <2>1, <3>1, CursorMoves
    <3>3. QED
      BY <1>4, <3>2, Typed DEF NotAhead, Times
  <2>6. Paged =>
          \A w \in stored[r] : since <= created[w] => w \in Arrived' \/ boundary'[r] <= created[w]
    <3>1. SUFFICES ASSUME Paged, NEW w \in stored[r], since <= created[w]
                   PROVE  w \in Arrived' \/ bound <= created[w]
      BY <2>4
    <3>2. page = {} \/ next < created[w]
      <4>1. created[w] \in Nat /\ since \in Nat
        BY <1>4, Typed
      <4>2. page # {} => next \in Int
        <5>1. page # {} => (Repeats(a, page) => next = a.until - 1)
                           /\ (~Repeats(a, page) => \E v \in page : next = created[v])
          BY <1>3, <1>4, NextUntilOf
        <5> HIDE DEF next, a
        <5>2. QED
          BY <1>3, <1>4, <5>1, Typed
      <4> HIDE DEF next
      <4>3. QED
        BY <2>1, <3>1, <4>1, <4>2
    <3>3. QED
      BY <1>6, <3>1, <3>2
  <2>7. walking' \subseteq walking /\ walking \ {r} \subseteq walking'
    <3>1. walking' = walking \ {r}
      BY <1>9 DEF PageEnds
    <3>2. QED
      BY <3>1
  <2>8. b.largest <= Cap /\ b.delivered \subseteq Arrived' /\ b.pc # "walk"
    BY <2>2, <2>3
  <2> HIDE DEF b, bound, most, all, low, next, a
  <2>9. QED
    BY <1>1, <1>3, <1>4, <2>1, <2>2, <2>4, <2>5, <2>6, <2>7, <2>8, AfterPage
<1>10. QED
  BY <1>2, <1>7, <1>8, <1>9

\* A connection breaks: its walk is lost, and after MaxFailed of them the relay is given up.
LEMMA KeepBreak ==
    ASSUME IInv, NEW r \in Relays, Break(r)
    PROVE  IInv'
<1> DEFINE failed == IF r \in walking THEN Smaller(attempt[r].failed + 1, MaxFailed) ELSE 0
           b == NoWalk("down", failed)
<1>1. /\ TypeOK /\ PublishedOnly /\ NotAhead /\ ClosedIsIdle /\ SeenIsSettled
      /\ WalkHolds /\ PagesArrive /\ WalkCovers /\ WalkedCovers
  BY IInvParts
<1>2. /\ UNCHANGED <<now, created, stored, handled, open, since, boundary, lost, newest, queue, seen, taken>>
      /\ attempt[r].pc # "down" /\ breaks' = breaks + 1 /\ breaks < MaxBreaks
      /\ attempt' = [attempt EXCEPT ![r] = b]
      /\ \/ /\ r \in walking /\ walking' = walking \ {r} /\ gaveUp' = gaveUp \cup {r}
            /\ AdvanceWhenSettled(queue \cup taken, walking', newest, boundary)
         \/ UNCHANGED <<walking, gaveUp, saved>>
  BY DEF Break, Connected, relayVars, streamVars
<1>3. failed \in 0..MaxFailed
  BY <1>1, AttemptTyped, InboxAssumption DEF Smaller
<1>4. b \in Attempts /\ b.pc = "down" /\ b.largest = 0 /\ b.delivered = {}
  BY <1>3, NoWalkFields
<1> HIDE DEF b, failed
<1>5. \A q \in Relays : attempt'[q] = IF q = r THEN b ELSE attempt[q]
  BY <1>1, <1>2 DEF TypeOK
<1>6. saved' \in Times /\ saved' <= now
  <2>1. newest \in Nat /\ boundary \in [Relays -> Nat]
    BY <1>1, Typed DEF TypeOK
  <2>2. saved' # saved => saved' \in Nat /\ saved' <= newest
    BY <1>2, <2>1, CursorMoves
  <2>3. QED
    BY <1>1, <2>1, <2>2, Typed DEF NotAhead, TypeOK, Times
<1>7. open
  BY <1>1, <1>2 DEF ClosedIsIdle
<1>8. TypeOK'
  <2>1. breaks' \in 0..MaxBreaks
    BY <1>1, <1>2, InboxAssumption DEF TypeOK
  <2>2. attempt' \in [Relays -> Attempts]
    BY <1>1, <1>2, <1>4 DEF TypeOK
  <2>3. walking' \subseteq Relays /\ gaveUp' \subseteq Relays \ walking'
    BY <1>1, <1>2 DEF TypeOK
  <2>4. QED
    BY <1>1, <1>2, <1>6, <2>1, <2>2, <2>3 DEF TypeOK
<1>9. PublishedOnly' /\ NotAhead' /\ ClosedIsIdle' /\ SeenIsSettled'
  BY <1>1, <1>2, <1>6, <1>7 DEF PublishedOnly, NotAhead, ClosedIsIdle, SeenIsSettled
<1>10. Arrived' = Arrived
  BY <1>2 DEF Arrived
<1>11. 0 <= Cap
  BY InboxAssumption
<1>12. WalkHolds' /\ PagesArrive'
  BY <1>1, <1>2, <1>4, <1>5, <1>10, <1>11 DEF WalkHolds, PagesArrive
<1>13. WalkCovers'
  BY <1>1, <1>2, <1>4, <1>5, <1>10, PagedStays DEF WalkCovers
<1>14. WalkedCovers'
  <2>1. SUFFICES ASSUME Paged, NEW q \in Relays, q \notin walking', q \notin gaveUp', NEW w \in stored[q],
                        since <= created[w]
                 PROVE  \/ w \in Arrived \/ boundary[q] <= created[w]
                        \/ attempt'[q].pc \in {"down", "asked"} /\ now - lost[q] - Backdate <= created[w]
    BY <1>2, <1>10, PagedStays DEF WalkedCovers
  <2>2. q \notin walking /\ q \notin gaveUp
    BY <1>2, <2>1
  <2>3. \/ w \in Arrived \/ boundary[q] <= created[w]
        \/ attempt[q].pc \in {"down", "asked"} /\ now - lost[q] - Backdate <= created[w]
    BY <1>1, <1>7, <2>1, <2>2 DEF WalkedCovers
  <2>4. attempt[q].pc \in {"down", "asked"} => attempt'[q].pc \in {"down", "asked"}
    BY <1>4, <1>5
  <2>5. QED
    BY <2>3, <2>4
<1>15. QED
  BY <1>8, <1>9, <1>12, <1>13, <1>14 DEF IInv

\* A step of the stream or of its consumer: the walks, and what has arrived, stay.
LEMMA AfterSettling ==
    ASSUME IInv, UNCHANGED <<relayVars, open, since, walkVars, breaks>>, open,
           Arrived' = Arrived, queue' \subseteq queue, seen \subseteq seen', taken' \subseteq seen',
           handled \subseteq handled', handled' \subseteq Wraps,
           seen' \ taken' \subseteq handled', newest' \in Times, newest' <= now,
           AdvanceWhenSettled(queue' \cup taken', walking, newest', boundary) \/ saved' = saved
    PROVE  IInv'
<1>1. /\ TypeOK /\ PublishedOnly /\ NotAhead /\ ClosedIsIdle /\ SeenIsSettled
      /\ WalkHolds /\ PagesArrive /\ WalkCovers /\ WalkedCovers
      /\ UNCHANGED <<now, created, stored, open, since, walking, boundary, attempt, gaveUp, lost, breaks>>
  BY IInvParts DEF relayVars, walkVars
<1>2. saved' \in Times /\ saved' <= now
  <2>1. newest' \in Nat /\ boundary \in [Relays -> Nat]
    BY <1>1, Typed DEF TypeOK
  <2>2. saved' # saved => saved' \in Nat /\ saved' <= newest'
    <3>1. SUFFICES ASSUME saved' # saved PROVE saved' \in Nat /\ saved' <= newest'
      OBVIOUS
    <3>2. AdvanceWhenSettled(queue' \cup taken', walking, newest', boundary)
      BY <3>1
    <3>3. QED
      BY <2>1, <3>1, <3>2, CursorMoves
  <2>3. QED
    BY <1>1, <2>1, <2>2, Typed DEF NotAhead, TypeOK, Times
<1>3. seen' \subseteq Wraps
  BY <1>1 DEF Arrived, TypeOK
<1>4. TypeOK'
  BY <1>1, <1>2, <1>3 DEF TypeOK
<1>5. PublishedOnly' /\ NotAhead' /\ ClosedIsIdle' /\ SeenIsSettled'
  BY <1>1, <1>2 DEF PublishedOnly, NotAhead, ClosedIsIdle, SeenIsSettled
<1>6. WalkHolds' /\ PagesArrive' /\ WalkCovers' /\ WalkedCovers'
  BY <1>1, PagedStays DEF WalkHolds, PagesArrive, WalkCovers, WalkedCovers
<1>7. QED
  BY <1>4, <1>5, <1>6 DEF IInv

\* The stream takes a wrap: one seen before is settled, a new one is handed over.
LEMMA KeepProcess ==
    ASSUME IInv, NEW w \in Wraps, Process(w)
    PROVE  IInv'
<1>1. /\ TypeOK /\ ClosedIsIdle /\ SeenIsSettled /\ NotAhead
      /\ w \in queue /\ queue' = queue \ {w} /\ seen' = seen \cup {w}
      /\ UNCHANGED <<relayVars, open, since, walkVars, breaks>> /\ UNCHANGED <<handled, newest>>
      /\ \/ /\ w \in seen /\ taken' = taken
            /\ AdvanceWhenSettled(queue' \cup taken, walking, newest, boundary)
         \/ taken' = taken \cup {w} /\ saved' = saved
  BY IInvParts DEF Process
<1>2. open /\ newest' \in Times /\ newest' <= now
  BY <1>1 DEF ClosedIsIdle, NotAhead, TypeOK
<1>3. AdvanceWhenSettled(queue' \cup taken', walking, newest', boundary) \/ saved' = saved
  BY <1>1
<1>4. /\ Arrived' = Arrived /\ taken' \subseteq seen' /\ seen' \ taken' \subseteq handled'
      /\ handled' \subseteq Wraps
  BY <1>1 DEF Arrived, SeenIsSettled, TypeOK
<1>5. QED
  BY <1>1, <1>2, <1>3, <1>4, AfterSettling

\* The consumer confirms an event.
LEMMA KeepConfirm ==
    ASSUME IInv, NEW w \in Wraps, Confirm(w)
    PROVE  IInv'
<1>1. /\ TypeOK /\ ClosedIsIdle /\ SeenIsSettled /\ NotAhead
      /\ w \in taken /\ taken' = taken \ {w} /\ handled' = handled \cup {w}
      /\ newest' = Larger(newest, Smaller(created[w], now))
      /\ UNCHANGED <<relayVars, open, since, walkVars, breaks>> /\ UNCHANGED <<queue, seen>>
      /\ AdvanceWhenSettled(queue \cup taken', walking, newest', boundary)
  BY IInvParts DEF Confirm
<1>2. newest' \in Times /\ newest' <= now
  <2>1. newest \in Nat /\ now \in Nat /\ created[w] \in Nat /\ newest <= now /\ now <= MaxTime
        /\ MaxTime \in Nat
    BY <1>1, Typed DEF NotAhead, TypeOK, Times
  <2>2. newest' \in Nat /\ newest' <= now
    BY <1>1, <2>1 DEF Larger, Smaller
  <2>3. QED
    BY <2>1, <2>2 DEF Times
<1>3. AdvanceWhenSettled(queue' \cup taken', walking, newest', boundary)
  BY <1>1
<1>4. /\ Arrived' = Arrived /\ taken' \subseteq seen' /\ seen' \ taken' \subseteq handled'
      /\ handled' \subseteq Wraps /\ open
  BY <1>1 DEF Arrived, SeenIsSettled, TypeOK, ClosedIsIdle
<1>5. QED
  BY <1>1, <1>2, <1>3, <1>4, AfterSettling

\* A wrap is published: an open subscription hands it on, a relay that is out of touch
\* keeps it, no older than a sender's Backdate.
LEMMA KeepPublish ==
    ASSUME IInv, NEW w \in Wraps, Publish(w)
    PROVE  IInv'
<1>1. /\ TypeOK /\ PublishedOnly /\ NotAhead /\ ClosedIsIdle /\ SeenIsSettled
      /\ WalkHolds /\ PagesArrive /\ WalkCovers /\ WalkedCovers
      /\ UNCHANGED <<now, saved, handled, open, since, walking, boundary, attempt, gaveUp, lost,
                     newest, seen, taken, breaks>>
      /\ created[w] = Never
  BY IInvParts DEF Publish, walkVars
<1>2. PICK t \in {u \in Times : now - Backdate <= u /\ u <= now + Ahead}, S \in Reach[w] :
         /\ created' = [created EXCEPT ![w] = t]
         /\ stored' = [r \in Relays |-> IF r \in S THEN stored[r] \cup {w} ELSE stored[r]]
         /\ queue' = IF t >= since /\ \E r \in S : Connected(r) THEN queue \cup {w} ELSE queue
  BY DEF Publish
<1>3. t \in Times /\ now - Backdate <= t /\ S \subseteq Relays
  BY <1>2, InboxAssumption
<1>4. created'[w] = t /\ \A v \in Wraps : v # w => created'[v] = created[v]
  BY <1>1, <1>2 DEF TypeOK
<1>5. \A r \in Relays : \A v \in stored'[r] : (v \in stored[r] /\ v # w) \/ (v = w /\ r \in S)
  <2>1. \A r \in Relays : w \notin stored[r]
    BY <1>1 DEF PublishedOnly
  <2>2. \A r \in Relays : stored'[r] = IF r \in S THEN stored[r] \cup {w} ELSE stored[r]
    BY <1>2
  <2>3. QED
    BY <2>1, <2>2
<1>6. TypeOK'
  <2>1. created' \in [Wraps -> Times \cup {Never}] /\ stored' \in [Relays -> SUBSET Wraps]
        /\ queue' \subseteq Wraps
    BY <1>1, <1>2, <1>3 DEF TypeOK
  <2>2. QED
    BY <1>1, <2>1 DEF TypeOK
<1>7. Arrived \subseteq Arrived' /\ queue \subseteq queue'
  BY <1>1, <1>2 DEF Arrived
<1>8. \A r \in S : since <= t /\ attempt[r].pc # "down" => w \in Arrived'
  BY <1>1, <1>2, <1>3, Typed DEF Connected, Arrived, Times
<1>9. PublishedOnly' /\ NotAhead' /\ SeenIsSettled' /\ WalkHolds' /\ PagesArrive'
  <2>1. t # Never
    BY <1>3, InboxAssumption DEF Times, Never
  <2>2. \A r \in Relays : \A v \in stored[r] : v \in Wraps
    BY <1>1, Typed
  <2>3. PublishedOnly'
    BY <1>1, <1>4, <1>5, <2>1, <2>2 DEF PublishedOnly
  <2>4. QED
    BY <1>1, <1>7, <2>3 DEF NotAhead, SeenIsSettled, WalkHolds, PagesArrive
<1>10. ClosedIsIdle'
  <2>1. ~open => queue' = {}
    BY <1>1, <1>2, <1>3 DEF ClosedIsIdle, Connected
  <2>2. QED
    BY <1>1, <2>1 DEF ClosedIsIdle
<1>11. Paged' => Paged
  <2>1. \A r \in Relays : \A v \in stored[r] : v \in Wraps /\ v # w
    BY <1>1, Typed DEF PublishedOnly
  <2>2. \A r \in Relays : stored[r] \subseteq stored'[r] /\ stored'[r] \subseteq Wraps
    BY <1>1, <1>2, <1>6, Typed
  <2>3. QED
    BY <1>4, <2>1, <2>2, PagedEarlier
<1>12. WalkCovers'
  <2>1. SUFFICES ASSUME Paged, NEW r \in Relays, attempt[r].pc = "walk", NEW v \in stored'[r],
                        since <= created'[v], attempt[r].until < created'[v]
                 PROVE  v \in Arrived' \/ attempt[r].lowest <= created'[v]
    BY <1>1, <1>11 DEF WalkCovers
  <2>2. CASE v \in stored[r] /\ v # w
    <3>1. created'[v] = created[v]
      BY <1>1, <1>4, <2>2, Typed
    <3>2. QED
      BY <1>1, <1>7, <2>1, <2>2, <3>1 DEF WalkCovers
  <2>3. CASE v = w /\ r \in S
    BY <1>4, <1>8, <2>1, <2>3
  <2>4. QED
    BY <1>5, <2>2, <2>3
<1>13. WalkedCovers'
  <2>1. SUFFICES ASSUME Paged, open, NEW r \in Relays, r \notin walking, r \notin gaveUp,
                        NEW v \in stored'[r], since <= created'[v]
                 PROVE  \/ v \in Arrived' \/ boundary[r] <= created'[v]
                        \/ attempt[r].pc \in {"down", "asked"} /\ now - lost[r] - Backdate <= created'[v]
    BY <1>1, <1>11 DEF WalkedCovers
  <2>2. CASE v \in stored[r] /\ v # w
    <3>1. created'[v] = created[v]
      BY <1>1, <1>4, <2>2, Typed
    <3>2. QED
      BY <1>1, <1>7, <2>1, <2>2, <3>1 DEF WalkedCovers
  <2>3. CASE v = w /\ r \in S
    <3>1. attempt[r].pc # "down" => w \in Arrived'
      BY <1>4, <1>8, <2>1, <2>3
    <3>2. now - lost[r] - Backdate <= t
      BY <1>1, <1>3, Typed, InboxAssumption DEF Times
    <3>3. QED
      BY <1>4, <2>3, <3>1, <3>2
  <2>4. QED
    BY <1>5, <2>2, <2>3
<1>14. QED
  BY <1>6, <1>9, <1>10, <1>12, <1>13 DEF IInv

\* Time passes, and a relay that is out of touch is missed for longer.
LEMMA KeepTick ==
    ASSUME IInv, Tick
    PROVE  IInv'
<1>1. /\ TypeOK /\ PublishedOnly /\ NotAhead /\ ClosedIsIdle /\ SeenIsSettled
      /\ WalkHolds /\ PagesArrive /\ WalkCovers /\ WalkedCovers
      /\ UNCHANGED <<created, stored, saved, handled, open, since, walking, boundary, attempt, gaveUp,
                     newest, queue, seen, taken, breaks>>
      /\ now' = now + 1 /\ now < MaxTime /\ \A r \in Relays : OutOfTouch(r) => lost[r] < Outage
      /\ lost' = [r \in Relays |-> IF OutOfTouch(r) THEN lost[r] + 1 ELSE lost[r]]
  BY IInvParts DEF Tick, streamVars
<1>2. now \in Nat /\ now' \in Nat /\ now' \in Times
  BY <1>1, Typed DEF Times
<1>3. \A r \in Relays : lost[r] \in Nat /\ lost'[r] \in 0..Outage
  BY <1>1, Typed
<1>4. TypeOK'
  BY <1>1, <1>2, <1>3 DEF TypeOK
<1>5. NotAhead'
  BY <1>1, <1>2, Typed DEF NotAhead
<1>6. PublishedOnly' /\ ClosedIsIdle' /\ SeenIsSettled' /\ WalkHolds' /\ PagesArrive' /\ WalkCovers'
      /\ Arrived' = Arrived
  BY <1>1, PagedStays
     DEF PublishedOnly, ClosedIsIdle, SeenIsSettled, WalkHolds, PagesArrive, WalkCovers, Arrived
<1>7. WalkedCovers'
  <2>1. SUFFICES ASSUME Paged, open, NEW r \in Relays, r \notin walking, r \notin gaveUp,
                        NEW w \in stored[r], since <= created[w]
                 PROVE  \/ w \in Arrived \/ boundary[r] <= created[w]
                        \/ attempt[r].pc \in {"down", "asked"} /\ now' - lost'[r] - Backdate <= created[w]
    BY <1>1, <1>6, PagedStays DEF WalkedCovers
  <2>2. attempt[r].pc \in {"down", "asked"} => now' - lost'[r] = now - lost[r]
    BY <1>1, <1>2, <1>3, <2>1 DEF OutOfTouch
  <2>3. QED
    BY <1>1, <2>1, <2>2 DEF WalkedCovers
<1>8. QED
  BY <1>4, <1>5, <1>6, <1>7 DEF IInv

\* The invariant is inductive.
LEMMA IInvStep ==
    ASSUME IInv, [Next]_vars
    PROVE  IInv'
<1>1. CASE Open
  BY <1>1, KeepOpen
<1>2. CASE Close
  BY <1>2, KeepClose
<1>3. CASE \E r \in Relays : Relay(r)
  BY <1>3, KeepSubscribe, KeepEose, KeepPage, KeepBreak DEF Relay
<1>4. CASE \E w \in Wraps : Process(w) \/ Confirm(w) \/ Publish(w)
  BY <1>4, KeepProcess, KeepConfirm, KeepPublish
<1>5. CASE Tick
  BY <1>5, KeepTick
<1>6. CASE UNCHANGED vars
  BY <1>6, PagedStays DEF vars, relayVars, sessionVars, walkVars, streamVars, IInv, TypeOK, PublishedOnly, NotAhead,
     ClosedIsIdle, SeenIsSettled, WalkHolds, PagesArrive, WalkCovers, WalkedCovers, Arrived
<1>7. QED
  BY <1>1, <1>2, <1>3, <1>4, <1>5, <1>6 DEF Next

-----------------------------------------------------------------------------
(* The theorems                                                            *)

\* Whatever is published, whichever connections and sessions break and in whatever
\* order events are confirmed: what a walk has come past has arrived, or is held by
\* a boundary, or was published while its relay was out of touch, while pages
\* are large enough (walkBack, subscribeAndWalk, processRaw of inbox/WrapInbox.ts).
THEOREM WrapInvariant == Spec => []IInv
<1>1. IInv /\ [Next]_vars => IInv'
  BY IInvStep
<1>2. QED
  BY InitIInv, <1>1, PTL DEF Spec

\* Every variable keeps its type: the clocks, the cursor and every walk (inbox/WrapInbox.ts).
THEOREM TypeCorrect == Spec => []TypeOK
<1>1. IInv => TypeOK
  BY DEF IInv
<1>2. QED
  BY WrapInvariant, <1>1, PTL

\* The cursor moves when nothing is outstanding, walked or unconfirmed, up to the
\* newest confirmed wrap and no boundary; relays and window stay.
LEMMA SavedSettles ==
    ASSUME IInv, IInv', Next, saved' # saved
    PROVE  /\ queue' = {} /\ taken' = {} /\ walking' = {} /\ open'
           /\ saved' <= newest' /\ \A r \in Relays : saved' <= boundary'[r]
           /\ UNCHANGED <<now, created, stored, since>>
<1>1. SUFFICES ASSUME NEW outstanding, outstanding = queue' \cup taken',
                      AdvanceWhenSettled(outstanding, walking', newest', boundary'), open',
                      UNCHANGED <<now, created, stored, since>>
               PROVE  /\ queue' = {} /\ taken' = {} /\ walking' = {} /\ open'
                      /\ saved' <= newest' /\ \A r \in Relays : saved' <= boundary'[r]
                      /\ UNCHANGED <<now, created, stored, since>>
  <2>1. /\ ~Open /\ ~Close /\ ~Tick /\ \A r \in Relays : ~Subscribe(r) /\ ~Eose(r)
        /\ \A w \in Wraps : ~Publish(w)
    BY DEF Open, Close, Tick, Subscribe, Eose, Publish
  <2>2. ClosedIsIdle /\ SeenIsSettled /\ TypeOK
    BY IInvParts
  <2>3. CASE \E r \in Relays : Page(r)
    <3>1. PICK r \in Relays : Page(r)
      BY <2>3
    <3>2. attempt[r].pc = "walk" /\ UNCHANGED <<now, created, stored, since, open, taken, newest>>
      BY <3>1 DEF Page, relayVars
    <3>3. PICK page : PageDoubles(r, page) \/ PageContinues(r, page) \/ PageEnds(r, page)
      BY <3>1 DEF Page
    <3>4. PageEnds(r, page)
      BY <3>3 DEF PageDoubles, PageContinues
    <3>5. AdvanceWhenSettled(queue' \cup taken', walking', newest', boundary')
      BY <3>2, <3>4 DEF PageEnds
    <3>6. open'
      BY <2>2, <3>2 DEF ClosedIsIdle
    <3>7. QED
      BY <1>1, <3>2, <3>5, <3>6
  <2>4. CASE \E r \in Relays : Break(r)
    <3>1. PICK r \in Relays : Break(r)
      BY <2>4
    <3>2. /\ attempt[r].pc # "down"
          /\ UNCHANGED <<now, created, stored, since, open, queue, taken, newest, boundary>>
          /\ AdvanceWhenSettled(queue \cup taken, walking', newest, boundary)
      BY <3>1 DEF Break, relayVars, streamVars, Connected
    <3>3. AdvanceWhenSettled(queue' \cup taken', walking', newest', boundary')
      BY <3>2
    <3>4. open'
      BY <2>2, <3>2 DEF ClosedIsIdle
    <3>5. QED
      BY <1>1, <3>2, <3>3, <3>4
  <2>5. CASE \E w \in Wraps : Process(w)
    <3>1. PICK w \in Wraps : Process(w)
      BY <2>5
    <3>2. /\ w \in queue
          /\ UNCHANGED <<now, created, stored, since, open, taken, newest, boundary, walking>>
          /\ AdvanceWhenSettled(queue' \cup taken, walking, newest, boundary)
      BY <3>1 DEF Process, relayVars, walkVars
    <3>3. AdvanceWhenSettled(queue' \cup taken', walking', newest', boundary')
      BY <3>2
    <3>4. open'
      BY <2>2, <3>2 DEF ClosedIsIdle
    <3>5. QED
      BY <1>1, <3>2, <3>3, <3>4
  <2>6. CASE \E w \in Wraps : Confirm(w)
    <3>1. PICK w \in Wraps : Confirm(w)
      BY <2>6
    <3>2. /\ w \in taken
          /\ UNCHANGED <<now, created, stored, since, open, queue, boundary, walking>>
          /\ AdvanceWhenSettled(queue \cup taken', walking, newest', boundary)
      BY <3>1 DEF Confirm, relayVars, walkVars
    <3>3. AdvanceWhenSettled(queue' \cup taken', walking', newest', boundary')
      BY <3>2
    <3>4. open'
      BY <2>2, <3>2 DEF ClosedIsIdle
    <3>5. QED
      BY <1>1, <3>2, <3>3, <3>4
  <2>7. QED
    BY <2>1, <2>3, <2>4, <2>5, <2>6 DEF Next, Relay
<1>2. newest' \in Nat /\ boundary' \in [Relays -> Nat]
  <2>1. TypeOK' /\ Times \subseteq Nat /\ Never \in Nat
    BY IInvParts, Typed DEF IInv
  <2>2. QED
    BY <2>1 DEF TypeOK
<1>3. /\ outstanding = {} /\ walking' = {} /\ saved' <= newest'
      /\ \A r \in Relays : saved' <= boundary'[r]
  BY <1>1, <1>2, CursorMoves
<1>4. QED
  BY <1>1, <1>3

\* Where the cursor moves to, the next session leaves out nothing that is not stored.
LEMMA MoveSkipsNothing ==
    ASSUME Paged', IInv, IInv', Next, saved' # saved, NEW r \in Relays, r \notin gaveUp',
           NEW w \in stored[r], w \notin handled', since <= created[w]
    PROVE  saved' - Margin <= created[w]
<1>1. /\ queue' = {} /\ taken' = {} /\ walking' = {} /\ open'
      /\ saved' <= newest' /\ saved' <= boundary'[r]
      /\ UNCHANGED <<now, created, stored, since>>
  BY SavedSettles
<1>2. TypeOK /\ TypeOK' /\ NotAhead' /\ SeenIsSettled' /\ WalkedCovers'
  BY DEF IInv
<1>3. /\ created[w] \in Nat /\ now \in Nat /\ saved' \in Nat /\ newest' \in Nat /\ boundary'[r] \in Nat
      /\ lost'[r] \in Nat /\ lost'[r] <= Outage /\ newest' <= now
  BY <1>1, <1>2, Typed DEF TypeOK, NotAhead, Times, Never
<1>4. /\ Margin \in Nat /\ Backdate \in Nat /\ Outage \in Nat /\ Backdate + Outage <= Margin
  BY InboxAssumption
<1>5. \/ w \in Arrived' \/ boundary'[r] <= created[w] \/ now - lost'[r] - Backdate <= created[w]
  BY <1>1, <1>2 DEF WalkedCovers
<1>6. w \notin Arrived'
  BY <1>1, <1>2 DEF Arrived, SeenIsSettled
<1>7. QED
  BY <1>1, <1>3, <1>4, <1>5, <1>6

\* A wrap that is published later is no older than a margin behind the cursor.
LEMMA PublishedLater ==
    ASSUME IInv, Next, NEW r \in Relays, NEW w \in stored'[r], w \notin stored[r]
    PROVE  saved - Margin <= created'[w]
<1>1. PICK v \in Wraps : Publish(v)
  <2>1. stored' # stored
    OBVIOUS
  <2>2. ~\E v \in Wraps : Process(v) \/ Confirm(v)
    BY <2>1 DEF Process, Confirm, relayVars
  <2>3. ~Open /\ ~Close /\ ~Tick /\ ~\E q \in Relays : Relay(q)
    BY <2>1 DEF Open, Close, Tick, Relay, Subscribe, Eose, Page, Break, relayVars
  <2>4. QED
    BY <2>2, <2>3 DEF Next
<1>2. TypeOK /\ NotAhead
  BY IInvParts
<1>3. PICK t \in {u \in Times : now - Backdate <= u /\ u <= now + Ahead} :
        /\ created' = [created EXCEPT ![v] = t]
        /\ \E S \in Reach[v] :
             stored' = [q \in Relays |-> IF q \in S THEN stored[q] \cup {v} ELSE stored[q]]
  BY <1>1 DEF Publish
<1>4. w = v
  BY <1>3
<1>5. created'[w] = t
  BY <1>2, <1>3, <1>4 DEF TypeOK
<1>6. QED
  BY <1>2, <1>3, <1>5, Typed, InboxAssumption DEF NotAhead, Times

\* NothingSkipped, for every set of relays and wraps, every clock, margin and clamp,
\* as long as relays return at most a page or store less than one for a second:
\* wherever the cursor moves to (advanceWhenSettled), the next session's window holds
\* every wrap that is not stored yet, on a relay that was not given up, and every wrap
\* that is published later.
THEOREM SkipsNothing == Spec /\ []Paged => NothingSkipped
<1> DEFINE Step ==
      /\ saved' # saved =>
           \A r \in Relays \ gaveUp' : \A w \in stored[r] \ handled' :
               since <= created[w] => saved' - Margin <= created[w]
      /\ \A r \in Relays : \A w \in stored'[r] \ stored[r] :
           saved - Margin <= created'[w]
<1>1. IInv /\ IInv' /\ Paged' /\ [Next]_vars => [Step]_vars
  <2>1. SUFFICES ASSUME IInv, IInv', Paged', Next
                 PROVE  Step
    OBVIOUS
  <2>2. saved' # saved =>
          \A r \in Relays \ gaveUp' : \A w \in stored[r] \ handled' :
              since <= created[w] => saved' - Margin <= created[w]
    BY <2>1, MoveSkipsNothing
  <2>3. \A r \in Relays : \A w \in stored'[r] \ stored[r] : saved - Margin <= created'[w]
    BY <2>1, PublishedLater
  <2>4. QED
    BY <2>2, <2>3
<1>2. Spec /\ []Paged => [][Step]_vars
  BY WrapInvariant, <1>1, PTL DEF Spec
<1>3. QED
  BY <1>2 DEF NothingSkipped

=============================================================================
