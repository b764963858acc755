------------------------- MODULE QuoteClaim_proofs -------------------------
(***************************************************************************)
(* Proofs about QuoteClaim, for any contexts and devices, any quotes and   *)
(* any bounds, as long as each quote is waited for in one context only     *)
(* (WatchedOnce): the copy a claim works with is then the record.          *)
(*                                                                         *)
(* The argument: a claim asks the mint for slots in the window of its      *)
(* record, and its record is pointed elsewhere only while nothing is       *)
(* issued (ClaimsFollow, MintFollows); what a claim, a swap or a restore   *)
(* is about to store is signed (OthersSigned), and all of a claim's slots  *)
(* are stored together, unless the window of another claim reaches into    *)
(* them (StoredTogether).                                                  *)
(***************************************************************************)
EXTENDS QuoteClaim, TLAPS

WatchedOnce ==
  \A c, d \in Context, q \in Quote :
    <<c, q>> \in Watches /\ <<d, q>> \in Watches => c = d

ClaimSteps == {"watch", "check", "reserved", "mint", "collided", "moved",
               "minted", "stored", "rejected"}

\* Another claim's window reaches into the slots of q.
Overlapped(q) ==
  \E r \in Quote \ {q} :
    quote[r] = "issued" /\ SlotsOf(q) \cap Window(record[r].counter, Block) # {}

Claiming(c) == work[c] # Idle /\ work[c].op = "claim"

\* A claim is the only one of its quote, its record is pending, and its copy
\* is the record's but for a moment after a collision.
ClaimKnows(c) ==
  LET q == work[c].quote IN
  /\ q \in Quote /\ <<c, q>> \in Watches /\ work[c].step \in ClaimSteps
  /\ record[q].status = "pending"
  /\ work[c].step # "moved" => work[c].counter = record[q].counter

\* What the mint says of the quote at each step of its claim.
ClaimFollows(c) ==
  LET q == work[c].quote IN
  /\ work[c].step \in {"reserved", "mint", "collided", "moved"} => quote[q] = "paid"
  /\ work[c].step = "minted" =>
       /\ quote[q] = "issued" /\ SlotsOf(q) \subseteq work[c].slots
       /\ work[c].slots \subseteq SignedIn(Window(record[q].counter, Block))
  /\ work[c].step = "stored" => quote[q] = "issued" /\ SlotsOf(q) \subseteq stored

ClaimsKnow == \A c \in Context : Claiming(c) => ClaimKnows(c)
ClaimsFollow == \A c \in Context : Claiming(c) => ClaimFollows(c)

MintFollows ==
  \A q \in Quote :
    /\ quote[q] # "issued" => SlotsOf(q) = {}
    /\ quote[q] = "issued" => SlotsOf(q) \subseteq Window(record[q].counter, Block)

SwapsSigned ==
  \A c \in Context :
    At(c, "swap", "swapped") \/ At(c, "swap", "book")
      => \A s \in work[c].slots : signed[s] = Swapped

RestoresWhole ==
  \A c \in Context :
    At(c, "restore", "insert") =>
      /\ work[c].slots \subseteq SignedIn(Slot)
      /\ \A q \in Quote : SlotsOf(q) \cap work[c].slots # {}
                            => SlotsOf(q) \subseteq work[c].slots \cup stored

StoredSigned == stored \subseteq SignedIn(Slot)

StoredTogether ==
  \A q \in Quote :
    SlotsOf(q) \cap stored # {} => SlotsOf(q) \subseteq stored \/ Overlapped(q)

IInv ==
  /\ TypeOK /\ ClaimsKnow /\ ClaimsFollow /\ MintFollows
  /\ SwapsSigned /\ RestoresWhole /\ StoredSigned /\ StoredTogether
  /\ StoredUnlessShared

-----------------------------------------------------------------------------
(* Types.                                                                  *)

LEMMA SlotFacts == Slot \subseteq Nat \ {0}
  BY QuoteClaimAssumption DEF Slot

Steps == {"watch", "check", "reserved", "mint", "collided", "moved",
          "minted", "stored", "rejected", "swap", "swapped", "book",
          "scan", "insert", "advance"}

Working == [Context -> Operations \cup {Idle}]

LEMMA WorkIs ==
  ASSUME TypeOK, NEW c \in Context, work[c] # Idle
  PROVE  /\ work[c] \in Operations
         /\ work[c].op \in {"claim", "swap", "restore"} /\ work[c].step \in Steps
         /\ work[c].quote \in Quote \cup {NoQuote}
         /\ work[c].counter \in Nat /\ work[c].slots \subseteq Slot
         /\ work[c].attempt \in 1..MaxAttempts
  BY DEF TypeOK, Operations, Steps

LEMMA GotoTyped ==
  ASSUME TypeOK, NEW c \in Context, work[c] # Idle, NEW step \in Steps, Goto(c, step)
  PROVE  work' \in Working
  <1>1. [work[c] EXCEPT !.step = step] \in Operations
    BY WorkIs DEF Operations, Steps
  <1> QED BY <1>1 DEF TypeOK, Goto, Working

LEMMA BeginTyped ==
  ASSUME TypeOK, NEW c \in Context, NEW op \in {"claim", "swap", "restore"},
         NEW step \in Steps, NEW q \in Quote \cup {NoQuote}, NEW first \in Nat,
         Begin(c, op, step, q, first)
  PROVE  work' \in Working
  <1>1. 1 \in 1..MaxAttempts
    BY QuoteClaimAssumption
  <1>2. [op |-> op, step |-> step, quote |-> q, counter |-> first,
         slots |-> {}, attempt |-> 1] \in Operations
    BY <1>1 DEF Operations, Steps
  <1> QED BY <1>2 DEF TypeOK, Begin, Working

LEMMA EndTyped ==
  ASSUME TypeOK, NEW c \in Context, End(c)
  PROVE  work' \in Working
  BY DEF TypeOK, End, Working

LEMMA LockTyped ==
  ASSUME TypeOK, NEW c \in Context, Acquire(c) \/ Release(c)
  PROVE  lock' \in [Device -> Context \cup {Nobody}]
  BY DEF TypeOK, Acquire, Release

LEMMA CounterTyped ==
  ASSUME TypeOK, NEW c \in Context, NEW target \in Nat, AdvanceCounterTo(c, target)
  PROVE  counter' \in [Device -> Nat \ {0}] /\ counter'[Home[c]] \in Nat \ {0}
  <1>1. Home[c] \in Device
    BY QuoteClaimAssumption
  <1>2. Larger(counter[Home[c]], target) \in Nat \ {0}
    BY <1>1 DEF TypeOK, Larger
  <1> QED BY <1>1, <1>2 DEF TypeOK, AdvanceCounterTo

LEMMA TargetsTyped ==
  ASSUME NEW first \in Nat, NEW bump \in Nat
  PROVE  RecoveryTargets(first, bump) \subseteq Nat
  BY SlotFacts DEF RecoveryTargets, PastLast, SignedIn, Window

Records == [Quote -> [status: {"pending", "done", "failed"}, counter: Nat]]

LEMMA RecordTyped ==
  ASSUME TypeOK, NEW q \in Quote
  PROVE  /\ \A n \in Nat : [record EXCEPT ![q].counter = n] \in Records
         /\ \A st \in {"done", "failed"} : [record EXCEPT ![q].status = st] \in Records
  BY DEF TypeOK, Records

LEMMA FirstTyped ==
  ASSUME TypeOK, NEW c \in Context, work[c] # Idle
  PROVE  FirstSlot(c) \in Nat \ {0}
  <1>1. Home[c] \in Device
    BY QuoteClaimAssumption
  <1> QED BY <1>1, WorkIs DEF TypeOK, FirstSlot, NoCounter

\* A claim is for a quote: what the types of its writes need.
QuotesKnown == \A c \in Context : Claiming(c) => work[c].quote \in Quote

LEMMA ClaimTyped ==
  ASSUME TypeOK, QuotesKnown, NEW c \in Context, ClaimStep(c)
  PROVE  TypeOK'
  <1> USE DEF Working, Records
  <1>w. /\ work[c] # Idle /\ work[c].op = "claim" /\ work[c].quote \in Quote
        /\ work[c].counter \in Nat /\ work[c].slots \subseteq Slot
        /\ work[c].attempt \in 1..MaxAttempts
    BY WorkIs DEF QuotesKnown, Claiming, ClaimStep, ClaimStarts, Reserve, Advance, Mint,
                  Recover, Repoint, Persist, Close, ReclaimKnown, Reclaim, At
  <1>1. CASE ClaimStarts(c)
    BY <1>1, <1>w, GotoTyped, LockTyped DEF ClaimStarts, TypeOK, Steps, mintVars
  <1>2. CASE Reserve(c)
    <2>1. FirstSlot(c) \in Nat
      BY <1>w, FirstTyped
    <2>2. [work[c] EXCEPT !.step = "reserved", !.counter = FirstSlot(c)] \in Operations
      BY <2>1, <1>w, WorkIs DEF Operations, Steps
    <2>3. work' = [work EXCEPT ![c] =
                    [work[c] EXCEPT !.step = "reserved", !.counter = FirstSlot(c)]]
      BY <1>2 DEF Reserve
    <2>4. work' \in Working
      BY <2>2, <2>3 DEF TypeOK
    <2>5. record' \in Records
      BY <1>2, <2>1, <1>w, RecordTyped DEF Reserve
    <2> QED BY <1>2, <2>4, <2>5 DEF Reserve, TypeOK, mintVars
  <1>3. CASE Advance(c)
    <2>1. work[c].counter + Block \in Nat
      BY <1>w, QuoteClaimAssumption
    <2> QED BY <1>3, <2>1, <1>w, CounterTyped, GotoTyped DEF Advance, TypeOK, Steps, mintVars
  <1>4. CASE Mint(c)
    <2> DEFINE slots == work[c].counter..(work[c].counter + Outputs - 1)
    <2>1. slots \subseteq Slot
      BY <1>4 DEF Mint
    <2>2. work' \in Working
      <3>1. CASE Goto(c, "collided")
        BY <3>1, <1>w, GotoTyped DEF Steps
      <3>2. CASE work' = [work EXCEPT ![c].step = "minted", ![c].slots = slots]
        <4>1. [work[c] EXCEPT !.step = "minted", !.slots = slots] \in Operations
          BY <2>1, <1>w, WorkIs DEF Operations, Steps
        <4>2. work' = [work EXCEPT ![c] =
                        [work[c] EXCEPT !.step = "minted", !.slots = slots]]
          BY <3>2
        <4> QED BY <4>1, <4>2 DEF TypeOK
      <3> QED BY <3>1, <3>2, <1>4 DEF Mint
    <2>3. quote' \in [Quote -> {"unpaid", "paid", "issued"}]
      BY <1>4, <1>w DEF Mint, Issue, TypeOK, mintVars
    <2>4. signed' \in [Slot -> Quote \cup {Unsigned, Swapped}]
      BY <1>4, <1>w DEF Mint, Issue, TypeOK, mintVars
    <2> QED BY <1>4, <2>2, <2>3, <2>4 DEF Mint, TypeOK
  <1>5. CASE Recover(c)
    <2>1. PICK target \in RecoveryTargets(work[c].counter, Block) :
            AdvanceCounterTo(c, target)
      BY <1>5 DEF Recover
    <2>2. target \in Nat
      BY <2>1, <1>w, TargetsTyped, QuoteClaimAssumption
    <2>3. counter' \in [Device -> Nat \ {0}] /\ counter'[Home[c]] \in Nat \ {0}
      BY <2>1, <2>2, CounterTyped
    <2> DEFINE next == counter'[Home[c]]
    <2>4. [work[c] EXCEPT !.step = "moved", !.counter = next] \in Operations
      BY <2>3, <1>w, WorkIs DEF Operations, Steps
    <2>5. work' = [work EXCEPT ![c] =
                    [work[c] EXCEPT !.step = "moved", !.counter = next]]
      BY <1>5 DEF Recover
    <2>6. work' \in Working
      <3> HIDE DEF next
      <3> QED BY <2>4, <2>5 DEF TypeOK
    <2> QED BY <1>5, <2>3, <2>6 DEF Recover, TypeOK, mintVars
  <1>6. CASE Repoint(c)
    <2>1. work' \in Working /\ lock' \in [Device -> Context \cup {Nobody}]
      <3>1. CASE work[c].attempt < MaxAttempts
        <4>1. work[c].attempt + 1 \in 1..MaxAttempts
          BY <1>w, <3>1, QuoteClaimAssumption
        <4> DEFINE more == work[c].attempt + 1
        <4>2. [work[c] EXCEPT !.step = "check", !.attempt = more] \in Operations
          BY <4>1, <1>w, WorkIs DEF Operations, Steps
        <4>3. work' = [work EXCEPT ![c] =
                        [work[c] EXCEPT !.step = "check", !.attempt = more]]
          BY <1>6, <3>1 DEF Repoint
        <4>4. lock' = lock
          BY <1>6, <3>1 DEF Repoint
        <4> HIDE DEF more
        <4> QED BY <4>2, <4>3, <4>4 DEF TypeOK
      <3>2. CASE ~(work[c].attempt < MaxAttempts)
        BY <1>6, <3>2, <1>w, GotoTyped, EndTyped, LockTyped DEF Repoint, Fails, Steps
      <3> QED BY <3>1, <3>2
    <2>2. record' \in Records
      BY <1>6, <1>w, RecordTyped DEF Repoint
    <2> QED BY <1>6, <2>1, <2>2 DEF Repoint, TypeOK, mintVars
  <1>7. CASE Persist(c)
    BY <1>7, <1>w, GotoTyped DEF Persist, TypeOK, Steps, mintVars
  <1>8. CASE Close(c) \/ ReclaimKnown(c)
    <2>1. record' \in Records
      <3>1. record' = [record EXCEPT ![work[c].quote].status = "done"]
        BY <1>8 DEF Close, ReclaimKnown, Settle
      <3> HIDE DEF Records
      <3> QED BY <3>1, <1>w, RecordTyped
    <2>2. End(c) /\ Release(c) /\ UNCHANGED <<counter, quote, signed, stored>>
      BY <1>8 DEF Close, ReclaimKnown, mintVars
    <2> QED BY <2>1, <2>2, EndTyped, LockTyped DEF TypeOK
  <1>9. CASE Reclaim(c)
    <2>1. Reclaimed(c) \subseteq Slot
      BY DEF Reclaimed, SignedIn, Window
    <2>2. [work[c] EXCEPT !.step = "minted", !.slots = Reclaimed(c)] \in Operations
      BY <2>1, <1>w, WorkIs DEF Operations, Steps
    <2>3. work' = [work EXCEPT ![c] =
                    [work[c] EXCEPT !.step = "minted", !.slots = Reclaimed(c)]]
      BY <1>9 DEF Reclaim
    <2>4. work' \in Working
      BY <2>2, <2>3 DEF TypeOK
    <2> QED BY <1>9, <2>4 DEF Reclaim, TypeOK, mintVars
  <1> QED BY <1>1, <1>2, <1>3, <1>4, <1>5, <1>6, <1>7, <1>8, <1>9 DEF ClaimStep

LEMMA OtherTyped ==
  ASSUME TypeOK, QuotesKnown, NEW c \in Context, OtherStep(c)
  PROVE  TypeOK'
  <1> USE DEF Working, Records
  <1>w. /\ work[c] # Idle /\ work[c].counter \in Nat /\ work[c].slots \subseteq Slot
        /\ work[c].attempt \in 1..MaxAttempts
    BY WorkIs DEF OtherStep, Swap, RecoverSwap, AdvanceSwap, Book, Scan, Insert,
                  AdvanceRestored, DropClaim, At
  <1>1. CASE Swap(c)
    <2> DEFINE slots == {work[c].counter, work[c].counter + Block}
    <2>1. slots \subseteq Slot
      BY <1>1 DEF Swap
    <2>2. work' \in Working
      <3>1. CASE Goto(c, "collided")
        BY <3>1, <1>w, GotoTyped DEF Steps
      <3>2. CASE work' = [work EXCEPT ![c].step = "swapped", ![c].slots = slots]
        <4>1. [work[c] EXCEPT !.step = "swapped", !.slots = slots] \in Operations
          BY <2>1, <1>w, WorkIs DEF Operations, Steps
        <4>2. work' = [work EXCEPT ![c] =
                        [work[c] EXCEPT !.step = "swapped", !.slots = slots]]
          BY <3>2
        <4> QED BY <4>1, <4>2 DEF TypeOK
      <3> QED BY <3>1, <3>2, <1>1 DEF Swap
    <2>3. signed' \in [Slot -> Quote \cup {Unsigned, Swapped}]
      BY <1>1 DEF Swap, TypeOK
    <2> QED BY <1>1, <2>2, <2>3 DEF Swap, TypeOK
  <1>2. CASE RecoverSwap(c)
    <2>1. PICK target \in RecoveryTargets(work[c].counter, 2 * Block) :
            AdvanceCounterTo(c, target)
      BY <1>2 DEF RecoverSwap
    <2>2. target \in Nat
      BY <2>1, <1>w, TargetsTyped, QuoteClaimAssumption
    <2>3. counter' \in [Device -> Nat \ {0}] /\ counter'[Home[c]] \in Nat \ {0}
      BY <2>1, <2>2, CounterTyped
    <2> DEFINE next == counter'[Home[c]]
    <2>4. work' \in Working /\ lock' \in [Device -> Context \cup {Nobody}]
      <3>1. CASE work[c].attempt < MaxAttempts
        <4> DEFINE more == work[c].attempt + 1
        <4>1. more \in 1..MaxAttempts
          BY <1>w, <3>1, QuoteClaimAssumption
        <4>2. [work[c] EXCEPT !.step = "swap", !.attempt = more, !.counter = next]
                \in Operations
          BY <4>1, <2>3, <1>w, WorkIs DEF Operations, Steps
        <4>3. work' = [work EXCEPT ![c] =
                        [work[c] EXCEPT !.step = "swap", !.attempt = more,
                                        !.counter = next]]
          BY <1>2, <3>1 DEF RecoverSwap
        <4>4. lock' = lock
          BY <1>2, <3>1 DEF RecoverSwap
        <4> HIDE DEF more, next
        <4> QED BY <4>2, <4>3, <4>4 DEF TypeOK
      <3>2. CASE ~(work[c].attempt < MaxAttempts)
        BY <1>2, <3>2, <1>w, EndTyped, LockTyped DEF RecoverSwap
      <3> QED BY <3>1, <3>2
    <2> QED BY <1>2, <2>3, <2>4 DEF RecoverSwap, TypeOK, mintVars
  <1>3. CASE AdvanceSwap(c)
    <2>1. work[c].counter + Block + 1 \in Nat
      BY <1>w, QuoteClaimAssumption
    <2>2. counter' \in [Device -> Nat \ {0}]
      BY <1>3, <2>1, CounterTyped DEF AdvanceSwap
    <2> QED BY <1>3, <2>2, <1>w, GotoTyped, LockTyped DEF AdvanceSwap, TypeOK, Steps, mintVars
  <1>4. CASE Book(c)
    BY <1>4, <1>w, EndTyped DEF Book, TypeOK, mintVars
  <1>5. CASE Scan(c)
    <2> DEFINE next == PastLast(SignedIn(Slot))
    <2>1. work' \in Working /\ lock' \in [Device -> Context \cup {Nobody}]
      <3>1. CASE next = {}
        BY <1>5, <3>1, EndTyped, LockTyped DEF Scan
      <3>2. CASE next # {}
        <4> DEFINE n == CHOOSE n \in next : TRUE
                   slots == SignedIn(Slot) \ stored
        <4>1. n \in Nat
          <5>1. next \subseteq Nat
            <6>1. SignedIn(Slot) \subseteq Nat
              BY SlotFacts DEF SignedIn
            <6> QED BY <6>1 DEF PastLast
          <5>2. n \in next
            BY <3>2
          <5> QED BY <5>1, <5>2
        <4>2. slots \subseteq Slot
          BY DEF SignedIn
        <4>3. [work[c] EXCEPT !.step = "insert", !.counter = n, !.slots = slots]
                \in Operations
          <5> HIDE DEF n, slots
          <5> QED BY <4>1, <4>2, <1>w, WorkIs DEF Operations, Steps
        <4>4. /\ work' = [work EXCEPT ![c] = [work[c] EXCEPT !.step = "insert",
                              !.counter = n, !.slots = slots]]
              /\ lock' = lock
          BY <1>5, <3>2 DEF Scan
        <4> HIDE DEF n, slots
        <4> QED BY <4>3, <4>4 DEF TypeOK
      <3> QED BY <3>1, <3>2
    <2> QED BY <1>5, <2>1 DEF Scan, TypeOK, mintVars
  <1>6. CASE Insert(c)
    BY <1>6, <1>w, GotoTyped DEF Insert, TypeOK, Steps, mintVars
  <1>7. CASE AdvanceRestored(c)
    BY <1>7, <1>w, CounterTyped, EndTyped, LockTyped DEF AdvanceRestored, TypeOK, mintVars
  <1>8. CASE DropClaim(c)
    <2>1. work[c].quote \in Quote
      BY <1>8 DEF DropClaim, At, QuotesKnown, Claiming
    <2> QED BY <1>8, <2>1, EndTyped, RecordTyped DEF DropClaim, Settle, TypeOK, mintVars
  <1> QED BY <1>1, <1>2, <1>3, <1>4, <1>5, <1>6, <1>7, <1>8 DEF OtherStep

LEMMA AnyTyped ==
  ASSUME TypeOK, QuotesKnown, NEW c \in Context,
         Stop(c) \/ Reject(c) \/ Expire(c) \/ SwapStarts(c) \/ RestoreStarts(c)
           \/ \E q \in Quote : Watch(c, q)
  PROVE  TypeOK'
  <1> USE DEF Working, Records
  <1>1. CASE Stop(c)
    BY <1>1, EndTyped, LockTyped DEF Stop, TypeOK, mintVars
  <1>2. CASE Reject(c)
    <2>1. work[c] # Idle
      BY <1>2 DEF Reject, At
    <2> QED BY <1>2, <2>1, GotoTyped, EndTyped, LockTyped
            DEF Reject, Fails, TypeOK, Steps, mintVars
  <1>3. CASE Expire(c)
    <2>1. work[c].quote \in Quote
      BY <1>3 DEF Expire, At, QuotesKnown, Claiming
    <2>2. record' \in Records
      <3>1. record' = [record EXCEPT ![work[c].quote].status = "failed"]
        BY <1>3 DEF Expire, Settle
      <3> HIDE DEF Records
      <3> QED BY <3>1, <2>1, RecordTyped
    <2> QED BY <1>3, <2>2, EndTyped DEF Expire, TypeOK, mintVars
  <1>4. CASE SwapStarts(c)
    <2>1. counter[Home[c]] \in Nat
      BY QuoteClaimAssumption DEF TypeOK
    <2> QED BY <1>4, <2>1, BeginTyped, LockTyped DEF SwapStarts, TypeOK, Steps, mintVars
  <1>5. CASE RestoreStarts(c)
    BY <1>5, BeginTyped, LockTyped DEF RestoreStarts, TypeOK, Steps, mintVars, NoCounter
  <1>6. CASE \E q \in Quote : Watch(c, q)
    <2>1. PICK q \in Quote : Watch(c, q)
      BY <1>6
    <2>2. record[q].counter \in Nat
      BY DEF TypeOK
    <2> QED BY <2>1, <2>2, BeginTyped DEF Watch, TypeOK, Steps, mintVars
  <1> QED BY <1>1, <1>2, <1>3, <1>4, <1>5, <1>6

LEMMA InitTyped == Init => TypeOK /\ QuotesKnown
  BY QuoteClaimAssumption DEF Init, TypeOK, QuotesKnown, Claiming, NoCounter

\* A claim's step is the claim's own, and leaves what it is for.
LEMMA ClaimMoves ==
  ASSUME TypeOK, NEW c \in Context, ClaimStep(c)
  PROVE  /\ Claiming(c)
         /\ \A d \in Context \ {c} : work'[d] = work[d]
         /\ \/ work'[c] = Idle
            \/ work'[c].quote = work[c].quote /\ work'[c].op = "claim"
  <1>1. Claiming(c)
    BY DEF ClaimStep, ClaimStarts, Reserve, Advance, Mint, Recover, Repoint, Persist, Close,
           ReclaimKnown, Reclaim, At, Claiming
  <1>2. work \in Working /\ work[c] \in Operations
    BY <1>1 DEF TypeOK, Working, Claiming
  <1> USE <1>1, <1>2 DEF Claiming, Working, Operations
  <1>3. CASE ClaimStarts(c)
    BY <1>3 DEF ClaimStarts, Goto
  <1>4. CASE Reserve(c)
    BY <1>4 DEF Reserve
  <1>5. CASE Advance(c)
    BY <1>5 DEF Advance, Goto
  <1>6. CASE Mint(c)
    BY <1>6 DEF Mint, Goto
  <1>7. CASE Recover(c)
    BY <1>7 DEF Recover
  <1>8. CASE Repoint(c)
    BY <1>8 DEF Repoint, Fails, End, Goto
  <1>9. CASE Persist(c)
    BY <1>9 DEF Persist, Goto
  <1>10. CASE Close(c)
    BY <1>10 DEF Close, End
  <1>11. CASE ReclaimKnown(c)
    BY <1>11 DEF ReclaimKnown, End
  <1>12. CASE Reclaim(c)
    BY <1>12 DEF Reclaim
  <1> QED BY <1>3, <1>4, <1>5, <1>6, <1>7, <1>8, <1>9, <1>10, <1>11, <1>12 DEF ClaimStep

LEMMA OtherMoves ==
  ASSUME TypeOK, NEW c \in Context, OtherStep(c)
  PROVE  /\ work[c] # Idle
         /\ \A d \in Context \ {c} : work'[d] = work[d]
         /\ \/ work'[c] = Idle
            \/ work'[c].quote = work[c].quote /\ work'[c].op = work[c].op
  <1>1. work[c] # Idle
    BY DEF OtherStep, Swap, RecoverSwap, AdvanceSwap, Book, Scan, Insert,
           AdvanceRestored, DropClaim, At
  <1>2. work \in Working /\ work[c] \in Operations
    BY <1>1 DEF TypeOK, Working
  <1> USE <1>1, <1>2 DEF Working, Operations
  <1>3. CASE Swap(c)
    BY <1>3 DEF Swap, Goto
  <1>4. CASE RecoverSwap(c)
    BY <1>4 DEF RecoverSwap, End
  <1>5. CASE AdvanceSwap(c)
    BY <1>5 DEF AdvanceSwap, Goto
  <1>6. CASE Book(c)
    BY <1>6 DEF Book, End
  <1>7. CASE Scan(c)
    <2>1. CASE End(c)
      BY <2>1 DEF End
    <2>2. CASE ~End(c)
      <3> DEFINE n == CHOOSE n \in PastLast(SignedIn(Slot)) : TRUE
                 slots == SignedIn(Slot) \ stored
      <3>1. work' = [work EXCEPT ![c].step = "insert", ![c].counter = n, ![c].slots = slots]
        BY <1>7, <2>2 DEF Scan
      <3> HIDE DEF n, slots
      <3> QED BY <3>1
    <2> QED BY <2>1, <2>2
  <1>8. CASE Insert(c)
    BY <1>8 DEF Insert, Goto
  <1>9. CASE AdvanceRestored(c)
    BY <1>9 DEF AdvanceRestored, End
  <1>10. CASE DropClaim(c)
    BY <1>10 DEF DropClaim, End
  <1> QED BY <1>3, <1>4, <1>5, <1>6, <1>7, <1>8, <1>9, <1>10 DEF OtherStep

\* Only a watch begins a claim, and no step changes what it is for.
LEMMA QuotesKnownStep ==
  ASSUME TypeOK, QuotesKnown, [Next]_vars
  PROVE  QuotesKnown'
  <1> SUFFICES ASSUME NEW d \in Context, Claiming(d)'
               PROVE  (work[d].quote \in Quote)'
    BY DEF QuotesKnown
  <1>1. CASE work'[d] = work[d]
    BY <1>1 DEF Claiming, QuotesKnown
  <1>2. CASE work'[d] # work[d]
    <2>1. PICK c \in Context :
            \/ \E q \in Quote : Watch(c, q)
            \/ SwapStarts(c) \/ RestoreStarts(c) \/ ClaimStep(c) \/ OtherStep(c)
            \/ Reject(c) \/ Expire(c) \/ Stop(c)
      BY <1>2 DEF Next, vars, Pay
    <2>2. work[c] # Idle => work[c] \in Operations
      BY DEF TypeOK
    <2>3. CASE \E q \in Quote : Watch(c, q)
      BY <2>3, <1>2 DEF Watch, Begin, TypeOK, Claiming
    <2>4. CASE SwapStarts(c) \/ RestoreStarts(c)
      BY <2>4, <1>2 DEF SwapStarts, RestoreStarts, Begin, TypeOK, Claiming
    <2>5. CASE Reject(c) \/ Expire(c) \/ Stop(c)
      BY <2>5, <1>2, <2>2 DEF Reject, Fails, Expire, Stop, End, Goto, At, TypeOK, Claiming,
                              QuotesKnown, Operations
    <2>6. CASE ClaimStep(c)
      <3>1. Claiming(c) /\ (work'[c] = Idle \/ work'[c].quote = work[c].quote)
        BY <2>6, ClaimMoves
      <3>2. d = c
        BY <2>6, <1>2, ClaimMoves
      <3> QED BY <3>1, <3>2 DEF Claiming, QuotesKnown
    <2>7. CASE OtherStep(c)
      <3>1. /\ work'[c] = Idle \/ (work'[c].quote = work[c].quote /\ work'[c].op = work[c].op)
            /\ work[c] # Idle
        BY <2>7, OtherMoves
      <3>2. d = c
        BY <2>7, <1>2, OtherMoves
      <3> QED BY <3>1, <3>2 DEF Claiming, QuotesKnown
    <2> QED BY <2>1, <2>3, <2>4, <2>5, <2>6, <2>7
  <1> QED BY <1>1, <1>2

LEMMA TypedStep == TypeOK /\ QuotesKnown /\ [Next]_vars => TypeOK' /\ QuotesKnown'
  <1> SUFFICES ASSUME TypeOK, QuotesKnown, [Next]_vars PROVE TypeOK' /\ QuotesKnown'
    OBVIOUS
  <1>1. TypeOK'
    <2>1. CASE UNCHANGED vars
      BY <2>1 DEF vars, mintVars, TypeOK
    <2>2. CASE \E q \in Quote : Pay(q)
      BY <2>2 DEF Pay, TypeOK
    <2>3. ASSUME NEW c \in Context,
                 \/ \E q \in Quote : Watch(c, q)
                 \/ SwapStarts(c) \/ RestoreStarts(c) \/ ClaimStep(c) \/ OtherStep(c)
                 \/ Reject(c) \/ Expire(c) \/ Stop(c)
          PROVE  TypeOK'
      BY <2>3, ClaimTyped, OtherTyped, AnyTyped
    <2> QED BY <2>1, <2>2, <2>3 DEF Next
  <1> QED BY <1>1, QuotesKnownStep

\* The state is well typed in every behaviour: no operation works past the
\* slots or the attempts it has.
THEOREM TypeCorrect == Spec => []TypeOK
  <1>1. TypeOK /\ QuotesKnown /\ [Next]_vars => (TypeOK /\ QuotesKnown)'
    BY TypedStep
  <1> QED BY <1>1, InitTyped, PTL DEF Spec

-----------------------------------------------------------------------------
(* What a step of the contexts C, one or none, may do to the others.       *)

Acts(C) ==
  /\ \A d \in Context \ C : work'[d] = work[d]
  /\ \A q \in Quote :
       (\A c \in C : ~(Claiming(c) /\ work[c].quote = q)) =>
         /\ record'[q] = record[q]
         /\ quote'[q] = quote[q] \/ (quote[q] = "unpaid" /\ quote'[q] = "paid")
  /\ \A q \in Quote : quote[q] = "issued" =>
       quote'[q] = "issued" /\ record'[q].counter = record[q].counter
  /\ \A q \in Quote : record[q].status = "done" => record'[q].status = "done"
  /\ \A s \in Slot :
       \/ signed'[s] = signed[s]
       \/ /\ signed[s] = Unsigned
          /\ \/ signed'[s] = Swapped
             \/ signed'[s] \in Quote /\ quote[signed'[s]] = "paid" /\ quote'[signed'[s]] = "issued"
  /\ stored \subseteq stored'

Safe == TypeOK /\ ClaimsKnow /\ ClaimsFollow

LEMMA SafeQuotes == Safe => QuotesKnown
  BY DEF Safe, ClaimsKnow, ClaimKnows, QuotesKnown

\* Steps that write no record and sign nothing.
LEMMA QuietActs ==
  ASSUME Safe, NEW c \in Context,
         \A d \in Context \ {c} : work'[d] = work[d],
         UNCHANGED <<record, quote, signed>>, stored \subseteq stored'
  PROVE  Acts({c})
  BY DEF Acts

\* Steps that write the status of their claim's record.
LEMMA SettleActs ==
  ASSUME Safe, NEW c \in Context, Claiming(c), NEW status, Settle(c, status),
         \A d \in Context \ {c} : work'[d] = work[d],
         UNCHANGED <<quote, signed, stored>>
  PROVE  Acts({c})
  <1>1. work[c].quote \in Quote /\ record[work[c].quote].status = "pending"
    BY DEF Safe, ClaimsKnow, ClaimKnows
  <1>2. record \in Records
    BY DEF Safe, TypeOK, Records
  <1>3. \A q \in Quote \ {work[c].quote} : record'[q] = record[q]
    BY <1>2 DEF Settle, Records
  <1>4. record'[work[c].quote].counter = record[work[c].quote].counter
    BY <1>1, <1>2 DEF Settle, Records
  <1>5. \A q \in Quote : record'[q].counter = record[q].counter
    BY <1>3, <1>4
  <1>6. \A q \in Quote : record[q].status = "done" => record'[q].status = "done"
    BY <1>1, <1>3
  <1> QED BY <1>3, <1>5, <1>6 DEF Acts

\* Steps that point their claim's record at a slot, before anything is issued.
LEMMA PointActs ==
  ASSUME Safe, NEW c \in Context, Claiming(c), NEW slot \in Nat,
         quote[work[c].quote] = "paid",
         record' = [record EXCEPT ![work[c].quote].counter = slot],
         \A d \in Context \ {c} : work'[d] = work[d],
         UNCHANGED <<quote, signed, stored>>
  PROVE  Acts({c})
  <1>1. work[c].quote \in Quote /\ record[work[c].quote].status = "pending"
    BY DEF Safe, ClaimsKnow, ClaimKnows
  <1>2. record \in Records
    BY DEF Safe, TypeOK, Records
  <1>3. \A q \in Quote \ {work[c].quote} : record'[q] = record[q]
    BY <1>2 DEF Records
  <1>4. record'[work[c].quote].status = "pending"
    BY <1>1, <1>2 DEF Records
  <1>5. \A q \in Quote : quote[q] = "issued" => record'[q].counter = record[q].counter
    BY <1>3
  <1>6. \A q \in Quote : record[q].status = "done" => record'[q].status = "done"
    BY <1>1, <1>3
  <1> QED BY <1>3, <1>5, <1>6 DEF Acts

LEMMA ClaimActs ==
  ASSUME Safe, NEW c \in Context, ClaimStep(c)
  PROVE  Acts({c})
  <1>1. TypeOK
    BY DEF Safe
  <1>2. Claiming(c) /\ \A d \in Context \ {c} : work'[d] = work[d]
    BY <1>1, ClaimMoves
  <1>3. work[c].quote \in Quote /\ work[c].counter \in Nat
    BY <1>1, <1>2, WorkIs DEF Safe, ClaimsKnow, ClaimKnows, Claiming
  <1>4. CASE ClaimStarts(c) \/ Advance(c) \/ Recover(c) \/ Persist(c) \/ Reclaim(c)
    BY <1>4, <1>2, QuietActs DEF ClaimStarts, Advance, Recover, Persist, Reclaim, mintVars
  <1>5. CASE Reserve(c)
    <2>1. FirstSlot(c) \in Nat
      BY <1>1, <1>2, FirstTyped DEF Claiming
    <2> QED BY <1>5, <1>2, <2>1, PointActs DEF Reserve, mintVars
  <1>6. CASE Repoint(c)
    <2>1. quote[work[c].quote] = "paid"
      BY <1>6, <1>2 DEF Repoint, At, Safe, ClaimsFollow, ClaimFollows
    <2> QED BY <1>6, <1>2, <1>3, <2>1, PointActs DEF Repoint, mintVars
  <1>7. CASE Close(c) \/ ReclaimKnown(c)
    BY <1>7, <1>2, SettleActs DEF Close, ReclaimKnown, mintVars
  <1>8. CASE Mint(c)
    <2> DEFINE q == work[c].quote
               slots == work[c].counter..(work[c].counter + Outputs - 1)
    <2>1. CASE UNCHANGED mintVars
      BY <1>8, <2>1, <1>2, QuietActs DEF Mint, mintVars
    <2>2. CASE SignedIn(slots) = {} /\ quote[q] = "paid" /\ Issue(q, slots)
      <3>1. UNCHANGED <<record, stored>>
        BY <1>8 DEF Mint
      <3>2. quote' = [quote EXCEPT ![q] = "issued"]
        BY <2>2 DEF Issue
      <3>3. \A r \in Quote : quote'[r] = IF r = q THEN "issued" ELSE quote[r]
        BY <3>2, <1>1 DEF TypeOK
      <3>4. \A s \in Slot : signed'[s] = IF s \in slots THEN q ELSE signed[s]
        BY <2>2 DEF Issue
      <3>5. \A s \in Slot \cap slots : signed[s] = Unsigned
        BY <2>2 DEF SignedIn
      <3> HIDE DEF slots
      <3> QED BY <1>2, <1>3, <2>2, <3>1, <3>3, <3>4, <3>5 DEF Acts
    <2> QED BY <1>8, <2>1, <2>2 DEF Mint
  <1> QED BY <1>4, <1>5, <1>6, <1>7, <1>8 DEF ClaimStep

LEMMA OtherActs ==
  ASSUME Safe, NEW c \in Context, OtherStep(c)
  PROVE  Acts({c})
  <1>1. TypeOK
    BY DEF Safe
  <1>2. \A d \in Context \ {c} : work'[d] = work[d]
    BY <1>1, OtherMoves
  <1>3. CASE RecoverSwap(c) \/ AdvanceSwap(c) \/ Book(c) \/ Scan(c) \/ Insert(c)
               \/ AdvanceRestored(c)
    BY <1>3, <1>2, QuietActs
    DEF RecoverSwap, AdvanceSwap, Book, Scan, Insert, AdvanceRestored, mintVars
  <1>4. CASE DropClaim(c)
    BY <1>4, <1>2, SettleActs DEF DropClaim, At, Claiming, mintVars
  <1>5. CASE Swap(c)
    <2> DEFINE slots == {work[c].counter, work[c].counter + Block}
    <2>1. UNCHANGED <<record, quote, stored>>
      BY <1>5 DEF Swap
    <2>2. CASE UNCHANGED signed
      BY <2>1, <2>2, <1>2, QuietActs
    <2>3. CASE /\ SignedIn(slots) = {}
               /\ signed' = [s \in Slot |-> IF s \in slots THEN Swapped ELSE signed[s]]
      <3>1. \A s \in Slot : signed'[s] = IF s \in slots THEN Swapped ELSE signed[s]
        BY <2>3
      <3>2. \A s \in Slot \cap slots : signed[s] = Unsigned
        BY <2>3 DEF SignedIn
      <3> HIDE DEF slots
      <3> QED BY <1>2, <2>1, <3>1, <3>2 DEF Acts
    <2> QED BY <1>5, <2>2, <2>3 DEF Swap
  <1> QED BY <1>3, <1>4, <1>5 DEF OtherStep

LEMMA AnyActs ==
  ASSUME Safe, NEW c \in Context,
         Stop(c) \/ Reject(c) \/ Expire(c) \/ SwapStarts(c) \/ RestoreStarts(c)
           \/ \E q \in Quote : Watch(c, q)
  PROVE  Acts({c})
  <1>1. \A d \in Context \ {c} : work'[d] = work[d]
    BY DEF Safe, TypeOK, Stop, Reject, Fails, Expire, SwapStarts, RestoreStarts, Watch,
           Begin, End, Goto
  <1>2. CASE Expire(c)
    BY <1>1, <1>2, SettleActs DEF Expire, At, Claiming, mintVars
  <1>3. CASE ~Expire(c)
    BY <1>1, <1>3, QuietActs
    DEF Stop, Reject, SwapStarts, RestoreStarts, Watch, mintVars
  <1> QED BY <1>2, <1>3

LEMMA IdleActs ==
  ASSUME Safe, UNCHANGED vars \/ \E q \in Quote : Pay(q)
  PROVE  Acts({})
  <1>1. CASE UNCHANGED vars
    BY <1>1 DEF Acts, vars, mintVars
  <1>2. CASE \E q \in Quote : Pay(q)
    <2>1. PICK q \in Quote : Pay(q)
      BY <1>2
    <2>2. \A r \in Quote : quote'[r] = IF r = q THEN "paid" ELSE quote[r]
      BY <2>1 DEF Pay, Safe, TypeOK
    <2> QED BY <2>1, <2>2 DEF Acts, Pay
  <1> QED BY <1>1, <1>2

ActsAt(c) ==
  \/ \E q \in Quote : Watch(c, q)
  \/ SwapStarts(c) \/ RestoreStarts(c) \/ ClaimStep(c) \/ OtherStep(c)
  \/ Reject(c) \/ Expire(c) \/ Stop(c)

LEMMA StepActs ==
  ASSUME Safe, [Next]_vars
  PROVE  (Acts({}) /\ UNCHANGED <<work, signed, stored>>)
           \/ \E c \in Context : ActsAt(c) /\ Acts({c})
  <1>1. CASE UNCHANGED vars \/ \E q \in Quote : Pay(q)
    BY <1>1, IdleActs DEF vars, mintVars, Pay
  <1>2. ASSUME NEW c \in Context, ActsAt(c)
        PROVE  Acts({c})
    BY <1>2, ClaimActs, OtherActs, AnyActs DEF ActsAt
  <1> QED BY <1>1, <1>2 DEF Next, ActsAt

-----------------------------------------------------------------------------
(* What stays, whatever steps.                                             *)

LEMMA SignedStays ==
  ASSUME NEW C, Acts(C), NEW s \in Slot, signed[s] # Unsigned
  PROVE  signed'[s] = signed[s]
  BY DEF Acts

LEMMA OwnStays ==
  ASSUME NEW C, Acts(C), NEW q \in Quote, quote[q] # "paid" \/ quote'[q] # "issued"
  PROVE  SlotsOf(q)' = SlotsOf(q)
  <1>1. q # Swapped /\ q # Unsigned
    BY QuoteClaimAssumption
  <1>2. \A s \in Slot : (signed'[s] = q) <=> (signed[s] = q)
    BY <1>1 DEF Acts
  <1> QED BY <1>2 DEF SlotsOf

LEMMA IssuedStays ==
  ASSUME NEW C, Acts(C), NEW q \in Quote, quote[q] = "issued"
  PROVE  /\ quote'[q] = "issued" /\ SlotsOf(q)' = SlotsOf(q)
         /\ Window(record[q].counter, Block)' = Window(record[q].counter, Block)
  <1>1. record'[q].counter = record[q].counter /\ quote'[q] = "issued"
    BY DEF Acts
  <1> QED BY <1>1, OwnStays DEF Window

LEMMA OverlapStays ==
  ASSUME NEW C, Acts(C), NEW q \in Quote, quote[q] = "issued", Overlapped(q)
  PROVE  Overlapped(q)'
  <1>1. PICK r \in Quote \ {q} :
          quote[r] = "issued" /\ SlotsOf(q) \cap Window(record[r].counter, Block) # {}
    BY DEF Overlapped
  <1>2. /\ quote'[r] = "issued" /\ SlotsOf(q)' = SlotsOf(q)
        /\ Window(record[r].counter, Block)' = Window(record[r].counter, Block)
    BY <1>1, IssuedStays
  <1> QED BY <1>1, <1>2 DEF Overlapped

\* The claim of a context that does not step.
LEMMA ClaimStays ==
  ASSUME Safe, WatchedOnce, NEW C \in SUBSET Context, Acts(C),
         NEW d \in Context \ C, Claiming(d)'
  PROVE  ClaimKnows(d)' /\ ClaimFollows(d)'
  <1>1. work'[d] = work[d] /\ Claiming(d)
    BY DEF Acts, Claiming
  <1>2. ClaimKnows(d) /\ ClaimFollows(d)
    BY <1>1 DEF Safe, ClaimsKnow, ClaimsFollow
  <1>3. PICK q \in Quote : q = work[d].quote /\ <<d, q>> \in Watches
    BY <1>2 DEF ClaimKnows
  <1>4. \A c \in C : ~(Claiming(c) /\ work[c].quote = q)
    <2> SUFFICES ASSUME NEW c \in C, Claiming(c), work[c].quote = q PROVE FALSE
      OBVIOUS
    <2>1. <<c, q>> \in Watches
      BY DEF Safe, ClaimsKnow, ClaimKnows
    <2> QED BY <2>1, <1>3 DEF WatchedOnce
  <1>5. /\ record'[q] = record[q]
        /\ quote'[q] = quote[q] \/ (quote[q] = "unpaid" /\ quote'[q] = "paid")
    BY <1>3, <1>4 DEF Acts
  <1>6. ClaimKnows(d)'
    BY <1>1, <1>2, <1>3, <1>5 DEF ClaimKnows
  <1>7. CASE work[d].step = "minted"
    <2>1. /\ quote[q] = "issued" /\ SlotsOf(q) \subseteq work[d].slots
          /\ work[d].slots \subseteq SignedIn(Window(record[q].counter, Block))
      BY <1>2, <1>3, <1>7 DEF ClaimFollows
    <2>2. quote'[q] = "issued" /\ SlotsOf(q)' = SlotsOf(q)
      BY <1>3, <2>1, IssuedStays
    <2>3. \A s \in work[d].slots :
            s \in Slot /\ signed[s] # Unsigned /\ s \in Window(record[q].counter, Block)
      BY <2>1 DEF SignedIn, Window
    <2>4. \A s \in work[d].slots : signed'[s] # Unsigned
      BY <2>3, SignedStays
    <2>5. work[d].slots \subseteq SignedIn(Window(record[q].counter, Block))'
      BY <1>5, <2>3, <2>4 DEF SignedIn, Window
    <2>6. \A s \in Slot : signed'[s] = q => s \in work[d].slots
      BY <2>1, <2>2 DEF SlotsOf
    <2> QED BY <1>1, <1>3, <1>6, <1>7, <2>2, <2>5, <2>6 DEF ClaimFollows, SlotsOf, SignedIn, Window
  <1>8. CASE work[d].step = "stored"
    <2>1. quote[q] = "issued" /\ SlotsOf(q) \subseteq stored
      BY <1>2, <1>3, <1>8 DEF ClaimFollows
    <2>2. quote'[q] = "issued" /\ SlotsOf(q)' = SlotsOf(q)
      BY <1>3, <2>1, IssuedStays
    <2>3. stored \subseteq stored'
      BY DEF Acts
    <2>4. \A s \in Slot : signed'[s] = q => s \in stored'
      BY <2>1, <2>2, <2>3 DEF SlotsOf
    <2> QED BY <1>1, <1>3, <1>6, <1>8, <2>2, <2>4 DEF ClaimFollows, SlotsOf
  <1>9. CASE work[d].step \notin {"minted", "stored"}
    BY <1>1, <1>2, <1>3, <1>5, <1>6, <1>9 DEF ClaimFollows
  <1> QED BY <1>7, <1>8, <1>9

\* The claim of the context that steps.
LEMMA BeginClaims ==
  ASSUME Safe, NEW c \in Context, NEW q \in Quote, Watch(c, q)
  PROVE  ClaimKnows(c)' /\ ClaimFollows(c)'
  <1>1. work'[c] = [op |-> "claim", step |-> "watch", quote |-> q,
                    counter |-> record[q].counter, slots |-> {}, attempt |-> 1]
    BY DEF Watch, Begin, Safe, TypeOK
  <1> QED BY <1>1 DEF ClaimKnows, ClaimFollows, ClaimSteps, Watch, mintVars

\* A step that ends, or only moves on to a step that claims nothing of its quote.
LEMMA PlainClaims ==
  ASSUME Safe, NEW c \in Context, Claiming(c), Claiming(c)',
         NEW step \in ClaimSteps \ {"minted", "stored"}, Goto(c, step),
         work[c].step # "moved", UNCHANGED <<record, mintVars>>,
         step \in {"reserved", "mint", "collided", "moved"}
           => quote[work[c].quote] = "paid"
  PROVE  ClaimKnows(c)' /\ ClaimFollows(c)'
  <1>1. work[c] \in Operations
    BY DEF Safe, TypeOK, Claiming
  <1>2. /\ work'[c].step = step /\ work'[c].quote = work[c].quote
        /\ work'[c].counter = work[c].counter
    BY <1>1 DEF Goto, Safe, TypeOK, Operations
  <1>3. ClaimKnows(c)
    BY DEF Safe, ClaimsKnow
  <1> QED BY <1>2, <1>3 DEF ClaimKnows, ClaimFollows, mintVars

LEMMA OwnClaims ==
  ASSUME Safe, MintFollows, NEW c \in Context, ClaimStep(c), Acts({c}), Claiming(c)'
  PROVE  ClaimKnows(c)' /\ ClaimFollows(c)'
  <1> DEFINE q == work[c].quote
  <1>1. TypeOK /\ Claiming(c)
    BY ClaimMoves DEF Safe
  <1>2. ClaimKnows(c) /\ ClaimFollows(c)
    BY <1>1 DEF Safe, ClaimsKnow, ClaimsFollow
  <1>3. /\ q \in Quote /\ work \in Working /\ work[c] \in Operations
        /\ record \in Records /\ work[c].counter \in Nat
    BY <1>1, <1>2, WorkIs DEF ClaimKnows, TypeOK, Working, Records, Claiming
  <1> USE <1>1, <1>2, <1>3 DEF Working, Operations, Records
  <1>4. CASE ClaimStarts(c)
    BY <1>4, PlainClaims DEF ClaimStarts, At, ClaimSteps
  <1>5. CASE Reserve(c)
    <2>1. record'[q].counter = FirstSlot(c) /\ record'[q].status = "pending"
      BY <1>5 DEF Reserve, ClaimKnows
    <2>2. /\ work'[c].step = "reserved" /\ work'[c].counter = FirstSlot(c)
          /\ work'[c].quote = q
      BY <1>5 DEF Reserve
    <2> QED BY <1>5, <2>1, <2>2 DEF Reserve, ClaimKnows, ClaimFollows, ClaimSteps, mintVars
  <1>6. CASE Advance(c)
    BY <1>6, PlainClaims DEF Advance, At, ClaimSteps, ClaimFollows
  <1>7. CASE Mint(c)
    <2> DEFINE slots == work[c].counter..(work[c].counter + Outputs - 1)
    <2>1. CASE Goto(c, "collided") /\ UNCHANGED mintVars
      BY <1>7, <2>1, PlainClaims DEF Mint, At, ClaimSteps, ClaimFollows
    <2>2. CASE /\ quote[q] = "paid" /\ Issue(q, slots)
               /\ work' = [work EXCEPT ![c].step = "minted", ![c].slots = slots]
      <3>1. /\ work'[c].step = "minted" /\ work'[c].slots = slots /\ work'[c].quote = q
            /\ work'[c].counter = work[c].counter
        BY <2>2
      <3>2. quote'[q] = "issued"
        BY <2>2 DEF Issue, TypeOK
      <3>3. SlotsOf(q) = {}
        BY <2>2 DEF MintFollows
      <3>4. \A s \in Slot : signed'[s] = IF s \in slots THEN q ELSE signed[s]
        BY <2>2 DEF Issue
      <3>5. \A s \in Slot : signed'[s] = q => s \in slots
        BY <3>3, <3>4, Zenon DEF SlotsOf
      <3>6. record' = record /\ record[q].counter = work[c].counter
        BY <1>7 DEF Mint, ClaimKnows, At
      <3>7. slots \subseteq Window(record[q].counter, Block)
        BY <1>7, <3>6, QuoteClaimAssumption DEF Mint, Window
      <3>8. \A s \in slots : s \in Slot /\ signed'[s] # Unsigned
        <4>1. slots \subseteq Slot
          BY <1>7 DEF Mint
        <4> QED BY <4>1, <3>4, QuoteClaimAssumption
      <3> HIDE DEF slots
      <3>9. \A s \in slots : s \in Window(record'[q].counter, Block) /\ signed'[s] # Unsigned
        BY <3>6, <3>7, <3>8
      <3>10. ClaimKnows(c)'
        BY <3>1, <3>6 DEF ClaimKnows, ClaimSteps
      <3> QED BY <3>1, <3>2, <3>5, <3>9, <3>10 DEF ClaimFollows, SlotsOf, SignedIn, Window
    <2> QED BY <1>7, <2>1, <2>2 DEF Mint
  <1>8. CASE Recover(c)
    <2>1. work'[c].step = "moved" /\ work'[c].quote = q
      BY <1>8 DEF Recover
    <2>2. quote[q] = "paid"
      BY <1>8 DEF Recover, At, ClaimFollows
    <2> QED BY <1>8, <2>1, <2>2 DEF Recover, ClaimKnows, ClaimFollows, ClaimSteps, mintVars
  <1>9. CASE Repoint(c)
    <2>1. work'[c].step \in {"check", "rejected"} /\ work'[c].quote = q
          /\ work'[c].counter = work[c].counter
      BY <1>9 DEF Repoint, Fails, Goto, End, Claiming
    <2>2. record'[q].counter = work[c].counter /\ record'[q].status = "pending"
      BY <1>9 DEF Repoint, ClaimKnows
    <2> QED BY <1>9, <2>1, <2>2 DEF Repoint, ClaimKnows, ClaimFollows, ClaimSteps, mintVars
  <1>10. CASE Persist(c)
    <2>1. work'[c].step = "stored" /\ work'[c].quote = q /\ work'[c].counter = work[c].counter
      BY <1>10 DEF Persist, Goto
    <2>2. UNCHANGED <<record, quote, signed>> /\ stored' = stored \cup work[c].slots
      BY <1>10 DEF Persist, mintVars
    <2>3. quote[q] = "issued" /\ SlotsOf(q) \subseteq work[c].slots /\ work[c].step = "minted"
      BY <1>10 DEF Persist, At, ClaimFollows
    <2>4. ClaimKnows(c)'
      BY <2>1, <2>2, <2>3 DEF ClaimKnows, ClaimSteps
    <2>5. \A s \in Slot : signed'[s] = q => s \in stored'
      BY <2>2, <2>3 DEF SlotsOf
    <2> QED BY <2>1, <2>2, <2>3, <2>4, <2>5 DEF ClaimFollows, SlotsOf
  <1>11. CASE Close(c) \/ ReclaimKnown(c)
    BY <1>11 DEF Close, ReclaimKnown, End, Claiming
  <1>12. CASE Reclaim(c)
    <2>1. /\ work'[c].step = "minted" /\ work'[c].slots = Reclaimed(c)
          /\ work'[c].quote = q /\ work'[c].counter = work[c].counter
      BY <1>12 DEF Reclaim
    <2>2. UNCHANGED <<record, quote, signed>> /\ quote[q] = "issued"
      BY <1>12 DEF Reclaim, mintVars
    <2>3. record[q].counter = work[c].counter
      BY <1>12 DEF Reclaim, At, ClaimKnows
    <2>4. Reclaimed(c) = SignedIn(Window(record[q].counter, Block))
      BY <1>12, <2>3 DEF Reclaim, Reclaimed
    <2>5. SlotsOf(q) \subseteq SignedIn(Window(record[q].counter, Block))
      <3>1. SlotsOf(q) \subseteq Window(record[q].counter, Block)
        BY <2>2 DEF MintFollows
      <3> QED BY <3>1, QuoteClaimAssumption DEF SlotsOf, SignedIn
    <2>6. ClaimKnows(c)'
      BY <2>1, <2>2, <2>3 DEF ClaimKnows, ClaimSteps
    <2>7. /\ \A s \in Slot : signed'[s] = q => s \in work'[c].slots
          /\ \A s \in work'[c].slots :
               s \in Window(record'[q].counter, Block) /\ signed'[s] # Unsigned
      BY <2>1, <2>2, <2>4, <2>5 DEF SlotsOf, SignedIn
    <2> QED BY <2>1, <2>2, <2>6, <2>7 DEF ClaimFollows, SlotsOf, SignedIn, Window
  <1> QED BY <1>4, <1>5, <1>6, <1>7, <1>8, <1>9, <1>10, <1>11, <1>12 DEF ClaimStep

\* What is left of a claim's steps ends it.
LEMMA OtherEnds ==
  ASSUME Safe, NEW c \in Context, OtherStep(c)
  PROVE  ~Claiming(c)'
  <1>1. CASE DropClaim(c)
    BY <1>1 DEF DropClaim, End, Claiming, Safe, TypeOK
  <1>2. CASE ~DropClaim(c)
    <2>1. work[c] # Idle /\ work[c].op # "claim"
      BY <1>2 DEF OtherStep, Swap, RecoverSwap, AdvanceSwap, Book, Scan, Insert,
                  AdvanceRestored, At
    <2>2. work'[c] = Idle \/ work'[c].op = work[c].op
      BY OtherMoves DEF Safe
    <2> QED BY <2>1, <2>2 DEF Claiming
  <1> QED BY <1>1, <1>2

LEMMA ClaimsStep ==
  ASSUME Safe, MintFollows, WatchedOnce, [Next]_vars
  PROVE  ClaimsKnow' /\ ClaimsFollow'
  <1> SUFFICES ASSUME NEW d \in Context, Claiming(d)'
               PROVE  ClaimKnows(d)' /\ ClaimFollows(d)'
    BY DEF ClaimsKnow, ClaimsFollow
  <1>1. CASE Acts({})
    BY <1>1, ClaimStays
  <1>2. ASSUME NEW c \in Context, ActsAt(c), Acts({c}), c # d
        PROVE  ClaimKnows(d)' /\ ClaimFollows(d)'
    BY <1>2, ClaimStays
  <1>3. ASSUME ActsAt(d), Acts({d})
        PROVE  ClaimKnows(d)' /\ ClaimFollows(d)'
    <2>1. CASE \E q \in Quote : Watch(d, q)
      BY <2>1, BeginClaims
    <2>2. CASE SwapStarts(d) \/ RestoreStarts(d)
      BY <2>2 DEF SwapStarts, RestoreStarts, Begin, Claiming, Safe, TypeOK
    <2>3. CASE ClaimStep(d)
      BY <2>3, <1>3, OwnClaims
    <2>4. CASE OtherStep(d)
      BY <2>4, OtherEnds
    <2>5. CASE Expire(d) \/ Stop(d)
      BY <2>5 DEF Expire, Stop, End, Claiming, Safe, TypeOK
    <2>6. CASE Reject(d)
      <3>1. Claiming(d) /\ work[d].step # "moved" /\ UNCHANGED <<record, mintVars>>
        BY <2>6 DEF Reject, At, Claiming
      <3>2. CASE Goto(d, "rejected")
        BY <3>1, <3>2, PlainClaims DEF ClaimSteps
      <3>3. CASE End(d)
        BY <3>3 DEF End, Claiming, Safe, TypeOK
      <3> QED BY <2>6, <3>2, <3>3 DEF Reject, Fails
    <2> QED BY <1>3, <2>1, <2>2, <2>3, <2>4, <2>5, <2>6 DEF ActsAt
  <1> QED BY <1>1, <1>2, <1>3, StepActs

\* A quote is issued by the Mint of its claim, for slots of its window.
LEMMA IssueIsMint ==
  ASSUME Safe, MintFollows, NEW c \in Context, ActsAt(c), NEW q \in Quote,
         quote'[q] = "issued", quote[q] # "issued"
  PROVE  (SlotsOf(q) \subseteq Window(record[q].counter, Block))'
  <1>1. Mint(c)
    BY DEF ActsAt, Watch, SwapStarts, RestoreStarts, Reject, Expire, Stop,
           ClaimStep, ClaimStarts, Reserve, Advance, Recover, Repoint, Persist, Close,
           ReclaimKnown, Reclaim, OtherStep, Swap, RecoverSwap, AdvanceSwap, Book, Scan,
           Insert, AdvanceRestored, DropClaim, mintVars
  <1> DEFINE slots == work[c].counter..(work[c].counter + Outputs - 1)
  <1>2. Issue(work[c].quote, slots) /\ slots \subseteq Slot /\ record' = record
    BY <1>1 DEF Mint, mintVars
  <1>3. q = work[c].quote
    BY <1>2 DEF Issue, Safe, TypeOK
  <1>4. record[q].counter = work[c].counter /\ work[c].counter \in Nat
    <2>1. Claiming(c) /\ work[c].step = "mint"
      BY <1>1 DEF Mint, At, Claiming
    <2> QED BY <2>1, <1>3, WorkIs DEF Safe, ClaimsKnow, ClaimKnows, Claiming
  <1>5. slots \subseteq Window(record[q].counter, Block)
    BY <1>2, <1>4, QuoteClaimAssumption DEF Window
  <1>6. SlotsOf(q) = {}
    BY DEF MintFollows
  <1>7. \A s \in Slot : signed'[s] = IF s \in slots THEN q ELSE signed[s]
    BY <1>2, <1>3 DEF Issue
  <1>8. \A s \in Slot : signed'[s] = q => s \in slots
    BY <1>6, <1>7, Zenon DEF SlotsOf
  <1> HIDE DEF slots
  <1> QED BY <1>2, <1>5, <1>8 DEF SlotsOf, Window

LEMMA MintStep ==
  ASSUME Safe, MintFollows, [Next]_vars
  PROVE  MintFollows'
  <1> SUFFICES ASSUME NEW q \in Quote
               PROVE  /\ quote'[q] # "issued" => SlotsOf(q)' = {}
                      /\ quote'[q] = "issued"
                           => (SlotsOf(q) \subseteq Window(record[q].counter, Block))'
    BY DEF MintFollows
  <1>1. PICK C \in SUBSET Context : Acts(C)
    BY StepActs
  <1>2. CASE quote'[q] # "issued"
    BY <1>1, <1>2, OwnStays DEF MintFollows, Acts
  <1>3. CASE quote[q] = "issued"
    BY <1>1, <1>3, IssuedStays DEF MintFollows
  <1>4. CASE quote'[q] = "issued" /\ quote[q] # "issued"
    <2>1. CASE Acts({})
      BY <2>1, <1>4 DEF Acts
    <2>2. CASE \E c \in Context : ActsAt(c)
      BY <2>2, <1>4, IssueIsMint
    <2> QED BY <2>1, <2>2, StepActs
  <1> QED BY <1>2, <1>3, <1>4

-----------------------------------------------------------------------------
(* What is about to be stored, and what is.                                *)

\* Slots a step signs were not signed, nor stored, before.
LEMMA OwnBefore ==
  ASSUME MintFollows, NEW C, Acts(C), NEW q \in Quote, NEW s \in Slot,
         signed[s] # Unsigned, signed'[s] = q
  PROVE  /\ quote[q] = "issued" /\ s \in SlotsOf(q)
         /\ SlotsOf(q)' = SlotsOf(q)
  <1>1. signed[s] = q
    BY SignedStays
  <1>2. s \in SlotsOf(q)
    BY <1>1 DEF SlotsOf
  <1>3. quote[q] = "issued"
    BY <1>2 DEF MintFollows
  <1> QED BY <1>2, <1>3, IssuedStays

LEMMA BeginsAt ==
  ASSUME Safe, NEW c \in Context,
         (\E q \in Quote : Watch(c, q)) \/ SwapStarts(c) \/ RestoreStarts(c)
  PROVE  work'[c].step \in {"watch", "swap", "scan"}
  <1> USE DEF Begin, Safe, TypeOK
  <1>1. CASE \E q \in Quote : Watch(c, q)
    BY <1>1 DEF Watch
  <1>2. CASE SwapStarts(c)
    BY <1>2 DEF SwapStarts
  <1>3. CASE RestoreStarts(c)
    BY <1>3 DEF RestoreStarts
  <1> QED BY <1>1, <1>2, <1>3

LEMMA SwapsStep ==
  ASSUME Safe, SwapsSigned, [Next]_vars
  PROVE  SwapsSigned'
  <1> SUFFICES ASSUME NEW d \in Context, At(d, "swap", "swapped")' \/ At(d, "swap", "book")',
                      NEW s \in work'[d].slots
               PROVE  signed'[s] = Swapped
    BY DEF SwapsSigned
  <1>1. Swapped # Unsigned
    BY QuoteClaimAssumption
  <1>2. CASE work'[d] = work[d]
    <2>1. s \in Slot /\ signed[s] = Swapped
      BY <1>2, WorkIs DEF SwapsSigned, At, Safe
    <2> QED BY <1>1, <2>1, StepActs, SignedStays
  <1>3. CASE work'[d] # work[d]
    <2>1. ActsAt(d) /\ Acts({d})
      BY <1>3, StepActs DEF Acts
    <2>2. work \in Working
      BY DEF Safe, TypeOK, Working
    <2>3. CASE Swap(d)
      <3> DEFINE slots == {work[d].counter, work[d].counter + Block}
      <3>1. work[d] \in Operations
        BY <2>3 DEF Swap, At, Safe, TypeOK
      <3>2. CASE Goto(d, "collided")
        BY <3>1, <3>2, <2>2 DEF Goto, At, Working, Operations
      <3>3. CASE /\ signed' = [t \in Slot |-> IF t \in slots THEN Swapped ELSE signed[t]]
                 /\ work' = [work EXCEPT ![d].step = "swapped", ![d].slots = slots]
        <4>1. work'[d].slots = slots
          BY <3>1, <3>3, <2>2 DEF Working, Operations
        <4>2. slots \subseteq Slot
          BY <2>3 DEF Swap
        <4> HIDE DEF slots
        <4> QED BY <3>3, <4>1, <4>2
      <3> QED BY <2>3, <3>2, <3>3 DEF Swap
    <2>4. CASE AdvanceSwap(d)
      <3>1. work'[d].slots = work[d].slots /\ At(d, "swap", "swapped") /\ signed' = signed
        BY <2>4, <2>2 DEF AdvanceSwap, At, Goto, Working, Operations, mintVars
      <3> QED BY <3>1 DEF SwapsSigned
    <2>5. CASE \/ \E q \in Quote : Watch(d, q)
               \/ SwapStarts(d) \/ RestoreStarts(d)
      BY <2>5, BeginsAt DEF At
    <2>6. CASE Reject(d) \/ Expire(d) \/ Stop(d)
      BY <2>6, <2>2 DEF Reject, Fails, Expire, Stop, Goto, End, At, Working, Operations
    <2>7. CASE ClaimStep(d)
      BY <2>7, ClaimMoves DEF At, Safe
    <2>8. CASE OtherStep(d) /\ ~Swap(d) /\ ~AdvanceSwap(d)
      <3>1. CASE Scan(d)
        <4>1. work[d].op = "restore"
          BY <3>1 DEF Scan, At
        <4> QED BY <2>8, <4>1, OtherMoves DEF At, Safe
      <3>2. CASE ~Scan(d)
        BY <2>8, <3>2, <2>2
        DEF OtherStep, RecoverSwap, Book, Insert, AdvanceRestored, DropClaim, Goto, End, At,
            Working, Operations
      <3> QED BY <3>1, <3>2
    <2> QED BY <2>1, <2>3, <2>4, <2>5, <2>6, <2>7, <2>8 DEF ActsAt
  <1> QED BY <1>2, <1>3

LEMMA RestoresStep ==
  ASSUME Safe, MintFollows, RestoresWhole, [Next]_vars
  PROVE  RestoresWhole'
  <1> SUFFICES ASSUME NEW d \in Context, At(d, "restore", "insert")'
               PROVE  /\ (work[d].slots \subseteq SignedIn(Slot))'
                      /\ \A q \in Quote : (SlotsOf(q) \cap work[d].slots # {}
                            => SlotsOf(q) \subseteq work[d].slots \cup stored)'
    BY DEF RestoresWhole
  <1>1. PICK C \in SUBSET Context : Acts(C)
    BY StepActs
  <1>2. CASE work'[d] = work[d]
    <2> DEFINE slots == work[d].slots
    <2>1. /\ slots \subseteq SignedIn(Slot)
          /\ \A q \in Quote : SlotsOf(q) \cap slots # {} => SlotsOf(q) \subseteq slots \cup stored
      BY <1>2 DEF RestoresWhole, At
    <2>2. \A s \in slots : s \in Slot /\ signed[s] # Unsigned /\ signed'[s] # Unsigned
      BY <2>1, <1>1, SignedStays DEF SignedIn
    <2>3. ASSUME NEW q \in Quote, NEW s \in Slot \cap slots, signed'[s] = q
          PROVE  SlotsOf(q)' \subseteq slots \cup stored'
      <3>1. s \in SlotsOf(q) /\ SlotsOf(q)' = SlotsOf(q)
        BY <1>1, <2>2, <2>3, OwnBefore
      <3>2. stored \subseteq stored'
        BY <1>1 DEF Acts
      <3> QED BY <2>1, <2>3, <3>1, <3>2
    <2>4. (slots \subseteq SignedIn(Slot))'
      BY <1>2, <2>2 DEF SignedIn
    <2>5. ASSUME NEW q \in Quote, SlotsOf(q)' \cap work'[d].slots # {}
          PROVE  SlotsOf(q)' \subseteq work'[d].slots \cup stored'
      <3>1. PICK s \in Slot \cap slots : signed'[s] = q
        BY <1>2, <2>5 DEF SlotsOf
      <3> QED BY <1>2, <2>3, <3>1
    <2> QED BY <2>4, <2>5
  <1>3. CASE work'[d] # work[d]
    <2>1. ActsAt(d) /\ Acts({d})
      BY <1>3, StepActs DEF Acts
    <2>2. work \in Working
      BY DEF Safe, TypeOK, Working
    <2>3. CASE Scan(d)
      <3>1. work[d] \in Operations
        BY <2>3 DEF Scan, At, Safe, TypeOK
      <3> DEFINE n == CHOOSE n \in PastLast(SignedIn(Slot)) : TRUE
                 slots == SignedIn(Slot) \ stored
      <3>2. CASE End(d)
        BY <3>2, <1>3, <2>3, <2>2, <3>1 DEF End, At, Working
      <3>3. CASE ~End(d)
        <4>1. work' = [work EXCEPT ![d].step = "insert", ![d].counter = n, ![d].slots = slots]
          BY <2>3, <3>3 DEF Scan
        <4>2. work'[d].slots = slots
          <5> HIDE DEF n, slots
          <5> QED BY <4>1, <3>1, <2>2 DEF Working, Operations
        <4>3. UNCHANGED <<signed, stored>>
          BY <2>3 DEF Scan, mintVars
        <4>4. \A q \in Quote : SlotsOf(q) \subseteq SignedIn(Slot)
          BY QuoteClaimAssumption DEF SlotsOf, SignedIn
        <4>5. SignedIn(Slot)' = SignedIn(Slot)
          BY <4>3 DEF SignedIn, Slot
        <4>6. \A q \in Quote : SlotsOf(q)' = SlotsOf(q)
          BY <4>3 DEF SlotsOf, Slot
        <4> QED BY <4>2, <4>3, <4>4, <4>5, <4>6
      <3> QED BY <3>2, <3>3
    <2>4. CASE \/ \E q \in Quote : Watch(d, q)
               \/ SwapStarts(d) \/ RestoreStarts(d)
      BY <2>4, BeginsAt DEF At
    <2>5. CASE Reject(d) \/ Expire(d) \/ Stop(d)
      BY <2>5, <2>2 DEF Reject, Fails, Expire, Stop, Goto, End, At, Working, Operations
    <2>6. CASE ClaimStep(d)
      BY <2>6, ClaimMoves DEF At, Safe
    <2>7. CASE OtherStep(d) /\ ~Scan(d)
      BY <2>7, <2>2
      DEF OtherStep, Swap, RecoverSwap, AdvanceSwap, Book, Insert, AdvanceRestored, DropClaim,
          Goto, End, At, Working, Operations
    <2> QED BY <2>1, <2>3, <2>4, <2>5, <2>6, <2>7 DEF ActsAt
  <1> QED BY <1>2, <1>3

\* Stores add what a claim, a swap or a restore holds, and nothing else.
Stores(c) ==
  /\ stored' = stored \cup work[c].slots
  /\ UNCHANGED <<record, quote, signed>>
  /\ At(c, "claim", "minted") \/ At(c, "swap", "book") \/ At(c, "restore", "insert")

LEMMA StoreMoves ==
  ASSUME [Next]_vars
  PROVE  stored' = stored \/ \E c \in Context : Stores(c)
  <1>1. CASE UNCHANGED vars \/ \E q \in Quote : Pay(q)
    BY <1>1 DEF vars, Pay
  <1>2. ASSUME NEW c \in Context, ActsAt(c)
        PROVE  stored' = stored \/ Stores(c)
    <2>1. CASE Persist(c) \/ Book(c) \/ Insert(c)
      BY <2>1 DEF Persist, Book, Insert, Stores, mintVars
    <2>2. CASE ~(Persist(c) \/ Book(c) \/ Insert(c))
      BY <1>2, <2>2
      DEF ActsAt, Watch, SwapStarts, RestoreStarts, Reject, Expire, Stop,
          ClaimStep, ClaimStarts, Reserve, Advance, Mint, Recover, Repoint, Close,
          ReclaimKnown, Reclaim, OtherStep, Swap, RecoverSwap, AdvanceSwap, Scan,
          AdvanceRestored, DropClaim
    <2> QED BY <2>1, <2>2
  <1> QED BY <1>1, <1>2 DEF Next, ActsAt

Kept ==
  /\ Safe /\ MintFollows /\ SwapsSigned /\ RestoresWhole /\ StoredSigned /\ StoredTogether

\* What is about to be stored is signed, and for each claim of which it holds a
\* slot, it holds all; or the window it comes from is another claim's.
LEMMA HeldWhole ==
  ASSUME Kept, NEW c \in Context, Stores(c)
  PROVE  /\ work[c].slots \subseteq SignedIn(Slot)
         /\ \A q \in Quote : SlotsOf(q) \cap work[c].slots # {} =>
              SlotsOf(q) \subseteq work[c].slots \cup stored \/ Overlapped(q)
  <1>1. work[c].slots \subseteq Slot
    BY WorkIs DEF Stores, At, Kept, Safe
  <1>2. CASE At(c, "claim", "minted")
    <2>1. PICK r \in Quote :
            /\ r = work[c].quote /\ quote[r] = "issued" /\ SlotsOf(r) \subseteq work[c].slots
            /\ work[c].slots \subseteq SignedIn(Window(record[r].counter, Block))
      BY <1>2 DEF At, Kept, Safe, ClaimsKnow, ClaimKnows, ClaimsFollow, ClaimFollows, Claiming
    <2>2. \A q \in Quote \ {r} : SlotsOf(q) \cap work[c].slots # {} => Overlapped(q)
      BY <2>1 DEF Overlapped, SignedIn
    <2> QED BY <1>1, <2>1, <2>2 DEF SignedIn
  <1>3. CASE At(c, "swap", "book")
    <2>1. \A s \in work[c].slots : signed[s] = Swapped
      BY <1>3 DEF Kept, SwapsSigned
    <2> QED BY <1>1, <2>1, QuoteClaimAssumption DEF SignedIn, SlotsOf
  <1>4. CASE At(c, "restore", "insert")
    BY <1>4 DEF Kept, RestoresWhole
  <1> QED BY <1>2, <1>3, <1>4 DEF Stores

LEMMA StoredStep ==
  ASSUME Kept, [Next]_vars
  PROVE  StoredSigned' /\ StoredTogether'
  <1>1. CASE stored' = stored
    <2>1. PICK C \in SUBSET Context : Acts(C)
      BY StepActs DEF Kept
    <2>2. \A s \in stored : s \in Slot /\ signed[s] # Unsigned /\ signed'[s] # Unsigned
      BY <2>1, SignedStays DEF Kept, StoredSigned, SignedIn
    <2>3. ASSUME NEW q \in Quote, NEW s \in Slot \cap stored, signed'[s] = q
          PROVE  SlotsOf(q)' \subseteq stored \/ Overlapped(q)'
      <3>1. quote[q] = "issued" /\ s \in SlotsOf(q) /\ SlotsOf(q)' = SlotsOf(q)
        BY <2>1, <2>2, <2>3, OwnBefore DEF Kept
      <3>2. SlotsOf(q) \subseteq stored \/ Overlapped(q)
        BY <2>3, <3>1 DEF Kept, StoredTogether
      <3> QED BY <2>1, <3>1, <3>2, OverlapStays
    <2>4. StoredSigned'
      BY <1>1, <2>2 DEF StoredSigned, SignedIn
    <2>5. ASSUME NEW q \in Quote, SlotsOf(q)' \cap stored' # {}
          PROVE  SlotsOf(q)' \subseteq stored' \/ Overlapped(q)'
      <3>1. PICK s \in Slot \cap stored : signed'[s] = q
        BY <1>1, <2>5 DEF SlotsOf
      <3> QED BY <1>1, <2>3, <3>1
    <2> QED BY <2>4, <2>5 DEF StoredTogether
  <1>2. ASSUME NEW c \in Context, Stores(c)
        PROVE  StoredSigned' /\ StoredTogether'
    <2>1. stored' = stored \cup work[c].slots /\ UNCHANGED <<record, quote, signed>>
      BY <1>2 DEF Stores
    <2>2. /\ work[c].slots \subseteq SignedIn(Slot)
          /\ \A q \in Quote : SlotsOf(q) \cap work[c].slots # {} =>
               SlotsOf(q) \subseteq work[c].slots \cup stored \/ Overlapped(q)
      BY <1>2, HeldWhole
    <2>3. \A q \in Quote : SlotsOf(q)' = SlotsOf(q) /\ (Overlapped(q)' <=> Overlapped(q))
      BY <2>1 DEF Overlapped, SlotsOf, Window
    <2>4. StoredSigned'
      BY <2>1, <2>2 DEF Kept, StoredSigned, SignedIn
    <2>5. ASSUME NEW q \in Quote, SlotsOf(q) \cap stored' # {}
          PROVE  SlotsOf(q) \subseteq stored' \/ Overlapped(q)
      <3>1. CASE SlotsOf(q) \cap work[c].slots # {}
        BY <2>1, <2>2, <3>1
      <3>2. CASE SlotsOf(q) \cap stored # {}
        BY <2>1, <3>2 DEF Kept, StoredTogether
      <3> QED BY <2>1, <2>5, <3>1, <3>2
    <2> QED BY <2>3, <2>4, <2>5 DEF StoredTogether
  <1> QED BY <1>1, <1>2, StoreMoves

\* A record is closed by its claim, which changes nothing else then.
LEMMA CloseMoves ==
  ASSUME Safe, [Next]_vars, NEW q \in Quote,
         record'[q].status = "done", record[q].status # "done"
  PROVE  \E c \in Context :
           /\ Close(c) \/ ReclaimKnown(c)
           /\ work[c].quote = q
  <1>1. PICK c \in Context : ActsAt(c)
    BY StepActs DEF Acts
  <1>2. \A r \in Quote, n \in Nat : [record EXCEPT ![r].counter = n][q].status = record[q].status
    BY DEF Safe, TypeOK
  <1>3. CASE ClaimStep(c)
    <2>1. Claiming(c)
      BY <1>3, ClaimMoves DEF Safe
    <2>2. work[c].quote \in Quote
      BY <2>1 DEF Safe, ClaimsKnow, ClaimKnows
    <2>3. FirstSlot(c) \in Nat /\ work[c].counter \in Nat
      BY <2>1, FirstTyped, WorkIs DEF Safe, Claiming
    <2>4. Close(c) \/ ReclaimKnown(c)
      BY <1>2, <1>3, <2>2, <2>3
      DEF ClaimStep, ClaimStarts, Reserve, Advance, Mint, Recover, Repoint, Persist, Reclaim
    <2>5. record' = [record EXCEPT ![work[c].quote].status = "done"]
      BY <2>4 DEF Close, ReclaimKnown, Settle
    <2>6. work[c].quote = q
      BY <2>5 DEF Safe, TypeOK
    <2> QED BY <2>4, <2>6
  <1>4. CASE DropClaim(c) \/ Expire(c)
    BY <1>4 DEF DropClaim, Expire, Settle, Safe, TypeOK
  <1>5. CASE ~ClaimStep(c) /\ ~DropClaim(c) /\ ~Expire(c)
    BY <1>1, <1>5
    DEF ActsAt, Watch, SwapStarts, RestoreStarts, Reject, Stop, OtherStep, Swap, RecoverSwap,
        AdvanceSwap, Book, Scan, Insert, AdvanceRestored
  <1> QED BY <1>1, <1>3, <1>4, <1>5

LEMMA SharedIs ==
  ASSUME NEW q \in Quote
  PROVE  Shared(q) <=> \/ \E s \in Window(record[q].counter, Block) :
                             s \in stored /\ signed[s] # q
                       \/ Overlapped(q)
  BY DEF Shared, Overlapped

LEMMA SharedStays ==
  ASSUME Kept, NEW C, Acts(C), NEW q \in Quote, quote[q] = "issued", Shared(q)
  PROVE  Shared(q)'
  <1>1. Window(record[q].counter, Block)' = Window(record[q].counter, Block)
    BY IssuedStays
  <1>2. CASE Overlapped(q)
    <2>1. Overlapped(q)'
      BY <1>2, OverlapStays
    <2> QED BY <2>1 DEF Shared, Overlapped
  <1>3. CASE \E s \in Window(record[q].counter, Block) : s \in stored /\ signed[s] # q
    <2>1. PICK s \in Window(record[q].counter, Block) : s \in stored /\ signed[s] # q
      BY <1>3
    <2>2. s \in Slot /\ signed[s] # Unsigned
      BY <2>1 DEF Kept, StoredSigned, SignedIn
    <2>3. signed'[s] # q /\ s \in stored'
      BY <2>1, <2>2, SignedStays DEF Acts
    <2> QED BY <1>1, <2>1, <2>3 DEF Shared
  <1> QED BY <1>2, <1>3, SharedIs

LEMMA DoneStep ==
  ASSUME Kept, StoredUnlessShared, [Next]_vars
  PROVE  StoredUnlessShared'
  <1> SUFFICES ASSUME NEW q \in Quote, record'[q].status = "done"
               PROVE  /\ quote'[q] = "issued"
                      /\ SlotsOf(q)' \subseteq stored' \/ Shared(q)'
    BY DEF StoredUnlessShared
  <1>1. CASE record[q].status = "done"
    <2>1. PICK C \in SUBSET Context : Acts(C)
      BY StepActs DEF Kept
    <2>2. quote[q] = "issued" /\ (SlotsOf(q) \subseteq stored \/ Shared(q))
      BY <1>1 DEF StoredUnlessShared
    <2>3. quote'[q] = "issued" /\ SlotsOf(q)' = SlotsOf(q) /\ stored \subseteq stored'
      BY <2>1, <2>2, IssuedStays DEF Acts
    <2> QED BY <2>1, <2>2, <2>3, SharedStays
  <1>2. CASE record[q].status # "done"
    <2>1. PICK c \in Context : (Close(c) \/ ReclaimKnown(c)) /\ work[c].quote = q
      BY <1>2, CloseMoves DEF Kept
    <2>2. UNCHANGED <<quote, signed, stored>>
      BY <2>1 DEF Close, ReclaimKnown, mintVars
    <2>3. record' = [record EXCEPT ![q].status = "done"]
      BY <2>1 DEF Close, ReclaimKnown, Settle
    <2>4. \A r \in Quote : record'[r].counter = record[r].counter
      BY <2>3 DEF Kept, Safe, TypeOK
    <2>5. SlotsOf(q)' = SlotsOf(q) /\ (Shared(q)' <=> Shared(q))
      BY <2>2, <2>4 DEF Shared, SlotsOf, Window
    <2>6. Claiming(c) /\ ClaimKnows(c) /\ ClaimFollows(c)
      BY <2>1 DEF Close, ReclaimKnown, At, Claiming, Kept, Safe, ClaimsKnow, ClaimsFollow
    <2>7. quote[q] = "issued" /\ (SlotsOf(q) \subseteq stored \/ Shared(q))
      <3>1. CASE Close(c)
        BY <2>1, <2>6, <3>1 DEF Close, At, ClaimFollows
      <3>2. CASE ReclaimKnown(c)
        <4>1. record[q].counter = work[c].counter
          BY <2>1, <2>6, <3>2 DEF ReclaimKnown, At, ClaimKnows
        <4>2. PICK s \in Window(record[q].counter, Block) : s \in stored
          BY <3>2, <4>1 DEF ReclaimKnown, Reclaimed, SignedIn
        <4>3. CASE signed[s] # q
          BY <2>1, <3>2, <4>2, <4>3 DEF ReclaimKnown, Shared
        <4>4. CASE signed[s] = q
          <5>1. SlotsOf(q) \cap stored # {}
            BY <4>2, <4>4 DEF SlotsOf, Kept, StoredSigned, SignedIn
          <5> QED BY <2>1, <3>2, <5>1, SharedIs DEF ReclaimKnown, Kept, StoredTogether
        <4> QED BY <4>3, <4>4
      <3> QED BY <2>1, <3>1, <3>2
    <2> QED BY <2>2, <2>5, <2>7
  <1> QED BY <1>1, <1>2

-----------------------------------------------------------------------------
(* The theorems.                                                           *)

LEMMA InitInv == Init => IInv
  <1> SUFFICES ASSUME Init PROVE IInv
    OBVIOUS
  <1>1. TypeOK
    BY InitTyped
  <1>2. \A q \in Quote : SlotsOf(q) = {}
    BY QuoteClaimAssumption DEF Init, SlotsOf
  <1> QED BY <1>1, <1>2 DEF Init, IInv, ClaimsKnow, ClaimsFollow, Claiming, MintFollows,
                  SwapsSigned, RestoresWhole, At, StoredSigned, StoredTogether,
                  StoredUnlessShared

LEMMA InvStep == WatchedOnce /\ IInv /\ [Next]_vars => IInv'
  <1> SUFFICES ASSUME WatchedOnce, IInv, [Next]_vars PROVE IInv'
    OBVIOUS
  <1>1. Safe /\ Kept /\ StoredUnlessShared
    BY DEF IInv, Safe, Kept
  <1>2. TypeOK'
    BY <1>1, TypedStep, SafeQuotes DEF Safe
  <1>3. ClaimsKnow' /\ ClaimsFollow' /\ MintFollows'
    BY <1>1, ClaimsStep, MintStep DEF Kept
  <1>4. SwapsSigned' /\ RestoresWhole'
    BY <1>1, SwapsStep, RestoresStep DEF Kept
  <1>5. StoredSigned' /\ StoredTogether' /\ StoredUnlessShared'
    BY <1>1, StoredStep, DoneStep
  <1> QED BY <1>2, <1>3, <1>4, <1>5 DEF IInv

\* The invariant, when no two contexts wait for the same quote.
THEOREM ClaimInvariant ==
  ASSUME WatchedOnce
  PROVE  Spec => []IInv
  <1>1. IInv /\ [Next]_vars => IInv'
    BY InvStep, WatchedOnce
  <1> QED BY <1>1, InitInv, PTL DEF Spec

\* What the mint issued is within reach of the pending record, wherever an
\* attempt was interrupted.
THEOREM WithinReach ==
  ASSUME WatchedOnce
  PROVE  Spec => []Reclaimable
  <1>1. IInv => Reclaimable
    BY DEF IInv, MintFollows, Reclaimable
  <1> QED BY <1>1, ClaimInvariant, WatchedOnce, PTL

\* A record is closed over its own stored proofs, unless something else was
\* derived from its window.
THEOREM ClosedOverItsOwn ==
  ASSUME WatchedOnce
  PROVE  Spec => []StoredUnlessShared
  <1>1. IInv => StoredUnlessShared
    BY DEF IInv
  <1> QED BY <1>1, ClaimInvariant, WatchedOnce, PTL

=============================================================================
