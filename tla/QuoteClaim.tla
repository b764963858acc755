----------------------------- MODULE QuoteClaim -----------------------------
(***************************************************************************)
(* One deterministic derivation tree (linkshu/src/internal): the counter   *)
(* of a keyset, the lock that serialises its use, and the operations that  *)
(* derive outputs from it.  A claim turns a paid mint quote into proofs    *)
(* (quoteClaim.ts, for Topup and Autoswap), a swap spends proofs into new  *)
(* ones (spend.ts, for Send), a restore reads back what the mint signed.   *)
(*                                                                         *)
(* Contexts are tabs, or processes, of devices that share one seed.  The   *)
(* counter and its lock live in a device's key-value store; the proofs and *)
(* the quote records are synced, here at once.  The lock is KeyLease's: it *)
(* excludes, and lapses when its holder dies.  A request that its sender   *)
(* gave up on was executed by then or never will be.                       *)
(***************************************************************************)
EXTENDS Integers, FiniteSets

CONSTANTS
    Context, Device,
    Home,           \* the device of each context
    Quote,          \* the mint quotes of pending topups and autoswap claims
    Autoswap,       \* those of autoswap claims
    Overdue,        \* those past their deadline
    Watches,        \* which contexts wait for which quotes
    Block,          \* QUOTE_OUTPUT_BLOCK, and SWAP_OUTPUT_BLOCK
    Outputs,        \* how many slots the outputs of a claim take
    ProbeWindow,    \* COLLISION_RESTORE_WINDOW
    MaxAttempts,    \* MAX_MINT_ATTEMPTS, MAX_SWAP_ATTEMPTS
    MaxSlot,        \* bound on the slots
    MaxSwapSlot,    \* bound on the slots a swap starts from
    NoQuote, Nobody, Idle, Unsigned, Swapped

ASSUME QuoteClaimAssumption ==
    /\ Home \in [Context -> Device] /\ Watches \subseteq Context \X Quote
    /\ Autoswap \subseteq Quote /\ Overdue \subseteq Quote /\ NoQuote \notin Quote
    /\ Outputs \in Nat \ {0} /\ Block \in Nat /\ Outputs <= Block
    /\ ProbeWindow \in Nat /\ MaxAttempts \in Nat \ {0}
    /\ MaxSlot \in Nat /\ MaxSwapSlot \in Nat
    /\ Nobody \notin Context
    /\ Unsigned # Swapped /\ {Unsigned, Swapped} \cap Quote = {}

\* Slot 0 is never used; a record without a counter has 0 here.
Slot == 1..MaxSlot
NoCounter == 0

VARIABLES
    counter,    \* per device: the next slot to use
    lock,       \* per device: the context that holds the counter lock
    record,     \* per quote: its operation, synced
    quote,      \* per quote: what the mint says of it
    signed,     \* at the mint, per slot: what its output was signed for
    stored,     \* the slots whose proofs are in the store, synced
    work        \* per context: the operation it runs, or Idle

mintVars == <<quote, signed>>
vars == <<counter, lock, record, mintVars, stored, work>>

Init ==
    /\ counter = [d \in Device |-> 1]
    /\ lock = [d \in Device |-> Nobody]
    /\ record = [q \in Quote |-> [status |-> "pending", counter |-> NoCounter]]
    /\ quote = [q \in Quote |-> "unpaid"]
    /\ signed = [s \in Slot |-> Unsigned]
    /\ stored = {}
    /\ work = [c \in Context |-> Idle]

-----------------------------------------------------------------------------
(* The counter (counters.ts) and collisions (collisionRecovery.ts).        *)

Larger(a, b) == IF a > b THEN a ELSE b

AdvanceCounterTo(c, target) ==
    counter' = [counter EXCEPT ![Home[c]] = Larger(@, target)]

Window(first, size) == {s \in Slot : first <= s /\ s < first + size}
SignedIn(slots) == {s \in slots : signed[s] # Unsigned}
PastLast(slots) == {s + 1 : s \in {s \in slots : \A o \in slots : o <= s}}

\* Past the last signed slot of the probe's window, or a blind jump: the mint
\* said "pending", or the probe failed or found nothing.
RecoveryTargets(first, bump) ==
    {first + bump} \cup PastLast(SignedIn(Window(first, ProbeWindow)))

-----------------------------------------------------------------------------
(* An operation under way.                                                 *)

At(c, op, step) == work[c] # Idle /\ work[c].op = op /\ work[c].step = step
Goto(c, step) == work' = [work EXCEPT ![c].step = step]
Begin(c, op, step, q, first) ==
    work' = [work EXCEPT ![c] =
        [op |-> op, step |-> step, quote |-> q, counter |-> first,
         slots |-> {}, attempt |-> 1]]
End(c) == work' = [work EXCEPT ![c] = Idle]

Acquire(c) ==
    /\ lock[Home[c]] = Nobody
    /\ lock' = [lock EXCEPT ![Home[c]] = c]
Release(c) ==
    lock' = IF lock[Home[c]] = c THEN [lock EXCEPT ![Home[c]] = Nobody] ELSE lock

\* The mint does not answer or refuses, the lock times out, the app is closed
\* or reloaded: the operation is over, and its lock free again.
Stop(c) ==
    /\ work[c] # Idle
    /\ End(c) /\ Release(c)
    /\ UNCHANGED <<counter, record, mintVars, stored>>

-----------------------------------------------------------------------------
(* Claims.                                                                 *)

Pay(q) ==
    /\ quote[q] = "unpaid"
    /\ quote' = [quote EXCEPT ![q] = "paid"]
    /\ UNCHANGED <<counter, lock, record, signed, stored, work>>

\* Mutant: a claim that has its slot is taken for one that is under way.
WatchUnstarted(c, q) ==
    /\ <<c, q>> \in Watches /\ work[c] = Idle
    /\ record[q] = [status |-> "pending", counter |-> NoCounter]
    /\ Begin(c, "claim", "watch", q, NoCounter)
    /\ UNCHANGED <<counter, lock, record, mintVars, stored>>

\* A resume, or the operation that created it, keeps a copy of the record
\* while it waits for the payment and the lock.
Watch(c, q) ==
    /\ <<c, q>> \in Watches /\ work[c] = Idle /\ record[q].status = "pending"
    /\ Begin(c, "claim", "watch", q, record[q].counter)
    /\ UNCHANGED <<counter, lock, record, mintVars, stored>>

ClaimStarts(c) ==
    /\ At(c, "claim", "watch") /\ quote[work[c].quote] # "unpaid"
    /\ Acquire(c)
    /\ Goto(c, "check")
    /\ UNCHANGED <<counter, record, mintVars, stored>>

FirstSlot(c) ==
    IF work[c].counter = NoCounter THEN counter[Home[c]] ELSE work[c].counter

\* Mutant: a slot is kept in memory until the mint has answered.
ReserveUnrecorded(c) ==
    /\ At(c, "claim", "check") /\ quote[work[c].quote] = "paid"
    /\ work' = [work EXCEPT ![c].step = "reserved", ![c].counter = FirstSlot(c)]
    /\ UNCHANGED <<counter, lock, record, mintVars, stored>>

\* The mint reports the quote paid: the slot it will use goes to the record.
Reserve(c) ==
    LET q == work[c].quote IN
    /\ At(c, "claim", "check") /\ quote[q] = "paid"
    /\ record' = [record EXCEPT ![q].counter = FirstSlot(c)]
    /\ work' = [work EXCEPT ![c].step = "reserved", ![c].counter = FirstSlot(c)]
    /\ UNCHANGED <<counter, lock, mintVars, stored>>

\* Then the counter moves past the block, and the request goes out.
Advance(c) ==
    /\ At(c, "claim", "reserved")
    /\ AdvanceCounterTo(c, work[c].counter + Block)
    /\ Goto(c, "mint")
    /\ UNCHANGED <<lock, record, mintVars, stored>>

Issue(q, slots) ==
    /\ quote' = [quote EXCEPT ![q] = "issued"]
    /\ signed' = [s \in Slot |-> IF s \in slots THEN q ELSE signed[s]]

\* The mint issues the quote, or finds one of the outputs signed before.
Mint(c) ==
    LET slots == work[c].counter..(work[c].counter + Outputs - 1) IN
    /\ At(c, "claim", "mint") /\ slots \subseteq Slot
    /\ \/ /\ SignedIn(slots) = {} /\ quote[work[c].quote] = "paid"
          /\ Issue(work[c].quote, slots)
          /\ work' = [work EXCEPT ![c].step = "minted", ![c].slots = slots]
       \/ /\ SignedIn(slots) # {}
          /\ Goto(c, "collided")
          /\ UNCHANGED mintVars
    /\ UNCHANGED <<counter, lock, record, stored>>

\* recoverFromCollision
Recover(c) ==
    /\ At(c, "claim", "collided")
    /\ \E target \in RecoveryTargets(work[c].counter, Block) :
        AdvanceCounterTo(c, target)
    /\ work' = [work EXCEPT ![c].step = "moved", ![c].counter = counter'[Home[c]]]
    /\ UNCHANGED <<lock, record, mintVars, stored>>

\* An autoswap claim that the mint rejects past its deadline is dropped next.
Fails(c) ==
    /\ Release(c)
    /\ IF work[c].quote \in Autoswap \cap Overdue THEN Goto(c, "rejected") ELSE End(c)

\* The mint refuses a request; or nothing it issued is found in the window of
\* the record, or in that of a copy that has none.
Reject(c) ==
    /\ At(c, "claim", "check") \/ At(c, "claim", "mint")
    /\ Fails(c)
    /\ UNCHANGED <<counter, record, mintVars, stored>>

\* Mutant: one attempt too many.
RepointOnceMore(c) ==
    /\ At(c, "claim", "moved") /\ work[c].attempt <= MaxAttempts
    /\ record' = [record EXCEPT ![work[c].quote].counter = work[c].counter]
    /\ work' = [work EXCEPT ![c].step = "check", ![c].attempt = @ + 1]
    /\ UNCHANGED <<counter, lock, mintVars, stored>>

\* The record is pointed at the new slot, and the mint asked again.
Repoint(c) ==
    /\ At(c, "claim", "moved")
    /\ record' = [record EXCEPT ![work[c].quote].counter = work[c].counter]
    /\ IF work[c].attempt < MaxAttempts
       THEN /\ work' = [work EXCEPT ![c].step = "check", ![c].attempt = @ + 1]
            /\ UNCHANGED lock
       ELSE Fails(c)
    /\ UNCHANGED <<counter, mintVars, stored>>

\* persistMinted: the proofs first, then the record.
Persist(c) ==
    /\ At(c, "claim", "minted")
    /\ stored' = stored \cup work[c].slots
    /\ Goto(c, "stored")
    /\ UNCHANGED <<counter, lock, record, mintVars>>

Settle(c, status) ==
    record' = [record EXCEPT ![work[c].quote].status = status]

\* Mutant: the record first, then the proofs.
CloseFirst(c) ==
    \/ /\ At(c, "claim", "minted") /\ Settle(c, "done") /\ Goto(c, "stored")
       /\ UNCHANGED <<counter, lock, mintVars, stored>>
    \/ /\ At(c, "claim", "stored") /\ stored' = stored \cup work[c].slots
       /\ End(c) /\ Release(c) /\ UNCHANGED <<counter, record, mintVars>>

Close(c) ==
    /\ At(c, "claim", "stored")
    /\ Settle(c, "done")
    /\ End(c) /\ Release(c)
    /\ UNCHANGED <<counter, mintVars, stored>>

\* The quote is issued already (reclaimIssued): what the mint signed in the
\* record's window is read back.  If the store knows one of those proofs, a
\* previous run stored them.
Reclaimed(c) ==
    IF work[c].counter = NoCounter THEN {}
    ELSE SignedIn(Window(work[c].counter, Block))

ReclaimKnown(c) ==
    /\ At(c, "claim", "check") /\ quote[work[c].quote] = "issued"
    /\ Reclaimed(c) \cap stored # {}
    /\ Settle(c, "done")
    /\ End(c) /\ Release(c)
    /\ UNCHANGED <<counter, mintVars, stored>>

Reclaim(c) ==
    /\ At(c, "claim", "check") /\ quote[work[c].quote] = "issued"
    /\ Reclaimed(c) # {} /\ Reclaimed(c) \cap stored = {}
    /\ work' = [work EXCEPT ![c].step = "minted", ![c].slots = Reclaimed(c)]
    /\ UNCHANGED <<counter, lock, record, mintVars, stored>>

\* expireOrKeep: the record of an autoswap claim that was rejected, or that is
\* unpaid, is retired; Topup's, if unpaid and its copy has no slot.
DropClaim(c) ==
    /\ At(c, "claim", "rejected")
    /\ Settle(c, "failed")
    /\ End(c)
    /\ UNCHANGED <<counter, lock, mintVars, stored>>

Expire(c) ==
    LET q == work[c].quote IN
    /\ At(c, "claim", "watch") /\ quote[q] = "unpaid" /\ q \in Overdue
    /\ q \in Autoswap \/ work[c].counter = NoCounter
    /\ Settle(c, "failed")
    /\ End(c)
    /\ UNCHANGED <<counter, lock, mintVars, stored>>

-----------------------------------------------------------------------------
(* Swaps (swapProofsForAmount): the send outputs from the counter on, the  *)
(* change a block further; one slot stands for each.                       *)

SwapStarts(c) ==
    /\ work[c] = Idle /\ counter[Home[c]] <= MaxSwapSlot
    /\ Acquire(c)
    /\ Begin(c, "swap", "swap", NoQuote, counter[Home[c]])
    /\ UNCHANGED <<counter, record, mintVars, stored>>

Swap(c) ==
    LET slots == {work[c].counter, work[c].counter + Block} IN
    /\ At(c, "swap", "swap") /\ slots \subseteq Slot
    /\ \/ /\ SignedIn(slots) = {}
          /\ signed' = [s \in Slot |-> IF s \in slots THEN Swapped ELSE signed[s]]
          /\ work' = [work EXCEPT ![c].step = "swapped", ![c].slots = slots]
       \/ /\ SignedIn(slots) # {}
          /\ Goto(c, "collided")
          /\ UNCHANGED signed
    /\ UNCHANGED <<counter, lock, record, quote, stored>>

RecoverSwap(c) ==
    /\ At(c, "swap", "collided")
    /\ \E target \in RecoveryTargets(work[c].counter, 2 * Block) :
        AdvanceCounterTo(c, target)
    /\ IF work[c].attempt < MaxAttempts
       THEN /\ work' = [work EXCEPT ![c].step = "swap", ![c].attempt = @ + 1,
                                    ![c].counter = counter'[Home[c]]]
            /\ UNCHANGED lock
       ELSE End(c) /\ Release(c)
    /\ UNCHANGED <<record, mintVars, stored>>

\* The counter moves once the mint has answered; the lock is let go before
\* the proofs are booked.
AdvanceSwap(c) ==
    /\ At(c, "swap", "swapped")
    /\ AdvanceCounterTo(c, work[c].counter + Block + 1)
    /\ Goto(c, "book") /\ Release(c)
    /\ UNCHANGED <<record, mintVars, stored>>

\* settleSwap
Book(c) ==
    /\ At(c, "swap", "book")
    /\ stored' = stored \cup work[c].slots
    /\ End(c)
    /\ UNCHANGED <<counter, lock, record, mintVars>>

-----------------------------------------------------------------------------
(* Restore (restoreKeyset): all that is signed and not yet stored.         *)

RestoreStarts(c) ==
    /\ work[c] = Idle
    /\ Acquire(c)
    /\ Begin(c, "restore", "scan", NoQuote, NoCounter)
    /\ UNCHANGED <<counter, record, mintVars, stored>>

Scan(c) ==
    LET next == PastLast(SignedIn(Slot)) IN
    /\ At(c, "restore", "scan")
    /\ IF next = {}
       THEN End(c) /\ Release(c)
       ELSE /\ work' = [work EXCEPT ![c].step = "insert",
                                    ![c].counter = CHOOSE n \in next : TRUE,
                                    ![c].slots = SignedIn(Slot) \ stored]
            /\ UNCHANGED lock
    /\ UNCHANGED <<counter, record, mintVars, stored>>

Insert(c) ==
    /\ At(c, "restore", "insert")
    /\ stored' = stored \cup work[c].slots
    /\ Goto(c, "advance")
    /\ UNCHANGED <<counter, lock, record, mintVars>>

AdvanceRestored(c) ==
    /\ At(c, "restore", "advance")
    /\ AdvanceCounterTo(c, work[c].counter)
    /\ End(c) /\ Release(c)
    /\ UNCHANGED <<record, mintVars, stored>>

-----------------------------------------------------------------------------

ClaimStep(c) ==
    \/ ClaimStarts(c) \/ Reserve(c) \/ Advance(c) \/ Mint(c)
    \/ Recover(c) \/ Repoint(c) \/ Persist(c) \/ Close(c)
    \/ ReclaimKnown(c) \/ Reclaim(c)

OtherStep(c) ==
    \/ Swap(c) \/ RecoverSwap(c) \/ AdvanceSwap(c) \/ Book(c)
    \/ Scan(c) \/ Insert(c) \/ AdvanceRestored(c)
    \/ DropClaim(c)

Next ==
    \/ \E q \in Quote : Pay(q)
    \/ \E c \in Context :
        \/ \E q \in Quote : Watch(c, q)
        \/ SwapStarts(c) \/ RestoreStarts(c)
        \/ ClaimStep(c) \/ OtherStep(c)
        \/ Reject(c) \/ Expire(c) \/ Stop(c)

Spec == Init /\ [][Next]_vars

-----------------------------------------------------------------------------
(* Properties.                                                             *)

Operations == [op: {"claim", "swap", "restore"}, quote: Quote \cup {NoQuote},
               step: {"watch", "check", "reserved", "mint", "collided", "moved",
                      "minted", "stored", "rejected", "swap", "swapped", "book",
                      "scan", "insert", "advance"},
               counter: Nat, slots: SUBSET Slot, attempt: 1..MaxAttempts]

TypeOK ==
    /\ counter \in [Device -> Nat \ {0}]
    /\ lock \in [Device -> Context \cup {Nobody}]
    /\ record \in [Quote -> [status: {"pending", "done", "failed"}, counter: Nat]]
    /\ quote \in [Quote -> {"unpaid", "paid", "issued"}]
    /\ signed \in [Slot -> Quote \cup {Unsigned, Swapped}]
    /\ stored \subseteq Slot
    /\ work \in [Context -> Operations \cup {Idle}]

SlotsOf(q) == {s \in Slot : signed[s] = q}

\* "The outputs of one claim always fall inside it" (quoteClaim.ts:44), the
\* window that a reclaim scans: whenever an attempt is interrupted, and in
\* whatever context the next one runs, what the mint issued is within reach
\* of the pending record.
Reclaimable ==
    \A q \in Quote :
        (record[q].status = "pending" /\ quote[q] = "issued")
            => SlotsOf(q) \subseteq Window(record[q].counter, Block)

\* What comes between a claim and its own window: a stored proof of another
\* operation in it, or another claim's window that reaches into its slots.
Shared(q) ==
    \/ \E s \in Window(record[q].counter, Block) : s \in stored /\ signed[s] # q
    \/ \E r \in Quote \ {q} :
        /\ quote[r] = "issued"
        /\ SlotsOf(q) \cap Window(record[r].counter, Block) # {}

\* A reclaim that meets one proof it knows closes the record without a look
\* at the others: the record is closed over missing proofs only if something
\* else derived from its window.
StoredUnlessShared ==
    \A q \in Quote :
        record[q].status = "done"
            => /\ quote[q] = "issued"
               /\ SlotsOf(q) \subseteq stored \/ Shared(q)

\* "Proofs first: a crash before the record closes costs one reclaim scan on
\* resume, never the funds" (quoteClaim.ts:137).
DoneIsStored ==
    \A q \in Quote : record[q].status = "done" => SlotsOf(q) \subseteq stored

-----------------------------------------------------------------------------
(* Liveness: a launch resumes what is pending; a request that is made again *)
(* and again once gets its answer.                                         *)

Fairness ==
    /\ \A c \in Context : WF_vars(ClaimStep(c) \/ OtherStep(c))
    /\ \A q \in Quote \ Overdue : \A c \in {c \in Context : <<c, q>> \in Watches} :
        /\ SF_vars(Watch(c, q) /\ lock[Home[c]] = Nobody)
        /\ SF_vars(ClaimStarts(c))
        /\ <>[][~Stop(c) /\ ~Reject(c)]_vars

FairSpec == Spec /\ Fairness

\* A payment that arrived before the deadline is in the balance in the end,
\* whatever crashes, is lost or collides on the way.
Completes ==
    \A q \in Quote \ Overdue :
        quote[q] = "paid" ~> record[q].status = "done"

=============================================================================
