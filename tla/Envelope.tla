------------------------------ MODULE Envelope ------------------------------
(***************************************************************************)
(* One envelope: the proofs one key reserves at one mint, worked on by     *)
(* every device that holds the seed (packages/linkshu, Envelope and        *)
(* Melt.meltEnvelope / Melt.resumePending as far as they touch it).        *)
(*                                                                         *)
(* A device has two slots of work.  "leased" runs the operations that take *)
(* the key's lease, one at a time (KeyLease shows that they exclude each   *)
(* other); "free" runs those that take none: `state` and `resumePending`.  *)
(* Every store write, and every request to the mint and its answer, is a   *)
(* step of its own, so crashes and the other slot fall between any two.    *)
(* A read of the local store belongs to the step that decides on it.       *)
(*                                                                         *)
(* Rows and operations replicate per column, last writer wins.  A column   *)
(* is a value per device plus the set of devices that have its newest      *)
(* write; a superseded write no longer travels.                            *)
(*                                                                         *)
(* Left out: amounts, fees and the balance that funds an envelope (opening *)
(* may fail for any such reason, see FundFails), text encoding, and        *)
(* answers that omit a proof, which end an operation like a silent mint.   *)
(***************************************************************************)
EXTENDS Naturals, FiniteSets

CONSTANTS
    Devices,      \* devices holding the seed
    Proofs,       \* the envelope's proofs, one per denomination slot
    Melts,        \* melt quotes; each meltEnvelope asks for a fresh one
    Tasks,        \* Devices -> the operations its callers use in this instance
    LateRequests, \* may the mint see a request its sender has given up on
    MaxCrashes    \* bound on crashes

Leased == {"open", "send", "release", "melt"}
Unleased == {"state", "resume"}
Slots == {"leased", "free"}

\* Values outside the sets above.
NoMelt == "no melt"
InEnvelope == "envelope"   \* operationId names the envelope's operation
NoHolder == "none"         \* operationId is null

ASSUME EnvelopeAssumption ==
    /\ IsFiniteSet(Devices) /\ IsFiniteSet(Proofs) /\ Proofs # {}
    /\ Tasks \in [Devices -> SUBSET (Leased \cup Unleased)]
    /\ LateRequests \in BOOLEAN
    /\ MaxCrashes \in Nat
    /\ Melts \cap {NoMelt, InEnvelope, NoHolder} = {}

VARIABLES
    \* the mint (external)
    mint,      \* Proofs -> unsigned, unspent, pending, spent (NUT-09, NUT-07)
    quote,     \* Melts -> none, UNPAID, PENDING, PAID
    wentTo,    \* Proofs -> who got the value of a spent proof
    wire,      \* requests sent and not yet seen by the mint
    \* the synced stores, per device
    op,        \* status of the envelope operation, or absent
    row,       \* state column of each proof row, or absent
    holder,    \* operationId column of each proof row
    melt,      \* status of each melt operation, or absent
    newest,    \* which devices have each column's newest write
    booked,    \* proofs whose released value some device stored as balance
    \* the running operations and what they told their callers
    proc,      \* Devices -> Slots -> the operation in progress
    sent,      \* devices on which a send returned the token
    crashes

mintVars == <<mint, quote, wentTo, wire>>
storeVars == <<op, row, holder, melt, newest, booked>>
callVars == <<sent, crashes>>
vars == <<mintVars, storeVars, proc, callVars>>

ProofStates == {"unsigned", "unspent", "pending", "spent"}
Payees == {"nobody", "recipient", "invoice", "balance"}
QuoteStates == {"none", "UNPAID", "PENDING", "PAID"}
OpStatus == {"absent", "pending", "issued", "done", "returned"}
Closed == {"done", "returned"}
RowStates == {"absent", "held", "handedOut", "spent"}
Holders == {NoHolder, InEnvelope} \cup Melts
MeltStatus == {"absent", "pending", "paid", "unpaid", "failed"}

Requests ==
    [kind : {"fund", "swap", "melt"}, from : Devices,
     melt : Melts \cup {NoMelt}, proofs : SUBSET Proofs]

Steps ==
    {"end", "load", "probe", "fund", "fundWait", "reprobe", "store", "rows",
     "hand", "issue", "guard", "ask", "spentRows", "close", "swap", "swapWait",
     "book", "freeRows", "returned", "check", "record", "hold", "sendMelt",
     "meltWait", "askQuote", "paidRows", "paidOp", "paidMelt", "giveBack",
     "closeMelt"}

\* An operation in progress: its step, the step that follows once the
\* envelope is loaded, the status it read or is about to write, the mint's
\* answers it holds and the melt it works on.
Operations ==
    [task : {"none", "late"} \cup Leased \cup Unleased, pc : Steps, next : Steps,
     status : OpStatus \cup MeltStatus,
     answers : [Proofs -> ProofStates], melt : Melts \cup {NoMelt}]

NoAnswers == [p \in Proofs |-> "unsigned"]

Ended ==
    [task |-> "none", pc |-> "end", next |-> "end", status |-> "absent",
     answers |-> NoAnswers, melt |-> NoMelt]

TypeOK ==
    /\ mint \in [Proofs -> ProofStates]
    /\ quote \in [Melts -> QuoteStates]
    /\ wentTo \in [Proofs -> Payees]
    /\ wire \subseteq Requests
    /\ op \in [Devices -> OpStatus]
    /\ row \in [Devices -> [Proofs -> RowStates]]
    /\ holder \in [Devices -> [Proofs -> Holders]]
    /\ melt \in [Devices -> [Melts -> MeltStatus]]
    /\ newest \in [op : SUBSET Devices, row : [Proofs -> SUBSET Devices],
                   holder : [Proofs -> SUBSET Devices],
                   melt : [Melts -> SUBSET Devices]]
    /\ booked \subseteq Proofs
    /\ proc \in [Devices -> [Slots -> Operations]]
    /\ sent \subseteq Devices
    /\ crashes \in 0..MaxCrashes

Init ==
    /\ mint = [p \in Proofs |-> "unsigned"]
    /\ quote = [m \in Melts |-> "none"]
    /\ wentTo = [p \in Proofs |-> "nobody"]
    /\ wire = {}
    /\ op = [d \in Devices |-> "absent"]
    /\ row = [d \in Devices |-> [p \in Proofs |-> "absent"]]
    /\ holder = [d \in Devices |-> [p \in Proofs |-> NoHolder]]
    /\ melt = [d \in Devices |-> [m \in Melts |-> "absent"]]
    /\ newest = [op |-> {}, row |-> [p \in Proofs |-> {}],
                 holder |-> [p \in Proofs |-> {}], melt |-> [m \in Melts |-> {}]]
    /\ booked = {}
    /\ proc = [d \in Devices |-> [s \in Slots |-> Ended]]
    /\ sent = {}
    /\ crashes = 0

-----------------------------------------------------------------------------
(* The operations in progress *)

At(d, s, step) == proc[d][s].pc = step

Continue(d, s, next) == proc' = [proc EXCEPT ![d][s] = next]

Goto(d, s, step) ==
    Continue(d, s, IF step = "end" THEN Ended
                   ELSE [proc[d][s] EXCEPT !.pc = step])

Status(d, s) == proc[d][s].status
Answers(d, s) == proc[d][s].answers
MeltOf(d, s) == proc[d][s].melt

(* Writes to the synced stores *)

PutOp(d, status) ==
    /\ op' = [op EXCEPT ![d] = status]
    /\ newest' = [newest EXCEPT !.op = {d}]
    /\ UNCHANGED <<row, holder, melt, booked>>

PutMelt(d, m, status) ==
    /\ melt' = [melt EXCEPT ![d][m] = status]
    /\ newest' = [newest EXCEPT !.melt[m] = {d}]
    /\ UNCHANGED <<op, row, holder, booked>>

\* setProofState without an operationId keeps each row's holder.
PutRows(d, S, state) ==
    /\ row' = [row EXCEPT ![d] = [p \in Proofs |-> IF p \in S THEN state ELSE row[d][p]]]
    /\ newest' = [newest EXCEPT !.row =
                    [p \in Proofs |-> IF p \in S THEN {d} ELSE newest.row[p]]]
    /\ UNCHANGED <<op, holder, melt, booked>>

PutRowsUnder(d, S, states, h) ==
    /\ row' = [row EXCEPT ![d] = [p \in Proofs |-> IF p \in S THEN states[p] ELSE row[d][p]]]
    /\ holder' = [holder EXCEPT ![d] = [p \in Proofs |-> IF p \in S THEN h ELSE holder[d][p]]]
    /\ newest' = [newest EXCEPT
                    !.row = [p \in Proofs |-> IF p \in S THEN {d} ELSE newest.row[p]],
                    !.holder = [p \in Proofs |-> IF p \in S THEN {d} ELSE newest.holder[p]]]
    /\ UNCHANGED <<op, melt, booked>>

\* Mutants: a closed operation's status becomes the row's state; any holder
\* will do to send; a row handed out before a crash stops the next send; only
\* an envelope that was not sent closes.
RowStateOfStatus(status) ==
    CASE status = "pending" -> "held"
      [] status = "issued" -> "handedOut"
      [] OTHER -> status
IsSendableAnyHolder(d, status) ==
    \/ status = "issued"
    \/ /\ status = "pending"
       /\ \A p \in Proofs : row[d][p] \in {"absent", "handedOut", "held"}
IsSendableHeldOnly(d, status) ==
    \/ status = "issued"
    \/ /\ status = "pending"
       /\ \A p \in Proofs : row[d][p] = "held" /\ holder[d][p] = InEnvelope
CloseIfUnsent(d, status) ==
    IF status = "pending" /\ \A p \in Proofs : row[d][p] = "spent"
    THEN PutOp(d, "done")
    ELSE UNCHANGED storeVars

\* The state an operation of this status implies for a row it names.
RowStateOf(status) ==
    CASE status = "pending" -> "held"
      [] status = "issued" -> "handedOut"
      [] OTHER -> "spent"

\* Rows the store lacks are inserted, held rows without a holder go back
\* under the envelope, other rows stay.
ReconcileRows(d, status) ==
    LET missing == {p \in Proofs : row[d][p] = "absent"}
        orphans == {p \in Proofs : row[d][p] = "held" /\ holder[d][p] = NoHolder}
    IN PutRowsUnder(d, missing \cup orphans,
                    [p \in Proofs |-> IF p \in missing THEN RowStateOf(status) ELSE "held"],
                    InEnvelope)

HeldUnder(d, h) == {p \in Proofs : row[d][p] = "held" /\ holder[d][p] = h}

IsHandedOut(d, status) ==
    status = "issued" \/ \E p \in Proofs : row[d][p] = "handedOut"

IsSendable(d, status) ==
    \/ status = "issued"
    \/ /\ status = "pending"
       /\ \A p \in Proofs : row[d][p] \in {"absent", "handedOut"} \/ p \in HeldUnder(d, InEnvelope)

\* closeIfSpent, deciding on the status its caller read.
CloseIfSpent(d, status) ==
    IF status \in {"pending", "issued"} /\ \A p \in Proofs : row[d][p] = "spent"
    THEN PutOp(d, "done")
    ELSE UNCHANGED storeVars

-----------------------------------------------------------------------------
(* Starting an operation *)

\* Where an operation continues once it knows the envelope.
LoadedStep(task) ==
    CASE task = "send" -> "hand"
      [] task = "release" -> "guard"
      [] task = "melt" -> "check"
      [] task = "state" -> "ask"
      [] OTHER -> "end"

SlotOf(task) == IF task \in Leased THEN "leased" ELSE "free"

Start(d, task) ==
    /\ task \in Tasks[d] \ {"resume"}
    /\ proc[d][SlotOf(task)] = Ended
    /\ Continue(d, SlotOf(task),
                [Ended EXCEPT !.task = task, !.pc = "load", !.next = LoadedStep(task)])
    /\ UNCHANGED <<mintVars, storeVars, callVars>>

\* resumePending takes up one pending melt and asks the mint about it.
StartResume(d, m) ==
    /\ "resume" \in Tasks[d]
    /\ proc[d]["free"] = Ended
    /\ melt[d][m] = "pending"
    /\ Continue(d, "free", [Ended EXCEPT !.task = "resume", !.pc = "askQuote", !.melt = m])
    /\ UNCHANGED <<mintVars, storeVars, callVars>>

\* resumePending finds rows still held under a closed melt: spent when it
\* paid, else back to the envelope.
StartLate(d, m) ==
    /\ "resume" \in Tasks[d]
    /\ proc[d]["free"] = Ended
    /\ HeldUnder(d, m) # {}
    /\ melt[d][m] \in {"paid", "unpaid", "failed"}
    /\ IF melt[d][m] = "paid"
       THEN PutRows(d, HeldUnder(d, m), "spent") /\ UNCHANGED proc
       ELSE /\ Continue(d, "free", [Ended EXCEPT !.task = "late", !.pc = "giveBack",
                                                  !.status = melt[d][m], !.melt = m])
            /\ UNCHANGED storeVars
    /\ UNCHANGED <<mintVars, callVars>>

(* Loading the envelope, or adopting what the mint signed *)

\* loadEnvelope finds the operation: its rows are completed.
Load(d, s) ==
    /\ At(d, s, "load")
    /\ op[d] # "absent"
    /\ ReconcileRows(d, op[d])
    /\ IF proc[d][s].next = "end" THEN Continue(d, s, Ended)
       ELSE Continue(d, s, [proc[d][s] EXCEPT !.pc = proc[d][s].next, !.status = op[d]])
    /\ UNCHANGED <<mintVars, callVars>>

\* It finds none: send and meltEnvelope fail, the others probe the mint.
LoadNothing(d, s) ==
    /\ At(d, s, "load")
    /\ op[d] = "absent"
    /\ Goto(d, s, IF proc[d][s].task \in {"send", "melt"} THEN "end" ELSE "probe")
    /\ UNCHANGED <<mintVars, storeVars, callVars>>

\* NUT-09 over the key's slots: what is signed is adopted; nothing signed
\* lets `open` fund, and ends every other operation and a second probe.
Probe(d, s) ==
    /\ At(d, s, "probe") \/ At(d, s, "reprobe")
    /\ Goto(d, s, IF \E p \in Proofs : mint[p] # "unsigned" THEN "store"
                  ELSE IF At(d, s, "probe") /\ proc[d][s].task = "open" THEN "fund"
                  ELSE "end")
    /\ UNCHANGED <<mintVars, storeVars, callVars>>

\* storeEnvelope writes the operation pending, replacing one that is there.
StoreOperation(d, s) ==
    /\ At(d, s, "store")
    /\ PutOp(d, "pending")
    /\ Goto(d, s, "rows")
    /\ UNCHANGED <<mintVars, callVars>>

StoreRows(d, s) ==
    /\ At(d, s, "rows")
    /\ ReconcileRows(d, "pending")
    /\ IF proc[d][s].next = "end" THEN Continue(d, s, Ended)
       ELSE Continue(d, s, [proc[d][s] EXCEPT !.pc = proc[d][s].next, !.status =
                              IF proc[d][s].next \in {"paidOp", "giveBack"}
                              THEN @ ELSE "pending"])
    /\ UNCHANGED <<mintVars, callVars>>

(* open: fund the envelope when nobody has *)

\* The fee, the balance or the request itself fails; the mint is asked once
\* more whether another device funded the key.
FundFails(d) ==
    /\ At(d, "leased", "fund")
    /\ Goto(d, "leased", "reprobe")
    /\ UNCHANGED <<mintVars, storeVars, callVars>>

\* A request leaves, or is on its way already.
Request(d, kind, m, S) ==
    wire' = wire \cup {[kind |-> kind, from |-> d, melt |-> m, proofs |-> S]}

SendFund(d) ==
    /\ At(d, "leased", "fund")
    /\ Request(d, "fund", NoMelt, Proofs)
    /\ Goto(d, "leased", "fundWait")
    /\ UNCHANGED <<mint, quote, wentTo, storeVars, callVars>>

(* send: hand the envelope out as a token *)

Hand(d) ==
    /\ At(d, "leased", "hand")
    /\ IF IsSendable(d, Status(d, "leased"))
       THEN /\ PutRows(d, HeldUnder(d, InEnvelope), "handedOut")
            /\ Goto(d, "leased", "issue")
       ELSE Goto(d, "leased", "end") /\ UNCHANGED storeVars
    /\ UNCHANGED <<mintVars, callVars>>

\* The operation is issued, and only then the caller gets the token.
Issue(d) ==
    /\ At(d, "leased", "issue")
    /\ IF Status(d, "leased") = "issued" THEN UNCHANGED storeVars ELSE PutOp(d, "issued")
    /\ sent' = sent \cup {d}
    /\ Goto(d, "leased", "end")
    /\ UNCHANGED <<mintVars, crashes>>

(* state, and the part of release that asks the mint (NUT-07) *)

Guard(d) ==
    /\ At(d, "leased", "guard")
    /\ Goto(d, "leased", IF IsHandedOut(d, Status(d, "leased")) THEN "end" ELSE "ask")
    /\ UNCHANGED <<mintVars, storeVars, callVars>>

\* EnvelopeBusy ends a release while the mint has a proof pending.
Ask(d, s) ==
    /\ At(d, s, "ask")
    /\ IF proc[d][s].task = "release" /\ \E p \in Proofs : mint[p] = "pending"
       THEN Continue(d, s, Ended)
       ELSE Continue(d, s, [proc[d][s] EXCEPT !.pc = "spentRows", !.answers = mint])
    /\ UNCHANGED <<mintVars, storeVars, callVars>>

\* Proofs the mint reported spent.
ReportedSpent(d, s) == {p \in Proofs : Answers(d, s)[p] = "spent"}
ReportedUnspent(d, s) == {p \in Proofs : Answers(d, s)[p] = "unspent"}

\* Only stored rows are patched.
Stored(d, S) == {p \in S : row[d][p] # "absent"}

MarkSpent(d, s) ==
    /\ At(d, s, "spentRows")
    /\ PutRows(d, {p \in Stored(d, ReportedSpent(d, s)) : row[d][p] # "spent"}, "spent")
    /\ Goto(d, s, "close")
    /\ UNCHANGED <<mintVars, callVars>>

Close(d, s) ==
    /\ At(d, s, "close")
    /\ CloseIfSpent(d, Status(d, s))
    /\ Goto(d, s, IF proc[d][s].task = "release" /\ ReportedUnspent(d, s) # {}
                  THEN "swap" ELSE "end")
    /\ UNCHANGED <<mintVars, callVars>>

(* release: swap the unspent proofs back into the balance *)

SendSwap(d) ==
    /\ At(d, "leased", "swap")
    /\ Request(d, "swap", NoMelt, ReportedUnspent(d, "leased"))
    /\ Goto(d, "leased", "swapWait")
    /\ UNCHANGED <<mint, quote, wentTo, storeVars, callVars>>

\* acceptAtMint stores the fresh proofs the mint answered with.
Book(d) ==
    /\ At(d, "leased", "book")
    /\ booked' = booked \cup ReportedUnspent(d, "leased")
    /\ Goto(d, "leased", "freeRows")
    /\ UNCHANGED <<mintVars, op, row, holder, melt, newest, callVars>>

FreeRows(d) ==
    /\ At(d, "leased", "freeRows")
    /\ PutRows(d, Stored(d, ReportedUnspent(d, "leased")), "spent")
    /\ Goto(d, "leased", "returned")
    /\ UNCHANGED <<mintVars, callVars>>

Returned(d) ==
    /\ At(d, "leased", "returned")
    /\ PutOp(d, "returned")
    /\ Goto(d, "leased", "end")
    /\ UNCHANGED <<mintVars, callVars>>

-----------------------------------------------------------------------------
(* meltEnvelope: pay an invoice with the envelope's proofs *)

\* Melts bounds the quotes there are: with none left, the mint gives none.
Fresh == {m \in Melts : quote[m] = "none"}

\* The envelope is open and nothing else holds a proof of it; the mint gives
\* a fresh quote.
Check(d) ==
    /\ At(d, "leased", "check")
    /\ IF Status(d, "leased") = "pending" /\ HeldUnder(d, InEnvelope) = Proofs /\ Fresh # {}
       THEN \E m \in Fresh :
              /\ quote' = [quote EXCEPT ![m] = "UNPAID"]
              /\ Continue(d, "leased",
                          [proc[d]["leased"] EXCEPT !.pc = "record", !.melt = m])
       ELSE Goto(d, "leased", "end") /\ UNCHANGED quote
    /\ UNCHANGED <<mint, wentTo, wire, storeVars, callVars>>

\* Mutant: the proofs are held before there is a record.
RecordLater(d) ==
    /\ At(d, "leased", "record")
    /\ Goto(d, "leased", "hold")
    /\ UNCHANGED <<mintVars, storeVars, callVars>>

Record(d) ==
    /\ At(d, "leased", "record")
    /\ PutMelt(d, MeltOf(d, "leased"), "pending")
    /\ Goto(d, "leased", "hold")
    /\ UNCHANGED <<mintVars, callVars>>

AllHeld == [p \in Proofs |-> "held"]

\* The rows that Check saw held are written, whatever they are by now.
Hold(d) ==
    /\ At(d, "leased", "hold")
    /\ PutRowsUnder(d, Proofs, AllHeld, MeltOf(d, "leased"))
    /\ Goto(d, "leased", "sendMelt")
    /\ UNCHANGED <<mintVars, callVars>>

SendMelt(d) ==
    /\ At(d, "leased", "sendMelt")
    /\ Request(d, "melt", MeltOf(d, "leased"), Proofs)
    /\ Goto(d, "leased", "meltWait")
    /\ UNCHANGED <<mint, quote, wentTo, storeVars, callVars>>

(* Settling a melt by what the mint says of its quote; also resumePending *)

\* Mutants: a payment on its way counts as failed, or as made; the inputs keep
\* their holder; the record stays open.
NotPaid(state) == state # "PAID"
NotUnpaid(state) == state # "UNPAID"
GiveBackHeld(d, s) ==
    /\ At(d, s, "giveBack")
    /\ PutRows(d, HeldUnder(d, MeltOf(d, s)), "held")
    /\ Goto(d, s, IF proc[d][s].task = "late" THEN "end" ELSE "closeMelt")
    /\ UNCHANGED <<mintVars, callVars>>
CloseNoMelt(d, s) ==
    /\ At(d, s, "closeMelt")
    /\ Goto(d, s, "end")
    /\ UNCHANGED <<mintVars, storeVars, callVars>>

\* What settleQuoteState acts on; anything else leaves the melt pending.
IsPaid(state) == state = "PAID"

IsUnpaid(state) == state = "UNPAID"

AskQuote(d, s) ==
    /\ At(d, s, "askQuote")
    /\ CASE IsPaid(quote[MeltOf(d, s)]) -> Goto(d, s, "paidRows")
         [] IsUnpaid(quote[MeltOf(d, s)]) ->
              Continue(d, s, [proc[d][s] EXCEPT !.pc = "giveBack", !.status = "unpaid"])
         [] OTHER -> Goto(d, s, "end")
    /\ UNCHANGED <<mintVars, storeVars, callVars>>

PaidRows(d, s) ==
    /\ At(d, s, "paidRows")
    /\ PutRows(d, HeldUnder(d, MeltOf(d, s)), "spent")
    /\ Goto(d, s, "paidOp")
    /\ UNCHANGED <<mintVars, callVars>>

\* envelopeOfMelt stores an operation that has not synced here yet, from the
\* text the melt carries.
StoreFirst(d, s, after) ==
    Continue(d, s, [proc[d][s] EXCEPT !.pc = "store", !.next = after])

PaidOp(d, s) ==
    /\ At(d, s, "paidOp")
    /\ IF op[d] = "absent"
       THEN StoreFirst(d, s, "paidOp") /\ UNCHANGED storeVars
       ELSE CloseIfSpent(d, op[d]) /\ Goto(d, s, "paidMelt")
    /\ UNCHANGED <<mintVars, callVars>>

PaidMelt(d, s) ==
    /\ At(d, s, "paidMelt")
    /\ PutMelt(d, MeltOf(d, s), "paid")
    /\ Goto(d, s, "end")
    /\ UNCHANGED <<mintVars, callVars>>

\* returnToEnvelope; a melt that is closed already stays as it is.
GiveBack(d, s) ==
    /\ At(d, s, "giveBack")
    /\ IF op[d] = "absent"
       THEN StoreFirst(d, s, "giveBack") /\ UNCHANGED storeVars
       ELSE /\ PutRowsUnder(d, HeldUnder(d, MeltOf(d, s)), AllHeld, InEnvelope)
            /\ Goto(d, s, IF proc[d][s].task = "late" THEN "end" ELSE "closeMelt")
    /\ UNCHANGED <<mintVars, callVars>>

CloseMelt(d, s) ==
    /\ At(d, s, "closeMelt")
    /\ PutMelt(d, MeltOf(d, s), Status(d, s))
    /\ Goto(d, s, "end")
    /\ UNCHANGED <<mintVars, callVars>>

-----------------------------------------------------------------------------
(* The mint, the recipient, failures and replication *)

WaitStep(kind) ==
    CASE kind = "fund" -> "fundWait" [] kind = "swap" -> "swapWait" [] OTHER -> "meltWait"

\* Where a client goes that hears nothing of its request.
LostStep(step) ==
    CASE step = "fundWait" -> "reprobe" [] step = "swapWait" -> "end" [] OTHER -> "askQuote"

Awaited(r) ==
    /\ At(r.from, "leased", WaitStep(r.kind))
    /\ r.melt = MeltOf(r.from, "leased")
    /\ r.kind = "swap" => r.proofs = ReportedUnspent(r.from, "leased")

\* The sender hears the mint's answer, or loses it.
Answer(r, step) ==
    IF Awaited(r)
    THEN \/ Goto(r.from, "leased", step)
         \/ Goto(r.from, "leased", LostStep(WaitStep(r.kind)))
    ELSE UNCHANGED proc

Spend(S, payee) ==
    /\ mint' = [p \in Proofs |-> IF p \in S THEN "spent" ELSE mint[p]]
    /\ wentTo' = [p \in Proofs |-> IF p \in S THEN payee ELSE wentTo[p]]

\* Outputs are signed once.
MintSign(r) ==
    /\ r \in wire /\ r.kind = "fund"
    /\ wire' = wire \ {r}
    /\ IF \A p \in Proofs : mint[p] = "unsigned"
       THEN mint' = [p \in Proofs |-> "unspent"] /\ Answer(r, "store")
       ELSE Answer(r, "reprobe") /\ UNCHANGED mint
    /\ UNCHANGED <<quote, wentTo, storeVars, callVars>>

MintSwap(r) ==
    /\ r \in wire /\ r.kind = "swap"
    /\ wire' = wire \ {r}
    /\ IF \A p \in r.proofs : mint[p] = "unspent"
       THEN Spend(r.proofs, "balance") /\ Answer(r, "book")
       ELSE Answer(r, "end") /\ UNCHANGED <<mint, wentTo>>
    /\ UNCHANGED <<quote, storeVars, callVars>>

\* A rejected melt is closed `failed`.
AnswerRejected(r) ==
    IF Awaited(r)
    THEN \/ Continue(r.from, "leased", [proc[r.from]["leased"] EXCEPT
                                          !.pc = "giveBack", !.status = "failed"])
         \/ Goto(r.from, "leased", "askQuote")
    ELSE UNCHANGED proc

MintMelt(r) ==
    /\ r \in wire /\ r.kind = "melt"
    /\ wire' = wire \ {r}
    /\ IF quote[r.melt] = "UNPAID" /\ \A p \in r.proofs : mint[p] = "unspent"
       THEN /\ quote' = [quote EXCEPT ![r.melt] = "PENDING"]
            /\ mint' = [p \in Proofs |-> IF p \in r.proofs THEN "pending" ELSE mint[p]]
            /\ Answer(r, "askQuote")
       ELSE AnswerRejected(r) /\ UNCHANGED <<mint, quote>>
    /\ UNCHANGED <<wentTo, storeVars, callVars>>

\* The Lightning payment succeeds, or fails and frees its inputs.
MintSettles(m) ==
    /\ quote[m] = "PENDING"
    /\ \/ /\ quote' = [quote EXCEPT ![m] = "PAID"]
          /\ Spend(Proofs, "invoice")
       \/ /\ quote' = [quote EXCEPT ![m] = "UNPAID"]
          /\ mint' = [p \in Proofs |-> IF mint[p] = "pending" THEN "unspent" ELSE mint[p]]
          /\ UNCHANGED wentTo
    /\ UNCHANGED <<wire, storeVars, proc, callVars>>

\* Whoever received the token redeems a proof of it.
Redeem(p) ==
    /\ sent # {}
    /\ mint[p] = "unspent"
    /\ Spend({p}, "recipient")
    /\ UNCHANGED <<quote, wire, storeVars, proc, callVars>>

\* With LateRequests, the mint may still see what its sender gave up on.
Abandon(d) ==
    wire' = IF LateRequests THEN wire ELSE {r \in wire : r.from # d}

GiveUp(d) ==
    /\ proc[d]["leased"].pc \in {"fundWait", "swapWait", "meltWait"}
    /\ Abandon(d)
    /\ Goto(d, "leased", LostStep(proc[d]["leased"].pc))
    /\ UNCHANGED <<mint, quote, wentTo, storeVars, callVars>>

\* The mint does not answer, or the counter lock is not granted in time.
Fail(d, s) ==
    /\ proc[d][s].pc \in {"probe", "reprobe", "ask", "check", "swap", "sendMelt", "askQuote"}
    /\ Goto(d, s, "end")
    /\ UNCHANGED <<mintVars, storeVars, callVars>>

Crash(d) ==
    /\ crashes < MaxCrashes
    /\ \E s \in Slots : proc[d][s] # Ended
    /\ crashes' = crashes + 1
    /\ proc' = [proc EXCEPT ![d] = [s \in Slots |-> Ended]]
    /\ Abandon(d)
    /\ UNCHANGED <<mint, quote, wentTo, storeVars, sent>>

\* One column's newest write reaches another device.
SyncOp(d) ==
    /\ d \notin newest.op
    /\ \E e \in newest.op : op' = [op EXCEPT ![d] = op[e]]
    /\ newest' = [newest EXCEPT !.op = @ \cup {d}]
    /\ UNCHANGED <<mintVars, row, holder, melt, booked, proc, callVars>>

SyncRow(d, p) ==
    /\ d \notin newest.row[p]
    /\ \E e \in newest.row[p] : row' = [row EXCEPT ![d][p] = row[e][p]]
    /\ newest' = [newest EXCEPT !.row[p] = @ \cup {d}]
    /\ UNCHANGED <<mintVars, op, holder, melt, booked, proc, callVars>>

SyncHolder(d, p) ==
    /\ d \notin newest.holder[p]
    /\ \E e \in newest.holder[p] : holder' = [holder EXCEPT ![d][p] = holder[e][p]]
    /\ newest' = [newest EXCEPT !.holder[p] = @ \cup {d}]
    /\ UNCHANGED <<mintVars, op, row, melt, booked, proc, callVars>>

SyncMelt(d, m) ==
    /\ d \notin newest.melt[m]
    /\ \E e \in newest.melt[m] : melt' = [melt EXCEPT ![d][m] = melt[e][m]]
    /\ newest' = [newest EXCEPT !.melt[m] = @ \cup {d}]
    /\ UNCHANGED <<mintVars, op, row, holder, booked, proc, callVars>>

-----------------------------------------------------------------------------

\* What an operation of either slot does.
Shared(d, s) ==
    \/ Load(d, s) \/ LoadNothing(d, s) \/ Probe(d, s)
    \/ StoreOperation(d, s) \/ StoreRows(d, s)
    \/ Ask(d, s) \/ MarkSpent(d, s) \/ Close(d, s)
    \/ AskQuote(d, s) \/ PaidRows(d, s) \/ PaidOp(d, s) \/ PaidMelt(d, s)
    \/ GiveBack(d, s) \/ CloseMelt(d, s)

LeasedOnly(d) ==
    \/ FundFails(d) \/ SendFund(d)
    \/ Hand(d) \/ Issue(d)
    \/ Guard(d) \/ SendSwap(d) \/ Book(d) \/ FreeRows(d) \/ Returned(d)
    \/ Check(d) \/ Record(d) \/ Hold(d) \/ SendMelt(d)

Sync(d) ==
    \/ SyncOp(d)
    \/ \E p \in Proofs : SyncRow(d, p) \/ SyncHolder(d, p)
    \/ \E m \in Melts : SyncMelt(d, m)

Device(d) ==
    \/ \E task \in Tasks[d] : Start(d, task)
    \/ \E m \in Melts : StartResume(d, m) \/ StartLate(d, m)
    \/ \E s \in Slots : Shared(d, s) \/ Fail(d, s)
    \/ LeasedOnly(d) \/ GiveUp(d) \/ Crash(d) \/ Sync(d)

Mint ==
    \/ \E r \in wire : MintSign(r) \/ MintSwap(r) \/ MintMelt(r)
    \/ \E m \in Melts : MintSettles(m)
    \/ \E p \in Proofs : Redeem(p)

Next == (\E d \in Devices : Device(d)) \/ Mint

Spec == Init /\ [][Next]_vars

\* Callers repeat their operations, and resumePending, until they get through,
\* and every retry of a question to the mint is not lost forever; an operation
\* in progress goes on, and the mint settles a payment.
Fairness ==
    /\ \A d \in Devices :
         /\ \A task \in Tasks[d] \ {"resume"} : SF_vars(Start(d, task))
         /\ \A m \in Melts : SF_vars(StartResume(d, m) \/ StartLate(d, m))
         /\ \A s \in Slots :
              /\ WF_vars(Shared(d, s))
              /\ SF_vars(Probe(d, s) \/ Ask(d, s)) /\ SF_vars(AskQuote(d, s))
         /\ WF_vars(LeasedOnly(d)) /\ WF_vars(GiveUp(d))
    /\ \A m \in Melts : WF_vars(MintSettles(m))

FairSpec == Spec /\ Fairness

-----------------------------------------------------------------------------

\* No device writes off money: a row is spent, and an operation closed, only
\* once the mint spent the proofs, whatever ran, crashed or synced in between
\* (ProofStore.ts: "a proof the mint reports spent is dead").
ClosedIsSpent ==
    \A d \in Devices, p \in Proofs :
        op[d] \in Closed \/ row[d][p] = "spent" => mint[p] = "spent"

Funded == \A p \in Proofs : mint[p] # "unsigned"

NothingLearned == {"end", "load", "probe", "fund", "fundWait", "reprobe"}
PaidSteps == {"paidRows", "paidOp", "paidMelt"}
GiveBackSteps == {"giveBack", "closeMelt"}
MeltSteps == {"record", "hold", "sendMelt", "meltWait", "askQuote"} \cup PaidSteps \cup GiveBackSteps
SwapSteps == {"swap", "swapWait", "book", "freeRows", "returned"}

\* What an operation in progress has learned, possibly long ago, still holds.
StillTrue(o) ==
    /\ o.pc \notin NothingLearned => Funded
    /\ \A p \in Proofs : o.answers[p] = "spent" => mint[p] = "spent"
    /\ o.pc \in SwapSteps \/ (o.task = "release" /\ o.pc \in {"spentRows", "close"}) =>
         \A p \in Proofs : o.answers[p] \in {"spent", "unspent"}
    /\ o.pc \in {"book", "freeRows", "returned"} =>
         \A p \in Proofs : o.answers[p] = "unspent" => mint[p] = "spent"
    /\ o.pc \in MeltSteps \/ o.next \in {"paidOp", "giveBack"} => o.melt \in Melts
    /\ o.pc \in PaidSteps \/ o.next = "paidOp" => quote[o.melt] = "PAID"
    /\ o.pc \in GiveBackSteps \/ o.next = "giveBack" => o.status \in {"unpaid", "failed"}
    /\ o.next \in {"end", "hand", "guard", "check", "ask", "paidOp", "giveBack"}
    /\ o.next = "paidOp" => o.pc \in {"store", "rows", "paidOp", "paidMelt"}
    /\ o.next = "giveBack" => o.pc \in {"store", "rows", "giveBack", "closeMelt"}

\* Operations act on answers and store reads that other devices, the other
\* slot and the recipient have meanwhile overtaken.  Knowledge is why that is
\* safe: what they rely on never becomes false again (with TypeOK and
\* ClosedIsSpent it is inductive).
MintConsistent ==
    /\ (\E p \in Proofs : mint[p] # "unsigned") => Funded
    /\ \A m \in Melts : quote[m] = "PAID" => \A p \in Proofs : mint[p] = "spent"

StoresBacked ==
    /\ \A d \in Devices : op[d] # "absent" => Funded
    /\ \A d \in Devices, m \in Melts :
         /\ melt[d][m] # "absent" => Funded
         /\ melt[d][m] = "paid" => quote[m] = "PAID"

Knowledge ==
    /\ MintConsistent
    /\ StoresBacked
    /\ \A d \in Devices, s \in Slots : StillTrue(proc[d][s])

\* On one device, proofs held for a melt have a record that names them, so
\* resumePending finds them after a crash at any point (Melt.ts, meltEnvelope).
HeldIsRecorded ==
    \A d \in Devices, m \in Melts :
        HeldUnder(d, m) # {} => melt[d][m] # "absent"

\* A melt closes unpaid only when the mint "never executed (or reversed)" it
\* (Melt.ts, releaseInputs): no payment is under way or made behind a closed
\* record, or its proofs would count as open again.
UnpaidIsUnpaid ==
    \A d \in Devices, m \in Melts :
        melt[d][m] \in {"unpaid", "failed"} => quote[m] \notin {"PENDING", "PAID"}

\* Where the value of a proof is, by what the mint did with it.
Place(p) ==
    CASE mint[p] = "unsigned" -> "nowhere"
      [] mint[p] = "unspent" -> "reserved"
      [] mint[p] = "pending" -> "inflight"
      [] mint[p] = "spent" -> IF wentTo[p] = "balance" THEN "returned" ELSE "paid"

Promise == INSTANCE PayOnce WITH
    place <- [p \in Proofs |-> Place(p)],
    handed <- sent # {}

\* Several operations of one device, and a recipient, together pay a key once
\* and leave a token they gave away alone (envelope.md on `release` and `send`).
PaysOnce == Promise!Spec

\* A melt does not keep proofs forever: whatever crashes or fails, rows held
\* under it are spent or return to the envelope (Melt.ts, resumePending).
HeldReturns ==
    \A d \in Devices, m \in Melts : (HeldUnder(d, m) # {}) ~> (HeldUnder(d, m) = {})

\* Every stored melt is closed once the mint has settled its payment.
MeltCloses ==
    \A d \in Devices, m \in Melts : (melt[d][m] = "pending") ~> (melt[d][m] # "pending")

\* What the mint funded is not forgotten: each device delivers it or learns
\* that it is spent (envelope.md: run `open`, then `state`, then deliver).
Delivered ==
    (\E p \in Proofs : mint[p] = "unspent") ~>
        (sent # {} \/ \A p \in Proofs : mint[p] = "spent")

\* An envelope whose proofs are all spent is closed.
SpentCloses ==
    \A d \in Devices :
        (op[d] \in {"pending", "issued"} /\ \A p \in Proofs : mint[p] = "spent")
            ~> (op[d] \in Closed)

\* What a release swapped at the mint is in the balance once the envelope is
\* closed (envelope.md: "Every failure is safe to retry with the same key.").
ReleaseKeepsValue ==
    (\A e \in Devices : proc[e]["leased"] = Ended) =>
        \A d \in Devices, p \in Proofs :
            op[d] \in Closed /\ wentTo[p] = "balance" => p \in booked

=============================================================================
