--------------------------- MODULE Envelope_melts ---------------------------
(***************************************************************************)
(* What holds of an envelope's payments, beyond what holds of any instance *)
(* (Envelope_proofs).  The hypotheses name what the code does not ensure:  *)
(*                                                                         *)
(*   Prompt    the mint never sees a request its sender has given up on;   *)
(*   NoResume  resumePending does not run (it takes no lease);             *)
(*   Alone     one device works on the envelope (send and release trust    *)
(*             the local rows, which replicate late).                      *)
(*                                                                         *)
(* With Prompt and NoResume: MeltInvariant, ClosedUnpaid.  With Alone, and *)
(* resumePending or late requests or not: HeldHasRecord.  With all three:  *)
(* RowsInvariant, and that the envelope implements PayOnce.                *)
(***************************************************************************)
EXTENDS Envelope_proofs

-----------------------------------------------------------------------------
(* Melts: what the mint says of a quote decides a record for good, as long *)
(* as the mint sees no request its sender gave up on, and resumePending    *)
(* does not run beside meltEnvelope (see MCResumeRace.cfg).                *)

Prompt == ~LateRequests
NoResume == \A d \in Devices : "resume" \notin Tasks[d]

WaitSteps == {"fundWait", "swapWait", "meltWait"}

\* Of this request its sender waits for the answer; a melt has not been paid.
Waited(r, o, quoted) ==
    /\ o.pc = WaitStep(r.kind)
    /\ r.melt = o.melt
    /\ r.proofs = IF r.kind = "swap" THEN {p \in Proofs : o.answers[p] = "unspent"} ELSE Proofs
    /\ r.kind = "melt" => quoted[r.melt] = "UNPAID"

WireAwaited == \A r \in wire : Waited(r, proc[r.from]["leased"], quote)

\* What a leased operation with this step and melt knows of its quote and its
\* record: nobody has closed the record before it, and until the mint has the
\* request, or once it said UNPAID, no payment is made.
Clear(pc, next, m, quoted, melted) ==
    /\ next # "ask"
    /\ m # NoMelt => pc \in MeltSteps \/ (pc \in {"store", "rows"} /\ next \in {"paidOp", "giveBack"})
    /\ m \in Melts =>
         quoted[m] # "none" /\ \A e \in Devices : melted[e][m] \in {"absent", "pending"}
    /\ pc \in {"record", "hold", "sendMelt"} \cup GiveBackSteps \/ next = "giveBack" =>
         quoted[m] = "UNPAID"

ClearAt(o, quoted, melted) == Clear(o.pc, o.next, o.melt, quoted, melted)

Cleared == \A d \in Devices : ClearAt(proc[d]["leased"], quote, melt)

\* resumePending does not run: what takes no lease works on no melt.
FreeIsState == \A d \in Devices : proc[d]["free"].melt = NoMelt

\* Two devices work on different melts.
OneAtATime ==
    \A d, e \in Devices :
        proc[d]["leased"].melt \in Melts /\ proc[d]["leased"].melt = proc[e]["leased"].melt => d = e

\* A quote the mint has not given yet has no record.
FreshUnused == \A m \in Melts : quote[m] = "none" => \A e \in Devices : melt[e][m] = "absent"

MeltInv == WireAwaited /\ Cleared /\ FreeIsState /\ OneAtATime /\ FreshUnused /\ UnpaidIsUnpaid

\* The slots' names differ.
LEMMA SlotNames == "leased" # "free"
  OBVIOUS

\* The value outside of the melts.
LEMMA NoMeltOutside == NoMelt \notin Melts
  BY EnvelopeAssumption

\* Step, status and melt of an operation, and of the idle one.
LEMMA EndedClear ==
    ASSUME NEW quoted, NEW melted
    PROVE  ClearAt(Ended, quoted, melted) /\ Ended.melt = NoMelt
<1>1. Ended.pc = "end" /\ Ended.next = "end" /\ Ended.melt = NoMelt
  BY SMT DEF Ended
<1>2. Clear("end", "end", NoMelt, quoted, melted)
  BY NoMeltOutside, Zenon DEF Clear, GiveBackSteps
<1>3. QED
  BY <1>1, <1>2 DEF ClearAt

\* One operation takes a step; the melts, the quotes and the wire stay.
LEMMA QuietMove ==
    ASSUME IInv, MeltInv, NEW d \in Devices, NEW s \in Slots, NEW o, Continue(d, s, o),
           UNCHANGED <<quote, melt, wire>>, proc[d][s].pc \notin WaitSteps,
           s = "free" => o.melt = NoMelt,
           s = "leased" => ClearAt(o, quote, melt) /\ o.melt \in {NoMelt, proc[d][s].melt}
    PROVE  MeltInv'
<1>1. \A e \in Devices, t \in Slots : proc'[e][t] = IF e = d /\ t = s THEN o ELSE proc[e][t]
  BY SMT DEF IInv, TypeOK, Continue
<1>2. "leased" \in Slots /\ "free" \in Slots /\ NoMelt \notin Melts /\ s \in {"leased", "free"}
  BY LeasedIsSlot, NoMeltOutside DEF Slots
<1>3. Cleared'
  BY <1>1, <1>2 DEF MeltInv, Cleared
<1>4. FreeIsState'
  BY <1>1, <1>2 DEF MeltInv, FreeIsState
<1>5. OneAtATime'
  BY <1>1, <1>2 DEF MeltInv, OneAtATime
<1>6. FreshUnused' /\ UnpaidIsUnpaid'
  BY DEF MeltInv, FreshUnused, UnpaidIsUnpaid
<1>7. WireAwaited'
  <2>1. ASSUME NEW r \in wire PROVE Waited(r, proc'[r.from]["leased"], quote')
    <3>1. r.from \in Devices /\ Waited(r, proc[r.from]["leased"], quote)
      BY IInvParts, RequestTyped DEF MeltInv, WireAwaited
    <3>2. ~(r.from = d /\ s = "leased")
      BY <3>1 DEF Waited, WaitStep, WaitSteps
    <3>3. QED
      BY <1>1, <1>2, <3>1, <3>2
  <2>2. QED
    BY <2>1 DEF WireAwaited
<1>8. QED
  BY <1>3, <1>4, <1>5, <1>6, <1>7 DEF MeltInv

\* The same when the operation only moves on.
LEMMA QuietGoto ==
    ASSUME IInv, MeltInv, NEW d \in Devices, NEW s \in Slots, NEW x \in Steps, Goto(d, s, x),
           UNCHANGED <<quote, melt, wire>>, proc[d][s].pc \notin WaitSteps,
           x # "end" /\ s = "leased" => Clear(x, proc[d][s].next, proc[d][s].melt, quote, melt)
    PROVE  MeltInv'
<1>1. CASE x = "end"
  BY <1>1, EndedClear, QuietMove DEF Goto
<1>2. CASE x # "end"
  <2> DEFINE o == [proc[d][s] EXCEPT !.pc = x]
  <2>1. o.pc = x /\ o.next = proc[d][s].next /\ o.melt = proc[d][s].melt
    BY IInvParts, ProcTyped, SetPc
  <2>2. Continue(d, s, o)
    BY <1>2 DEF Goto
  <2>3. s = "free" => o.melt = NoMelt
    BY <2>1 DEF MeltInv, FreeIsState
  <2>4. s = "leased" => ClearAt(o, quote, melt)
    BY <1>2, <2>1 DEF ClearAt
  <2> HIDE DEF o
  <2>5. QED
    BY <2>1, <2>2, <2>3, <2>4, QuietMove
<1>3. QED
  BY <1>1, <1>2

\* What is clear to a leased operation now, field by field.
LEMMA ClearNow ==
    ASSUME IInv, MeltInv, NEW d \in Devices, NEW s \in Slots
    PROVE  /\ s = "leased" => Clear(proc[d][s].pc, proc[d][s].next, proc[d][s].melt, quote, melt)
           /\ s = "free" => proc[d][s].melt = NoMelt
           /\ FitsAt(proc[d][s], mint, quote)
  BY StillTrueFits, IInvParts DEF MeltInv, Cleared, ClearAt, FreeIsState, Learned

\* Only meltEnvelope works on a melt.
LEMMA FreeHasNone ==
    ASSUME IInv, MeltInv, NEW d \in Devices, NEW s \in Slots, proc[d][s].pc \in MeltSteps
    PROVE  s = "leased"
  BY MeltKnown, NoMeltOutside DEF IInv, MeltInv, FreeIsState, Slots

\* Steps of a loading operation leave melts, quotes and the wire alone.
LEMMA MeltLoad ==
    ASSUME IInv, MeltInv, NEW d \in Devices, NEW s \in Slots, Load(d, s)
    PROVE  MeltInv'
<1> DEFINE q == proc[d][s]
           o == [q EXCEPT !.pc = q.next, !.status = op[d]]
<1>1. q \in Operations /\ q.next \in Steps /\ op[d] \in OpStatus \cup MeltStatus
  BY ProcTyped, IInvParts DEF TypeOK
<1>2. o.pc = q.next /\ o.next = q.next /\ o.melt = q.melt
  BY <1>1, SMT DEF Operations
<1>3. UNCHANGED <<quote, melt, wire>> /\ q.pc = "load"
  BY DEF Load, ReconcileRows, PutRowsUnder, mintVars, At
<1>4. q.melt = NoMelt /\ (s = "leased" => Clear(q.next, q.next, q.melt, quote, melt))
  BY <1>3, ClearNow, NoMeltOutside, SMT DEF Clear, FitsAt, Fits, MeltSteps, PaidSteps, GiveBackSteps, Slots
<1>5. s = "leased" => ClearAt(o, quote, melt)
  BY <1>2, <1>4 DEF ClearAt
<1>6. Continue(d, s, Ended) \/ Continue(d, s, o)
  BY DEF Load
<1> HIDE DEF o
<1>7. QED
  BY <1>2, <1>3, <1>4, <1>5, <1>6, EndedClear, QuietMove DEF WaitSteps

\* StoreRows goes on to settle the melt, or to what the key was loaded for.
LEMMA MeltStoreRows ==
    ASSUME IInv, MeltInv, NEW d \in Devices, NEW s \in Slots, StoreRows(d, s)
    PROVE  MeltInv'
<1> DEFINE q == proc[d][s]
           y == IF q.next \in {"paidOp", "giveBack"} THEN q.status ELSE "pending"
           o == [q EXCEPT !.pc = q.next, !.status = y]
<1>1. q \in Operations /\ q.next \in Steps /\ y \in OpStatus \cup MeltStatus
  BY ProcTyped, IInvParts DEF OpStatus
<1>2. o.pc = q.next /\ o.next = q.next /\ o.melt = q.melt
  BY <1>1, SMT DEF Operations
<1>3. UNCHANGED <<quote, melt, wire>> /\ q.pc = "rows"
  BY DEF StoreRows, ReconcileRows, PutRowsUnder, mintVars, At
<1>4. s = "leased" => Clear(q.next, q.next, q.melt, quote, melt)
  BY <1>3, ClearNow, NoMeltOutside, SMT DEF Clear, FitsAt, Fits, MeltSteps, PaidSteps, GiveBackSteps, Slots
<1>5. s = "leased" => ClearAt(o, quote, melt)
  BY <1>2, <1>4 DEF ClearAt
<1>6. Continue(d, s, Ended) \/ Continue(d, s, o)
  <2>1. o = [q EXCEPT !.pc = q.next, !.status = IF q.next \in {"paidOp", "giveBack"} THEN @ ELSE "pending"]
    OBVIOUS
  <2>2. QED
    BY <2>1 DEF StoreRows
<1>7. s = "free" => o.melt = NoMelt
  BY <1>2, ClearNow
<1> HIDE DEF o
<1>8. QED
  BY <1>2, <1>3, <1>5, <1>6, <1>7, EndedClear, QuietMove DEF WaitSteps

\* Asking the mint about the proofs.
LEMMA MeltAsk ==
    ASSUME IInv, MeltInv, NEW d \in Devices, NEW s \in Slots, Ask(d, s)
    PROVE  MeltInv'
<1> DEFINE q == proc[d][s]
           o == [q EXCEPT !.pc = "spentRows", !.answers = mint]
<1>1. q \in Operations /\ "spentRows" \in Steps /\ mint \in [Proofs -> ProofStates]
  BY ProcTyped, IInvParts DEF TypeOK, Steps
<1>2. o.pc = "spentRows" /\ o.next = q.next /\ o.melt = q.melt
  BY <1>1, SMT DEF Operations
<1>3. UNCHANGED <<quote, melt, wire>> /\ q.pc = "ask"
  BY DEF Ask, storeVars, mintVars, At
<1>4. s = "leased" => Clear("spentRows", q.next, q.melt, quote, melt)
  BY <1>3, ClearNow, NoMeltOutside, SMT DEF Clear, FitsAt, Fits, MeltSteps, PaidSteps, GiveBackSteps, Slots
<1>5. s = "leased" => ClearAt(o, quote, melt)
  BY <1>2, <1>4 DEF ClearAt
<1>6. Continue(d, s, Ended) \/ Continue(d, s, o)
  BY DEF Ask
<1>7. s = "free" => o.melt = NoMelt
  BY <1>2, ClearNow
<1> HIDE DEF o
<1>8. QED
  BY <1>2, <1>3, <1>5, <1>6, <1>7, EndedClear, QuietMove DEF WaitSteps

\* AskQuote: what is given back was not paid.
LEMMA MeltAskQuote ==
    ASSUME IInv, MeltInv, NEW d \in Devices, NEW s \in Slots, AskQuote(d, s)
    PROVE  MeltInv'
<1> DEFINE q == proc[d][s]
           o == [q EXCEPT !.pc = "giveBack", !.status = "unpaid"]
<1>1. q \in Operations /\ "giveBack" \in Steps /\ "unpaid" \in OpStatus \cup MeltStatus
  BY ProcTyped, IInvParts DEF Steps, MeltStatus
<1>2. o.pc = "giveBack" /\ o.next = q.next /\ o.melt = q.melt
  BY <1>1, SMT DEF Operations
<1>3. UNCHANGED <<quote, melt, wire>> /\ q.pc = "askQuote"
  BY DEF AskQuote, storeVars, mintVars, At
<1>4. s = "leased"
  BY <1>3, FreeHasNone DEF MeltSteps
<1>5. CASE Continue(d, s, o) /\ quote[q.melt] = "UNPAID"
  <2>1. Clear("giveBack", q.next, q.melt, quote, melt)
    BY <1>3, <1>4, <1>5, ClearNow, SMT DEF Clear, MeltSteps, GiveBackSteps
  <2>2. ClearAt(o, quote, melt)
    BY <1>2, <2>1 DEF ClearAt
  <2> HIDE DEF o
  <2>3. QED
    BY <1>2, <1>3, <1>4, <1>5, <2>2, QuietMove, SlotNames DEF WaitSteps
<1>6. CASE Goto(d, s, "paidRows") \/ Goto(d, s, "end")
  <2>1. Clear("paidRows", q.next, q.melt, quote, melt) /\ "paidRows" \in Steps /\ "end" \in Steps
    BY <1>3, <1>4, ClearNow, SMT DEF Clear, MeltSteps, GiveBackSteps, PaidSteps, Steps
  <2>2. QED
    BY <1>3, <1>6, <2>1, QuietGoto DEF WaitSteps
<1>7. QED
  BY <1>5, <1>6 DEF AskQuote, IsPaid, IsUnpaid, MeltOf

\* PaidOp and GiveBack may have to store the envelope first.
LEMMA MeltStoreFirst ==
    ASSUME IInv, MeltInv, NEW d \in Devices, NEW s \in Slots, NEW x \in {"paidOp", "giveBack"},
           At(d, s, x), StoreFirst(d, s, x), UNCHANGED <<quote, melt, wire>>
    PROVE  MeltInv'
<1> DEFINE q == proc[d][s]
           o == [q EXCEPT !.pc = "store", !.next = x]
<1>1. q \in Operations /\ "store" \in Steps /\ x \in Steps
  BY ProcTyped, IInvParts DEF Steps
<1>2. o.pc = "store" /\ o.next = x /\ o.melt = q.melt
  BY <1>1, SMT DEF Operations
<1>3. q.pc = x
  BY DEF At
<1>4. s = "leased"
  BY <1>3, FreeHasNone DEF MeltSteps, PaidSteps, GiveBackSteps
<1>5. Clear("store", x, q.melt, quote, melt)
  BY <1>3, <1>4, ClearNow, SMT DEF Clear, MeltSteps, GiveBackSteps, PaidSteps
<1>6. ClearAt(o, quote, melt)
  BY <1>2, <1>5 DEF ClearAt
<1>7. Continue(d, s, o)
  BY DEF StoreFirst
<1> HIDE DEF o
<1>8. QED
  BY <1>2, <1>3, <1>4, <1>6, <1>7, QuietMove, SlotNames DEF WaitSteps

\* The other steps of a leased operation that write no melt.
LEMMA MeltSteadyStep ==
    ASSUME IInv, MeltInv, NEW d \in Devices, NEW s \in Slots,
           NEW x \in Steps, Goto(d, s, x), UNCHANGED <<quote, melt, wire>>,
           \/ /\ proc[d][s].pc \notin WaitSteps \cup MeltSteps \cup {"store", "rows"}
              /\ x \notin {"record", "hold", "sendMelt"} \cup GiveBackSteps
           \/ proc[d][s].pc = "store" /\ x = "rows"
           \/ proc[d][s].pc = "hold" /\ x = "sendMelt"
           \/ proc[d][s].pc \in PaidSteps /\ x \in PaidSteps
           \/ proc[d][s].pc = "giveBack" /\ x = "closeMelt"
           \/ proc[d][s].pc \notin WaitSteps /\ x = "end"
    PROVE  MeltInv'
<1>1. proc[d][s].pc \notin WaitSteps
  BY SMT DEF WaitSteps, PaidSteps
<1>2. x # "end" /\ s = "leased" => Clear(x, proc[d][s].next, proc[d][s].melt, quote, melt)
  <2>1. s = "leased" => Clear(proc[d][s].pc, proc[d][s].next, proc[d][s].melt, quote, melt)
    BY ClearNow
  <2>2. /\ proc[d][s].next = "paidOp" => proc[d][s].pc \in {"store", "rows", "paidOp", "paidMelt"}
        /\ proc[d][s].next = "giveBack" => proc[d][s].pc \in {"store", "rows", "giveBack", "closeMelt"}
    BY ClearNow DEF FitsAt, Fits
  <2>3. QED
    BY <2>1, <2>2, NoMeltOutside, SMT DEF Clear, MeltSteps, PaidSteps, GiveBackSteps
<1>3. QED
  BY <1>1, <1>2, QuietGoto

\* meltEnvelope's record is pending before anything is held or asked for.
LEMMA MeltRecord ==
    ASSUME IInv, MeltInv, NEW d \in Devices, Record(d)
    PROVE  MeltInv'
<1> DEFINE m == proc[d]["leased"].melt
           o == [proc[d]["leased"] EXCEPT !.pc = "hold"]
<1>1. proc[d]["leased"].pc = "record" /\ m \in Melts
  BY IInvParts, LeasedMelt DEF IInv, Record, At, MeltSteps
<1>2. o.pc = "hold" /\ o.next = proc[d]["leased"].next /\ o.melt = m /\ o.answers = proc[d]["leased"].answers
  BY IInvParts, ProcTyped, LeasedIsSlot, SetPc DEF Steps
<1>3. Continue(d, "leased", o)
  BY DEF Record, Goto
<1>4. \A e \in Devices, t \in Slots : proc'[e][t] = IF e = d /\ t = "leased" THEN o ELSE proc[e][t]
  BY <1>3, SMT DEF IInv, TypeOK, Continue
<1>5. \A e \in Devices, n \in Melts : melt'[e][n] = IF e = d /\ n = m THEN "pending" ELSE melt[e][n]
  BY <1>1, SMT DEF Record, PutMelt, MeltOf, IInv, TypeOK
<1>6. UNCHANGED <<quote, wire>>
  BY DEF Record, mintVars
<1>7. Clear("record", o.next, m, quote, melt)
  BY <1>1, <1>2, ClearNow, LeasedIsSlot
<1>8. "leased" \in Slots /\ "free" \in Slots /\ "leased" # "free"
  BY LeasedIsSlot
<1> HIDE DEF o
<1>9. Cleared'
  <2>1. Clear("hold", o.next, m, quote, melt')
    BY <1>5, <1>7, SMT DEF Clear, MeltSteps, GiveBackSteps
  <2>2. ASSUME NEW e \in Devices, e # d PROVE ClearAt(proc[e]["leased"], quote, melt')
    BY <1>5, SMT DEF MeltInv, Cleared, ClearAt, Clear
  <2>3. QED
    BY <1>2, <1>4, <1>6, <1>8, <2>1, <2>2 DEF Cleared, ClearAt
<1>10. FreeIsState' /\ OneAtATime'
  BY <1>2, <1>4, <1>8 DEF MeltInv, FreeIsState, OneAtATime
<1>11. FreshUnused' /\ UnpaidIsUnpaid'
  BY <1>1, <1>5, <1>6, <1>7 DEF MeltInv, FreshUnused, UnpaidIsUnpaid, Clear
<1>12. WireAwaited'
  <2>1. ASSUME NEW r \in wire PROVE Waited(r, proc'[r.from]["leased"], quote')
    <3>1. r.from \in Devices /\ Waited(r, proc[r.from]["leased"], quote)
      BY IInvParts, RequestTyped DEF MeltInv, WireAwaited
    <3>2. r.from # d
      BY <1>1, <3>1 DEF Waited, WaitStep
    <3>3. QED
      BY <1>4, <1>6, <1>8, <3>1, <3>2
  <2>2. QED
    BY <1>6, <2>1 DEF WireAwaited
<1>13. QED
  BY <1>9, <1>10, <1>11, <1>12 DEF MeltInv

\* A leased operation ends on closing its record: no other one works on that melt.
LEMMA MeltClosed ==
    ASSUME IInv, MeltInv, NEW d \in Devices, NEW m \in Melts, NEW st,
           m = proc[d]["leased"].melt, proc[d]["leased"].pc \notin WaitSteps,
           PutMelt(d, m, st), Goto(d, "leased", "end"), UNCHANGED <<quote, wire>>,
           st \in {"unpaid", "failed"} => quote[m] \notin {"PENDING", "PAID"}
    PROVE  MeltInv'
<1>1. \A e \in Devices, t \in Slots : proc'[e][t] = IF e = d /\ t = "leased" THEN Ended ELSE proc[e][t]
  BY SMT DEF IInv, TypeOK, Continue, Goto
<1>2. \A e \in Devices, n \in Melts : melt'[e][n] = IF e = d /\ n = m THEN st ELSE melt[e][n]
  BY SMT DEF PutMelt, IInv, TypeOK
<1>3. "leased" \in Slots /\ "free" \in Slots /\ "leased" # "free"
  BY LeasedIsSlot
<1>4. Cleared'
  <2>1. ASSUME NEW e \in Devices, e # d PROVE ClearAt(proc[e]["leased"], quote, melt')
    <3>1. proc[e]["leased"].melt # m
      BY <2>1 DEF MeltInv, OneAtATime
    <3>2. QED
      BY <1>2, <2>1, <3>1, SMT DEF MeltInv, Cleared, ClearAt, Clear
  <2>2. QED
    BY <1>1, <1>3, <2>1, EndedClear DEF Cleared
<1>5. FreeIsState' /\ OneAtATime'
  BY <1>1, <1>3, EndedClear, NoMeltOutside DEF MeltInv, FreeIsState, OneAtATime
<1>6. FreshUnused' /\ UnpaidIsUnpaid'
  <2>1. quote[m] # "none"
    BY <1>3, ClearNow DEF Clear
  <2>2. QED
    BY <1>2, <2>1 DEF MeltInv, FreshUnused, UnpaidIsUnpaid
<1>7. WireAwaited'
  <2>1. ASSUME NEW r \in wire PROVE Waited(r, proc'[r.from]["leased"], quote')
    <3>1. r.from \in Devices /\ Waited(r, proc[r.from]["leased"], quote)
      BY IInvParts, RequestTyped DEF MeltInv, WireAwaited
    <3>2. r.from # d
      BY <3>1 DEF Waited, WaitStep, WaitSteps
    <3>3. QED
      BY <1>1, <1>3, <3>1, <3>2
  <2>2. QED
    BY <2>1 DEF WireAwaited
<1>8. QED
  BY <1>4, <1>5, <1>6, <1>7 DEF MeltInv

\* finishPaid closes its record paid.
LEMMA MeltPaidMelt ==
    ASSUME IInv, MeltInv, NEW d \in Devices, NEW s \in Slots, PaidMelt(d, s)
    PROVE  MeltInv'
<1>1. proc[d][s].pc = "paidMelt"
  BY DEF PaidMelt, At
<1>2. s = "leased" /\ MeltOf(d, s) \in Melts /\ "paidMelt" \notin WaitSteps
  BY <1>1, FreeHasNone, MeltKnown DEF IInv, MeltSteps, PaidSteps, MeltOf, WaitSteps
<1>3. QED
  BY <1>1, <1>2, MeltClosed DEF PaidMelt, MeltOf, mintVars

\* releaseInputs closes its record as what the mint said, and it said UNPAID.
LEMMA MeltCloseMelt ==
    ASSUME IInv, MeltInv, NEW d \in Devices, NEW s \in Slots, CloseMelt(d, s)
    PROVE  MeltInv'
<1>1. proc[d][s].pc = "closeMelt"
  BY DEF CloseMelt, At
<1>2. s = "leased" /\ MeltOf(d, s) \in Melts /\ "closeMelt" \notin WaitSteps
  BY <1>1, FreeHasNone, MeltKnown DEF IInv, MeltSteps, GiveBackSteps, MeltOf, WaitSteps
<1>3. quote[MeltOf(d, s)] = "UNPAID"
  BY <1>1, <1>2, ClearNow DEF Clear, GiveBackSteps, MeltOf
<1>4. QED
  BY <1>1, <1>2, <1>3, MeltClosed DEF CloseMelt, MeltOf, mintVars

\* Every shared step.
LEMMA MeltShared ==
    ASSUME IInv, MeltInv, NEW d \in Devices, NEW s \in Slots, Shared(d, s)
    PROVE  MeltInv'
<1>1. CASE Load(d, s)
  BY <1>1, MeltLoad
<1>2. CASE LoadNothing(d, s)
  <2>1. "end" \in Steps /\ "probe" \in Steps
    BY DEF Steps
  <2>2. QED
    BY <1>2, <2>1, MeltSteadyStep
       DEF LoadNothing, At, storeVars, mintVars, WaitSteps, MeltSteps, PaidSteps, GiveBackSteps
<1>3. CASE Probe(d, s)
  <2>1. "end" \in Steps /\ "store" \in Steps /\ "fund" \in Steps
    BY DEF Steps
  <2>2. QED
    BY <1>3, <2>1, MeltSteadyStep
       DEF Probe, At, storeVars, mintVars, WaitSteps, MeltSteps, PaidSteps, GiveBackSteps
<1>4. CASE StoreOperation(d, s)
  <2>1. "rows" \in Steps
    BY DEF Steps
  <2>2. QED
    BY <1>4, <2>1, MeltSteadyStep DEF StoreOperation, At, PutOp, mintVars
<1>5. CASE StoreRows(d, s)
  BY <1>5, MeltStoreRows
<1>6. CASE Ask(d, s)
  BY <1>6, MeltAsk
<1>7. CASE MarkSpent(d, s)
  <2>1. "close" \in Steps
    BY DEF Steps
  <2>2. QED
    BY <1>7, <2>1, MeltSteadyStep
       DEF MarkSpent, PutRows, At, mintVars, WaitSteps, MeltSteps, PaidSteps, GiveBackSteps
<1>8. CASE Close(d, s)
  <2>1. "end" \in Steps /\ "swap" \in Steps
    BY DEF Steps
  <2>2. QED
    BY <1>8, <2>1, MeltSteadyStep
       DEF Close, CloseIfSpent, PutOp, storeVars, At, mintVars, WaitSteps, MeltSteps, PaidSteps, GiveBackSteps
<1>9. CASE AskQuote(d, s)
  BY <1>9, MeltAskQuote
<1>10. CASE PaidRows(d, s)
  <2>1. "paidOp" \in Steps
    BY DEF Steps
  <2>2. QED
    BY <1>10, <2>1, MeltSteadyStep DEF PaidRows, PutRows, At, mintVars, PaidSteps
<1>11. CASE PaidOp(d, s)
  <2>1. "paidMelt" \in Steps
    BY DEF Steps
  <2>2. CASE op[d] = "absent"
    BY <1>11, <2>2, MeltStoreFirst DEF PaidOp, storeVars, mintVars
  <2>3. CASE op[d] # "absent"
    BY <1>11, <2>1, <2>3, MeltSteadyStep DEF PaidOp, CloseIfSpent, PutOp, storeVars, At, mintVars, PaidSteps
  <2>4. QED
    BY <2>2, <2>3
<1>12. CASE PaidMelt(d, s)
  BY <1>12, MeltPaidMelt
<1>13. CASE GiveBack(d, s)
  <2>1. "closeMelt" \in Steps /\ "end" \in Steps /\ "giveBack" \notin WaitSteps
    BY DEF Steps, WaitSteps
  <2>2. CASE op[d] = "absent"
    BY <1>13, <2>2, MeltStoreFirst DEF GiveBack, storeVars, mintVars
  <2>3. CASE op[d] # "absent"
    BY <1>13, <2>1, <2>3, MeltSteadyStep DEF GiveBack, PutRowsUnder, At, mintVars
  <2>4. QED
    BY <2>2, <2>3
<1>14. CASE CloseMelt(d, s)
  BY <1>14, MeltCloseMelt
<1>15. QED
  BY <1>1, <1>2, <1>3, <1>4, <1>5, <1>6, <1>7, <1>8, <1>9, <1>10, <1>11, <1>12, <1>13, <1>14 DEF Shared

\* A request leaves; its sender waits for no other.
LEMMA MeltRequest ==
    ASSUME IInv, MeltInv, NEW d \in Devices, NEW kind \in {"fund", "swap", "melt"}, NEW m, NEW S,
           Request(d, kind, m, S), Goto(d, "leased", WaitStep(kind)), UNCHANGED <<quote, melt>>,
           m = proc[d]["leased"].melt, proc[d]["leased"].pc \notin WaitSteps,
           S = IF kind = "swap" THEN ReportedUnspent(d, "leased") ELSE Proofs,
           IF kind = "melt" THEN proc[d]["leased"].pc = "sendMelt" ELSE m = NoMelt,
           proc[d]["leased"].next # "giveBack"
    PROVE  MeltInv'
<1> DEFINE q == proc[d]["leased"]
           x == WaitStep(kind)
           o == [q EXCEPT !.pc = x]
           new == [kind |-> kind, from |-> d, melt |-> m, proofs |-> S]
<1>1. x \in {"fundWait", "swapWait", "meltWait"}
  BY SMT DEF WaitStep
<1>2. o.pc = x /\ o.next = q.next /\ o.melt = m /\ o.answers = q.answers
  BY <1>1, IInvParts, ProcTyped, LeasedIsSlot, SetPc DEF Steps
<1>3. Continue(d, "leased", o)
  BY <1>1 DEF Goto
<1>4. \A e \in Devices, t \in Slots : proc'[e][t] = IF e = d /\ t = "leased" THEN o ELSE proc[e][t]
  BY <1>3, SMT DEF IInv, TypeOK, Continue
<1>5. "leased" \in Slots /\ "free" \in Slots /\ "leased" # "free" /\ NoMelt \notin Melts
  BY LeasedIsSlot, NoMeltOutside
<1>6. Clear(q.pc, q.next, m, quote, melt) /\ (q.pc \in MeltSteps => m \in Melts)
  BY <1>5, ClearNow, LeasedMelt DEF IInv
<1>7. wire' = wire \cup {new}
  BY DEF Request
<1> HIDE DEF o
<1>8. Cleared'
  <2>1. Clear(x, q.next, m, quote, melt)
    <3>1. CASE kind = "melt"
      BY <1>6, <3>1, SMT DEF Clear, MeltSteps, GiveBackSteps, WaitStep
    <3>2. CASE kind # "melt"
      BY <1>1, <1>5, <1>6, <3>2, SMT DEF Clear, MeltSteps, GiveBackSteps
    <3>3. QED
      BY <3>1, <3>2
  <2>2. QED
    BY <1>2, <1>4, <1>5, <2>1 DEF Cleared, ClearAt, MeltInv
<1>9. FreeIsState' /\ OneAtATime'
  BY <1>2, <1>4, <1>5 DEF MeltInv, FreeIsState, OneAtATime
<1>10. FreshUnused' /\ UnpaidIsUnpaid'
  BY DEF MeltInv, FreshUnused, UnpaidIsUnpaid
<1>11. WireAwaited'
  <2>1. ASSUME NEW r \in wire PROVE Waited(r, proc'[r.from]["leased"], quote')
    <3>1. r.from \in Devices /\ Waited(r, proc[r.from]["leased"], quote)
      BY IInvParts, RequestTyped DEF MeltInv, WireAwaited
    <3>2. r.from # d
      BY <3>1 DEF Waited, WaitStep, WaitSteps
    <3>3. QED
      BY <1>4, <1>5, <3>1, <3>2
  <2>2. Waited(new, o, quote)
    <3>1. new.kind = kind /\ new.melt = m /\ new.proofs = S
      OBVIOUS
    <3>2. kind = "melt" => quote[m] = "UNPAID"
      BY <1>6 DEF Clear
    <3>3. S = IF kind = "swap" THEN {p \in Proofs : o.answers[p] = "unspent"} ELSE Proofs
      BY <1>2 DEF ReportedUnspent, Answers
    <3> HIDE DEF new, x
    <3>4. QED
      BY <1>2, <3>1, <3>2, <3>3 DEF Waited, x
  <2>3. new.from = d /\ proc'[d]["leased"] = o
    BY <1>4, <1>5
  <2> HIDE DEF new
  <2>4. QED
    BY <1>7, <2>1, <2>2, <2>3 DEF WireAwaited
<1>12. QED
  BY <1>8, <1>9, <1>10, <1>11 DEF MeltInv

\* open and release ask without a melt.
LEMMA MeltSendFund ==
    ASSUME IInv, MeltInv, NEW d \in Devices, SendFund(d) \/ SendSwap(d)
    PROVE  MeltInv'
<1> DEFINE q == proc[d]["leased"]
<1>1. q.pc \in {"fund", "swap"} /\ UNCHANGED <<quote, melt>>
  BY DEF SendFund, SendSwap, At, storeVars
<1>2. q.melt = NoMelt /\ q.pc \notin WaitSteps /\ q.next # "giveBack"
  BY <1>1, LeasedIsSlot, ClearNow, SMT DEF Clear, FitsAt, Fits, MeltSteps, PaidSteps, GiveBackSteps, WaitSteps
<1>3. CASE SendFund(d)
  <2>1. Request(d, "fund", NoMelt, Proofs) /\ Goto(d, "leased", WaitStep("fund"))
    BY <1>3 DEF SendFund, WaitStep
  <2>2. QED
    BY <1>1, <1>2, <2>1, MeltRequest
<1>4. CASE SendSwap(d)
  <2>1. Request(d, "swap", NoMelt, ReportedUnspent(d, "leased")) /\ Goto(d, "leased", WaitStep("swap"))
    BY <1>4 DEF SendSwap, WaitStep
  <2>2. QED
    BY <1>1, <1>2, <2>1, MeltRequest
<1>5. QED
  BY <1>3, <1>4

\* meltEnvelope asks for a quote that is not paid.
LEMMA MeltSendMelt ==
    ASSUME IInv, MeltInv, NEW d \in Devices, SendMelt(d)
    PROVE  MeltInv'
<1> DEFINE q == proc[d]["leased"]
<1>1. q.pc = "sendMelt" /\ UNCHANGED <<quote, melt>>
  BY DEF SendMelt, At, storeVars
<1>2. q.pc \notin WaitSteps /\ q.next # "giveBack"
  BY <1>1, LeasedIsSlot, ClearNow, SMT DEF FitsAt, Fits, WaitSteps
<1>3. Request(d, "melt", q.melt, Proofs) /\ Goto(d, "leased", WaitStep("melt"))
  BY DEF SendMelt, WaitStep, MeltOf
<1>4. QED
  BY <1>1, <1>2, <1>3, MeltRequest

\* The quote of a melt is fresh: nobody has a record of it or works on it.
LEMMA MeltCheck ==
    ASSUME IInv, MeltInv, NEW d \in Devices, Check(d)
    PROVE  MeltInv'
<1> DEFINE q == proc[d]["leased"]
<1>0. UNCHANGED <<melt, wire>> /\ q.pc = "check" /\ "end" \in Steps
  BY DEF Check, storeVars, At, Steps
<1>1. CASE Goto(d, "leased", "end") /\ UNCHANGED quote
  BY <1>0, <1>1, LeasedIsSlot, MeltSteadyStep, Zenon DEF WaitSteps
<1>2. ASSUME NEW m \in Melts, quote[m] = "none", quote' = [quote EXCEPT ![m] = "UNPAID"],
             Continue(d, "leased", [q EXCEPT !.pc = "record", !.melt = m])
      PROVE  MeltInv'
  <2> DEFINE o == [q EXCEPT !.pc = "record", !.melt = m]
  <2>1. o.pc = "record" /\ o.next = q.next /\ o.melt = m
    <3>1. q \in Operations
      BY IInvParts, ProcTyped, LeasedIsSlot
    <3>2. QED
      BY <3>1, SMT DEF Operations
  <2>2. \A e \in Devices, t \in Slots : proc'[e][t] = IF e = d /\ t = "leased" THEN o ELSE proc[e][t]
    BY <1>2, SMT DEF IInv, TypeOK, Continue
  <2>3. \A n \in Melts : quote'[n] = IF n = m THEN "UNPAID" ELSE quote[n]
    BY <1>2, SMT DEF IInv, TypeOK
  <2>4. "leased" \in Slots /\ "free" \in Slots /\ "leased" # "free" /\ NoMelt \notin Melts
    BY LeasedIsSlot, NoMeltOutside
  <2>5. \A e \in Devices : proc[e]["leased"].melt # m /\ melt[e][m] = "absent"
    BY <1>2 DEF MeltInv, Cleared, ClearAt, Clear, FreshUnused
  <2>6. ASSUME NEW e \in Devices PROVE proc[e]["leased"].melt \in Melts \cup {NoMelt}
    BY IInvParts, ProcTyped, LeasedIsSlot
  <2>7. Clear("record", q.next, m, quote', melt')
    <3>1. Clear("check", q.next, q.melt, quote, melt) /\ q.next # "giveBack"
      BY <1>0, LeasedIsSlot, ClearNow, SMT DEF FitsAt, Fits
    <3>2. QED
      BY <1>0, <2>3, <2>5, <3>1, SMT DEF Clear, MeltSteps, GiveBackSteps
  <2> HIDE DEF o
  <2>8. Cleared'
    <3>1. ASSUME NEW e \in Devices, e # d PROVE ClearAt(proc[e]["leased"], quote', melt')
      <4>1. Clear(proc[e]["leased"].pc, proc[e]["leased"].next, proc[e]["leased"].melt, quote, melt)
        BY LeasedIsSlot, ClearNow
      <4>2. FitsAt(proc[e]["leased"], mint, quote)
        BY LeasedIsSlot, ClearNow
      <4>3. proc[e]["leased"].melt \in Melts => quote'[proc[e]["leased"].melt] = quote[proc[e]["leased"].melt]
        BY <2>3, <2>5
      <4>4. QED
        BY <1>0, <4>1, <4>2, <4>3, SMT DEF Clear, ClearAt, FitsAt, Fits, MeltSteps, GiveBackSteps, PaidSteps
    <3>2. QED
      BY <2>1, <2>2, <2>4, <2>7, <3>1 DEF Cleared, ClearAt
  <2>9. FreeIsState' /\ OneAtATime'
    BY <2>1, <2>2, <2>4, <2>5 DEF MeltInv, FreeIsState, OneAtATime
  <2>10. FreshUnused' /\ UnpaidIsUnpaid'
    BY <1>0, <2>3, <2>5 DEF MeltInv, FreshUnused, UnpaidIsUnpaid
  <2>11. WireAwaited'
    <3>1. ASSUME NEW r \in wire PROVE Waited(r, proc'[r.from]["leased"], quote')
      <4>1. r.from \in Devices /\ Waited(r, proc[r.from]["leased"], quote)
        BY IInvParts, RequestTyped DEF MeltInv, WireAwaited
      <4>2. r.from # d
        BY <1>0, <4>1 DEF Waited, WaitStep
      <4>3. r.kind = "melt" => r.melt \in Melts
        BY <4>1, LeasedMelt DEF Waited, WaitStep, MeltSteps, IInv
      <4>4. proc'[r.from]["leased"] = proc[r.from]["leased"]
        BY <2>2, <2>4, <4>1, <4>2
      <4>5. QED
        BY <2>3, <4>1, <4>3, <4>4 DEF Waited
    <3>2. QED
      BY <1>0, <3>1 DEF WireAwaited
  <2>12. QED
    BY <2>8, <2>9, <2>10, <2>11 DEF MeltInv
<1>3. QED
  BY <1>1, <1>2 DEF Check, Fresh

\* The other leased steps.
LEMMA MeltLeasedOnly ==
    ASSUME IInv, MeltInv, NEW d \in Devices, LeasedOnly(d)
    PROVE  MeltInv'
<1>0. /\ {"end", "issue", "ask", "reprobe", "freeRows", "returned", "sendMelt"} \subseteq Steps
      /\ "leased" \in Slots
  BY LeasedIsSlot DEF Steps
<1>1. CASE FundFails(d)
  BY <1>0, <1>1, MeltSteadyStep
     DEF FundFails, At, storeVars, mintVars, WaitSteps, MeltSteps, PaidSteps, GiveBackSteps
<1>2. CASE SendFund(d) \/ SendSwap(d)
  BY <1>2, MeltSendFund
<1>3. CASE Hand(d)
  BY <1>0, <1>3, MeltSteadyStep
     DEF Hand, At, PutRows, storeVars, mintVars, WaitSteps, MeltSteps, PaidSteps, GiveBackSteps
<1>4. CASE Issue(d)
  BY <1>0, <1>4, MeltSteadyStep
     DEF Issue, At, PutOp, storeVars, mintVars, WaitSteps, MeltSteps, PaidSteps, GiveBackSteps
<1>5. CASE Guard(d)
  BY <1>0, <1>5, MeltSteadyStep
     DEF Guard, At, storeVars, mintVars, WaitSteps, MeltSteps, PaidSteps, GiveBackSteps
<1>6. CASE Book(d)
  BY <1>0, <1>6, MeltSteadyStep
     DEF Book, At, mintVars, WaitSteps, MeltSteps, PaidSteps, GiveBackSteps
<1>7. CASE FreeRows(d)
  BY <1>0, <1>7, MeltSteadyStep
     DEF FreeRows, PutRows, At, mintVars, WaitSteps, MeltSteps, PaidSteps, GiveBackSteps
<1>8. CASE Returned(d)
  BY <1>0, <1>8, MeltSteadyStep
     DEF Returned, PutOp, At, mintVars, WaitSteps, MeltSteps, PaidSteps, GiveBackSteps
<1>9. CASE Check(d)
  BY <1>9, MeltCheck
<1>10. CASE Record(d)
  BY <1>10, MeltRecord
<1>11. CASE Hold(d)
  BY <1>0, <1>11, MeltSteadyStep DEF Hold, PutRowsUnder, At, mintVars
<1>12. CASE SendMelt(d)
  BY <1>12, MeltSendMelt
<1>13. QED
  BY <1>1, <1>2, <1>3, <1>4, <1>5, <1>6, <1>7, <1>8, <1>9, <1>10, <1>11, <1>12 DEF LeasedOnly

\* An operation starts without a melt.
LEMMA MeltStart ==
    ASSUME IInv, MeltInv, NEW d \in Devices, NEW task \in Tasks[d], Start(d, task)
    PROVE  MeltInv'
<1> DEFINE s == SlotOf(task)
           o == [Ended EXCEPT !.task = task, !.pc = "load", !.next = LoadedStep(task)]
<1>1. s \in Slots /\ task \in Leased \cup Unleased
  BY SlotOfTyped, EnvelopeAssumption
<1>2. o.pc = "load" /\ o.next = LoadedStep(task) /\ o.melt = NoMelt
  BY SMT DEF Ended
<1>3. proc[d][s] = Ended /\ Ended.pc = "end" /\ "end" \notin WaitSteps
  BY SMT DEF Start, Ended, WaitSteps
<1>4. s = "leased" => LoadedStep(task) \in {"hand", "guard", "check", "end"}
  BY <1>1, SMT DEF SlotOf, Leased, Unleased, LoadedStep
<1>5. s = "leased" => Clear("load", LoadedStep(task), NoMelt, quote, melt)
  BY <1>4, NoMeltOutside, Zenon DEF Clear, GiveBackSteps
<1>6. s = "leased" => ClearAt(o, quote, melt)
  BY <1>2, <1>5 DEF ClearAt
<1>7. Continue(d, s, o) /\ UNCHANGED <<quote, melt, wire>>
  BY DEF Start, mintVars, storeVars
<1> HIDE DEF o, s
<1>8. QED
  BY <1>1, <1>2, <1>3, <1>6, <1>7, QuietMove

\* A question that fails ends the operation.
LEMMA MeltFail ==
    ASSUME IInv, MeltInv, NEW d \in Devices, NEW s \in Slots, Fail(d, s)
    PROVE  MeltInv'
  BY MeltSteadyStep DEF Fail, Steps, storeVars, mintVars, WaitSteps

\* Who does not hear from the mint: with its request gone, the operation goes on
\* to ask about the quote.
LEMMA MeltGiveUp ==
    ASSUME Prompt, IInv, MeltInv, NEW d \in Devices, GiveUp(d)
    PROVE  MeltInv'
<1> DEFINE q == proc[d]["leased"]
           x == LostStep(q.pc)
           o == IF x = "end" THEN Ended ELSE [q EXCEPT !.pc = x]
<1>1. q.pc \in WaitSteps /\ x \in {"reprobe", "end", "askQuote"} 
      /\ (x = "askQuote" => q.pc = "meltWait") /\ (x = "reprobe" => q.pc = "fundWait")
  BY SMT DEF GiveUp, WaitSteps, LostStep
<1>2. x # "end" => o.pc = x /\ o.next = q.next /\ o.melt = q.melt
  BY <1>1, IInvParts, ProcTyped, LeasedIsSlot, SetPc DEF Steps
<1>3. Continue(d, "leased", o) /\ UNCHANGED <<quote, melt>> /\ wire' = {r \in wire : r.from # d}
  BY DEF GiveUp, Goto, Abandon, Prompt, storeVars
<1>4. \A e \in Devices, t \in Slots : proc'[e][t] = IF e = d /\ t = "leased" THEN o ELSE proc[e][t]
  BY <1>3, SMT DEF IInv, TypeOK, Continue
<1>5. "leased" \in Slots /\ "free" \in Slots /\ "leased" # "free" /\ NoMelt \notin Melts
  BY LeasedIsSlot, NoMeltOutside
<1>6. ClearAt(o, quote, melt) /\ o.melt \in {NoMelt, q.melt}
  <2>1. CASE x = "end"
    BY <2>1, EndedClear
  <2>2. CASE x # "end"
    <3>1. Clear(q.pc, q.next, q.melt, quote, melt)
      BY ClearNow, LeasedIsSlot
    <3>2. Clear(x, q.next, q.melt, quote, melt)
      BY <1>1, <2>2, <3>1, SMT DEF Clear, MeltSteps, GiveBackSteps, PaidSteps, WaitSteps
    <3>3. QED
      BY <1>2, <2>2, <3>2 DEF ClearAt
  <2>3. QED
    BY <2>1, <2>2
<1> HIDE DEF o
<1>7. Cleared'
  BY <1>3, <1>4, <1>5, <1>6 DEF Cleared, MeltInv
<1>8. FreeIsState' /\ OneAtATime'
  BY <1>4, <1>5, <1>6 DEF MeltInv, FreeIsState, OneAtATime
<1>9. FreshUnused' /\ UnpaidIsUnpaid'
  BY <1>3 DEF MeltInv, FreshUnused, UnpaidIsUnpaid
<1>10. WireAwaited'
  <2>1. ASSUME NEW r \in wire' PROVE Waited(r, proc'[r.from]["leased"], quote')
    BY <1>3, <1>4, <1>5, IInvParts, RequestTyped DEF MeltInv, WireAwaited
  <2>2. QED
    BY <2>1 DEF WireAwaited
<1>11. QED
  BY <1>7, <1>8, <1>9, <1>10 DEF MeltInv

\* A crash ends both operations, and their requests.
LEMMA MeltCrash ==
    ASSUME Prompt, IInv, MeltInv, NEW d \in Devices, Crash(d)
    PROVE  MeltInv'
<1>1. \A e \in Devices, t \in Slots : proc'[e][t] = IF e = d THEN Ended ELSE proc[e][t]
  BY IInvParts, SMT DEF TypeOK, Crash
<1>2. UNCHANGED <<quote, melt>> /\ wire' = {r \in wire : r.from # d}
  BY DEF Crash, Abandon, Prompt, storeVars
<1>3. "leased" \in Slots /\ "free" \in Slots /\ "leased" # "free" /\ NoMelt \notin Melts
  BY LeasedIsSlot, NoMeltOutside
<1>4. Cleared'
  BY <1>1, <1>2, <1>3, EndedClear DEF Cleared, MeltInv
<1>5. FreeIsState' /\ OneAtATime'
  BY <1>1, <1>3, EndedClear DEF MeltInv, FreeIsState, OneAtATime
<1>6. FreshUnused' /\ UnpaidIsUnpaid'
  BY <1>2 DEF MeltInv, FreshUnused, UnpaidIsUnpaid
<1>7. WireAwaited'
  <2>1. ASSUME NEW r \in wire' PROVE Waited(r, proc'[r.from]["leased"], quote')
    BY <1>1, <1>2, <1>3, IInvParts, RequestTyped DEF MeltInv, WireAwaited
  <2>2. QED
    BY <2>1 DEF WireAwaited
<1>8. QED
  BY <1>4, <1>5, <1>6, <1>7 DEF MeltInv

\* A record that syncs says what it says where it was written.
LEMMA MeltSync ==
    ASSUME IInv, MeltInv, NEW d \in Devices, Sync(d)
    PROVE  MeltInv'
<1>1. CASE UNCHANGED <<quote, wire, proc, melt>>
  BY <1>1 DEF MeltInv, WireAwaited, Cleared, FreeIsState, OneAtATime, FreshUnused, UnpaidIsUnpaid
<1>2. ASSUME NEW m \in Melts, SyncMelt(d, m)
      PROVE  MeltInv'
  <2>1. UNCHANGED <<quote, wire, proc>>
    BY <1>2 DEF SyncMelt, mintVars
  <2>2. newest.melt[m] \subseteq Devices
    BY IInvParts, SMT DEF TypeOK
  <2>3. PICK e \in Devices : melt' = [melt EXCEPT ![d][m] = melt[e][m]]
    BY <1>2, <2>2 DEF SyncMelt
  <2>4. \A f \in Devices, n \in Melts : melt'[f][n] = IF f = d /\ n = m THEN melt[e][m] ELSE melt[f][n]
    BY <2>3, IInvParts, SMT DEF TypeOK
  <2>5. Cleared'
    <3>1. ASSUME NEW f \in Devices PROVE ClearAt(proc[f]["leased"], quote, melt')
      BY <2>4, SMT DEF MeltInv, Cleared, ClearAt, Clear
    <3>2. QED
      BY <2>1, <3>1 DEF Cleared
  <2>6. QED
    BY <2>1, <2>4, <2>5 DEF MeltInv, WireAwaited, FreeIsState, OneAtATime, FreshUnused, UnpaidIsUnpaid
<1>3. QED
  BY <1>1, <1>2 DEF Sync, SyncOp, SyncRow, SyncHolder, mintVars

\* Every step of a device.
LEMMA MeltDevice ==
    ASSUME Prompt, NoResume, IInv, MeltInv, NEW d \in Devices, Device(d)
    PROVE  MeltInv'
<1>1. CASE \E task \in Tasks[d] : Start(d, task)
  BY <1>1, MeltStart
<1>2. CASE \E m \in Melts : StartResume(d, m) \/ StartLate(d, m)
  BY <1>2 DEF NoResume, StartResume, StartLate
<1>3. CASE \E s \in Slots : Shared(d, s)
  BY <1>3, MeltShared
<1>4. CASE \E s \in Slots : Fail(d, s)
  BY <1>4, MeltFail
<1>5. CASE LeasedOnly(d)
  BY <1>5, MeltLeasedOnly
<1>6. CASE GiveUp(d)
  BY <1>6, MeltGiveUp
<1>7. CASE Crash(d)
  BY <1>7, MeltCrash
<1>8. CASE Sync(d)
  BY <1>8, MeltSync
<1>9. QED
  BY <1>1, <1>2, <1>3, <1>4, <1>5, <1>6, <1>7, <1>8 DEF Device

\* A device has one request on its way: the one its operation waits for.
LEMMA OneRequest ==
    ASSUME IInv, MeltInv, NEW r \in wire
    PROVE  /\ r.from \in Devices /\ Awaited(r) /\ Waited(r, proc[r.from]["leased"], quote)
           /\ proc[r.from]["leased"].pc \in WaitSteps
           /\ r.kind \in {"fund", "swap", "melt"}
           /\ r.kind = "melt" => r.melt \in Melts
           /\ \A r2 \in wire : r2.from = r.from => r2 = r
<1>1. r.from \in Devices /\ Waited(r, proc[r.from]["leased"], quote)
  BY IInvParts, RequestTyped DEF MeltInv, WireAwaited
<1>2. Awaited(r)
  BY <1>1, SMT DEF Waited, Awaited, At, MeltOf, ReportedUnspent, Answers
<1>3. \A q \in wire : q.kind \in {"fund", "swap", "melt"}
  BY IInvParts, SMT DEF TypeOK, Requests
<1>4. proc[r.from]["leased"].pc \in WaitSteps
  BY <1>1, <1>3, SMT DEF Waited, WaitStep, WaitSteps
<1>5. r.kind = "melt" => r.melt \in Melts
  BY <1>1, LeasedMelt DEF Waited, WaitStep, MeltSteps, IInv
<1>6. ASSUME NEW r2 \in wire, r2.from = r.from
      PROVE  r2 = r
  <2>1. Waited(r2, proc[r.from]["leased"], quote)
    BY <1>6 DEF MeltInv, WireAwaited
  <2>2. r2.kind = r.kind
    BY <1>1, <1>3, <2>1, SMT DEF Waited, WaitStep
  <2>3. r2.melt = r.melt /\ r2.proofs = r.proofs
    BY <1>1, <2>1, <2>2 DEF Waited
  <2>4. r \in Requests /\ r2 \in Requests
    BY IInvParts DEF TypeOK
  <2>5. QED
    BY <1>6, <2>2, <2>3, <2>4, SMT DEF Requests
<1>7. QED
  BY <1>1, <1>2, <1>3, <1>4, <1>5, <1>6

\* The mint has seen a request, and its sender goes on.
LEMMA AnswerMove ==
    ASSUME IInv, MeltInv, NEW r \in wire, NEW o, Continue(r.from, "leased", o),
           wire' = wire \ {r}, UNCHANGED melt,
           \A m \in Melts : quote'[m] = quote[m] \/ (m = r.melt /\ r.kind = "melt" /\ quote'[m] = "PENDING"),
           ClearAt(o, quote', melt), o.melt \in {NoMelt, proc[r.from]["leased"].melt}
    PROVE  MeltInv'
<1> DEFINE d == r.from
<1>1. d \in Devices /\ Waited(r, proc[d]["leased"], quote) /\ proc[d]["leased"].pc \in WaitSteps
      /\ \A r2 \in wire : r2.from = d => r2 = r
  BY OneRequest
<1>2. \A e \in Devices, t \in Slots : proc'[e][t] = IF e = d /\ t = "leased" THEN o ELSE proc[e][t]
  BY SMT DEF IInv, TypeOK, Continue
<1>3. "leased" \in Slots /\ "free" \in Slots /\ "leased" # "free" /\ NoMelt \notin Melts
  BY LeasedIsSlot, NoMeltOutside
<1>4. ASSUME NEW e \in Devices, e # d, proc[e]["leased"].melt \in Melts
      PROVE  quote'[proc[e]["leased"].melt] = quote[proc[e]["leased"].melt]
  <2>1. proc[e]["leased"].melt # proc[d]["leased"].melt
    BY <1>1, <1>4 DEF MeltInv, OneAtATime
  <2>2. proc[e]["leased"].melt # r.melt
    BY <1>1, <2>1 DEF Waited
  <2>3. QED
    BY <1>4, <2>2
<1>5. Cleared'
  <2>1. ASSUME NEW e \in Devices, e # d PROVE ClearAt(proc[e]["leased"], quote', melt)
    <3>1. Clear(proc[e]["leased"].pc, proc[e]["leased"].next, proc[e]["leased"].melt, quote, melt)
          /\ FitsAt(proc[e]["leased"], mint, quote)
      BY ClearNow, <1>3
    <3>2. QED
      BY <1>4, <2>1, <3>1, SMT DEF Clear, ClearAt, FitsAt, Fits, MeltSteps, GiveBackSteps, PaidSteps
  <2>2. QED
    BY <1>2, <1>3, <2>1 DEF Cleared
<1>6. FreeIsState' /\ OneAtATime'
  BY <1>1, <1>2, <1>3 DEF MeltInv, FreeIsState, OneAtATime
<1>7. FreshUnused' /\ UnpaidIsUnpaid'
  <2>1. r.kind = "melt" => r.melt \in Melts /\ r.melt = proc[d]["leased"].melt
    BY OneRequest DEF Waited
  <2>2. r.kind = "melt" => quote[r.melt] # "none" /\ \A e \in Devices : melt[e][r.melt] \in {"absent", "pending"}
    BY <1>1, <1>3, <2>1, ClearNow DEF Clear
  <2>3. QED
    BY <2>1, <2>2, SMT DEF MeltInv, FreshUnused, UnpaidIsUnpaid
<1>8. WireAwaited'
  <2>1. ASSUME NEW r2 \in wire, r2 # r PROVE Waited(r2, proc'[r2.from]["leased"], quote')
    <3>1. /\ r2.from \in Devices /\ Waited(r2, proc[r2.from]["leased"], quote)
          /\ r2.kind = "melt" => r2.melt \in Melts
      BY OneRequest
    <3>2. r2.from # d
      BY <1>1, <2>1
    <3>3. r2.kind = "melt" => quote'[r2.melt] = quote[r2.melt]
      BY <1>4, <3>1, <3>2 DEF Waited
    <3>4. proc'[r2.from]["leased"] = proc[r2.from]["leased"]
      BY <1>2, <1>3, <3>1, <3>2
    <3>5. QED
      BY <3>1, <3>3, <3>4 DEF Waited
  <2>2. QED
    BY <2>1 DEF WireAwaited
<1>9. QED
  BY <1>5, <1>6, <1>7, <1>8, <1>3 DEF MeltInv, Cleared

\* The sender hears what the mint answered, or hears nothing.
LEMMA AnswerGoto ==
    ASSUME IInv, MeltInv, NEW r \in wire, NEW x \in Steps, Goto(r.from, "leased", x),
           wire' = wire \ {r}, UNCHANGED melt,
           \A m \in Melts : quote'[m] = quote[m] \/ (m = r.melt /\ r.kind = "melt" /\ quote'[m] = "PENDING"),
           \/ x = "end"
           \/ r.kind = "melt" /\ x = "askQuote"
           \/ r.kind = "fund" /\ x \in {"store", "reprobe"}
           \/ r.kind = "swap" /\ x = "book"
    PROVE  MeltInv'
<1> DEFINE q == proc[r.from]["leased"]
           o == [q EXCEPT !.pc = x]
<1>1. CASE x = "end"
  BY <1>1, EndedClear, AnswerMove DEF Goto
<1>2. CASE x # "end"
  <2>1. r.from \in Devices /\ q.pc = WaitStep(r.kind) /\ r.melt = q.melt
    BY OneRequest DEF Waited
  <2>2. o.pc = x /\ o.next = q.next /\ o.melt = q.melt
    BY <2>1, IInvParts, ProcTyped, LeasedIsSlot, SetPc
  <2>3. Clear(x, q.next, q.melt, quote', melt)
    <3>1. Clear(q.pc, q.next, q.melt, quote, melt) /\ FitsAt(q, mint, quote)
      BY <2>1, ClearNow, LeasedIsSlot
    <3>2. r.kind # "melt" => q.melt \notin Melts /\ q.melt = NoMelt
      BY <1>2, <2>1, <3>1, OneRequest, NoMeltOutside, SMT
         DEF Clear, WaitStep, MeltSteps, PaidSteps, GiveBackSteps
    <3>3. r.kind = "melt" => q.melt \in Melts /\ q.next # "giveBack"
      BY <1>2, <2>1, <3>1, SMT DEF FitsAt, Fits, WaitStep, MeltSteps
    <3>4. q.melt \in Melts => quote'[q.melt] \in {quote[q.melt], "PENDING"}
      OBVIOUS
    <3>5. CASE r.kind = "melt"
      BY <1>2, <3>1, <3>3, <3>4, <3>5, SMT DEF Clear, MeltSteps, PaidSteps, GiveBackSteps
    <3>6. CASE r.kind # "melt"
      <4>1. q.next # "giveBack"
        BY <3>1, <3>2, <3>6, SMT DEF FitsAt, Fits
      <4>2. QED
        BY <1>2, <3>1, <3>2, <3>6, <4>1, SMT DEF Clear, MeltSteps, PaidSteps, GiveBackSteps
    <3>7. QED
      BY <3>5, <3>6
  <2>4. ClearAt(o, quote', melt)
    BY <2>2, <2>3 DEF ClearAt
  <2>5. Continue(r.from, "leased", o)
    BY <1>2 DEF Goto
  <2> HIDE DEF o
  <2>6. QED
    BY <2>2, <2>4, <2>5, AnswerMove
<1>3. QED
  BY <1>1, <1>2

\* The steps of the mint and the recipient.
LEMMA MeltMint ==
    ASSUME IInv, MeltInv, Mint
    PROVE  MeltInv'
<1>0. {"store", "reprobe", "end", "book", "askQuote", "giveBack"} \subseteq Steps
  BY DEF Steps
<1>1. ASSUME NEW r \in wire, MintSign(r) \/ MintSwap(r)
      PROVE  MeltInv'
  <2>1. UNCHANGED <<quote, melt>> /\ wire' = wire \ {r} /\ Awaited(r)
    BY <1>1, OneRequest DEF MintSign, MintSwap, storeVars
  <2>2. CASE MintSign(r)
    <3>1. r.kind = "fund" /\ (Answer(r, "store") \/ Answer(r, "reprobe"))
      BY <2>2 DEF MintSign
    <3>2. Goto(r.from, "leased", "store") \/ Goto(r.from, "leased", "reprobe")
      BY <2>1, <3>1, SMT DEF Answer, LostStep, WaitStep
    <3>3. QED
      BY <1>0, <2>1, <3>1, <3>2, AnswerGoto
  <2>3. CASE MintSwap(r)
    <3>1. r.kind = "swap" /\ (Answer(r, "book") \/ Answer(r, "end"))
      BY <2>3 DEF MintSwap
    <3>2. Goto(r.from, "leased", "book") \/ Goto(r.from, "leased", "end")
      BY <2>1, <3>1, SMT DEF Answer, LostStep, WaitStep
    <3>3. QED
      BY <1>0, <2>1, <3>1, <3>2, AnswerGoto
  <2>4. QED
    BY <1>1, <2>2, <2>3
<1>2. ASSUME NEW r \in wire, MintMelt(r)
      PROVE  MeltInv'
  <2> DEFINE q == proc[r.from]["leased"]
             o == [q EXCEPT !.pc = "giveBack", !.status = "failed"]
  <2>1. UNCHANGED melt /\ wire' = wire \ {r} /\ Awaited(r) /\ r.kind = "melt"
    BY <1>2, OneRequest DEF MintMelt, storeVars
  <2>2. /\ r.from \in Devices /\ r.melt \in Melts /\ q.melt = r.melt /\ quote[r.melt] = "UNPAID"
        /\ q.pc = "meltWait"
    <3>1. Waited(r, q, quote) /\ r.from \in Devices /\ r.melt \in Melts
      BY <2>1, OneRequest
    <3>2. QED
      BY <2>1, <3>1, SMT DEF Waited, WaitStep
  <2>3. CASE quote' = [quote EXCEPT ![r.melt] = "PENDING"] /\ Answer(r, "askQuote")
    <3>1. Goto(r.from, "leased", "askQuote")
      BY <2>1, <2>3, SMT DEF Answer, LostStep, WaitStep
    <3>2. \A m \in Melts : quote'[m] = quote[m] \/ (m = r.melt /\ r.kind = "melt" /\ quote'[m] = "PENDING")
      BY <2>1, <2>3, IInvParts, SMT DEF TypeOK
    <3>3. QED
      BY <1>0, <2>1, <3>1, <3>2, AnswerGoto
  <2>4. CASE UNCHANGED quote /\ Goto(r.from, "leased", "askQuote")
    BY <1>0, <2>1, <2>4, AnswerGoto
  <2>5. CASE UNCHANGED quote /\ Continue(r.from, "leased", o)
    <3>1. q \in Operations
      BY <2>2, IInvParts, ProcTyped, LeasedIsSlot
    <3>2. o.pc = "giveBack" /\ o.next = q.next /\ o.melt = q.melt
      BY <3>1, SMT DEF Operations
    <3>3. Clear(q.pc, q.next, q.melt, quote, melt)
      BY <2>2, ClearNow, LeasedIsSlot
    <3>4. Clear("giveBack", q.next, q.melt, quote', melt)
      BY <2>2, <2>5, <3>3, SMT DEF Clear, MeltSteps, GiveBackSteps
    <3>5. ClearAt(o, quote', melt)
      BY <3>2, <3>4 DEF ClearAt
    <3> HIDE DEF o
    <3>6. QED
      BY <2>1, <2>5, <3>2, <3>5, AnswerMove
  <2>6. \/ quote' = [quote EXCEPT ![r.melt] = "PENDING"] /\ Answer(r, "askQuote")
        \/ AnswerRejected(r) /\ UNCHANGED quote
    BY <1>2, Zenon DEF MintMelt
  <2>7. AnswerRejected(r) => Continue(r.from, "leased", o) \/ Goto(r.from, "leased", "askQuote")
    BY <2>1, Zenon DEF AnswerRejected
  <2> HIDE DEF o
  <2>8. QED
    BY <2>3, <2>4, <2>5, <2>6, <2>7
<1>3. ASSUME NEW m \in Melts, MintSettles(m)
      PROVE  MeltInv'
  <2>1. UNCHANGED <<wire, proc, melt>> /\ quote[m] = "PENDING"
    BY <1>3 DEF MintSettles, storeVars
  <2>2. quote'[m] \in {"PAID", "UNPAID"} /\ \A n \in Melts : n # m => quote'[n] = quote[n]
    BY <1>3, IInvParts, SMT DEF MintSettles, TypeOK
  <2>3. Cleared'
    <3>1. ASSUME NEW e \in Devices PROVE ClearAt(proc[e]["leased"], quote', melt)
      <4>1. Clear(proc[e]["leased"].pc, proc[e]["leased"].next, proc[e]["leased"].melt, quote, melt)
            /\ FitsAt(proc[e]["leased"], mint, quote)
        BY ClearNow, LeasedIsSlot
      <4>2. QED
        BY <2>1, <2>2, <4>1, SMT DEF Clear, ClearAt, FitsAt, Fits, MeltSteps, GiveBackSteps, PaidSteps
    <3>2. QED
      BY <2>1, <3>1 DEF Cleared
  <2>4. WireAwaited'
    <3>1. ASSUME NEW r \in wire PROVE Waited(r, proc[r.from]["leased"], quote')
      BY <2>1, <2>2, OneRequest DEF Waited
    <3>2. QED
      BY <2>1, <3>1 DEF WireAwaited
  <2>5. FreshUnused' /\ UnpaidIsUnpaid'
    BY <2>1, <2>2, SMT DEF MeltInv, FreshUnused, UnpaidIsUnpaid
  <2>6. QED
    BY <2>1, <2>3, <2>4, <2>5 DEF MeltInv, FreeIsState, OneAtATime
<1>4. ASSUME NEW p \in Proofs, Redeem(p)
      PROVE  MeltInv'
  <2>1. UNCHANGED <<wire, proc, melt, quote>>
    BY <1>4 DEF Redeem, storeVars
  <2>2. QED
    BY <2>1 DEF MeltInv, WireAwaited, Cleared, FreeIsState, OneAtATime, FreshUnused, UnpaidIsUnpaid
<1>5. QED
  BY <1>1, <1>2, <1>3, <1>4 DEF Mint

\* At first nothing is asked or recorded.
LEMMA InitMelt == Init => MeltInv
<1> SUFFICES ASSUME Init PROVE MeltInv
  OBVIOUS
<1>1. \A d \in Devices, s \in Slots : proc[d][s] = Ended
  BY DEF Init
<1>2. "leased" \in Slots /\ "free" \in Slots /\ NoMelt \notin Melts
  BY LeasedIsSlot, NoMeltOutside
<1>3. Cleared /\ FreeIsState /\ OneAtATime
  BY <1>1, <1>2, EndedClear DEF Cleared, FreeIsState, OneAtATime
<1>4. WireAwaited /\ FreshUnused /\ UnpaidIsUnpaid
  BY SMT DEF Init, WireAwaited, FreshUnused, UnpaidIsUnpaid
<1>5. QED
  BY <1>3, <1>4 DEF MeltInv

\* Every step keeps both invariants.
LEMMA MeltInvStep ==
    ASSUME Prompt, NoResume, IInv, MeltInv, [Next]_vars
    PROVE  MeltInv'
<1>1. CASE UNCHANGED vars
  BY <1>1 DEF vars, mintVars, storeVars, MeltInv, WireAwaited, Cleared, FreeIsState, OneAtATime, FreshUnused, UnpaidIsUnpaid
<1>2. QED
  BY <1>1, MeltDevice, MeltMint DEF Next

\* On any number of devices: while the mint never sees a request its sender gave up
\* on, and no device runs resumePending, what meltEnvelope relies on holds always.
THEOREM MeltInvariant ==
    ASSUME Prompt, NoResume
    PROVE  Spec => []MeltInv
<1>1. IInv /\ MeltInv /\ [Next]_vars => MeltInv'
  BY MeltInvStep
<1>2. QED
  BY <1>1, EnvelopeInvariant, InitMelt, PTL DEF Spec

\* Then a record closed unpaid or failed has no payment behind it (Melt.ts, releaseInputs:
\* the mint "never executed (or reversed)" it).
THEOREM ClosedUnpaid ==
    ASSUME Prompt, NoResume
    PROVE  Spec => []UnpaidIsUnpaid
  BY MeltInvariant, PTL DEF MeltInv

-----------------------------------------------------------------------------
(* One device: what is held for a melt has a record that names it.         *)

Alone == \A d, e \in Devices : d = e

\* meltEnvelope has its record before it holds the rows.
Holding ==
    \A d \in Devices :
        proc[d]["leased"].pc = "hold" => melt[d][proc[d]["leased"].melt] # "absent"

HoldInv == Holding /\ HeldIsRecorded

\* No row becomes held under a melt.
NoneHeld ==
    \A d \in Devices, m \in Melts, p \in Proofs :
        row'[d][p] = "held" /\ holder'[d][p] = m => row[d][p] = "held" /\ holder[d][p] = m

\* No record is lost.
RecordsStay == \A d \in Devices, m \in Melts : melt[d][m] # "absent" => melt'[d][m] # "absent"

\* No operation gets to the step that holds the rows.
NoneAtHold ==
    \A d \in Devices :
        proc'[d]["leased"].pc = "hold" =>
            proc[d]["leased"].pc = "hold" /\ proc'[d]["leased"].melt = proc[d]["leased"].melt

\* Then what is held stays recorded.
LEMMA HoldKept ==
    ASSUME IInv, HoldInv, NoneHeld, RecordsStay, NoneAtHold
    PROVE  HoldInv'
<1>1. ASSUME NEW d \in Devices, proc[d]["leased"].pc = "hold"
      PROVE  proc[d]["leased"].melt \in Melts
  BY <1>1, LeasedMelt DEF IInv, MeltSteps
<1>2. Holding'
  BY <1>1 DEF HoldInv, Holding, RecordsStay, NoneAtHold
<1>3. HeldIsRecorded'
  BY DEF HoldInv, HeldIsRecorded, HeldUnder, NoneHeld, RecordsStay
<1>4. QED
  BY <1>2, <1>3 DEF HoldInv

\* The slot that takes a step does not get to hold.
LEMMA MoveNoHold ==
    ASSUME IInv, NEW d \in Devices, NEW s \in Slots, NEW o, Continue(d, s, o), o.pc # "hold"
    PROVE  NoneAtHold
<1>1. \A e \in Devices, t \in Slots : proc'[e][t] = IF e = d /\ t = s THEN o ELSE proc[e][t]
  BY SMT DEF IInv, TypeOK, Continue
<1>2. QED
  BY <1>1, LeasedIsSlot DEF NoneAtHold

\* The idle operation is at no such step.
LEMMA EndedNoHold == Ended.pc # "hold"
  BY SMT DEF Ended

\* The same when it only moves on.
LEMMA GotoNoHold ==
    ASSUME IInv, NEW d \in Devices, NEW s \in Slots, NEW x \in Steps, Goto(d, s, x), x # "hold"
    PROVE  NoneAtHold
<1>1. [proc[d][s] EXCEPT !.pc = x].pc = x
  BY IInvParts, ProcTyped, SetPc
<1>2. QED
  BY <1>1, EndedNoHold, MoveNoHold DEF Goto

\* Writing rows as anything but held holds nothing.
LEMMA PutRowsNoneHeld ==
    ASSUME IInv, NEW d \in Devices, NEW S, NEW st, PutRows(d, S, st), st # "held"
    PROVE  NoneHeld
<1>1. \A e \in Devices, p \in Proofs : row'[e][p] = IF e = d /\ p \in S THEN st ELSE row[e][p]
  BY SMT DEF IInv, TypeOK, PutRows
<1>2. UNCHANGED holder
  BY DEF PutRows
<1>3. QED
  BY <1>1, <1>2 DEF NoneHeld

\* The envelope is no melt.
LEMMA InEnvelopeOutside == InEnvelope \notin Melts
  BY EnvelopeAssumption

\* Writing rows under the envelope holds nothing for a melt.
LEMMA PutUnderNoneHeld ==
    ASSUME IInv, NEW d \in Devices, NEW S, NEW st, PutRowsUnder(d, S, st, InEnvelope)
    PROVE  NoneHeld
<1>1. \A e \in Devices, p \in Proofs : ~(e = d /\ p \in S) => row'[e][p] = row[e][p]
  BY SMT DEF IInv, TypeOK, PutRowsUnder
<1>2. \A e \in Devices, p \in Proofs : holder'[e][p] = IF e = d /\ p \in S THEN InEnvelope ELSE holder[e][p]
  BY SMT DEF IInv, TypeOK, PutRowsUnder
<1>3. QED
  BY <1>1, <1>2, InEnvelopeOutside DEF NoneHeld

\* So does reconcileRows.
LEMMA ReconcileNoneHeld ==
    ASSUME IInv, NEW d \in Devices, NEW st, ReconcileRows(d, st)
    PROVE  NoneHeld
  BY PutUnderNoneHeld DEF ReconcileRows

\* Rows, holders and records that stay.
LEMMA SameHeld ==
    /\ UNCHANGED <<row, holder>> => NoneHeld
    /\ UNCHANGED melt => RecordsStay
    /\ UNCHANGED proc => NoneAtHold
  BY DEF NoneHeld, RecordsStay, NoneAtHold

\* A record that is written is there.
LEMMA PutMeltStays ==
    ASSUME IInv, NEW d \in Devices, NEW m \in Melts, NEW st, PutMelt(d, m, st), st # "absent"
    PROVE  NoneHeld /\ RecordsStay /\ melt'[d][m] = st
<1>1. \A e \in Devices, n \in Melts : melt'[e][n] = IF e = d /\ n = m THEN st ELSE melt[e][n]
  BY SMT DEF PutMelt, IInv, TypeOK
<1>2. QED
  BY <1>1, SameHeld DEF RecordsStay, PutMelt

\* Every shared step.
LEMMA HoldShared ==
    ASSUME IInv, HoldInv, NEW d \in Devices, NEW s \in Slots, Shared(d, s)
    PROVE  HoldInv'
<1> DEFINE q == proc[d][s]
<1>0. /\ q \in Operations /\ q.next \in Steps /\ q.next # "hold"
      /\ FitsAt(q, mint, quote)
  <2>1. FitsAt(q, mint, quote)
    BY StillTrueFits, IInvParts
  <2>2. QED
    BY <2>1, IInvParts, ProcTyped, SMT DEF FitsAt, Fits
<1>1. CASE Load(d, s)
  <2> DEFINE o == [q EXCEPT !.pc = q.next, !.status = op[d]]
  <2>1. o.pc = q.next
    BY <1>0, SMT DEF Operations
  <2>2. Continue(d, s, Ended) \/ Continue(d, s, o)
    BY <1>1 DEF Load
  <2>3. NoneAtHold
    BY <1>0, <2>1, <2>2, EndedNoHold, MoveNoHold
  <2>4. NoneHeld /\ RecordsStay
    BY <1>1, ReconcileNoneHeld, SameHeld DEF Load, ReconcileRows, PutRowsUnder
  <2>5. QED
    BY <2>3, <2>4, HoldKept
<1>2. CASE LoadNothing(d, s)
  <2>1. "end" \in Steps /\ "probe" \in Steps
    BY DEF Steps
  <2>2. QED
    BY <1>2, <2>1, HoldKept, SameHeld, GotoNoHold DEF LoadNothing, storeVars
<1>3. CASE Probe(d, s)
  <2>1. "end" \in Steps /\ "store" \in Steps /\ "fund" \in Steps
    BY DEF Steps
  <2>2. QED
    BY <1>3, <2>1, HoldKept, SameHeld, GotoNoHold DEF Probe, storeVars
<1>4. CASE StoreOperation(d, s)
  <2>1. "rows" \in Steps
    BY DEF Steps
  <2>2. QED
    BY <1>4, <2>1, HoldKept, SameHeld, GotoNoHold DEF StoreOperation, PutOp
<1>5. CASE StoreRows(d, s)
  <2> DEFINE y == IF q.next \in {"paidOp", "giveBack"} THEN q.status ELSE "pending"
             o == [q EXCEPT !.pc = q.next, !.status = y]
  <2>1. o.pc = q.next
    BY <1>0, SMT DEF Operations
  <2>2. Continue(d, s, Ended) \/ Continue(d, s, o)
    <3>1. o = [q EXCEPT !.pc = q.next, !.status = IF q.next \in {"paidOp", "giveBack"} THEN @ ELSE "pending"]
      OBVIOUS
    <3>2. QED
      BY <1>5, <3>1 DEF StoreRows
  <2>3. NoneAtHold
    BY <1>0, <2>1, <2>2, EndedNoHold, MoveNoHold
  <2>4. NoneHeld /\ RecordsStay
    BY <1>5, ReconcileNoneHeld, SameHeld DEF StoreRows, ReconcileRows, PutRowsUnder
  <2>5. QED
    BY <2>3, <2>4, HoldKept
<1>6. CASE Ask(d, s)
  <2> DEFINE o == [q EXCEPT !.pc = "spentRows", !.answers = mint]
  <2>1. o.pc = "spentRows"
    BY <1>0, SMT DEF Operations
  <2>2. Continue(d, s, Ended) \/ Continue(d, s, o)
    BY <1>6 DEF Ask
  <2>3. NoneAtHold
    BY <2>1, <2>2, EndedNoHold, MoveNoHold
  <2>4. QED
    BY <1>6, <2>3, HoldKept, SameHeld DEF Ask, storeVars
<1>7. CASE MarkSpent(d, s)
  <2>1. "close" \in Steps
    BY DEF Steps
  <2>2. QED
    BY <1>7, <2>1, HoldKept, SameHeld, GotoNoHold, PutRowsNoneHeld DEF MarkSpent, PutRows
<1>8. CASE Close(d, s)
  <2>1. "end" \in Steps /\ "swap" \in Steps
    BY DEF Steps
  <2>2. QED
    BY <1>8, <2>1, HoldKept, SameHeld, GotoNoHold DEF Close, CloseIfSpent, PutOp, storeVars
<1>9. CASE AskQuote(d, s)
  <2> DEFINE o == [q EXCEPT !.pc = "giveBack", !.status = "unpaid"]
  <2>1. o.pc = "giveBack"
    BY <1>0, SMT DEF Operations
  <2>2. Goto(d, s, "paidRows") \/ Continue(d, s, o) \/ Goto(d, s, "end")
    BY <1>9 DEF AskQuote
  <2>3. NoneAtHold
    BY <2>1, <2>2, GotoNoHold, MoveNoHold DEF Steps
  <2>4. QED
    BY <1>9, <2>3, HoldKept, SameHeld DEF AskQuote, storeVars
<1>10. CASE PaidRows(d, s)
  <2>1. "paidOp" \in Steps
    BY DEF Steps
  <2>2. QED
    BY <1>10, <2>1, HoldKept, SameHeld, GotoNoHold, PutRowsNoneHeld DEF PaidRows, PutRows
<1>11. CASE PaidOp(d, s)
  <2>1. [q EXCEPT !.pc = "store", !.next = "paidOp"].pc = "store" /\ "paidMelt" \in Steps
    BY <1>0, SMT DEF Operations, Steps
  <2>2. NoneAtHold
    BY <1>11, <2>1, MoveNoHold, GotoNoHold DEF PaidOp, StoreFirst
  <2>3. QED
    BY <1>11, <2>2, HoldKept, SameHeld DEF PaidOp, CloseIfSpent, PutOp, storeVars
<1>12. CASE PaidMelt(d, s)
  <2>1. MeltOf(d, s) \in Melts /\ "end" \in Steps
    BY <1>12, MeltKnown DEF IInv, PaidMelt, At, MeltSteps, PaidSteps, Steps, MeltOf
  <2>2. QED
    BY <1>12, <2>1, HoldKept, GotoNoHold, PutMeltStays DEF PaidMelt
<1>13. CASE GiveBack(d, s)
  <2>1. /\ [q EXCEPT !.pc = "store", !.next = "giveBack"].pc = "store"
        /\ "closeMelt" \in Steps /\ "end" \in Steps
    BY <1>0, SMT DEF Operations, Steps
  <2>2. NoneAtHold
    BY <1>13, <2>1, MoveNoHold, GotoNoHold DEF GiveBack, StoreFirst
  <2>3. RecordsStay
    BY <1>13, SameHeld DEF GiveBack, PutRowsUnder, storeVars
  <2>4. NoneHeld
    BY <1>13, SameHeld, PutUnderNoneHeld DEF GiveBack, storeVars
  <2>5. QED
    BY <2>2, <2>3, <2>4, HoldKept
<1>14. CASE CloseMelt(d, s)
  <2>1. MeltOf(d, s) \in Melts /\ "end" \in Steps
    BY <1>14, MeltKnown DEF IInv, CloseMelt, At, MeltSteps, GiveBackSteps, Steps, MeltOf
  <2>2. Status(d, s) # "absent"
    BY <1>0, <1>14, SMT DEF FitsAt, Fits, CloseMelt, At, GiveBackSteps, Status
  <2>3. QED
    BY <1>14, <2>1, <2>2, HoldKept, GotoNoHold, PutMeltStays DEF CloseMelt
<1>15. QED
  BY <1>1, <1>2, <1>3, <1>4, <1>5, <1>6, <1>7, <1>8, <1>9, <1>10, <1>11, <1>12, <1>13, <1>14 DEF Shared

\* meltEnvelope writes the record, and only then holds the rows under it.
LEMMA HoldLeasedOnly ==
    ASSUME IInv, HoldInv, NEW d \in Devices, LeasedOnly(d)
    PROVE  HoldInv'
<1>0. /\ {"end", "reprobe", "fundWait", "issue", "ask", "swapWait", "freeRows", "returned",
          "sendMelt", "meltWait", "hold"} \subseteq Steps
      /\ "leased" \in Slots
  BY LeasedIsSlot DEF Steps
<1>1. CASE FundFails(d) \/ SendFund(d) \/ Guard(d) \/ SendSwap(d) \/ SendMelt(d)
  BY <1>0, <1>1, HoldKept, SameHeld, GotoNoHold DEF FundFails, SendFund, Guard, SendSwap, SendMelt, storeVars
<1>2. CASE Hand(d)
  <2>1. RecordsStay /\ NoneHeld
    BY <1>2, SameHeld, PutRowsNoneHeld DEF Hand, PutRows, storeVars
  <2>2. QED
    BY <1>0, <1>2, <2>1, HoldKept, GotoNoHold DEF Hand
<1>3. CASE Issue(d) \/ Returned(d)
  BY <1>0, <1>3, HoldKept, SameHeld, GotoNoHold DEF Issue, Returned, PutOp, storeVars
<1>4. CASE Book(d)
  BY <1>0, <1>4, HoldKept, SameHeld, GotoNoHold DEF Book
<1>5. CASE FreeRows(d)
  BY <1>0, <1>5, HoldKept, SameHeld, GotoNoHold, PutRowsNoneHeld DEF FreeRows, PutRows
<1>6. CASE Check(d)
  <2>1. UNCHANGED <<row, holder, melt>>
    BY <1>6 DEF Check, storeVars
  <2>2. ASSUME NEW m \in Melts, Continue(d, "leased", [proc[d]["leased"] EXCEPT !.pc = "record", !.melt = m])
        PROVE  NoneAtHold
    <3>1. proc[d]["leased"] \in Operations
      BY IInvParts, ProcTyped, LeasedIsSlot
    <3>2. [proc[d]["leased"] EXCEPT !.pc = "record", !.melt = m].pc = "record"
      BY <3>1, SMT DEF Operations
    <3>3. QED
      BY <1>0, <2>2, <3>2, MoveNoHold
  <2>3. NoneAtHold
    BY <1>0, <1>6, <2>2, GotoNoHold DEF Check, Fresh
  <2>4. QED
    BY <2>1, <2>3, HoldKept, SameHeld
<1>7. CASE Record(d)
  <2> DEFINE m == proc[d]["leased"].melt
             o == [proc[d]["leased"] EXCEPT !.pc = "hold"]
  <2>1. m \in Melts
    BY <1>7, LeasedMelt DEF IInv, Record, At, MeltSteps
  <2>2. o.melt = m /\ Continue(d, "leased", o)
    BY <1>0, <1>7, IInvParts, ProcTyped, SetPc DEF Record, Goto
  <2>3. \A e \in Devices, t \in Slots : proc'[e][t] = IF e = d /\ t = "leased" THEN o ELSE proc[e][t]
    BY <2>2, SMT DEF IInv, TypeOK, Continue
  <2>4. NoneHeld /\ RecordsStay /\ melt'[d][m] # "absent"
    BY <1>7, <2>1, PutMeltStays DEF Record, MeltOf
  <2>5. \A e \in Devices : proc[e]["leased"].pc = "hold" => proc[e]["leased"].melt \in Melts
    BY LeasedMelt DEF IInv, MeltSteps
  <2> HIDE DEF o
  <2>6. Holding'
    BY <1>0, <2>2, <2>3, <2>4, <2>5 DEF HoldInv, Holding, RecordsStay
  <2>7. HeldIsRecorded'
    BY <2>4 DEF HoldInv, HeldIsRecorded, HeldUnder, NoneHeld, RecordsStay
  <2>8. QED
    BY <2>6, <2>7 DEF HoldInv
<1>8. CASE Hold(d)
  <2> DEFINE m == proc[d]["leased"].melt
  <2>1. m \in Melts /\ melt[d][m] # "absent"
    BY <1>8, LeasedMelt DEF IInv, Hold, At, MeltSteps, HoldInv, Holding
  <2>2. NoneAtHold /\ UNCHANGED melt
    BY <1>0, <1>8, GotoNoHold DEF Hold, PutRowsUnder
  <2>3. \A e \in Devices, p \in Proofs :
          /\ row'[e][p] = IF e = d THEN "held" ELSE row[e][p]
          /\ holder'[e][p] = IF e = d THEN m ELSE holder[e][p]
    BY <1>8, SMT DEF Hold, PutRowsUnder, AllHeld, MeltOf, IInv, TypeOK
  <2>4. HeldIsRecorded'
    BY <2>1, <2>2, <2>3 DEF HoldInv, HeldIsRecorded, HeldUnder
  <2>5. Holding'
    BY <2>2 DEF HoldInv, Holding, NoneAtHold
  <2>6. QED
    BY <2>4, <2>5 DEF HoldInv
<1>9. QED
  BY <1>1, <1>2, <1>3, <1>4, <1>5, <1>6, <1>7, <1>8 DEF LeasedOnly

\* Every other step of a device.
LEMMA HoldDevice ==
    ASSUME Alone, IInv, HoldInv, NEW d \in Devices, Device(d)
    PROVE  HoldInv'
<1>1. ASSUME NEW task \in Tasks[d], Start(d, task)
      PROVE  HoldInv'
  <2> DEFINE o == [Ended EXCEPT !.task = task, !.pc = "load", !.next = LoadedStep(task)]
  <2>1. SlotOf(task) \in Slots /\ o.pc = "load"
    BY SlotOfTyped, SMT DEF Ended
  <2>2. QED
    BY <1>1, <2>1, HoldKept, SameHeld, MoveNoHold DEF Start, storeVars
<1>2. ASSUME NEW m \in Melts, StartResume(d, m)
      PROVE  HoldInv'
  <2> DEFINE o == [Ended EXCEPT !.task = "resume", !.pc = "askQuote", !.melt = m]
  <2>1. o.pc = "askQuote"
    BY SMT DEF Ended
  <2>2. QED
    BY <1>2, <2>1, LeasedIsSlot, HoldKept, SameHeld, MoveNoHold DEF StartResume, storeVars
<1>3. ASSUME NEW m \in Melts, StartLate(d, m)
      PROVE  HoldInv'
  <2> DEFINE o == [Ended EXCEPT !.task = "late", !.pc = "giveBack", !.status = melt[d][m], !.melt = m]
  <2>1. o.pc = "giveBack"
    BY SMT DEF Ended
  <2>2. NoneAtHold
    BY <1>3, <2>1, LeasedIsSlot, SameHeld, MoveNoHold DEF StartLate
  <2>3. RecordsStay /\ NoneHeld
    <3>1. CASE PutRows(d, HeldUnder(d, m), "spent")
      <4>1. UNCHANGED melt
        BY <3>1 DEF PutRows
      <4>2. QED
        BY <3>1, <4>1, SameHeld, PutRowsNoneHeld
    <3>2. CASE UNCHANGED storeVars
      BY <3>2, SameHeld DEF storeVars
    <3>3. QED
      BY <1>3, <3>1, <3>2 DEF StartLate
  <2>4. QED
    BY <2>2, <2>3, HoldKept
<1>4. ASSUME NEW s \in Slots, Fail(d, s)
      PROVE  HoldInv'
  BY <1>4, HoldKept, SameHeld, GotoNoHold DEF Fail, Steps, storeVars
<1>5. CASE GiveUp(d)
  <2>1. LostStep(proc[d]["leased"].pc) \in Steps /\ LostStep(proc[d]["leased"].pc) # "hold"
    BY SMT DEF LostStep, Steps
  <2>2. QED
    BY <1>5, <2>1, LeasedIsSlot, HoldKept, SameHeld, GotoNoHold DEF GiveUp, storeVars
<1>6. CASE Crash(d)
  <2>1. \A e \in Devices, t \in Slots : proc'[e][t] = IF e = d THEN Ended ELSE proc[e][t]
    BY <1>6, IInvParts, SMT DEF TypeOK, Crash
  <2>2. NoneAtHold
    BY <2>1, EndedNoHold, LeasedIsSlot DEF NoneAtHold
  <2>3. QED
    BY <1>6, <2>2, HoldKept, SameHeld DEF Crash, storeVars
<1>7. CASE Sync(d)
  <2>1. newest.op \subseteq Devices /\ \A p \in Proofs : newest.row[p] \subseteq Devices /\ newest.holder[p] \subseteq Devices
    BY IInvParts, SMT DEF TypeOK
  <2>2. \A m \in Melts : newest.melt[m] \subseteq Devices
    BY IInvParts, SMT DEF TypeOK
  <2>3. QED
    BY <1>7, <2>1, <2>2 DEF Alone, Sync, SyncOp, SyncRow, SyncHolder, SyncMelt
<1>8. QED
  BY <1>1, <1>2, <1>3, <1>4, <1>5, <1>6, <1>7, HoldShared, HoldLeasedOnly DEF Device

\* The mint writes no store; whom it answers does not hold rows next.
LEMMA HoldMint ==
    ASSUME IInv, HoldInv, Mint
    PROVE  HoldInv'
<1>1. UNCHANGED <<row, holder, melt>>
  BY DEF Mint, MintSign, MintSwap, MintMelt, MintSettles, Redeem, storeVars
<1>2. ASSUME NEW r \in wire, NEW x \in {"store", "reprobe", "book", "end", "askQuote"}, Answer(r, x)
      PROVE  NoneAtHold
  <2> DEFINE lost == LostStep(WaitStep(r.kind))
  <2>1. r.from \in Devices /\ x \in Steps /\ lost \in Steps /\ lost # "hold"
    BY IInvParts, RequestTyped, SMT DEF Steps, LostStep, WaitStep
  <2>2. UNCHANGED proc \/ Goto(r.from, "leased", x) \/ Goto(r.from, "leased", lost)
    BY <1>2 DEF Answer
  <2> HIDE DEF lost
  <2>3. QED
    BY <2>1, <2>2, LeasedIsSlot, SameHeld, GotoNoHold
<1>3. ASSUME NEW r \in wire, AnswerRejected(r)
      PROVE  NoneAtHold
  <2> DEFINE o == [proc[r.from]["leased"] EXCEPT !.pc = "giveBack", !.status = "failed"]
  <2>1. r.from \in Devices /\ "askQuote" \in Steps
    BY IInvParts, RequestTyped DEF Steps
  <2>2. o.pc = "giveBack"
    <3>1. proc[r.from]["leased"] \in Operations
      BY <2>1, IInvParts, ProcTyped, LeasedIsSlot
    <3>2. QED
      BY <3>1, SMT DEF Operations
  <2>3. UNCHANGED proc \/ Continue(r.from, "leased", o) \/ Goto(r.from, "leased", "askQuote")
    BY <1>3 DEF AnswerRejected
  <2> HIDE DEF o
  <2>4. QED
    BY <2>1, <2>2, <2>3, LeasedIsSlot, SameHeld, GotoNoHold, MoveNoHold
<1>4. NoneAtHold
  <2>1. ASSUME NEW r \in wire, MintSign(r) PROVE NoneAtHold
    BY <2>1, <1>2 DEF MintSign
  <2>2. ASSUME NEW r \in wire, MintSwap(r) PROVE NoneAtHold
    BY <2>2, <1>2 DEF MintSwap
  <2>3. ASSUME NEW r \in wire, MintMelt(r) PROVE NoneAtHold
    <3>1. Answer(r, "askQuote") \/ AnswerRejected(r)
      BY <2>3, Zenon DEF MintMelt
    <3>2. QED
      BY <1>2, <1>3, <3>1
  <2>4. (\E m \in Melts : MintSettles(m)) \/ (\E p \in Proofs : Redeem(p)) => NoneAtHold
    BY SameHeld DEF MintSettles, Redeem
  <2>5. QED
    BY <2>1, <2>2, <2>3, <2>4 DEF Mint
<1>5. QED
  BY <1>1, <1>4, SameHeld, HoldKept

\* On one device, whatever its callers run and the mint sees late: proofs held for a
\* melt have a record of it, so that resumePending finds them after a crash at any point
\* (Melt.ts, meltEnvelope: the operation is stored before the inputs are held).
THEOREM HeldHasRecord ==
    ASSUME Alone
    PROVE  Spec => []HeldIsRecorded
<1>1. Init => HoldInv
  <2> SUFFICES ASSUME Init PROVE HoldInv
    OBVIOUS
  <2>1. \A d \in Devices : proc[d]["leased"] = Ended
    BY LeasedIsSlot DEF Init
  <2>2. QED
    <3>1. Holding
      BY <2>1, EndedNoHold DEF Holding
    <3>2. \A d \in Devices, p \in Proofs : row[d][p] = "absent"
      BY DEF Init
    <3>3. QED
      BY <3>1, <3>2 DEF HoldInv, HeldIsRecorded, HeldUnder
<1>2. ASSUME IInv, HoldInv, [Next]_vars PROVE HoldInv'
  <2>1. CASE UNCHANGED vars
    BY <1>2, <2>1 DEF vars, storeVars, HoldInv, Holding, HeldIsRecorded, HeldUnder
  <2>2. QED
    BY <1>2, <2>1, HoldDevice, HoldMint DEF Next
<1>3. QED
  BY <1>1, <1>2, EnvelopeInvariant, PTL DEF Spec, HoldInv

-----------------------------------------------------------------------------
(* One device, with or without a recipient: PayOnce.                       *)

Sent == sent # {}
NoPayment == \A m \in Melts : quote[m] # "PENDING"

ReleaseSteps == {"ask", "spentRows", "close", "swap", "swapWait"}
BeforePayment == {"issue", "record", "hold", "sendMelt"}

\* Once a token is out, or about to be, no row counts as open again.
SentRows ==
    \A d \in Devices :
        Sent \/ proc[d]["leased"].pc = "issue" => \A p \in Proofs : row[d][p] \in {"handedOut", "spent"}

\* Who reads the operation as issued knows that it was sent.
IssuedIsSent ==
    \A d \in Devices :
        op[d] = "issued" \/ (\E s \in Slots : proc[d][s].status = "issued") => Sent

\* send has completed the rows it hands out.
RowsThere ==
    \A d \in Devices : proc[d]["leased"].pc = "hand" => \A p \in Proofs : row[d][p] # "absent"

\* release goes on only with a key that is not out, or has nothing left.
ReleaseFree ==
    \A d \in Devices : proc[d]["leased"].pc \in ReleaseSteps => ~Sent \/ AllSpent

\* So does meltEnvelope.
MeltQuiet == \A d \in Devices : proc[d]["leased"].melt \in Melts => ~Sent

\* A payment under way has all of the envelope, at the mint and in the store.
OneTaker ==
    \A m \in Melts : quote[m] = "PENDING" =>
        /\ \A p \in Proofs : mint[p] = "pending"
        /\ \A d \in Devices, p \in Proofs : row[d][p] = "held" /\ holder[d][p] = m
        /\ \A n \in Melts : quote[n] = "PENDING" => n = m

\* The mint has proofs pending for a payment only.
PendingHas == (\E p \in Proofs : mint[p] = "pending") => ~NoPayment

\* The rows of a melt that is asked for are under it.
HeldForMelt ==
    \A d \in Devices : proc[d]["leased"].pc \in {"sendMelt", "meltWait"} =>
        \A p \in Proofs :
            (row[d][p] = "held" /\ holder[d][p] = proc[d]["leased"].melt) \/ mint[p] = "spent"

\* Nothing is handed out, or asked to be paid, during a payment.
NotPendingYet ==
    /\ \A d \in Devices : proc[d]["leased"].pc \in BeforePayment => NoPayment
    /\ (\E r \in wire : r.kind = "melt") => NoPayment

RowsInv ==
    /\ SentRows /\ IssuedIsSent /\ RowsThere /\ ReleaseFree /\ MeltQuiet
    /\ OneTaker /\ PendingHas /\ HeldForMelt /\ NotPendingYet

\* All that holds on one device.
SoloInv == IInv /\ MeltInv /\ RowsInv

\* How a step may change the rows.
RowsFit ==
    \A d \in Devices, p \in Proofs :
        /\ Sent \/ proc[d]["leased"].pc = "issue" => row'[d][p] \in {"handedOut", "spent"}
        /\ row[d][p] # "absent" => row'[d][p] # "absent"
        /\ \A m \in Melts :
             (/\ row[d][p] = "held" /\ holder[d][p] = m /\ mint[p] # "spent"
              /\ \/ quote[m] = "PENDING"
                 \/ proc[d]["leased"].pc \in {"sendMelt", "meltWait"})
             => row'[d][p] = "held" /\ holder'[d][p] = m

\* How a leased operation may go on.
LeasedFits(d, o) ==
    /\ o.pc = "issue" => \A p \in Proofs : row'[d][p] \in {"handedOut", "spent"}
    /\ o.pc = "hand" => \A p \in Proofs : row'[d][p] # "absent"
    /\ o.pc \in ReleaseSteps => ~Sent \/ AllSpent
    /\ o.melt \in Melts => ~Sent
    /\ o.pc \in {"sendMelt", "meltWait"} =>
         \A p \in Proofs : (row'[d][p] = "held" /\ holder'[d][p] = o.melt) \/ mint[p] = "spent"
    /\ o.pc \in BeforePayment => NoPayment

\* How a step may change the mint, the quotes staying.
MintFits ==
    /\ UNCHANGED quote
    /\ \A p \in Proofs : (mint[p] = "spent" => mint'[p] = "spent") /\ (mint'[p] = "pending" <=> mint[p] = "pending")

\* A step of one slot within these limits keeps it all.
LEMMA RowsMove ==
    ASSUME Alone, SoloInv, NEW d \in Devices, NEW s \in Slots, NEW o, Continue(d, s, o),
           MintFits, UNCHANGED sent, RowsFit,
           \A r \in wire' : r.kind = "melt" => r \in wire \/ NoPayment,
           op'[d] = "issued" \/ o.status = "issued" => Sent,
           s = "leased" => LeasedFits(d, o)
    PROVE  RowsInv'
<1>1. \A e \in Devices, t \in Slots : proc'[e][t] = IF e = d /\ t = s THEN o ELSE proc[e][t]
  BY SMT DEF SoloInv, IInv, TypeOK, Continue
<1>2. "leased" \in Slots /\ \A e \in Devices : e = d
  BY LeasedIsSlot DEF Alone
<1>3. s # "leased" => proc'[d]["leased"] = proc[d]["leased"]
  BY <1>1, <1>2
<1>4. s = "leased" => proc'[d]["leased"] = o
  BY <1>1, <1>2
<1>5. Sent' = Sent /\ NoPayment' = NoPayment
  BY DEF Sent, NoPayment, MintFits
<1>6. AllSpent => AllSpent'
  BY DEF AllSpent, MintFits
<1>7. SentRows'
  BY <1>2, <1>3, <1>4, <1>5 DEF SentRows, RowsFit, LeasedFits
<1>8. IssuedIsSent'
  BY <1>1, <1>2, <1>5 DEF IssuedIsSent, SoloInv, RowsInv
<1>9. RowsThere'
  BY <1>2, <1>3, <1>4 DEF RowsThere, RowsFit, LeasedFits, SoloInv, RowsInv
<1>10. ReleaseFree'
  BY <1>2, <1>3, <1>4, <1>5, <1>6 DEF ReleaseFree, LeasedFits, SoloInv, RowsInv
<1>11. MeltQuiet'
  BY <1>2, <1>3, <1>4, <1>5 DEF MeltQuiet, LeasedFits, SoloInv, RowsInv
<1>12. OneTaker'
  BY <1>2 DEF OneTaker, RowsFit, MintFits, SoloInv, RowsInv
<1>13. PendingHas'
  BY <1>5 DEF PendingHas, MintFits, SoloInv, RowsInv
<1>14. HeldForMelt'
  <2>1. CASE s = "leased"
    BY <1>2, <1>4, <2>1 DEF HeldForMelt, LeasedFits, MintFits
  <2>2. CASE s # "leased"
    <3>1. proc[d]["leased"].pc \in {"sendMelt", "meltWait"} => proc[d]["leased"].melt \in Melts
      BY LeasedMelt DEF SoloInv, IInv, MeltSteps
    <3>2. QED
      BY <1>2, <1>3, <2>2, <3>1 DEF HeldForMelt, RowsFit, MintFits, SoloInv, RowsInv
  <2>3. QED
    BY <2>1, <2>2
<1>15. NotPendingYet'
  <2>1. (\E r \in wire' : r.kind = "melt") => NoPayment'
    BY <1>5 DEF NotPendingYet, SoloInv, RowsInv
  <2>2. proc'[d]["leased"].pc \in BeforePayment => NoPayment'
    BY <1>2, <1>3, <1>4, <1>5 DEF NotPendingYet, LeasedFits, SoloInv, RowsInv
  <2>3. QED
    BY <1>2, <2>1, <2>2 DEF NotPendingYet
<1>16. QED
  BY <1>7, <1>8, <1>9, <1>10, <1>11, <1>12, <1>13, <1>14, <1>15 DEF RowsInv

\* The parts of the invariant.
LEMMA SoloParts ==
    ASSUME SoloInv
    PROVE  /\ IInv /\ MeltInv /\ TypeOK
           /\ SentRows /\ IssuedIsSent /\ RowsThere /\ ReleaseFree /\ MeltQuiet
           /\ OneTaker /\ PendingHas /\ HeldForMelt /\ NotPendingYet
  BY DEF SoloInv, IInv, RowsInv

\* A mint that does not change fits.
LEMMA MintStays ==
    ASSUME UNCHANGED <<mint, quote>>
    PROVE  MintFits
  BY DEF MintFits

\* Nothing is said of the idle operation.
LEMMA EndedFree ==
    ASSUME NEW d \in Devices
    PROVE  LeasedFits(d, Ended) /\ Ended.status # "issued"
<1>1. Ended.pc = "end" /\ Ended.melt = NoMelt /\ Ended.status = "absent"
  BY SMT DEF Ended
<1>2. QED
  BY <1>1, NoMeltOutside, Zenon DEF LeasedFits, ReleaseSteps, BeforePayment

\* A slot moves on.
LEMMA RowsGoto ==
    ASSUME Alone, SoloInv, NEW d \in Devices, NEW s \in Slots, NEW x \in Steps, Goto(d, s, x),
           MintFits, UNCHANGED sent, RowsFit,
           \A r \in wire' : r.kind = "melt" => r \in wire \/ NoPayment,
           op'[d] = "issued" => Sent,
           s = "leased" /\ x # "end" => LeasedFits(d, [proc[d][s] EXCEPT !.pc = x])
    PROVE  RowsInv'
<1>1. CASE x = "end"
  BY <1>1, EndedFree, RowsMove DEF Goto
<1>2. CASE x # "end"
  <2> DEFINE o == [proc[d][s] EXCEPT !.pc = x]
  <2>1. o.status = proc[d][s].status /\ Continue(d, s, o)
    BY <1>2, SoloParts, IInvParts, ProcTyped, SetPc DEF Goto
  <2>2. o.status = "issued" => Sent
    BY <2>1, SoloParts DEF IssuedIsSent
  <2>3. s = "leased" => LeasedFits(d, o)
    BY <1>2
  <2> HIDE DEF o
  <2>4. QED
    BY <2>1, <2>2, <2>3, RowsMove
<1>3. QED
  BY <1>1, <1>2

\* Rows that stay fit.
LEMMA RowsStay ==
    ASSUME SoloInv, UNCHANGED <<row, holder>>
    PROVE  RowsFit
  BY SoloParts DEF RowsFit, SentRows

\* Rows of spent proofs may be marked spent.
LEMMA SpentRowsFit ==
    ASSUME SoloInv, NEW d \in Devices, NEW S, PutRows(d, S, "spent"),
           \A p \in Proofs : p \in S => mint[p] = "spent"
    PROVE  RowsFit
<1>1. \A e \in Devices, p \in Proofs : row'[e][p] = IF e = d /\ p \in S THEN "spent" ELSE row[e][p]
  BY SMT DEF SoloInv, IInv, TypeOK, PutRows
<1>2. UNCHANGED holder
  BY DEF PutRows
<1>3. QED
  BY <1>1, <1>2, SoloParts DEF RowsFit, SentRows

\* reconcileRows leaves no row absent, and fits.
LEMMA ReconcileFits ==
    ASSUME SoloInv, NEW d \in Devices, NEW st, ReconcileRows(d, st)
    PROVE  RowsFit /\ \A p \in Proofs : row'[d][p] # "absent"
<1> DEFINE missing == {p \in Proofs : row[d][p] = "absent"}
           orphans == {p \in Proofs : row[d][p] = "held" /\ holder[d][p] = NoHolder}
           states == [p \in Proofs |-> IF p \in missing THEN RowStateOf(st) ELSE "held"]
<1>1. PutRowsUnder(d, missing \cup orphans, states, InEnvelope)
  BY DEF ReconcileRows
<1>2. \A p \in Proofs : states[p] # "absent"
  BY SMT DEF RowStateOf
<1>3. \A e \in Devices, p \in Proofs :
        row'[e][p] = IF e = d /\ p \in missing \cup orphans THEN states[p] ELSE row[e][p]
  BY <1>1, SMT DEF SoloInv, IInv, TypeOK, PutRowsUnder
<1>4. \A e \in Devices, p \in Proofs :
        ~(e = d /\ p \in missing \cup orphans) => holder'[e][p] = holder[e][p]
  BY <1>1, SMT DEF SoloInv, IInv, TypeOK, PutRowsUnder
<1>5. NoHolder \notin Melts
  BY EnvelopeAssumption
<1> HIDE DEF states
<1>6. \A p \in Proofs : row'[d][p] # "absent"
  BY <1>2, <1>3
<1>7. RowsFit
  BY <1>2, <1>3, <1>4, <1>5, SoloParts DEF RowsFit, SentRows
<1>8. QED
  BY <1>6, <1>7

\* The steps that claim something of the rows or the payments.
Claims == {"issue", "hand", "sendMelt", "meltWait"} \cup ReleaseSteps \cup BeforePayment

\* A step to where nothing, or nothing new, is claimed.
LEMMA RowsSteady ==
    ASSUME Alone, SoloInv, NEW d \in Devices, NEW s \in Slots, NEW x \in Steps, Goto(d, s, x),
           MintFits, UNCHANGED sent, RowsFit,
           \A r \in wire' : r.kind = "melt" => r \in wire,
           op'[d] = "issued" => op[d] = "issued",
           s = "leased" => x \notin Claims \/ (x \in ReleaseSteps /\ proc[d][s].pc \in ReleaseSteps)
    PROVE  RowsInv'
<1>1. op'[d] = "issued" => Sent
  BY SoloParts DEF IssuedIsSent
<1>2. ASSUME s = "leased", x # "end"
      PROVE  LeasedFits(d, [proc[d][s] EXCEPT !.pc = x])
  <2> DEFINE o == [proc[d][s] EXCEPT !.pc = x]
  <2>1. o.pc = x /\ o.melt = proc[d][s].melt
    BY SoloParts, IInvParts, ProcTyped, SetPc
  <2>2. o.melt \in Melts => ~Sent
    BY <1>2, <2>1, SoloParts DEF MeltQuiet
  <2>3. x \in ReleaseSteps => ~Sent \/ AllSpent
    BY <1>2, SoloParts DEF ReleaseFree, Claims
  <2>4. x \notin {"issue", "hand", "sendMelt", "meltWait"} \cup BeforePayment
    BY <1>2, SMT DEF Claims, ReleaseSteps, BeforePayment
  <2> HIDE DEF o
  <2>5. QED
    BY <2>1, <2>2, <2>3, <2>4 DEF LeasedFits, o
<1>3. QED
  BY <1>1, <1>2, RowsGoto

\* Load goes on to what the key was loaded for, its rows complete.
LEMMA RowsLoad ==
    ASSUME Alone, SoloInv, NEW d \in Devices, NEW s \in Slots, Load(d, s)
    PROVE  RowsInv'
<1> DEFINE q == proc[d][s]
           o == [q EXCEPT !.pc = q.next, !.status = op[d]]
<1>1. q \in Operations
  BY SoloParts, IInvParts, ProcTyped
<1>2. o.pc = q.next /\ o.melt = q.melt /\ o.status = op[d]
  BY <1>1, SMT DEF Operations
<1>3. /\ UNCHANGED <<mint, quote, wire, sent>> /\ UNCHANGED op
      /\ q.pc = "load" /\ ReconcileRows(d, op[d])
  BY DEF Load, ReconcileRows, PutRowsUnder, mintVars, callVars, At
<1>4. RowsFit /\ \A p \in Proofs : row'[d][p] # "absent"
  BY <1>3, ReconcileFits
<1>5. op[d] = "issued" => Sent
  BY SoloParts DEF IssuedIsSent
<1>6. s = "leased" => q.next \in {"end", "hand", "guard", "check", "paidOp", "giveBack"}
  BY SoloParts, ClearNow, SMT DEF Clear, FitsAt, Fits
<1>7. s = "leased" => (q.melt \in Melts => ~Sent)
  BY SoloParts DEF MeltQuiet
<1>8. s = "leased" => q.next \notin {"issue", "sendMelt", "meltWait"} \cup ReleaseSteps \cup BeforePayment
  BY <1>6, SMT DEF ReleaseSteps, BeforePayment
<1>9. s = "leased" => LeasedFits(d, o)
  BY <1>2, <1>4, <1>7, <1>8 DEF LeasedFits
<1>10. Continue(d, s, Ended) \/ Continue(d, s, o)
  BY DEF Load
<1> HIDE DEF o
<1>11. QED
  BY <1>2, <1>3, <1>4, <1>5, <1>9, <1>10, EndedFree, MintStays, RowsMove

\* So does StoreRows.
LEMMA RowsStoreRows ==
    ASSUME Alone, SoloInv, NEW d \in Devices, NEW s \in Slots, StoreRows(d, s)
    PROVE  RowsInv'
<1> DEFINE q == proc[d][s]
           y == IF q.next \in {"paidOp", "giveBack"} THEN q.status ELSE "pending"
           o == [q EXCEPT !.pc = q.next, !.status = y]
<1>1. q \in Operations
  BY SoloParts, IInvParts, ProcTyped
<1>2. o.pc = q.next /\ o.melt = q.melt /\ o.status = y
  BY <1>1, SMT DEF Operations
<1>3. /\ UNCHANGED <<mint, quote, wire, sent>> /\ UNCHANGED op
      /\ ReconcileRows(d, "pending")
  BY DEF StoreRows, ReconcileRows, PutRowsUnder, mintVars, callVars
<1>4. RowsFit /\ \A p \in Proofs : row'[d][p] # "absent"
  BY <1>3, ReconcileFits
<1>5. op[d] = "issued" \/ y = "issued" => Sent
  BY SoloParts DEF IssuedIsSent
<1>6. s = "leased" => q.next \in {"end", "hand", "guard", "check", "paidOp", "giveBack"}
  BY SoloParts, ClearNow, SMT DEF Clear, FitsAt, Fits
<1>7. s = "leased" => (q.melt \in Melts => ~Sent)
  BY SoloParts DEF MeltQuiet
<1>8. s = "leased" => q.next \notin {"issue", "sendMelt", "meltWait"} \cup ReleaseSteps \cup BeforePayment
  BY <1>6, SMT DEF ReleaseSteps, BeforePayment
<1>9. s = "leased" => LeasedFits(d, o)
  BY <1>2, <1>4, <1>7, <1>8 DEF LeasedFits
<1>10. Continue(d, s, Ended) \/ Continue(d, s, o)
  <2>1. o = [q EXCEPT !.pc = q.next, !.status = IF q.next \in {"paidOp", "giveBack"} THEN @ ELSE "pending"]
    OBVIOUS
  <2>2. QED
    BY <2>1 DEF StoreRows
<1> HIDE DEF o, y
<1>11. QED
  BY <1>2, <1>3, <1>4, <1>5, <1>9, <1>10, EndedFree, MintStays, RowsMove

\* release asks the mint about a key that is not out.
LEMMA RowsAsk ==
    ASSUME Alone, SoloInv, NEW d \in Devices, NEW s \in Slots, Ask(d, s)
    PROVE  RowsInv'
<1> DEFINE q == proc[d][s]
           o == [q EXCEPT !.pc = "spentRows", !.answers = mint]
<1>1. q \in Operations
  BY SoloParts, IInvParts, ProcTyped
<1>2. o.pc = "spentRows" /\ o.melt = q.melt /\ o.status = q.status
  BY <1>1, SMT DEF Operations
<1>3. UNCHANGED <<mint, quote, wire, sent, op, row, holder>> /\ q.pc = "ask"
  BY DEF Ask, storeVars, mintVars, callVars, At
<1>4. op[d] = "issued" \/ q.status = "issued" => Sent
  BY SoloParts DEF IssuedIsSent
<1>5. s = "leased" => (q.melt \in Melts => ~Sent) /\ (~Sent \/ AllSpent)
  BY <1>3, SoloParts DEF MeltQuiet, ReleaseFree, ReleaseSteps
<1>6. s = "leased" => LeasedFits(d, o)
  BY <1>2, <1>5, Zenon DEF LeasedFits, BeforePayment
<1>7. Continue(d, s, Ended) \/ Continue(d, s, o)
  BY DEF Ask
<1> HIDE DEF o
<1>8. QED
  BY <1>2, <1>3, <1>4, <1>6, <1>7, EndedFree, MintStays, RowsStay, RowsMove

\* A step of a melt: none of them claims anything of the rows.
LEMMA RowsMelting ==
    ASSUME Alone, SoloInv, NEW d \in Devices, NEW o, Continue(d, "leased", o),
           MintFits, UNCHANGED <<sent, op>>, RowsFit,
           \A r \in wire' : r.kind = "melt" => r \in wire,
           o.melt = proc[d]["leased"].melt, o.pc \notin Claims,
           o.status = "issued" => o.status = proc[d]["leased"].status
    PROVE  RowsInv'
<1>1. "leased" \in Slots
  BY LeasedIsSlot
<1>2. op'[d] = "issued" \/ o.status = "issued" => Sent
  BY <1>1, SoloParts DEF IssuedIsSent
<1>3. o.melt \in Melts => ~Sent
  BY SoloParts DEF MeltQuiet
<1>4. LeasedFits(d, o)
  BY <1>3 DEF LeasedFits, Claims
<1>5. QED
  BY <1>1, <1>2, <1>4, RowsMove

\* AskQuote touches no row.
LEMMA RowsAskQuote ==
    ASSUME Alone, SoloInv, NEW d \in Devices, NEW s \in Slots, AskQuote(d, s)
    PROVE  RowsInv'
<1> DEFINE q == proc[d][s]
           o == [q EXCEPT !.pc = "giveBack", !.status = "unpaid"]
<1>1. q \in Operations
  BY SoloParts, IInvParts, ProcTyped
<1>2. o.pc = "giveBack" /\ o.melt = q.melt /\ o.status = "unpaid"
  BY <1>1, SMT DEF Operations
<1>3. UNCHANGED <<mint, quote, wire, sent, op, row, holder>> /\ q.pc = "askQuote"
  BY DEF AskQuote, storeVars, mintVars, callVars, At
<1>4. s = "leased"
  BY <1>3, SoloParts, FreeHasNone DEF MeltSteps
<1>5. "giveBack" \notin Claims /\ "paidRows" \notin Claims /\ "end" \notin Claims
  BY DEF Claims, ReleaseSteps, BeforePayment
<1>6. Goto(d, s, "paidRows") \/ Continue(d, s, o) \/ Goto(d, s, "end")
  BY DEF AskQuote
<1>7. CASE Continue(d, s, o)
  <2> HIDE DEF o
  <2>1. QED
    BY <1>2, <1>3, <1>4, <1>5, <1>7, MintStays, RowsStay, RowsMelting
<1>8. CASE Goto(d, s, "paidRows") \/ Goto(d, s, "end")
  <2>1. "paidRows" \in Steps /\ "end" \in Steps
    BY DEF Steps
  <2>2. QED
    BY <1>3, <1>5, <1>8, <2>1, MintStays, RowsStay, RowsSteady
<1>9. QED
  BY <1>6, <1>7, <1>8

\* Nor does storing the envelope first.
LEMMA RowsStoreFirst ==
    ASSUME Alone, SoloInv, NEW d \in Devices, NEW x \in Steps,
           StoreFirst(d, "leased", x), UNCHANGED <<mint, quote, wire, sent, op, row, holder>>
    PROVE  RowsInv'
<1> DEFINE q == proc[d]["leased"]
           o == [q EXCEPT !.pc = "store", !.next = x]
<1>1. q \in Operations
  BY SoloParts, IInvParts, ProcTyped, LeasedIsSlot
<1>2. o.pc = "store" /\ o.melt = q.melt /\ o.status = q.status
  BY <1>1, SMT DEF Operations
<1>3. Continue(d, "leased", o) /\ "store" \notin Claims
  BY DEF StoreFirst, Claims, ReleaseSteps, BeforePayment
<1> HIDE DEF o
<1>4. QED
  BY <1>2, <1>3, MintStays, RowsStay, RowsMelting

\* releaseInputs: only the rows of a payment that was not made go back.
LEMMA RowsGiveBack ==
    ASSUME Alone, SoloInv, NEW d \in Devices, NEW s \in Slots, GiveBack(d, s)
    PROVE  RowsInv'
<1> DEFINE q == proc[d][s]
<1>1. q.pc = "giveBack" /\ UNCHANGED <<mint, quote, wire, sent>>
  BY DEF GiveBack, mintVars, callVars, At
<1>2. s = "leased" /\ q.melt \in Melts
  BY <1>1, SoloParts, FreeHasNone, MeltKnown DEF IInv, MeltSteps, GiveBackSteps
<1>3. CASE op[d] = "absent"
  <2>1. StoreFirst(d, "leased", "giveBack") /\ UNCHANGED <<op, row, holder>> /\ "giveBack" \in Steps
    BY <1>2, <1>3 DEF GiveBack, storeVars, Steps
  <2>2. QED
    BY <1>1, <2>1, RowsStoreFirst
<1>4. CASE op[d] # "absent"
  <2> DEFINE S == HeldUnder(d, q.melt)
  <2>1. PutRowsUnder(d, S, AllHeld, InEnvelope) /\ UNCHANGED op
    BY <1>4 DEF GiveBack, MeltOf, PutRowsUnder
  <2>2. \A e \in Devices, p \in Proofs : row'[e][p] = IF e = d /\ p \in S THEN "held" ELSE row[e][p]
    BY <2>1, SMT DEF SoloInv, IInv, TypeOK, PutRowsUnder, AllHeld
  <2>3. \A e \in Devices, p \in Proofs : ~(e = d /\ p \in S) => holder'[e][p] = holder[e][p]
    BY <2>1, SMT DEF SoloInv, IInv, TypeOK, PutRowsUnder
  <2>4. ~Sent
    BY <1>2, SoloParts DEF MeltQuiet
  <2>5. quote[q.melt] = "UNPAID"
    BY <1>1, <1>2, SoloParts, ClearNow DEF Clear, GiveBackSteps
  <2>6. \A e \in Devices : e = d
    BY DEF Alone
  <2>7. RowsFit
    BY <1>1, <1>2, <2>2, <2>3, <2>4, <2>5, <2>6 DEF RowsFit, HeldUnder
  <2>8. Goto(d, s, "end") \/ Goto(d, s, "closeMelt")
    BY <1>4 DEF GiveBack
  <2>9. "end" \in Steps /\ "closeMelt" \in Steps /\ "end" \notin Claims /\ "closeMelt" \notin Claims
    BY DEF Steps, Claims, ReleaseSteps, BeforePayment
  <2>10. QED
    BY <1>1, <2>1, <2>7, <2>8, <2>9, MintStays, RowsSteady
<1>5. QED
  BY <1>3, <1>4

\* Every shared step.
LEMMA RowsShared ==
    ASSUME Alone, SoloInv, NEW d \in Devices, NEW s \in Slots, Shared(d, s)
    PROVE  RowsInv'
<1> DEFINE q == proc[d][s]
<1>0. /\ {"end", "probe", "store", "fund", "rows", "paidOp", "paidMelt"} \cap Claims = {}
      /\ {"end", "probe", "store", "fund", "rows", "paidOp", "paidMelt", "close", "swap"} \subseteq Steps
  BY DEF Claims, ReleaseSteps, BeforePayment, Steps
<1>1. FitsAt(q, mint, quote) /\ Backed
  BY SoloParts, ClearNow, IInvParts
<1>2. CASE Load(d, s)
  BY <1>2, RowsLoad
<1>3. CASE LoadNothing(d, s) \/ Probe(d, s)
  <2>1. UNCHANGED <<mint, quote, wire, sent, op, row, holder>>
    BY <1>3 DEF LoadNothing, Probe, mintVars, storeVars, callVars
  <2>2. \E x \in {"end", "probe", "store", "fund"} : Goto(d, s, x)
    BY <1>3 DEF LoadNothing, Probe
  <2>3. QED
    BY <1>0, <2>1, <2>2, MintStays, RowsStay, RowsSteady
<1>4. CASE StoreOperation(d, s)
  <2>1. UNCHANGED <<mint, quote, wire, sent, row, holder>> /\ Goto(d, s, "rows")
    BY <1>4 DEF StoreOperation, PutOp, mintVars, callVars
  <2>2. op'[d] = "pending"
    BY <1>4, SMT DEF StoreOperation, PutOp, SoloInv, IInv, TypeOK
  <2>3. QED
    BY <1>0, <2>1, <2>2, MintStays, RowsStay, RowsSteady
<1>5. CASE StoreRows(d, s)
  BY <1>5, RowsStoreRows
<1>6. CASE Ask(d, s)
  BY <1>6, RowsAsk
<1>7. CASE MarkSpent(d, s)
  <2>1. UNCHANGED <<mint, quote, wire, sent, op>> /\ Goto(d, s, "close") /\ q.pc = "spentRows"
    BY <1>7 DEF MarkSpent, PutRows, mintVars, callVars, At
  <2> DEFINE S == {p \in Stored(d, ReportedSpent(d, s)) : row[d][p] # "spent"}
  <2>2. \A p \in Proofs : p \in S => mint[p] = "spent"
    BY <1>1 DEF Stored, ReportedSpent, Answers, FitsAt, Fits
  <2>3. PutRows(d, S, "spent")
    BY <1>7 DEF MarkSpent
  <2> HIDE DEF S
  <2>4. RowsFit
    BY <2>2, <2>3, SpentRowsFit
  <2>5. QED
    BY <1>0, <2>1, <2>4, MintStays, RowsSteady DEF ReleaseSteps
<1>8. CASE Close(d, s)
  <2>1. UNCHANGED <<mint, quote, wire, sent, row, holder>> /\ q.pc = "close"
    BY <1>8 DEF Close, CloseIfSpent, PutOp, storeVars, mintVars, callVars, At
  <2>2. Goto(d, s, "swap") \/ Goto(d, s, "end")
    BY <1>8 DEF Close
  <2>3. op'[d] \in {op[d], "done"}
    BY <1>8, SMT DEF Close, CloseIfSpent, PutOp, storeVars, SoloInv, IInv, TypeOK
  <2>4. QED
    BY <1>0, <2>1, <2>2, <2>3, MintStays, RowsStay, RowsSteady DEF ReleaseSteps
<1>9. CASE AskQuote(d, s)
  BY <1>9, RowsAskQuote
<1>10. CASE PaidRows(d, s)
  <2>1. UNCHANGED <<mint, quote, wire, sent, op>> /\ Goto(d, s, "paidOp") /\ q.pc = "paidRows"
    BY <1>10 DEF PaidRows, PutRows, mintVars, callVars, At
  <2>2. quote[q.melt] = "PAID" /\ q.melt \in Melts
    BY <1>1, <2>1, SMT DEF FitsAt, Fits, PaidSteps, MeltSteps
  <2>3. \A p \in Proofs : mint[p] = "spent"
    BY <2>2, SoloParts, IInvParts DEF MintConsistent
  <2>4. PutRows(d, HeldUnder(d, MeltOf(d, s)), "spent")
    BY <1>10 DEF PaidRows
  <2>5. QED
    BY <1>0, <2>1, <2>3, <2>4, SpentRowsFit, MintStays, RowsSteady
<1>11. CASE PaidOp(d, s)
  <2>1. UNCHANGED <<mint, quote, wire, sent, row, holder>> /\ q.pc = "paidOp"
    BY <1>11 DEF PaidOp, CloseIfSpent, PutOp, storeVars, mintVars, callVars, At
  <2>2. s = "leased"
    BY <2>1, SoloParts, FreeHasNone DEF MeltSteps, PaidSteps
  <2>3. CASE op[d] = "absent"
    BY <1>0, <1>11, <2>1, <2>2, <2>3, RowsStoreFirst DEF PaidOp, storeVars
  <2>4. CASE op[d] # "absent"
    <3>1. op'[d] \in {op[d], "done"}
      BY <1>11, <2>4, SMT DEF PaidOp, CloseIfSpent, PutOp, storeVars, SoloInv, IInv, TypeOK
    <3>2. Goto(d, s, "paidMelt")
      BY <1>11, <2>4 DEF PaidOp
    <3>3. QED
      BY <1>0, <2>1, <3>1, <3>2, MintStays, RowsStay, RowsSteady
  <2>5. QED
    BY <2>3, <2>4
<1>12. CASE PaidMelt(d, s) \/ CloseMelt(d, s)
  <2>1. UNCHANGED <<mint, quote, wire, sent, op, row, holder>> /\ Goto(d, s, "end")
    BY <1>12 DEF PaidMelt, CloseMelt, PutMelt, mintVars, callVars
  <2>2. QED
    BY <1>0, <2>1, MintStays, RowsStay, RowsSteady
<1>13. CASE GiveBack(d, s)
  BY <1>13, RowsGiveBack
<1>14. QED
  BY <1>2, <1>3, <1>4, <1>5, <1>6, <1>7, <1>8, <1>9, <1>10, <1>11, <1>12, <1>13 DEF Shared

\* What is under the envelope, or handed out, is not being paid away.
LEMMA SendableIsFree ==
    ASSUME SoloInv, NEW d \in Devices,
           \/ IsSendable(d, proc[d]["leased"].status)
           \/ HeldUnder(d, InEnvelope) = Proofs
    PROVE  NoPayment
<1>1. proc[d]["leased"].status = "issued" => Sent
  BY SoloParts, LeasedIsSlot DEF IssuedIsSent
<1>2. Sent => \A p \in Proofs : row[d][p] # "held"
  BY SoloParts DEF SentRows
<1>3. PICK p \in Proofs : TRUE
  BY EnvelopeAssumption
<1>4. SUFFICES ASSUME NEW m \in Melts, quote[m] = "PENDING" PROVE FALSE
  BY DEF NoPayment
<1>5. row[d][p] = "held" /\ holder[d][p] = m /\ m # InEnvelope
  BY <1>4, SoloParts, InEnvelopeOutside DEF OneTaker
<1>6. QED
  BY <1>1, <1>2, <1>3, <1>5 DEF IsSendable, HeldUnder

\* send hands out rows that no payment has.
LEMMA RowsHand ==
    ASSUME Alone, SoloInv, NEW d \in Devices, Hand(d)
    PROVE  RowsInv'
<1> DEFINE q == proc[d]["leased"]
           S == HeldUnder(d, InEnvelope)
           o == [q EXCEPT !.pc = "issue"]
<1>0. "leased" \in Slots /\ "issue" \in Steps /\ "end" \in Steps /\ "end" \notin Claims
  BY LeasedIsSlot DEF Steps, Claims, ReleaseSteps, BeforePayment
<1>1. UNCHANGED <<mint, quote, wire, sent, op>> /\ q.pc = "hand"
  BY DEF Hand, PutRows, storeVars, mintVars, callVars, At
<1>2. CASE IsSendable(d, q.status)
  <2>1. PutRows(d, S, "handedOut") /\ Goto(d, "leased", "issue") /\ UNCHANGED holder
    BY <1>2 DEF Hand, Status, PutRows
  <2>2. \A e \in Devices, p \in Proofs : row'[e][p] = IF e = d /\ p \in S THEN "handedOut" ELSE row[e][p]
    BY <2>1, SMT DEF SoloInv, IInv, TypeOK, PutRows
  <2>3. \A e \in Devices : e = d
    BY DEF Alone
  <2>4. \A p \in Proofs : row[d][p] # "absent"
    BY <1>1, SoloParts DEF RowsThere
  <2>5. q.status = "issued" => \A p \in Proofs : row[d][p] \in {"handedOut", "spent"}
    BY <1>0, SoloParts DEF IssuedIsSent, SentRows
  <2>6. \A p \in Proofs : row'[d][p] \in {"handedOut", "spent"}
    BY <1>2, <2>2, <2>4, <2>5 DEF IsSendable
  <2>7. RowsFit
    BY <2>1, <2>2, <2>3, <2>6, InEnvelopeOutside DEF RowsFit, HeldUnder
  <2>8. NoPayment
    BY <1>2, SendableIsFree
  <2>9. o.pc = "issue" /\ o.melt = q.melt
    BY <1>0, SoloParts, IInvParts, ProcTyped, SetPc
  <2>10. q.melt \in Melts => ~Sent
    BY SoloParts DEF MeltQuiet
  <2> HIDE DEF o
  <2>11. LeasedFits(d, o)
    BY <2>6, <2>8, <2>9, <2>10, Zenon DEF LeasedFits, ReleaseSteps
  <2>12. op'[d] = "issued" => Sent
    BY <1>1, SoloParts DEF IssuedIsSent
  <2>13. QED
    BY <1>0, <1>1, <2>1, <2>7, <2>11, <2>12, MintStays, RowsGoto DEF o
<1>3. CASE ~IsSendable(d, q.status)
  <2>1. Goto(d, "leased", "end") /\ UNCHANGED <<row, holder>>
    BY <1>3 DEF Hand, Status, storeVars
  <2>2. QED
    BY <1>0, <1>1, <2>1, MintStays, RowsStay, RowsSteady
<1>4. QED
  BY <1>2, <1>3

\* release goes on when the key is not out, or has been spent.
LEMMA RowsGuard ==
    ASSUME Alone, SoloInv, NEW d \in Devices, Guard(d)
    PROVE  RowsInv'
<1> DEFINE q == proc[d]["leased"]
           o == [q EXCEPT !.pc = "ask"]
<1>0. "leased" \in Slots /\ "ask" \in Steps /\ "end" \in Steps /\ "end" \notin Claims
  BY LeasedIsSlot DEF Steps, Claims, ReleaseSteps, BeforePayment
<1>1. UNCHANGED <<mint, quote, wire, sent, op, row, holder>>
  BY DEF Guard, storeVars, mintVars, callVars
<1>2. CASE IsHandedOut(d, q.status)
  <2>1. Goto(d, "leased", "end")
    BY <1>2 DEF Guard, Status
  <2>2. QED
    BY <1>0, <1>1, <2>1, MintStays, RowsStay, RowsSteady
<1>3. CASE ~IsHandedOut(d, q.status)
  <2>1. Goto(d, "leased", "ask")
    BY <1>3 DEF Guard, Status
  <2>2. ~Sent \/ AllSpent
    <3>1. Sent => \A p \in Proofs : row[d][p] = "spent"
      BY <1>3, SoloParts DEF SentRows, IsHandedOut
    <3>2. QED
      BY <3>1, SoloParts, IInvParts DEF Backed, ClosedIsSpent, AllSpent
  <2>3. o.pc = "ask" /\ o.melt = q.melt
    BY <1>0, SoloParts, IInvParts, ProcTyped, SetPc
  <2>4. q.melt \in Melts => ~Sent
    BY SoloParts DEF MeltQuiet
  <2> HIDE DEF o
  <2>5. LeasedFits(d, o)
    BY <2>2, <2>3, <2>4, Zenon DEF LeasedFits, BeforePayment
  <2>6. op'[d] = "issued" => Sent
    BY <1>1, SoloParts DEF IssuedIsSent
  <2>7. QED
    BY <1>0, <1>1, <2>1, <2>5, <2>6, MintStays, RowsStay, RowsGoto DEF o
<1>4. QED
  BY <1>2, <1>3

\* meltEnvelope takes an envelope that is not out and that no payment has.
LEMMA RowsCheck ==
    ASSUME Alone, SoloInv, NEW d \in Devices, Check(d)
    PROVE  RowsInv'
<1> DEFINE q == proc[d]["leased"]
<1>0. /\ "leased" \in Slots /\ "end" \in Steps /\ "end" \notin Claims
      /\ UNCHANGED <<mint, wire, sent, op, row, holder>>
  BY LeasedIsSlot DEF Steps, Claims, ReleaseSteps, BeforePayment, Check, storeVars, callVars
<1>1. CASE UNCHANGED quote /\ Goto(d, "leased", "end")
  BY <1>0, <1>1, MintStays, RowsStay, RowsSteady
<1>2. ASSUME NEW m \in Melts, quote[m] = "none", quote' = [quote EXCEPT ![m] = "UNPAID"],
             Continue(d, "leased", [q EXCEPT !.pc = "record", !.melt = m]),
             HeldUnder(d, InEnvelope) = Proofs
      PROVE  RowsInv'
  <2> DEFINE o == [q EXCEPT !.pc = "record", !.melt = m]
  <2>1. o.pc = "record" /\ o.melt = m /\ o.status = q.status
    <3>1. q \in Operations
      BY <1>0, SoloParts, IInvParts, ProcTyped
    <3>2. QED
      BY <3>1, SMT DEF Operations
  <2>2. \A e \in Devices, t \in Slots : proc'[e][t] = IF e = d /\ t = "leased" THEN o ELSE proc[e][t]
    BY <1>2, SMT DEF SoloInv, IInv, TypeOK, Continue
  <2>3. \A n \in Melts : quote'[n] = IF n = m THEN "UNPAID" ELSE quote[n]
    BY <1>2, SMT DEF SoloInv, IInv, TypeOK
  <2>4. NoPayment /\ NoPayment'
    <3>1. NoPayment
      BY <1>2, SendableIsFree
    <3>2. QED
      BY <2>3, <3>1 DEF NoPayment
  <2>5. ~Sent
    <3>1. PICK p \in Proofs : TRUE
      BY EnvelopeAssumption
    <3>2. row[d][p] = "held"
      BY <1>2, <3>1 DEF HeldUnder
    <3>3. QED
      BY <3>2, SoloParts DEF SentRows
  <2> HIDE DEF o
  <2>6. \A e \in Devices : e = d /\ proc'[e]["leased"] = o
    BY <1>0, <2>2 DEF Alone
  <2>7. Sent' = Sent
    BY <1>0 DEF Sent
  <2>8. SentRows' /\ RowsThere' /\ ReleaseFree' /\ MeltQuiet' /\ HeldForMelt'
    BY <2>1, <2>5, <2>6, <2>7, Zenon DEF SentRows, RowsThere, ReleaseFree, MeltQuiet, HeldForMelt, ReleaseSteps
  <2>9. IssuedIsSent'
    <3>1. q.status = "issued" => Sent
      BY <1>0, SoloParts DEF IssuedIsSent
    <3>2. QED
      BY <1>0, <2>1, <2>2, <2>7, <3>1, SoloParts DEF IssuedIsSent
  <2>10. OneTaker' /\ PendingHas' /\ NotPendingYet'
    <3>1. ~(\E p \in Proofs : mint[p] = "pending")
      BY <2>4, SoloParts DEF PendingHas
    <3>2. QED
      BY <1>0, <2>4, <3>1 DEF OneTaker, PendingHas, NotPendingYet, NoPayment
  <2>11. QED
    BY <2>8, <2>9, <2>10 DEF RowsInv
<1>3. QED
  BY <1>1, <1>2 DEF Check, Fresh

\* The token leaves.
LEMMA RowsIssue ==
    ASSUME Alone, SoloInv, NEW d \in Devices, Issue(d)
    PROVE  RowsInv'
<1> DEFINE q == proc[d]["leased"]
<1>1. \A e \in Devices, t \in Slots : proc'[e][t] = IF e = d /\ t = "leased" THEN Ended ELSE proc[e][t]
  BY SMT DEF Issue, Goto, Continue, SoloInv, IInv, TypeOK
<1>2. Ended.pc = "end" /\ Ended.melt = NoMelt /\ Ended.status = "absent"
  BY SMT DEF Ended
<1>3. /\ "leased" \in Slots /\ NoMelt \notin Melts /\ q.pc = "issue"
      /\ UNCHANGED <<mint, quote, wire, row, holder>> /\ Sent'
  BY LeasedIsSlot, NoMeltOutside DEF Issue, At, PutOp, storeVars, mintVars, Sent
<1>4. \A e \in Devices : e = d /\ proc'[e]["leased"] = Ended
  BY <1>1, <1>3 DEF Alone
<1>5. SentRows'
  BY <1>3, <1>4, SoloParts DEF SentRows
<1>6. IssuedIsSent'
  BY <1>3 DEF IssuedIsSent
<1>7. RowsThere' /\ ReleaseFree' /\ MeltQuiet' /\ HeldForMelt'
  BY <1>2, <1>3, <1>4, Zenon DEF RowsThere, ReleaseFree, MeltQuiet, HeldForMelt, ReleaseSteps
<1>8. OneTaker' /\ PendingHas'
  BY <1>3, SoloParts DEF OneTaker, PendingHas, NoPayment
<1>9. NotPendingYet'
  <2>1. "end" \notin BeforePayment
    BY DEF BeforePayment
  <2>2. QED
    BY <1>2, <1>3, <1>4, <2>1, SoloParts DEF NotPendingYet, NoPayment
<1>10. QED
  BY <1>5, <1>6, <1>7, <1>8, <1>9 DEF RowsInv

\* meltEnvelope goes from its record to holding the rows, and to the request.
LEMMA RowsRecord ==
    ASSUME Alone, SoloInv, NEW d \in Devices, Record(d) \/ Hold(d) \/ SendMelt(d)
    PROVE  RowsInv'
<1> DEFINE q == proc[d]["leased"]
<1>1. "leased" \in Slots /\ {"hold", "sendMelt", "meltWait"} \subseteq Steps
  BY LeasedIsSlot DEF Steps
<1>2. /\ q.pc \in {"record", "hold", "sendMelt"} /\ UNCHANGED <<mint, quote, sent, op>>
  BY DEF Record, Hold, SendMelt, PutMelt, PutRowsUnder, storeVars, mintVars, callVars, At
<1>3. q.melt \in Melts /\ ~Sent /\ NoPayment
  BY <1>2, SoloParts, LeasedMelt DEF IInv, MeltSteps, MeltQuiet, NotPendingYet, BeforePayment
<1>4. op'[d] = "issued" => Sent
  BY <1>2, SoloParts DEF IssuedIsSent
<1>5. ASSUME NEW x \in Steps
      PROVE  [q EXCEPT !.pc = x].pc = x /\ [q EXCEPT !.pc = x].melt = q.melt
  BY <1>1, SoloParts, IInvParts, ProcTyped, SetPc
<1>6. CASE Record(d)
  <2> DEFINE o == [q EXCEPT !.pc = "hold"]
  <2>1. UNCHANGED <<row, holder, wire>> /\ Goto(d, "leased", "hold")
    BY <1>6 DEF Record, PutMelt, mintVars
  <2>2. o.pc = "hold" /\ o.melt = q.melt
    BY <1>1, <1>5
  <2> HIDE DEF o
  <2>3. LeasedFits(d, o)
    BY <1>3, <2>2, Zenon DEF LeasedFits, ReleaseSteps
  <2>4. QED
    BY <1>1, <1>2, <1>4, <2>1, <2>3, MintStays, RowsStay, RowsGoto DEF o
<1>7. CASE Hold(d)
  <2> DEFINE o == [q EXCEPT !.pc = "sendMelt"]
  <2>1. UNCHANGED wire /\ Goto(d, "leased", "sendMelt") /\ q.pc = "hold"
    BY <1>7 DEF Hold, mintVars, At
  <2>2. o.pc = "sendMelt" /\ o.melt = q.melt
    BY <1>1, <1>5
  <2>3. \A e \in Devices, p \in Proofs :
          /\ row'[e][p] = IF e = d THEN "held" ELSE row[e][p]
          /\ holder'[e][p] = IF e = d THEN q.melt ELSE holder[e][p]
    BY <1>7, SMT DEF Hold, PutRowsUnder, AllHeld, MeltOf, SoloInv, IInv, TypeOK
  <2>4. \A e \in Devices : e = d
    BY DEF Alone
  <2>5. RowsFit
    BY <1>3, <2>1, <2>3, <2>4 DEF RowsFit, NoPayment
  <2> HIDE DEF o
  <2>6. LeasedFits(d, o)
    BY <1>3, <2>2, <2>3, Zenon DEF LeasedFits, ReleaseSteps
  <2>7. QED
    BY <1>1, <1>2, <1>4, <2>1, <2>5, <2>6, MintStays, RowsGoto DEF o
<1>8. CASE SendMelt(d)
  <2> DEFINE o == [q EXCEPT !.pc = "meltWait"]
  <2>1. UNCHANGED <<row, holder>> /\ Goto(d, "leased", "meltWait") /\ q.pc = "sendMelt"
    BY <1>8 DEF SendMelt, storeVars, At
  <2>2. o.pc = "meltWait" /\ o.melt = q.melt
    BY <1>1, <1>5
  <2>3. \A p \in Proofs : (row'[d][p] = "held" /\ holder'[d][p] = q.melt) \/ mint[p] = "spent"
    BY <2>1, SoloParts DEF HeldForMelt
  <2> HIDE DEF o
  <2>4. LeasedFits(d, o)
    BY <1>3, <2>2, <2>3, Zenon DEF LeasedFits, ReleaseSteps
  <2>5. QED
    BY <1>1, <1>2, <1>3, <1>4, <2>1, <2>4, MintStays, RowsStay, RowsGoto DEF o
<1>9. QED
  BY <1>6, <1>7, <1>8

\* The leased steps.
LEMMA RowsLeasedOnly ==
    ASSUME Alone, SoloInv, NEW d \in Devices, LeasedOnly(d)
    PROVE  RowsInv'
<1> DEFINE q == proc[d]["leased"]
<1>0. /\ "leased" \in Slots
      /\ {"end", "reprobe", "fundWait", "freeRows", "returned"} \cap Claims = {}
      /\ {"end", "reprobe", "fundWait", "freeRows", "returned", "swapWait"} \subseteq Steps
  BY LeasedIsSlot DEF Claims, ReleaseSteps, BeforePayment, Steps
<1>1. FitsAt(q, mint, quote)
  BY <1>0, SoloParts, ClearNow
<1>2. CASE FundFails(d)
  <2>1. UNCHANGED <<mint, quote, wire, sent, op, row, holder>> /\ Goto(d, "leased", "reprobe")
    BY <1>2 DEF FundFails, mintVars, storeVars, callVars
  <2>2. QED
    BY <1>0, <2>1, MintStays, RowsStay, RowsSteady
<1>3. CASE SendFund(d)
  <2>1. UNCHANGED <<mint, quote, sent, op, row, holder>> /\ Goto(d, "leased", "fundWait")
    BY <1>3 DEF SendFund, storeVars, callVars
  <2>2. \A r \in wire' : r.kind = "melt" => r \in wire
    BY <1>3, SMT DEF SendFund, Request
  <2>3. QED
    BY <1>0, <2>1, <2>2, MintStays, RowsStay, RowsSteady
<1>4. CASE SendSwap(d)
  <2>1. UNCHANGED <<mint, quote, sent, op, row, holder>> /\ Goto(d, "leased", "swapWait") /\ q.pc = "swap"
    BY <1>4 DEF SendSwap, storeVars, callVars, At
  <2>2. \A r \in wire' : r.kind = "melt" => r \in wire
    BY <1>4, SMT DEF SendSwap, Request
  <2>3. QED
    BY <1>0, <2>1, <2>2, MintStays, RowsStay, RowsSteady DEF ReleaseSteps
<1>5. CASE Book(d)
  <2>1. UNCHANGED <<mint, quote, wire, sent, op, row, holder>> /\ Goto(d, "leased", "freeRows")
    BY <1>5 DEF Book, mintVars, callVars
  <2>2. QED
    BY <1>0, <2>1, MintStays, RowsStay, RowsSteady
<1>6. CASE FreeRows(d)
  <2> DEFINE S == Stored(d, ReportedUnspent(d, "leased"))
  <2>1. UNCHANGED <<mint, quote, wire, sent, op>> /\ Goto(d, "leased", "returned") /\ q.pc = "freeRows"
    BY <1>6 DEF FreeRows, PutRows, mintVars, callVars, At
  <2>2. \A p \in Proofs : p \in S => mint[p] = "spent"
    BY <1>1, <2>1 DEF FitsAt, Fits, Stored, ReportedUnspent, Answers
  <2>3. PutRows(d, S, "spent")
    BY <1>6 DEF FreeRows
  <2> HIDE DEF S
  <2>4. QED
    BY <1>0, <2>1, <2>2, <2>3, SpentRowsFit, MintStays, RowsSteady
<1>7. CASE Returned(d)
  <2>1. UNCHANGED <<mint, quote, wire, sent, row, holder>> /\ Goto(d, "leased", "end")
    BY <1>7 DEF Returned, PutOp, mintVars, callVars
  <2>2. op'[d] = "returned"
    BY <1>7, SMT DEF Returned, PutOp, SoloInv, IInv, TypeOK
  <2>3. QED
    BY <1>0, <2>1, <2>2, MintStays, RowsStay, RowsSteady
<1>8. QED
  BY <1>2, <1>3, <1>4, <1>5, <1>6, <1>7, RowsHand, RowsIssue, RowsGuard, RowsCheck, RowsRecord
     DEF LeasedOnly

\* A crash claims nothing.
LEMMA RowsCrash ==
    ASSUME Alone, SoloInv, NEW d \in Devices, Crash(d)
    PROVE  RowsInv'
<1>1. \A e \in Devices, t \in Slots : proc'[e][t] = IF e = d THEN Ended ELSE proc[e][t]
  BY SMT DEF Crash, SoloInv, IInv, TypeOK
<1>2. Ended.pc = "end" /\ Ended.melt = NoMelt /\ Ended.status = "absent"
  BY SMT DEF Ended
<1>3. /\ "leased" \in Slots /\ NoMelt \notin Melts /\ wire' \subseteq wire
      /\ UNCHANGED <<mint, quote, row, holder, op, sent>>
  BY LeasedIsSlot, NoMeltOutside DEF Crash, Abandon, storeVars
<1>4. \A e \in Devices, t \in Slots : proc'[e][t] = Ended
  BY <1>1 DEF Alone
<1>5. SentRows'
  BY <1>2, <1>3, <1>4, SoloParts DEF SentRows, Sent
<1>6. IssuedIsSent'
  BY <1>2, <1>3, <1>4, SoloParts DEF IssuedIsSent, Sent
<1>7. RowsThere' /\ ReleaseFree' /\ MeltQuiet' /\ HeldForMelt'
  BY <1>2, <1>3, <1>4, Zenon DEF RowsThere, ReleaseFree, MeltQuiet, HeldForMelt, ReleaseSteps
<1>8. OneTaker' /\ PendingHas'
  BY <1>3, SoloParts DEF OneTaker, PendingHas, NoPayment
<1>9. NotPendingYet'
  <2>1. "end" \notin BeforePayment
    BY DEF BeforePayment
  <2>2. QED
    BY <1>2, <1>3, <1>4, <2>1, SoloParts DEF NotPendingYet, NoPayment
<1>10. QED
  BY <1>5, <1>6, <1>7, <1>8, <1>9 DEF RowsInv

\* Every step of the device.
LEMMA RowsDevice ==
    ASSUME Alone, NoResume, SoloInv, NEW d \in Devices, Device(d)
    PROVE  RowsInv'
<1>0. "leased" \in Slots /\ {"end", "reprobe", "askQuote"} \cap Claims = {}
      /\ {"end", "reprobe", "askQuote"} \subseteq Steps
  BY LeasedIsSlot DEF Claims, ReleaseSteps, BeforePayment, Steps
<1>1. ASSUME NEW task \in Tasks[d], Start(d, task)
      PROVE  RowsInv'
  <2> DEFINE o == [Ended EXCEPT !.task = task, !.pc = "load", !.next = LoadedStep(task)]
  <2>1. o.pc = "load" /\ o.melt = NoMelt /\ o.status = "absent"
    BY SMT DEF Ended
  <2>2. SlotOf(task) \in Slots
    BY SlotOfTyped
  <2>3. UNCHANGED <<mint, quote, wire, sent, op, row, holder>> /\ Continue(d, SlotOf(task), o)
    BY <1>1 DEF Start, mintVars, storeVars, callVars
  <2> HIDE DEF o
  <2>4. LeasedFits(d, o)
    BY <2>1, NoMeltOutside, Zenon DEF LeasedFits, ReleaseSteps, BeforePayment
  <2>5. op'[d] = "issued" => Sent
    BY <2>3, SoloParts DEF IssuedIsSent
  <2>6. QED
    BY <2>1, <2>2, <2>3, <2>4, <2>5, MintStays, RowsStay, RowsMove
<1>2. ASSUME NEW m \in Melts, StartResume(d, m) \/ StartLate(d, m)
      PROVE  RowsInv'
  BY <1>2 DEF NoResume, StartResume, StartLate
<1>3. ASSUME NEW s \in Slots, Fail(d, s)
      PROVE  RowsInv'
  <2>1. UNCHANGED <<mint, quote, wire, sent, op, row, holder>> /\ Goto(d, s, "end")
    BY <1>3 DEF Fail, mintVars, storeVars, callVars
  <2>2. QED
    BY <1>0, <2>1, MintStays, RowsStay, RowsSteady
<1>4. CASE GiveUp(d)
  <2>1. UNCHANGED <<mint, quote, sent, op, row, holder>> /\ wire' \subseteq wire
    BY <1>4 DEF GiveUp, Abandon, storeVars, callVars
  <2>2. \E x \in {"end", "reprobe", "askQuote"} : Goto(d, "leased", x)
    BY <1>4 DEF GiveUp, LostStep
  <2>3. QED
    BY <1>0, <2>1, <2>2, MintStays, RowsStay, RowsSteady
<1>5. CASE Sync(d)
  <2>1. newest.op \subseteq Devices /\ \A p \in Proofs : newest.row[p] \subseteq Devices /\ newest.holder[p] \subseteq Devices
    BY SoloParts, SMT DEF TypeOK
  <2>2. \A m \in Melts : newest.melt[m] \subseteq Devices
    BY SoloParts, SMT DEF TypeOK
  <2>3. QED
    BY <1>5, <2>1, <2>2 DEF Alone, Sync, SyncOp, SyncRow, SyncHolder, SyncMelt
<1>6. QED
  BY <1>1, <1>2, <1>3, <1>4, <1>5, RowsShared, RowsLeasedOnly, RowsCrash DEF Device

\* The mint signs the envelope, or swaps what release asks for: no payment is touched.
LEMMA RowsMintSwap ==
    ASSUME Alone, SoloInv, NEW r \in wire, MintSign(r) \/ MintSwap(r)
    PROVE  RowsInv'
<1>0. /\ "leased" \in Slots /\ {"store", "reprobe", "book", "end"} \cap Claims = {}
      /\ {"store", "reprobe", "book", "end"} \subseteq Steps
  BY LeasedIsSlot DEF Claims, ReleaseSteps, BeforePayment, Steps
<1>1. /\ UNCHANGED <<quote, sent, op, row, holder>> /\ wire' = wire \ {r}
      /\ r.from \in Devices /\ Awaited(r)
  BY SoloParts, OneRequest DEF MintSign, MintSwap, storeVars, callVars
<1>2. MintFits
  <2>1. CASE MintSign(r)
    BY <1>1, <2>1, Zenon DEF MintFits, MintSign
  <2>2. CASE MintSwap(r)
    <3>1. CASE UNCHANGED mint
      BY <1>1, <3>1 DEF MintFits
    <3>2. CASE (\A p \in r.proofs : mint[p] = "unspent") /\ Spend(r.proofs, "balance")
      <4>1. \A p \in Proofs : mint'[p] = IF p \in r.proofs THEN "spent" ELSE mint[p]
        BY <3>2 DEF Spend
      <4>2. QED
        BY <1>1, <3>2, <4>1 DEF MintFits
    <3>3. QED
      BY <2>2, <3>1, <3>2 DEF MintSwap
  <2>3. QED
    BY <2>1, <2>2
<1>3. \E x \in {"store", "reprobe", "book", "end"} : Goto(r.from, "leased", x)
  <2>1. CASE MintSign(r)
    <3>1. r.kind = "fund" /\ (Answer(r, "store") \/ Answer(r, "reprobe"))
      BY <2>1 DEF MintSign
    <3>2. QED
      BY <1>1, <3>1, SMT DEF Answer, LostStep, WaitStep
  <2>2. CASE MintSwap(r)
    <3>1. r.kind = "swap" /\ (Answer(r, "book") \/ Answer(r, "end"))
      BY <2>2 DEF MintSwap
    <3>2. QED
      BY <1>1, <3>1, SMT DEF Answer, LostStep, WaitStep
  <2>3. QED
    BY <2>1, <2>2
<1>4. QED
  BY <1>0, <1>1, <1>2, <1>3, RowsStay, RowsSteady

\* The request for a payment finds the whole envelope under it.
LEMMA MeltFinds ==
    ASSUME Alone, SoloInv, NEW r \in wire, r.kind = "melt"
    PROVE  /\ r.from \in Devices /\ r.melt \in Melts /\ r.proofs = Proofs
           /\ Awaited(r) /\ quote[r.melt] = "UNPAID"
           /\ proc[r.from]["leased"].pc = "meltWait" /\ proc[r.from]["leased"].melt = r.melt
           /\ ~Sent /\ NoPayment /\ wire = {r}
<1>1. /\ r.from \in Devices /\ Awaited(r) /\ r.melt \in Melts
      /\ Waited(r, proc[r.from]["leased"], quote)
      /\ \A r2 \in wire : r2.from \in Devices /\ (r2.from = r.from => r2 = r)
  BY SoloParts, OneRequest
<1>2. /\ proc[r.from]["leased"].pc = "meltWait" /\ proc[r.from]["leased"].melt = r.melt
      /\ r.proofs = Proofs /\ quote[r.melt] = "UNPAID"
  BY <1>1, SMT DEF Waited, WaitStep
<1>3. ~Sent /\ NoPayment
  BY <1>1, <1>2, SoloParts DEF MeltQuiet, NotPendingYet
<1>4. wire = {r}
  BY <1>1 DEF Alone
<1>5. QED
  BY <1>1, <1>2, <1>3, <1>4

\* What the mint does with the request.
LEMMA MeltAnswered ==
    ASSUME NEW r, MintMelt(r)
    PROVE  \/ AnswerRejected(r) /\ UNCHANGED <<mint, quote>>
           \/ /\ \A p \in r.proofs : mint[p] = "unspent"
              /\ quote' = [quote EXCEPT ![r.melt] = "PENDING"]
              /\ mint' = [p \in Proofs |-> IF p \in r.proofs THEN "pending" ELSE mint[p]]
              /\ Answer(r, "askQuote")
<1> DEFINE taken == quote[r.melt] = "UNPAID" /\ \A p \in r.proofs : mint[p] = "unspent"
<1>1. CASE taken
  BY <1>1 DEF MintMelt
<1>2. CASE ~taken
  BY <1>2 DEF MintMelt
<1>3. QED
  BY <1>1, <1>2

\* The mint takes the whole envelope for one payment, or rejects it.
LEMMA RowsMintMelt ==
    ASSUME Alone, SoloInv, NEW r \in wire, MintMelt(r)
    PROVE  RowsInv'
<1> DEFINE d == r.from
           q == proc[d]["leased"]
           o == [q EXCEPT !.pc = "giveBack", !.status = "failed"]
<1>0. /\ "leased" \in Slots /\ {"askQuote", "giveBack"} \cap Claims = {}
      /\ "askQuote" \in Steps
  BY LeasedIsSlot DEF Claims, ReleaseSteps, BeforePayment, Steps
<1>1. /\ r.kind = "melt" /\ wire' = wire \ {r}
      /\ UNCHANGED <<sent, op, row, holder>>
  BY DEF MintMelt, storeVars, callVars
<1>2. /\ d \in Devices /\ r.melt \in Melts /\ r.proofs = Proofs /\ Awaited(r)
      /\ q.pc = "meltWait" /\ q.melt = r.melt /\ ~Sent /\ NoPayment /\ wire = {r}
  BY <1>1, MeltFinds
<1>3. q \in Operations
  BY <1>0, <1>2, SoloParts, IInvParts, ProcTyped
<1>4. CASE UNCHANGED <<mint, quote>> /\ AnswerRejected(r)
  <2>1. o.pc = "giveBack" /\ o.melt = q.melt /\ o.status = "failed"
    BY <1>3, SMT DEF Operations
  <2>2. Continue(d, "leased", o) \/ Goto(d, "leased", "askQuote")
    BY <1>2, <1>4, Zenon DEF AnswerRejected
  <2> HIDE DEF o
  <2>3. QED
    BY <1>0, <1>1, <1>2, <1>4, <2>1, <2>2, MintStays, RowsStay, RowsMelting, RowsSteady
<1>5. CASE /\ \A p \in r.proofs : mint[p] = "unspent"
           /\ quote' = [quote EXCEPT ![r.melt] = "PENDING"]
           /\ mint' = [p \in Proofs |-> IF p \in r.proofs THEN "pending" ELSE mint[p]]
           /\ Answer(r, "askQuote")
  <2> DEFINE a == [q EXCEPT !.pc = "askQuote"]
  <2>1. a.pc = "askQuote" /\ a.melt = r.melt /\ a.status = q.status
    BY <1>0, <1>2, SoloParts, IInvParts, ProcTyped, SetPc
  <2>2. Goto(d, "leased", "askQuote")
    BY <1>1, <1>2, <1>5, SMT DEF Answer, LostStep, WaitStep
  <2>3. Continue(d, "leased", a)
    BY <2>2 DEF Goto
  <2>4. \A e \in Devices, t \in Slots : proc'[e][t] = IF e = d /\ t = "leased" THEN a ELSE proc[e][t]
    BY <2>3, SMT DEF SoloInv, IInv, TypeOK, Continue
  <2>5. /\ \A n \in Melts : quote'[n] = IF n = r.melt THEN "PENDING" ELSE quote[n]
        /\ \A p \in Proofs : mint[p] = "unspent" /\ mint'[p] = "pending"
    BY <1>2, <1>5, SMT DEF SoloInv, IInv, TypeOK
  <2> HIDE DEF a
  <2>6. \A e \in Devices : e = d /\ proc'[e]["leased"] = a
    BY <1>0, <1>2, <2>4 DEF Alone
  <2>7. ~Sent'
    BY <1>1, <1>2 DEF Sent
  <2>8. a.pc \notin {"issue", "hand", "sendMelt", "meltWait"} \cup ReleaseSteps \cup BeforePayment
    BY <2>1 DEF ReleaseSteps, BeforePayment
  <2>9. SentRows' /\ RowsThere' /\ ReleaseFree' /\ MeltQuiet' /\ HeldForMelt'
    BY <2>6, <2>7, <2>8 DEF SentRows, RowsThere, ReleaseFree, MeltQuiet, HeldForMelt
  <2>10. IssuedIsSent'
    <3>1. q.status = "issued" => Sent
      BY <1>0, <1>2, SoloParts DEF IssuedIsSent
    <3>2. QED
      BY <1>1, <1>2, <2>1, <2>4, <3>1, SoloParts DEF IssuedIsSent
  <2>11. OneTaker'
    <3>1. \A p \in Proofs : row[d][p] = "held" /\ holder[d][p] = r.melt
      BY <1>2, <2>5, SoloParts DEF HeldForMelt
    <3>2. \A n \in Melts : quote'[n] = "PENDING" => n = r.melt
      BY <1>2, <2>5 DEF NoPayment
    <3>3. QED
      BY <1>1, <2>5, <2>6, <3>1, <3>2 DEF OneTaker
  <2>12. PendingHas' /\ NotPendingYet'
    <3>1. ~NoPayment'
      BY <1>2, <2>5 DEF NoPayment
    <3>2. \A r2 \in wire' : FALSE
      BY <1>1, <1>2
    <3>3. QED
      BY <2>6, <2>8, <3>1, <3>2 DEF PendingHas, NotPendingYet
  <2>13. QED
    BY <2>9, <2>10, <2>11, <2>12 DEF RowsInv
<1>6. \/ AnswerRejected(r) /\ UNCHANGED <<mint, quote>>
      \/ /\ \A p \in r.proofs : mint[p] = "unspent"
         /\ quote' = [quote EXCEPT ![r.melt] = "PENDING"]
         /\ mint' = [p \in Proofs |-> IF p \in r.proofs THEN "pending" ELSE mint[p]]
         /\ Answer(r, "askQuote")
  BY MeltAnswered
<1> HIDE DEF o
<1>7. QED
  BY <1>4, <1>5, <1>6

\* A payment ends, and nothing is under way any more.
LEMMA SettledMint ==
    ASSUME SoloInv, NEW m \in Melts, MintSettles(m)
    PROVE  /\ \A p \in Proofs : mint[p] = "pending"
           /\ (\A p \in Proofs : mint'[p] = "spent" /\ wentTo'[p] = "invoice")
              \/ (\A p \in Proofs : mint'[p] = "unspent")
           /\ NoPayment' /\ UNCHANGED <<wire, proc, op, row, holder, sent>>
<1>1. quote[m] = "PENDING" /\ UNCHANGED <<wire, proc, op, row, holder, sent>>
  BY DEF MintSettles, storeVars, callVars
<1>2. /\ \A p \in Proofs : mint[p] = "pending"
      /\ \A n \in Melts : quote[n] = "PENDING" => n = m
  BY <1>1, SoloParts DEF OneTaker
<1>3. quote'[m] \in {"PAID", "UNPAID"} /\ \A n \in Melts : n # m => quote'[n] = quote[n]
  BY SMT DEF MintSettles, SoloInv, IInv, TypeOK
<1>4. \/ Spend(Proofs, "invoice")
      \/ mint' = [p \in Proofs |-> IF mint[p] = "pending" THEN "unspent" ELSE mint[p]]
  BY Zenon DEF MintSettles
<1>5. QED
  BY <1>1, <1>2, <1>3, <1>4 DEF NoPayment, Spend

\* Then nothing is claimed of it either.
LEMMA RowsSettles ==
    ASSUME SoloInv, NEW m \in Melts, MintSettles(m)
    PROVE  RowsInv'
<1>1. /\ \A p \in Proofs : mint[p] = "pending" /\ mint'[p] \in {"spent", "unspent"}
      /\ NoPayment' /\ UNCHANGED <<wire, proc, op, row, holder, sent>>
  BY SettledMint
<1>2. PICK p \in Proofs : TRUE
  BY EnvelopeAssumption
<1>3. ~AllSpent
  BY <1>1, <1>2 DEF AllSpent
<1>4. SentRows' /\ IssuedIsSent' /\ RowsThere' /\ MeltQuiet' /\ ReleaseFree'
  BY <1>1, <1>3, SoloParts DEF SentRows, IssuedIsSent, RowsThere, MeltQuiet, ReleaseFree, Sent
<1>5. OneTaker' /\ PendingHas' /\ NotPendingYet'
  BY <1>1 DEF OneTaker, PendingHas, NotPendingYet, NoPayment
<1>6. HeldForMelt'
  BY <1>1, SoloParts DEF HeldForMelt
<1>7. QED
  BY <1>4, <1>5, <1>6 DEF RowsInv

\* The recipient takes a proof.
LEMMA RowsRedeem ==
    ASSUME SoloInv, NEW p \in Proofs, Redeem(p)
    PROVE  RowsInv'
<1>1. /\ UNCHANGED <<quote, wire, proc, op, row, holder, sent>> /\ mint[p] = "unspent"
      /\ \A x \in Proofs : mint'[x] = IF x = p THEN "spent" ELSE mint[x]
  BY DEF Redeem, Spend, storeVars, callVars
<1>2. SentRows' /\ IssuedIsSent' /\ RowsThere' /\ MeltQuiet'
  BY <1>1, SoloParts DEF SentRows, IssuedIsSent, RowsThere, MeltQuiet, Sent
<1>3. ReleaseFree'
  BY <1>1, SoloParts DEF ReleaseFree, AllSpent, Sent
<1>4. OneTaker' /\ PendingHas' /\ NotPendingYet'
  BY <1>1, SoloParts DEF OneTaker, PendingHas, NotPendingYet, NoPayment
<1>5. HeldForMelt'
  BY <1>1, SoloParts DEF HeldForMelt
<1>6. QED
  BY <1>2, <1>3, <1>4, <1>5 DEF RowsInv

\* At first nothing is out or under way.
LEMMA InitRows == Init => RowsInv
<1> SUFFICES ASSUME Init PROVE RowsInv
  OBVIOUS
<1>1. \A d \in Devices, s \in Slots : proc[d][s] = Ended
  BY DEF Init
<1>2. "leased" \in Slots /\ NoMelt \notin Melts
  BY LeasedIsSlot, NoMeltOutside
<1>3. Ended.pc = "end" /\ Ended.melt = NoMelt /\ Ended.status = "absent"
  BY SMT DEF Ended
<1>4. /\ ~Sent /\ NoPayment /\ wire = {}
      /\ \A d \in Devices : op[d] = "absent"
      /\ \A p \in Proofs : mint[p] = "unsigned"
  BY DEF Init, Sent, NoPayment
<1>5. SentRows /\ RowsThere /\ ReleaseFree /\ MeltQuiet /\ HeldForMelt
  BY <1>1, <1>2, <1>3, <1>4, Zenon DEF SentRows, RowsThere, ReleaseFree, MeltQuiet, HeldForMelt, ReleaseSteps
<1>6. IssuedIsSent /\ OneTaker /\ PendingHas /\ NotPendingYet
  BY <1>1, <1>3, <1>4 DEF IssuedIsSent, OneTaker, PendingHas, NotPendingYet, NoPayment
<1>7. QED
  BY <1>5, <1>6 DEF RowsInv

\* Every step keeps them.
LEMMA RowsInvStep ==
    ASSUME Alone, NoResume, SoloInv, [Next]_vars
    PROVE  RowsInv'
<1>1. CASE UNCHANGED vars
  BY <1>1, SoloParts DEF vars, mintVars, storeVars, callVars, RowsInv, SentRows, IssuedIsSent,
     RowsThere, ReleaseFree, MeltQuiet, OneTaker, PendingHas, HeldForMelt, NotPendingYet,
     NoPayment, Sent, AllSpent
<1>2. QED
  BY <1>1, RowsDevice, RowsMintSwap, RowsMintMelt, RowsSettles, RowsRedeem DEF Next, Mint

\* On one device, with a mint that sees no request late and no resumePending beside
\* meltEnvelope: the rows say which token is out and which payment is under way, so that
\* no operation hands out, takes back or pays away what another one has.
THEOREM RowsInvariant ==
    ASSUME Prompt, NoResume, Alone
    PROVE  Spec => []SoloInv
<1>1. Init => SoloInv
  BY InitIInv, InitMelt, InitRows DEF SoloInv
<1>2. SoloInv /\ IInv' /\ [Next]_vars => SoloInv'
  BY MeltInvStep, RowsInvStep DEF SoloInv
<1>3. QED
  BY <1>1, <1>2, EnvelopeInvariant, PTL DEF Spec

-----------------------------------------------------------------------------
(* The refinement: every step is one of PayOnce's, or changes nothing that *)
(* PayOnce sees.                                                           *)

Placed == [p \in Proofs |-> Place(p)]

\* Steps that leave the mint and the caller alone are no steps of PayOnce.
LEMMA PlacesStay ==
    ASSUME UNCHANGED <<mint, wentTo, sent>>
    PROVE  UNCHANGED Promise!vars
  BY DEF Promise!vars, Place

\* The place of a proof, before and after a step.
LEMMA PlaceOf ==
    ASSUME NEW p
    PROVE  /\ mint[p] \in {"unspent", "spent"} => Place(p) \in {"reserved", "returned", "paid"}
           /\ mint'[p] = "spent" /\ wentTo'[p] = "balance" => Place(p)' = "returned"
           /\ mint'[p] = "spent" /\ wentTo'[p] = "recipient" => Place(p)' = "paid"
           /\ mint'[p] = mint[p] /\ wentTo'[p] = wentTo[p] => Place(p)' = Place(p)
<1>1. mint[p] = "unspent" => Place(p) = "reserved"
  BY DEF Place
<1>2. mint[p] = "spent" => Place(p) = IF wentTo[p] = "balance" THEN "returned" ELSE "paid"
  BY DEF Place
<1>3. mint'[p] = "spent" => Place(p)' = IF wentTo'[p] = "balance" THEN "returned" ELSE "paid"
  BY DEF Place
<1>4. mint'[p] = mint[p] /\ wentTo'[p] = wentTo[p] => Place(p)' = Place(p)
  BY DEF Place
<1>5. QED
  BY <1>1, <1>2, <1>3, <1>4

\* A device's steps leave the mint alone, and all but one the caller.
LEMMA DeviceQuiet ==
    ASSUME NEW d \in Devices, Device(d)
    PROVE  UNCHANGED <<mint, wentTo>> /\ (UNCHANGED sent \/ Issue(d))
<1>1. ASSUME NEW s \in Slots, Shared(d, s) \/ Fail(d, s)
      PROVE  UNCHANGED <<mint, wentTo, sent>>
  BY <1>1 DEF Shared, Fail, Load, LoadNothing, Probe, StoreOperation, StoreRows, Ask, MarkSpent,
     Close, AskQuote, PaidRows, PaidOp, PaidMelt, GiveBack, CloseMelt, mintVars, callVars
<1>2. ASSUME LeasedOnly(d)
      PROVE  UNCHANGED <<mint, wentTo>> /\ (UNCHANGED sent \/ Issue(d))
  BY <1>2 DEF LeasedOnly, FundFails, SendFund, Hand, Issue, Guard, SendSwap, Book, FreeRows,
     Returned, Check, Record, Hold, SendMelt, mintVars, callVars
<1>3. ASSUME GiveUp(d) \/ Crash(d) \/ Sync(d)
      PROVE  UNCHANGED <<mint, wentTo, sent>>
  BY <1>3 DEF GiveUp, Crash, Sync, SyncOp, SyncRow, SyncHolder, SyncMelt, mintVars, callVars
<1>4. ASSUME NEW task \in Tasks[d], Start(d, task)
      PROVE  UNCHANGED <<mint, wentTo, sent>>
  BY <1>4 DEF Start, mintVars, callVars
<1>5. ASSUME NEW m \in Melts, StartResume(d, m) \/ StartLate(d, m)
      PROVE  UNCHANGED <<mint, wentTo, sent>>
  BY <1>5 DEF StartResume, StartLate, mintVars, callVars
<1>6. QED
  BY <1>1, <1>2, <1>3, <1>4, <1>5 DEF Device

\* A token leaves with no payment under way.
LEMMA IssuePaysOnce ==
    ASSUME SoloInv, NEW d \in Devices, Issue(d)
    PROVE  Promise!HandOut
<1>1. proc[d]["leased"].pc = "issue" /\ UNCHANGED <<mint, wentTo>> /\ sent' = sent \cup {d}
  BY DEF Issue, At, mintVars
<1>2. Funded
  <2>1. "issue" \notin NothingLearned
    BY DEF NothingLearned
  <2>2. QED
    BY <1>1, <2>1, SoloParts, FundedAt, LeasedIsSlot
<1>3. \A p \in Proofs : mint[p] # "pending"
  BY <1>1, SoloParts DEF NotPendingYet, BeforePayment, PendingHas
<1>4. \A p \in Proofs : Place(p) \notin {"nowhere", "inflight"}
  <2>1. \A p \in Proofs : mint[p] \in {"unspent", "spent"}
    BY <1>2, <1>3, SoloParts DEF Funded, TypeOK, ProofStates
  <2>2. QED
    BY <2>1, PlaceOf
<1>5. (sent # {})' /\ UNCHANGED Placed
  BY <1>1 DEF Placed, Place
<1>6. QED
  BY <1>4, <1>5 DEF Promise!HandOut, Placed

\* The mint signs the envelope.
LEMMA SignPaysOnce ==
    ASSUME SoloInv, NEW r \in wire, MintSign(r)
    PROVE  Promise!Fund \/ UNCHANGED Promise!vars
<1>1. UNCHANGED <<wentTo, sent>>
  BY DEF MintSign, callVars
<1>2. CASE UNCHANGED mint
  BY <1>1, <1>2, PlacesStay
<1>3. CASE (\A p \in Proofs : mint[p] = "unsigned") /\ mint' = [p \in Proofs |-> "unspent"]
  <2>1. \A p \in Proofs : Place(p) = "nowhere" /\ Place(p)' = "reserved"
    BY <1>3 DEF Place
  <2>2. Promise!Move(Proofs, "nowhere", "reserved")
    BY <2>1 DEF Promise!Move, Place
  <2>3. QED
    BY <1>1, <2>2 DEF Promise!Fund
<1>4. QED
  BY <1>2, <1>3 DEF MintSign

\* The mint swaps what release takes back.
LEMMA SwapPaysOnce ==
    ASSUME SoloInv, NEW r \in wire, MintSwap(r)
    PROVE  Promise!Return \/ UNCHANGED Promise!vars
<1>1. UNCHANGED sent
  BY DEF MintSwap, callVars
<1>2. CASE UNCHANGED <<mint, wentTo>>
  BY <1>1, <1>2, PlacesStay
<1>3. CASE (\A p \in r.proofs : mint[p] = "unspent") /\ Spend(r.proofs, "balance")
  <2>1. \A p \in Proofs : /\ mint'[p] = IF p \in r.proofs THEN "spent" ELSE mint[p]
                          /\ wentTo'[p] = IF p \in r.proofs THEN "balance" ELSE wentTo[p]
    BY <1>3 DEF Spend
  <2>2. r.proofs \subseteq Proofs /\ r.from \in Devices /\ proc[r.from]["leased"].pc = "swapWait"
    <3>1. r \in Requests /\ r.kind = "swap"
      BY SoloParts DEF TypeOK, MintSwap
    <3>2. r.proofs \in SUBSET Proofs
      BY <3>1, SMT DEF Requests
    <3>3. r.from \in Devices /\ Waited(r, proc[r.from]["leased"], quote)
      BY SoloParts, OneRequest
    <3>4. QED
      BY <3>1, <3>2, <3>3 DEF Waited, WaitStep
  <2>3. CASE r.proofs = {}
    <3>1. \A p \in Proofs : Place(p)' = Place(p)
      BY <2>1, <2>3 DEF Place
    <3>2. QED
      BY <1>1, <3>1 DEF Promise!vars
  <2>4. CASE r.proofs # {}
    <3>1. ~Sent
      <4>1. ~AllSpent
        BY <1>3, <2>2, <2>4 DEF AllSpent
      <4>2. QED
        BY <2>2, <4>1, SoloParts DEF ReleaseFree, ReleaseSteps
    <3>2. \A p \in r.proofs : p \in Proofs /\ Place(p) = "reserved"
      BY <1>3, <2>2 DEF Place
    <3>3. \A p \in Proofs : Place(p)' = IF p \in r.proofs THEN "returned" ELSE Place(p)
      BY <2>1, PlaceOf
    <3>4. Promise!Move(r.proofs, "reserved", "returned")
      BY <3>2, <3>3 DEF Promise!Move
    <3>5. QED
      BY <1>1, <2>2, <3>1, <3>4 DEF Promise!Return, Sent
  <2>5. QED
    BY <2>3, <2>4
<1>4. QED
  BY <1>2, <1>3 DEF MintSwap

\* The mint takes the envelope for a payment.
LEMMA MeltPaysOnce ==
    ASSUME Alone, SoloInv, NEW r \in wire, MintMelt(r)
    PROVE  Promise!Dispatch \/ UNCHANGED Promise!vars
<1>1. r.kind = "melt" /\ UNCHANGED <<wentTo, sent>>
  BY DEF MintMelt, callVars
<1>2. r.proofs = Proofs /\ ~Sent
  BY <1>1, MeltFinds
<1>3. CASE UNCHANGED mint
  BY <1>1, <1>3, PlacesStay
<1>4. CASE /\ \A p \in r.proofs : mint[p] = "unspent"
           /\ mint' = [p \in Proofs |-> IF p \in r.proofs THEN "pending" ELSE mint[p]]
  <2>1. \A p \in Proofs : Place(p) = "reserved" /\ Place(p)' = "inflight"
    BY <1>2, <1>4 DEF Place
  <2>2. Promise!Move(Proofs, "reserved", "inflight")
    BY <2>1 DEF Promise!Move, Place
  <2>3. QED
    BY <1>1, <1>2, <2>2 DEF Promise!Dispatch, Sent
<1>5. QED
  BY <1>3, <1>4, MeltAnswered

\* A payment is made, or frees its proofs.
LEMMA SettlePaysOnce ==
    ASSUME SoloInv, NEW m \in Melts, MintSettles(m)
    PROVE  Promise!Settle
<1>1. UNCHANGED sent /\ \A p \in Proofs : Place(p) = "inflight"
  BY SettledMint DEF Place
<1>2. (\A p \in Proofs : Place(p)' = "paid") \/ (\A p \in Proofs : Place(p)' = "reserved")
  <2>1. CASE \A p \in Proofs : mint'[p] = "spent" /\ wentTo'[p] = "invoice"
    BY <2>1 DEF Place
  <2>2. CASE \A p \in Proofs : mint'[p] = "unspent"
    BY <1>1, <2>2 DEF Place
  <2>3. QED
    BY <2>1, <2>2, SettledMint
<1>3. Promise!Move(Proofs, "inflight", "paid") \/ Promise!Move(Proofs, "inflight", "reserved")
  <2>1. CASE \A p \in Proofs : Place(p)' = "paid"
    BY <1>1, <2>1 DEF Promise!Move
  <2>2. CASE \A p \in Proofs : Place(p)' = "reserved"
    BY <1>1, <2>2 DEF Promise!Move
  <2>3. QED
    BY <1>2, <2>1, <2>2
<1>4. QED
  BY <1>1, <1>3 DEF Promise!Settle

\* A recipient redeems a proof of a token that is out.
LEMMA RedeemPaysOnce ==
    ASSUME NEW p \in Proofs, Redeem(p)
    PROVE  Promise!Redeem
<1>1. /\ sent # {} /\ mint[p] = "unspent" /\ UNCHANGED sent
      /\ \A x \in Proofs : /\ mint'[x] = IF x = p THEN "spent" ELSE mint[x]
                           /\ wentTo'[x] = IF x = p THEN "recipient" ELSE wentTo[x]
  BY DEF Redeem, Spend, callVars
<1>2. /\ \A x \in {p} : x \in Proofs /\ Place(x) = "reserved"
      /\ \A x \in Proofs : Place(x)' = IF x \in {p} THEN "paid" ELSE Place(x)
  <2>1. Place(p) = "reserved"
    BY <1>1 DEF Place
  <2>2. QED
    BY <1>1, <2>1, PlaceOf
<1>3. Promise!Move({p}, "reserved", "paid")
  BY <1>2 DEF Promise!Move
<1>4. QED
  BY <1>1, <1>3 DEF Promise!Redeem

\* Every step is one of PayOnce, or none.
LEMMA StepPaysOnce ==
    ASSUME Alone, SoloInv, [Next]_vars
    PROVE  [Promise!Next]_Promise!vars
<1>1. CASE UNCHANGED vars
  BY <1>1, PlacesStay DEF vars, mintVars, callVars
<1>2. ASSUME NEW d \in Devices, Device(d)
      PROVE  Promise!HandOut \/ UNCHANGED Promise!vars
  BY <1>2, DeviceQuiet, IssuePaysOnce, PlacesStay
<1>3. CASE Mint
  BY <1>3, SignPaysOnce, SwapPaysOnce, MeltPaysOnce, SettlePaysOnce, RedeemPaysOnce
     DEF Mint, Promise!Next
<1>4. QED
  BY <1>1, <1>2, <1>3 DEF Next, Promise!Next

\* On one device, with a mint that sees no request late and no resumePending beside
\* meltEnvelope, an envelope implements PayOnce: one key pays at most once, and a token
\* handed out is never taken back or paid away (envelope.md on `release` and `send`).
THEOREM EnvelopePaysOnce ==
    ASSUME Prompt, NoResume, Alone
    PROVE  Spec => PaysOnce
<1>1. Init => Promise!Init
  BY DEF Init, Promise!Init, Place
<1>2. SoloInv /\ [Next]_vars => [Promise!Next]_Promise!vars
  BY StepPaysOnce
<1>3. QED
  BY <1>1, <1>2, RowsInvariant, PTL DEF Spec, PaysOnce, Promise!Spec

=============================================================================
