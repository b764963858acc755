-------------------------- MODULE Envelope_proofs --------------------------
(***************************************************************************)
(* Envelope's safety for any constants.  ClosedIsSpent is not inductive:   *)
(* an operation writes a row spent on what it learned some steps ago.      *)
(* Knowledge says that this is still so, because the mint only grows: a    *)
(* spent proof stays spent, a funded key stays funded, a paid quote stays  *)
(* paid (Grows).  The invariant is TypeOK, Knowledge and ClosedIsSpent;    *)
(* per action, one lemma shows that the latter two survive it.             *)
(*                                                                         *)
(* The first part shows that each action keeps the types, from facts about *)
(* the records that Envelope builds.  The lemmas on actions that write     *)
(* under a melt also need Knowledge: only an operation that has a melt     *)
(* gets to them.                                                           *)
(***************************************************************************)
EXTENDS Envelope, TLAPS

-----------------------------------------------------------------------------
(* The types                                                               *)

\* TypeOK in four parts, so that a step need not reprove what it leaves alone.
MintOK ==
    /\ mint \in [Proofs -> ProofStates]
    /\ quote \in [Melts -> QuoteStates]
    /\ wentTo \in [Proofs -> Payees]
    /\ wire \subseteq Requests
StoreOK ==
    /\ op \in [Devices -> OpStatus]
    /\ row \in [Devices -> [Proofs -> RowStates]]
    /\ holder \in [Devices -> [Proofs -> Holders]]
    /\ melt \in [Devices -> [Melts -> MeltStatus]]
    /\ newest \in [op : SUBSET Devices, row : [Proofs -> SUBSET Devices],
                   holder : [Proofs -> SUBSET Devices],
                   melt : [Melts -> SUBSET Devices]]
    /\ booked \subseteq Proofs
ProcOK == proc \in [Devices -> [Slots -> Operations]]
CallOK == sent \subseteq Devices /\ crashes \in 0..MaxCrashes

\* The type invariant is its four parts: mint, stores, operations, callers.
LEMMA Parts == TypeOK <=> MintOK /\ StoreOK /\ ProcOK /\ CallOK
  BY DEF TypeOK, MintOK, StoreOK, ProcOK, CallOK

\* The idle operation is an operation.
LEMMA EndedTyped == Ended \in Operations
  BY SMT
     DEF Ended, Operations, Steps, Leased, Unleased, OpStatus, MeltStatus, NoAnswers,
         ProofStates, NoMelt

\* An operation with one field set to a value of its range is one.
LEMMA FieldTyped ==
    ASSUME NEW o \in Operations
    PROVE  /\ \A x \in Steps : [o EXCEPT !.pc = x] \in Operations
           /\ \A x \in Steps : [o EXCEPT !.next = x] \in Operations
           /\ \A x \in {"none", "late"} \cup Leased \cup Unleased : [o EXCEPT !.task = x] \in Operations
           /\ \A x \in OpStatus \cup MeltStatus : [o EXCEPT !.status = x] \in Operations
           /\ \A x \in [Proofs -> ProofStates] : [o EXCEPT !.answers = x] \in Operations
           /\ \A x \in Melts \cup {NoMelt} : [o EXCEPT !.melt = x] \in Operations
<1>1. \A x \in Steps : [o EXCEPT !.pc = x] \in Operations
  BY SMT DEF Operations
<1>2. \A x \in Steps : [o EXCEPT !.next = x] \in Operations
  BY SMT DEF Operations
<1>3. \A x \in {"none", "late"} \cup Leased \cup Unleased : [o EXCEPT !.task = x] \in Operations
  BY SMT DEF Operations
<1>4. \A x \in OpStatus \cup MeltStatus : [o EXCEPT !.status = x] \in Operations
  BY SMT DEF Operations
<1>5. \A x \in [Proofs -> ProofStates] : [o EXCEPT !.answers = x] \in Operations
  BY SMT DEF Operations
<1>6. \A x \in Melts \cup {NoMelt} : [o EXCEPT !.melt = x] \in Operations
  BY SMT DEF Operations
<1>7. QED
  BY <1>1, <1>2, <1>3, <1>4, <1>5, <1>6, Zenon

\* Setting the step and the status leaves the other fields alone.
LEMMA SetStatus ==
    ASSUME NEW o \in Operations, NEW x \in Steps, NEW y \in OpStatus \cup MeltStatus
    PROVE  /\ [o EXCEPT !.pc = x, !.status = y] \in Operations
           /\ [o EXCEPT !.pc = x, !.status = y].pc = x
           /\ [o EXCEPT !.pc = x, !.status = y].status = y
           /\ [o EXCEPT !.pc = x, !.status = y].next = o.next
           /\ [o EXCEPT !.pc = x, !.status = y].task = o.task
           /\ [o EXCEPT !.pc = x, !.status = y].answers = o.answers
           /\ [o EXCEPT !.pc = x, !.status = y].melt = o.melt
<1>1. [o EXCEPT !.pc = x, !.status = y] \in Operations
  BY FieldTyped, Zenon
<1>2. QED
  BY <1>1, SMT DEF Operations

\* An operation that starts is one, and is about to load the envelope.
LEMMA Starts ==
    ASSUME NEW t \in Leased \cup Unleased, NEW y \in Steps
    PROVE  /\ [Ended EXCEPT !.task = t, !.pc = "load", !.next = y] \in Operations
           /\ [Ended EXCEPT !.task = t, !.pc = "load", !.next = y].pc = "load"
           /\ [Ended EXCEPT !.task = t, !.pc = "load", !.next = y].next = y
           /\ [Ended EXCEPT !.task = t, !.pc = "load", !.next = y].task = t
           /\ [Ended EXCEPT !.task = t, !.pc = "load", !.next = y].answers = NoAnswers
<1>1. [Ended EXCEPT !.task = t, !.pc = "load", !.next = y] \in Operations
  <2>1. t \in {"none", "late"} \cup Leased \cup Unleased /\ "load" \in Steps
    BY DEF Steps
  <2>2. QED
    BY <2>1, FieldTyped, EndedTyped, Zenon
<1>2. QED
  BY <1>1, SMT DEF Ended

\* A slot continues with an operation.
LEMMA ContinueTyped ==
    ASSUME ProcOK, NEW d \in Devices, NEW s \in Slots, NEW o \in Operations, Continue(d, s, o)
    PROVE  ProcOK'
  BY SMT DEF ProcOK, Continue

\* A slot goes on to a step.
LEMMA GotoTyped ==
    ASSUME ProcOK, NEW d \in Devices, NEW s \in Slots, NEW x \in Steps, Goto(d, s, x)
    PROVE  ProcOK'
<1>1. proc[d][s] \in Operations
  BY DEF ProcOK
<1>2. (IF x = "end" THEN Ended ELSE [proc[d][s] EXCEPT !.pc = x]) \in Operations
  BY <1>1, EndedTyped, FieldTyped
<1>3. QED
  BY <1>2, ContinueTyped DEF Goto

\* The record of which devices have the newest write of a column.
Newest ==
    [op : SUBSET Devices, row : [Proofs -> SUBSET Devices],
     holder : [Proofs -> SUBSET Devices], melt : [Melts -> SUBSET Devices]]

\* Any column of the replication record may be set to any set of devices.
LEMMA NewestTyped ==
    ASSUME NEW n \in Newest
    PROVE  /\ \A D \in SUBSET Devices : [n EXCEPT !.op = D] \in Newest
           /\ \A f \in [Proofs -> SUBSET Devices] :
                [n EXCEPT !.row = f] \in Newest /\ [n EXCEPT !.holder = f] \in Newest
           /\ \A f \in [Melts -> SUBSET Devices] : [n EXCEPT !.melt = f] \in Newest
           /\ \A D \in SUBSET Devices, m \in Melts : [n EXCEPT !.melt[m] = D] \in Newest
           /\ \A D \in SUBSET Devices, p \in Proofs : [n EXCEPT !.row[p] = D] \in Newest
           /\ \A D \in SUBSET Devices, p \in Proofs : [n EXCEPT !.holder[p] = D] \in Newest
           /\ n.op \in SUBSET Devices /\ n.row \in [Proofs -> SUBSET Devices]
           /\ n.holder \in [Proofs -> SUBSET Devices] /\ n.melt \in [Melts -> SUBSET Devices]
<1>1. \A D \in SUBSET Devices : [n EXCEPT !.op = D] \in Newest
  BY SMT DEF Newest
<1>2. \A f \in [Proofs -> SUBSET Devices] : [n EXCEPT !.row = f] \in Newest
  BY SMT DEF Newest
<1>3. \A f \in [Proofs -> SUBSET Devices] : [n EXCEPT !.holder = f] \in Newest
  BY SMT DEF Newest
<1>4. \A f \in [Melts -> SUBSET Devices] : [n EXCEPT !.melt = f] \in Newest
  BY SMT DEF Newest
<1>5. \A D \in SUBSET Devices, m \in Melts : [n EXCEPT !.melt[m] = D] \in Newest
  BY SMT DEF Newest
<1>6. \A D \in SUBSET Devices, p \in Proofs : [n EXCEPT !.row[p] = D] \in Newest
  BY SMT DEF Newest
<1>7. \A D \in SUBSET Devices, p \in Proofs : [n EXCEPT !.holder[p] = D] \in Newest
  BY SMT DEF Newest
<1>8. /\ n.op \in SUBSET Devices /\ n.row \in [Proofs -> SUBSET Devices]
      /\ n.holder \in [Proofs -> SUBSET Devices] /\ n.melt \in [Melts -> SUBSET Devices]
  BY SMT DEF Newest
<1>9. QED
  BY <1>1, <1>2, <1>3, <1>4, <1>5, <1>6, <1>7, <1>8, Zenon

\* Writing the envelope operation (OperationStore.patch) keeps the stores typed.
LEMMA PutOpTyped ==
    ASSUME StoreOK, NEW d \in Devices, NEW st \in OpStatus, PutOp(d, st)
    PROVE  StoreOK'
<1>1. newest' \in Newest
  <2>1. newest \in Newest /\ {d} \in SUBSET Devices
    BY DEF StoreOK, Newest
  <2>2. [newest EXCEPT !.op = {d}] \in Newest
    BY <2>1, NewestTyped, Zenon
  <2>3. QED
    BY <2>2 DEF PutOp
<1>2. op' \in [Devices -> OpStatus]
  BY SMT DEF StoreOK, PutOp
<1>3. UNCHANGED <<row, holder, melt, booked>>
  BY DEF PutOp
<1>4. QED
  BY <1>1, <1>2, <1>3, SMT DEF StoreOK, Newest

\* Writing a melt operation keeps the stores typed.
LEMMA PutMeltTyped ==
    ASSUME StoreOK, NEW d \in Devices, NEW m \in Melts, NEW st \in MeltStatus, PutMelt(d, m, st)
    PROVE  StoreOK'
<1>1. newest' \in Newest
  <2>1. newest \in Newest /\ {d} \in SUBSET Devices
    BY DEF StoreOK, Newest
  <2>2. [newest EXCEPT !.melt[m] = {d}] \in Newest
    BY <2>1, NewestTyped, Zenon
  <2>3. QED
    BY <2>2 DEF PutMelt
<1>2. melt' \in [Devices -> [Melts -> MeltStatus]]
  BY SMT DEF StoreOK, PutMelt
<1>3. UNCHANGED <<op, row, holder, booked>>
  BY DEF PutMelt
<1>4. QED
  BY <1>1, <1>2, <1>3, SMT DEF StoreOK, Newest

\* setProofState without a holder keeps the stores typed.
LEMMA PutRowsTyped ==
    ASSUME StoreOK, NEW d \in Devices, NEW S, NEW st \in RowStates, PutRows(d, S, st)
    PROVE  StoreOK'
<1> DEFINE f == [p \in Proofs |-> IF p \in S THEN {d} ELSE newest.row[p]]
<1>1. newest' \in Newest
  <2>1. newest \in Newest
    BY DEF StoreOK, Newest
  <2>2. newest.row \in [Proofs -> SUBSET Devices]
    BY <2>1, NewestTyped, Zenon
  <2>3. f \in [Proofs -> SUBSET Devices]
    BY <2>2, SMT
  <2>4. newest' = [newest EXCEPT !.row = f]
    BY DEF PutRows
  <2> HIDE DEF f
  <2>5. [newest EXCEPT !.row = f] \in Newest
    BY <2>1, <2>3, NewestTyped, Zenon
  <2>6. QED
    BY <2>4, <2>5
<1>2. row' \in [Devices -> [Proofs -> RowStates]]
  <2>1. row' = [row EXCEPT ![d] = [p \in Proofs |-> IF p \in S THEN st ELSE row[d][p]]]
    BY DEF PutRows
  <2>2. QED
    BY <2>1, SMT DEF StoreOK
<1>3. UNCHANGED <<op, holder, melt, booked>>
  BY DEF PutRows
<1>4. QED
  BY <1>1, <1>2, <1>3, SMT DEF StoreOK, Newest

\* setProofState with a holder keeps the stores typed.
LEMMA PutRowsUnderTyped ==
    ASSUME StoreOK, NEW d \in Devices, NEW S, NEW st, NEW h \in Holders,
           PutRowsUnder(d, S, st, h), \A p \in Proofs : p \in S => st[p] \in RowStates
    PROVE  StoreOK'
<1> DEFINE f == [p \in Proofs |-> IF p \in S THEN {d} ELSE newest.row[p]]
           g == [p \in Proofs |-> IF p \in S THEN {d} ELSE newest.holder[p]]
<1>1. newest' \in Newest
  <2>1. newest \in Newest
    BY DEF StoreOK, Newest
  <2>2. newest.row \in [Proofs -> SUBSET Devices] /\ newest.holder \in [Proofs -> SUBSET Devices]
    BY <2>1, NewestTyped, Zenon
  <2>3. f \in [Proofs -> SUBSET Devices] /\ g \in [Proofs -> SUBSET Devices]
    BY <2>2, SMT
  <2>4. newest' = [newest EXCEPT !.row = f, !.holder = g]
    BY DEF PutRowsUnder
  <2> HIDE DEF f, g
  <2>5. [newest EXCEPT !.row = f, !.holder = g] \in Newest
    BY <2>1, <2>3, NewestTyped, Zenon
  <2>6. QED
    BY <2>4, <2>5
<1>2. row' \in [Devices -> [Proofs -> RowStates]]
  <2>1. row' = [row EXCEPT ![d] = [p \in Proofs |-> IF p \in S THEN st[p] ELSE row[d][p]]]
    BY DEF PutRowsUnder
  <2>2. QED
    BY <2>1, SMT DEF StoreOK
<1>3. holder' \in [Devices -> [Proofs -> Holders]]
  <2>1. holder' = [holder EXCEPT ![d] = [p \in Proofs |-> IF p \in S THEN h ELSE holder[d][p]]]
    BY DEF PutRowsUnder
  <2>2. QED
    BY <2>1, SMT DEF StoreOK
<1>4. UNCHANGED <<op, melt, booked>>
  BY DEF PutRowsUnder
<1>5. QED
  BY <1>1, <1>2, <1>3, <1>4, SMT DEF StoreOK, Newest

\* reconcileRows keeps the stores typed.
LEMMA ReconcileRowsTyped ==
    ASSUME StoreOK, NEW d \in Devices, NEW st \in OpStatus, ReconcileRows(d, st)
    PROVE  StoreOK'
<1> DEFINE missing == {p \in Proofs : row[d][p] = "absent"}
           orphans == {p \in Proofs : row[d][p] = "held" /\ holder[d][p] = NoHolder}
           states == [p \in Proofs |-> IF p \in missing THEN RowStateOf(st) ELSE "held"]
<1>1. PutRowsUnder(d, missing \cup orphans, states, InEnvelope)
  BY DEF ReconcileRows
<1>2. \A p \in Proofs : states[p] \in RowStates
  BY SMT DEF RowStateOf, RowStates
<1>3. InEnvelope \in Holders
  BY DEF Holders
<1> HIDE DEF missing, orphans, states
<1>4. QED
  BY <1>1, <1>2, <1>3, PutRowsUnderTyped

\* closeIfSpent keeps the stores typed.
LEMMA CloseIfSpentTyped ==
    ASSUME StoreOK, NEW d \in Devices, NEW st, CloseIfSpent(d, st)
    PROVE  StoreOK'
<1>1. "done" \in OpStatus
  BY DEF OpStatus
<1>2. CASE PutOp(d, "done")
  BY <1>1, <1>2, PutOpTyped
<1>3. CASE UNCHANGED storeVars
  BY <1>3 DEF StoreOK, storeVars
<1>4. QED
  BY <1>2, <1>3 DEF CloseIfSpent

\* What a step leaves alone stays typed.
LEMMA Unchanged ==
    ASSUME TypeOK
    PROVE  /\ UNCHANGED mintVars => MintOK'
           /\ UNCHANGED storeVars => StoreOK'
           /\ UNCHANGED proc => ProcOK'
           /\ UNCHANGED callVars => CallOK'
  BY Parts DEF MintOK, StoreOK, ProcOK, CallOK, mintVars, storeVars, callVars

\* The fields of an operation in progress are in their ranges.
LEMMA ProcTyped ==
    ASSUME TypeOK, NEW d \in Devices, NEW s \in Slots
    PROVE  /\ proc[d][s] \in Operations
           /\ proc[d][s].pc \in Steps /\ proc[d][s].next \in Steps
           /\ proc[d][s].task \in {"none", "late"} \cup Leased \cup Unleased
           /\ proc[d][s].status \in OpStatus \cup MeltStatus
           /\ proc[d][s].answers \in [Proofs -> ProofStates]
           /\ proc[d][s].melt \in Melts \cup {NoMelt}
  BY SMT DEF TypeOK, Operations

\* An operation that only takes a step keeps the operations typed.
LEMMA GotoKept ==
    ASSUME TypeOK, NEW d \in Devices, NEW s \in Slots, NEW x, Goto(d, s, x), x \in Steps
    PROVE  ProcOK'
  BY Parts, GotoTyped

\* An operation that continues as an operation keeps them typed.
LEMMA ContinueKept ==
    ASSUME TypeOK, NEW d \in Devices, NEW s \in Slots, NEW o, Continue(d, s, o), o \in Operations
    PROVE  ProcOK'
  BY Parts, ContinueTyped

\* The two slots.
LEMMA LeasedIsSlot == "leased" \in Slots /\ "free" \in Slots
  BY DEF Slots

\* Every task has a slot.
LEMMA SlotOfTyped == \A d \in Devices : \A task \in Tasks[d] : SlotOf(task) \in Slots
  BY DEF SlotOf, Slots

\* Setting the step and the melt leaves the other fields alone.
LEMMA SetMelt ==
    ASSUME NEW o \in Operations, NEW x \in Steps, NEW m \in Melts
    PROVE  /\ [o EXCEPT !.pc = x, !.melt = m] \in Operations
           /\ [o EXCEPT !.pc = x, !.melt = m].pc = x
           /\ [o EXCEPT !.pc = x, !.melt = m].melt = m
           /\ [o EXCEPT !.pc = x, !.melt = m].next = o.next
           /\ [o EXCEPT !.pc = x, !.melt = m].task = o.task
           /\ [o EXCEPT !.pc = x, !.melt = m].answers = o.answers
           /\ [o EXCEPT !.pc = x, !.melt = m].status = o.status
<1>1. [o EXCEPT !.pc = x, !.melt = m] \in Operations
  BY FieldTyped, Zenon
<1>2. QED
  BY <1>1, SMT DEF Operations

\* Setting the step and the step after loading leaves the other fields alone.
LEMMA SetNext ==
    ASSUME NEW o \in Operations, NEW x \in Steps, NEW y \in Steps
    PROVE  /\ [o EXCEPT !.pc = x, !.next = y] \in Operations
           /\ [o EXCEPT !.pc = x, !.next = y].pc = x
           /\ [o EXCEPT !.pc = x, !.next = y].next = y
           /\ [o EXCEPT !.pc = x, !.next = y].melt = o.melt
           /\ [o EXCEPT !.pc = x, !.next = y].task = o.task
           /\ [o EXCEPT !.pc = x, !.next = y].answers = o.answers
           /\ [o EXCEPT !.pc = x, !.next = y].status = o.status
<1>1. [o EXCEPT !.pc = x, !.next = y] \in Operations
  BY FieldTyped, Zenon
<1>2. QED
  BY <1>1, SMT DEF Operations

\* Setting the step and the mint's answers leaves the other fields alone.
LEMMA SetAnswers ==
    ASSUME NEW o \in Operations, NEW x \in Steps, NEW a \in [Proofs -> ProofStates]
    PROVE  /\ [o EXCEPT !.pc = x, !.answers = a] \in Operations
           /\ [o EXCEPT !.pc = x, !.answers = a].pc = x
           /\ [o EXCEPT !.pc = x, !.answers = a].answers = a
           /\ [o EXCEPT !.pc = x, !.answers = a].next = o.next
           /\ [o EXCEPT !.pc = x, !.answers = a].task = o.task
           /\ [o EXCEPT !.pc = x, !.answers = a].melt = o.melt
           /\ [o EXCEPT !.pc = x, !.answers = a].status = o.status
<1>1. [o EXCEPT !.pc = x, !.answers = a] \in Operations
  BY FieldTyped, Zenon
<1>2. QED
  BY <1>1, SMT DEF Operations

\* Setting the step leaves the other fields alone.
LEMMA SetPc ==
    ASSUME NEW o \in Operations, NEW x \in Steps
    PROVE  /\ [o EXCEPT !.pc = x] \in Operations
           /\ [o EXCEPT !.pc = x].pc = x
           /\ [o EXCEPT !.pc = x].next = o.next
           /\ [o EXCEPT !.pc = x].task = o.task
           /\ [o EXCEPT !.pc = x].status = o.status
           /\ [o EXCEPT !.pc = x].answers = o.answers
           /\ [o EXCEPT !.pc = x].melt = o.melt
  BY FieldTyped, SMT DEF Operations

\* The parts after a step make the type invariant after it.
LEMMA TypeParts ==
    ASSUME MintOK', StoreOK', ProcOK', CallOK'
    PROVE  TypeOK'
  BY DEF TypeOK, MintOK, StoreOK, ProcOK, CallOK

\* An operation at a step of a melt names its melt: Melt.ts has loaded or made it by then.
LEMMA MeltKnown ==
    ASSUME Knowledge, NEW d \in Devices, NEW s \in Slots, proc[d][s].pc \in MeltSteps
    PROVE  proc[d][s].melt \in Melts
  BY DEF Knowledge, StillTrue

\* The same for meltEnvelope.
LEMMA LeasedMelt ==
    ASSUME Knowledge, NEW d \in Devices, proc[d]["leased"].pc \in MeltSteps
    PROVE  proc[d]["leased"].melt \in Melts
  BY LeasedIsSlot, MeltKnown

\* A request names its sender, a quote or none, and proofs.
LEMMA RequestTyped ==
    ASSUME TypeOK, NEW r \in wire
    PROVE  /\ r.from \in Devices /\ r.melt \in Melts \cup {NoMelt}
           /\ r.proofs \in SUBSET Proofs
  BY SMT DEF TypeOK, Requests

\* The mint's answer, heard or lost, keeps the operations typed.
LEMMA AnswerTyped ==
    ASSUME TypeOK, NEW r \in wire, NEW x \in Steps, Answer(r, x)
    PROVE  ProcOK'
<1>1. LostStep(WaitStep(r.kind)) \in Steps
  BY SMT DEF LostStep, WaitStep, Steps
<1>2. QED
  BY <1>1, RequestTyped, LeasedIsSlot, GotoKept, Unchanged DEF Answer

\* The mint's rejection of a melt keeps the operations typed.
LEMMA AnswerRejectedTyped ==
    ASSUME TypeOK, NEW r \in wire, AnswerRejected(r)
    PROVE  ProcOK'
<1>1. [proc[r.from]["leased"] EXCEPT !.pc = "giveBack", !.status = "failed"] \in Operations
  <2>1. "giveBack" \in Steps /\ "failed" \in OpStatus \cup MeltStatus
    BY DEF Steps, MeltStatus
  <2>2. QED
    BY <2>1, RequestTyped, LeasedIsSlot, ProcTyped, SetStatus
<1>2. "askQuote" \in Steps
  BY DEF Steps
<1>3. QED
  BY <1>1, <1>2, RequestTyped, LeasedIsSlot, GotoKept, ContinueKept, Unchanged
     DEF AnswerRejected

\* Start keeps every type.
LEMMA TypeStart ==
    ASSUME TypeOK, NEW d \in Devices, NEW task \in Tasks[d], Start(d, task)
    PROVE  TypeOK'
<1>1. ProcOK'
  <2>1. task \in Leased \cup Unleased /\ LoadedStep(task) \in Steps
    BY EnvelopeAssumption, SMT DEF Start, LoadedStep, Steps
  <2>2. QED
    BY <2>1, SlotOfTyped, Starts, ContinueKept DEF Start
<1>2. QED
  BY <1>1, Unchanged, TypeParts DEF Start

\* StartResume keeps every type.
LEMMA TypeStartResume ==
    ASSUME TypeOK, NEW d \in Devices, NEW m \in Melts, StartResume(d, m)
    PROVE  TypeOK'
<1>1. ProcOK'
  <2>1. [Ended EXCEPT !.task = "resume", !.pc = "askQuote", !.melt = m] \in Operations
    BY FieldTyped, EndedTyped, Zenon DEF Steps, Unleased
  <2>2. QED
    BY <2>1, LeasedIsSlot, ContinueKept DEF StartResume
<1>2. QED
  BY <1>1, Unchanged, TypeParts DEF StartResume

\* StartLate keeps every type.
LEMMA TypeStartLate ==
    ASSUME TypeOK, NEW d \in Devices, NEW m \in Melts, StartLate(d, m)
    PROVE  TypeOK'
<1>1. ProcOK'
  <2>1. melt[d][m] \in OpStatus \cup MeltStatus
    BY SMT DEF TypeOK
  <2>2. [Ended EXCEPT !.task = "late", !.pc = "giveBack", !.status = melt[d][m], !.melt = m] \in Operations
    BY <2>1, FieldTyped, EndedTyped, Zenon DEF Steps
  <2>3. QED
    BY <2>2, LeasedIsSlot, ContinueKept, Unchanged DEF StartLate
<1>2. StoreOK'
  BY PutRowsTyped, Parts, Unchanged DEF StartLate, RowStates
<1>3. QED
  BY <1>1, <1>2, Unchanged, TypeParts DEF StartLate

\* Load keeps every type.
LEMMA TypeLoad ==
    ASSUME TypeOK, NEW d \in Devices, NEW s \in Slots, Load(d, s)
    PROVE  TypeOK'
<1>1. ProcOK'
  <2>1. op[d] \in OpStatus \cup MeltStatus
    BY SMT DEF TypeOK
  <2>2. [proc[d][s] EXCEPT !.pc = proc[d][s].next, !.status = op[d]] \in Operations
    BY <2>1, ProcTyped, SetStatus
  <2>3. QED
    BY <2>2, EndedTyped, ContinueKept DEF Load
<1>2. StoreOK'
  <2>1. op[d] \in OpStatus
    BY SMT DEF TypeOK
  <2>2. QED
    BY <2>1, ReconcileRowsTyped, Parts DEF Load
<1>3. QED
  BY <1>1, <1>2, Unchanged, TypeParts DEF Load

\* LoadNothing keeps every type.
LEMMA TypeLoadNothing ==
    ASSUME TypeOK, NEW d \in Devices, NEW s \in Slots, LoadNothing(d, s)
    PROVE  TypeOK'
<1>1. ProcOK'
  BY GotoKept, LeasedIsSlot, SMT DEF LoadNothing, Steps
<1>2. QED
  BY <1>1, Unchanged, TypeParts DEF LoadNothing

\* Probe keeps every type.
LEMMA TypeProbe ==
    ASSUME TypeOK, NEW d \in Devices, NEW s \in Slots, Probe(d, s)
    PROVE  TypeOK'
<1>1. ProcOK'
  BY GotoKept, LeasedIsSlot, SMT DEF Probe, Steps
<1>2. QED
  BY <1>1, Unchanged, TypeParts DEF Probe

\* Fail keeps every type.
LEMMA TypeFail ==
    ASSUME TypeOK, NEW d \in Devices, NEW s \in Slots, Fail(d, s)
    PROVE  TypeOK'
<1>1. ProcOK'
  BY GotoKept, LeasedIsSlot, SMT DEF Fail, Steps
<1>2. QED
  BY <1>1, Unchanged, TypeParts DEF Fail

\* StoreOperation keeps every type.
LEMMA TypeStoreOperation ==
    ASSUME TypeOK, NEW d \in Devices, NEW s \in Slots, StoreOperation(d, s)
    PROVE  TypeOK'
<1>1. ProcOK'
  BY GotoKept, LeasedIsSlot, SMT DEF StoreOperation, Steps
<1>2. StoreOK'
  BY PutOpTyped, Parts DEF StoreOperation, OpStatus
<1>3. QED
  BY <1>1, <1>2, Unchanged, TypeParts DEF StoreOperation

\* StoreRows keeps every type.
LEMMA TypeStoreRows ==
    ASSUME TypeOK, NEW d \in Devices, NEW s \in Slots, StoreRows(d, s)
    PROVE  TypeOK'
<1>1. ProcOK'
  <2> DEFINE status == IF proc[d][s].next \in {"paidOp", "giveBack"}
                       THEN proc[d][s].status ELSE "pending"
  <2>1. status \in OpStatus \cup MeltStatus
    BY ProcTyped DEF OpStatus
  <2>2. [proc[d][s] EXCEPT !.pc = proc[d][s].next, !.status = status] \in Operations
    BY <2>1, ProcTyped, SetStatus
  <2>3. CASE proc[d][s].next = "end"
    BY <2>3, EndedTyped, ContinueKept DEF StoreRows
  <2>4. CASE proc[d][s].next # "end"
    <3>1. Continue(d, s, [proc[d][s] EXCEPT !.pc = proc[d][s].next, !.status = status])
      BY <2>4, SMT DEF StoreRows, Continue
    <3>2. QED
      BY <3>1, <2>2, ContinueKept
  <2>5. QED
    BY <2>3, <2>4
<1>2. StoreOK'
  BY ReconcileRowsTyped, Parts DEF StoreRows, OpStatus
<1>3. QED
  BY <1>1, <1>2, Unchanged, TypeParts DEF StoreRows

\* Ask keeps every type.
LEMMA TypeAsk ==
    ASSUME TypeOK, NEW d \in Devices, NEW s \in Slots, Ask(d, s)
    PROVE  TypeOK'
<1>1. ProcOK'
  <2>1. [proc[d][s] EXCEPT !.pc = "spentRows", !.answers = mint] \in Operations
    <3>1. "spentRows" \in Steps /\ mint \in [Proofs -> ProofStates]
      BY DEF Steps, TypeOK
    <3>2. QED
      BY <3>1, ProcTyped, SetAnswers
  <2>2. QED
    BY <2>1, EndedTyped, ContinueKept DEF Ask
<1>2. QED
  BY <1>1, Unchanged, TypeParts DEF Ask

\* MarkSpent keeps every type.
LEMMA TypeMarkSpent ==
    ASSUME TypeOK, NEW d \in Devices, NEW s \in Slots, MarkSpent(d, s)
    PROVE  TypeOK'
<1>1. ProcOK'
  BY GotoKept, LeasedIsSlot, SMT DEF MarkSpent, Steps
<1>2. StoreOK'
  BY PutRowsTyped, Parts DEF MarkSpent, RowStates
<1>3. QED
  BY <1>1, <1>2, Unchanged, TypeParts DEF MarkSpent

\* Close keeps every type.
LEMMA TypeClose ==
    ASSUME TypeOK, NEW d \in Devices, NEW s \in Slots, Close(d, s)
    PROVE  TypeOK'
<1>1. ProcOK'
  BY GotoKept, LeasedIsSlot, SMT DEF Close, Steps
<1>2. StoreOK'
  BY CloseIfSpentTyped, Parts DEF Close
<1>3. QED
  BY <1>1, <1>2, Unchanged, TypeParts DEF Close

\* AskQuote keeps every type.
LEMMA TypeAskQuote ==
    ASSUME TypeOK, NEW d \in Devices, NEW s \in Slots, AskQuote(d, s)
    PROVE  TypeOK'
<1>1. ProcOK'
  <2>1. [proc[d][s] EXCEPT !.pc = "giveBack", !.status = "unpaid"] \in Operations
    <3>1. "giveBack" \in Steps /\ "unpaid" \in OpStatus \cup MeltStatus
      BY DEF Steps, MeltStatus
    <3>2. QED
      BY <3>1, ProcTyped, SetStatus
  <2>2. \/ Goto(d, s, "paidRows") \/ Goto(d, s, "end")
        \/ Continue(d, s, [proc[d][s] EXCEPT !.pc = "giveBack", !.status = "unpaid"])
    BY Zenon DEF AskQuote
  <2>3. QED
    BY <2>1, <2>2, GotoKept, ContinueKept DEF Steps
<1>2. QED
  BY <1>1, Unchanged, TypeParts DEF AskQuote

\* PaidRows keeps every type.
LEMMA TypePaidRows ==
    ASSUME TypeOK, NEW d \in Devices, NEW s \in Slots, PaidRows(d, s)
    PROVE  TypeOK'
<1>1. ProcOK'
  BY GotoKept, LeasedIsSlot, SMT DEF PaidRows, Steps
<1>2. StoreOK'
  BY PutRowsTyped, Parts DEF PaidRows, RowStates
<1>3. QED
  BY <1>1, <1>2, Unchanged, TypeParts DEF PaidRows

\* PaidOp keeps every type.
LEMMA TypePaidOp ==
    ASSUME TypeOK, NEW d \in Devices, NEW s \in Slots, PaidOp(d, s)
    PROVE  TypeOK'
<1>1. ProcOK'
  <2>1. [proc[d][s] EXCEPT !.pc = "store", !.next = "paidOp"] \in Operations
    <3>1. "store" \in Steps /\ "paidOp" \in Steps /\ "giveBack" \in Steps
      BY DEF Steps
    <3>2. QED
      BY <3>1, ProcTyped, SetNext
  <2>2. QED
    BY <2>1, GotoKept, ContinueKept DEF PaidOp, StoreFirst, Steps
<1>2. StoreOK'
  BY CloseIfSpentTyped, Parts, Unchanged DEF PaidOp
<1>3. QED
  BY <1>1, <1>2, Unchanged, TypeParts DEF PaidOp

\* GiveBack keeps every type.
LEMMA TypeGiveBack ==
    ASSUME TypeOK, NEW d \in Devices, NEW s \in Slots, GiveBack(d, s)
    PROVE  TypeOK'
<1>1. ProcOK'
  <2>1. [proc[d][s] EXCEPT !.pc = "store", !.next = "giveBack"] \in Operations
    <3>1. "store" \in Steps /\ "paidOp" \in Steps /\ "giveBack" \in Steps
      BY DEF Steps
    <3>2. QED
      BY <3>1, ProcTyped, SetNext
  <2>2. QED
    BY <2>1, GotoKept, ContinueKept DEF GiveBack, StoreFirst, Steps
<1>2. StoreOK'
  <2>1. CASE op[d] = "absent"
    BY <2>1, Unchanged DEF GiveBack
  <2>2. CASE op[d] # "absent"
    <3>1. \A p \in Proofs : AllHeld[p] \in RowStates
      BY DEF AllHeld, RowStates
    <3>2. QED
      BY <2>2, <3>1, PutRowsUnderTyped, Parts DEF GiveBack, Holders
  <2>3. QED
    BY <2>1, <2>2
<1>3. QED
  BY <1>1, <1>2, Unchanged, TypeParts DEF GiveBack

\* PaidMelt keeps every type: the operation names a melt.
LEMMA TypePaidMelt ==
    ASSUME TypeOK, Knowledge, NEW d \in Devices, NEW s \in Slots, PaidMelt(d, s)
    PROVE  TypeOK'
<1>1. ProcOK'
  BY GotoKept, LeasedIsSlot, SMT DEF PaidMelt, Steps
<1>2. StoreOK'
  <2>1. proc[d][s].melt \in Melts
    BY MeltKnown DEF PaidMelt, At, MeltSteps, PaidSteps, GiveBackSteps
  <2>2. QED
    BY <2>1, PutMeltTyped, Parts DEF PaidMelt, MeltOf, MeltStatus
<1>3. QED
  BY <1>1, <1>2, Unchanged, TypeParts DEF PaidMelt

\* CloseMelt keeps every type: the operation names a melt.
LEMMA TypeCloseMelt ==
    ASSUME TypeOK, Knowledge, NEW d \in Devices, NEW s \in Slots, CloseMelt(d, s)
    PROVE  TypeOK'
<1>1. ProcOK'
  BY GotoKept, LeasedIsSlot, SMT DEF CloseMelt, Steps
<1>2. StoreOK'
  <2>1. proc[d][s].melt \in Melts /\ proc[d][s].status \in {"unpaid", "failed"}
    BY MeltKnown DEF CloseMelt, At, MeltSteps, GiveBackSteps, Knowledge, StillTrue
  <2>2. proc[d][s].status \in MeltStatus
    BY <2>1 DEF MeltStatus
  <2>3. QED
    BY <2>1, <2>2, PutMeltTyped, Parts DEF CloseMelt, MeltOf, Status
<1>3. QED
  BY <1>1, <1>2, Unchanged, TypeParts DEF CloseMelt

\* Record keeps every type: the operation names a melt.
LEMMA TypeRecord ==
    ASSUME TypeOK, Knowledge, NEW d \in Devices, Record(d)
    PROVE  TypeOK'
<1>1. ProcOK'
  BY GotoKept, LeasedIsSlot, SMT DEF Record, Steps
<1>2. StoreOK'
  <2>1. proc[d]["leased"].melt \in Melts
    BY LeasedMelt DEF Record, At, MeltSteps, PaidSteps, GiveBackSteps
  <2>2. QED
    BY <2>1, PutMeltTyped, Parts DEF Record, MeltOf, MeltStatus
<1>3. QED
  BY <1>1, <1>2, Unchanged, TypeParts DEF Record

\* Hold keeps every type: the operation names a melt.
LEMMA TypeHold ==
    ASSUME TypeOK, Knowledge, NEW d \in Devices, Hold(d)
    PROVE  TypeOK'
<1>1. ProcOK'
  BY GotoKept, LeasedIsSlot, SMT DEF Hold, Steps
<1>2. StoreOK'
  <2>1. proc[d]["leased"].melt \in Holders
    BY LeasedMelt DEF Hold, At, MeltSteps, Holders
  <2>2. \A p \in Proofs : AllHeld[p] \in RowStates
    BY DEF AllHeld, RowStates
  <2>3. QED
    BY <2>1, <2>2, PutRowsUnderTyped, Parts DEF Hold, MeltOf
<1>3. QED
  BY <1>1, <1>2, Unchanged, TypeParts DEF Hold

\* FundFails keeps every type.
LEMMA TypeFundFails ==
    ASSUME TypeOK, NEW d \in Devices, FundFails(d)
    PROVE  TypeOK'
<1>1. ProcOK'
  BY GotoKept, LeasedIsSlot, SMT DEF FundFails, Steps
<1>2. QED
  BY <1>1, Unchanged, TypeParts DEF FundFails

\* SendFund keeps every type.
LEMMA TypeSendFund ==
    ASSUME TypeOK, NEW d \in Devices, SendFund(d)
    PROVE  TypeOK'
<1>1. ProcOK'
  BY GotoKept, LeasedIsSlot, SMT DEF SendFund, Steps
<1>2. MintOK'
  <2>1. MeltOf(d, "leased") \in Melts \cup {NoMelt} /\ ReportedUnspent(d, "leased") \in SUBSET Proofs
    BY ProcTyped, LeasedIsSlot DEF MeltOf, ReportedUnspent
  <2>2. QED
    BY <2>1, SMT DEF TypeOK, MintOK, SendFund, Request, Requests
<1>3. QED
  BY <1>1, <1>2, Unchanged, TypeParts DEF SendFund

\* SendSwap keeps every type.
LEMMA TypeSendSwap ==
    ASSUME TypeOK, NEW d \in Devices, SendSwap(d)
    PROVE  TypeOK'
<1>1. ProcOK'
  BY GotoKept, LeasedIsSlot, SMT DEF SendSwap, Steps
<1>2. MintOK'
  <2>1. MeltOf(d, "leased") \in Melts \cup {NoMelt} /\ ReportedUnspent(d, "leased") \in SUBSET Proofs
    BY ProcTyped, LeasedIsSlot DEF MeltOf, ReportedUnspent
  <2>2. QED
    BY <2>1, SMT DEF TypeOK, MintOK, SendSwap, Request, Requests
<1>3. QED
  BY <1>1, <1>2, Unchanged, TypeParts DEF SendSwap

\* SendMelt keeps every type.
LEMMA TypeSendMelt ==
    ASSUME TypeOK, NEW d \in Devices, SendMelt(d)
    PROVE  TypeOK'
<1>1. ProcOK'
  BY GotoKept, LeasedIsSlot, SMT DEF SendMelt, Steps
<1>2. MintOK'
  <2>1. MeltOf(d, "leased") \in Melts \cup {NoMelt} /\ ReportedUnspent(d, "leased") \in SUBSET Proofs
    BY ProcTyped, LeasedIsSlot DEF MeltOf, ReportedUnspent
  <2>2. QED
    BY <2>1, SMT DEF TypeOK, MintOK, SendMelt, Request, Requests
<1>3. QED
  BY <1>1, <1>2, Unchanged, TypeParts DEF SendMelt

\* Hand keeps every type.
LEMMA TypeHand ==
    ASSUME TypeOK, NEW d \in Devices, Hand(d)
    PROVE  TypeOK'
<1>1. ProcOK'
  BY GotoKept, LeasedIsSlot, SMT DEF Hand, Steps
<1>2. StoreOK'
  BY PutRowsTyped, Parts, Unchanged DEF Hand, RowStates
<1>3. QED
  BY <1>1, <1>2, Unchanged, TypeParts DEF Hand

\* Issue keeps every type.
LEMMA TypeIssue ==
    ASSUME TypeOK, NEW d \in Devices, Issue(d)
    PROVE  TypeOK'
<1>1. ProcOK'
  BY GotoKept, LeasedIsSlot, SMT DEF Issue, Steps
<1>2. StoreOK'
  BY PutOpTyped, Parts, Unchanged DEF Issue, OpStatus
<1>3. CallOK'
  BY SMT DEF TypeOK, CallOK, Issue
<1>4. QED
  BY <1>1, <1>2, <1>3, Unchanged, TypeParts DEF Issue

\* Guard keeps every type.
LEMMA TypeGuard ==
    ASSUME TypeOK, NEW d \in Devices, Guard(d)
    PROVE  TypeOK'
<1>1. ProcOK'
  BY GotoKept, LeasedIsSlot, SMT DEF Guard, Steps
<1>2. QED
  BY <1>1, Unchanged, TypeParts DEF Guard

\* Book keeps every type.
LEMMA TypeBook ==
    ASSUME TypeOK, NEW d \in Devices, Book(d)
    PROVE  TypeOK'
<1>1. ProcOK'
  BY GotoKept, LeasedIsSlot, SMT DEF Book, Steps
<1>2. StoreOK'
  BY SMT DEF TypeOK, StoreOK, Book, ReportedUnspent
<1>3. QED
  BY <1>1, <1>2, Unchanged, TypeParts DEF Book

\* FreeRows keeps every type.
LEMMA TypeFreeRows ==
    ASSUME TypeOK, NEW d \in Devices, FreeRows(d)
    PROVE  TypeOK'
<1>1. ProcOK'
  BY GotoKept, LeasedIsSlot, SMT DEF FreeRows, Steps
<1>2. StoreOK'
  BY PutRowsTyped, Parts DEF FreeRows, RowStates
<1>3. QED
  BY <1>1, <1>2, Unchanged, TypeParts DEF FreeRows

\* Returned keeps every type.
LEMMA TypeReturned ==
    ASSUME TypeOK, NEW d \in Devices, Returned(d)
    PROVE  TypeOK'
<1>1. ProcOK'
  BY GotoKept, LeasedIsSlot, SMT DEF Returned, Steps
<1>2. StoreOK'
  BY PutOpTyped, Parts DEF Returned, OpStatus
<1>3. QED
  BY <1>1, <1>2, Unchanged, TypeParts DEF Returned

\* GiveUp keeps every type.
LEMMA TypeGiveUp ==
    ASSUME TypeOK, NEW d \in Devices, GiveUp(d)
    PROVE  TypeOK'
<1>1. ProcOK'
  BY GotoKept, LeasedIsSlot, SMT DEF GiveUp, LostStep, Steps
<1>2. MintOK'
  BY SMT DEF TypeOK, MintOK, GiveUp, Abandon
<1>3. QED
  BY <1>1, <1>2, Unchanged, TypeParts DEF GiveUp

\* Crash keeps every type.
LEMMA TypeCrash ==
    ASSUME TypeOK, NEW d \in Devices, Crash(d)
    PROVE  TypeOK'
<1>1. ProcOK'
  BY EndedTyped, SMT DEF TypeOK, ProcOK, Crash
<1>2. MintOK'
  BY SMT DEF TypeOK, MintOK, Crash, Abandon
<1>3. CallOK'
  BY EnvelopeAssumption, SMT DEF TypeOK, CallOK, Crash
<1>4. QED
  BY <1>1, <1>2, <1>3, Unchanged, TypeParts DEF Crash

\* MintSign keeps every type.
LEMMA TypeMintSign ==
    ASSUME TypeOK, NEW r \in wire, MintSign(r)
    PROVE  TypeOK'
<1>1. ProcOK'
  BY AnswerTyped DEF MintSign, Steps
<1>2. MintOK'
  BY SMT DEF TypeOK, MintOK, MintSign, ProofStates
<1>3. QED
  BY <1>1, <1>2, Unchanged, TypeParts DEF MintSign

\* MintSwap keeps every type.
LEMMA TypeMintSwap ==
    ASSUME TypeOK, NEW r \in wire, MintSwap(r)
    PROVE  TypeOK'
<1>1. ProcOK'
  BY AnswerTyped DEF MintSwap, Steps
<1>2. MintOK'
  BY SMT DEF TypeOK, MintOK, MintSwap, Spend, ProofStates, Payees
<1>3. QED
  BY <1>1, <1>2, Unchanged, TypeParts DEF MintSwap

\* Redeem keeps every type.
LEMMA TypeRedeem ==
    ASSUME TypeOK, NEW p \in Proofs, Redeem(p)
    PROVE  TypeOK'
<1>1. MintOK'
  BY SMT DEF TypeOK, MintOK, Redeem, Spend, ProofStates, Payees
<1>2. QED
  BY <1>1, Unchanged, TypeParts DEF Redeem

\* SyncOp keeps every type.
LEMMA TypeSyncOp ==
    ASSUME TypeOK, NEW d \in Devices, SyncOp(d)
    PROVE  TypeOK'
<1>1. StoreOK'
  <2> DEFINE column == newest.op \cup {d}
  <2>1. newest \in Newest
    BY DEF TypeOK, Newest
  <2>2. newest.op \in SUBSET Devices
    BY <2>1, NewestTyped, Zenon
  <2>3. newest' = [newest EXCEPT !.op = column]
    BY DEF SyncOp
  <2>4. column \in SUBSET Devices
    BY <2>2
  <2> HIDE DEF column
  <2>5. newest' \in Newest
    BY <2>1, <2>3, <2>4, NewestTyped, Zenon
  <2>6. PICK e \in newest.op : op' = [op EXCEPT ![d] = op[e]]
    BY DEF SyncOp
  <2>7. e \in Devices
    BY <2>2
  <2>8. op' \in [Devices -> OpStatus]
    BY <2>6, <2>7, SMT DEF TypeOK
  <2>9. UNCHANGED <<row, holder, melt, booked>>
    BY DEF SyncOp
  <2>10. QED
    BY <2>5, <2>8, <2>9, SMT DEF TypeOK, StoreOK, Newest
<1>2. QED
  BY <1>1, Unchanged, TypeParts DEF SyncOp

\* SyncRow keeps every type.
LEMMA TypeSyncRow ==
    ASSUME TypeOK, NEW d \in Devices, NEW p \in Proofs, SyncRow(d, p)
    PROVE  TypeOK'
<1>1. StoreOK'
  <2> DEFINE column == newest.row[p] \cup {d}
  <2>1. newest \in Newest
    BY DEF TypeOK, Newest
  <2>2. newest.row[p] \in SUBSET Devices
    BY <2>1, NewestTyped, Zenon
  <2>3. newest' = [newest EXCEPT !.row[p] = column]
    BY DEF SyncRow
  <2>4. column \in SUBSET Devices
    BY <2>2
  <2> HIDE DEF column
  <2>5. newest' \in Newest
    BY <2>1, <2>3, <2>4, NewestTyped, Zenon
  <2>6. PICK e \in newest.row[p] : row' = [row EXCEPT ![d][p] = row[e][p]]
    BY DEF SyncRow
  <2>7. e \in Devices
    BY <2>2
  <2>8. row' \in [Devices -> [Proofs -> RowStates]]
    BY <2>6, <2>7, SMT DEF TypeOK
  <2>9. UNCHANGED <<op, holder, melt, booked>>
    BY DEF SyncRow
  <2>10. QED
    BY <2>5, <2>8, <2>9, SMT DEF TypeOK, StoreOK, Newest
<1>2. QED
  BY <1>1, Unchanged, TypeParts DEF SyncRow

\* SyncHolder keeps every type.
LEMMA TypeSyncHolder ==
    ASSUME TypeOK, NEW d \in Devices, NEW p \in Proofs, SyncHolder(d, p)
    PROVE  TypeOK'
<1>1. StoreOK'
  <2> DEFINE column == newest.holder[p] \cup {d}
  <2>1. newest \in Newest
    BY DEF TypeOK, Newest
  <2>2. newest.holder[p] \in SUBSET Devices
    BY <2>1, NewestTyped, Zenon
  <2>3. newest' = [newest EXCEPT !.holder[p] = column]
    BY DEF SyncHolder
  <2>4. column \in SUBSET Devices
    BY <2>2
  <2> HIDE DEF column
  <2>5. newest' \in Newest
    BY <2>1, <2>3, <2>4, NewestTyped, Zenon
  <2>6. PICK e \in newest.holder[p] : holder' = [holder EXCEPT ![d][p] = holder[e][p]]
    BY DEF SyncHolder
  <2>7. e \in Devices
    BY <2>2
  <2>8. holder' \in [Devices -> [Proofs -> Holders]]
    BY <2>6, <2>7, SMT DEF TypeOK
  <2>9. UNCHANGED <<op, row, melt, booked>>
    BY DEF SyncHolder
  <2>10. QED
    BY <2>5, <2>8, <2>9, SMT DEF TypeOK, StoreOK, Newest
<1>2. QED
  BY <1>1, Unchanged, TypeParts DEF SyncHolder

\* SyncMelt keeps every type.
LEMMA TypeSyncMelt ==
    ASSUME TypeOK, NEW d \in Devices, NEW m \in Melts, SyncMelt(d, m)
    PROVE  TypeOK'
<1>1. StoreOK'
  <2> DEFINE column == newest.melt[m] \cup {d}
  <2>1. newest \in Newest
    BY DEF TypeOK, Newest
  <2>2. newest.melt[m] \in SUBSET Devices
    BY <2>1, NewestTyped, Zenon
  <2>3. newest' = [newest EXCEPT !.melt[m] = column]
    BY DEF SyncMelt
  <2>4. column \in SUBSET Devices
    BY <2>2
  <2> HIDE DEF column
  <2>5. newest' \in Newest
    BY <2>1, <2>3, <2>4, NewestTyped, Zenon
  <2>6. PICK e \in newest.melt[m] : melt' = [melt EXCEPT ![d][m] = melt[e][m]]
    BY DEF SyncMelt
  <2>7. e \in Devices
    BY <2>2
  <2>8. melt' \in [Devices -> [Melts -> MeltStatus]]
    BY <2>6, <2>7, SMT DEF TypeOK
  <2>9. UNCHANGED <<op, row, holder, booked>>
    BY DEF SyncMelt
  <2>10. QED
    BY <2>5, <2>8, <2>9, SMT DEF TypeOK, StoreOK, Newest
<1>2. QED
  BY <1>1, Unchanged, TypeParts DEF SyncMelt

\* Check keeps every type.
LEMMA TypeCheck ==
    ASSUME TypeOK, NEW d \in Devices, Check(d)
    PROVE  TypeOK'
<1>1. ProcOK'
  <2>1. "record" \in Steps /\ "end" \in Steps
    BY DEF Steps
  <2>2. ASSUME NEW m \in Fresh
        PROVE  [proc[d]["leased"] EXCEPT !.pc = "record", !.melt = m] \in Operations
    <3>1. m \in Melts
      BY DEF Fresh
    <3>2. QED
      BY <2>1, <3>1, ProcTyped, LeasedIsSlot, SetMelt
  <2>3. \/ Goto(d, "leased", "end")
        \/ \E m \in Fresh : Continue(d, "leased", [proc[d]["leased"] EXCEPT !.pc = "record", !.melt = m])
    BY Zenon DEF Check
  <2>4. QED
    BY <2>1, <2>2, <2>3, LeasedIsSlot, GotoKept, ContinueKept
<1>2. MintOK'
  <2>1. quote' = quote \/ \E m \in Fresh : quote' = [quote EXCEPT ![m] = "UNPAID"]
    BY Zenon DEF Check
  <2>2. UNCHANGED <<mint, wentTo, wire>>
    BY DEF Check
  <2>3. QED
    BY <2>1, <2>2, SMT DEF TypeOK, MintOK, QuoteStates
<1>3. QED
  BY <1>1, <1>2, Unchanged, TypeParts DEF Check

\* MintMelt keeps every type.
LEMMA TypeMintMelt ==
    ASSUME TypeOK, NEW r \in wire, MintMelt(r)
    PROVE  TypeOK'
<1>1. ProcOK'
  BY AnswerTyped, AnswerRejectedTyped DEF MintMelt, Steps
<1>2. MintOK'
  <2>1. \/ UNCHANGED <<mint, quote>>
        \/ /\ quote' = [quote EXCEPT ![r.melt] = "PENDING"]
           /\ mint' = [p \in Proofs |-> IF p \in r.proofs THEN "pending" ELSE mint[p]]
    BY Zenon DEF MintMelt
  <2>2. wire' \subseteq wire /\ UNCHANGED wentTo
    BY DEF MintMelt
  <2>3. QED
    BY <2>1, <2>2, SMT DEF TypeOK, MintOK, ProofStates, QuoteStates
<1>3. QED
  BY <1>1, <1>2, Unchanged, TypeParts DEF MintMelt

\* MintSettles keeps every type.
LEMMA TypeMintSettles ==
    ASSUME TypeOK, NEW m \in Melts, MintSettles(m)
    PROVE  TypeOK'
<1>1. MintOK'
  <2>1. quote' \in [Melts -> QuoteStates]
    <3>1. quote' = [quote EXCEPT ![m] = "PAID"] \/ quote' = [quote EXCEPT ![m] = "UNPAID"]
      BY Zenon DEF MintSettles
    <3>2. quote \in [Melts -> QuoteStates]
      BY DEF TypeOK
    <3>3. QED
      BY <3>1, <3>2, SMT DEF QuoteStates
  <2>2. mint' \in [Proofs -> ProofStates]
    BY SMT DEF TypeOK, MintSettles, Spend, ProofStates
  <2>3. wentTo' \in [Proofs -> Payees] /\ UNCHANGED wire
    BY SMT DEF TypeOK, MintSettles, Spend, Payees
  <2>4. QED
    BY <2>1, <2>2, <2>3 DEF TypeOK, MintOK
<1>2. QED
  BY <1>1, Unchanged, TypeParts DEF MintSettles

-----------------------------------------------------------------------------
(* What the operations have learned, and the rows they close               *)

\* Every operation in progress is right about the mint.
Learned == \A d \in Devices, s \in Slots : StillTrue(proc[d][s])

\* The inductive invariant.
IInv == TypeOK /\ Knowledge /\ ClosedIsSpent

\* StillTrue of an operation with these fields, at a mint in this state.
Fits(pc, task, next, status, answers, m, minted, quoted) ==
    /\ pc \notin NothingLearned => \A p \in Proofs : minted[p] # "unsigned"
    /\ \A p \in Proofs : answers[p] = "spent" => minted[p] = "spent"
    /\ pc \in SwapSteps \/ (task = "release" /\ pc \in {"spentRows", "close"}) =>
         \A p \in Proofs : answers[p] \in {"spent", "unspent"}
    /\ pc \in {"book", "freeRows", "returned"} =>
         \A p \in Proofs : answers[p] = "unspent" => minted[p] = "spent"
    /\ pc \in MeltSteps \/ next \in {"paidOp", "giveBack"} => m \in Melts
    /\ pc \in PaidSteps \/ next = "paidOp" => quoted[m] = "PAID"
    /\ pc \in GiveBackSteps \/ next = "giveBack" => status \in {"unpaid", "failed"}
    /\ next \in {"end", "hand", "guard", "check", "ask", "paidOp", "giveBack"}
    /\ next = "paidOp" => pc \in {"store", "rows", "paidOp", "paidMelt"}
    /\ next = "giveBack" => pc \in {"store", "rows", "giveBack", "closeMelt"}

\* StillTrue of an operation, at a mint in this state.
FitsAt(o, minted, quoted) ==
    Fits(o.pc, o.task, o.next, o.status, o.answers, o.melt, minted, quoted)

\* Learned, said of the fields of every operation, before and after a step.
LEMMA StillTrueFits ==
    /\ Learned <=> \A d \in Devices, s \in Slots : FitsAt(proc[d][s], mint, quote)
    /\ Learned' <=> \A d \in Devices, s \in Slots : FitsAt(proc'[d][s], mint', quote')
  BY DEF Learned, StillTrue, FitsAt, Fits, Funded

\* What the mint did stays done.
Grows ==
    /\ \A p \in Proofs : mint[p] = "spent" => mint'[p] = "spent"
    /\ \A p \in Proofs : mint[p] # "unsigned" => mint'[p] # "unsigned"
    /\ \A m \in Melts : quote[m] = "PAID" => quote'[m] = "PAID"

\* What an operation knows stays true while the mint only grows.
LEMMA FitsGrows ==
    ASSUME Grows, NEW o, FitsAt(o, mint, quote)
    PROVE  FitsAt(o, mint', quote')
  BY SMT DEF Grows, FitsAt, Fits, PaidSteps, MeltSteps

\* A mint that does not change grows.
LEMMA SameGrows ==
    ASSUME UNCHANGED <<mint, quote>>
    PROVE  Grows
  BY DEF Grows

\* One operation takes a step that leaves it right about the mint; the others stay
\* so because the mint only grows.
LEMMA ContinueLearned ==
    ASSUME IInv, Grows, NEW d \in Devices, NEW s \in Slots, NEW o,
           Continue(d, s, o), FitsAt(o, mint', quote')
    PROVE  Learned'
<1>1. ASSUME NEW e \in Devices, NEW t \in Slots
      PROVE  FitsAt(proc'[e][t], mint', quote')
  <2>1. proc'[e][t] = IF e = d /\ t = s THEN o ELSE proc[e][t]
    BY SMT DEF IInv, TypeOK, Continue
  <2>2. FitsAt(proc[e][t], mint, quote)
    BY StillTrueFits DEF IInv, Knowledge, Learned
  <2>3. QED
    BY <2>1, <2>2, FitsGrows
<1>2. QED
  BY <1>1, StillTrueFits

\* No operation takes a step, and the mint grows.
LEMMA SameLearned ==
    ASSUME IInv, Grows, UNCHANGED proc
    PROVE  Learned'
<1>1. ASSUME NEW e \in Devices, NEW t \in Slots
      PROVE  FitsAt(proc'[e][t], mint', quote')
  <2>1. FitsAt(proc[e][t], mint, quote)
    BY StillTrueFits DEF IInv, Knowledge, Learned
  <2>2. QED
    BY <2>1, FitsGrows
<1>2. QED
  BY <1>1, StillTrueFits

\* The idle operation claims nothing.
LEMMA EndedFits ==
    ASSUME NEW minted, NEW quoted
    PROVE  FitsAt(Ended, minted, quoted)
  BY SMT
     DEF FitsAt, Fits, Ended, NoAnswers, NothingLearned, SwapSteps, MeltSteps,
         PaidSteps, GiveBackSteps

\* The fields of an operation in progress when it only moves on.
FitsPc(o, pc, minted, quoted) ==
    Fits(pc, o.task, o.next, o.status, o.answers, o.melt, minted, quoted)

\* An operation moves on to a step whose claims hold.
LEMMA GotoLearned ==
    ASSUME IInv, Grows, NEW d \in Devices, NEW s \in Slots, NEW x, x \in Steps, Goto(d, s, x),
           x # "end" => FitsPc(proc[d][s], x, mint', quote')
    PROVE  Learned'
<1>1. CASE x = "end"
  BY <1>1, EndedFits, ContinueLearned DEF Goto
<1>2. CASE x # "end"
  <2>1. FitsAt([proc[d][s] EXCEPT !.pc = x], mint', quote')
    <3>1. proc[d][s] \in Operations
      BY ProcTyped DEF IInv
    <3>2. QED
      BY <1>2, <3>1, SetPc DEF FitsAt, FitsPc
  <2>2. QED
    BY <1>2, <2>1, ContinueLearned DEF Goto
<1>3. QED
  BY <1>1, <1>2

\* The claims of an operation in progress hold now.
LEMMA KnownFits ==
    ASSUME IInv, NEW d \in Devices, NEW s \in Slots
    PROVE  FitsPc(proc[d][s], proc[d][s].pc, mint, quote)
  BY StillTrueFits DEF IInv, Knowledge, Learned, FitsAt, FitsPc

\* The stores and the mint.
Backed == StoresBacked /\ ClosedIsSpent

\* All of the envelope is spent.
AllSpent == \A p \in Proofs : mint[p] = "spent"

\* A mint that does not change stays consistent.
LEMMA MintSame ==
    ASSUME MintConsistent, UNCHANGED <<mint, quote>>
    PROVE  MintConsistent'
  BY DEF MintConsistent, Funded

\* Stores that do not change stay backed by a mint that grows.
LEMMA BackedGrows ==
    ASSUME Backed, Grows, UNCHANGED storeVars
    PROVE  Backed'
  BY SMT DEF Backed, StoresBacked, ClosedIsSpent, Grows, Funded, storeVars

\* An operation may be written for a funded key, and closed once all of it is spent.
LEMMA PutOpBacked ==
    ASSUME TypeOK, Backed, UNCHANGED <<mint, quote>>, NEW d \in Devices, NEW st, PutOp(d, st),
           Funded, st \in Closed => AllSpent
    PROVE  Backed'
<1>1. \A e \in Devices : op'[e] = IF e = d THEN st ELSE op[e]
  BY SMT DEF TypeOK, PutOp
<1>2. UNCHANGED <<row, melt>>
  BY DEF PutOp
<1>3. QED
  BY <1>1, <1>2, SMT DEF Backed, StoresBacked, ClosedIsSpent, Funded, AllSpent

\* A melt may be written for a funded key, and as paid once its quote is.
LEMMA PutMeltBacked ==
    ASSUME TypeOK, Backed, UNCHANGED <<mint, quote>>, NEW d \in Devices, NEW m \in Melts, NEW st,
           PutMelt(d, m, st), Funded, st = "paid" => quote[m] = "PAID"
    PROVE  Backed'
<1>1. \A e \in Devices, n \in Melts : melt'[e][n] = IF e = d /\ n = m THEN st ELSE melt[e][n]
  BY SMT DEF TypeOK, PutMelt
<1>2. UNCHANGED <<row, op>>
  BY DEF PutMelt
<1>3. QED
  BY <1>1, <1>2, SMT DEF Backed, StoresBacked, ClosedIsSpent, Funded

\* Rows may change as long as only rows of spent proofs become spent.
LEMMA RowsBacked ==
    ASSUME Backed, UNCHANGED <<mint, quote, op, melt>>,
           \A e \in Devices, p \in Proofs : row'[e][p] = "spent" => row[e][p] = "spent" \/ mint[p] = "spent"
    PROVE  Backed'
  BY SMT DEF Backed, StoresBacked, ClosedIsSpent, Funded

\* setProofState spends only spent proofs, the holders staying.
LEMMA PutRowsBacked ==
    ASSUME TypeOK, Backed, UNCHANGED <<mint, quote>>, NEW d \in Devices, NEW S, NEW st, PutRows(d, S, st),
           st = "spent" => \A p \in Proofs : p \in S => mint[p] = "spent"
    PROVE  Backed'
<1>1. row' = [row EXCEPT ![d] = [p \in Proofs |-> IF p \in S THEN st ELSE row[d][p]]]
  BY DEF PutRows
<1>2. UNCHANGED <<op, melt>>
  BY DEF PutRows
<1>3. \A e \in Devices, p \in Proofs : row'[e][p] = "spent" => row[e][p] = "spent" \/ mint[p] = "spent"
  BY <1>1, SMT DEF TypeOK
<1>4. QED
  BY <1>2, <1>3, RowsBacked

\* setProofState spends only spent proofs, under a new holder.
LEMMA PutRowsUnderBacked ==
    ASSUME TypeOK, Backed, UNCHANGED <<mint, quote>>, NEW d \in Devices, NEW S, NEW st, NEW h,
           PutRowsUnder(d, S, st, h),
           \A p \in Proofs : p \in S /\ st[p] = "spent" => mint[p] = "spent"
    PROVE  Backed'
<1>1. row' = [row EXCEPT ![d] = [p \in Proofs |-> IF p \in S THEN st[p] ELSE row[d][p]]]
  BY DEF PutRowsUnder
<1>2. UNCHANGED <<op, melt>>
  BY DEF PutRowsUnder
<1>3. \A e \in Devices, p \in Proofs : row'[e][p] = "spent" => row[e][p] = "spent" \/ mint[p] = "spent"
  BY <1>1, SMT DEF TypeOK
<1>4. QED
  BY <1>2, <1>3, RowsBacked

\* reconcileRows inserts spent rows only for a closed envelope, whose proofs are spent.
LEMMA ReconcileRowsBacked ==
    ASSUME TypeOK, Backed, UNCHANGED <<mint, quote>>, NEW d \in Devices, NEW st \in OpStatus,
           ReconcileRows(d, st), st \notin {"pending", "issued"} => AllSpent
    PROVE  Backed'
<1> DEFINE missing == {p \in Proofs : row[d][p] = "absent"}
           orphans == {p \in Proofs : row[d][p] = "held" /\ holder[d][p] = NoHolder}
           states == [p \in Proofs |-> IF p \in missing THEN RowStateOf(st) ELSE "held"]
<1>1. PutRowsUnder(d, missing \cup orphans, states, InEnvelope)
  BY DEF ReconcileRows
<1>2. \A p \in Proofs : states[p] = "spent" => mint[p] = "spent"
  BY SMT DEF RowStateOf, AllSpent
<1> HIDE DEF missing, orphans, states
<1>3. QED
  BY <1>1, <1>2, PutRowsUnderBacked

\* closeIfSpent closes on rows that are spent because their proofs are.
LEMMA CloseIfSpentBacked ==
    ASSUME TypeOK, Backed, Funded, UNCHANGED <<mint, quote>>, NEW d \in Devices, NEW st, CloseIfSpent(d, st)
    PROVE  Backed'
<1>1. CASE UNCHANGED storeVars
  BY <1>1, SameGrows, BackedGrows
<1>2. CASE ~UNCHANGED storeVars
  <2>1. PutOp(d, "done") /\ \A p \in Proofs : row[d][p] = "spent"
    BY <1>2, Zenon DEF CloseIfSpent
  <2>2. AllSpent
    BY <2>1 DEF Backed, ClosedIsSpent, AllSpent
  <2>3. QED
    BY <2>1, <2>2, PutOpBacked
<1>3. QED
  BY <1>1, <1>2

\* The parts of the invariant that the Safe lemmas establish.
LEMMA SafeParts ==
    ASSUME MintConsistent', Backed', Learned'
    PROVE  Knowledge' /\ ClosedIsSpent'
  BY DEF Knowledge, Backed, Learned

\* The inductive invariant, taken apart.
LEMMA IInvParts ==
    ASSUME IInv
    PROVE  TypeOK /\ MintConsistent /\ Backed /\ Learned
  BY DEF IInv, Knowledge, Backed, Learned

\* An operation that has learned something has learned that the key is funded.
LEMMA FundedAt ==
    ASSUME IInv, NEW d \in Devices, NEW s \in Slots, proc[d][s].pc \notin NothingLearned
    PROVE  Funded
  BY DEF IInv, Knowledge, StillTrue

\* A step without the mint keeps it consistent.
LEMMA Quiet ==
    ASSUME IInv, UNCHANGED <<mint, quote>>, Learned', Backed'
    PROVE  Knowledge' /\ ClosedIsSpent'
  BY MintSame, SafeParts, IInvParts

\* The claims of an operation whose step and next step are set.
LEMMA SetNextFits ==
    ASSUME NEW minted, NEW quoted, NEW q \in Operations, NEW x \in Steps, NEW y \in Steps,
           Fits(x, q.task, y, q.status, q.answers, q.melt, minted, quoted)
    PROVE  FitsAt([q EXCEPT !.pc = x, !.next = y], minted, quoted)
<1> DEFINE r == [q EXCEPT !.pc = x, !.next = y]
<1>1. /\ r.pc = x /\ r.task = q.task /\ r.next = y
      /\ r.status = q.status /\ r.answers = q.answers /\ r.melt = q.melt
  BY SMT DEF Operations
<1> HIDE DEF r
<1>2. FitsAt(r, minted, quoted)
  BY <1>1 DEF FitsAt
<1>3. QED
  BY <1>2 DEF r

\* The claims of an operation whose step and status are set.
LEMMA SetStatusFits ==
    ASSUME NEW minted, NEW quoted, NEW q \in Operations, NEW x \in Steps, NEW y \in OpStatus \cup MeltStatus,
           Fits(x, q.task, q.next, y, q.answers, q.melt, minted, quoted)
    PROVE  FitsAt([q EXCEPT !.pc = x, !.status = y], minted, quoted)
<1> DEFINE r == [q EXCEPT !.pc = x, !.status = y]
<1>1. /\ r.pc = x /\ r.task = q.task /\ r.next = q.next
      /\ r.status = y /\ r.answers = q.answers /\ r.melt = q.melt
  BY SMT DEF Operations
<1> HIDE DEF r
<1>2. FitsAt(r, minted, quoted)
  BY <1>1 DEF FitsAt
<1>3. QED
  BY <1>2 DEF r

\* The claims of an operation whose step and answers are set.
LEMMA SetAnswersFits ==
    ASSUME NEW minted, NEW quoted, NEW q \in Operations, NEW x \in Steps, NEW y \in [Proofs -> ProofStates],
           Fits(x, q.task, q.next, q.status, y, q.melt, minted, quoted)
    PROVE  FitsAt([q EXCEPT !.pc = x, !.answers = y], minted, quoted)
<1> DEFINE r == [q EXCEPT !.pc = x, !.answers = y]
<1>1. /\ r.pc = x /\ r.task = q.task /\ r.next = q.next
      /\ r.status = q.status /\ r.answers = y /\ r.melt = q.melt
  BY SMT DEF Operations
<1> HIDE DEF r
<1>2. FitsAt(r, minted, quoted)
  BY <1>1 DEF FitsAt
<1>3. QED
  BY <1>2 DEF r

\* The claims of an operation whose step and melt are set.
LEMMA SetMeltFits ==
    ASSUME NEW minted, NEW quoted, NEW q \in Operations, NEW x \in Steps, NEW y \in Melts,
           Fits(x, q.task, q.next, q.status, q.answers, y, minted, quoted)
    PROVE  FitsAt([q EXCEPT !.pc = x, !.melt = y], minted, quoted)
<1> DEFINE r == [q EXCEPT !.pc = x, !.melt = y]
<1>1. /\ r.pc = x /\ r.task = q.task /\ r.next = q.next
      /\ r.status = q.status /\ r.answers = q.answers /\ r.melt = y
  BY SMT DEF Operations
<1> HIDE DEF r
<1>2. FitsAt(r, minted, quoted)
  BY <1>1 DEF FitsAt
<1>3. QED
  BY <1>2 DEF r

\* envelopeOfMelt stores the envelope first and settles the melt afterwards.
LEMMA StoreFirstLearned ==
    ASSUME IInv, Grows, NEW d \in Devices, NEW s \in Slots, NEW x \in Steps, StoreFirst(d, s, x),
           Fits("store", proc[d][s].task, x, proc[d][s].status, proc[d][s].answers, proc[d][s].melt,
                mint', quote')
    PROVE  Learned'
<1>1. proc[d][s] \in Operations /\ "store" \in Steps
  BY ProcTyped, IInvParts DEF Steps
<1>2. FitsAt([proc[d][s] EXCEPT !.pc = "store", !.next = x], mint', quote')
  BY <1>1, SetNextFits
<1>3. QED
  BY <1>2, ContinueLearned DEF StoreFirst

\* LoadNothing writes nothing and goes on to ask the mint.
LEMMA SafeLoadNothing ==
    ASSUME IInv, NEW d \in Devices, NEW s \in Slots, LoadNothing(d, s)
    PROVE  Knowledge' /\ ClosedIsSpent'
<1>1. UNCHANGED <<mint, quote>>
  BY DEF LoadNothing, mintVars
<1>2. Grows
  BY <1>1, SameGrows
<1>3. Learned'
  <2>1. FitsPc(proc[d][s], proc[d][s].pc, mint, quote)
    BY KnownFits
  <2>2. FitsPc(proc[d][s], "probe", mint', quote')
    BY <1>1, <2>1, SMT
       DEF LoadNothing, FitsPc, Fits, At, NothingLearned, SwapSteps, MeltSteps,
           PaidSteps, GiveBackSteps
  <2>3. QED
    BY <1>2, <2>2, GotoLearned DEF LoadNothing, Steps
<1>4. Backed'
  BY <1>2, IInvParts, BackedGrows DEF LoadNothing
<1>5. QED
  BY <1>1, <1>3, <1>4, Quiet

\* Probe: a key with a signed proof is funded altogether.
LEMMA SafeProbe ==
    ASSUME IInv, NEW d \in Devices, NEW s \in Slots, Probe(d, s)
    PROVE  Knowledge' /\ ClosedIsSpent'
<1>1. UNCHANGED <<mint, quote>>
  BY DEF Probe, mintVars
<1>2. Grows
  BY <1>1, SameGrows
<1>3. Learned'
  <2>1. FitsPc(proc[d][s], proc[d][s].pc, mint, quote)
    BY KnownFits
  <2>2. (\E p \in Proofs : mint[p] # "unsigned") => FitsPc(proc[d][s], "store", mint', quote')
    BY <1>1, <2>1, IInvParts, SMT
       DEF Probe, MintConsistent, Funded, FitsPc, Fits, At, NothingLearned, SwapSteps,
           MeltSteps, PaidSteps, GiveBackSteps
  <2>3. FitsPc(proc[d][s], "fund", mint', quote')
    BY <1>1, <2>1, SMT
       DEF Probe, FitsPc, Fits, At, NothingLearned, SwapSteps, MeltSteps, PaidSteps,
           GiveBackSteps
  <2>4. QED
    BY <1>2, <2>2, <2>3, GotoLearned DEF Probe, Steps
<1>4. Backed'
  BY <1>2, IInvParts, BackedGrows DEF Probe
<1>5. QED
  BY <1>1, <1>3, <1>4, Quiet

\* Fail ends an operation.
LEMMA SafeFail ==
    ASSUME IInv, NEW d \in Devices, NEW s \in Slots, Fail(d, s)
    PROVE  Knowledge' /\ ClosedIsSpent'
<1>1. UNCHANGED <<mint, quote>>
  BY DEF Fail, mintVars
<1>2. Grows
  BY <1>1, SameGrows
<1>3. Learned'
  <2>1. FitsPc(proc[d][s], proc[d][s].pc, mint, quote)
    BY KnownFits
  <2>2. QED
    BY <1>2, GotoLearned DEF Fail, Steps
<1>4. Backed'
  BY <1>2, IInvParts, BackedGrows DEF Fail
<1>5. QED
  BY <1>1, <1>3, <1>4, Quiet

\* FundFails goes on to ask the mint again.
LEMMA SafeFundFails ==
    ASSUME IInv, NEW d \in Devices, FundFails(d)
    PROVE  Knowledge' /\ ClosedIsSpent'
<1>1. UNCHANGED <<mint, quote>>
  BY DEF FundFails, mintVars
<1>2. Grows
  BY <1>1, SameGrows
<1>3. Learned'
  <2>1. FitsPc(proc[d]["leased"], proc[d]["leased"].pc, mint, quote)
    BY KnownFits, LeasedIsSlot
  <2>2. FitsPc(proc[d]["leased"], "reprobe", mint', quote')
    BY <1>1, <2>1, SMT
       DEF FundFails, FitsPc, Fits, At, NothingLearned, SwapSteps, MeltSteps,
           PaidSteps, GiveBackSteps
  <2>3. QED
    BY <1>2, <2>2, GotoLearned, LeasedIsSlot DEF FundFails, Steps
<1>4. Backed'
  BY <1>2, IInvParts, BackedGrows DEF FundFails
<1>5. QED
  BY <1>1, <1>3, <1>4, Quiet

\* SendFund only sends a request.
LEMMA SafeSendFund ==
    ASSUME IInv, NEW d \in Devices, SendFund(d)
    PROVE  Knowledge' /\ ClosedIsSpent'
<1>1. UNCHANGED <<mint, quote>>
  BY DEF SendFund, mintVars
<1>2. Grows
  BY <1>1, SameGrows
<1>3. Learned'
  <2>1. FitsPc(proc[d]["leased"], proc[d]["leased"].pc, mint, quote)
    BY KnownFits, LeasedIsSlot
  <2>2. FitsPc(proc[d]["leased"], "fundWait", mint', quote')
    BY <1>1, <2>1, SMT
       DEF SendFund, FitsPc, Fits, At, NothingLearned, SwapSteps, MeltSteps,
           PaidSteps, GiveBackSteps
  <2>3. QED
    BY <1>2, <2>2, GotoLearned, LeasedIsSlot DEF SendFund, Steps
<1>4. Backed'
  BY <1>2, IInvParts, BackedGrows DEF SendFund
<1>5. QED
  BY <1>1, <1>3, <1>4, Quiet

\* SendSwap only sends a request.
LEMMA SafeSendSwap ==
    ASSUME IInv, NEW d \in Devices, SendSwap(d)
    PROVE  Knowledge' /\ ClosedIsSpent'
<1>1. UNCHANGED <<mint, quote>>
  BY DEF SendSwap, mintVars
<1>2. Grows
  BY <1>1, SameGrows
<1>3. Learned'
  <2>1. FitsPc(proc[d]["leased"], proc[d]["leased"].pc, mint, quote)
    BY KnownFits, LeasedIsSlot
  <2>2. FitsPc(proc[d]["leased"], "swapWait", mint', quote')
    BY <1>1, <2>1, SMT
       DEF SendSwap, FitsPc, Fits, At, NothingLearned, SwapSteps, MeltSteps,
           PaidSteps, GiveBackSteps
  <2>3. QED
    BY <1>2, <2>2, GotoLearned, LeasedIsSlot DEF SendSwap, Steps
<1>4. Backed'
  BY <1>2, IInvParts, BackedGrows DEF SendSwap
<1>5. QED
  BY <1>1, <1>3, <1>4, Quiet

\* SendMelt only sends a request.
LEMMA SafeSendMelt ==
    ASSUME IInv, NEW d \in Devices, SendMelt(d)
    PROVE  Knowledge' /\ ClosedIsSpent'
<1>1. UNCHANGED <<mint, quote>>
  BY DEF SendMelt, mintVars
<1>2. Grows
  BY <1>1, SameGrows
<1>3. Learned'
  <2>1. FitsPc(proc[d]["leased"], proc[d]["leased"].pc, mint, quote)
    BY KnownFits, LeasedIsSlot
  <2>2. FitsPc(proc[d]["leased"], "meltWait", mint', quote')
    BY <1>1, <2>1, SMT
       DEF SendMelt, FitsPc, Fits, At, NothingLearned, SwapSteps, MeltSteps,
           PaidSteps, GiveBackSteps
  <2>3. QED
    BY <1>2, <2>2, GotoLearned, LeasedIsSlot DEF SendMelt, Steps
<1>4. Backed'
  BY <1>2, IInvParts, BackedGrows DEF SendMelt
<1>5. QED
  BY <1>1, <1>3, <1>4, Quiet

\* Guard writes nothing.
LEMMA SafeGuard ==
    ASSUME IInv, NEW d \in Devices, Guard(d)
    PROVE  Knowledge' /\ ClosedIsSpent'
<1>1. UNCHANGED <<mint, quote>>
  BY DEF Guard, mintVars
<1>2. Grows
  BY <1>1, SameGrows
<1>3. Learned'
  <2>1. FitsPc(proc[d]["leased"], proc[d]["leased"].pc, mint, quote)
    BY KnownFits, LeasedIsSlot
  <2>2. FitsPc(proc[d]["leased"], "ask", mint', quote')
    BY <1>1, <2>1, SMT
       DEF Guard, FitsPc, Fits, At, NothingLearned, SwapSteps, MeltSteps, PaidSteps,
           GiveBackSteps
  <2>3. QED
    BY <1>2, <2>2, GotoLearned, LeasedIsSlot DEF Guard, Steps
<1>4. Backed'
  BY <1>2, IInvParts, BackedGrows DEF Guard
<1>5. QED
  BY <1>1, <1>3, <1>4, Quiet

\* Hand writes rows handedOut, never spent.
LEMMA SafeHand ==
    ASSUME IInv, NEW d \in Devices, Hand(d)
    PROVE  Knowledge' /\ ClosedIsSpent'
<1>1. UNCHANGED <<mint, quote>>
  BY DEF Hand, mintVars
<1>2. Grows
  BY <1>1, SameGrows
<1>3. Learned'
  <2>1. FitsPc(proc[d]["leased"], proc[d]["leased"].pc, mint, quote)
    BY KnownFits, LeasedIsSlot
  <2>2. FitsPc(proc[d]["leased"], "issue", mint', quote')
    BY <1>1, <2>1, SMT
       DEF Hand, FitsPc, Fits, At, NothingLearned, SwapSteps, MeltSteps, PaidSteps,
           GiveBackSteps
  <2>3. QED
    BY <1>2, <2>2, GotoLearned, LeasedIsSlot DEF Hand, Steps
<1>4. Backed'
  BY <1>1, <1>2, IInvParts, PutRowsBacked, BackedGrows DEF Hand
<1>5. QED
  BY <1>1, <1>3, <1>4, Quiet

\* Issue closes no operation.
LEMMA SafeIssue ==
    ASSUME IInv, NEW d \in Devices, Issue(d)
    PROVE  Knowledge' /\ ClosedIsSpent'
<1>1. UNCHANGED <<mint, quote>>
  BY DEF Issue, mintVars
<1>2. Grows
  BY <1>1, SameGrows
<1>3. Learned'
  <2>1. FitsPc(proc[d]["leased"], proc[d]["leased"].pc, mint, quote)
    BY KnownFits, LeasedIsSlot
  <2>2. QED
    BY <1>2, GotoLearned, LeasedIsSlot DEF Issue, Steps
<1>4. Backed'
  <2>1. Funded
    BY FundedAt, LeasedIsSlot DEF Issue, At, NothingLearned
  <2>2. QED
    BY <1>1, <1>2, <2>1, IInvParts, PutOpBacked, BackedGrows DEF Issue, Closed
<1>5. QED
  BY <1>1, <1>3, <1>4, Quiet

\* StoreOperation may replace an operation, by an open one.
LEMMA SafeStoreOperation ==
    ASSUME IInv, NEW d \in Devices, NEW s \in Slots, StoreOperation(d, s)
    PROVE  Knowledge' /\ ClosedIsSpent'
<1>1. UNCHANGED <<mint, quote>>
  BY DEF StoreOperation, mintVars
<1>2. Grows
  BY <1>1, SameGrows
<1>3. Learned'
  <2>1. FitsPc(proc[d][s], proc[d][s].pc, mint, quote)
    BY KnownFits
  <2>2. FitsPc(proc[d][s], "rows", mint', quote')
    BY <1>1, <2>1, SMT
       DEF StoreOperation, FitsPc, Fits, At, NothingLearned, SwapSteps, MeltSteps,
           PaidSteps, GiveBackSteps
  <2>3. QED
    BY <1>2, <2>2, GotoLearned DEF StoreOperation, Steps
<1>4. Backed'
  <2>1. Funded
    BY FundedAt DEF StoreOperation, At, NothingLearned
  <2>2. QED
    BY <1>1, <2>1, IInvParts, PutOpBacked DEF StoreOperation, Closed
<1>5. QED
  BY <1>1, <1>3, <1>4, Quiet

\* MarkSpent acts on an old answer, but spent proofs stay spent.
LEMMA SafeMarkSpent ==
    ASSUME IInv, NEW d \in Devices, NEW s \in Slots, MarkSpent(d, s)
    PROVE  Knowledge' /\ ClosedIsSpent'
<1>1. UNCHANGED <<mint, quote>>
  BY DEF MarkSpent, mintVars
<1>2. Grows
  BY <1>1, SameGrows
<1>3. Learned'
  <2>1. FitsPc(proc[d][s], proc[d][s].pc, mint, quote)
    BY KnownFits
  <2>2. FitsPc(proc[d][s], "close", mint', quote')
    BY <1>1, <2>1, SMT
       DEF MarkSpent, FitsPc, Fits, At, NothingLearned, SwapSteps, MeltSteps,
           PaidSteps, GiveBackSteps
  <2>3. QED
    BY <1>2, <2>2, GotoLearned DEF MarkSpent, Steps
<1>4. Backed'
  <2>1. \A p \in Proofs : p \in ReportedSpent(d, s) => mint[p] = "spent"
    BY DEF IInv, Knowledge, StillTrue, ReportedSpent, Answers
  <2>2. QED
    BY <1>1, <2>1, IInvParts, PutRowsBacked DEF MarkSpent, Stored
<1>5. QED
  BY <1>1, <1>3, <1>4, Quiet

\* Close counts rows, and a spent row has a spent proof.
LEMMA SafeClose ==
    ASSUME IInv, NEW d \in Devices, NEW s \in Slots, Close(d, s)
    PROVE  Knowledge' /\ ClosedIsSpent'
<1>1. UNCHANGED <<mint, quote>>
  BY DEF Close, mintVars
<1>2. Grows
  BY <1>1, SameGrows
<1>3. Learned'
  <2>1. FitsPc(proc[d][s], proc[d][s].pc, mint, quote)
    BY KnownFits
  <2>2. proc[d][s].task = "release" => FitsPc(proc[d][s], "swap", mint', quote')
    BY <1>1, <2>1, SMT
       DEF Close, FitsPc, Fits, At, NothingLearned, SwapSteps, MeltSteps, PaidSteps,
           GiveBackSteps
  <2>3. QED
    BY <1>2, <2>2, GotoLearned DEF Close, Steps
<1>4. Backed'
  <2>1. Funded
    BY FundedAt DEF Close, At, NothingLearned
  <2>2. QED
    BY <1>1, <2>1, IInvParts, CloseIfSpentBacked DEF Close
<1>5. QED
  BY <1>1, <1>3, <1>4, Quiet

\* PaidRows: a paid quote has spent the proofs.
LEMMA SafePaidRows ==
    ASSUME IInv, NEW d \in Devices, NEW s \in Slots, PaidRows(d, s)
    PROVE  Knowledge' /\ ClosedIsSpent'
<1>1. UNCHANGED <<mint, quote>>
  BY DEF PaidRows, mintVars
<1>2. Grows
  BY <1>1, SameGrows
<1>3. Learned'
  <2>1. FitsPc(proc[d][s], proc[d][s].pc, mint, quote)
    BY KnownFits
  <2>2. FitsPc(proc[d][s], "paidOp", mint', quote')
    BY <1>1, <2>1, SMT
       DEF PaidRows, FitsPc, Fits, At, NothingLearned, SwapSteps, MeltSteps,
           PaidSteps, GiveBackSteps
  <2>3. QED
    BY <1>2, <2>2, GotoLearned DEF PaidRows, Steps
<1>4. Backed'
  <2>1. AllSpent
    BY MeltKnown
       DEF PaidRows, At, IInv, Knowledge, MintConsistent, StillTrue, PaidSteps,
           MeltSteps, AllSpent
  <2>2. QED
    BY <1>1, <2>1, IInvParts, PutRowsBacked DEF PaidRows, AllSpent
<1>5. QED
  BY <1>1, <1>3, <1>4, Quiet

\* PaidOp closes by counting rows, or stores the envelope first.
LEMMA SafePaidOp ==
    ASSUME IInv, NEW d \in Devices, NEW s \in Slots, PaidOp(d, s)
    PROVE  Knowledge' /\ ClosedIsSpent'
<1>1. UNCHANGED <<mint, quote>>
  BY DEF PaidOp, mintVars
<1>2. Grows
  BY <1>1, SameGrows
<1>3. Learned'
  <2>1. FitsPc(proc[d][s], proc[d][s].pc, mint, quote)
    BY KnownFits
  <2>2. Fits("store", proc[d][s].task, "paidOp", proc[d][s].status, proc[d][s].answers, proc[d][s].melt,
             mint', quote')
    BY <1>1, <2>1, SMT
       DEF PaidOp, FitsPc, Fits, At, NothingLearned, SwapSteps, MeltSteps, PaidSteps,
           GiveBackSteps
  <2>3. FitsPc(proc[d][s], "paidMelt", mint', quote')
    BY <1>1, <2>1, SMT
       DEF PaidOp, FitsPc, Fits, At, NothingLearned, SwapSteps, MeltSteps, PaidSteps,
           GiveBackSteps
  <2>4. QED
    BY <1>2, <2>2, <2>3, StoreFirstLearned, GotoLearned DEF PaidOp, Steps
<1>4. Backed'
  <2>1. Funded
    BY FundedAt DEF PaidOp, At, NothingLearned
  <2>2. QED
    BY <1>1, <1>2, <2>1, IInvParts, CloseIfSpentBacked, BackedGrows DEF PaidOp
<1>5. QED
  BY <1>1, <1>3, <1>4, Quiet

\* GiveBack writes held rows only, or stores the envelope first.
LEMMA SafeGiveBack ==
    ASSUME IInv, NEW d \in Devices, NEW s \in Slots, GiveBack(d, s)
    PROVE  Knowledge' /\ ClosedIsSpent'
<1>1. UNCHANGED <<mint, quote>>
  BY DEF GiveBack, mintVars
<1>2. Grows
  BY <1>1, SameGrows
<1>3. Learned'
  <2>1. FitsPc(proc[d][s], proc[d][s].pc, mint, quote)
    BY KnownFits
  <2>2. Fits("store", proc[d][s].task, "giveBack", proc[d][s].status, proc[d][s].answers, proc[d][s].melt,
             mint', quote')
    BY <1>1, <2>1, SMT
       DEF GiveBack, FitsPc, Fits, At, NothingLearned, SwapSteps, MeltSteps,
           PaidSteps, GiveBackSteps
  <2>3. FitsPc(proc[d][s], "closeMelt", mint', quote')
    BY <1>1, <2>1, SMT
       DEF GiveBack, FitsPc, Fits, At, NothingLearned, SwapSteps, MeltSteps,
           PaidSteps, GiveBackSteps
  <2>4. QED
    BY <1>2, <2>2, <2>3, StoreFirstLearned, GotoLearned DEF GiveBack, Steps
<1>4. Backed'
  BY <1>1, <1>2, IInvParts, PutRowsUnderBacked, BackedGrows DEF GiveBack, AllHeld
<1>5. QED
  BY <1>1, <1>3, <1>4, Quiet

\* PaidMelt records what the mint had said, and PAID is final.
LEMMA SafePaidMelt ==
    ASSUME IInv, NEW d \in Devices, NEW s \in Slots, PaidMelt(d, s)
    PROVE  Knowledge' /\ ClosedIsSpent'
<1>1. UNCHANGED <<mint, quote>>
  BY DEF PaidMelt, mintVars
<1>2. Grows
  BY <1>1, SameGrows
<1>3. Learned'
  <2>1. FitsPc(proc[d][s], proc[d][s].pc, mint, quote)
    BY KnownFits
  <2>2. QED
    BY <1>2, GotoLearned DEF PaidMelt, Steps
<1>4. Backed'
  <2>1. Funded
    BY FundedAt DEF PaidMelt, At, NothingLearned
  <2>2. proc[d][s].melt \in Melts /\ quote[proc[d][s].melt] = "PAID"
    BY MeltKnown DEF PaidMelt, At, IInv, Knowledge, StillTrue, PaidSteps, MeltSteps
  <2>3. QED
    BY <1>1, <2>1, <2>2, IInvParts, PutMeltBacked DEF PaidMelt, MeltOf
<1>5. QED
  BY <1>1, <1>3, <1>4, Quiet

\* CloseMelt records a melt that is not paid.
LEMMA SafeCloseMelt ==
    ASSUME IInv, NEW d \in Devices, NEW s \in Slots, CloseMelt(d, s)
    PROVE  Knowledge' /\ ClosedIsSpent'
<1>1. UNCHANGED <<mint, quote>>
  BY DEF CloseMelt, mintVars
<1>2. Grows
  BY <1>1, SameGrows
<1>3. Learned'
  <2>1. FitsPc(proc[d][s], proc[d][s].pc, mint, quote)
    BY KnownFits
  <2>2. QED
    BY <1>2, GotoLearned DEF CloseMelt, Steps
<1>4. Backed'
  <2>1. Funded
    BY FundedAt DEF CloseMelt, At, NothingLearned
  <2>2. proc[d][s].melt \in Melts /\ proc[d][s].status # "paid"
    BY MeltKnown DEF CloseMelt, At, IInv, Knowledge, StillTrue, GiveBackSteps, MeltSteps
  <2>3. QED
    BY <1>1, <2>1, <2>2, IInvParts, PutMeltBacked DEF CloseMelt, MeltOf, Status
<1>5. QED
  BY <1>1, <1>3, <1>4, Quiet

\* Record opens a melt.
LEMMA SafeRecord ==
    ASSUME IInv, NEW d \in Devices, Record(d)
    PROVE  Knowledge' /\ ClosedIsSpent'
<1>1. UNCHANGED <<mint, quote>>
  BY DEF Record, mintVars
<1>2. Grows
  BY <1>1, SameGrows
<1>3. Learned'
  <2>1. FitsPc(proc[d]["leased"], proc[d]["leased"].pc, mint, quote)
    BY KnownFits, LeasedIsSlot
  <2>2. FitsPc(proc[d]["leased"], "hold", mint', quote')
    BY <1>1, <2>1, SMT
       DEF Record, FitsPc, Fits, At, NothingLearned, SwapSteps, MeltSteps, PaidSteps,
           GiveBackSteps
  <2>3. QED
    BY <1>2, <2>2, GotoLearned, LeasedIsSlot DEF Record, Steps
<1>4. Backed'
  <2>1. Funded
    BY FundedAt, LeasedIsSlot DEF Record, At, NothingLearned
  <2>2. proc[d]["leased"].melt \in Melts
    BY LeasedMelt DEF Record, At, IInv, MeltSteps
  <2>3. QED
    BY <1>1, <2>1, <2>2, IInvParts, PutMeltBacked DEF Record, MeltOf
<1>5. QED
  BY <1>1, <1>3, <1>4, Quiet

\* Hold writes held rows only.
LEMMA SafeHold ==
    ASSUME IInv, NEW d \in Devices, Hold(d)
    PROVE  Knowledge' /\ ClosedIsSpent'
<1>1. UNCHANGED <<mint, quote>>
  BY DEF Hold, mintVars
<1>2. Grows
  BY <1>1, SameGrows
<1>3. Learned'
  <2>1. FitsPc(proc[d]["leased"], proc[d]["leased"].pc, mint, quote)
    BY KnownFits, LeasedIsSlot
  <2>2. FitsPc(proc[d]["leased"], "sendMelt", mint', quote')
    BY <1>1, <2>1, SMT
       DEF Hold, FitsPc, Fits, At, NothingLearned, SwapSteps, MeltSteps, PaidSteps,
           GiveBackSteps
  <2>3. QED
    BY <1>2, <2>2, GotoLearned, LeasedIsSlot DEF Hold, Steps
<1>4. Backed'
  BY <1>1, IInvParts, PutRowsUnderBacked DEF Hold, AllHeld
<1>5. QED
  BY <1>1, <1>3, <1>4, Quiet

\* Book touches no row of the envelope.
LEMMA SafeBook ==
    ASSUME IInv, NEW d \in Devices, Book(d)
    PROVE  Knowledge' /\ ClosedIsSpent'
<1>1. UNCHANGED <<mint, quote>>
  BY DEF Book, mintVars
<1>2. Grows
  BY <1>1, SameGrows
<1>3. Learned'
  <2>1. FitsPc(proc[d]["leased"], proc[d]["leased"].pc, mint, quote)
    BY KnownFits, LeasedIsSlot
  <2>2. FitsPc(proc[d]["leased"], "freeRows", mint', quote')
    BY <1>1, <2>1, SMT
       DEF Book, FitsPc, Fits, At, NothingLearned, SwapSteps, MeltSteps, PaidSteps,
           GiveBackSteps
  <2>3. QED
    BY <1>2, <2>2, GotoLearned, LeasedIsSlot DEF Book, Steps
<1>4. Backed'
  BY SMT
     DEF IInv, Knowledge, Backed, StoresBacked, ClosedIsSpent, Funded, Book, mintVars
<1>5. QED
  BY <1>1, <1>3, <1>4, Quiet

\* FreeRows: the mint took in the swap every proof that it had reported unspent.
LEMMA SafeFreeRows ==
    ASSUME IInv, NEW d \in Devices, FreeRows(d)
    PROVE  Knowledge' /\ ClosedIsSpent'
<1>1. UNCHANGED <<mint, quote>>
  BY DEF FreeRows, mintVars
<1>2. Grows
  BY <1>1, SameGrows
<1>3. Learned'
  <2>1. FitsPc(proc[d]["leased"], proc[d]["leased"].pc, mint, quote)
    BY KnownFits, LeasedIsSlot
  <2>2. FitsPc(proc[d]["leased"], "returned", mint', quote')
    BY <1>1, <2>1, SMT
       DEF FreeRows, FitsPc, Fits, At, NothingLearned, SwapSteps, MeltSteps,
           PaidSteps, GiveBackSteps
  <2>3. QED
    BY <1>2, <2>2, GotoLearned, LeasedIsSlot DEF FreeRows, Steps
<1>4. Backed'
  <2>1. \A p \in Proofs : p \in ReportedUnspent(d, "leased") => mint[p] = "spent"
    BY LeasedIsSlot
       DEF FreeRows, At, IInv, Knowledge, StillTrue, ReportedUnspent, Answers
  <2>2. QED
    BY <1>1, <2>1, IInvParts, PutRowsBacked DEF FreeRows, Stored
<1>5. QED
  BY <1>1, <1>3, <1>4, Quiet

\* Returned: what was not swapped had been reported spent.
LEMMA SafeReturned ==
    ASSUME IInv, NEW d \in Devices, Returned(d)
    PROVE  Knowledge' /\ ClosedIsSpent'
<1>1. UNCHANGED <<mint, quote>>
  BY DEF Returned, mintVars
<1>2. Grows
  BY <1>1, SameGrows
<1>3. Learned'
  <2>1. FitsPc(proc[d]["leased"], proc[d]["leased"].pc, mint, quote)
    BY KnownFits, LeasedIsSlot
  <2>2. QED
    BY <1>2, GotoLearned, LeasedIsSlot DEF Returned, Steps
<1>4. Backed'
  <2>1. Funded
    BY FundedAt, LeasedIsSlot DEF Returned, At, NothingLearned
  <2>2. AllSpent
    BY LeasedIsSlot, SMT
       DEF Returned, At, IInv, Knowledge, StillTrue, SwapSteps, AllSpent
  <2>3. QED
    BY <1>1, <2>1, <2>2, IInvParts, PutOpBacked DEF Returned
<1>5. QED
  BY <1>1, <1>3, <1>4, Quiet

\* Start claims nothing yet.
LEMMA SafeStart ==
    ASSUME IInv, NEW d \in Devices, NEW task \in Tasks[d], Start(d, task)
    PROVE  Knowledge' /\ ClosedIsSpent'
<1>1. UNCHANGED <<mint, quote>>
  BY DEF Start, mintVars
<1>2. Grows
  BY <1>1, SameGrows
<1>3. Learned'
  <2>1. FitsAt([Ended EXCEPT !.task = task, !.pc = "load", !.next = LoadedStep(task)], mint', quote')
    BY SMT
       DEF FitsAt, Fits, Ended, NoAnswers, LoadedStep, NothingLearned, SwapSteps,
           MeltSteps, PaidSteps, GiveBackSteps
  <2>2. QED
    BY <1>2, <2>1, SlotOfTyped, ContinueLearned DEF Start
<1>4. Backed'
  BY <1>2, IInvParts, BackedGrows DEF Start
<1>5. QED
  BY <1>1, <1>3, <1>4, Quiet

\* StartResume: a stored melt is of a funded key.
LEMMA SafeStartResume ==
    ASSUME IInv, NEW d \in Devices, NEW m \in Melts, StartResume(d, m)
    PROVE  Knowledge' /\ ClosedIsSpent'
<1>1. UNCHANGED <<mint, quote>>
  BY DEF StartResume, mintVars
<1>2. Grows
  BY <1>1, SameGrows
<1>3. Learned'
  <2>1. \A p \in Proofs : mint[p] # "unsigned"
    BY IInvParts DEF StartResume, Backed, StoresBacked, Funded
  <2>2. FitsAt([Ended EXCEPT !.task = "resume", !.pc = "askQuote", !.melt = m], mint', quote')
    BY <1>1, <2>1, SMT
       DEF FitsAt, Fits, Ended, NoAnswers, NothingLearned, SwapSteps, MeltSteps,
           PaidSteps, GiveBackSteps
  <2>3. QED
    BY <1>2, <2>2, LeasedIsSlot, ContinueLearned DEF StartResume
<1>4. Backed'
  BY <1>2, IInvParts, BackedGrows DEF StartResume
<1>5. QED
  BY <1>1, <1>3, <1>4, Quiet

\* StartLate spends rows of a paid melt only.
LEMMA SafeStartLate ==
    ASSUME IInv, NEW d \in Devices, NEW m \in Melts, StartLate(d, m)
    PROVE  Knowledge' /\ ClosedIsSpent'
<1>1. UNCHANGED <<mint, quote>>
  BY DEF StartLate, mintVars
<1>2. Grows
  BY <1>1, SameGrows
<1>3. Learned'
  <2>1. \A p \in Proofs : mint[p] # "unsigned"
    BY IInvParts DEF StartLate, Backed, StoresBacked, Funded
  <2>2. CASE melt[d][m] = "paid"
    BY <1>2, <2>2, SameLearned DEF StartLate
  <2>3. CASE melt[d][m] # "paid"
    <3> DEFINE o == [Ended EXCEPT !.task = "late", !.pc = "giveBack", !.status = melt[d][m], !.melt = m]
    <3>1. melt[d][m] \in {"unpaid", "failed"}
      BY <2>3 DEF StartLate
    <3>2. FitsAt(o, mint', quote')
      BY <1>1, <2>1, <3>1, SMT
         DEF FitsAt, Fits, Ended, NoAnswers, NothingLearned, SwapSteps, MeltSteps,
             PaidSteps, GiveBackSteps
    <3>3. Continue(d, "free", o)
      BY <2>3 DEF StartLate
    <3> HIDE DEF o
    <3>4. QED
      BY <1>2, <3>2, <3>3, LeasedIsSlot, ContinueLearned
  <2>4. QED
    BY <2>2, <2>3
<1>4. Backed'
  <2>1. melt[d][m] = "paid" => AllSpent
    BY IInvParts DEF Backed, StoresBacked, MintConsistent, AllSpent
  <2>2. QED
    BY <1>1, <1>2, <2>1, IInvParts, PutRowsBacked, BackedGrows DEF StartLate, AllSpent
<1>5. QED
  BY <1>1, <1>3, <1>4, Quiet

\* Load inserts spent rows only under a closed operation.
LEMMA SafeLoad ==
    ASSUME IInv, NEW d \in Devices, NEW s \in Slots, Load(d, s)
    PROVE  Knowledge' /\ ClosedIsSpent'
<1>1. UNCHANGED <<mint, quote>>
  BY DEF Load, mintVars
<1>2. Grows
  BY <1>1, SameGrows
<1>3. Learned'
  <2> DEFINE o == proc[d][s]
             status == op[d]
  <2>1. FitsPc(o, o.pc, mint, quote) /\ o \in Operations /\ o.next \in Steps
    BY KnownFits, IInvParts, ProcTyped
  <2>2. status \in OpStatus \cup MeltStatus
    BY IInvParts, ProcTyped, SMT DEF TypeOK, OpStatus
  <2>3. o.pc = "load" /\ Funded
    BY IInvParts DEF Load, At, IInv, Knowledge, StoresBacked, NothingLearned
  <2>4. Fits(o.next, o.task, o.next, status, o.answers, o.melt, mint', quote')
    BY <1>1, <2>1, <2>3, SMT
       DEF Funded, FitsPc, Fits, NothingLearned, SwapSteps, MeltSteps, PaidSteps,
           GiveBackSteps
  <2>5. FitsAt([o EXCEPT !.pc = o.next, !.status = status], mint', quote')
    BY <2>1, <2>2, <2>4, SetStatusFits
  <2>6. Continue(d, s, Ended) \/ Continue(d, s, [o EXCEPT !.pc = o.next, !.status = status])
    BY SMT DEF Load, Continue
  <2> HIDE DEF status
  <2>7. QED
    BY <1>2, <2>5, <2>6, EndedFits, ContinueLearned
<1>4. Backed'
  <2>1. op[d] \in OpStatus
    BY IInvParts DEF TypeOK
  <2>2. op[d] \notin {"pending", "issued"} => AllSpent
    BY <2>1, IInvParts DEF Load, OpStatus, Closed, Backed, ClosedIsSpent, AllSpent
  <2>3. QED
    BY <1>1, <2>1, <2>2, IInvParts, ReconcileRowsBacked DEF Load
<1>5. QED
  BY <1>1, <1>3, <1>4, Quiet

\* StoreRows inserts held rows.
LEMMA SafeStoreRows ==
    ASSUME IInv, NEW d \in Devices, NEW s \in Slots, StoreRows(d, s)
    PROVE  Knowledge' /\ ClosedIsSpent'
<1>1. UNCHANGED <<mint, quote>>
  BY DEF StoreRows, mintVars
<1>2. Grows
  BY <1>1, SameGrows
<1>3. Learned'
  <2> DEFINE o == proc[d][s]
             status == IF o.next \in {"paidOp", "giveBack"} THEN o.status ELSE "pending"
  <2>1. FitsPc(o, o.pc, mint, quote) /\ o \in Operations /\ o.next \in Steps
    BY KnownFits, IInvParts, ProcTyped
  <2>2. status \in OpStatus \cup MeltStatus
    BY IInvParts, ProcTyped, SMT DEF TypeOK, OpStatus
  <2>3. o.pc = "rows" /\ Funded
    BY FundedAt DEF StoreRows, At, IInv, Knowledge, StoresBacked, NothingLearned
  <2>4. Fits(o.next, o.task, o.next, status, o.answers, o.melt, mint', quote')
    BY <1>1, <2>1, <2>3, SMT
       DEF Funded, FitsPc, Fits, NothingLearned, SwapSteps, MeltSteps, PaidSteps,
           GiveBackSteps
  <2>5. FitsAt([o EXCEPT !.pc = o.next, !.status = status], mint', quote')
    BY <2>1, <2>2, <2>4, SetStatusFits
  <2>6. Continue(d, s, Ended) \/ Continue(d, s, [o EXCEPT !.pc = o.next, !.status = status])
    BY SMT DEF StoreRows, Continue
  <2> HIDE DEF status
  <2>7. QED
    BY <1>2, <2>5, <2>6, EndedFits, ContinueLearned
<1>4. Backed'
  BY <1>1, IInvParts, ReconcileRowsBacked DEF StoreRows, OpStatus
<1>5. QED
  BY <1>1, <1>3, <1>4, Quiet

\* Ask: a funded key's proofs are unspent, pending or spent, and release goes on
\* without a pending one.
LEMMA SafeAsk ==
    ASSUME IInv, NEW d \in Devices, NEW s \in Slots, Ask(d, s)
    PROVE  Knowledge' /\ ClosedIsSpent'
<1>1. UNCHANGED <<mint, quote>>
  BY DEF Ask, mintVars
<1>2. Grows
  BY <1>1, SameGrows
<1>3. Learned'
  <2> DEFINE o == proc[d][s]
  <2>1. FitsPc(o, o.pc, mint, quote) /\ o \in Operations /\ "spentRows" \in Steps
    BY KnownFits, IInvParts, ProcTyped DEF Steps
  <2>2. mint \in [Proofs -> ProofStates]
    BY IInvParts DEF TypeOK
  <2>3. ~(o.task = "release" /\ \E p \in Proofs : mint[p] = "pending") =>
          Fits("spentRows", o.task, o.next, o.status, mint, o.melt, mint', quote')
    BY <1>1, <2>1, <2>2, SMT
       DEF Ask, At, FitsPc, Fits, ProofStates, NothingLearned, SwapSteps, MeltSteps,
           PaidSteps, GiveBackSteps
  <2>4. ~(o.task = "release" /\ \E p \in Proofs : mint[p] = "pending") =>
          FitsAt([o EXCEPT !.pc = "spentRows", !.answers = mint], mint', quote')
    BY <2>1, <2>2, <2>3, SetAnswersFits
  <2>5. QED
    BY <1>2, <2>4, EndedFits, ContinueLearned DEF Ask
<1>4. Backed'
  BY <1>2, IInvParts, BackedGrows DEF Ask
<1>5. QED
  BY <1>1, <1>3, <1>4, Quiet

\* AskQuote: PAID settles as paid, UNPAID as unpaid.
LEMMA SafeAskQuote ==
    ASSUME IInv, NEW d \in Devices, NEW s \in Slots, AskQuote(d, s)
    PROVE  Knowledge' /\ ClosedIsSpent'
<1>1. UNCHANGED <<mint, quote>>
  BY DEF AskQuote, mintVars
<1>2. Grows
  BY <1>1, SameGrows
<1>3. Learned'
  <2> DEFINE o == proc[d][s]
  <2>1. FitsPc(o, o.pc, mint, quote) /\ o \in Operations
    BY KnownFits, IInvParts, ProcTyped
  <2>2. quote[o.melt] = "PAID" => FitsPc(o, "paidRows", mint', quote')
    BY <1>1, <2>1, SMT
       DEF AskQuote, At, FitsPc, Fits, NothingLearned, SwapSteps, MeltSteps,
           PaidSteps, GiveBackSteps
  <2>3. FitsAt([o EXCEPT !.pc = "giveBack", !.status = "unpaid"], mint', quote')
    <3>1. Fits("giveBack", o.task, o.next, "unpaid", o.answers, o.melt, mint', quote')
      BY <1>1, <2>1, SMT
         DEF AskQuote, At, FitsPc, Fits, NothingLearned, SwapSteps, MeltSteps,
             PaidSteps, GiveBackSteps
    <3>2. "giveBack" \in Steps /\ "unpaid" \in OpStatus \cup MeltStatus
      BY DEF Steps, MeltStatus
    <3>3. QED
      BY <2>1, <3>1, <3>2, SetStatusFits
  <2>4. \/ quote[o.melt] = "PAID" /\ Goto(d, s, "paidRows")
        \/ Continue(d, s, [o EXCEPT !.pc = "giveBack", !.status = "unpaid"])
        \/ Goto(d, s, "end")
    BY Zenon DEF AskQuote, IsPaid, IsUnpaid, MeltOf
  <2>5. "paidRows" \in Steps /\ "end" \in Steps
    BY DEF Steps
  <2>6. CASE quote[o.melt] = "PAID" /\ Goto(d, s, "paidRows")
    BY <1>2, <2>2, <2>5, <2>6, GotoLearned
  <2>7. CASE Continue(d, s, [o EXCEPT !.pc = "giveBack", !.status = "unpaid"])
    BY <1>2, <2>3, <2>7, ContinueLearned
  <2>8. CASE Goto(d, s, "end")
    BY <1>2, <2>5, <2>8, GotoLearned
  <2>9. QED
    BY <2>4, <2>6, <2>7, <2>8
<1>4. Backed'
  BY <1>2, IInvParts, BackedGrows DEF AskQuote
<1>5. QED
  BY <1>1, <1>3, <1>4, Quiet

\* Check asks for a quote, which is not paid.
LEMMA SafeCheck ==
    ASSUME IInv, NEW d \in Devices, Check(d)
    PROVE  Knowledge' /\ ClosedIsSpent'
<1> DEFINE o == proc[d]["leased"]
<1>1. \/ quote' = quote /\ Goto(d, "leased", "end")
      \/ \E m \in Fresh : /\ quote' = [quote EXCEPT ![m] = "UNPAID"]
                          /\ Continue(d, "leased", [o EXCEPT !.pc = "record", !.melt = m])
  BY Zenon DEF Check
<1>2. UNCHANGED <<mint, storeVars>> /\ o.pc = "check"
  BY DEF Check, At
<1>3. \A m \in Melts : quote'[m] = "PAID" <=> quote[m] = "PAID"
  <2>1. quote' = quote \/ \E m \in Fresh : quote' = [quote EXCEPT ![m] = "UNPAID"]
    BY <1>1
  <2>2. quote \in [Melts -> QuoteStates]
    BY IInvParts DEF TypeOK
  <2>3. QED
    BY <2>1, <2>2, SMT DEF Fresh
<1>4. Grows
  BY <1>2, <1>3 DEF Grows
<1>5. Learned'
  <2>1. FitsPc(o, o.pc, mint, quote) /\ o \in Operations
    BY KnownFits, LeasedIsSlot, IInvParts, ProcTyped
  <2>2. ASSUME NEW m \in Fresh
        PROVE  FitsAt([o EXCEPT !.pc = "record", !.melt = m], mint', quote')
    <3>1. m \in Melts /\ "record" \in Steps
      BY DEF Fresh, Steps
    <3>2. Fits("record", o.task, o.next, o.status, o.answers, m, mint', quote')
      BY <1>2, <2>1, <3>1, SMT
         DEF FitsPc, Fits, NothingLearned, SwapSteps, MeltSteps, PaidSteps,
             GiveBackSteps
    <3>3. QED
      BY <2>1, <3>1, <3>2, SetMeltFits
  <2>3. "end" \in Steps
    BY DEF Steps
  <2>4. QED
    BY <1>1, <1>4, <2>2, <2>3, LeasedIsSlot, ContinueLearned, GotoLearned
<1>6. MintConsistent' /\ Backed'
  BY <1>2, <1>3, <1>4, IInvParts, BackedGrows DEF MintConsistent, Funded
<1>7. QED
  BY <1>5, <1>6, SafeParts

\* GiveUp asks the mint what came of the request, or ends.
LEMMA SafeGiveUp ==
    ASSUME IInv, NEW d \in Devices, GiveUp(d)
    PROVE  Knowledge' /\ ClosedIsSpent'
<1>1. UNCHANGED <<mint, quote>>
  BY DEF GiveUp, mintVars
<1>2. Grows
  BY <1>1, SameGrows
<1>3. Learned'
  <2> DEFINE o == proc[d]["leased"]
             lost == LostStep(o.pc)
  <2>1. FitsPc(o, o.pc, mint, quote)
    BY KnownFits, LeasedIsSlot
  <2>2. FitsPc(o, lost, mint', quote') /\ (lost \in Steps \/ lost = "end")
    BY <1>1, <2>1, SMT
       DEF GiveUp, LostStep, FitsPc, Fits, Steps, NothingLearned, SwapSteps,
           MeltSteps, PaidSteps, GiveBackSteps
  <2>3. Goto(d, "leased", lost) /\ "end" \in Steps
    BY DEF GiveUp, Steps
  <2> HIDE DEF lost
  <2>4. QED
    BY <1>2, <2>2, <2>3, LeasedIsSlot, GotoLearned
<1>4. Backed'
  BY <1>2, IInvParts, BackedGrows DEF GiveUp
<1>5. QED
  BY <1>1, <1>3, <1>4, Quiet

\* Crash forgets what operations knew.
LEMMA SafeCrash ==
    ASSUME IInv, NEW d \in Devices, Crash(d)
    PROVE  Knowledge' /\ ClosedIsSpent'
<1>1. UNCHANGED <<mint, quote>>
  BY DEF Crash, mintVars
<1>2. Grows
  BY <1>1, SameGrows
<1>3. Learned'
  <2>1. ASSUME NEW e \in Devices, NEW t \in Slots
        PROVE  FitsAt(proc'[e][t], mint', quote')
    <3>1. FitsAt(proc[e][t], mint, quote) /\ FitsAt(Ended, mint', quote')
      BY EndedFits, StillTrueFits, IInvParts
    <3>2. proc'[e][t] = IF e = d THEN Ended ELSE proc[e][t]
      BY IInvParts, SMT DEF TypeOK, Crash
    <3>3. QED
      BY <1>2, <3>1, <3>2, FitsGrows
  <2>2. QED
    BY <2>1, StillTrueFits
<1>4. Backed'
  BY <1>2, IInvParts, BackedGrows DEF Crash
<1>5. QED
  BY <1>1, <1>3, <1>4, Quiet

\* SyncOp brings a status that is right wherever it is read.
LEMMA SafeSyncOp ==
    ASSUME IInv, NEW d \in Devices, SyncOp(d)
    PROVE  Knowledge' /\ ClosedIsSpent'
<1>1. UNCHANGED <<mint, quote>>
  BY DEF SyncOp, mintVars
<1>2. Grows
  BY <1>1, SameGrows
<1>3. Learned'
  BY <1>2, SameLearned DEF SyncOp
<1>4. Backed'
  <2>1. newest.op \subseteq Devices
    BY IInvParts, SMT DEF TypeOK
  <2>2. PICK e \in newest.op : op' = [op EXCEPT ![d] = op[e]]
    BY DEF SyncOp
  <2>3. \A f \in Devices : op'[f] = IF f = d THEN op[e] ELSE op[f]
    BY <2>2, IInvParts, SMT DEF TypeOK
  <2>4. QED
    BY <1>1, <2>1, <2>3, IInvParts, SMT
       DEF SyncOp, Backed, StoresBacked, ClosedIsSpent, Funded
<1>5. QED
  BY <1>1, <1>3, <1>4, Quiet

\* SyncRow brings a state that is right wherever it is read.
LEMMA SafeSyncRow ==
    ASSUME IInv, NEW d \in Devices, NEW p \in Proofs, SyncRow(d, p)
    PROVE  Knowledge' /\ ClosedIsSpent'
<1>1. UNCHANGED <<mint, quote>>
  BY DEF SyncRow, mintVars
<1>2. Grows
  BY <1>1, SameGrows
<1>3. Learned'
  BY <1>2, SameLearned DEF SyncRow
<1>4. Backed'
  <2>1. newest.row[p] \subseteq Devices
    BY IInvParts, SMT DEF TypeOK
  <2>2. PICK e \in newest.row[p] : row' = [row EXCEPT ![d][p] = row[e][p]]
    BY DEF SyncRow
  <2>3. \A f \in Devices, q \in Proofs : row'[f][q] = IF f = d /\ q = p THEN row[e][p] ELSE row[f][q]
    BY <2>2, IInvParts, SMT DEF TypeOK
  <2>4. QED
    BY <1>1, <2>1, <2>3, IInvParts, SMT
       DEF SyncRow, Backed, StoresBacked, ClosedIsSpent, Funded
<1>5. QED
  BY <1>1, <1>3, <1>4, Quiet

\* SyncHolder brings no state.
LEMMA SafeSyncHolder ==
    ASSUME IInv, NEW d \in Devices, NEW p \in Proofs, SyncHolder(d, p)
    PROVE  Knowledge' /\ ClosedIsSpent'
<1>1. UNCHANGED <<mint, quote>>
  BY DEF SyncHolder, mintVars
<1>2. Grows
  BY <1>1, SameGrows
<1>3. Learned'
  BY <1>2, SameLearned DEF SyncHolder
<1>4. Backed'
  BY <1>1, IInvParts, RowsBacked DEF SyncHolder
<1>5. QED
  BY <1>1, <1>3, <1>4, Quiet

\* SyncMelt brings a status that is right wherever it is read.
LEMMA SafeSyncMelt ==
    ASSUME IInv, NEW d \in Devices, NEW m \in Melts, SyncMelt(d, m)
    PROVE  Knowledge' /\ ClosedIsSpent'
<1>1. UNCHANGED <<mint, quote>>
  BY DEF SyncMelt, mintVars
<1>2. Grows
  BY <1>1, SameGrows
<1>3. Learned'
  BY <1>2, SameLearned DEF SyncMelt
<1>4. Backed'
  <2>1. newest.melt[m] \subseteq Devices
    BY IInvParts, SMT DEF TypeOK
  <2>2. PICK e \in newest.melt[m] : melt' = [melt EXCEPT ![d][m] = melt[e][m]]
    BY DEF SyncMelt
  <2>3. \A f \in Devices, n \in Melts : melt'[f][n] = IF f = d /\ n = m THEN melt[e][m] ELSE melt[f][n]
    BY <2>2, IInvParts, SMT DEF TypeOK
  <2>4. QED
    BY <1>1, <2>1, <2>3, IInvParts, SMT
       DEF SyncMelt, Backed, StoresBacked, ClosedIsSpent, Funded
<1>5. QED
  BY <1>1, <1>3, <1>4, Quiet

\* The sender hears what is so, or hears nothing and claims nothing new.
LEMMA AnswerLearned ==
    ASSUME IInv, Grows, NEW r \in wire, NEW x, x \in Steps, Answer(r, x),
           Awaited(r) /\ x # "end" => FitsPc(proc[r.from]["leased"], x, mint', quote')
    PROVE  Learned'
<1> DEFINE o == proc[r.from]["leased"]
           lost == LostStep(WaitStep(r.kind))
<1>1. r.from \in Devices
  BY IInvParts, RequestTyped
<1>2. lost \in Steps
  BY SMT DEF LostStep, WaitStep, Steps
<1>3. Awaited(r) /\ lost # "end" => FitsPc(o, lost, mint', quote')
  <2>1. FitsAt(o, mint', quote')
    BY <1>1, LeasedIsSlot, StillTrueFits, FitsGrows, IInvParts
  <2>2. QED
    BY <2>1, SMT
       DEF Awaited, At, LostStep, WaitStep, FitsAt, FitsPc, Fits, NothingLearned,
           SwapSteps, MeltSteps, PaidSteps, GiveBackSteps
<1>4. CASE ~Awaited(r)
  BY <1>4, SameLearned DEF Answer
<1>5. CASE Awaited(r) /\ Goto(r.from, "leased", x)
  BY <1>1, <1>5, LeasedIsSlot, GotoLearned
<1>6. CASE Awaited(r) /\ Goto(r.from, "leased", lost)
  <2> HIDE DEF lost
  <2>1. QED
    BY <1>1, <1>2, <1>3, <1>6, LeasedIsSlot, GotoLearned
<1>7. QED
  BY <1>4, <1>5, <1>6 DEF Answer

\* A step of the mint that writes no store.
LEMMA MintSafe ==
    ASSUME IInv, Grows, MintConsistent', Learned', UNCHANGED storeVars
    PROVE  Knowledge' /\ ClosedIsSpent'
  BY IInvParts, BackedGrows, SafeParts

\* MintSign funds the whole key.
LEMMA SafeMintSign ==
    ASSUME IInv, NEW r \in wire, MintSign(r)
    PROVE  Knowledge' /\ ClosedIsSpent'
<1> DEFINE o == proc[r.from]["leased"]
<1>1. r.from \in Devices /\ "store" \in Steps /\ "reprobe" \in Steps
  BY IInvParts, RequestTyped DEF Steps
<1>2. FitsAt(o, mint, quote)
  BY <1>1, LeasedIsSlot, StillTrueFits, IInvParts
<1>3. CASE \A p \in Proofs : mint[p] = "unsigned"
  <2>1. mint' = [p \in Proofs |-> "unspent"] /\ Answer(r, "store") /\ UNCHANGED <<quote, storeVars>>
    BY <1>3 DEF MintSign
  <2>2. Grows
    BY <1>3, <2>1 DEF Grows
  <2>3. Awaited(r) => FitsPc(o, "store", mint', quote')
    BY <1>2, <2>1, SMT
       DEF MintSign, Awaited, At, WaitStep, FitsAt, FitsPc, Fits, NothingLearned,
           SwapSteps, MeltSteps, PaidSteps, GiveBackSteps
  <2>4. Learned'
    BY <1>1, <2>1, <2>2, <2>3, AnswerLearned
  <2>5. MintConsistent'
    BY <1>3, <2>1, IInvParts DEF MintConsistent, Funded
  <2>6. QED
    BY <2>1, <2>2, <2>4, <2>5, MintSafe
<1>4. CASE ~(\A p \in Proofs : mint[p] = "unsigned")
  <2>1. Answer(r, "reprobe") /\ UNCHANGED <<mint, quote, storeVars>>
    BY <1>4 DEF MintSign
  <2>2. Awaited(r) => FitsPc(o, "reprobe", mint', quote')
    BY <1>2, <2>1, SMT
       DEF MintSign, Awaited, At, WaitStep, FitsAt, FitsPc, Fits, NothingLearned,
           SwapSteps, MeltSteps, PaidSteps, GiveBackSteps
  <2>3. QED
    BY <1>1, <2>1, <2>2, SameGrows, AnswerLearned, MintSame, MintSafe, IInvParts
<1>5. QED
  BY <1>3, <1>4

\* MintSwap spends every proof its sender believes unspent.
LEMMA SafeMintSwap ==
    ASSUME IInv, NEW r \in wire, MintSwap(r)
    PROVE  Knowledge' /\ ClosedIsSpent'
<1> DEFINE o == proc[r.from]["leased"]
<1>1. r.from \in Devices /\ "book" \in Steps /\ "end" \in Steps
  BY IInvParts, RequestTyped DEF Steps
<1>2. FitsAt(o, mint, quote)
  BY <1>1, LeasedIsSlot, StillTrueFits, IInvParts
<1>3. CASE \A p \in r.proofs : mint[p] = "unspent"
  <2>1. /\ mint' = [p \in Proofs |-> IF p \in r.proofs THEN "spent" ELSE mint[p]]
        /\ Answer(r, "book") /\ UNCHANGED <<quote, storeVars>>
    BY <1>3 DEF MintSwap, Spend
  <2>2. Grows
    BY <2>1 DEF Grows
  <2>3. Awaited(r) => FitsPc(o, "book", mint', quote')
    <3>1. FitsAt(o, mint', quote')
      BY <1>2, <2>2, FitsGrows
    <3>2. QED
      BY <2>1, <3>1, SMT
         DEF MintSwap, Awaited, At, WaitStep, ReportedUnspent, Answers, FitsAt,
             FitsPc, Fits, NothingLearned, SwapSteps, MeltSteps, PaidSteps,
             GiveBackSteps
  <2>4. Learned'
    BY <1>1, <2>1, <2>2, <2>3, AnswerLearned
  <2>5. MintConsistent'
    BY <1>3, <2>1, IInvParts DEF MintConsistent, Funded
  <2>6. QED
    BY <2>1, <2>2, <2>4, <2>5, MintSafe
<1>4. CASE ~(\A p \in r.proofs : mint[p] = "unspent")
  BY <1>1, <1>4, SameGrows, AnswerLearned, MintSame, MintSafe, IInvParts DEF MintSwap
<1>5. QED
  BY <1>3, <1>4

\* MintMelt holds unspent proofs for a quote that is not paid.
LEMMA SafeMintMelt ==
    ASSUME IInv, NEW r \in wire, MintMelt(r)
    PROVE  Knowledge' /\ ClosedIsSpent'
<1> DEFINE o == proc[r.from]["leased"]
<1>1. r.from \in Devices /\ "askQuote" \in Steps /\ "giveBack" \in Steps /\ o \in Operations
      /\ "failed" \in OpStatus \cup MeltStatus
  BY IInvParts, RequestTyped, LeasedIsSlot, ProcTyped DEF Steps, MeltStatus
<1>2. FitsAt(o, mint, quote)
  BY <1>1, LeasedIsSlot, StillTrueFits, IInvParts
<1>3. \/ /\ quote' = [quote EXCEPT ![r.melt] = "PENDING"] /\ quote[r.melt] = "UNPAID"
         /\ mint' = [p \in Proofs |-> IF p \in r.proofs THEN "pending" ELSE mint[p]]
         /\ \A p \in r.proofs : mint[p] = "unspent"
         /\ Answer(r, "askQuote")
      \/ AnswerRejected(r) /\ UNCHANGED <<mint, quote>>
  BY Zenon DEF MintMelt
<1>4. \A m \in Melts : quote'[m] = "PAID" <=> quote[m] = "PAID"
  BY <1>3, IInvParts, SMT DEF TypeOK
<1>5. \A p \in Proofs : /\ mint[p] = "spent" => mint'[p] = "spent"
                        /\ mint[p] = "unsigned" <=> mint'[p] = "unsigned"
  <2>1. r.proofs \in SUBSET Proofs
    BY IInvParts, RequestTyped
  <2>2. QED
    BY <1>3, <2>1
<1>6. Grows
  BY <1>4, <1>5 DEF Grows
<1>7. MintConsistent'
  BY <1>4, <1>5, IInvParts DEF MintConsistent, Funded
<1>8. FitsAt(o, mint', quote')
  BY <1>2, <1>6, FitsGrows
<1>9. Awaited(r) => FitsPc(o, "askQuote", mint', quote')
  BY <1>8, SMT
     DEF MintMelt, Awaited, At, WaitStep, FitsAt, FitsPc, Fits, NothingLearned,
         SwapSteps, MeltSteps, PaidSteps, GiveBackSteps
<1>10. Awaited(r) => FitsAt([o EXCEPT !.pc = "giveBack", !.status = "failed"], mint', quote')
  <2>1. Awaited(r) => Fits("giveBack", o.task, o.next, "failed", o.answers, o.melt, mint', quote')
    BY <1>8, SMT
       DEF MintMelt, Awaited, At, WaitStep, FitsAt, Fits, NothingLearned, SwapSteps,
           MeltSteps, PaidSteps, GiveBackSteps
  <2>2. QED
    BY <1>1, <2>1, SetStatusFits
<1>11. Learned'
  <2>1. CASE Answer(r, "askQuote")
    BY <1>1, <1>6, <1>9, <2>1, AnswerLearned
  <2>2. CASE AnswerRejected(r)
    BY <1>1, <1>6, <1>9, <1>10, <2>2, LeasedIsSlot, GotoLearned, ContinueLearned,
       SameLearned
       DEF AnswerRejected
  <2>3. QED
    BY <1>3, <2>1, <2>2
<1>12. QED
  BY <1>6, <1>7, <1>11, MintSafe DEF MintMelt

\* MintSettles spends all the proofs with the payment, or frees them.
LEMMA SafeMintSettles ==
    ASSUME IInv, NEW m \in Melts, MintSettles(m)
    PROVE  Knowledge' /\ ClosedIsSpent'
<1>1. \A n \in Melts : n # m => quote'[n] = quote[n]
  BY IInvParts, SMT DEF MintSettles, TypeOK
<1>2. quote[m] # "PAID" /\ UNCHANGED <<storeVars, proc>>
  BY DEF MintSettles
<1>3. \/ AllSpent'
      \/ /\ quote'[m] = "UNPAID"
         /\ mint' = [p \in Proofs |-> IF mint[p] = "pending" THEN "unspent" ELSE mint[p]]
  BY IInvParts, SMT DEF MintSettles, Spend, AllSpent, TypeOK
<1>4. Grows
  BY <1>1, <1>2, <1>3 DEF Grows, AllSpent
<1>5. MintConsistent'
  BY <1>1, <1>2, <1>3, IInvParts DEF MintConsistent, Funded, AllSpent
<1>6. QED
  BY <1>2, <1>4, <1>5, SameLearned, MintSafe

\* Redeem spends one unspent proof.
LEMMA SafeRedeem ==
    ASSUME IInv, NEW p \in Proofs, Redeem(p)
    PROVE  Knowledge' /\ ClosedIsSpent'
<1>1. mint' = [q \in Proofs |-> IF q \in {p} THEN "spent" ELSE mint[q]] /\ mint[p] = "unspent"
  BY DEF Redeem, Spend
<1>2. Grows
  BY <1>1 DEF Grows, Redeem
<1>3. MintConsistent'
  BY <1>1, IInvParts DEF Redeem, MintConsistent, Funded
<1>4. QED
  BY <1>2, <1>3, SameLearned, MintSafe DEF Redeem

\* Nothing is funded, stored or known at first.
LEMMA InitIInv == Init => IInv
<1> SUFFICES ASSUME Init PROVE IInv
  OBVIOUS
<1>1. TypeOK
  <2>1. MintOK
    BY SMT DEF Init, MintOK, ProofStates, QuoteStates, Payees
  <2>2. StoreOK
    BY SMT DEF Init, StoreOK, OpStatus, RowStates, Holders, MeltStatus
  <2>3. ProcOK
    BY EndedTyped, SMT DEF Init, ProcOK
  <2>4. CallOK
    BY EnvelopeAssumption, SMT DEF Init, CallOK
  <2>5. QED
    BY <2>1, <2>2, <2>3, <2>4, Parts
<1>2. MintConsistent /\ Backed
  BY SMT DEF Init, MintConsistent, Backed, StoresBacked, ClosedIsSpent, Closed, Funded
<1>3. Learned
  <2>1. \A d \in Devices, s \in Slots : proc[d][s] = Ended
    BY DEF Init
  <2>2. QED
    BY <2>1, EndedFits, StillTrueFits
<1>4. QED
  BY <1>1, <1>2, <1>3 DEF IInv, Knowledge, Backed, Learned

\* Every step of a device keeps the inductive invariant.
LEMMA DeviceIInv ==
    ASSUME IInv, NEW d \in Devices, Device(d)
    PROVE  IInv'
<1>0. TypeOK /\ Knowledge
  BY DEF IInv
<1>1. CASE \E task \in Tasks[d] : Start(d, task)
  BY <1>0, <1>1, TypeStart, SafeStart DEF IInv
<1>2. CASE \E m \in Melts : StartResume(d, m) \/ StartLate(d, m)
  BY <1>0, <1>2, TypeStartResume, SafeStartResume, TypeStartLate, SafeStartLate DEF IInv
<1>3. ASSUME NEW s \in Slots, Shared(d, s)
      PROVE  IInv'
  <2>1. CASE Load(d, s)
    BY <1>0, <2>1, TypeLoad, SafeLoad DEF IInv
  <2>2. CASE LoadNothing(d, s)
    BY <1>0, <2>2, TypeLoadNothing, SafeLoadNothing DEF IInv
  <2>3. CASE Probe(d, s)
    BY <1>0, <2>3, TypeProbe, SafeProbe DEF IInv
  <2>4. CASE StoreOperation(d, s)
    BY <1>0, <2>4, TypeStoreOperation, SafeStoreOperation DEF IInv
  <2>5. CASE StoreRows(d, s)
    BY <1>0, <2>5, TypeStoreRows, SafeStoreRows DEF IInv
  <2>6. CASE Ask(d, s)
    BY <1>0, <2>6, TypeAsk, SafeAsk DEF IInv
  <2>7. CASE MarkSpent(d, s)
    BY <1>0, <2>7, TypeMarkSpent, SafeMarkSpent DEF IInv
  <2>8. CASE Close(d, s)
    BY <1>0, <2>8, TypeClose, SafeClose DEF IInv
  <2>9. CASE AskQuote(d, s)
    BY <1>0, <2>9, TypeAskQuote, SafeAskQuote DEF IInv
  <2>10. CASE PaidRows(d, s)
    BY <1>0, <2>10, TypePaidRows, SafePaidRows DEF IInv
  <2>11. CASE PaidOp(d, s)
    BY <1>0, <2>11, TypePaidOp, SafePaidOp DEF IInv
  <2>12. CASE PaidMelt(d, s)
    BY <1>0, <2>12, TypePaidMelt, SafePaidMelt DEF IInv
  <2>13. CASE GiveBack(d, s)
    BY <1>0, <2>13, TypeGiveBack, SafeGiveBack DEF IInv
  <2>14. CASE CloseMelt(d, s)
    BY <1>0, <2>14, TypeCloseMelt, SafeCloseMelt DEF IInv
  <2>15. QED
    BY <1>3, <2>1, <2>2, <2>3, <2>4, <2>5, <2>6, <2>7, <2>8, <2>9, <2>10, <2>11,
       <2>12, <2>13, <2>14
       DEF Shared
<1>4. CASE \E s \in Slots : Fail(d, s)
  BY <1>0, <1>4, TypeFail, SafeFail DEF IInv
<1>5. CASE LeasedOnly(d)
  <2>1. CASE FundFails(d)
    BY <1>0, <2>1, TypeFundFails, SafeFundFails DEF IInv
  <2>2. CASE SendFund(d)
    BY <1>0, <2>2, TypeSendFund, SafeSendFund DEF IInv
  <2>3. CASE Hand(d)
    BY <1>0, <2>3, TypeHand, SafeHand DEF IInv
  <2>4. CASE Issue(d)
    BY <1>0, <2>4, TypeIssue, SafeIssue DEF IInv
  <2>5. CASE Guard(d)
    BY <1>0, <2>5, TypeGuard, SafeGuard DEF IInv
  <2>6. CASE SendSwap(d)
    BY <1>0, <2>6, TypeSendSwap, SafeSendSwap DEF IInv
  <2>7. CASE Book(d)
    BY <1>0, <2>7, TypeBook, SafeBook DEF IInv
  <2>8. CASE FreeRows(d)
    BY <1>0, <2>8, TypeFreeRows, SafeFreeRows DEF IInv
  <2>9. CASE Returned(d)
    BY <1>0, <2>9, TypeReturned, SafeReturned DEF IInv
  <2>10. CASE Check(d)
    BY <1>0, <2>10, TypeCheck, SafeCheck DEF IInv
  <2>11. CASE Record(d)
    BY <1>0, <2>11, TypeRecord, SafeRecord DEF IInv
  <2>12. CASE Hold(d)
    BY <1>0, <2>12, TypeHold, SafeHold DEF IInv
  <2>13. CASE SendMelt(d)
    BY <1>0, <2>13, TypeSendMelt, SafeSendMelt DEF IInv
  <2>14. QED
    BY <1>5, <2>1, <2>2, <2>3, <2>4, <2>5, <2>6, <2>7, <2>8, <2>9, <2>10, <2>11,
       <2>12, <2>13
       DEF LeasedOnly
<1>6. CASE GiveUp(d)
  BY <1>0, <1>6, TypeGiveUp, SafeGiveUp DEF IInv
<1>7. CASE Crash(d)
  BY <1>0, <1>7, TypeCrash, SafeCrash DEF IInv
<1>8. CASE Sync(d)
  <2>1. CASE SyncOp(d)
    BY <1>0, <2>1, TypeSyncOp, SafeSyncOp DEF IInv
  <2>2. CASE \E p \in Proofs : SyncRow(d, p)
    BY <1>0, <2>2, TypeSyncRow, SafeSyncRow DEF IInv
  <2>3. CASE \E p \in Proofs : SyncHolder(d, p)
    BY <1>0, <2>3, TypeSyncHolder, SafeSyncHolder DEF IInv
  <2>4. CASE \E m \in Melts : SyncMelt(d, m)
    BY <1>0, <2>4, TypeSyncMelt, SafeSyncMelt DEF IInv
  <2>5. QED
    BY <1>8, <2>1, <2>2, <2>3, <2>4 DEF Sync
<1>9. QED
  BY <1>1, <1>2, <1>3, <1>4, <1>5, <1>6, <1>7, <1>8 DEF Device

\* Every step of the mint, or of a recipient, keeps it.
LEMMA MintIInv ==
    ASSUME IInv, Mint
    PROVE  IInv'
<1>0. TypeOK
  BY DEF IInv
<1>1. ASSUME NEW r \in wire, MintSign(r) PROVE IInv'
  BY <1>0, <1>1, TypeMintSign, SafeMintSign DEF IInv
<1>2. ASSUME NEW r \in wire, MintSwap(r) PROVE IInv'
  BY <1>0, <1>2, TypeMintSwap, SafeMintSwap DEF IInv
<1>3. ASSUME NEW r \in wire, MintMelt(r) PROVE IInv'
  BY <1>0, <1>3, TypeMintMelt, SafeMintMelt DEF IInv
<1>4. ASSUME NEW m \in Melts, MintSettles(m) PROVE IInv'
  BY <1>0, <1>4, TypeMintSettles, SafeMintSettles DEF IInv
<1>5. ASSUME NEW p \in Proofs, Redeem(p) PROVE IInv'
  BY <1>0, <1>5, TypeRedeem, SafeRedeem DEF IInv
<1>6. QED
  BY <1>1, <1>2, <1>3, <1>4, <1>5 DEF Mint

\* A stuttering step keeps it.
LEMMA StutterIInv ==
    ASSUME IInv, UNCHANGED vars
    PROVE  IInv'
<1>1. UNCHANGED <<mint, quote, mintVars, storeVars, proc, callVars>>
  BY DEF vars, mintVars
<1>2. TypeOK'
  BY <1>1, IInvParts, Unchanged, TypeParts
<1>3. Knowledge' /\ ClosedIsSpent'
  BY <1>1, IInvParts, SameGrows, SameLearned, BackedGrows, Quiet
<1>4. QED
  BY <1>2, <1>3 DEF IInv

\* For any number of devices, proofs, melts and crashes, late requests or not, the
\* inductive invariant holds always: the types, what operations in progress rely on
\* (Envelope.ts and Melt.ts act on answers and store reads that others have since
\* overtaken) and that nothing is written off.
THEOREM EnvelopeInvariant == Spec => []IInv
<1>1. ASSUME IInv, [Next]_vars PROVE IInv'
  BY <1>1, DeviceIInv, MintIInv, StutterIInv DEF Next
<1>2. QED
  BY <1>1, InitIInv, PTL DEF Spec

\* Every variable keeps its type, in every instance.
THEOREM TypeCorrect == Spec => []TypeOK
  BY EnvelopeInvariant, PTL DEF IInv

\* No device ever marks a row spent, or closes an operation (settleSpent,
\* closeIfSpent, finishPaid, release), whose proofs the mint has not spent.
THEOREM NeverBury == Spec => []ClosedIsSpent
  BY EnvelopeInvariant, PTL DEF IInv

\* What an operation in progress has learned from the mint or the store still holds
\* whenever it acts on it, however long ago it asked.
THEOREM KnowledgeHolds == Spec => []Knowledge
  BY EnvelopeInvariant, PTL DEF IInv

=============================================================================
