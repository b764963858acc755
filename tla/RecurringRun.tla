---------------------------- MODULE RecurringRun ----------------------------
(***************************************************************************)
(* One recurring payment order on several devices (recurring-payment/src,  *)
(* payRecurringRun.ts, useRecurringPaymentsScheduler.ts).  The order is a  *)
(* row that every device holds a copy of and syncs column by column, last  *)
(* writer wins; each device runs the scheduler on its own copy; the money  *)
(* of run k is an envelope at the mint, named by k alone.                  *)
(*                                                                         *)
(* A pass of the scheduler reads the row once and then awaits the mint and *)
(* the relays, so each call is a step and the row may change in between.   *)
(* A device stands for a tab as well: tabs share their row and, without    *)
(* Web Locks, are not kept apart.  An envelope is one proof here; what     *)
(* several proofs add (`mixed`) is the Envelope module's subject.          *)
(***************************************************************************)
EXTENDS Integers, FiniteSets

CONSTANTS
    Device,
    Knows,      \* the devices whose contacts hold the address the rail needs
    Rail,       \* "cashu" or "lightning", fixed when the order is created
    Period,     \* the interval, in units of the model's clock
    FirstDue,   \* firstDueAtSec of the new order
    MaxTime,    \* bound on the clock
    MaxRun,     \* bound on the number of a run
    UserOps,    \* what the user may do: "pause" (and resume), "edit", "delete"
    EditTimes,  \* the first due times the form may be given
    MaxUser,    \* bound on how often
    NoPass

ASSUME RecurringAssumption ==
    /\ Knows \subseteq Device
    /\ Rail \in {"cashu", "lightning"}
    /\ Period \in Nat \ {0} /\ FirstDue \in Nat /\ EditTimes \subseteq Nat
    /\ MaxTime \in Nat /\ MaxRun \in Nat /\ MaxUser \in Nat

Run == 0..MaxRun
Never == -1

VARIABLES
    now,        \* the clock, the same on every device
    row,        \* each device's copy of the order
    fresh,      \* per cell of the row: the devices that hold its newest value
    mem,        \* each device's session: known funded runs, settled checks, gate
    pass,       \* each device's scheduler pass, or NoPass
    mint,       \* per run: what the mint says of its envelope
    token,      \* per run: none, queued at a sender, sent (accepted by a relay)
    fundedFor,  \* history, per run: the due time it was funded for
    returned,   \* history: runs whose money went back to the balance
    picked,     \* history: due times a user chose when they had come already
    acts        \* user actions so far

worldVars == <<mint, token, fundedFor, returned>>
userVars == <<picked, acts>>
vars == <<now, row, fresh, mem, pass, worldVars, userVars>>

Larger(a, b) == IF a > b THEN a ELSE b

\* Mutants: the operands are swapped; the first due time at or after t.
NextDueSwapped(anchor, t) == anchor + Period * ((anchor - t) \div Period - 1)
NextDueFrom(anchor, t) ==
    IF anchor >= t THEN anchor
    ELSE anchor + Period * ((t - anchor + Period - 1) \div Period)

\* First due time strictly after t on the grid anchor, anchor + Period, ...
NextDueAfter(anchor, t) ==
    IF anchor > t THEN anchor
    ELSE anchor + Period * ((t - anchor) \div Period + 1)

\* Rows: `progress` is one column of two values; a delete is never undone.
Cells == {"progress", "anchor", "last", "paused"}
Columns(cell) ==
    CASE cell = "progress" -> {"count", "due"}
      [] cell = "last" -> {"failedAt"}
      [] OTHER -> {cell}

NewOrder == [count |-> 0, due |-> FirstDue, anchor |-> FirstDue,
             failedAt |-> Never, paused |-> FALSE, deleted |-> FALSE]

Fresh == [known |-> {}, settled |-> {}]

Init ==
    /\ now = 0
    /\ row = [d \in Device |-> NewOrder]
    /\ fresh = [c \in Cells |-> Device]
    /\ mem = [d \in Device |-> Fresh]
    /\ pass = [d \in Device |-> NoPass]
    /\ mint = [k \in Run |-> "absent"]
    /\ token = [k \in Run |-> "none"]
    /\ fundedFor = [k \in Run |-> Never]
    /\ returned = {}
    /\ picked = {}
    /\ acts = 0

-----------------------------------------------------------------------------
(* Patches (transitions.ts).  Each is computed from the order a pass or a  *)
(* screen read, and written over whatever the row holds by then.           *)

NextDueAfterRun(order) == NextDueAfter(order.anchor, Larger(now, order.due))

\* A device that holds the value already need not receive it.
Write(d, cells, order) ==
    /\ row' = [row EXCEPT ![d] = order]
    /\ fresh' = [c \in Cells |->
                    IF c \in cells
                    THEN {e \in Device :
                            \A col \in Columns(c) : row'[e][col] = order[col]}
                    ELSE fresh[c]]

\* Mutant: the count the row holds by now is moved on, not the run's own.
CountsUp(d, order, index) ==
    Write(d, {"progress", "last"},
          [row[d] EXCEPT !.count = @ + 1, !.due = NextDueAfterRun(order),
                         !.failedAt = Never])

RunPaid(d, order, index) ==
    Write(d, {"progress", "last"},
          [row[d] EXCEPT !.count = index + 1, !.due = NextDueAfterRun(order),
                         !.failedAt = Never])

RunSkipped(d, order) ==
    Write(d, {"progress", "last"},
          [row[d] EXCEPT !.count = order.count, !.due = NextDueAfterRun(order),
                         !.failedAt = Never])

RunFailed(d) == Write(d, {"last"}, [row[d] EXCEPT !.failedAt = now])

-----------------------------------------------------------------------------
(* A pass of the scheduler reads the row once.  The steps at which it then *)
(* waits while the row, the mint or the clock may move on:                 *)
(*   deliver  the run is open at the mint, which said it is unspent        *)
(*   melt     its proofs are at the mint, which pays or has paid           *)
(*   write    the run is out, runPaidPatch is still to be written          *)
(*   settle   the walk over a deleted order's envelopes is at `index`      *)
(* What it does before that touches nothing that others read or reads      *)
(* nothing that others write, and is one step with it.                     *)

Signed(k) == k \in Run /\ mint[k] # "absent"

At(d, step) == pass[d] # NoPass /\ pass[d].step = step
Begin(d, step) ==
    pass' = [pass EXCEPT ![d] =
        [step |-> step, index |-> row[d].count, clean |-> TRUE,
         order |-> [count |-> row[d].count, due |-> row[d].due,
                    anchor |-> row[d].anchor]]]
Goto(d, step) == pass' = [pass EXCEPT ![d].step = step]
End(d) == pass' = [pass EXCEPT ![d] = NoPass]

\* Ends of a run (settleRun) or period (skipPeriod).
EndFailed(d) == RunFailed(d) /\ End(d)
EndSkipped(d, order) == RunSkipped(d, order) /\ End(d)
EndQuietly(d) == End(d) /\ UNCHANGED <<row, fresh>>

-----------------------------------------------------------------------------
(* Recovery (recoverOrder), then planOrder and the first request of what   *)
(* it plans.                                                               *)

\* Mutant: a walk of the live order stands for the deleted one's.
CheckCount(order) == <<FALSE, order.count>>

CheckKey(order) == <<order.deleted, order.count>>

Unwalked(d) == CheckKey(row[d]) \notin mem[d].settled

\* The keys from the current run up to the first the mint never signed.
Walked(order) ==
    {k \in Run : order.count <= k /\ \A i \in order.count..k : Signed(i)}

AfterWalk(d) == [known |-> mem[d].known \cup Walked(row[d]),
                 settled |-> mem[d].settled \cup {CheckKey(row[d])}]

SpentRun(d) == Signed(row[d].count) /\ mint[row[d].count] = "spent"

\* What a session may know when it plans: the walk is done already, is done
\* now, or the mint does not answer.  A spent current run is not planned.
Recalls(d) ==
    {mem[d]} \cup (IF Unwalked(d) /\ ~SpentRun(d) THEN {AfterWalk(d)} ELSE {})

Idle(d) == pass[d] = NoPass /\ ~row[d].deleted

\* The walk pays a spent current run, due or not, paused or not; the mint is
\* asked once more, and may not answer.
WalkFindsPaid(d) ==
    /\ Idle(d) /\ Unwalked(d) /\ SpentRun(d)
    /\ mem' = [mem EXCEPT ![d] = AfterWalk(d)]
    /\ \/ Begin(d, "write") /\ UNCHANGED <<row, fresh>>
       \/ EndFailed(d)
    /\ UNCHANGED <<now, worldVars, userVars>>

Deadline(order) == NextDueAfter(order.anchor, order.due)
Over(order) == now >= Deadline(order)
Due(order) == ~order.paused /\ now >= order.due
GivesUp(order) ==
    order.failedAt # Never /\ order.failedAt >= order.due /\ Over(order)

\* Not due; or it waits for funds, a rate or the time of its next attempt.
PlanWaits(d) ==
    \E m \in Recalls(d) :
        /\ Idle(d) /\ (~Due(row[d]) \/ ~GivesUp(row[d]))
        /\ m # mem[d]
        /\ mem' = [mem EXCEPT ![d] = m]
        /\ UNCHANGED <<now, row, fresh, pass, worldVars, userVars>>

\* Given up at its end after a failure; or as unfunded, and then the mint was
\* asked for its envelope less than the retry delay ago, or did not answer.
PlanSkips(d) ==
    \E m \in Recalls(d) :
        /\ Idle(d) /\ Due(row[d])
        /\ GivesUp(row[d]) \/ (Over(row[d]) /\ row[d].count \notin m.known)
        /\ mem' = [mem EXCEPT ![d] = m]
        /\ EndSkipped(d, row[d])
        /\ UNCHANGED <<now, worldVars, userVars>>

MayRun(d) == Idle(d) /\ Due(row[d]) /\ ~GivesUp(row[d])
Learns(d, m, k) ==
    mem' = [mem EXCEPT ![d] = [m EXCEPT !.known = @ \cup {k}]]

\* Nobody to pay: the mint is only asked whether the run went out already.
SkipUnpayable(d) ==
    \E m \in Recalls(d) :
        /\ MayRun(d) /\ d \notin Knows
        /\ Signed(row[d].count) => mint[row[d].count] = "unspent"
        /\ mem' = [mem EXCEPT ![d] = m]
        /\ EndSkipped(d, row[d])
        /\ UNCHANGED <<now, worldVars, userVars>>

\* Envelope.open funds the run; its answer may be lost.
OpenNew(d) ==
    \E m \in Recalls(d) :
        LET k == row[d].count IN
        /\ MayRun(d) /\ d \in Knows
        /\ k \in Run /\ mint[k] = "absent"
        /\ mint' = [mint EXCEPT ![k] = "unspent"]
        /\ fundedFor' = [fundedFor EXCEPT ![k] = row[d].due]
        /\ \/ Begin(d, "deliver") /\ Learns(d, m, k) /\ UNCHANGED <<row, fresh>>
           \/ EndFailed(d) /\ mem' = [mem EXCEPT ![d] = m]
        /\ UNCHANGED <<now, token, returned, userVars>>

\* The envelope is there: what the mint says of it settles the run, or it is
\* delivered.  A device without the balance for a new one asked for it first.
OpenFound(d) ==
    \E m \in Recalls(d) :
        LET k == row[d].count IN
        /\ MayRun(d) /\ Signed(k)
        /\ CASE mint[k] = "spent" -> Begin(d, "write")
             [] mint[k] = "pending" -> End(d)
             [] mint[k] = "unspent" -> d \in Knows /\ Begin(d, "deliver")
        /\ Learns(d, m, k)
        /\ UNCHANGED <<now, row, fresh, worldVars, userVars>>

\* Busy, no answer, or the balance covers the amount but not the fee.
OpenFails(d) ==
    \E m \in Recalls(d) :
        /\ MayRun(d)
        /\ mem' = [mem EXCEPT ![d] = m]
        /\ \/ EndFailed(d)
           \/ ~Signed(row[d].count) /\ Over(row[d]) /\ EndSkipped(d, row[d])
        /\ UNCHANGED <<now, worldVars, userVars>>

-----------------------------------------------------------------------------
(* Delivery on the order's rail, and the end of a paid run.                *)

\* sendToken: a relay accepted the message, or it stays queued in the outbox.
Send(k, outcome) ==
    token' = [token EXCEPT ![k] =
        IF outcome = "queued" /\ @ = "sent" THEN "sent" ELSE outcome]

\* Mutant: a queued token counts as paid.
DeliverQueued(d) ==
    LET k == pass[d].index IN
    /\ At(d, "deliver") /\ Rail = "cashu"
    /\ Send(k, "sent") \/ Send(k, "queued")
    /\ Goto(d, "write")
    /\ UNCHANGED <<now, row, fresh, mem, mint, fundedFor, returned, userVars>>

\* The run is paid once a relay accepted the token, not when it was queued.
DeliverToken(d) ==
    LET k == pass[d].index IN
    /\ At(d, "deliver") /\ Rail = "cashu"
    /\ \/ Send(k, "sent") /\ Goto(d, "write")
       \/ Send(k, "queued") /\ End(d)
    /\ UNCHANGED <<now, row, fresh, mem, mint, fundedFor, returned, userVars>>

\* The mint takes what is still unspent, and pays.
Melt(d) ==
    LET k == pass[d].index IN
    /\ At(d, "deliver") /\ Rail = "lightning" /\ mint[k] = "unspent"
    /\ mint' = [mint EXCEPT ![k] = "pending"]
    /\ Goto(d, "melt")
    /\ UNCHANGED <<now, row, fresh, mem, token, fundedFor, returned, userVars>>

\* Its answer: paid, still pending, refused; or it is lost.
MeltAnswers(d) ==
    /\ At(d, "melt")
    /\ \/ mint[pass[d].index] = "spent" /\ Goto(d, "write")
            /\ UNCHANGED <<row, fresh>>
       \/ mint[pass[d].index] = "pending" /\ EndQuietly(d)
       \/ EndFailed(d)
    /\ UNCHANGED <<now, mem, worldVars, userVars>>

\* No invoice, no proofs here, no relay, busy; on Lightning no balance for
\* the fee reserve.
DeliverFails(d) ==
    /\ At(d, "deliver")
    /\ \/ EndFailed(d)
       \/ EndQuietly(d)
       \/ Rail = "lightning" /\ Over(pass[d].order) /\ EndSkipped(d, pass[d].order)
    /\ UNCHANGED <<now, mem, worldVars, userVars>>

\* settleRun: the patch is computed from the order the pass read, with the
\* time it is written.
WritePaid(d) ==
    /\ At(d, "write")
    /\ RunPaid(d, pass[d].order, pass[d].index)
    /\ End(d)
    /\ UNCHANGED <<now, mem, worldVars, userVars>>

-----------------------------------------------------------------------------
(* The walk over a deleted order's envelopes (settleDeletedRun).           *)

StartSettling(d) ==
    /\ pass[d] = NoPass /\ row[d].deleted /\ Unwalked(d)
    /\ Begin(d, "settle")
    /\ UNCHANGED <<now, row, fresh, mem, worldVars, userVars>>

SettledAll(d) ==
    /\ At(d, "settle") /\ ~Signed(pass[d].index)
    /\ mem' = [mem EXCEPT ![d].settled =
                IF pass[d].clean THEN @ \cup {<<TRUE, pass[d].order.count>>} ELSE @]
    /\ End(d)
    /\ UNCHANGED <<now, row, fresh, worldVars, userVars>>

SettleFails(d) ==
    /\ At(d, "settle")
    /\ End(d)
    /\ UNCHANGED <<now, row, fresh, mem, worldVars, userVars>>

NextEnvelope(d, clean) ==
    pass' = [pass EXCEPT ![d].index = @ + 1, ![d].clean = @ /\ clean]

SettleNothing(d) ==
    LET k == pass[d].index IN
    /\ At(d, "settle") /\ Signed(k) /\ mint[k] # "unspent"
    /\ NextEnvelope(d, mint[k] = "spent" \/ Rail = "cashu")
    /\ UNCHANGED <<now, row, fresh, mem, worldVars, userVars>>

\* Mutant: what a deleted order set aside goes back on either rail.
ReleaseAny(d) ==
    LET k == pass[d].index IN
    /\ At(d, "settle") /\ Signed(k) /\ mint[k] = "unspent"
    /\ NextEnvelope(d, TRUE)
    /\ mint' = [mint EXCEPT ![k] = "spent"] /\ returned' = returned \cup {k}
    /\ UNCHANGED <<now, row, fresh, mem, token, fundedFor, userVars>>

\* Lightning: nobody holds it, so it goes back to the balance; or the mint
\* refuses, or its answer is lost.
Release(d) ==
    LET k == pass[d].index IN
    /\ At(d, "settle") /\ Rail = "lightning" /\ Signed(k) /\ mint[k] = "unspent"
    /\ \E answered \in BOOLEAN : NextEnvelope(d, answered)
    /\ \/ mint' = [mint EXCEPT ![k] = "spent"] /\ returned' = returned \cup {k}
       \/ ~pass'[d].clean /\ UNCHANGED <<mint, returned>>
    /\ UNCHANGED <<now, row, fresh, mem, token, fundedFor, userVars>>

\* Cashu: it may be in the contact's chat already, so it is sent (again), or
\* left where it is: no contact, no relay, no proofs on this device.
SendDeleted(d) ==
    LET k == pass[d].index IN
    /\ At(d, "settle") /\ Rail = "cashu" /\ Signed(k) /\ mint[k] = "unspent"
    /\ \/ d \in Knows /\ \E outcome \in {"sent", "queued"} :
                Send(k, outcome) /\ NextEnvelope(d, outcome = "sent")
       \/ NextEnvelope(d, FALSE) /\ UNCHANGED token
    /\ UNCHANGED <<now, row, fresh, mem, mint, fundedFor, returned, userVars>>

-----------------------------------------------------------------------------
(* Sessions.                                                               *)

\* The app is closed or reloaded: only the row survives.
Restart(d) ==
    /\ mem' = [mem EXCEPT ![d] = Fresh]
    /\ End(d)
    /\ UNCHANGED <<now, row, fresh, worldVars, userVars>>

\* recoverEnvelopes, after a wallet restore.
CheckAgain(d) ==
    /\ pass[d] = NoPass
    /\ mem' = [mem EXCEPT ![d].settled = {}]
    /\ UNCHANGED <<now, row, fresh, pass, worldVars, userVars>>

-----------------------------------------------------------------------------
(* The user, on any device, and on the row that device holds.              *)

UserMay(op) == op \in UserOps /\ acts < MaxUser /\ acts' = acts + 1

Pause(d) ==
    /\ UserMay("pause") /\ ~row[d].deleted /\ ~row[d].paused
    /\ Write(d, {"paused"}, [row[d] EXCEPT !.paused = TRUE])
    /\ UNCHANGED <<now, mem, pass, worldVars, picked>>

Resume(d) ==
    /\ "pause" \in UserOps /\ ~row[d].deleted /\ row[d].paused
    /\ Write(d, {"paused", "progress"},
             [row[d] EXCEPT !.paused = FALSE,
                            !.due = IF @ > now THEN @
                                    ELSE NextDueAfter(row[d].anchor, now)])
    /\ UNCHANGED <<now, mem, pass, worldVars, userVars>>

\* The form takes no first due time before the current minute.
Edit(d, due) ==
    /\ UserMay("edit") /\ ~row[d].deleted /\ due >= now
    /\ Write(d, {"progress", "anchor"},
             [row[d] EXCEPT !.due = due, !.anchor = due])
    /\ picked' = picked \cup (IF due > now THEN {} ELSE {due})
    /\ UNCHANGED <<now, mem, pass, worldVars>>

Delete(d) ==
    /\ UserMay("delete") /\ ~row[d].deleted
    /\ Write(d, {}, [row[d] EXCEPT !.deleted = TRUE])
    /\ UNCHANGED <<now, mem, pass, worldVars, picked>>

-----------------------------------------------------------------------------
(* Sync, the mint, the relays, the contact and the clock.                  *)

\* Device e receives what d holds: the newest value of a cell wins.  A value
\* that is not the newest any more reaches nobody later than its successor.
Sync(d, e) ==
    LET cells == {c \in Cells : d \in fresh[c] /\ e \notin fresh[c]}
        Won(cell) == IF cell \in cells THEN row[d] ELSE row[e]
    IN
    /\ d # e
    /\ cells # {} \/ (row[d].deleted /\ ~row[e].deleted)
    /\ row' = [row EXCEPT ![e] =
                [count |-> Won("progress").count, due |-> Won("progress").due,
                 anchor |-> Won("anchor").anchor,
                 failedAt |-> Won("last").failedAt,
                 paused |-> Won("paused").paused,
                 deleted |-> row[d].deleted \/ row[e].deleted]]
    /\ fresh' = [c \in Cells |-> IF c \in cells THEN fresh[c] \cup {e} ELSE fresh[c]]
    /\ UNCHANGED <<now, mem, pass, worldVars, userVars>>

MeltResolves(k) ==
    /\ mint[k] = "pending"
    /\ \E answer \in {"spent", "unspent"} : mint' = [mint EXCEPT ![k] = answer]
    /\ UNCHANGED <<now, row, fresh, mem, pass, token, fundedFor, returned, userVars>>

\* The outbox of a device gets the queued message through.
QueueDrains(k) ==
    /\ token[k] = "queued"
    /\ token' = [token EXCEPT ![k] = "sent"]
    /\ UNCHANGED <<now, row, fresh, mem, pass, mint, fundedFor, returned, userVars>>

Redeem(k) ==
    /\ token[k] = "sent" /\ mint[k] = "unspent"
    /\ mint' = [mint EXCEPT ![k] = "spent"]
    /\ UNCHANGED <<now, row, fresh, mem, pass, token, fundedFor, returned, userVars>>

TimePasses ==
    /\ now < MaxTime
    /\ now' = now + 1
    /\ UNCHANGED <<row, fresh, mem, pass, worldVars, userVars>>

Scheduler(d) ==
    \/ WalkFindsPaid(d) \/ PlanWaits(d) \/ PlanSkips(d) \/ SkipUnpayable(d)
    \/ OpenNew(d) \/ OpenFound(d) \/ OpenFails(d)
    \/ DeliverToken(d) \/ Melt(d) \/ MeltAnswers(d)
    \/ DeliverFails(d) \/ WritePaid(d)
    \/ StartSettling(d) \/ SettledAll(d) \/ SettleFails(d)
    \/ SettleNothing(d) \/ Release(d) \/ SendDeleted(d)
    \/ Restart(d) \/ CheckAgain(d)

User(d) ==
    \/ Pause(d) \/ Resume(d) \/ Delete(d)
    \/ \E due \in EditTimes : Edit(d, due)

World ==
    \/ TimePasses
    \/ \E k \in Run : MeltResolves(k) \/ QueueDrains(k) \/ Redeem(k)
    \/ \E d, e \in Device : Sync(d, e)

Next == World \/ \E d \in Device : Scheduler(d) \/ User(d)

Spec == Init /\ [][Next]_vars

-----------------------------------------------------------------------------
(* Properties.                                                             *)

Orders == [count: Nat, due: Nat, anchor: Nat, failedAt: Nat \cup {Never},
           paused: BOOLEAN, deleted: BOOLEAN]
Passes == [step: {"deliver", "melt", "write", "settle"}, index: Nat, clean: BOOLEAN,
           order: [count: Nat, due: Nat, anchor: Nat]]

TypeOK ==
    /\ now \in Nat
    /\ row \in [Device -> Orders]
    /\ fresh \in [Cells -> SUBSET Device]
    /\ mem \in [Device -> [known: SUBSET Nat, settled: SUBSET (BOOLEAN \X Nat)]]
    /\ pass \in [Device -> Passes \cup {NoPass}]
    /\ mint \in [Run -> {"absent", "unspent", "pending", "spent"}]
    /\ token \in [Run -> {"none", "queued", "sent"}]
    /\ fundedFor \in [Run -> Nat \cup {Never}]
    /\ returned \subseteq Run
    /\ picked \subseteq Nat
    /\ acts \in Nat

\* "A stale write can cost a period, never pay one twice" (docs/runs.md):
\* whatever devices wrote over each other, no two envelopes are funded for
\* one due time, unless the user chose a due time that had come already.
OncePerPeriod ==
    \A i, j \in Run :
        (i < j /\ fundedFor[i] # Never /\ fundedFor[j] # Never)
            => \/ fundedFor[i] < fundedFor[j]
               \/ fundedFor[j] \in picked

PaidOut(k) == mint[k] = "spent" \/ token[k] = "sent"

\* Recovery walks up from runCount to the first key the mint never signed, on
\* any device: what it walks past or never reaches is money out already.
NothingStranded ==
    \A d \in Device, k \in Run :
        Signed(k) => \/ PaidOut(k)
                     \/ \A i \in Run : i <= k =>
                            (i >= row[d].count \/ PaidOut(i)) /\ Signed(i)

\* Of the runs a row counts as paid, all left the wallet, whichever write of
\* the progress column won.
CountedIsPaid ==
    \A d \in Device, k \in Run : k < row[d].count => PaidOut(k)

-----------------------------------------------------------------------------
(* Run k's envelope, of one proof, as PayOnce has it.                      *)

Place(k) ==
    CASE mint[k] = "absent" -> "nowhere"
      [] mint[k] = "unspent" -> "reserved"
      [] mint[k] = "pending" -> "inflight"
      [] mint[k] = "spent" -> IF k \in returned THEN "returned" ELSE "paid"

EnvelopeOf(k) == INSTANCE PayOnce WITH
    Proofs <- {k}, place <- [p \in {k} |-> Place(k)], handed <- token[k] # "none"

\* However many devices attempt, settle and delete a run, its envelope pays
\* once, and a token that was handed out is never taken back.
EveryRunPaysOnce ==
    /\ \A k \in Run : EnvelopeOf(k)!Init
    /\ [][\A k \in Run : [EnvelopeOf(k)!Next]_(EnvelopeOf(k)!vars)]_vars

-----------------------------------------------------------------------------
(* Liveness: sessions tick, the mint, the relays and sync work now and     *)
(* again, and a payment that is tried again and again once goes through.   *)

\* The device goes on with what it does.
Proceeds(d) ==
    \/ StartSettling(d) \/ SettledAll(d) \/ SettleNothing(d) \/ MeltAnswers(d)
    \/ GivesUp(row[d]) /\ PlanSkips(d)

Delivers(d) == Melt(d) \/ (DeliverToken(d) /\ At(d, "write")')
SettlesOne(d) ==
    \/ Release(d) /\ returned' # returned
    \/ SendDeleted(d) /\ token'[pass[d].index] = "sent"

Fairness ==
    /\ \A d \in Knows :
        /\ WF_vars(Proceeds(d))
        /\ SF_vars(OpenFound(d)) /\ SF_vars(Delivers(d)) /\ SF_vars(WritePaid(d))
        /\ SF_vars(SettlesOne(d))
    /\ \A d, e \in Device : d # e => WF_vars(Sync(d, e))
    /\ \A k \in Run : SF_vars(MeltResolves(k) /\ mint'[k] = "spent")

FairSpec == Spec /\ Fairness

\* A funded run that is due on a device that can pay it does not stay due (it
\* is paid, or its period ends, or the user moves it), and what is set aside
\* for a deleted order goes out, or back to the balance.
Outstanding(k) ==
    \E d \in Knows :
        \/ row[d].deleted /\ Signed(k) /\ ~PaidOut(k)
        \/ ~row[d].deleted /\ Due(row[d]) /\ row[d].count = k /\ Signed(k)

EveryRunEnds == \A k \in Run : Outstanding(k) ~> ~Outstanding(k)

=============================================================================
