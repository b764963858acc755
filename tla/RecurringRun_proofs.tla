------------------------ MODULE RecurringRun_proofs ------------------------
(***************************************************************************)
(* Proofs about RecurringRun, for any devices, interval, first due time    *)
(* and any bounds on the clock, the runs and what the user does.           *)
(*                                                                         *)
(* The safety argument: the runs a row counts left the wallet              *)
(* (CountedIsPaid), and so did those a pass read as counted                *)
(* (PassesBehind); a pass aims at the run its order counts next, which the *)
(* mint has signed, and writes it paid once it is out (PassesAim,          *)
(* WritesPaid); envelopes are funded from run 0 up without a gap (NoGaps)  *)
(* and for times that have come (FundedSigned); and a row is due later     *)
(* than every run below its count was, or at a time the user picked        *)
(* (RowsAhead), so a row written over by a stale pass never leads to a     *)
(* second envelope for one due time.                                       *)
(*                                                                         *)
(* That a run pays once needs only the rail: a token is handed out on      *)
(* cashu alone, and only what was not handed out is given back (RailInv).  *)
(***************************************************************************)
EXTENDS RecurringRun, TLAPS

\* The grid: the next due time lies after t.
LEMMA NextDueLater ==
  ASSUME NEW anchor \in Nat, NEW t \in Nat
  PROVE  NextDueAfter(anchor, t) \in Nat /\ NextDueAfter(anchor, t) > t
  <1>1. CASE anchor > t
    BY <1>1 DEF NextDueAfter
  <1>2. CASE ~(anchor > t)
    <2> DEFINE n == t - anchor
               q == n \div Period
    <2>1. n \in Nat /\ Period \in Nat /\ Period > 0
      BY <1>2, RecurringAssumption
    <2>2. q \in Nat /\ n % Period \in 0..(Period - 1) /\ n = Period * q + (n % Period)
      BY <2>1
    <2>3. Period * (q + 1) = Period * q + Period
      BY <2>1, <2>2
    <2>4. Period * q \in Nat
      BY <2>1, <2>2
    <2>5. NextDueAfter(anchor, t) = anchor + Period * (q + 1)
      BY <1>2 DEF NextDueAfter
    <2> HIDE DEF q
    <2> QED BY <2>1, <2>2, <2>3, <2>4, <2>5
  <1> QED BY <1>1, <1>2

\* Every order a device may write.
LEMMA WriteTyped ==
  ASSUME TypeOK, NEW d \in Device, NEW cells, NEW order \in Orders,
         Write(d, cells, order)
  PROVE  /\ row' \in [Device -> Orders]
         /\ fresh' \in [Cells -> SUBSET Device]
  BY DEF TypeOK, Write

LEMMA RunDueTyped ==
  ASSUME TypeOK, NEW order, order.due \in Nat, order.anchor \in Nat
  PROVE  NextDueAfterRun(order) \in Nat /\ NextDueAfterRun(order) > now
  <1> DEFINE t == Larger(now, order.due)
  <1>1. now \in Nat
    BY DEF TypeOK
  <1>2. t \in Nat /\ t >= now
    BY <1>1 DEF Larger
  <1> HIDE DEF t
  <1>3. NextDueAfter(order.anchor, t) \in Nat /\ NextDueAfter(order.anchor, t) > t
    BY <1>2, NextDueLater
  <1>4. NextDueAfterRun(order) = NextDueAfter(order.anchor, t)
    BY DEF NextDueAfterRun, t
  <1>5. NextDueAfter(order.anchor, t) > now
    BY <1>1, <1>2, <1>3
  <1> QED BY <1>3, <1>4, <1>5

LEMMA SignedIsRun == ASSUME NEW k, Signed(k) PROVE k \in Run
  BY DEF Signed

\* What a pass and a session hold, written by the steps below.
LEMMA BeginTyped ==
  ASSUME TypeOK, NEW d \in Device, NEW step \in {"deliver", "melt", "write", "settle"},
         Begin(d, step)
  PROVE  pass' \in [Device -> Passes \cup {NoPass}]
  <1>1. row[d] \in Orders
    BY DEF TypeOK
  <1>2. [step |-> step, index |-> row[d].count, clean |-> TRUE,
         order |-> [count |-> row[d].count, due |-> row[d].due,
                    anchor |-> row[d].anchor]] \in Passes
    BY <1>1 DEF Orders, Passes
  <1> QED BY <1>2 DEF TypeOK, Begin

LEMMA GotoTyped ==
  ASSUME TypeOK, NEW d \in Device, NEW step \in {"deliver", "melt", "write", "settle"},
         pass[d] # NoPass, Goto(d, step)
  PROVE  pass' \in [Device -> Passes \cup {NoPass}]
  <1>1. pass[d] \in Passes
    BY DEF TypeOK
  <1>2. [pass[d] EXCEPT !.step = step] \in Passes
    BY <1>1 DEF Passes
  <1> QED BY <1>2 DEF TypeOK, Goto

LEMMA NextEnvelopeTyped ==
  ASSUME TypeOK, NEW d \in Device, NEW clean \in BOOLEAN,
         pass[d] # NoPass, NextEnvelope(d, clean)
  PROVE  pass' \in [Device -> Passes \cup {NoPass}]
  <1>1. pass[d] \in Passes
    BY DEF TypeOK
  <1>2. \A i \in Nat, b \in BOOLEAN : [pass[d] EXCEPT !.index = i, !.clean = b] \in Passes
    BY <1>1 DEF Passes
  <1>3. pass[d].index + 1 \in Nat
    BY <1>1 DEF Passes
  <1>4. (pass[d].clean /\ clean) \in BOOLEAN
    OBVIOUS
  <1>5. [pass[d] EXCEPT !.index = @ + 1, !.clean = @ /\ clean] \in Passes
    BY <1>2, <1>3, <1>4, Zenon
  <1> QED BY <1>5 DEF TypeOK, NextEnvelope

LEMMA EndTyped ==
  ASSUME TypeOK, NEW d \in Device, End(d)
  PROVE  pass' \in [Device -> Passes \cup {NoPass}]
  BY DEF TypeOK, End

Sessions == [known : SUBSET Nat, settled : SUBSET (BOOLEAN \X Nat)]

LEMMA AfterWalkTyped ==
  ASSUME TypeOK, NEW d \in Device
  PROVE  AfterWalk(d) \in Sessions
  <1>1. mem[d] \in Sessions /\ row[d] \in Orders
    BY DEF TypeOK, Sessions
  <1>2. Walked(row[d]) \subseteq Nat
    BY RecurringAssumption DEF Walked, Run
  <1>3. CheckKey(row[d]) \in BOOLEAN \X Nat
    BY <1>1 DEF CheckKey, Orders
  <1> QED BY <1>1, <1>2, <1>3 DEF AfterWalk, Sessions

LEMMA RecallsTyped ==
  ASSUME TypeOK, NEW d \in Device, NEW m \in Recalls(d)
  PROVE  /\ m \in Sessions
         /\ \A k \in Nat : [m EXCEPT !.known = @ \cup {k}] \in Sessions
  <1>1. mem[d] \in Sessions
    BY DEF TypeOK, Sessions
  <1>2. m \in Sessions
    BY <1>1, AfterWalkTyped DEF Recalls
  <1> QED BY <1>2 DEF Sessions

\* The patches of the scheduler.
LEMMA MovedTyped ==
  ASSUME NEW order \in Orders, NEW count \in Nat, NEW due \in Nat
  PROVE  [order EXCEPT !.count = count, !.due = due, !.failedAt = Never] \in Orders
  BY DEF Orders

LEMMA FailedTyped ==
  ASSUME TypeOK, NEW d \in Device, RunFailed(d)
  PROVE  /\ row' \in [Device -> Orders]
         /\ fresh' \in [Cells -> SUBSET Device]
  <1>1. [row[d] EXCEPT !.failedAt = now] \in Orders
    BY DEF TypeOK, Orders
  <1> QED BY <1>1, WriteTyped DEF RunFailed

LEMMA SkippedTyped ==
  ASSUME TypeOK, NEW d \in Device,
         NEW order, order.count \in Nat, order.due \in Nat, order.anchor \in Nat,
         RunSkipped(d, order)
  PROVE  /\ row' \in [Device -> Orders]
         /\ fresh' \in [Cells -> SUBSET Device]
  <1>1. [row[d] EXCEPT !.count = order.count, !.due = NextDueAfterRun(order),
                       !.failedAt = Never] \in Orders
    <2>1. row[d] \in Orders /\ NextDueAfterRun(order) \in Nat
      BY RunDueTyped DEF TypeOK
    <2> QED BY <2>1, MovedTyped
  <1> QED BY <1>1, WriteTyped DEF RunSkipped

LEMMA PaidTyped ==
  ASSUME TypeOK, NEW d \in Device, NEW index \in Nat,
         NEW order, order.count \in Nat, order.due \in Nat, order.anchor \in Nat,
         RunPaid(d, order, index)
  PROVE  /\ row' \in [Device -> Orders]
         /\ fresh' \in [Cells -> SUBSET Device]
  <1>1. [row[d] EXCEPT !.count = index + 1, !.due = NextDueAfterRun(order),
                       !.failedAt = Never] \in Orders
    <2>1. row[d] \in Orders /\ NextDueAfterRun(order) \in Nat
      BY RunDueTyped DEF TypeOK
    <2>2. index + 1 \in Nat
      OBVIOUS
    <2> QED BY <2>1, <2>2, MovedTyped
  <1> QED BY <1>1, WriteTyped DEF RunPaid

\* What is left alone keeps its type.
LEMMA RowKept ==
  ASSUME TypeOK, UNCHANGED <<row, fresh>>
  PROVE  /\ row' \in [Device -> Orders]
         /\ fresh' \in [Cells -> SUBSET Device]
  BY DEF TypeOK

LEMMA SignedMint ==
  ASSUME TypeOK, NEW k, Signed(k)
  PROVE  mint[k] \in {"unspent", "pending", "spent"}
  BY DEF TypeOK, Signed

\* The scheduler's steps.
LEMMA SchedulerTyped ==
  ASSUME TypeOK, NEW d \in Device, Scheduler(d)
  PROVE  TypeOK'
  <1> USE DEF worldVars, userVars
  <1>0. /\ row[d] \in Orders
        /\ row[d].count \in Nat /\ row[d].due \in Nat /\ row[d].anchor \in Nat
        /\ mem[d] \in Sessions
        /\ pass[d] # NoPass =>
             /\ pass[d] \in Passes
             /\ pass[d].index \in Nat
             /\ pass[d].order.count \in Nat /\ pass[d].order.due \in Nat
             /\ pass[d].order.anchor \in Nat
    BY DEF TypeOK, Orders, Passes, Sessions
  <1>1. CASE WalkFindsPaid(d)
    <2>1. /\ row' \in [Device -> Orders] /\ fresh' \in [Cells -> SUBSET Device]
      BY <1>1, RowKept, FailedTyped DEF WalkFindsPaid, EndFailed
    <2>2. mem' \in [Device -> Sessions]
      BY <1>1, AfterWalkTyped DEF WalkFindsPaid, TypeOK, Sessions
    <2>3. pass' \in [Device -> Passes \cup {NoPass}]
      BY <1>1, BeginTyped, EndTyped DEF WalkFindsPaid, EndFailed
    <2> QED BY <1>1, <2>1, <2>2, <2>3 DEF WalkFindsPaid, TypeOK, Sessions
  <1>2. CASE PlanWaits(d)
    <2>1. mem' \in [Device -> Sessions]
      BY <1>2, RecallsTyped DEF PlanWaits, TypeOK, Sessions
    <2> QED BY <1>2, <2>1 DEF PlanWaits, TypeOK, Sessions
  <1>3. CASE PlanSkips(d)
    <2>1. /\ row' \in [Device -> Orders] /\ fresh' \in [Cells -> SUBSET Device]
      BY <1>3, <1>0, SkippedTyped DEF PlanSkips, EndSkipped
    <2>2. mem' \in [Device -> Sessions]
      BY <1>3, RecallsTyped DEF PlanSkips, TypeOK, Sessions
    <2>3. pass' \in [Device -> Passes \cup {NoPass}]
      BY <1>3, EndTyped DEF PlanSkips, EndSkipped
    <2> QED BY <1>3, <2>1, <2>2, <2>3 DEF PlanSkips, TypeOK, Sessions
  <1>4. CASE SkipUnpayable(d)
    <2>1. /\ row' \in [Device -> Orders] /\ fresh' \in [Cells -> SUBSET Device]
      BY <1>4, <1>0, SkippedTyped DEF SkipUnpayable, EndSkipped
    <2>2. mem' \in [Device -> Sessions]
      BY <1>4, RecallsTyped DEF SkipUnpayable, TypeOK, Sessions
    <2>3. pass' \in [Device -> Passes \cup {NoPass}]
      BY <1>4, EndTyped DEF SkipUnpayable, EndSkipped
    <2> QED BY <1>4, <2>1, <2>2, <2>3 DEF SkipUnpayable, TypeOK, Sessions
  <1>5. CASE OpenNew(d)
    <2>1. /\ row' \in [Device -> Orders] /\ fresh' \in [Cells -> SUBSET Device]
      BY <1>5, RowKept, FailedTyped DEF OpenNew, EndFailed
    <2>2. mem' \in [Device -> Sessions]
      <3>1. PICK m \in Recalls(d) : mem' = [mem EXCEPT ![d] = m] \/ Learns(d, m, row[d].count)
        BY <1>5 DEF OpenNew
      <3>2. m \in Sessions /\ [m EXCEPT !.known = @ \cup {row[d].count}] \in Sessions
        BY <1>0, RecallsTyped
      <3>3. mem \in [Device -> Sessions]
        BY DEF TypeOK, Sessions
      <3> QED BY <3>1, <3>2, <3>3 DEF Learns
    <2>3. pass' \in [Device -> Passes \cup {NoPass}]
      BY <1>5, BeginTyped, EndTyped DEF OpenNew, EndFailed
    <2>4. /\ mint' \in [Run -> {"absent", "unspent", "pending", "spent"}]
          /\ token' \in [Run -> {"none", "queued", "sent"}]
          /\ fundedFor' \in [Run -> Nat \cup {Never}]
          /\ returned' \subseteq Run
      BY <1>5, <1>0 DEF OpenNew, TypeOK
    <2> QED BY <1>5, <2>1, <2>2, <2>3, <2>4 DEF OpenNew, TypeOK, Sessions
  <1>6. CASE OpenFound(d)
    <2>1. mem' \in [Device -> Sessions]
      <3>1. PICK m \in Recalls(d) : Learns(d, m, row[d].count)
        BY <1>6 DEF OpenFound
      <3>2. m \in Sessions /\ [m EXCEPT !.known = @ \cup {row[d].count}] \in Sessions
        BY <1>0, RecallsTyped
      <3>3. mem \in [Device -> Sessions]
        BY DEF TypeOK, Sessions
      <3> QED BY <3>1, <3>2, <3>3 DEF Learns
    <2>2. pass' \in [Device -> Passes \cup {NoPass}]
      BY <1>6, BeginTyped, EndTyped, SignedMint DEF OpenFound
    <2> QED BY <1>6, <2>1, <2>2 DEF OpenFound, TypeOK, Sessions
  <1>7. CASE OpenFails(d)
    <2>1. /\ row' \in [Device -> Orders] /\ fresh' \in [Cells -> SUBSET Device]
      BY <1>7, <1>0, FailedTyped, SkippedTyped DEF OpenFails, EndFailed, EndSkipped
    <2>2. mem' \in [Device -> Sessions]
      BY <1>7, RecallsTyped DEF OpenFails, TypeOK, Sessions
    <2>3. pass' \in [Device -> Passes \cup {NoPass}]
      BY <1>7, EndTyped DEF OpenFails, EndFailed, EndSkipped
    <2> QED BY <1>7, <2>1, <2>2, <2>3 DEF OpenFails, TypeOK, Sessions
  <1>8. CASE DeliverToken(d)
    <2>1. pass' \in [Device -> Passes \cup {NoPass}]
      BY <1>8, GotoTyped, EndTyped DEF DeliverToken, At
    <2>2. /\ mint' \in [Run -> {"absent", "unspent", "pending", "spent"}]
          /\ token' \in [Run -> {"none", "queued", "sent"}]
          /\ fundedFor' \in [Run -> Nat \cup {Never}]
          /\ returned' \subseteq Run
      BY <1>8 DEF DeliverToken, Send, TypeOK
    <2> QED BY <1>8, <2>1, <2>2 DEF DeliverToken, TypeOK, Sessions
  <1>9. CASE Melt(d)
    <2>1. pass' \in [Device -> Passes \cup {NoPass}]
      BY <1>9, GotoTyped DEF Melt, At
    <2>2. /\ mint' \in [Run -> {"absent", "unspent", "pending", "spent"}]
          /\ token' \in [Run -> {"none", "queued", "sent"}]
          /\ fundedFor' \in [Run -> Nat \cup {Never}]
          /\ returned' \subseteq Run
      BY <1>9 DEF Melt, TypeOK
    <2> QED BY <1>9, <2>1, <2>2 DEF Melt, TypeOK, Sessions
  <1>10. CASE MeltAnswers(d)
    <2>1. /\ row' \in [Device -> Orders] /\ fresh' \in [Cells -> SUBSET Device]
      BY <1>10, RowKept, FailedTyped DEF MeltAnswers, EndFailed, EndQuietly
    <2>2. pass' \in [Device -> Passes \cup {NoPass}]
      BY <1>10, GotoTyped, EndTyped DEF MeltAnswers, EndFailed, EndQuietly, At
    <2> QED BY <1>10, <2>1, <2>2 DEF MeltAnswers, TypeOK, Sessions
  <1>11. CASE DeliverFails(d)
    <2>1. /\ row' \in [Device -> Orders] /\ fresh' \in [Cells -> SUBSET Device]
      BY <1>11, <1>0, RowKept, FailedTyped, SkippedTyped DEF DeliverFails, EndFailed, EndQuietly, EndSkipped, At
    <2>2. pass' \in [Device -> Passes \cup {NoPass}]
      BY <1>11, EndTyped DEF DeliverFails, EndFailed, EndQuietly, EndSkipped
    <2> QED BY <1>11, <2>1, <2>2 DEF DeliverFails, TypeOK, Sessions
  <1>12. CASE WritePaid(d)
    <2>1. /\ row' \in [Device -> Orders] /\ fresh' \in [Cells -> SUBSET Device]
      BY <1>12, <1>0, PaidTyped DEF WritePaid, At
    <2>2. pass' \in [Device -> Passes \cup {NoPass}]
      BY <1>12, EndTyped DEF WritePaid
    <2> QED BY <1>12, <2>1, <2>2 DEF WritePaid, TypeOK, Sessions
  <1>13. CASE StartSettling(d)
    <2>1. pass' \in [Device -> Passes \cup {NoPass}]
      BY <1>13, BeginTyped DEF StartSettling
    <2> QED BY <1>13, <2>1 DEF StartSettling, TypeOK, Sessions
  <1>14. CASE SettledAll(d)
    <2>1. mem' \in [Device -> Sessions]
      <3>1. mem \in [Device -> Sessions] /\ TRUE \in BOOLEAN
        BY DEF TypeOK, Sessions
      <3>2. <<TRUE, pass[d].order.count>> \in BOOLEAN \X Nat
        BY <1>14, <1>0 DEF SettledAll, At
      <3>3. mem[d].settled \cup {<<TRUE, pass[d].order.count>>} \in SUBSET (BOOLEAN \X Nat)
        BY <1>0, <3>2 DEF Sessions
      <3>4. PICK new \in SUBSET (BOOLEAN \X Nat) : mem' = [mem EXCEPT ![d].settled = new]
        BY <1>14, <1>0, <3>3 DEF SettledAll, Sessions
      <3> QED BY <1>0, <3>1, <3>4 DEF Sessions
    <2>2. pass' \in [Device -> Passes \cup {NoPass}]
      BY <1>14, EndTyped DEF SettledAll
    <2> QED BY <1>14, <2>1, <2>2 DEF SettledAll, TypeOK, Sessions
  <1>15. CASE SettleFails(d)
    <2>1. pass' \in [Device -> Passes \cup {NoPass}]
      BY <1>15, EndTyped DEF SettleFails
    <2> QED BY <1>15, <2>1 DEF SettleFails, TypeOK, Sessions
  <1>16. CASE SettleNothing(d)
    <2>1. pass' \in [Device -> Passes \cup {NoPass}]
      BY <1>16, NextEnvelopeTyped DEF SettleNothing, At
    <2> QED BY <1>16, <2>1 DEF SettleNothing, TypeOK, Sessions
  <1>17. CASE Release(d)
    <2>1. pass' \in [Device -> Passes \cup {NoPass}]
      BY <1>17, NextEnvelopeTyped DEF Release, At
    <2>2. /\ mint' \in [Run -> {"absent", "unspent", "pending", "spent"}]
          /\ token' \in [Run -> {"none", "queued", "sent"}]
          /\ fundedFor' \in [Run -> Nat \cup {Never}]
          /\ returned' \subseteq Run
      BY <1>17, SignedIsRun DEF Release, TypeOK
    <2> QED BY <1>17, <2>1, <2>2 DEF Release, TypeOK, Sessions
  <1>18. CASE SendDeleted(d)
    <2>1. pass' \in [Device -> Passes \cup {NoPass}]
      BY <1>18, NextEnvelopeTyped DEF SendDeleted, At
    <2>2. /\ mint' \in [Run -> {"absent", "unspent", "pending", "spent"}]
          /\ token' \in [Run -> {"none", "queued", "sent"}]
          /\ fundedFor' \in [Run -> Nat \cup {Never}]
          /\ returned' \subseteq Run
      BY <1>18 DEF SendDeleted, Send, TypeOK
    <2> QED BY <1>18, <2>1, <2>2 DEF SendDeleted, TypeOK, Sessions
  <1>19. CASE Restart(d)
    <2>1. mem' \in [Device -> Sessions]
      BY <1>19 DEF Restart, Fresh, TypeOK, Sessions
    <2>2. pass' \in [Device -> Passes \cup {NoPass}]
      BY <1>19, EndTyped DEF Restart
    <2> QED BY <1>19, <2>1, <2>2 DEF Restart, TypeOK, Sessions
  <1>20. CASE CheckAgain(d)
    <2>1. mem' \in [Device -> Sessions]
      BY <1>20 DEF CheckAgain, TypeOK, Sessions
    <2> QED BY <1>20, <2>1 DEF CheckAgain, TypeOK, Sessions
  <1> QED BY <1>1, <1>2, <1>3, <1>4, <1>5, <1>6, <1>7, <1>8, <1>9, <1>10, <1>11, <1>12, <1>13, <1>14, <1>15, <1>16, <1>17, <1>18, <1>19, <1>20 DEF Scheduler

\* The user's.
LEMMA UserTyped ==
  ASSUME TypeOK, NEW d \in Device, User(d)
  PROVE  TypeOK'
  <1> USE DEF worldVars, userVars
  <1>0. row[d] \in Orders /\ acts \in Nat /\ acts + 1 \in Nat
    BY DEF TypeOK
  <1>1. CASE Pause(d)
    <2>1. [row[d] EXCEPT !.paused = TRUE] \in Orders
      BY <1>0 DEF Orders
    <2>2. /\ row' \in [Device -> Orders] /\ fresh' \in [Cells -> SUBSET Device]
      BY <1>1, <2>1, WriteTyped DEF Pause
    <2> QED BY <1>0, <1>1, <2>2 DEF Pause, UserMay, TypeOK
  <1>2. CASE Resume(d)
    <2>1. /\ row[d].due \in Nat /\ NextDueAfter(row[d].anchor, now) \in Nat
      BY <1>0, NextDueLater DEF TypeOK, Orders
    <2>2. [row[d] EXCEPT !.paused = FALSE,
                         !.due = IF @ > now THEN @
                                 ELSE NextDueAfter(row[d].anchor, now)] \in Orders
      BY <1>0, <2>1 DEF Orders
    <2>3. /\ row' \in [Device -> Orders] /\ fresh' \in [Cells -> SUBSET Device]
      BY <1>2, <2>2, WriteTyped DEF Resume
    <2> QED BY <1>0, <1>2, <2>3 DEF Resume, UserMay, TypeOK
  <1>3. CASE Delete(d)
    <2>1. [row[d] EXCEPT !.deleted = TRUE] \in Orders
      BY <1>0 DEF Orders
    <2>2. /\ row' \in [Device -> Orders] /\ fresh' \in [Cells -> SUBSET Device]
      BY <1>3, <2>1, WriteTyped DEF Delete
    <2> QED BY <1>0, <1>3, <2>2 DEF Delete, UserMay, TypeOK
  <1>4. ASSUME NEW due \in EditTimes, Edit(d, due)
        PROVE  TypeOK'
    <2>1. due \in Nat
      BY RecurringAssumption
    <2>2. [row[d] EXCEPT !.due = due, !.anchor = due] \in Orders
      BY <1>0, <2>1 DEF Orders
    <2>3. /\ row' \in [Device -> Orders] /\ fresh' \in [Cells -> SUBSET Device]
      BY <1>4, <2>2, WriteTyped DEF Edit
    <2>4. picked' \subseteq Nat
      BY <1>4, <2>1 DEF Edit, TypeOK
    <2> QED BY <1>0, <1>4, <2>3, <2>4 DEF Edit, UserMay, TypeOK
  <1> QED BY <1>1, <1>2, <1>3, <1>4 DEF User

\* Sync, the mint, the relays and the clock.
LEMMA SyncTyped ==
  ASSUME TypeOK, NEW d \in Device, NEW e \in Device, Sync(d, e)
  PROVE  TypeOK'
  <1> DEFINE cells == {c \in Cells : d \in fresh[c] /\ e \notin fresh[c]}
             Won(cell) == IF cell \in cells THEN row[d] ELSE row[e]
  <1>1. row[d] \in Orders /\ row[e] \in Orders
    BY DEF TypeOK
  <1>2. \A cell : Won(cell) \in Orders
    BY <1>1
  <1>3. (row[d].deleted \/ row[e].deleted) \in BOOLEAN
    OBVIOUS
  <1> HIDE DEF Won
  <1>4. [count |-> Won("progress").count, due |-> Won("progress").due,
         anchor |-> Won("anchor").anchor, failedAt |-> Won("last").failedAt,
         paused |-> Won("paused").paused,
         deleted |-> row[d].deleted \/ row[e].deleted] \in Orders
    BY <1>2, <1>3 DEF Orders
  <1>5. row' \in [Device -> Orders]
    BY <1>4 DEF Sync, Won, TypeOK
  <1>6. fresh' \in [Cells -> SUBSET Device]
    BY DEF Sync, TypeOK
  <1> QED BY <1>5, <1>6 DEF Sync, TypeOK, worldVars, userVars

LEMMA WorldTyped ==
  ASSUME TypeOK, World
  PROVE  TypeOK'
  <1> USE DEF worldVars, userVars
  <1>1. CASE TimePasses
    BY <1>1 DEF TimePasses, TypeOK
  <1>2. ASSUME NEW k \in Run, MeltResolves(k)
        PROVE  TypeOK'
    BY <1>2 DEF MeltResolves, TypeOK
  <1>3. ASSUME NEW k \in Run, QueueDrains(k)
        PROVE  TypeOK'
    BY <1>3 DEF QueueDrains, TypeOK
  <1>4. ASSUME NEW k \in Run, Redeem(k)
        PROVE  TypeOK'
    BY <1>4 DEF Redeem, TypeOK
  <1> QED BY <1>1, <1>2, <1>3, <1>4, SyncTyped DEF World

LEMMA InitTyped == Init => TypeOK
  <1> SUFFICES ASSUME Init PROVE TypeOK
    OBVIOUS
  <1>1. NewOrder \in Orders
    BY RecurringAssumption DEF NewOrder, Orders
  <1>2. Fresh \in [known : SUBSET Nat, settled : SUBSET (BOOLEAN \X Nat)]
    BY DEF Fresh
  <1> QED BY <1>1, <1>2 DEF Init, TypeOK

LEMMA TypedStep == TypeOK /\ [Next]_vars => TypeOK'
  <1> SUFFICES ASSUME TypeOK, [Next]_vars PROVE TypeOK'
    OBVIOUS
  <1>1. CASE UNCHANGED vars
    BY <1>1 DEF vars, worldVars, userVars, TypeOK
  <1> QED BY <1>1, WorldTyped, SchedulerTyped, UserTyped DEF Next

\* Every variable of RecurringRun keeps its type.
THEOREM TypeCorrect == Spec => []TypeOK
  BY InitTyped, TypedStep, PTL DEF Spec

-----------------------------------------------------------------------------
(* Counted runs are out, and due times only move on.                       *)

Behind(count) == \A k \in Run : k < count => PaidOut(k)
Ahead(count, due) == due \in picked \/ \A k \in Run : k < count => fundedFor[k] < due

PassesBehind ==
    \A d \in Device : pass[d] # NoPass => Behind(pass[d].order.count)
PassesAim ==
    \A d \in Device :
        pass[d] # NoPass /\ pass[d].step # "settle" =>
            pass[d].index = pass[d].order.count /\ Signed(pass[d].index)
WritesPaid == \A d \in Device : At(d, "write") => PaidOut(pass[d].index)
HandedSigned == \A k \in Run : token[k] # "none" => Signed(k)
FundedSigned ==
    \A k \in Run : (fundedFor[k] # Never => Signed(k)) /\ fundedFor[k] <= now
NoGaps == \A i, k \in Run : i < k /\ Signed(k) => Signed(i)
RowsAhead == \A d \in Device : Ahead(row[d].count, row[d].due)

IInv ==
    /\ TypeOK
    /\ CountedIsPaid /\ PassesBehind /\ PassesAim /\ WritesPaid /\ HandedSigned
    /\ FundedSigned /\ NoGaps /\ RowsAhead /\ OncePerPeriod

\* What one step does to the money: no payment and no envelope is undone, and
\* a new envelope is that of some row's current run, for its due time.
MoneyKept ==
    /\ \A k \in Run : PaidOut(k) => PaidOut(k)'
    /\ \A k \in Run : Signed(k) => Signed(k)'
    /\ \A k \in Run : token'[k] # "none" => token[k] # "none" \/ Signed(k)

Funds(d) ==
    \E k \in Run :
        /\ k = row[d].count /\ ~Signed(k) /\ row[d].due <= now
        /\ fundedFor' = [fundedFor EXCEPT ![k] = row[d].due]
        /\ Signed(k)'
        /\ \A i \in Run : i # k => (Signed(i)' => Signed(i))

MoneyMoves ==
    \/ fundedFor' = fundedFor /\ \A k \in Run : Signed(k)' => Signed(k)
    \/ \E d \in Device : Funds(d)

\* To a row: it takes another's progress, or the due time of a count that is
\* some device's moves on.
RowMoves(e) ==
    \/ \E d \in Device : row'[e].count = row[d].count /\ row'[e].due = row[d].due
    \/ /\ row'[e].due > now \/ row'[e].due \in picked'
       /\ \/ row'[e].count = row[e].count
          \/ pass[e] # NoPass /\ row'[e].count = pass[e].order.count
          \/ At(e, "write") /\ row'[e].count = pass[e].index + 1

\* To a pass: it goes on with the run it read, or begins with the row's.
PassMoves(e) ==
    pass'[e] # NoPass =>
        \/ /\ pass[e] # NoPass /\ pass'[e].order = pass[e].order
           /\ pass'[e].step # "settle" =>
                pass[e].step # "settle" /\ pass'[e].index = pass[e].index
           /\ \/ pass'[e].step # "write"
              \/ pass[e].step = "write"
              \/ \E k \in Run : k = pass[e].index /\ PaidOut(k)'
           /\ pass'[e].step = "melt" => pass[e].step = "melt" \/ Rail = "lightning"
        \/ /\ pass'[e].step # "melt"
           /\ pass'[e].index = row[e].count /\ pass'[e].order.count = row[e].count
           /\ pass'[e].step # "settle" =>
                \E k \in Run : k = row[e].count /\ Signed(k)'
           /\ pass'[e].step = "write" => PaidOut(row[e].count)

LEMMA MoneyStep ==
  ASSUME TypeOK, PassesAim, [Next]_vars
  PROVE  /\ MoneyKept /\ MoneyMoves
         /\ now' >= now /\ picked \subseteq picked'
  <1> USE DEF worldVars, userVars, MoneyKept, MoneyMoves, PaidOut, Signed
  <1>0. now \in Nat
    BY DEF TypeOK
  <1>1. CASE UNCHANGED vars
    BY <1>0, <1>1 DEF vars
  <1>2. ASSUME NEW d \in Device, Scheduler(d)
        PROVE  /\ MoneyKept /\ MoneyMoves
               /\ now' >= now /\ picked \subseteq picked'
    <2>1. CASE OpenNew(d)
      <3>0. /\ row[d].count \in Run /\ ~Signed(row[d].count) /\ row[d].due <= now
            /\ mint' = [mint EXCEPT ![row[d].count] = "unspent"]
            /\ fundedFor' = [fundedFor EXCEPT ![row[d].count] = row[d].due]
        BY <2>1, <1>0 DEF OpenNew, MayRun, Due, Idle, TypeOK, Orders
      <3>1. Funds(d)
        <4>1. PICK k \in Run : k = row[d].count
          BY <3>0
        <4>2. /\ ~Signed(k) /\ row[d].due <= now
              /\ fundedFor' = [fundedFor EXCEPT ![k] = row[d].due]
              /\ Signed(k)'
              /\ \A i \in Run : i # k => (Signed(i)' => Signed(i))
          BY <3>0, <4>1 DEF TypeOK
        <4> HIDE DEF Signed
        <4> QED BY <4>1, <4>2 DEF Funds
      <3>2. MoneyKept
        BY <2>1 DEF OpenNew, TypeOK
      <3> QED BY <3>1, <3>2, <2>1, <1>0 DEF OpenNew
    <2>2. CASE DeliverToken(d)
      <3>1. Signed(pass[d].index)
        BY <2>2 DEF DeliverToken, At, PassesAim
      <3> QED BY <2>2, <3>1, <1>0 DEF DeliverToken, Send, TypeOK
    <2>3. CASE Melt(d)
      BY <2>3, <1>0 DEF Melt, TypeOK
    <2>4. CASE Release(d)
      BY <2>4, <1>0 DEF Release, TypeOK
    <2>5. CASE SendDeleted(d)
      <3>1. /\ Signed(pass[d].index) /\ UNCHANGED <<now, mint, fundedFor, picked>>
            /\ \/ token' = token
               \/ \E outcome \in {"sent", "queued"} : Send(pass[d].index, outcome)
        BY <2>5 DEF SendDeleted
      <3> QED BY <3>1, <1>0 DEF Send, TypeOK
    <2>6. CASE ~(OpenNew(d) \/ DeliverToken(d) \/ Melt(d) \/ Release(d) \/ SendDeleted(d))
      <3>1. UNCHANGED <<now, mint, token, fundedFor, picked>>
        BY <1>2, <2>6 DEF Scheduler, WalkFindsPaid, PlanWaits, PlanSkips, SkipUnpayable,
             OpenFound, OpenFails, MeltAnswers, DeliverFails, WritePaid,
             StartSettling, SettledAll, SettleFails, SettleNothing, Restart, CheckAgain
      <3> QED BY <3>1, <1>0
    <2> QED BY <2>1, <2>2, <2>3, <2>4, <2>5, <2>6
  <1>3. ASSUME NEW d \in Device, User(d)
        PROVE  /\ MoneyKept /\ MoneyMoves
               /\ now' >= now /\ picked \subseteq picked'
    <2>1. UNCHANGED <<now, mint, token, fundedFor>> /\ picked \subseteq picked'
      BY <1>3 DEF User, Pause, Resume, Delete, Edit
    <2> QED BY <1>0, <2>1
  <1>4. ASSUME World
        PROVE  /\ MoneyKept /\ MoneyMoves
               /\ now' >= now /\ picked \subseteq picked'
    <2>1. CASE TimePasses
      BY <2>1, <1>0 DEF TimePasses
    <2>2. ASSUME NEW k \in Run, MeltResolves(k)
          PROVE  /\ MoneyKept /\ MoneyMoves
                 /\ now' >= now /\ picked \subseteq picked'
      BY <2>2, <1>0 DEF MeltResolves, TypeOK
    <2>3. ASSUME NEW k \in Run, QueueDrains(k)
          PROVE  /\ MoneyKept /\ MoneyMoves
                 /\ now' >= now /\ picked \subseteq picked'
      BY <2>3, <1>0 DEF QueueDrains, TypeOK
    <2>4. ASSUME NEW k \in Run, Redeem(k)
          PROVE  /\ MoneyKept /\ MoneyMoves
                 /\ now' >= now /\ picked \subseteq picked'
      BY <2>4, <1>0 DEF Redeem, TypeOK
    <2>5. ASSUME NEW d \in Device, NEW e \in Device, Sync(d, e)
          PROVE  /\ MoneyKept /\ MoneyMoves
                 /\ now' >= now /\ picked \subseteq picked'
      BY <2>5, <1>0 DEF Sync
    <2> QED BY <1>4, <2>1, <2>2, <2>3, <2>4, <2>5 DEF World
  <1> QED BY <1>1, <1>2, <1>3, <1>4 DEF Next

LEMMA SkippedMoves ==
  ASSUME TypeOK, NEW d \in Device,
         NEW order, order.count \in Nat, order.due \in Nat, order.anchor \in Nat,
         order.count = row[d].count \/ (pass[d] # NoPass /\ order.count = pass[d].order.count),
         RunSkipped(d, order)
  PROVE  \A e \in Device : RowMoves(e)
  <1>1. NextDueAfterRun(order) > now
    BY RunDueTyped
  <1> QED BY <1>1 DEF RunSkipped, Write, RowMoves, TypeOK, Orders

LEMMA FailedMoves ==
  ASSUME TypeOK, NEW d \in Device, RunFailed(d)
  PROVE  \A e \in Device : RowMoves(e)
  BY DEF RunFailed, Write, RowMoves, TypeOK, Orders

LEMMA RowStep ==
  ASSUME TypeOK, [Next]_vars
  PROVE  \A e \in Device : RowMoves(e)
  <1> USE DEF worldVars, userVars
  <1>1. UNCHANGED row => \A e \in Device : RowMoves(e)
    BY DEF RowMoves
  <1>2. ASSUME NEW d \in Device, Scheduler(d)
        PROVE  \A e \in Device : RowMoves(e)
    <2>0. /\ row[d].count \in Nat /\ row[d].due \in Nat /\ row[d].anchor \in Nat
          /\ pass[d] # NoPass =>
               /\ pass[d].order.count \in Nat /\ pass[d].order.due \in Nat
               /\ pass[d].order.anchor \in Nat
               /\ pass[d].index \in Nat
      BY DEF TypeOK, Orders, Passes
    <2>1. CASE EndFailed(d)
      BY <2>1, FailedMoves DEF EndFailed
    <2>2. CASE EndSkipped(d, row[d])
      BY <2>0, <2>2, SkippedMoves DEF EndSkipped
    <2>3. CASE DeliverFails(d)
      <3>1. CASE EndSkipped(d, pass[d].order)
        BY <2>0, <2>3, <3>1, SkippedMoves DEF EndSkipped, DeliverFails, At
      <3> QED BY <1>1, <2>1, <2>3, <3>1 DEF DeliverFails, EndQuietly
    <2>4. CASE WritePaid(d)
      <3>1. NextDueAfterRun(pass[d].order) > now
        BY <2>0, <2>4, RunDueTyped DEF WritePaid, At
      <3> QED BY <2>4, <3>1 DEF WritePaid, RunPaid, Write, RowMoves, TypeOK, Orders
    <2> QED BY <1>1, <1>2, <2>1, <2>2, <2>3, <2>4
          DEF Scheduler, WalkFindsPaid, PlanWaits, PlanSkips, SkipUnpayable,
              OpenNew, OpenFound, OpenFails, DeliverToken, Melt, MeltAnswers,
              StartSettling, SettledAll, SettleFails, SettleNothing, Release,
              SendDeleted, Restart, CheckAgain, EndQuietly
  <1>3. ASSUME NEW d \in Device, User(d)
        PROVE  \A e \in Device : RowMoves(e)
    <2>0. row[d] \in Orders /\ now \in Nat
      BY DEF TypeOK
    <2>1. CASE Pause(d) \/ Delete(d)
      <3>1. \A e \in Device : e # d => row'[e] = row[e]
        BY <2>1 DEF Pause, Delete, Write, TypeOK
      <3>2. row'[d].count = row[d].count /\ row'[d].due = row[d].due
        BY <2>0, <2>1 DEF Pause, Delete, Write, TypeOK, Orders
      <3> QED BY <3>1, <3>2 DEF RowMoves
    <2>2. CASE Resume(d)
      <3>1. NextDueAfter(row[d].anchor, now) > now
        BY <2>0, NextDueLater DEF Orders
      <3>2. /\ \A e \in Device : e # d => row'[e] = row[e]
            /\ row'[d].count = row[d].count
            /\ row'[d].due = row[d].due \/ row'[d].due = NextDueAfter(row[d].anchor, now)
        BY <2>0, <2>2 DEF Resume, Write, TypeOK, Orders
      <3> QED BY <3>1, <3>2 DEF RowMoves
    <2>3. ASSUME NEW due \in EditTimes, Edit(d, due)
          PROVE  \A e \in Device : RowMoves(e)
      <3>1. due \in Nat
        BY RecurringAssumption
      <3>2. due > now \/ due \in picked'
        BY <2>3 DEF Edit
      <3> QED BY <2>0, <2>3, <3>1, <3>2 DEF Edit, Write, RowMoves, TypeOK, Orders
    <2> QED BY <1>3, <2>1, <2>2, <2>3 DEF User
  <1>4. ASSUME NEW d \in Device, NEW e \in Device, Sync(d, e)
        PROVE  \A c \in Device : RowMoves(c)
    <2>1. /\ \A c \in Device : c # e => row'[c] = row[c]
          /\ \/ row'[e].count = row[d].count /\ row'[e].due = row[d].due
             \/ row'[e].count = row[e].count /\ row'[e].due = row[e].due
      BY <1>4 DEF Sync, TypeOK
    <2> QED BY <2>1 DEF RowMoves
  <1> QED BY <1>1, <1>2, <1>3, <1>4
        DEF Next, World, TimePasses, MeltResolves, QueueDrains, Redeem, vars

LEMMA BeginMoves ==
  ASSUME TypeOK, NEW d \in Device, NEW step \in {"deliver", "write", "settle"},
         Begin(d, step),
         step # "settle" => \E k \in Run : k = row[d].count /\ Signed(k)',
         step = "write" => PaidOut(row[d].count)
  PROVE  \A e \in Device : PassMoves(e)
  <1>1. \A e \in Device : e # d => pass'[e] = pass[e]
    BY DEF Begin, TypeOK
  <1>2. \A e \in Device : pass'[e] = pass[e] => PassMoves(e)
    <2> SUFFICES ASSUME NEW e \in Device, pass'[e] = pass[e] PROVE PassMoves(e)
      OBVIOUS
    <2> QED BY DEF PassMoves
  <1>3. /\ pass'[d].index = row[d].count /\ pass'[d].order.count = row[d].count
        /\ pass'[d].step = step
    BY DEF Begin, TypeOK
  <1>4. PassMoves(d)
    BY <1>3 DEF PassMoves
  <1> QED BY <1>1, <1>2, <1>4

LEMMA EndMoves ==
  ASSUME TypeOK, NEW d \in Device, End(d)
  PROVE  \A e \in Device : PassMoves(e)
  BY DEF End, TypeOK, PassMoves

\* A run that goes on to `write` is out.
LEMMA GotoMoves ==
  ASSUME TypeOK, PassesAim, NEW d \in Device, NEW step \in {"melt", "write"},
         Goto(d, step), pass[d] # NoPass, pass[d].step # "settle",
         step = "write" => \E k \in Run : k = pass[d].index /\ PaidOut(k)',
         step = "melt" => Rail = "lightning"
  PROVE  \A e \in Device : PassMoves(e)
  <1>1. \A e \in Device : e # d => pass'[e] = pass[e]
    BY DEF Goto, TypeOK
  <1>2. /\ pass'[d].order = pass[d].order /\ pass'[d].index = pass[d].index
        /\ pass'[d].step = step
    BY DEF Goto, TypeOK, Passes
  <1> QED BY <1>1, <1>2 DEF PassMoves

LEMMA NextEnvelopeMoves ==
  ASSUME TypeOK, NEW d \in Device, NEW clean \in BOOLEAN,
         NextEnvelope(d, clean), At(d, "settle")
  PROVE  \A e \in Device : PassMoves(e)
  <1>1. \A e \in Device : e # d => pass'[e] = pass[e]
    BY DEF NextEnvelope, TypeOK
  <1>2. pass'[d].order = pass[d].order /\ pass'[d].step = "settle"
    BY DEF NextEnvelope, TypeOK, Passes, At
  <1> QED BY <1>1, <1>2 DEF PassMoves, At

LEMMA PassStep ==
  ASSUME TypeOK, PassesAim, [Next]_vars
  PROVE  \A e \in Device : PassMoves(e)
  <1> USE DEF worldVars, userVars
  <1>1. UNCHANGED pass => \A e \in Device : PassMoves(e)
    BY DEF PassMoves
  <1>2. ASSUME NEW d \in Device, Scheduler(d)
        PROVE  \A e \in Device : PassMoves(e)
    <2>1. CASE End(d)
      BY <2>1, EndMoves
    <2>2. CASE WalkFindsPaid(d)
      <3>1. CASE Begin(d, "write")
        <4>1. Signed(row[d].count) /\ PaidOut(row[d].count)
          BY <2>2 DEF WalkFindsPaid, SpentRun, PaidOut
        <4>2. \E k \in Run : k = row[d].count /\ Signed(k)'
          BY <2>2, <4>1 DEF Signed, WalkFindsPaid
        <4> QED BY <3>1, <4>1, <4>2, BeginMoves
      <3> QED BY <2>1, <2>2, <3>1 DEF WalkFindsPaid, EndFailed
    <2>3. CASE OpenNew(d)
      <3>1. CASE Begin(d, "deliver")
        <4>1. \E k \in Run : k = row[d].count /\ Signed(k)'
          BY <2>3 DEF Signed, OpenNew, TypeOK
        <4> QED BY <3>1, <4>1, BeginMoves
      <3> QED BY <2>1, <2>3, <3>1 DEF OpenNew, EndFailed
    <2>4. CASE OpenFound(d)
      <3>1. \E k \in Run : k = row[d].count /\ Signed(k)'
        BY <2>4 DEF Signed, OpenFound
      <3>2. mint[row[d].count] \in {"unspent", "pending", "spent"}
        BY <2>4, SignedMint DEF OpenFound
      <3>3. CASE mint[row[d].count] = "spent"
        BY <2>4, <3>1, <3>3, BeginMoves DEF OpenFound, PaidOut
      <3>4. CASE mint[row[d].count] = "unspent"
        BY <2>4, <3>1, <3>4, BeginMoves DEF OpenFound
      <3> QED BY <2>1, <2>4, <3>2, <3>3, <3>4 DEF OpenFound
    <2>5. CASE DeliverToken(d)
      <3>1. pass[d].index \in Run
        BY <2>5 DEF DeliverToken, At, PassesAim, Signed
      <3>2. CASE Send(pass[d].index, "sent") /\ Goto(d, "write")
        <4>1. \E k \in Run : k = pass[d].index /\ PaidOut(k)'
          BY <3>1, <3>2 DEF Send, PaidOut, TypeOK
        <4> QED BY <2>5, <3>2, <4>1, GotoMoves DEF DeliverToken, At
      <3> QED BY <2>1, <2>5, <3>2 DEF DeliverToken
    <2>6. CASE Melt(d)
      BY <2>6, GotoMoves DEF Melt, At
    <2>7. CASE MeltAnswers(d)
      <3>1. CASE mint[pass[d].index] = "spent" /\ Goto(d, "write")
        <4>1. \E k \in Run : k = pass[d].index /\ PaidOut(k)'
          BY <2>7, <3>1 DEF MeltAnswers, At, PassesAim, Signed, PaidOut
        <4> QED BY <2>7, <3>1, <4>1, GotoMoves DEF MeltAnswers, At
      <3> QED BY <2>1, <2>7, <3>1 DEF MeltAnswers, EndFailed, EndQuietly
    <2>8. CASE StartSettling(d)
      BY <2>8, BeginMoves DEF StartSettling
    <2>9. CASE SettleNothing(d) \/ Release(d) \/ SendDeleted(d)
      BY <2>9, NextEnvelopeMoves DEF SettleNothing, Release, SendDeleted
    <2> QED BY <1>1, <1>2, <2>1, <2>2, <2>3, <2>4, <2>5, <2>6, <2>7, <2>8, <2>9
          DEF Scheduler, PlanWaits, PlanSkips, SkipUnpayable, OpenFails, DeliverFails,
              WritePaid, SettledAll, SettleFails, Restart, CheckAgain,
              EndFailed, EndSkipped, EndQuietly
  <1> QED BY <1>1, <1>2
        DEF Next, World, User, TimePasses, MeltResolves, QueueDrains, Redeem, Sync,
            Pause, Resume, Edit, Delete, vars

-----------------------------------------------------------------------------

LEMMA PaidIsSigned ==
  ASSUME IInv, NEW k \in Run, PaidOut(k)
  PROVE  Signed(k)
  BY DEF IInv, HandedSigned, PaidOut, Signed

\* What a row counts after a step was out before it: a row or a pass counted
\* it, or it is the run that a pass has paid.
LEMMA CountedBefore ==
  ASSUME IInv, [Next]_vars, NEW d \in Device, NEW k \in Run, k < row'[d].count
  PROVE  PaidOut(k)
  <1>1. RowMoves(d)
    BY RowStep DEF IInv
  <1>2. \A e \in Device : Behind(row[e].count)
    BY DEF IInv, CountedIsPaid, Behind
  <1>3. CASE \E e \in Device : row'[d].count = row[e].count
    BY <1>2, <1>3 DEF Behind
  <1>4. CASE pass[d] # NoPass /\ row'[d].count = pass[d].order.count
    BY <1>4 DEF IInv, PassesBehind, Behind
  <1>5. CASE At(d, "write") /\ row'[d].count = pass[d].index + 1
    <2>1. /\ PaidOut(pass[d].index) /\ pass[d].index \in Run
          /\ Behind(pass[d].index)
      BY <1>5 DEF IInv, WritesPaid, PassesAim, PassesBehind, At, Signed
    <2>2. k < pass[d].index \/ k = pass[d].index
      BY <1>5, <2>1, RecurringAssumption DEF Run
    <2> QED BY <2>1, <2>2 DEF Behind
  <1> QED BY <1>1, <1>3, <1>4, <1>5 DEF RowMoves

LEMMA CountedStep ==
  ASSUME IInv, [Next]_vars
  PROVE  CountedIsPaid' /\ PassesBehind'
  <1>1. \A k \in Run : PaidOut(k) => PaidOut(k)'
    BY MoneyStep DEF IInv, MoneyKept
  <1>2. CountedIsPaid'
    BY <1>1, CountedBefore DEF CountedIsPaid
  <1>3. ASSUME NEW d \in Device, pass'[d] # NoPass,
               NEW k \in Run, k < pass'[d].order.count
        PROVE  PaidOut(k)
    <2>1. PassMoves(d)
      BY PassStep DEF IInv
    <2>2. pass'[d].order.count = row[d].count
          \/ (pass[d] # NoPass /\ pass'[d].order.count = pass[d].order.count)
      BY <1>3, <2>1 DEF PassMoves
    <2>3. Behind(pass'[d].order.count)
      BY <2>2 DEF IInv, CountedIsPaid, PassesBehind, Behind
    <2> QED BY <1>3, <2>3 DEF Behind
  <1>4. PassesBehind'
    BY <1>1, <1>3 DEF PassesBehind, Behind
  <1> QED BY <1>2, <1>4

LEMMA AimStep ==
  ASSUME IInv, [Next]_vars
  PROVE  PassesAim' /\ WritesPaid' /\ HandedSigned'
  <1>1. MoneyKept
    BY MoneyStep DEF IInv
  <1>2. ASSUME NEW d \in Device, pass'[d] # NoPass, pass'[d].step # "settle"
        PROVE  /\ pass'[d].index = pass'[d].order.count
               /\ \E k \in Run : k = pass'[d].index /\ Signed(k)'
               /\ pass'[d].step = "write" =>
                    \E k \in Run : k = pass'[d].index /\ PaidOut(k)'
    <2>1. PassMoves(d)
      BY PassStep DEF IInv
    <2>2. CASE /\ pass[d] # NoPass /\ pass'[d].order = pass[d].order
               /\ pass[d].step # "settle" /\ pass'[d].index = pass[d].index
               /\ \/ pass'[d].step # "write"
                  \/ pass[d].step = "write"
                  \/ \E k \in Run : k = pass[d].index /\ PaidOut(k)'
      <3>1. PICK k \in Run : k = pass[d].index /\ Signed(k)
        BY <2>2 DEF IInv, PassesAim, Signed
      <3>2. Signed(k)' /\ (pass[d].step = "write" => PaidOut(k)')
        BY <1>1, <2>2, <3>1 DEF MoneyKept, IInv, WritesPaid, At
      <3> QED BY <2>2, <3>1, <3>2 DEF IInv, PassesAim
    <2>3. CASE /\ pass'[d].index = row[d].count /\ pass'[d].order.count = row[d].count
               /\ \E k \in Run : k = row[d].count /\ Signed(k)'
               /\ pass'[d].step = "write" => PaidOut(row[d].count)
      BY <1>1, <2>3 DEF MoneyKept
    <2> QED BY <1>2, <2>1, <2>2, <2>3 DEF PassMoves
  <1>3. PassesAim' /\ WritesPaid'
    BY <1>2 DEF PassesAim, WritesPaid, At, Signed, PaidOut
  <1>4. HandedSigned'
    BY <1>1 DEF IInv, HandedSigned, MoneyKept
  <1> QED BY <1>3, <1>4

\* A new envelope follows every run before it, and none after it is there.
LEMMA FundsLast ==
  ASSUME IInv, NEW d \in Device, NEW k \in Run, k = row[d].count, ~Signed(k)
  PROVE  /\ \A i \in Run : i < k => Signed(i)
         /\ \A i \in Run : k < i => ~Signed(i) /\ fundedFor[i] = Never
  <1>1. \A i \in Run : i < k => Signed(i)
    BY PaidIsSigned DEF IInv, CountedIsPaid
  <1>2. \A i \in Run : k < i => ~Signed(i) /\ fundedFor[i] = Never
    BY DEF IInv, NoGaps, FundedSigned
  <1> QED BY <1>1, <1>2

LEMMA FundsStep ==
  ASSUME IInv, [Next]_vars
  PROVE  FundedSigned' /\ NoGaps' /\ OncePerPeriod'
  <1> DEFINE Goal == FundedSigned' /\ NoGaps' /\ OncePerPeriod'
  <1>0. /\ now \in Nat /\ now' \in Nat /\ now <= now' /\ picked \subseteq picked'
        /\ fundedFor \in [Run -> Nat \cup {Never}]
        /\ \A k \in Run : Signed(k) => Signed(k)'
    BY MoneyStep, TypedStep DEF IInv, TypeOK, MoneyKept
  <1>1. CASE fundedFor' = fundedFor /\ \A k \in Run : Signed(k)' => Signed(k)
    <2>1. FundedSigned'
      BY <1>0, <1>1 DEF IInv, FundedSigned, Never
    <2>2. NoGaps'
      BY <1>0, <1>1 DEF IInv, NoGaps
    <2>3. OncePerPeriod'
      BY <1>0, <1>1 DEF IInv, OncePerPeriod
    <2> QED BY <2>1, <2>2, <2>3
  <1>2. ASSUME NEW d \in Device, Funds(d)
        PROVE  Goal
    <2>1. PICK k \in Run :
            /\ k = row[d].count /\ ~Signed(k) /\ row[d].due <= now
            /\ fundedFor' = [fundedFor EXCEPT ![k] = row[d].due]
            /\ Signed(k)'
            /\ \A i \in Run : i # k => (Signed(i)' => Signed(i))
      BY <1>2 DEF Funds
    <2>2. /\ \A i \in Run : i < k => Signed(i)
          /\ \A i \in Run : k < i => ~Signed(i) /\ fundedFor[i] = Never
      BY <2>1, FundsLast
    <2>3. fundedFor'[k] = row[d].due /\ \A i \in Run : i # k => fundedFor'[i] = fundedFor[i]
      BY <1>0, <2>1
    <2>4. FundedSigned'
      <3>1. row[d].due \in Nat
        BY DEF IInv, TypeOK, Orders
      <3> QED BY <1>0, <2>1, <2>3, <3>1 DEF IInv, FundedSigned, Never
    <2>5. NoGaps'
      <3> SUFFICES ASSUME NEW i \in Run, NEW j \in Run, i < j, Signed(j)'
                   PROVE  Signed(i)'
        BY DEF NoGaps
      <3>1. CASE j = k
        BY <1>0, <2>2, <3>1
      <3>2. CASE j # k
        BY <1>0, <2>1, <3>2 DEF IInv, NoGaps
      <3> QED BY <3>1, <3>2
    <2>6. OncePerPeriod'
      <3> SUFFICES ASSUME NEW i \in Run, NEW j \in Run, i < j,
                          fundedFor'[i] # Never, fundedFor'[j] # Never
                   PROVE  fundedFor'[i] < fundedFor'[j] \/ fundedFor'[j] \in picked'
        BY DEF OncePerPeriod
      <3>1. CASE j = k
        <4>1. i # k /\ i < row[d].count
          BY <2>1, <3>1, RecurringAssumption DEF Run
        <4>2. row[d].due \in picked \/ fundedFor[i] < row[d].due
          BY <4>1 DEF IInv, RowsAhead, Ahead
        <4> QED BY <1>0, <2>3, <3>1, <4>1, <4>2
      <3>2. CASE i = k
        BY <2>2, <2>3, <3>2, RecurringAssumption DEF Run
      <3>3. CASE i # k /\ j # k
        BY <1>0, <2>3, <3>3 DEF IInv, OncePerPeriod
      <3> QED BY <3>1, <3>2, <3>3
    <2> QED BY <2>4, <2>5, <2>6
  <1> QED BY <1>1, <1>2, MoneyStep DEF IInv, MoneyMoves

\* A row that moves on lies ahead of all that was funded up to now.
LEMMA AheadStep ==
  ASSUME IInv, [Next]_vars
  PROVE  RowsAhead'
  <1>1. picked \subseteq picked' /\ MoneyMoves /\ now \in Nat
    BY MoneyStep DEF IInv, TypeOK
  <1>2. ASSUME NEW k \in Run, Signed(k)
        PROVE  fundedFor'[k] = fundedFor[k]
    BY <1>1, <1>2 DEF MoneyMoves, Funds, IInv, TypeOK
  <1>3. ASSUME NEW e \in Device
        PROVE  Ahead(row[e].count, row[e].due)'
    <2>1. RowMoves(e) /\ row'[e].due \in Nat
      BY RowStep, TypedStep DEF IInv, TypeOK, Orders
    <2>2. \A k \in Run : k < row'[e].count => fundedFor'[k] = fundedFor[k]
      BY <1>2, CountedBefore, PaidIsSigned
    <2>3. ASSUME NEW d \in Device,
                 row'[e].count = row[d].count, row'[e].due = row[d].due
          PROVE  Ahead(row[e].count, row[e].due)'
      BY <1>1, <2>2, <2>3 DEF IInv, RowsAhead, Ahead
    <2>4. CASE row'[e].due > now
      <3>1. \A k \in Run : fundedFor[k] <= now /\ fundedFor[k] \in Int
        BY DEF IInv, FundedSigned, TypeOK, Never
      <3> QED BY <1>1, <2>1, <2>2, <2>4, <3>1 DEF Ahead
    <2>5. CASE row'[e].due \in picked'
      BY <2>5 DEF Ahead
    <2> QED BY <2>1, <2>3, <2>4, <2>5 DEF RowMoves
  <1> QED BY <1>3 DEF RowsAhead

\* The inductive invariant: types, what rows and passes count as paid, the due
\* times of funded runs, and that no row falls behind them.
THEOREM RecurringInvariant == Spec => []IInv
  <1>1. Init => IInv
    <2> SUFFICES ASSUME Init PROVE IInv
      OBVIOUS
    <2>1. TypeOK
      BY InitTyped
    <2>2. /\ CountedIsPaid /\ PassesBehind /\ PassesAim /\ WritesPaid /\ HandedSigned
      BY RecurringAssumption DEF Init, NewOrder, CountedIsPaid, PassesBehind, PassesAim, WritesPaid,
           At, HandedSigned, Run
    <2>3. FundedSigned /\ NoGaps /\ RowsAhead /\ OncePerPeriod
      BY RecurringAssumption DEF Init, NewOrder, FundedSigned, NoGaps, RowsAhead, Ahead,
           OncePerPeriod, Signed, Run, Never
    <2> QED BY <2>1, <2>2, <2>3 DEF IInv
  <1>2. IInv /\ [Next]_vars => IInv'
    BY TypedStep, CountedStep, AimStep, FundsStep, AheadStep DEF IInv
  <1> QED BY <1>1, <1>2, PTL DEF Spec

\* Whichever write of the progress column won on whichever device, the runs a
\* row counts as paid left the wallet (runPaidPatch, recurringPayments.ts).
THEOREM CountsOnlyPaid == Spec => []CountedIsPaid
  <1>1. IInv => CountedIsPaid
    BY DEF IInv
  <1> QED BY <1>1, RecurringInvariant, PTL

\* No device starts its recovery walk above an envelope that still holds the
\* money, and the walk meets no gap below it (recoverOrder).
THEOREM RecoveryReachesAll == Spec => []NothingStranded
  <1>1. IInv => NothingStranded
    <2> SUFFICES ASSUME IInv, NEW d \in Device, NEW k \in Run, Signed(k),
                        NEW i \in Run, i <= k
                 PROVE  (i >= row[d].count \/ PaidOut(i)) /\ Signed(i)
      BY DEF NothingStranded
    <2>1. i < row[d].count => PaidOut(i)
      BY DEF IInv, CountedIsPaid
    <2>2. i \in Int /\ k \in Int /\ row[d].count \in Int
      BY RecurringAssumption DEF IInv, TypeOK, Orders, Run
    <2>3. Signed(i)
      BY <2>2 DEF IInv, NoGaps
    <2> QED BY <2>1, <2>2, <2>3
  <1> QED BY <1>1, RecurringInvariant, PTL

\* No stale write, restart or second device funds two runs for one due time.
THEOREM OneEnvelopePerPeriod == Spec => []OncePerPeriod
  <1>1. IInv => OncePerPeriod
    BY DEF IInv
  <1> QED BY <1>1, RecurringInvariant, PTL

-----------------------------------------------------------------------------
(* The envelope of every run pays once.                                    *)

\* A token exists on the Cashu rail only, a payment under way on the other;
\* what went back to the balance is spent.
RailInv ==
    /\ \A k \in Run : mint[k] = "pending" => Rail = "lightning"
    /\ \A k \in Run : token[k] # "none" => Rail = "cashu"
    /\ \A d \in Device : At(d, "melt") => Rail = "lightning"
    /\ \A k \in returned : mint[k] = "spent"

\* What a step may do to the envelope of run k.
Handed(k) == token[k] # "none"

EnvelopeMoves(k) ==
    \/ mint'[k] = mint[k] /\ (Handed(k))' = Handed(k) /\ (k \in returned' <=> k \in returned)
    \/ mint[k] = "absent" /\ mint'[k] = "unspent" /\ token'[k] = token[k] /\ returned' = returned
    \/ /\ mint[k] \in {"unspent", "spent"} /\ mint'[k] = mint[k]
       /\ token'[k] # "none" /\ returned' = returned
    \/ /\ mint[k] = "unspent" /\ mint'[k] = "spent" /\ token[k] # "none"
       /\ token'[k] = token[k] /\ returned' = returned
    \/ /\ mint[k] = "unspent" /\ mint'[k] \in {"pending", "spent"} /\ token[k] = "none"
       /\ token'[k] = token[k]
       /\ IF mint'[k] = "pending" THEN returned' = returned ELSE returned' = returned \cup {k}
    \/ /\ mint[k] = "pending" /\ mint'[k] \in {"spent", "unspent"}
       /\ token'[k] = token[k] /\ returned' = returned

LEMMA EnvelopeStep ==
  ASSUME IInv, RailInv, [Next]_vars, NEW k \in Run
  PROVE  EnvelopeMoves(k)
  <1> USE DEF worldVars, userVars, EnvelopeMoves, Handed
  <1>0. TypeOK /\ PassesAim
    BY DEF IInv
  <1>1. UNCHANGED <<mint, token, returned>> => EnvelopeMoves(k)
    OBVIOUS
  <1>2. ASSUME NEW d \in Device, Scheduler(d)
        PROVE  EnvelopeMoves(k)
    <2>1. CASE OpenNew(d)
      BY <2>1, <1>0 DEF OpenNew, TypeOK
    <2>2. CASE DeliverToken(d)
      <3>1. Signed(pass[d].index) /\ Rail = "cashu"
        BY <2>2, <1>0 DEF DeliverToken, At, PassesAim
      <3>2. mint[pass[d].index] \in {"unspent", "spent"}
        BY <3>1, <1>0, SignedMint, SignedIsRun, RecurringAssumption DEF RailInv
      <3> QED BY <2>2, <3>1, <3>2, <1>0 DEF DeliverToken, Send, TypeOK
    <2>3. CASE Melt(d)
      BY <2>3, <1>0 DEF Melt, TypeOK, RailInv
    <2>4. CASE Release(d)
      BY <2>4, <1>0 DEF Release, TypeOK, RailInv
    <2>5. CASE SendDeleted(d)
      <3>1. /\ Signed(pass[d].index) /\ mint[pass[d].index] = "unspent"
            /\ UNCHANGED <<mint, returned>>
            /\ \/ token' = token
               \/ \E outcome \in {"sent", "queued"} : Send(pass[d].index, outcome)
        BY <2>5 DEF SendDeleted
      <3> QED BY <3>1, <1>0 DEF Send, TypeOK
    <2>6. CASE ~(OpenNew(d) \/ DeliverToken(d) \/ Melt(d) \/ Release(d) \/ SendDeleted(d))
      <3>1. UNCHANGED <<mint, token, returned>>
        BY <1>2, <2>6 DEF Scheduler, WalkFindsPaid, PlanWaits, PlanSkips, SkipUnpayable,
             OpenFound, OpenFails, MeltAnswers, DeliverFails, WritePaid,
             StartSettling, SettledAll, SettleFails, SettleNothing, Restart, CheckAgain
      <3> QED BY <1>1, <3>1
    <2> QED BY <2>1, <2>2, <2>3, <2>4, <2>5, <2>6
  <1>3. ASSUME NEW d \in Device, User(d)
        PROVE  EnvelopeMoves(k)
    BY <1>1, <1>3 DEF User, Pause, Resume, Delete, Edit
  <1>4. ASSUME NEW i \in Run, MeltResolves(i)
        PROVE  EnvelopeMoves(k)
    BY <1>0, <1>4 DEF MeltResolves, TypeOK
  <1>5. ASSUME NEW i \in Run, QueueDrains(i) \/ Redeem(i)
        PROVE  EnvelopeMoves(k)
    BY <1>0, <1>5 DEF QueueDrains, Redeem, TypeOK
  <1> QED BY <1>1, <1>2, <1>3, <1>4, <1>5 DEF Next, World, TimePasses, Sync, vars

LEMMA RailMoves ==
  ASSUME IInv, [Next]_vars
  PROVE  /\ \A k \in Run : mint'[k] = "pending" => mint[k] = "pending" \/ Rail = "lightning"
         /\ \A k \in Run : token'[k] # "none" => token[k] # "none" \/ Rail = "cashu"
         /\ \A d \in Device : At(d, "melt")' => At(d, "melt") \/ Rail = "lightning"
  <1> DEFINE Melts == \A k \in Run : mint'[k] = "pending" => mint[k] = "pending" \/ Rail = "lightning"
             Sends == \A k \in Run : token'[k] # "none" => token[k] # "none" \/ Rail = "cashu"
  <1> USE DEF worldVars, userVars
  <1>0. TypeOK
    BY DEF IInv
  <1>1. UNCHANGED <<mint, token>> => Melts /\ Sends
    OBVIOUS
  <1>2. ASSUME NEW d \in Device, Scheduler(d)
        PROVE  Melts /\ Sends
    <2>1. Melts
      <3>1. CASE Melt(d)
        BY <3>1, <1>0 DEF Melt
      <3>2. CASE OpenNew(d) \/ Release(d)
        BY <3>2, <1>0 DEF OpenNew, Release, TypeOK
      <3>3. CASE ~(OpenNew(d) \/ Melt(d) \/ Release(d))
        <4>1. mint' = mint
          BY <1>2, <3>3 DEF Scheduler, WalkFindsPaid, PlanWaits, PlanSkips, SkipUnpayable,
               OpenFound, OpenFails, DeliverToken, MeltAnswers, DeliverFails, WritePaid,
               StartSettling, SettledAll, SettleFails, SettleNothing, SendDeleted,
               Restart, CheckAgain
        <4> QED BY <4>1
      <3> QED BY <3>1, <3>2, <3>3
    <2>2. Sends
      <3>1. CASE DeliverToken(d)
        BY <3>1 DEF DeliverToken
      <3>2. CASE SendDeleted(d)
        BY <3>2 DEF SendDeleted
      <3>3. CASE ~(DeliverToken(d) \/ SendDeleted(d))
        <4>1. token' = token
          BY <1>2, <3>3 DEF Scheduler, WalkFindsPaid, PlanWaits, PlanSkips, SkipUnpayable,
               OpenNew, OpenFound, OpenFails, Melt, MeltAnswers, DeliverFails, WritePaid,
               StartSettling, SettledAll, SettleFails, SettleNothing, Release,
               Restart, CheckAgain
        <4> QED BY <4>1
      <3> QED BY <3>1, <3>2, <3>3
    <2> QED BY <2>1, <2>2
  <1>3. Sends /\ Melts
    <2>1. ASSUME NEW d \in Device, User(d)
          PROVE  UNCHANGED <<mint, token>>
      BY <2>1 DEF User, Pause, Resume, Delete, Edit
    <2>2. ASSUME NEW k \in Run, MeltResolves(k) \/ QueueDrains(k) \/ Redeem(k)
          PROVE  Sends /\ Melts
      BY <1>0, <2>2 DEF MeltResolves, QueueDrains, Redeem, TypeOK
    <2> QED BY <1>1, <1>2, <2>1, <2>2 DEF Next, World, TimePasses, Sync, vars
  <1>4. ASSUME NEW d \in Device, At(d, "melt")'
        PROVE  At(d, "melt") \/ Rail = "lightning"
    BY <1>4, PassStep DEF IInv, PassMoves, At
  <1> QED BY <1>3, <1>4

LEMMA RailStep ==
  ASSUME IInv, RailInv, [Next]_vars
  PROVE  RailInv'
  <1>1. \A k \in Run : EnvelopeMoves(k)
    BY EnvelopeStep
  <1>2. returned' \subseteq Run
    BY TypedStep DEF IInv, TypeOK
  <1>3. ASSUME NEW k \in Run, k \in returned'
        PROVE  mint'[k] = "spent"
    BY <1>1, <1>3 DEF EnvelopeMoves, RailInv
  <1> QED BY <1>2, <1>3, RailMoves DEF RailInv

\* Seen through Place, the steps of an envelope are those of PayOnce.
LEMMA EnvelopePaysOnce ==
  ASSUME IInv, RailInv, RailInv', NEW k \in Run, EnvelopeMoves(k)
  PROVE  [EnvelopeOf(k)!Next]_(EnvelopeOf(k)!vars)
  <1> USE DEF Handed, Place
  <1>0. \A i \in returned : mint[i] = "spent"
    BY DEF RailInv
  <1>1. CASE mint'[k] = mint[k] /\ (Handed(k))' = Handed(k) /\ (k \in returned' <=> k \in returned)
    BY <1>1 DEF EnvelopeOf!vars
  <1>2. CASE mint[k] = "absent" /\ mint'[k] = "unspent" /\ token'[k] = token[k] /\ returned' = returned
    <2>1. EnvelopeOf(k)!Fund
      BY <1>2 DEF EnvelopeOf!Fund, EnvelopeOf!Move
    <2> QED BY <2>1 DEF EnvelopeOf!Next
  <1>3. CASE /\ mint[k] \in {"unspent", "spent"} /\ mint'[k] = mint[k]
             /\ token'[k] # "none" /\ returned' = returned
    <2>1. EnvelopeOf(k)!HandOut
      BY <1>3 DEF EnvelopeOf!HandOut
    <2> QED BY <2>1 DEF EnvelopeOf!Next
  <1>4. CASE /\ mint[k] = "unspent" /\ mint'[k] = "spent" /\ token[k] # "none"
             /\ token'[k] = token[k] /\ returned' = returned
    <2>1. EnvelopeOf(k)!Redeem
      BY <1>0, <1>4 DEF EnvelopeOf!Redeem, EnvelopeOf!Move
    <2> QED BY <2>1 DEF EnvelopeOf!Next
  <1>5. CASE /\ mint[k] = "unspent" /\ mint'[k] = "pending" /\ token[k] = "none"
             /\ token'[k] = token[k]
    <2>1. EnvelopeOf(k)!Dispatch
      BY <1>5 DEF EnvelopeOf!Dispatch, EnvelopeOf!Move
    <2> QED BY <2>1 DEF EnvelopeOf!Next
  <1>6. CASE /\ mint[k] = "unspent" /\ mint'[k] = "spent" /\ token[k] = "none"
             /\ token'[k] = token[k] /\ returned' = returned \cup {k}
    <2>1. EnvelopeOf(k)!Return
      BY <1>6 DEF EnvelopeOf!Return, EnvelopeOf!Move
    <2> QED BY <2>1 DEF EnvelopeOf!Next
  <1>7. CASE /\ mint[k] = "pending" /\ mint'[k] \in {"spent", "unspent"}
             /\ token'[k] = token[k] /\ returned' = returned
    <2>1. EnvelopeOf(k)!Settle
      BY <1>0, <1>7 DEF EnvelopeOf!Settle, EnvelopeOf!Move
    <2> QED BY <2>1 DEF EnvelopeOf!Next
  <1> QED BY <1>1, <1>2, <1>3, <1>4, <1>5, <1>6, <1>7 DEF EnvelopeMoves

LEMMA InitRail == Init => RailInv
  BY DEF Init, RailInv, At

\* However often devices attempt, settle and delete a run, its envelope pays
\* once and no token that was handed out is taken back: each run of an order
\* implements PayOnce (payRecurringRun, settleDeletedRun).
THEOREM RunsPayOnce == Spec => EveryRunPaysOnce
  <1>1. Init => \A k \in Run : EnvelopeOf(k)!Init
    BY DEF Init, Place, EnvelopeOf!Init
  <1>2. IInv /\ RailInv /\ [Next]_vars => RailInv'
    BY RailStep
  <1>3. IInv /\ RailInv /\ [Next]_vars
          => \A k \in Run : [EnvelopeOf(k)!Next]_(EnvelopeOf(k)!vars)
    BY RailStep, EnvelopeStep, EnvelopePaysOnce
  <1> QED BY <1>1, <1>2, <1>3, InitRail, RecurringInvariant, PTL DEF Spec, EveryRunPaysOnce

=============================================================================
