--------------------------- MODULE Outbox_proofs ---------------------------
(***************************************************************************)
(* What holds of the outbox for every choice of its constants.             *)
(*                                                                         *)
(* With any number of runtimes on one store: a job reported as sent was    *)
(* accepted by a relay, a job leaves the store only when a handler has     *)
(* persisted an outcome of it, and (unless the clock is set back) a lane   *)
(* reaches its recipients in the order of enqueueing.  The first two are   *)
(* not inductive: an outcome travels from the worker through the store, a  *)
(* startup's snapshot, the results and the consumer, each of which may     *)
(* outlive the others, so Honest says of each what HonestSuccess says of   *)
(* the store.                                                              *)
(*                                                                         *)
(* With one runtime (Alone) a job is sent under its own key and is not     *)
(* sent again once it has ended; with two, both are false.                 *)
(***************************************************************************)
EXTENDS Outbox, TLAPS

\* Whoever works on a job has one.
Busy ==
    /\ \A r \in Runtimes, l \in Lanes :
         worker[r][l].pc \in {"send", "accepted", "sleep"} => worker[r][l].job \in Jobs
    /\ \A r \in Runtimes : consumer[r].pc # "idle" => consumer[r].job \in Jobs

\* Wherever a success is on its way, a relay has accepted the job.
WorkersHonest ==
    \A r \in Runtimes, l \in Lanes : worker[r][l].pc = "accepted" => Reached(worker[r][l].job)
StoreHonest == \A j \in Jobs : state[j] = "succeeded" => Reached(j)
TodoHonest ==
    \A r \in Runtimes : \A entry \in todo[r] : entry[2] = "succeeded" => Reached(entry[1])
ResultsHonest ==
    \A r \in Runtimes : \A res \in results[r] : res.outcome = "succeeded" => Reached(res.job)
ConsumersHonest ==
    \A r \in Runtimes :
        consumer[r].pc # "idle" /\ consumer[r].outcome = "succeeded" => Reached(consumer[r].job)
HandledHonest == \A res \in handled : res.outcome = "succeeded" => Reached(res.job)

Honest ==
    /\ WorkersHonest /\ StoreHonest /\ TodoHonest
    /\ ResultsHonest /\ ConsumersHonest /\ HandledHonest

\* An ack follows its handler.
Acked ==
    /\ \A r \in Runtimes :
         consumer[r].pc = "ack" => [job |-> consumer[r].job, outcome |-> consumer[r].outcome] \in handled
    /\ RemovedIsHandled

IInv == TypeOK /\ Busy /\ Honest /\ Acked

-----------------------------------------------------------------------------

LEMMA KeyExists == AnyKey \in Keys
  BY OutboxAssumption DEF AnyKey

\* Offering and storing an outcome of a job.
LEMMA OfferTyped ==
  ASSUME TypeOK, NEW r \in Runtimes, NEW j \in Jobs, NEW outcome \in Outcomes,
         Offer(r, j, outcome)
  PROVE  results' \in [Runtimes -> SUBSET Results]
  BY DEF TypeOK, Offer, Results

LEMMA SettleTyped ==
  ASSUME TypeOK, NEW r \in Runtimes, NEW j \in Jobs, NEW outcome \in Outcomes,
         Settle(r, j, outcome)
  PROVE  /\ state' \in [Jobs -> States]
         /\ results' \in [Runtimes -> SUBSET Results]
  <1>1. state' \in [Jobs -> States]
    BY DEF TypeOK, Settle, Update, States, Outcomes
  <1>2. results' \in [Runtimes -> SUBSET Results]
    BY OfferTyped DEF Settle
  <1> QED BY <1>1, <1>2

\* Moving a worker on, with the job it has or with a new one.
LEMMA WorkTyped ==
  ASSUME TypeOK, Busy, NEW r \in Runtimes, NEW l \in Lanes, NEW next \in Workers,
         next.pc \in {"send", "accepted", "sleep"} => next.job \in Jobs,
         Work(r, l, next)
  PROVE  /\ worker' \in [Runtimes -> [Lanes -> Workers]]
         /\ \A q \in Runtimes, m \in Lanes :
              worker'[q][m].pc \in {"send", "accepted", "sleep"} => worker'[q][m].job \in Jobs
  BY DEF TypeOK, Busy, Work

LEMMA Moved ==
  ASSUME TypeOK, NEW r \in Runtimes, NEW l \in Lanes,
         NEW pc \in {"look", "wait", "send", "accepted", "sleep"}
  PROVE  /\ [worker[r][l] EXCEPT !.pc = pc] \in Workers
         /\ [worker[r][l] EXCEPT !.pc = pc].pc = pc
         /\ [worker[r][l] EXCEPT !.pc = pc].job = worker[r][l].job
  <1>1. worker[r][l] \in Workers
    BY DEF TypeOK
  <1> QED BY <1>1 DEF Workers

\* A lane that moves keeps the job it has.
LEMMA GotoTyped ==
  ASSUME TypeOK, Busy, NEW r \in Runtimes, NEW l \in Lanes,
         NEW pc \in {"look", "wait", "send", "accepted", "sleep"},
         pc \in {"send", "accepted", "sleep"} => worker[r][l].job \in Jobs,
         Goto(r, l, pc)
  PROVE  /\ worker' \in [Runtimes -> [Lanes -> Workers]]
         /\ \A q \in Runtimes, m \in Lanes :
              worker'[q][m].pc \in {"send", "accepted", "sleep"} => worker'[q][m].job \in Jobs
  <1> DEFINE next == [worker[r][l] EXCEPT !.pc = pc]
  <1>1. next \in Workers /\ next.pc = pc /\ next.job = worker[r][l].job
    <2>1. worker[r][l] \in Workers
      BY DEF TypeOK
    <2> QED BY <2>1 DEF Workers
  <1>2. Work(r, l, next)
    BY DEF Goto
  <1>3. next.pc \in {"send", "accepted", "sleep"} => next.job \in Jobs
    BY <1>1
  <1> HIDE DEF next
  <1> QED BY <1>1, <1>2, <1>3, WorkTyped

LEMMA InitTyped == Init => TypeOK /\ Busy
  <1> SUFFICES ASSUME Init PROVE TypeOK /\ Busy
    OBVIOUS
  <1>1. TypeOK
    BY KeyExists, OutboxAssumption DEF Init, TypeOK, States, Workers, Consumers, Looking, Idle, Outcomes
  <1>2. Busy
    BY DEF Init, Busy, Looking, Idle
  <1> QED BY <1>1, <1>2

LEMMA LookingIsWorker == Looking \in Workers /\ Looking.pc = "look"
  BY DEF Looking, Workers

LEMMA TypedStep ==
  ASSUME TypeOK, Busy, [Next]_vars
  PROVE  TypeOK' /\ Busy'
  <1> USE DEF TypeOK, Busy
  <1>1. ASSUME NEW r \in Runtimes, NEW k \in Keys, Build(r, k)
        PROVE  TypeOK' /\ Busy'
    <2>1. todo' \in [Runtimes -> SUBSET (Jobs \X Stored)]
      <3>1. {<<j, state[j]>> : j \in {i \in Jobs : ForStartup(i, k)}} \in SUBSET (Jobs \X Stored)
        BY DEF ForStartup, Stored
      <3> QED BY <1>1, <3>1 DEF Build
    <2>2. /\ worker' \in [Runtimes -> [Lanes -> Workers]]
          /\ \A q \in Runtimes, m \in Lanes :
               worker'[q][m].pc \in {"send", "accepted", "sleep"} => worker'[q][m].job \in Jobs
      BY <1>1, LookingIsWorker DEF Build
    <2>3. /\ wake' \in [Runtimes -> [Lanes -> BOOLEAN]]
          /\ phase' \in [Runtimes -> {"closed", "starting", "running"}]
          /\ key' \in [Runtimes -> Keys]
      BY <1>1 DEF Build
    <2> QED BY <1>1, <2>1, <2>2, <2>3 DEF Build, storeVars, resultVars
  <1>2. ASSUME NEW r \in Runtimes, Startup(r)
        PROVE  TypeOK' /\ Busy'
    <2>1. PICK entry \in todo[r] :
            /\ todo' = [todo EXCEPT ![r] = @ \ {entry}]
            /\ IF entry[2] \in Outcomes
               THEN Offer(r, entry[1], entry[2]) /\ UNCHANGED state
               ELSE Settle(r, entry[1], "failed")
      BY <1>2 DEF Startup
    <2>2. entry[1] \in Jobs
      BY DEF Stored
    <2>3. todo' \in [Runtimes -> SUBSET (Jobs \X Stored)]
      BY <2>1
    <2>4. /\ state' \in [Jobs -> States]
          /\ results' \in [Runtimes -> SUBSET Results]
      <3>1. CASE entry[2] \in Outcomes
        BY <2>1, <2>2, <3>1, OfferTyped
      <3>2. CASE entry[2] \notin Outcomes
        BY <2>1, <2>2, <3>2, SettleTyped DEF Outcomes
      <3> QED BY <3>1, <3>2
    <2> QED BY <1>2, <2>3, <2>4 DEF Startup, workerVars
  <1>3. ASSUME NEW r \in Runtimes, Started(r)
        PROVE  TypeOK' /\ Busy'
    BY <1>3 DEF Started, storeVars, workerVars, resultVars
  <1>4. ASSUME NEW r \in Runtimes, Close(r)
        PROVE  TypeOK' /\ Busy'
    <2>1. /\ worker' \in [Runtimes -> [Lanes -> Workers]]
          /\ \A q \in Runtimes, m \in Lanes :
               worker'[q][m].pc \in {"send", "accepted", "sleep"} => worker'[q][m].job \in Jobs
      BY <1>4, LookingIsWorker DEF Close
    <2>2. /\ consumer' \in [Runtimes -> Consumers]
          /\ \A q \in Runtimes : consumer'[q].pc # "idle" => consumer'[q].job \in Jobs
      BY <1>4 DEF Close, Idle, Consumers, Outcomes
    <2>3. /\ wake' \in [Runtimes -> [Lanes -> BOOLEAN]]
          /\ phase' \in [Runtimes -> {"closed", "starting", "running"}]
          /\ todo' \in [Runtimes -> SUBSET (Jobs \X Stored)]
          /\ results' \in [Runtimes -> SUBSET Results]
      BY <1>4 DEF Close
    <2> QED BY <1>4, <2>1, <2>2, <2>3 DEF Close, storeVars
  <1>5. ASSUME NEW r \in Runtimes, NEW j \in Jobs, Enqueue(r, j)
        PROVE  TypeOK' /\ Busy'
    <2>1. /\ state' \in [Jobs -> States]
          /\ owner' \in [Jobs -> Keys]
      BY <1>5 DEF Enqueue, States
    <2>2. earlier' \in [Jobs -> SUBSET Jobs]
      BY <1>5 DEF Enqueue
    <2>3. stamp' \in [Jobs -> 0..MaxTime]
      BY <1>5 DEF Enqueue
    <2>4. wake' \in [Runtimes -> [Lanes -> BOOLEAN]]
      BY <1>5 DEF Enqueue
    <2> QED BY <1>5, <2>1, <2>2, <2>3, <2>4 DEF Enqueue, runtimeVars, resultVars
  <1>6. ASSUME NEW r \in Runtimes, Online(r)
        PROVE  TypeOK' /\ Busy'
    BY <1>6 DEF Online, storeVars, runtimeVars, resultVars
  <1>7. ASSUME NEW r \in Runtimes, NEW l \in Lanes, Lane(r, l)
        PROVE  TypeOK' /\ Busy'
    <2> DEFINE WorkerStep ==
          /\ worker' \in [Runtimes -> [Lanes -> Workers]]
          /\ \A q \in Runtimes, m \in Lanes :
               worker'[q][m].pc \in {"send", "accepted", "sleep"} => worker'[q][m].job \in Jobs
    <2>1. CASE Look(r, l)
      <3>1. CASE Goto(r, l, "wait")
        <4>1. WorkerStep
          BY <3>1, GotoTyped
        <4> QED BY <2>1, <4>1 DEF Look, storeVars, runtimeVars, resultVars
      <3>2. ASSUME NEW j \in Queued(l), Work(r, l, [pc |-> "send", job |-> j])
            PROVE  TypeOK' /\ Busy'
        <4>1. j \in Jobs /\ [pc |-> "send", job |-> j] \in Workers
          BY DEF Queued, Workers
        <4>2. WorkerStep
          BY <3>2, <4>1, WorkTyped
        <4> QED BY <2>1, <4>2 DEF Look, storeVars, runtimeVars, resultVars
      <3> QED BY <2>1, <3>1, <3>2 DEF Look
    <2>2. CASE Woken(r, l)
      <3>1. WorkerStep
        BY <2>2, LookingIsWorker, WorkTyped DEF Woken
      <3>2. wake' \in [Runtimes -> [Lanes -> BOOLEAN]]
        BY <2>2 DEF Woken
      <3> QED BY <2>2, <3>1, <3>2 DEF Woken, storeVars, runtimeVars, resultVars
    <2>3. CASE Accept(r, l)
      <3>1. JobOf(r, l) \in Jobs
        BY <2>3 DEF Accept, At, JobOf
      <3>2. worker[r][l].job \in Jobs
        BY <3>1 DEF JobOf
      <3>3. published' \subseteq Jobs \X Keys
        <4>1. <<JobOf(r, l), key[r]>> \in Jobs \X Keys
          BY <3>1
        <4> QED BY <2>3, <4>1 DEF Accept
      <3>4. CASE Goto(r, l, "accepted")
        <4>1. WorkerStep
          BY <3>2, <3>4, GotoTyped
        <4> QED BY <2>3, <3>3, <4>1 DEF Accept, storeVars, runtimeVars, resultVars
      <3>5. CASE Goto(r, l, "sleep")
        <4>1. WorkerStep
          BY <3>2, <3>5, GotoTyped
        <4> QED BY <2>3, <3>3, <4>1 DEF Accept, storeVars, runtimeVars, resultVars
      <3> QED BY <2>3, <3>4, <3>5 DEF Accept
    <2>4. CASE Undelivered(r, l)
      <3>1. worker[r][l].job \in Jobs
        BY <2>4 DEF Undelivered, At
      <3>2. WorkerStep
        BY <2>4, <3>1, GotoTyped DEF Undelivered
      <3> QED BY <2>4, <3>2 DEF Undelivered, storeVars, runtimeVars, resultVars
    <2>5. CASE Retry(r, l)
      <3>1. worker[r][l].job \in Jobs
        BY <2>5 DEF Retry, At
      <3>2. WorkerStep
        BY <2>5, <3>1, GotoTyped DEF Retry
      <3>3. [wake EXCEPT ![r][l] = FALSE] \in [Runtimes -> [Lanes -> BOOLEAN]]
        OBVIOUS
      <3>4. wake' \in [Runtimes -> [Lanes -> BOOLEAN]]
        BY <2>5, <3>3 DEF Retry
      <3> QED BY <2>5, <3>2, <3>4 DEF Retry, storeVars, runtimeVars, resultVars
    <2>6. CASE Succeed(r, l)
      <3>1. JobOf(r, l) \in Jobs
        BY <2>6 DEF Succeed, At, JobOf
      <3>2. WorkerStep
        BY <2>6, LookingIsWorker, WorkTyped DEF Succeed
      <3>3. state' \in [Jobs -> States] /\ results' \in [Runtimes -> SUBSET Results]
        BY <2>6, <3>1, SettleTyped DEF Succeed, Outcomes
      <3> QED BY <2>6, <3>2, <3>3 DEF Succeed, runtimeVars
    <2>7. CASE Defect(r, l)
      <3>1. JobOf(r, l) \in Jobs
        BY <2>7 DEF Defect, At, JobOf
      <3>2. WorkerStep
        BY <2>7, LookingIsWorker, WorkTyped DEF Defect
      <3>3. state' \in [Jobs -> States] /\ results' \in [Runtimes -> SUBSET Results]
        BY <2>7, <3>1, SettleTyped DEF Defect, Outcomes
      <3> QED BY <2>7, <3>2, <3>3 DEF Defect, runtimeVars
    <2> QED BY <1>7, <2>1, <2>2, <2>3, <2>4, <2>5, <2>6, <2>7 DEF Lane
  <1>8. ASSUME NEW r \in Runtimes, Take(r)
        PROVE  TypeOK' /\ Busy'
    <2>1. PICK result \in results[r] :
            /\ results' = [results EXCEPT ![r] = @ \ {result}]
            /\ consumer' = [consumer EXCEPT ![r] =
                              [pc |-> "handle", job |-> result.job, outcome |-> result.outcome]]
      BY <1>8 DEF Take
    <2>2. result \in Results
      OBVIOUS
    <2>3. /\ consumer' \in [Runtimes -> Consumers]
          /\ \A q \in Runtimes : consumer'[q].pc # "idle" => consumer'[q].job \in Jobs
      BY <2>1, <2>2 DEF Results, Consumers
    <2>4. results' \in [Runtimes -> SUBSET Results]
      BY <2>1
    <2> QED BY <1>8, <2>3, <2>4 DEF Take, storeVars, runtimeVars, workerVars
  <1>9. ASSUME NEW r \in Runtimes, Handle(r)
        PROVE  TypeOK' /\ Busy'
    <2>1. /\ consumer' \in [Runtimes -> Consumers]
          /\ \A q \in Runtimes : consumer'[q].pc # "idle" => consumer'[q].job \in Jobs
      BY <1>9 DEF Handle, Consumers
    <2>2. handled' \subseteq Results
      BY <1>9 DEF Handle, Consumers, Results
    <2> QED BY <1>9, <2>1, <2>2 DEF Handle, storeVars, runtimeVars, workerVars
  <1>10. ASSUME NEW r \in Runtimes, Reject(r)
         PROVE  TypeOK' /\ Busy'
    <2>1. /\ consumer' \in [Runtimes -> Consumers]
          /\ \A q \in Runtimes : consumer'[q].pc # "idle" => consumer'[q].job \in Jobs
      BY <1>10 DEF Reject, Idle, Consumers, Outcomes
    <2> QED BY <1>10, <2>1 DEF Reject, storeVars, runtimeVars, workerVars
  <1>11. ASSUME NEW r \in Runtimes, Ack(r)
         PROVE  TypeOK' /\ Busy'
    <2>1. /\ consumer' \in [Runtimes -> Consumers]
          /\ \A q \in Runtimes : consumer'[q].pc # "idle" => consumer'[q].job \in Jobs
      BY <1>11 DEF Ack, Idle, Consumers, Outcomes
    <2>2. state' \in [Jobs -> States]
      BY <1>11 DEF Ack, States
    <2> QED BY <1>11, <2>1, <2>2 DEF Ack, runtimeVars, workerVars
  <1>12. CASE UNCHANGED vars
    BY <1>12 DEF vars, storeVars, runtimeVars, workerVars, resultVars
  <1> QED
    BY <1>1, <1>2, <1>3, <1>4, <1>5, <1>6, <1>7, <1>8, <1>9, <1>10, <1>11, <1>12
    DEF Next, Runtime

-----------------------------------------------------------------------------

\* Nothing is ever taken back from a relay or forgotten by a handler.
LEMMA Grows ==
  ASSUME [Next]_vars
  PROVE  published \subseteq published' /\ handled \subseteq handled'
  BY DEF Next, Runtime, Lane, Build, Startup, Started, Close, Enqueue, Online, Look, Woken,
         Accept, Undelivered, Retry, Succeed, Defect, Take, Handle, Reject, Ack,
         vars, resultVars

\* What a step does not touch stays honest.
LEMMA Kept ==
  ASSUME [Next]_vars
  PROVE  /\ WorkersHonest /\ UNCHANGED worker => WorkersHonest'
         /\ StoreHonest /\ UNCHANGED state => StoreHonest'
         /\ TodoHonest /\ UNCHANGED todo => TodoHonest'
         /\ ResultsHonest /\ UNCHANGED results => ResultsHonest'
         /\ ConsumersHonest /\ UNCHANGED consumer => ConsumersHonest'
         /\ HandledHonest /\ UNCHANGED handled => HandledHonest'
  <1> USE Grows DEF Reached
  <1>1. WorkersHonest /\ UNCHANGED worker => WorkersHonest'
    BY DEF WorkersHonest
  <1>2. StoreHonest /\ UNCHANGED state => StoreHonest'
    BY DEF StoreHonest
  <1>3. TodoHonest /\ UNCHANGED todo => TodoHonest'
    BY DEF TodoHonest
  <1>4. ResultsHonest /\ UNCHANGED results => ResultsHonest'
    BY DEF ResultsHonest
  <1>5. ConsumersHonest /\ UNCHANGED consumer => ConsumersHonest'
    BY DEF ConsumersHonest
  <1>6. HandledHonest /\ UNCHANGED handled => HandledHonest'
    BY DEF HandledHonest
  <1> QED BY <1>1, <1>2, <1>3, <1>4, <1>5, <1>6

LEMMA OfferHonest ==
  ASSUME [Next]_vars, TypeOK, Honest, NEW r \in Runtimes, NEW j \in Jobs, NEW outcome \in Outcomes,
         Offer(r, j, outcome), outcome = "succeeded" => Reached(j)
  PROVE  ResultsHonest'
  <1>1. \A q \in Runtimes : \A res \in results'[q] :
          res \in results[q] \/ res = [job |-> j, outcome |-> outcome]
    BY DEF Offer, TypeOK
  <1>2. ASSUME NEW q \in Runtimes, NEW res \in results'[q], res.outcome = "succeeded"
        PROVE  Reached(res.job)
    BY <1>1, <1>2 DEF Honest, ResultsHonest
  <1> QED BY <1>2, Grows DEF ResultsHonest, Reached

LEMMA SettleHonest ==
  ASSUME [Next]_vars, TypeOK, Honest, NEW r \in Runtimes, NEW j \in Jobs, NEW outcome \in Outcomes,
         Settle(r, j, outcome), outcome = "succeeded" => Reached(j)
  PROVE  StoreHonest' /\ ResultsHonest'
  <1>1. ResultsHonest'
    BY OfferHonest DEF Settle
  <1>2. StoreHonest'
    BY Grows DEF TypeOK, Honest, StoreHonest, Settle, Update, Reached
  <1> QED BY <1>1, <1>2

\* A worker that does not come to "accepted" has nothing to answer for.
LEMMA WorkHonest ==
  ASSUME [Next]_vars, TypeOK, Honest, NEW r \in Runtimes, NEW l \in Lanes, NEW next,
         next.pc # "accepted", Work(r, l, next)
  PROVE  WorkersHonest'
  BY Grows DEF TypeOK, Honest, WorkersHonest, Work, Reached

LEMMA HonestStep ==
  ASSUME TypeOK, Busy, Honest, [Next]_vars
  PROVE  Honest'
  <1> USE DEF Honest
  <1>1. ASSUME NEW r \in Runtimes, NEW k \in Keys, Build(r, k)
        PROVE  Honest'
    <2>1. WorkersHonest'
      BY <1>1, Grows, LookingIsWorker DEF WorkersHonest, Build, TypeOK, Reached
    <2>2. TodoHonest'
      <3>1. \A q \in Runtimes : \A entry \in todo'[q] :
              entry \in todo[q] \/ \E j \in Jobs : entry = <<j, state[j]>>
        BY <1>1 DEF Build, TypeOK
      <3>2. ASSUME NEW q \in Runtimes, NEW entry \in todo'[q], entry[2] = "succeeded"
            PROVE  Reached(entry[1])
        BY <3>1, <3>2 DEF TodoHonest, StoreHonest
      <3> QED BY <3>2, Grows DEF TodoHonest, Reached
    <2> QED BY <1>1, <2>1, <2>2, Kept DEF Build, storeVars, resultVars
  <1>2. ASSUME NEW r \in Runtimes, Startup(r)
        PROVE  Honest'
    <2>1. PICK entry \in todo[r] :
            /\ todo' = [todo EXCEPT ![r] = @ \ {entry}]
            /\ IF entry[2] \in Outcomes
               THEN Offer(r, entry[1], entry[2]) /\ UNCHANGED state
               ELSE Settle(r, entry[1], "failed")
      BY <1>2 DEF Startup
    <2>2. entry[1] \in Jobs /\ (entry[2] = "succeeded" => Reached(entry[1]))
      BY DEF TypeOK, TodoHonest
    <2>3. TodoHonest'
      BY <2>1, Grows DEF TodoHonest, TypeOK, Reached
    <2>4. StoreHonest' /\ ResultsHonest'
      <3>1. CASE entry[2] \in Outcomes
        BY <2>1, <2>2, <3>1, OfferHonest, Kept
      <3>2. CASE entry[2] \notin Outcomes
        BY <2>1, <2>2, <3>2, SettleHonest DEF Outcomes
      <3> QED BY <3>1, <3>2
    <2> QED BY <1>2, <2>3, <2>4, Kept DEF Startup, workerVars
  <1>3. ASSUME NEW r \in Runtimes, Started(r)
        PROVE  Honest'
    BY <1>3, Kept DEF Started, storeVars, workerVars, resultVars
  <1>4. ASSUME NEW r \in Runtimes, Close(r)
        PROVE  Honest'
    <2>1. WorkersHonest'
      BY <1>4, Grows, LookingIsWorker DEF WorkersHonest, Close, TypeOK, Reached
    <2>2. TodoHonest' /\ ResultsHonest'
      BY <1>4, Grows DEF TodoHonest, ResultsHonest, Close, TypeOK, Reached
    <2>3. ConsumersHonest'
      BY <1>4, Grows DEF ConsumersHonest, Close, Idle, TypeOK, Reached
    <2> QED BY <1>4, <2>1, <2>2, <2>3, Kept DEF Close, storeVars
  <1>5. ASSUME NEW r \in Runtimes, NEW j \in Jobs, Enqueue(r, j)
        PROVE  Honest'
    <2>1. StoreHonest'
      BY <1>5, Grows DEF StoreHonest, Enqueue, TypeOK, Reached
    <2> QED BY <1>5, <2>1, Kept DEF Enqueue, runtimeVars, resultVars
  <1>6. ASSUME NEW r \in Runtimes, Online(r)
        PROVE  Honest'
    BY <1>6, Kept DEF Online, storeVars, runtimeVars, resultVars
  <1>7. ASSUME NEW r \in Runtimes, NEW l \in Lanes, Lane(r, l)
        PROVE  Honest'
    <2>1. CASE Look(r, l)
      <3>1. WorkersHonest'
        BY <2>1, WorkHonest, Moved DEF Look, Goto
      <3> QED BY <2>1, <3>1, Kept DEF Look, storeVars, runtimeVars, resultVars
    <2>2. CASE Woken(r, l)
      <3>1. WorkersHonest'
        BY <2>2, WorkHonest, LookingIsWorker DEF Woken
      <3> QED BY <2>2, <3>1, Kept DEF Woken, storeVars, runtimeVars, resultVars
    <2>3. CASE Accept(r, l)
      <3>1. <<worker[r][l].job, key[r]>> \in published' /\ key[r] \in Keys
        BY <2>3 DEF Accept, JobOf, TypeOK
      <3>2. \A q \in Runtimes, m \in Lanes :
              worker'[q][m] = worker[q][m] \/ (q = r /\ m = l)
        <4>1. ASSUME NEW next, Work(r, l, next)
              PROVE  \A q \in Runtimes, m \in Lanes :
                       worker'[q][m] = worker[q][m] \/ (q = r /\ m = l)
          BY <4>1 DEF Work, TypeOK
        <4> QED BY <2>3, <4>1 DEF Accept, Goto
      <3>3. worker'[r][l].job = worker[r][l].job
        <4>1. CASE Goto(r, l, "accepted")
          BY <4>1, Moved DEF Goto, Work, TypeOK
        <4>2. CASE Goto(r, l, "sleep")
          BY <4>2, Moved DEF Goto, Work, TypeOK
        <4> QED BY <2>3, <4>1, <4>2 DEF Accept
      <3>4. ASSUME NEW q \in Runtimes, NEW m \in Lanes, worker'[q][m].pc = "accepted"
            PROVE  \E k \in Keys : <<worker'[q][m].job, k>> \in published'
        <4>1. CASE worker'[q][m] = worker[q][m]
          BY <3>4, <4>1, Grows DEF WorkersHonest, Reached
        <4>2. CASE q = r /\ m = l
          BY <3>1, <3>3, <4>2
        <4> QED BY <3>2, <4>1, <4>2
      <3>5. WorkersHonest'
        BY <3>4 DEF WorkersHonest, Reached
      <3> QED BY <2>3, <3>5, Kept DEF Accept, storeVars, runtimeVars, resultVars
    <2>4. CASE Undelivered(r, l)
      <3>1. WorkersHonest'
        BY <2>4, WorkHonest, Moved DEF Undelivered, Goto
      <3> QED BY <2>4, <3>1, Kept DEF Undelivered, storeVars, runtimeVars, resultVars
    <2>5. CASE Retry(r, l)
      <3>1. WorkersHonest'
        BY <2>5, WorkHonest, Moved DEF Retry, Goto
      <3> QED BY <2>5, <3>1, Kept DEF Retry, storeVars, runtimeVars, resultVars
    <2>6. CASE Succeed(r, l)
      <3>1. JobOf(r, l) \in Jobs /\ Reached(JobOf(r, l))
        BY <2>6 DEF Succeed, At, JobOf, Busy, WorkersHonest
      <3>2. WorkersHonest'
        BY <2>6, WorkHonest, LookingIsWorker DEF Succeed
      <3>3. StoreHonest' /\ ResultsHonest'
        BY <2>6, <3>1, SettleHonest DEF Succeed, Outcomes
      <3> QED BY <2>6, <3>2, <3>3, Kept DEF Succeed, runtimeVars
    <2>7. CASE Defect(r, l)
      <3>1. JobOf(r, l) \in Jobs
        BY <2>7 DEF Defect, At, JobOf, Busy
      <3>2. WorkersHonest'
        BY <2>7, WorkHonest, LookingIsWorker DEF Defect
      <3>3. StoreHonest' /\ ResultsHonest'
        BY <2>7, <3>1, SettleHonest DEF Defect, Outcomes
      <3> QED BY <2>7, <3>2, <3>3, Kept DEF Defect, runtimeVars
    <2> QED BY <1>7, <2>1, <2>2, <2>3, <2>4, <2>5, <2>6, <2>7 DEF Lane
  <1>8. ASSUME NEW r \in Runtimes, Take(r)
        PROVE  Honest'
    <2>1. PICK result \in results[r] :
            /\ results' = [results EXCEPT ![r] = @ \ {result}]
            /\ consumer' = [consumer EXCEPT ![r] =
                              [pc |-> "handle", job |-> result.job, outcome |-> result.outcome]]
      BY <1>8 DEF Take
    <2>2. ResultsHonest'
      BY <2>1, Grows DEF ResultsHonest, TypeOK, Reached
    <2>3. result.outcome = "succeeded" => Reached(result.job)
      BY DEF ResultsHonest
    <2>4. ConsumersHonest'
      BY <2>1, <2>3, Grows DEF ConsumersHonest, TypeOK, Reached
    <2> QED BY <1>8, <2>2, <2>4, Kept DEF Take, storeVars, runtimeVars, workerVars
  <1>9. ASSUME NEW r \in Runtimes, Handle(r)
        PROVE  Honest'
    <2>1. ConsumersHonest'
      BY <1>9, Grows DEF Handle, ConsumersHonest, TypeOK, Consumers, Reached
    <2>2. HandledHonest'
      BY <1>9, Grows DEF Handle, ConsumersHonest, HandledHonest, Reached
    <2> QED BY <1>9, <2>1, <2>2, Kept DEF Handle, storeVars, runtimeVars, workerVars
  <1>10. ASSUME NEW r \in Runtimes, Reject(r)
         PROVE  Honest'
    <2>1. ConsumersHonest'
      BY <1>10, Grows DEF Reject, Idle, ConsumersHonest, TypeOK, Reached
    <2> QED BY <1>10, <2>1, Kept DEF Reject, storeVars, runtimeVars, workerVars
  <1>11. ASSUME NEW r \in Runtimes, Ack(r)
         PROVE  Honest'
    <2>1. ConsumersHonest'
      BY <1>11, Grows DEF Ack, Idle, ConsumersHonest, TypeOK, Reached
    <2>2. StoreHonest'
      BY <1>11, Grows DEF Ack, StoreHonest, TypeOK, Reached
    <2> QED BY <1>11, <2>1, <2>2, Kept DEF Ack, runtimeVars, workerVars
  <1>12. CASE UNCHANGED vars
    BY <1>12, Kept DEF vars, storeVars, runtimeVars, workerVars, resultVars
  <1> QED
    BY <1>1, <1>2, <1>3, <1>4, <1>5, <1>6, <1>7, <1>8, <1>9, <1>10, <1>11, <1>12
    DEF Next, Runtime

-----------------------------------------------------------------------------

\* An outcome that a handler persisted stays so.
LEMMA AckedStep ==
  ASSUME TypeOK, Acked, [Next]_vars
  PROVE  Acked'
  <1> DEFINE Outcome(r) == [job |-> consumer[r].job, outcome |-> consumer[r].outcome]
             Covered(j) == \E res \in handled : res.job = j
  <1>1. \A j \in Jobs : Covered(j) => Covered(j)'
    BY Grows
  <1>2. ASSUME UNCHANGED consumer, \A j \in Jobs : state'[j] = "removed" => state[j] = "removed"
        PROVE  Acked'
    BY <1>2, Grows DEF Acked, RemovedIsHandled
  <1>3. ASSUME NEW r \in Runtimes,
               consumer' = [consumer EXCEPT ![r] = Idle] \/ \E result \in results[r] :
                 consumer' = [consumer EXCEPT ![r] =
                                [pc |-> "handle", job |-> result.job, outcome |-> result.outcome]],
               UNCHANGED state
        PROVE  Acked'
    <2>1. \A q \in Runtimes : consumer'[q].pc = "ack" => consumer'[q] = consumer[q]
      BY <1>3 DEF TypeOK, Idle
    <2> QED BY <1>3, <2>1, Grows DEF Acked, RemovedIsHandled
  <1>4. ASSUME NEW r \in Runtimes, NEW j \in Jobs, NEW outcome \in Outcomes, Update(j, outcome)
        PROVE  \A i \in Jobs : state'[i] = "removed" => state[i] = "removed"
    BY <1>4 DEF Update, TypeOK, Outcomes
  <1>5. ASSUME NEW r \in Runtimes, NEW k \in Keys, Build(r, k)
        PROVE  Acked'
    BY <1>2, <1>5 DEF Build, storeVars, resultVars
  <1>6. ASSUME NEW r \in Runtimes, Startup(r)
        PROVE  Acked'
    <2>1. PICK entry \in todo[r] :
            IF entry[2] \in Outcomes
            THEN Offer(r, entry[1], entry[2]) /\ UNCHANGED state
            ELSE Settle(r, entry[1], "failed")
      BY <1>6 DEF Startup
    <2>2. \A j \in Jobs : state'[j] = "removed" => state[j] = "removed"
      BY <2>1 DEF Settle, Update, TypeOK
    <2> QED BY <1>2, <1>6, <2>2 DEF Startup
  <1>7. ASSUME NEW r \in Runtimes, Started(r)
        PROVE  Acked'
    BY <1>2, <1>7 DEF Started, storeVars, resultVars
  <1>8. ASSUME NEW r \in Runtimes, Close(r)
        PROVE  Acked'
    BY <1>3, <1>8 DEF Close, storeVars
  <1>9. ASSUME NEW r \in Runtimes, NEW j \in Jobs, Enqueue(r, j)
        PROVE  Acked'
    <2>1. \A i \in Jobs : state'[i] = "removed" => state[i] = "removed"
      BY <1>9 DEF Enqueue, TypeOK
    <2> QED BY <1>2, <1>9, <2>1 DEF Enqueue, resultVars
  <1>10. ASSUME NEW r \in Runtimes, Online(r)
         PROVE  Acked'
    BY <1>2, <1>10 DEF Online, storeVars, resultVars
  <1>11. ASSUME NEW r \in Runtimes, NEW l \in Lanes, Lane(r, l)
         PROVE  Acked'
    <2>1. \A j \in Jobs : state'[j] = "removed" => state[j] = "removed"
      BY <1>11 DEF Lane, Look, Woken, Accept, Undelivered, Retry, Succeed, Defect,
                   storeVars, Settle, Update, TypeOK
    <2>2. UNCHANGED consumer
      BY <1>11 DEF Lane, Look, Woken, Accept, Undelivered, Retry, Succeed, Defect, resultVars
    <2> QED BY <1>2, <2>1, <2>2
  <1>12. ASSUME NEW r \in Runtimes, Take(r)
         PROVE  Acked'
    BY <1>3, <1>12 DEF Take, storeVars
  <1>13. ASSUME NEW r \in Runtimes, Handle(r)
         PROVE  Acked'
    <2>1. \A q \in Runtimes \ {r} : consumer'[q] = consumer[q]
      BY <1>13 DEF Handle, TypeOK
    <2>2. /\ consumer'[r].job = consumer[r].job
          /\ consumer'[r].outcome = consumer[r].outcome
      BY <1>13 DEF Handle, TypeOK, Consumers
    <2>3. Outcome(r) \in handled'
      BY <1>13 DEF Handle
    <2> QED BY <1>13, <2>1, <2>2, <2>3, Grows DEF Acked, RemovedIsHandled, Handle, storeVars
  <1>14. ASSUME NEW r \in Runtimes, Reject(r)
         PROVE  Acked'
    BY <1>3, <1>14 DEF Reject, storeVars
  <1>15. ASSUME NEW r \in Runtimes, Ack(r)
         PROVE  Acked'
    <2>1. \A q \in Runtimes : consumer'[q].pc = "ack" => consumer'[q] = consumer[q]
      BY <1>15 DEF Ack, TypeOK, Idle
    <2>2. Covered(consumer[r].job)
      BY <1>15 DEF Ack, Acked
    <2>3. \A j \in Jobs : state'[j] = "removed" => state[j] = "removed" \/ j = consumer[r].job
      BY <1>15 DEF Ack, TypeOK
    <2> QED BY <1>15, <2>1, <2>2, <2>3, Grows DEF Acked, RemovedIsHandled, Ack
  <1>16. CASE UNCHANGED vars
    BY <1>2, <1>16 DEF vars, storeVars, resultVars
  <1> QED
    BY <1>5, <1>6, <1>7, <1>8, <1>9, <1>10, <1>11, <1>12, <1>13, <1>14, <1>15, <1>16
    DEF Next, Runtime

-----------------------------------------------------------------------------

\* The invariant of all runs, with any number of tabs, jobs and identities.
THEOREM OutboxInvariant == Spec => []IInv
  <1>1. Init => IInv
    <2> SUFFICES ASSUME Init PROVE IInv
      OBVIOUS
    <2>1. Honest
      BY DEF Init, Honest, WorkersHonest, StoreHonest, TodoHonest, ResultsHonest,
             ConsumersHonest, HandledHonest, Looking, Idle
    <2>2. Acked
      BY DEF Init, Acked, RemovedIsHandled, Idle
    <2> QED BY <2>1, <2>2, InitTyped DEF IInv
  <1>2. IInv /\ [Next]_vars => IInv'
    BY TypedStep, HonestStep, AckedStep DEF IInv
  <1> QED BY <1>1, <1>2, PTL DEF Spec

\* A job that is reported sent was accepted by a relay (Outbox.ts runToTerminal,
\* emitStartup; outboxResultsAtom), whichever tab sent it and whichever closed.
THEOREM SentIsSent == Spec => []HonestSuccess
  <1>1. IInv => HonestSuccess
    <2> SUFFICES ASSUME IInv, NEW j \in Jobs,
                        \/ state[j] = "succeeded"
                        \/ \E res \in handled : res.job = j /\ res.outcome = "succeeded"
                 PROVE  \E k \in Keys : <<j, k>> \in published
      BY DEF HonestSuccess
    <2> QED BY DEF IInv, Honest, StoreHonest, HandledHonest, Reached
  <1> QED BY <1>1, OutboxInvariant, PTL

\* No outcome is lost between the store and its handler (OutboxStore.remove is
\* only reached through ack).
THEOREM NoOutcomeLost == Spec => []RemovedIsHandled
  <1>1. IInv => RemovedIsHandled
    BY DEF IInv, Acked
  <1> QED BY <1>1, OutboxInvariant, PTL

\* Every variable of Outbox keeps its type.
THEOREM TypeCorrect == Spec => []TypeOK
  <1>1. IInv => TypeOK
    BY DEF IInv
  <1> QED BY <1>1, OutboxInvariant, PTL

-----------------------------------------------------------------------------
(* The order of a lane.                                                    *)

InHand == {"send", "accepted", "sleep"}
Ended == Outcomes \cup {"removed"}

\* Who was enqueued earlier has an earlier stamp, or the same one.
Ordered ==
    \A j \in Jobs : \A i \in earlier[j] :
        /\ state[i] # "none" /\ state[j] # "none"
        /\ stamp[i] <= stamp[j]
        /\ j \notin earlier[i]

\* A worker has a stored job of its lane, and all that came before it there
\* have ended.
InTurn ==
    \A r \in Runtimes, l \in Lanes :
        worker[r][l].pc \in InHand =>
            LET j == worker[r][l].job
            IN /\ state[j] # "none" /\ LaneOf(j) = l
               /\ \A i \in earlier[j] : LaneOf(i) = l => state[i] # "queued"

-----------------------------------------------------------------------------
(* Lemmas on single steps.                                                 *)

\* A job once stored keeps its owner, its stamp and its place, and what has
\* ended is not queued again.
LEMMA StoredStays ==
  ASSUME TypeOK, [Next]_vars, NEW j \in Jobs, state[j] # "none"
  PROVE  /\ state'[j] # "none"
         /\ state'[j] = "queued" => state[j] = "queued"
         /\ owner'[j] = owner[j] /\ stamp'[j] = stamp[j] /\ earlier'[j] = earlier[j]
  <1>1. ASSUME UNCHANGED storeVars
        PROVE  /\ state'[j] # "none"
               /\ state'[j] = "queued" => state[j] = "queued"
               /\ owner'[j] = owner[j] /\ stamp'[j] = stamp[j] /\ earlier'[j] = earlier[j]
    BY <1>1 DEF storeVars
  <1>2. ASSUME UNCHANGED <<owner, stamp, earlier>>, NEW i \in Jobs, NEW outcome \in Outcomes, Update(i, outcome)
        PROVE  /\ state'[j] # "none"
               /\ state'[j] = "queued" => state[j] = "queued"
               /\ owner'[j] = owner[j] /\ stamp'[j] = stamp[j] /\ earlier'[j] = earlier[j]
    BY <1>2 DEF Update, TypeOK, Outcomes
  <1>3. ASSUME NEW r \in Runtimes, NEW i \in Jobs, Enqueue(r, i)
        PROVE  /\ state'[j] # "none"
               /\ state'[j] = "queued" => state[j] = "queued"
               /\ owner'[j] = owner[j] /\ stamp'[j] = stamp[j] /\ earlier'[j] = earlier[j]
    <2>1. i # j
      BY <1>3 DEF Enqueue
    <2> QED BY <1>3, <2>1 DEF Enqueue, TypeOK
  <1>4. ASSUME NEW r \in Runtimes, Startup(r)
        PROVE  /\ state'[j] # "none"
               /\ state'[j] = "queued" => state[j] = "queued"
               /\ owner'[j] = owner[j] /\ stamp'[j] = stamp[j] /\ earlier'[j] = earlier[j]
    <2>1. PICK entry \in todo[r] :
            IF entry[2] \in Outcomes
            THEN Offer(r, entry[1], entry[2]) /\ UNCHANGED state
            ELSE Settle(r, entry[1], "failed")
      BY <1>4 DEF Startup
    <2>2. entry[1] \in Jobs /\ "failed" \in Outcomes
      BY DEF TypeOK, Outcomes
    <2>3. UNCHANGED <<owner, stamp, earlier>>
      BY <1>4 DEF Startup
    <2> QED BY <1>1, <1>2, <2>1, <2>2, <2>3 DEF Settle, storeVars
  <1>5. ASSUME NEW r \in Runtimes, NEW l \in Lanes, Succeed(r, l) \/ Defect(r, l)
        PROVE  /\ state'[j] # "none"
               /\ state'[j] = "queued" => state[j] = "queued"
               /\ owner'[j] = owner[j] /\ stamp'[j] = stamp[j] /\ earlier'[j] = earlier[j]
    BY <1>5 DEF Succeed, Defect, Settle, Update, TypeOK
  <1>6. ASSUME NEW r \in Runtimes, Ack(r)
        PROVE  /\ state'[j] # "none"
               /\ state'[j] = "queued" => state[j] = "queued"
               /\ owner'[j] = owner[j] /\ stamp'[j] = stamp[j] /\ earlier'[j] = earlier[j]
    BY <1>6 DEF Ack, TypeOK
  <1>7. CASE UNCHANGED vars
    BY <1>1, <1>7 DEF vars
  <1> QED
    BY <1>1, <1>3, <1>4, <1>5, <1>6, <1>7
    DEF Next, Runtime, Lane, Build, Started, Close, Online, Look, Woken, Accept, Undelivered,
        Retry, Take, Handle, Reject

\* A worker has the job it had, or one that it has just looked for.
LEMMA InHandOrLooked ==
  ASSUME TypeOK, [Next]_vars, NEW r \in Runtimes, NEW l \in Lanes, worker'[r][l].pc \in InHand
  PROVE  \/ worker[r][l].pc \in InHand /\ worker'[r][l].job = worker[r][l].job
         \/ /\ phase[r] = "running" /\ UNCHANGED <<storeVars, runtimeVars>>
            /\ worker'[r][l].job \in Queued(l)
            /\ \A k \in Queued(l) \ {worker'[r][l].job} : Precedes(worker'[r][l].job, k)
  <1> USE DEF InHand
  <1>1. ASSUME NEW q \in Runtimes, NEW m \in Lanes, NEW next, Work(q, m, next)
        PROVE  IF q = r /\ m = l THEN worker'[r][l] = next ELSE worker'[r][l] = worker[r][l]
    BY <1>1 DEF Work, TypeOK
  <1>2. CASE UNCHANGED worker
    BY <1>2
  <1>3. ASSUME NEW q \in Runtimes, worker' = [worker EXCEPT ![q] = [m \in Lanes |-> Looking]]
        PROVE  worker[r][l].pc \in InHand /\ worker'[r][l].job = worker[r][l].job
    BY <1>3 DEF TypeOK, Looking
  <1>4. ASSUME NEW q \in Runtimes, NEW m \in Lanes, Look(q, m)
        PROVE  \/ worker[r][l].pc \in InHand /\ worker'[r][l].job = worker[r][l].job
               \/ /\ phase[r] = "running" /\ UNCHANGED <<storeVars, runtimeVars>>
                  /\ worker'[r][l].job \in Queued(l)
                  /\ \A k \in Queued(l) \ {worker'[r][l].job} : Precedes(worker'[r][l].job, k)
    <2>1. CASE Goto(q, m, "wait")
      <3>1. [worker[q][m] EXCEPT !.pc = "wait"].pc = "wait"
        BY Moved
      <3> QED BY <1>1, <2>1, <3>1 DEF Goto
    <2>2. ASSUME NEW j \in Queued(m), \A k \in Queued(m) \ {j} : Precedes(j, k),
                 Work(q, m, [pc |-> "send", job |-> j])
          PROVE  \/ worker[r][l].pc \in InHand /\ worker'[r][l].job = worker[r][l].job
                 \/ /\ phase[r] = "running"
                    /\ worker'[r][l].job \in Queued(l)
                    /\ \A k \in Queued(l) \ {worker'[r][l].job} : Precedes(worker'[r][l].job, k)
      <3>1. CASE q = r /\ m = l
        BY <1>1, <1>4, <2>2, <3>1 DEF Look, At
      <3>2. CASE ~(q = r /\ m = l)
        BY <1>1, <2>2, <3>2
      <3> QED BY <3>1, <3>2
    <2> QED BY <1>4, <2>1, <2>2 DEF Look
  <1>5. ASSUME NEW q \in Runtimes, NEW m \in Lanes,
               NEW pc \in {"look", "wait", "send", "accepted", "sleep"}, Goto(q, m, pc),
               worker[q][m].pc \in InHand
        PROVE  worker[r][l].pc \in InHand /\ worker'[r][l].job = worker[r][l].job
    <2>1. [worker[q][m] EXCEPT !.pc = pc].job = worker[q][m].job
      BY Moved
    <2> QED BY <1>1, <1>5, <2>1 DEF Goto
  <1>6. ASSUME NEW q \in Runtimes, NEW m \in Lanes, Work(q, m, Looking)
        PROVE  worker[r][l].pc \in InHand /\ worker'[r][l].job = worker[r][l].job
    BY <1>1, <1>6 DEF Looking
  <1>7. ASSUME NEW q \in Runtimes, NEW m \in Lanes,
               Accept(q, m) \/ Undelivered(q, m) \/ Retry(q, m)
        PROVE  worker[r][l].pc \in InHand /\ worker'[r][l].job = worker[r][l].job
    BY <1>5, <1>7 DEF Accept, Undelivered, Retry, At
  <1>8. ASSUME NEW q \in Runtimes, NEW m \in Lanes,
               Woken(q, m) \/ Succeed(q, m) \/ Defect(q, m)
        PROVE  worker[r][l].pc \in InHand /\ worker'[r][l].job = worker[r][l].job
    BY <1>6, <1>8 DEF Woken, Succeed, Defect
  <1> QED
    BY <1>2, <1>3, <1>4, <1>7, <1>8
    DEF Next, Runtime, Lane, Build, Startup, Started, Close, Enqueue, Online,
        Take, Handle, Reject, Ack, vars, workerVars

\* A relay has a new copy only of a job in hand, under the key of its runtime.
LEMMA NewCopy ==
  ASSUME TypeOK, [Next]_vars, NEW j \in Jobs, NEW k \in Keys,
         <<j, k>> \in published', <<j, k>> \notin published
  PROVE  /\ \E r \in Runtimes, l \in Lanes :
              phase[r] = "running" /\ worker[r][l].pc \in InHand /\ worker[r][l].job = j /\ key[r] = k
         /\ UNCHANGED storeVars
  <1>1. PICK r \in Runtimes, l \in Lanes : Accept(r, l)
    BY DEF Next, Runtime, Lane, Build, Startup, Started, Close, Enqueue, Online, Look, Woken,
           Undelivered, Retry, Succeed, Defect, Take, Handle, Reject, Ack, vars, resultVars
  <1>2. <<j, k>> = <<JobOf(r, l), key[r]>>
    BY <1>1 DEF Accept
  <1> QED BY <1>1, <1>2 DEF Accept, At, JobOf, InHand

-----------------------------------------------------------------------------
(* The order of a lane, with any number of runtimes on one clock.          *)

LEMMA OrderedStep ==
  ASSUME ~ClockStepsBack, TypeOK, Ordered, [Next]_vars
  PROVE  Ordered'
  <1> SUFFICES ASSUME NEW j \in Jobs, NEW i \in earlier'[j]
               PROVE  /\ state'[i] # "none" /\ state'[j] # "none"
                      /\ stamp'[i] <= stamp'[j] /\ j \notin earlier'[i]
    BY DEF Ordered
  <1>1. CASE state[j] # "none"
    <2>1. i \in earlier[j] /\ stamp'[j] = stamp[j] /\ state'[j] # "none"
      BY <1>1, StoredStays
    <2>2. i \in Jobs /\ state[i] # "none" /\ stamp[i] <= stamp[j] /\ j \notin earlier[i]
      BY <2>1 DEF Ordered, TypeOK
    <2> QED BY <2>1, <2>2, StoredStays
  <1>2. CASE state[j] = "none"
    <2>0. earlier[j] = {}
      BY <1>2 DEF Ordered, TypeOK
    <2>1. PICK r \in Runtimes : Enqueue(r, j)
      <3>1. ASSUME NEW r \in Runtimes, NEW k \in Jobs, Enqueue(r, k), k # j
            PROVE  earlier'[j] = earlier[j]
        BY <3>1 DEF Enqueue, TypeOK
      <3>2. UNCHANGED earlier \/ \E r \in Runtimes, k \in Jobs : Enqueue(r, k)
        BY DEF Next, Runtime, Lane, Build, Startup, Started, Close, Online, Look, Woken, Accept,
               Undelivered, Retry, Succeed, Defect, Take, Handle, Reject, Ack, vars, storeVars
      <3> QED BY <2>0, <3>1, <3>2
    <2>2. earlier'[j] = {k \in Jobs : state[k] # "none"} /\ state'[j] # "none"
      BY <2>1 DEF Enqueue, TypeOK
    <2>3. i \in Jobs /\ state[i] # "none" /\ i # j
      BY <1>2, <2>2
    <2>4. stamp[i] <= stamp'[j]
      BY <2>1, <2>3 DEF Enqueue, TypeOK
    <2>5. stamp'[i] = stamp[i] /\ earlier'[i] = earlier[i] /\ state'[i] # "none"
      BY <2>3, StoredStays
    <2>6. j \notin earlier[i]
      BY <1>2, <2>3 DEF Ordered, TypeOK
    <2> QED BY <2>2, <2>4, <2>5, <2>6
  <1> QED BY <1>1, <1>2

LEMMA InTurnStep ==
  ASSUME TypeOK, Busy, Ordered, InTurn, [Next]_vars
  PROVE  InTurn'
  <1> SUFFICES ASSUME NEW r \in Runtimes, NEW l \in Lanes, worker'[r][l].pc \in InHand
               PROVE  /\ state'[worker'[r][l].job] # "none" /\ LaneOf(worker'[r][l].job) = l
                      /\ \A i \in earlier'[worker'[r][l].job] : LaneOf(i) = l => state'[i] # "queued"
    BY DEF InTurn
  <1> DEFINE j == worker'[r][l].job
  <1>1. CASE worker[r][l].pc \in InHand /\ j = worker[r][l].job
    <2>1. j \in Jobs
      BY <1>1 DEF Busy, InHand
    <2>2. state[j] # "none" /\ LaneOf(j) = l /\ \A i \in earlier[j] : LaneOf(i) = l => state[i] # "queued"
      BY <1>1 DEF InTurn
    <2>3. state'[j] # "none" /\ earlier'[j] = earlier[j]
      BY <2>1, <2>2, StoredStays
    <2>4. \A i \in earlier[j] : LaneOf(i) = l => state'[i] # "queued"
      <3> TAKE i \in earlier[j]
      <3>1. i \in Jobs /\ state[i] # "none"
        BY <2>1 DEF Ordered, TypeOK
      <3> QED BY <2>2, <3>1, StoredStays
    <2> QED BY <2>2, <2>3, <2>4
  <1>2. CASE /\ UNCHANGED storeVars
             /\ j \in Queued(l)
             /\ \A k \in Queued(l) \ {j} : Precedes(j, k)
    <2>1. j \in Jobs /\ state[j] = "queued" /\ LaneOf(j) = l
      BY <1>2 DEF Queued
    <2>2. ASSUME NEW i \in earlier[j], LaneOf(i) = l, state[i] = "queued"
          PROVE  FALSE
      <3>1. i \in Jobs /\ stamp[i] <= stamp[j] /\ j \notin earlier[i]
        BY <2>1 DEF Ordered, TypeOK
      <3>2. i \in Queued(l) /\ i # j
        BY <2>2, <3>1 DEF Queued
      <3>3. Precedes(j, i)
        BY <1>2, <3>2
      <3>4. stamp[i] \in Nat /\ stamp[j] \in Nat
        BY <2>1, <3>1, OutboxAssumption DEF TypeOK
      <3> QED BY <3>1, <3>3, <3>4 DEF Precedes
    <2> QED BY <1>2, <2>1, <2>2 DEF storeVars
  <1> QED BY <1>1, <1>2, InHandOrLooked

\* Each lane delivers in the order of enqueueing (outbox.md), whichever tabs
\* share the store, as long as nobody sets the clock back.
THEOREM LanesKeepOrder ==
  ASSUME ~ClockStepsBack
  PROVE  Spec => InOrder
  <1> DEFINE Inv == TypeOK /\ Busy /\ Ordered /\ InTurn
  <1>1. Init => Inv
    BY InitTyped DEF Init, Ordered, InTurn, InHand, Looking
  <1>2. Inv /\ [Next]_vars => Inv'
    BY ~ClockStepsBack, TypedStep, OrderedStep, InTurnStep
  <1>3. Inv /\ [Next]_vars =>
          [\A j \in Jobs :
             Reached(j)' /\ ~Reached(j) =>
               \A i \in earlier[j] : LaneOf(i) = LaneOf(j) => state[i] # "queued"]_vars
    <2> SUFFICES ASSUME Inv, [Next]_vars, NEW j \in Jobs, Reached(j)', ~Reached(j),
                        NEW i \in earlier[j], LaneOf(i) = LaneOf(j)
                 PROVE  state[i] # "queued"
      OBVIOUS
    <2>1. PICK k \in Keys : <<j, k>> \in published' /\ <<j, k>> \notin published
      BY DEF Reached
    <2>2. PICK r \in Runtimes, l \in Lanes : worker[r][l].pc \in InHand /\ worker[r][l].job = j
      BY <2>1, NewCopy
    <2> QED BY <2>2 DEF InTurn
  <1> QED BY <1>1, <1>2, <1>3, PTL DEF Spec, InOrder

-----------------------------------------------------------------------------
(* One runtime.                                                            *)

Alone == \A q, r \in Runtimes : q = r

\* What the runtime is about to report, hand over or ack has ended.
ReportsEnded ==
    \A r \in Runtimes :
        /\ phase[r] # "starting" => todo[r] = {}
        /\ \A entry \in todo[r] :
             state[entry[1]] \in IF entry[2] = "queued" THEN {"queued"} ELSE Ended
        /\ \A res \in results[r] : state[res.job] \in Ended
        /\ consumer[r].pc # "idle" => state[consumer[r].job] \in Ended

\* Once it runs, what is queued is its own; until then the startup has the rest.
QueueIsOwn ==
    \A r \in Runtimes, j \in Jobs :
        state[j] = "queued" =>
            /\ phase[r] = "running" => owner[j] = key[r]
            /\ phase[r] = "starting" => owner[j] = key[r] \/ <<j, "queued">> \in todo[r]

WorksOnQueued ==
    \A r \in Runtimes, l \in Lanes :
        worker[r][l].pc \in InHand =>
            /\ phase[r] = "running"
            /\ state[worker[r][l].job] = "queued" /\ LaneOf(worker[r][l].job) = l

SentAsOwner ==
    \A j \in Jobs, k \in Keys : <<j, k>> \in published => state[j] # "none" /\ k = owner[j]

LEMMA EndedStays ==
  ASSUME TypeOK, Busy, [Next]_vars, NEW j \in Jobs, state[j] \in Ended
  PROVE  state'[j] \in Ended
  <1>1. state[j] # "none" /\ state[j] # "queued"
    BY DEF Ended, Outcomes
  <1>2. state'[j] # "none" /\ state'[j] # "queued"
    BY <1>1, StoredStays
  <1> QED BY <1>2, TypedStep DEF TypeOK, States, Ended

\* A job is stored by being enqueued; nothing else makes one queued.
LEMMA NewlyQueued ==
  ASSUME TypeOK, [Next]_vars, NEW j \in Jobs, state'[j] = "queued", state[j] # "queued"
  PROVE  \E r \in Runtimes : Enqueue(r, j)
  <1>0. state[j] = "none"
    BY StoredStays
  <1>1. ASSUME NEW r \in Runtimes, NEW i \in Jobs, Enqueue(r, i)
        PROVE  i = j
    BY <1>1, <1>0 DEF Enqueue, TypeOK
  <1>2. ASSUME NEW i \in Jobs, NEW outcome \in Outcomes, Update(i, outcome)
        PROVE  state'[j] = state[j]
    BY <1>0, <1>2 DEF Update, TypeOK, Stored, Outcomes
  <1>3. ASSUME NEW r \in Runtimes, Startup(r)
        PROVE  state'[j] = state[j]
    <2>1. PICK entry \in todo[r] :
            IF entry[2] \in Outcomes
            THEN Offer(r, entry[1], entry[2]) /\ UNCHANGED state
            ELSE Settle(r, entry[1], "failed")
      BY <1>3 DEF Startup
    <2>2. entry[1] \in Jobs /\ "failed" \in Outcomes
      BY DEF TypeOK, Outcomes
    <2> QED BY <1>2, <2>1, <2>2 DEF Settle
  <1>4. ASSUME NEW r \in Runtimes, NEW l \in Lanes, Succeed(r, l) \/ Defect(r, l)
        PROVE  state'[j] = state[j]
    BY <1>0, <1>4 DEF Succeed, Defect, Settle, Update, Stored, Outcomes, TypeOK
  <1>5. ASSUME NEW r \in Runtimes, Ack(r)
        PROVE  state'[j] # "queued"
    BY <1>0, <1>5 DEF Ack, TypeOK
  <1>6. CASE UNCHANGED state
    BY <1>6
  <1> QED
    BY <1>1, <1>3, <1>4, <1>5, <1>6
    DEF Next, Runtime, Lane, Build, Started, Close, Online, Look, Woken, Accept, Undelivered,
        Retry, Take, Handle, Reject, vars, storeVars

LEMMA ReportsStep ==
  ASSUME Alone, TypeOK, Busy, ReportsEnded, WorksOnQueued, [Next]_vars
  PROVE  ReportsEnded'
  <1> DEFINE Reports(r) ==
        /\ phase[r] # "starting" => todo[r] = {}
        /\ \A entry \in todo[r] :
             state[entry[1]] \in IF entry[2] = "queued" THEN {"queued"} ELSE Ended
        /\ \A res \in results[r] : state[res.job] \in Ended
        /\ consumer[r].pc # "idle" => state[consumer[r].job] \in Ended
  <1>0. \A r \in Runtimes : Reports(r)
    BY DEF ReportsEnded
  <1>1. /\ \A r \in Runtimes : \A entry \in todo[r] :
             entry[1] \in Jobs /\ entry[2] \in Stored /\ entry = <<entry[1], entry[2]>>
        /\ \A r \in Runtimes : \A res \in results[r] : res.job \in Jobs
        /\ \A r \in Runtimes : consumer[r].pc # "idle" => consumer[r].job \in Jobs
        /\ \A r \in Runtimes, l \in Lanes : worker[r][l].pc \in InHand => worker[r][l].job \in Jobs
    BY DEF TypeOK, Results, Busy, InHand
  <1>2. /\ \A r \in Runtimes : \A res \in results[r] : state'[res.job] \in Ended
        /\ \A r \in Runtimes : consumer[r].pc # "idle" => state'[consumer[r].job] \in Ended
        /\ \A r \in Runtimes : \A entry \in todo[r] :
             entry[2] # "queued" => state'[entry[1]] \in Ended
    BY <1>0, <1>1, EndedStays
  <1>3. ASSUME NEW r \in Runtimes, UNCHANGED <<phase, todo, state>>,
               \A res \in results'[r] : res \in results[r],
               consumer'[r].pc # "idle" => consumer'[r].job = consumer[r].job /\ consumer[r].pc # "idle"
        PROVE  Reports(r)'
    BY <1>0, <1>2, <1>3
  <1>4. ASSUME NEW r \in Runtimes, NEW k \in Keys, Build(r, k)
        PROVE  Reports(r)'
    <2>1. todo'[r] = {<<j, state[j]>> : j \in {i \in Jobs : ForStartup(i, k)}}
      BY <1>4 DEF Build, TypeOK
    <2>2. \A entry \in todo'[r] :
            state[entry[1]] \in IF entry[2] = "queued" THEN {"queued"} ELSE Ended
      BY <2>1 DEF ForStartup, Ended, Outcomes
    <2>3. phase'[r] = "starting" /\ UNCHANGED <<state, results, consumer>>
      BY <1>4 DEF Build, TypeOK, storeVars, resultVars
    <2> QED BY <1>0, <2>2, <2>3
  <1>5. ASSUME NEW r \in Runtimes, Startup(r)
        PROVE  Reports(r)'
    <2>0. phase[r] = "starting" /\ UNCHANGED <<phase, consumer>>
      BY <1>5 DEF Startup
    <2>1. PICK entry \in todo[r] :
            /\ todo' = [todo EXCEPT ![r] = @ \ {entry}]
            /\ IF entry[2] \in Outcomes
               THEN Offer(r, entry[1], entry[2]) /\ UNCHANGED state
               ELSE Settle(r, entry[1], "failed")
      BY <1>5 DEF Startup
    <2>2. todo'[r] = todo[r] \ {entry}
      BY <2>1 DEF TypeOK
    <2>3. state'[entry[1]] \in Ended
          /\ \A j \in Jobs : j # entry[1] \/ entry[2] # "queued" => state'[j] = state[j]
      <3>1. CASE entry[2] \in Outcomes
        BY <1>0, <2>1, <3>1 DEF Outcomes
      <3>2. CASE entry[2] = "queued"
        BY <1>0, <1>1, <2>1, <3>2 DEF Settle, Update, Ended, Outcomes, Stored, TypeOK
      <3> QED BY <1>1, <3>1, <3>2 DEF Stored
    <2>4. \A res \in results'[r] : res \in results[r] \/ res.job = entry[1]
      BY <2>1 DEF Settle, Offer, TypeOK
    <2>5. ASSUME NEW e \in todo'[r]
          PROVE  state'[e[1]] \in IF e[2] = "queued" THEN {"queued"} ELSE Ended
      <3>1. e \in todo[r] /\ e # entry
        BY <2>2
      <3>2. CASE e[2] = "queued"
        <4>1. e[1] # entry[1] \/ entry[2] # "queued"
          BY <1>1, <3>1, <3>2
        <4> QED BY <1>0, <1>1, <2>3, <3>1, <3>2, <4>1
      <3> QED BY <1>2, <3>1, <3>2
    <2> QED BY <1>2, <2>0, <2>3, <2>4, <2>5
  <1>6. ASSUME NEW r \in Runtimes, Started(r)
        PROVE  Reports(r)'
    BY <1>0, <1>6 DEF Started, storeVars, resultVars, TypeOK
  <1>7. ASSUME NEW r \in Runtimes, Close(r)
        PROVE  Reports(r)'
    BY <1>7 DEF Close, Idle, TypeOK
  <1>8. ASSUME NEW r \in Runtimes, NEW j \in Jobs, Enqueue(r, j)
        PROVE  Reports(r)'
    <2>1. \A i \in Jobs : state[i] = "queued" => state'[i] = "queued"
      BY <1>8 DEF Enqueue, TypeOK
    <2> QED BY <1>0, <1>1, <1>2, <1>8, <2>1 DEF Enqueue, runtimeVars, resultVars
  <1>9. ASSUME NEW r \in Runtimes, NEW l \in Lanes, Succeed(r, l) \/ Defect(r, l)
        PROVE  Reports(r)'
    <2>1. phase[r] = "running" /\ worker[r][l].pc \in InHand
      BY <1>9 DEF Succeed, Defect, At, InHand
    <2>2. JobOf(r, l) \in Jobs /\ state[JobOf(r, l)] = "queued"
      BY <1>1, <2>1 DEF WorksOnQueued, JobOf
    <2>3. state'[JobOf(r, l)] \in Ended
      BY <1>9, <2>2 DEF Succeed, Defect, Settle, Update, Ended, Outcomes, Stored, TypeOK
    <2>4. \A res \in results'[r] : res \in results[r] \/ res.job = JobOf(r, l)
      BY <1>9 DEF Succeed, Defect, Settle, Offer, TypeOK
    <2>5. todo'[r] = {} /\ UNCHANGED <<phase, consumer>>
      BY <1>0, <1>9, <2>1 DEF Succeed, Defect, runtimeVars
    <2> QED BY <1>2, <2>3, <2>4, <2>5
  <1>10. ASSUME NEW r \in Runtimes, Take(r)
         PROVE  Reports(r)'
    <2>1. PICK result \in results[r] :
            /\ results' = [results EXCEPT ![r] = @ \ {result}]
            /\ consumer' = [consumer EXCEPT ![r] =
                              [pc |-> "handle", job |-> result.job, outcome |-> result.outcome]]
      BY <1>10 DEF Take
    <2>2. consumer'[r].job = result.job /\ results'[r] \subseteq results[r]
      BY <2>1 DEF TypeOK
    <2> QED BY <1>0, <1>10, <2>2 DEF Take, storeVars, runtimeVars
  <1>11. ASSUME NEW r \in Runtimes, Handle(r) \/ Reject(r)
         PROVE  Reports(r)'
    <2>1. consumer'[r].pc # "idle" => consumer'[r].job = consumer[r].job /\ consumer[r].pc # "idle"
      BY <1>11 DEF Handle, Reject, Idle, TypeOK, Consumers
    <2> QED BY <1>3, <1>11, <2>1 DEF Handle, Reject, storeVars, runtimeVars
  <1>12. ASSUME NEW r \in Runtimes, Ack(r)
         PROVE  Reports(r)'
    <2>1. consumer[r].job \in Jobs /\ state[consumer[r].job] \in Ended
      BY <1>0, <1>1, <1>12 DEF Ack
    <2>2. \A i \in Jobs : state[i] = "queued" => state'[i] = "queued"
      BY <1>12, <2>1 DEF Ack, Ended, Outcomes, TypeOK
    <2>3. consumer'[r].pc = "idle"
      BY <1>12 DEF Ack, Idle, TypeOK
    <2> QED BY <1>0, <1>1, <1>2, <1>12, <2>2, <2>3 DEF Ack, runtimeVars
  <1>13. ASSUME NEW r \in Runtimes, NEW l \in Lanes,
                \/ Look(r, l) \/ Woken(r, l)
                \/ Accept(r, l) \/ Undelivered(r, l) \/ Retry(r, l)
         PROVE  Reports(r)'
    BY <1>3, <1>13 DEF Look, Woken, Accept, Undelivered, Retry, storeVars, runtimeVars, resultVars
  <1>14. ASSUME NEW r \in Runtimes, Online(r)
         PROVE  Reports(r)'
    BY <1>3, <1>14 DEF Online, storeVars, runtimeVars, resultVars
  <1>15. ASSUME NEW r \in Runtimes, UNCHANGED vars
         PROVE  Reports(r)'
    BY <1>3, <1>15 DEF vars, storeVars, runtimeVars, resultVars
  <1>16. ASSUME NEW r \in Runtimes PROVE Reports(r)'
    <2>1. ASSUME NEW q \in Runtimes, Runtime(q)
          PROVE  Reports(r)'
      <3>1. q = r
        BY DEF Alone
      <3> QED
        BY <2>1, <3>1, <1>4, <1>5, <1>6, <1>7, <1>8, <1>9, <1>10, <1>11, <1>12, <1>13, <1>14
        DEF Runtime, Lane
    <2> QED BY <1>15, <2>1 DEF Next
  <1> QED BY <1>16 DEF ReportsEnded

LEMMA QueueStep ==
  ASSUME Alone, TypeOK, ReportsEnded, QueueIsOwn, [Next]_vars
  PROVE  QueueIsOwn'
  <1> SUFFICES ASSUME NEW r \in Runtimes, NEW j \in Jobs, state'[j] = "queued"
               PROVE  /\ phase'[r] = "running" => owner'[j] = key'[r]
                      /\ phase'[r] = "starting" => owner'[j] = key'[r] \/ <<j, "queued">> \in todo'[r]
    BY DEF QueueIsOwn
  <1> DEFINE Goal == /\ phase'[r] = "running" => owner'[j] = key'[r]
                     /\ phase'[r] = "starting" => owner'[j] = key'[r] \/ <<j, "queued">> \in todo'[r]
  <1>1. CASE state[j] # "queued"
    <2>1. PICK q \in Runtimes : Enqueue(q, j)
      BY <1>1, NewlyQueued
    <2>2. q = r
      BY DEF Alone
    <2> QED BY <2>1, <2>2 DEF Enqueue, runtimeVars, TypeOK
  <1>2. CASE state[j] = "queued"
    <2>0. /\ owner'[j] = owner[j]
          /\ phase[r] = "running" => owner[j] = key[r]
          /\ phase[r] = "starting" => owner[j] = key[r] \/ <<j, "queued">> \in todo[r]
      BY <1>2, StoredStays DEF QueueIsOwn
    <2>1. ASSUME UNCHANGED runtimeVars PROVE Goal
      BY <2>0, <2>1 DEF runtimeVars
    <2>2. ASSUME NEW k \in Keys, Build(r, k) PROVE Goal
      <3>1. todo'[r] = {<<i, state[i]>> : i \in {n \in Jobs : ForStartup(n, k)}}
        BY <2>2 DEF Build, TypeOK
      <3>2. phase'[r] = "starting" /\ key'[r] = k
        BY <2>2 DEF Build, TypeOK
      <3>3. owner[j] # k => <<j, "queued">> \in todo'[r]
        BY <1>2, <3>1 DEF ForStartup
      <3> QED BY <2>0, <3>2, <3>3
    <2>3. ASSUME Startup(r) PROVE Goal
      <3>1. PICK entry \in todo[r] :
              /\ todo' = [todo EXCEPT ![r] = @ \ {entry}]
              /\ IF entry[2] \in Outcomes
                 THEN Offer(r, entry[1], entry[2]) /\ UNCHANGED state
                 ELSE Settle(r, entry[1], "failed")
        BY <2>3 DEF Startup
      <3>2. entry # <<j, "queued">>
        <4> SUFFICES ASSUME entry = <<j, "queued">> PROVE FALSE
          OBVIOUS
        <4>1. Settle(r, j, "failed")
          BY <3>1 DEF Outcomes
        <4> QED BY <1>2, <4>1 DEF Settle, Update, Stored, TypeOK
      <3> QED BY <2>0, <2>3, <3>1, <3>2 DEF Startup, TypeOK
    <2>4. ASSUME Started(r) PROVE Goal
      BY <2>0, <2>4 DEF Started, TypeOK
    <2>5. ASSUME Close(r) PROVE Goal
      BY <2>5 DEF Close, TypeOK
    <2>6. ASSUME NEW q \in Runtimes, Runtime(q) PROVE Goal
      <3>1. q = r
        BY DEF Alone
      <3> QED
        BY <2>1, <2>2, <2>3, <2>4, <2>5, <2>6, <3>1
        DEF Runtime, Enqueue, Online, Lane, Look, Woken, Accept, Undelivered, Retry, Succeed,
            Defect, Take, Handle, Reject, Ack
    <2> QED BY <2>1, <2>6 DEF Next, vars
  <1> QED BY <1>1, <1>2

\* Only the worker that has a job ends it while it runs.
LEMMA WorksStep ==
  ASSUME Alone, TypeOK, Busy, ReportsEnded, WorksOnQueued, [Next]_vars
  PROVE  WorksOnQueued'
  <1> SUFFICES ASSUME NEW r \in Runtimes, NEW l \in Lanes, worker'[r][l].pc \in InHand
               PROVE  /\ phase'[r] = "running"
                      /\ state'[worker'[r][l].job] = "queued" /\ LaneOf(worker'[r][l].job) = l
    BY DEF WorksOnQueued
  <1> DEFINE j == worker'[r][l].job
             Goal == phase'[r] = "running" /\ state'[j] = "queued" /\ LaneOf(j) = l
  <1>1. CASE worker[r][l].pc \in InHand /\ j = worker[r][l].job
    <2>1. j \in Jobs /\ phase[r] = "running" /\ state[j] = "queued" /\ LaneOf(j) = l
      BY <1>1 DEF Busy, InHand, WorksOnQueued
    <2>2. ASSUME UNCHANGED <<phase, state>> PROVE Goal
      BY <2>1, <2>2
    <2>3. ASSUME NEW k \in Keys, Build(r, k) PROVE Goal
      BY <2>1, <2>3 DEF Build
    <2>4. ASSUME Startup(r) \/ Started(r) PROVE Goal
      BY <2>1, <2>4 DEF Startup, Started
    <2>5. ASSUME Close(r) PROVE Goal
      BY <2>5 DEF Close, Looking, InHand, TypeOK
    <2>6. ASSUME NEW i \in Jobs, Enqueue(r, i) PROVE Goal
      BY <2>1, <2>6 DEF Enqueue, runtimeVars, TypeOK
    <2>7. ASSUME NEW m \in Lanes, Succeed(r, m) \/ Defect(r, m) PROVE Goal
      <3>1. m # l
        BY <2>7 DEF Succeed, Defect, Work, Looking, InHand, TypeOK
      <3>2. JobOf(r, m) # j
        BY <2>1, <2>7, <3>1 DEF Succeed, Defect, At, JobOf, InHand, WorksOnQueued
      <3> QED BY <2>1, <2>7, <3>2 DEF Succeed, Defect, Settle, Update, runtimeVars, TypeOK
    <2>8. ASSUME Ack(r) PROVE Goal
      <3>1. state[consumer[r].job] \in Ended
        BY <2>8 DEF Ack, ReportsEnded
      <3>2. consumer[r].job # j
        BY <2>1, <3>1 DEF Ended, Outcomes
      <3> QED BY <2>1, <2>8, <3>2 DEF Ack, runtimeVars, TypeOK
    <2>9. ASSUME NEW q \in Runtimes, Runtime(q) PROVE Goal
      <3>1. q = r
        BY DEF Alone
      <3> QED
        BY <2>2, <2>3, <2>4, <2>5, <2>6, <2>7, <2>8, <2>9, <3>1
        DEF Runtime, Online, Lane, Look, Woken, Accept, Undelivered, Retry, Take, Handle, Reject,
            storeVars, runtimeVars
    <2> QED BY <2>2, <2>9 DEF Next, vars, storeVars, runtimeVars
  <1>2. CASE phase[r] = "running" /\ UNCHANGED <<storeVars, runtimeVars>> /\ j \in Queued(l)
    BY <1>2 DEF storeVars, runtimeVars, Queued
  <1> QED BY <1>1, <1>2, InHandOrLooked

LEMMA SentStep ==
  ASSUME TypeOK, Busy, QueueIsOwn, WorksOnQueued, SentAsOwner, [Next]_vars
  PROVE  SentAsOwner'
  <1> SUFFICES ASSUME NEW j \in Jobs, NEW k \in Keys, <<j, k>> \in published'
               PROVE  state'[j] # "none" /\ k = owner'[j]
    BY DEF SentAsOwner
  <1>1. CASE <<j, k>> \in published
    BY <1>1, StoredStays DEF SentAsOwner
  <1>2. CASE <<j, k>> \notin published
    <2>1. PICK r \in Runtimes, l \in Lanes :
            phase[r] = "running" /\ worker[r][l].pc \in InHand /\ worker[r][l].job = j /\ key[r] = k
      BY <1>2, NewCopy
    <2>2. state[j] = "queued" /\ owner[j] = k
      BY <2>1 DEF WorksOnQueued, QueueIsOwn
    <2> QED BY <1>2, <2>2, NewCopy DEF storeVars
  <1> QED BY <1>1, <1>2

SoloInv == TypeOK /\ Busy /\ ReportsEnded /\ QueueIsOwn /\ WorksOnQueued /\ SentAsOwner

\* What makes both of the following hold in one runtime.
THEOREM SoloInvariant ==
  ASSUME Alone
  PROVE  Spec => []SoloInv
  <1>1. Init => SoloInv
    BY InitTyped DEF Init, SoloInv, ReportsEnded, QueueIsOwn, WorksOnQueued, SentAsOwner,
                     InHand, Looking, Idle
  <1>2. SoloInv /\ [Next]_vars => SoloInv'
    BY Alone, TypedStep, ReportsStep, QueueStep, WorksStep, SentStep DEF SoloInv
  <1> QED BY <1>1, <1>2, PTL DEF Spec

\* In one runtime a job is only ever sent under the key it was enqueued with
\* (outbox.md), also after the app was closed and built under another identity.
THEOREM SentUnderOwnKey ==
  ASSUME Alone
  PROVE  Spec => []OwnKey
  <1>1. SoloInv => OwnKey
    BY DEF SoloInv, SentAsOwner, OwnKey
  <1> QED BY <1>1, SoloInvariant, Alone, PTL

LEMMA EndedIsFinal ==
  ASSUME SoloInv, [Next]_vars, NEW j \in Jobs, state[j] \in Ended
  PROVE  /\ state'[j] \in {state[j], "removed"}
         /\ \A k \in Keys : <<j, k>> \in published' => <<j, k>> \in published
  <1> USE DEF SoloInv
  <1>1. ASSUME NEW k \in Keys, <<j, k>> \in published', <<j, k>> \notin published
        PROVE  FALSE
    <2>1. PICK r \in Runtimes, l \in Lanes :
            phase[r] = "running" /\ worker[r][l].pc \in InHand /\ worker[r][l].job = j
      BY <1>1, NewCopy
    <2>2. state[j] = "queued"
      BY <2>1 DEF WorksOnQueued
    <2> QED BY <2>2 DEF Ended, Outcomes
  <1>2. ASSUME NEW i \in Jobs, NEW outcome, state[i] = "queued", Update(i, outcome)
        PROVE  state'[j] = state[j]
    <2>1. i # j
      BY <1>2 DEF Ended, Outcomes
    <2> QED BY <1>2, <2>1 DEF Update, TypeOK
  <1>3. ASSUME NEW r \in Runtimes, Startup(r)
        PROVE  state'[j] = state[j]
    <2>1. PICK entry \in todo[r] :
            IF entry[2] \in Outcomes
            THEN Offer(r, entry[1], entry[2]) /\ UNCHANGED state
            ELSE Settle(r, entry[1], "failed")
      BY <1>3 DEF Startup
    <2>2. entry[1] \in Jobs /\ entry[2] \in Stored
      BY DEF TypeOK
    <2>3. CASE entry[2] \in Outcomes
      BY <2>1, <2>3
    <2>4. CASE entry[2] = "queued"
      <3>1. state[entry[1]] = "queued"
        BY <2>4 DEF ReportsEnded
      <3> QED BY <1>2, <2>1, <2>2, <2>4, <3>1 DEF Settle, Outcomes
    <2> QED BY <2>2, <2>3, <2>4 DEF Stored
  <1>4. ASSUME NEW r \in Runtimes, NEW l \in Lanes, Succeed(r, l) \/ Defect(r, l)
        PROVE  state'[j] = state[j]
    <2>1. worker[r][l].pc \in InHand
      BY <1>4 DEF Succeed, Defect, At, InHand
    <2>2. JobOf(r, l) \in Jobs /\ state[JobOf(r, l)] = "queued"
      BY <2>1 DEF JobOf, WorksOnQueued, Busy, InHand
    <2> QED BY <1>2, <1>4, <2>2 DEF Succeed, Defect, Settle
  <1>5. ASSUME NEW r \in Runtimes, NEW i \in Jobs, Enqueue(r, i)
        PROVE  state'[j] = state[j]
    BY <1>5 DEF Enqueue, Ended, Outcomes, TypeOK
  <1>6. ASSUME NEW r \in Runtimes, Ack(r)
        PROVE  state'[j] \in {state[j], "removed"}
    BY <1>6 DEF Ack, TypeOK
  <1>7. state'[j] \in {state[j], "removed"}
    <2>1. CASE UNCHANGED state
      BY <2>1
    <2> QED
      BY <1>3, <1>4, <1>5, <1>6, <2>1
      DEF Next, Runtime, Lane, Build, Started, Close, Online, Look, Woken, Accept,
          Undelivered, Retry, Take, Handle, Reject, vars, storeVars
  <1> QED BY <1>1, <1>7

\* In one runtime an outcome stands, and no copy of a job leaves after it: a
\* restart repeats the report, never the delivery.
THEOREM OutcomeIsFinal ==
  ASSUME Alone
  PROVE  Spec => EndsOnce
  <1>1. SoloInv /\ [Next]_vars =>
          [\A j \in Jobs :
             state[j] \in Outcomes \cup {"removed"} =>
               /\ state'[j] \in {state[j], "removed"}
               /\ \A k \in Keys : <<j, k>> \in published' => <<j, k>> \in published]_vars
    <2> SUFFICES ASSUME SoloInv, [Next]_vars, NEW j \in Jobs,
                        state[j] \in Outcomes \cup {"removed"}
                 PROVE  /\ state'[j] \in {state[j], "removed"}
                        /\ \A k \in Keys : <<j, k>> \in published' => <<j, k>> \in published
      OBVIOUS
    <2> QED BY EndedIsFinal DEF Ended
  <1> QED BY <1>1, SoloInvariant, Alone, PTL DEF Spec, EndsOnce

=============================================================================
