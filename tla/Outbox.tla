------------------------------- MODULE Outbox -------------------------------
(***************************************************************************)
(* The durable send queue of linkstr (outbox/Outbox.ts, OutboxStore.ts):   *)
(* jobs stored as one list, one delivery worker per lane, results that a   *)
(* consumer handles and acks.  A runtime is a page or process that built   *)
(* the service; several of them may share one store, as the tabs of the    *)
(* web app share localStorage, and each is built under one key pair.       *)
(*                                                                         *)
(* Every store access is a step; they are synchronous and whole in the     *)
(* code.  An operation is only its lane; what travels is its rumor, fixed  *)
(* when the job is enqueued.  The order in which results reach the         *)
(* consumer is left out: results[r] is a set.                              *)
(***************************************************************************)
EXTENDS Naturals, FiniteSets

CONSTANTS
    Runtimes,     \* pages or processes sharing the store
    Jobs,         \* job ids; each is enqueued at most once
    Telemetry,    \* the jobs of enqueueTelemetry, sent on the background lane
    Keys,         \* identities (pubkeys)
    MaxTime,      \* bound on the seconds a job may be stamped with
    ClockStepsBack \* may the wall clock be set back

NoJob == "no job"

ASSUME OutboxAssumption ==
    /\ Telemetry \subseteq Jobs /\ NoJob \notin Jobs /\ Keys # {}
    /\ MaxTime \in Nat
    /\ ClockStepsBack \in BOOLEAN

VARIABLES
    \* the shared store
    state,      \* Jobs -> not enqueued, queued, awaiting ack by outcome, removed
    owner,      \* the pubkey of a stored job
    stamp,      \* its enqueuedAt
    earlier,    \* the jobs enqueued before it, of which the store keeps the order
    \* each runtime
    phase,      \* closed, starting (emitStartup), running
    key,        \* the identity it was built with
    todo,       \* the part of emitStartup's snapshot that is left to do
    worker,     \* Runtimes -> Lanes -> what the lane's worker does
    wake,       \* Runtimes -> Lanes -> is there something in the wake queue
    results,    \* terminals offered to the consumer and not taken
    consumer,   \* what the consumer does with one of them
    \* the world
    published,  \* <<job, key>>: a relay accepted the job's copy, signed by key
    handled     \* results whose handler resolved

storeVars == <<state, owner, stamp, earlier>>
runtimeVars == <<phase, key, todo>>
workerVars == <<worker, wake>>
resultVars == <<results, consumer, handled>>
vars == <<storeVars, runtimeVars, workerVars, resultVars, published>>

\* Mutant: telemetry shares the lane of the chat jobs.
OneLane(j) == "foreground"

\* The two lanes; a lane that no job uses is left out.
LaneOf(j) == IF j \in Telemetry THEN "background" ELSE "foreground"
Lanes == {LaneOf(j) : j \in Jobs}

Outcomes == {"succeeded", "failed"}
States == {"none", "queued", "removed"} \cup Outcomes
Results == [job : Jobs, outcome : Outcomes]
Stored == {"queued"} \cup Outcomes

Workers == [pc : {"look", "wait", "send", "accepted", "sleep"}, job : Jobs \cup {NoJob}]
Consumers == [pc : {"idle", "handle", "ack"}, job : Jobs \cup {NoJob}, outcome : Outcomes]

AnyKey == CHOOSE k \in Keys : TRUE \* until it is set
Looking == [pc |-> "look", job |-> NoJob]
Idle == [pc |-> "idle", job |-> NoJob, outcome |-> "failed"]

TypeOK ==
    /\ state \in [Jobs -> States]
    /\ owner \in [Jobs -> Keys]
    /\ stamp \in [Jobs -> 0..MaxTime]
    /\ earlier \in [Jobs -> SUBSET Jobs]
    /\ phase \in [Runtimes -> {"closed", "starting", "running"}]
    /\ key \in [Runtimes -> Keys]
    /\ todo \in [Runtimes -> SUBSET (Jobs \X Stored)]
    /\ worker \in [Runtimes -> [Lanes -> Workers]]
    /\ wake \in [Runtimes -> [Lanes -> BOOLEAN]]
    /\ results \in [Runtimes -> SUBSET Results]
    /\ consumer \in [Runtimes -> Consumers]
    /\ published \subseteq Jobs \X Keys
    /\ handled \subseteq Results

Init ==
    /\ state = [j \in Jobs |-> "none"]
    /\ owner = [j \in Jobs |-> AnyKey]
    /\ stamp = [j \in Jobs |-> 0]
    /\ earlier = [j \in Jobs |-> {}]
    /\ phase = [r \in Runtimes |-> "closed"]
    /\ key = [r \in Runtimes |-> AnyKey]
    /\ todo = [r \in Runtimes |-> {}]
    /\ worker = [r \in Runtimes |-> [l \in Lanes |-> Looking]]
    /\ wake = [r \in Runtimes |-> [l \in Lanes |-> FALSE]]
    /\ results = [r \in Runtimes |-> {}]
    /\ consumer = [r \in Runtimes |-> Idle]
    /\ published = {}
    /\ handled = {}

-----------------------------------------------------------------------------

\* Mutants: jobs of one second go latest first; the startup passes over foreign
\* jobs, or over unacked results.
PrecedesLatest(j, k) == stamp[j] < stamp[k] \/ (stamp[j] = stamp[k] /\ k \in earlier[j])
SkipsForeign(j, k) == state[j] \in Outcomes
SkipsUnacked(j, k) == state[j] = "queued" /\ owner[j] # k

\* fifo: by enqueuedAt, and in the store's order within a second.
Precedes(j, k) == stamp[j] < stamp[k] \/ (stamp[j] = stamp[k] /\ j \in earlier[k])

\* Mutant: a failed job that is not acked yet is tried again.
QueuedOrFailed(lane) == {j \in Jobs : state[j] \in {"queued", "failed"} /\ LaneOf(j) = lane}

Queued(lane) == {j \in Jobs : state[j] = "queued" /\ LaneOf(j) = lane}

\* What emitStartup acts on: unacked terminals, and jobs of another identity.
ForStartup(j, k) == state[j] \in Outcomes \/ (state[j] = "queued" /\ owner[j] # k)

\* The store replaces a job it still has; an acked job stays removed.
Update(j, outcome) ==
    state' = IF state[j] \in Stored THEN [state EXCEPT ![j] = outcome] ELSE state

\* Mutant: the result is made of the job as it was stored.
OfferStored(r, j, outcome) ==
    results' = [results EXCEPT ![r] = @ \cup {[job |-> j, outcome |-> state[j]]}]

Offer(r, j, outcome) ==
    results' = [results EXCEPT ![r] = @ \cup {[job |-> j, outcome |-> outcome]}]

Settle(r, j, outcome) == Update(j, outcome) /\ Offer(r, j, outcome)

At(r, l, pc) == phase[r] = "running" /\ worker[r][l].pc = pc
JobOf(r, l) == worker[r][l].job

Work(r, l, next) == worker' = [worker EXCEPT ![r][l] = next]
Goto(r, l, pc) == Work(r, l, [worker[r][l] EXCEPT !.pc = pc])

(* Building and closing the service *)

\* The layer is built under one identity; emitStartup reads the store.
Build(r, k) ==
    /\ phase[r] = "closed"
    /\ phase' = [phase EXCEPT ![r] = "starting"]
    /\ key' = [key EXCEPT ![r] = k]
    /\ todo' = [todo EXCEPT ![r] = {<<j, state[j]>> : j \in {i \in Jobs : ForStartup(i, k)}}]
    /\ worker' = [worker EXCEPT ![r] = [l \in Lanes |-> Looking]]
    /\ wake' = [wake EXCEPT ![r] = [l \in Lanes |-> FALSE]]
    /\ UNCHANGED <<storeVars, resultVars, published>>

\* An unacked terminal is offered again; a foreign job fails.
Startup(r) ==
    /\ phase[r] = "starting"
    /\ \E entry \in todo[r] :
         /\ todo' = [todo EXCEPT ![r] = @ \ {entry}]
         /\ IF entry[2] \in Outcomes
            THEN Offer(r, entry[1], entry[2]) /\ UNCHANGED state
            ELSE Settle(r, entry[1], "failed")
    /\ UNCHANGED <<owner, stamp, earlier, phase, key, workerVars, consumer, handled, published>>

\* Only then the lanes start.
Started(r) ==
    /\ phase[r] = "starting"
    /\ todo[r] = {}
    /\ phase' = [phase EXCEPT ![r] = "running"]
    /\ UNCHANGED <<storeVars, key, todo, workerVars, resultVars, published>>

\* The scope closes, the page reloads or the process dies: an attempt under
\* way, queued results and the consumer's work are gone, the store is not.
Close(r) ==
    /\ phase[r] # "closed"
    /\ phase' = [phase EXCEPT ![r] = "closed"]
    /\ todo' = [todo EXCEPT ![r] = {}]
    /\ worker' = [worker EXCEPT ![r] = [l \in Lanes |-> Looking]]
    /\ wake' = [wake EXCEPT ![r] = [l \in Lanes |-> FALSE]]
    /\ results' = [results EXCEPT ![r] = {}]
    /\ consumer' = [consumer EXCEPT ![r] = Idle]
    /\ UNCHANGED <<storeVars, key, handled, published>>

(* Enqueueing *)

\* The stamp is the wall clock's, which only a clock set back makes decrease.
Enqueue(r, j) ==
    /\ phase[r] # "closed"
    /\ state[j] = "none"
    /\ state' = [state EXCEPT ![j] = "queued"]
    /\ owner' = [owner EXCEPT ![j] = key[r]]
    /\ earlier' = [earlier EXCEPT ![j] = {i \in Jobs : state[i] # "none"}]
    /\ \E now \in 0..MaxTime :
         /\ ClockStepsBack \/ \A i \in Jobs : state[i] # "none" => stamp[i] <= now
         /\ stamp' = [stamp EXCEPT ![j] = now]
    /\ wake' = [wake EXCEPT ![r][LaneOf(j)] = TRUE]
    /\ UNCHANGED <<runtimeVars, worker, resultVars, published>>

\* The browser's `online` event wakes both lanes.
Online(r) ==
    /\ phase[r] # "closed"
    /\ wake' = [wake EXCEPT ![r] = [l \in Lanes |-> TRUE]]
    /\ UNCHANGED <<storeVars, runtimeVars, worker, resultVars, published>>

(* A lane's worker *)

\* nextQueued: the first queued job of the lane, whoever enqueued it.
Look(r, l) ==
    /\ At(r, l, "look")
    /\ IF Queued(l) = {} THEN Goto(r, l, "wait")
       ELSE \E j \in Queued(l) :
              /\ \A k \in Queued(l) \ {j} : Precedes(j, k)
              /\ Work(r, l, [pc |-> "send", job |-> j])
    /\ UNCHANGED <<storeVars, runtimeVars, wake, resultVars, published>>

Woken(r, l) ==
    /\ At(r, l, "wait")
    /\ wake[r][l]
    /\ wake' = [wake EXCEPT ![r][l] = FALSE]
    /\ Work(r, l, Looking)
    /\ UNCHANGED <<storeVars, runtimeVars, resultVars, published>>

\* A relay accepts the recipient's copy; its OK may not arrive in time.
Accept(r, l) ==
    /\ At(r, l, "send")
    /\ published' = published \cup {<<JobOf(r, l), key[r]>>}
    /\ Goto(r, l, "accepted") \/ Goto(r, l, "sleep")
    /\ UNCHANGED <<storeVars, runtimeVars, wake, resultVars>>

\* Mutant: an attempt that reached no relay counts as sent.
CountsAsSent(r, l) ==
    /\ At(r, l, "send")
    /\ Goto(r, l, "accepted")
    /\ UNCHANGED <<storeVars, runtimeVars, wake, resultVars, published>>

\* RecipientNotReached, NoRelayReachable, WrapNotDelivered: back off.
Undelivered(r, l) ==
    /\ At(r, l, "send")
    /\ Goto(r, l, "sleep")
    /\ UNCHANGED <<storeVars, runtimeVars, wake, resultVars, published>>

\* The backoff ends, or something wakes the lane.
Retry(r, l) ==
    /\ At(r, l, "sleep")
    /\ Goto(r, l, "send")
    /\ wake' \in {wake, [wake EXCEPT ![r][l] = FALSE]}
    /\ UNCHANGED <<storeVars, runtimeVars, resultVars, published>>

Succeed(r, l) ==
    /\ At(r, l, "accepted")
    /\ Settle(r, JobOf(r, l), "succeeded")
    /\ Work(r, l, Looking)
    /\ UNCHANGED <<owner, stamp, earlier, runtimeVars, wake, consumer, handled, published>>

\* The attempt dies of an unexpected defect.
Defect(r, l) ==
    /\ At(r, l, "send")
    /\ Settle(r, JobOf(r, l), "failed")
    /\ Work(r, l, Looking)
    /\ UNCHANGED <<owner, stamp, earlier, runtimeVars, wake, consumer, handled, published>>

(* The consumer of `results` *)

Take(r) ==
    /\ consumer[r].pc = "idle"
    /\ \E result \in results[r] :
         /\ results' = [results EXCEPT ![r] = @ \ {result}]
         /\ consumer' = [consumer EXCEPT ![r] =
                            [pc |-> "handle", job |-> result.job, outcome |-> result.outcome]]
    /\ UNCHANGED <<storeVars, runtimeVars, workerVars, handled, published>>

\* The handler has persisted the outcome.
Handle(r) ==
    /\ consumer[r].pc = "handle"
    /\ handled' = handled \cup {[job |-> consumer[r].job, outcome |-> consumer[r].outcome]}
    /\ consumer' = [consumer EXCEPT ![r].pc = "ack"]
    /\ UNCHANGED <<storeVars, runtimeVars, workerVars, results, published>>

\* Mutant: a rejection is acked like a success.
RejectAcks(r) ==
    /\ consumer[r].pc = "handle"
    /\ consumer' = [consumer EXCEPT ![r].pc = "ack"]
    /\ UNCHANGED <<storeVars, runtimeVars, workerVars, results, handled, published>>

\* The handler rejects, or the subscription ends before the ack: the result
\* waits for the next build.
Reject(r) ==
    /\ consumer[r].pc # "idle"
    /\ consumer' = [consumer EXCEPT ![r] = Idle]
    /\ UNCHANGED <<storeVars, runtimeVars, workerVars, results, handled, published>>

Ack(r) ==
    /\ consumer[r].pc = "ack"
    /\ state' = [state EXCEPT ![consumer[r].job] = "removed"]
    /\ consumer' = [consumer EXCEPT ![r] = Idle]
    /\ UNCHANGED <<owner, stamp, earlier, runtimeVars, workerVars, results, handled, published>>

-----------------------------------------------------------------------------

Lane(r, l) ==
    \/ Look(r, l) \/ Woken(r, l)
    \/ Accept(r, l) \/ Undelivered(r, l) \/ Retry(r, l)
    \/ Succeed(r, l) \/ Defect(r, l)

Runtime(r) ==
    \/ \E k \in Keys : Build(r, k)
    \/ Startup(r) \/ Started(r) \/ Close(r)
    \/ \E j \in Jobs : Enqueue(r, j)
    \/ Online(r)
    \/ \E l \in Lanes : Lane(r, l)
    \/ Take(r) \/ Handle(r) \/ Reject(r) \/ Ack(r)

Next == \E r \in Runtimes : Runtime(r)

Spec == Init /\ [][Next]_vars

Sent(r, j) ==
    /\ JobOf(r, "foreground") = j
    /\ Accept(r, "foreground")
    /\ worker'[r]["foreground"].pc = "accepted"

\* The app is opened, and now and then it stays open long enough; of the attempts
\* at a chat job that are made for ever one is accepted.  Nothing says that the
\* collector of telemetry ever answers.
Delivers(r) ==
    /\ WF_vars(\E k \in Keys : Build(r, k)) /\ SF_vars(Startup(r)) /\ SF_vars(Started(r))
    /\ WF_vars(Woken(r, "foreground")) /\ WF_vars(Retry(r, "foreground"))
    /\ SF_vars(Look(r, "foreground")) /\ SF_vars(Succeed(r, "foreground"))
    /\ \A j \in Jobs \ Telemetry : SF_vars(Sent(r, j))

\* The app is restarted now and then, and of the handler's calls made for ever one
\* resolves.
Hears(r) == WF_vars(Close(r)) /\ SF_vars(Take(r)) /\ SF_vars(Handle(r)) /\ SF_vars(Ack(r))

FairSpec == Spec /\ \A r \in Runtimes : Delivers(r)

-----------------------------------------------------------------------------

\* A job reported as sent was accepted by a relay, however many runtimes
\* worked on it and whichever of them died when (outbox.md: success "means a
\* relay accepted the recipient copy").
HonestSuccess ==
    \A j \in Jobs :
        (state[j] = "succeeded" \/ \E res \in handled : res.job = j /\ res.outcome = "succeeded")
            => \E k \in Keys : <<j, k>> \in published

\* A job leaves the store only when a handler has persisted an outcome of it
\* (Outbox.ts: "at-least-once handshake").
RemovedIsHandled ==
    \A j \in Jobs : state[j] = "removed" => \E res \in handled : res.job = j

\* "Jobs are never sent under a different key than they were enqueued with"
\* (outbox.md); telemetry is signed by a fresh key in any case.
OwnKey ==
    \A j \in Jobs \ Telemetry, k \in Keys : <<j, k>> \in published => k = owner[j]

Reached(j) == \E k \in Keys : <<j, k>> \in published

\* Each lane is "strictly FIFO: one job at a time, in enqueue order"
\* (outbox.md): a job first reaches its recipient when every earlier job of
\* its lane has ended.
InOrder ==
    [][\A j \in Jobs :
         Reached(j)' /\ ~Reached(j) =>
             \A i \in earlier[j] : LaneOf(i) = LaneOf(j) => state[i] # "queued"]_vars

\* No delivery goes on for a job that has ended.
EndsOnce ==
    [][\A j \in Jobs :
         state[j] \in Outcomes \cup {"removed"} =>
             /\ state'[j] \in {state[j], "removed"}
             /\ \A k \in Keys : <<j, k>> \in published' => <<j, k>> \in published]_vars

\* Every chat job ends, woken by its enqueueing and with no restart needed, though a
\* telemetry report may fail for ever (Outbox.ts: it "never holds back chat and
\* reaction sends").
Delivered == \A j \in Jobs \ Telemetry : (state[j] = "queued") ~> (state[j] # "queued")

\* Provided the app is restarted now and then and its handler resolves, a handler has
\* persisted and acked its outcome at last, through any number of rejections.
Settles ==
    (\A r \in Runtimes : Hears(r)) =>
        \A j \in Jobs \ Telemetry : (state[j] = "queued") ~> (state[j] = "removed")

=============================================================================
