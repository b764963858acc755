------------------------------ MODULE KeyLease ------------------------------
(***************************************************************************)
(* Mutual exclusion on one KeyValueStore key: withKeyLease over the three  *)
(* lease primitives of the port (internal/lease.ts, ports/KeyValueStore.ts *)
(* and the stores that keep a lease as a record with an expiry).           *)
(*                                                                         *)
(* Time is a countdown: every clock that the code compares with `now` is   *)
(* modelled by what is left until it fires, so the state stays finite and  *)
(* no horizon is needed.  One unit stands for any fixed number of ms; only *)
(* the ratios of Ttl, RenewEvery, AcquireTimeout and Lag matter.           *)
(***************************************************************************)
EXTENDS Integers, TLAPS

CONSTANTS
    Contexts,         \* tabs, workers and fibers sharing one store
    Nobody,           \* no lease record
    Ttl,              \* DEFAULT_TTL_MS
    RenewEvery,       \* ttlMs / 3
    AcquireTimeout,   \* DEFAULT_ACQUIRE_TIMEOUT_MS
    Lag               \* how late a context's event loop may run a due timer

\* The timers of a live context run soon enough to renew before the lease
\* lapses.  The code states no such bound; it is what makes its exclusion hold.
ASSUME LeaseAssumption ==
    /\ Nobody \notin Contexts
    /\ Ttl \in Nat /\ RenewEvery \in Nat /\ Lag \in Nat /\ AcquireTimeout \in Nat
    /\ RenewEvery + Lag < Ttl

VARIABLES
    phase,     \* what a context does with the key: idle, waiting, running
    waitLeft,  \* until a waiting context stops retrying
    renewIn,   \* until a running context's renewal is due; negative when late
    holder,    \* whose lease the store's record names
    left       \* until that record expires

vars == <<phase, waitLeft, renewIn, holder, left>>

Phases == {"idle", "waiting", "running"}

TypeOK ==
    /\ phase \in [Contexts -> Phases]
    /\ waitLeft \in [Contexts -> 0..AcquireTimeout]
    /\ renewIn \in [Contexts -> (-Lag)..RenewEvery]
    /\ holder \in Contexts \cup {Nobody}
    /\ left \in 0..Ttl

-----------------------------------------------------------------------------

Init ==
    /\ phase = [c \in Contexts |-> "idle"]
    /\ waitLeft = [c \in Contexts |-> 0]
    /\ renewIn = [c \in Contexts |-> 0]
    /\ holder = Nobody
    /\ left = 0

\* Mutants: the record is claimed a unit early; it never expires; a renewal
\* counts from the old expiry, or only to the next renewal; the acquire timeout
\* starts over.
LiveEarly == holder # Nobody /\ left > 1
LiveForever == holder # Nobody
RenewedFromExpiry == left + Ttl
RenewedShort == RenewEvery
GiveUpRestarts(c) ==
    /\ phase[c] = "waiting"
    /\ holder # Nobody /\ left > 0
    /\ waitLeft[c] = 0
    /\ waitLeft' = [waitLeft EXCEPT ![c] = AcquireTimeout]
    /\ UNCHANGED <<phase, renewIn, holder, left>>

\* tryAcquireLease returns null while a record is there and not expired.
Live == holder # Nobody /\ left > 0

\* renewLease sets the expiry to the TTL from now.
Renewed == Ttl

\* withKeyLease is entered: retries start, for at most the acquire timeout.
Request(c) ==
    /\ phase[c] = "idle"
    /\ phase' = [phase EXCEPT ![c] = "waiting"]
    /\ waitLeft' = [waitLeft EXCEPT ![c] = AcquireTimeout]
    /\ UNCHANGED <<renewIn, holder, left>>

\* One of the retries finds the key claimable; effect and renewals start.
Acquire(c) ==
    /\ phase[c] = "waiting"
    /\ ~Live
    /\ phase' = [phase EXCEPT ![c] = "running"]
    /\ renewIn' = [renewIn EXCEPT ![c] = RenewEvery]
    /\ holder' = c
    /\ left' = Ttl
    /\ waitLeft' = [waitLeft EXCEPT ![c] = 0]

\* The last retry fails: LeaseLockTimeout.
GiveUp(c) ==
    /\ phase[c] = "waiting"
    /\ Live
    /\ waitLeft[c] = 0
    /\ phase' = [phase EXCEPT ![c] = "idle"]
    /\ UNCHANGED <<waitLeft, renewIn, holder, left>>

\* renewLease extends the record only while it is still this context's.
Renew(c) ==
    /\ phase[c] = "running"
    /\ renewIn[c] <= 0
    /\ renewIn' = [renewIn EXCEPT ![c] = RenewEvery]
    /\ left' = IF holder = c THEN Renewed ELSE left
    /\ UNCHANGED <<phase, waitLeft, holder>>

\* The effect ends, fails or is interrupted: releaseLease, a no-op on a
\* record that is no longer this context's.
Finish(c) ==
    /\ phase[c] = "running"
    /\ phase' = [phase EXCEPT ![c] = "idle"]
    /\ holder' = IF holder = c THEN Nobody ELSE holder
    /\ left' = IF holder = c THEN 0 ELSE left
    /\ renewIn' = [renewIn EXCEPT ![c] = 0]
    /\ UNCHANGED waitLeft

\* The tab is closed or the process dies: nothing releases the record.
Crash(c) ==
    /\ phase[c] # "idle"
    /\ phase' = [phase EXCEPT ![c] = "idle"]
    /\ waitLeft' = [waitLeft EXCEPT ![c] = 0]
    /\ renewIn' = [renewIn EXCEPT ![c] = 0]
    /\ UNCHANGED <<holder, left>>

\* A unit of time passes.  A due renewal is not later than Lag, and a waiting
\* context polls often enough to stop within its timeout.
Tick ==
    /\ \A c \in Contexts :
         /\ phase[c] = "running" => renewIn[c] > -Lag
         /\ phase[c] = "waiting" => waitLeft[c] > 0
    /\ waitLeft' = [c \in Contexts |->
                      IF phase[c] = "waiting" THEN waitLeft[c] - 1 ELSE waitLeft[c]]
    /\ renewIn' = [c \in Contexts |->
                      IF phase[c] = "running" THEN renewIn[c] - 1 ELSE renewIn[c]]
    /\ left' = IF left > 0 THEN left - 1 ELSE 0
    /\ UNCHANGED <<phase, holder>>

Next ==
    \/ \E c \in Contexts :
         \/ Request(c) \/ Acquire(c) \/ GiveUp(c)
         \/ Renew(c) \/ Finish(c) \/ Crash(c)
    \/ Tick

\* Time passes, and a waiting context keeps polling.  Nothing makes a running
\* effect end.
Fairness ==
    /\ WF_vars(Tick)
    /\ \A c \in Contexts : WF_vars(Acquire(c) \/ GiveUp(c)) /\ WF_vars(Renew(c))

Spec == Init /\ [][Next]_vars /\ Fairness

-----------------------------------------------------------------------------

\* Two contexts never run an effect under one key at a time, however long the
\* first one takes and whoever crashed before (lease.ts: "it never lapses
\* under a running holder").
MutualExclusion ==
    \A c, d \in Contexts : phase[c] = "running" /\ phase[d] = "running" => c = d

\* What makes it inductive: a running context owns the record, and the record
\* outlasts the renewal that is due, with its lag.
RunningOwns ==
    \A c \in Contexts :
        phase[c] = "running" =>
            /\ holder = c
            /\ left > renewIn[c] + Lag

\* A context that waits for the key gets it or fails within its timeout, also
\* when the holder died without releasing.
WaitEnds == \A c \in Contexts : (phase[c] = "waiting") ~> (phase[c] # "waiting")

\* A record left behind by a dead context stops blocking the key by itself.
OrphanLapses ==
    \A c \in Contexts :
        (holder = c /\ phase[c] = "idle") ~> (~Live \/ phase[c] # "idle")

-----------------------------------------------------------------------------
(* Mutual exclusion for every set of contexts and every choice of the      *)
(* timing constants that LeaseAssumption admits.                           *)

\* The inductive invariant: a lease alone is not enough, it must outlast the
\* holder's next renewal.
IInv == TypeOK /\ RunningOwns

\* The initial state satisfies the inductive invariant.
LEMMA InitIInv == Init => IInv
  BY LeaseAssumption, SMT DEF Init, IInv, TypeOK, RunningOwns, Phases

\* Every step of the lease protocol preserves the inductive invariant.
LEMMA NextIInv == IInv /\ [Next]_vars => IInv'
<1> SUFFICES ASSUME IInv, [Next]_vars PROVE IInv'
  OBVIOUS
<1> USE LeaseAssumption DEF IInv, TypeOK, RunningOwns, Phases
<1>1. ASSUME NEW c \in Contexts, Request(c) PROVE IInv'
  BY <1>1, SMT DEF Request
<1>2. ASSUME NEW c \in Contexts, Acquire(c) PROVE IInv'
  <2>1. \A d \in Contexts : phase[d] # "running"
    BY <1>2, SMT DEF Acquire, Live
  <2>2. QED
    BY <1>2, <2>1, SMT DEF Acquire
<1>3. ASSUME NEW c \in Contexts, GiveUp(c) PROVE IInv'
  BY <1>3, SMT DEF GiveUp
<1>4. ASSUME NEW c \in Contexts, Renew(c) PROVE IInv'
  BY <1>4, SMT DEF Renew, Renewed
<1>5. ASSUME NEW c \in Contexts, Finish(c) PROVE IInv'
  BY <1>5, SMT DEF Finish
<1>6. ASSUME NEW c \in Contexts, Crash(c) PROVE IInv'
  BY <1>6, SMT DEF Crash
<1>7. CASE Tick
  <2>1. TypeOK'
    BY <1>7, SMT DEF Tick
  <2>2. ASSUME NEW c \in Contexts, phase'[c] = "running"
        PROVE  holder' = c /\ left' > renewIn'[c] + Lag
    BY <1>7, <2>2, SMT DEF Tick
  <2>3. QED
    BY <2>1, <2>2
<1>8. CASE UNCHANGED vars
  BY <1>8, SMT DEF vars
<1>9. QED
  BY <1>1, <1>2, <1>3, <1>4, <1>5, <1>6, <1>7, <1>8 DEF Next

\* Every reachable state satisfies the inductive invariant.
THEOREM LeaseInvariant == Spec => []IInv
  BY InitIInv, NextIInv, PTL DEF Spec

\* Whoever runs an effect holds a record that outlasts its next renewal, so a
\* renewal never extends what has lapsed.
THEOREM LeaseOutlastsRenewal == Spec => []RunningOwns
<1>1. IInv => RunningOwns
  BY DEF IInv
<1>2. QED
  BY <1>1, LeaseInvariant, PTL

\* The types of the lease variables hold in every reachable state.
THEOREM TypeCorrect == Spec => []TypeOK
<1>1. IInv => TypeOK
  BY DEF IInv
<1>2. QED
  BY <1>1, LeaseInvariant, PTL

\* No two contexts run an effect under one key at a time.
THEOREM Exclusion == Spec => []MutualExclusion
<1>1. IInv => MutualExclusion
  BY DEF IInv, RunningOwns, MutualExclusion
<1>2. QED
  BY <1>1, LeaseInvariant, PTL

=============================================================================
