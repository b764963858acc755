----------------------------- MODULE WrapInbox -----------------------------
(***************************************************************************)
(* The gift-wrap inbox of linkstr (inbox/WrapInbox.ts): one subscription   *)
(* and one walk back in pages per read relay, one stream of events that    *)
(* the consumer confirms in any order, and a stored cursor from which the  *)
(* next session starts, a margin earlier.                                  *)
(*                                                                         *)
(* What is synchronous in the code is one step: a page with all that       *)
(* follows from it, a settled event with the move of the cursor.  Copies   *)
(* of one wrap that wait in the queue are one.  A session's option `since` *)
(* is left out (the first session starts at 0), and so are wraps that do   *)
(* not authenticate, and the eviction of the 4096 ids of `seen`.           *)
(***************************************************************************)
EXTENDS Integers, FiniteSets

CONSTANTS
    Relays,       \* the read relays
    Wraps,        \* gift wraps addressed to the identity
    Reach,        \* the sets of relays each wrap may be published to
    MaxTime,      \* bound on the clock, in units of any number of seconds
    Margin,       \* NIP59_BACKDATE_MARGIN_SECONDS
    MaxAge,       \* MAX_BACKFILL_AGE_SECONDS
    PageLimit,    \* BACKFILL_PAGE_LIMIT
    MaxFailed,    \* MAX_FAILED_WALK_ATTEMPTS
    Cap,          \* how many wraps a relay returns at most, whatever the limit
    Backdate,     \* how far senders date their wraps into the past
    Ahead,        \* how far a sender's clock may be ahead
    Outage,       \* how long a relay that was walked may be out of touch
    MaxBreaks     \* bound on broken connections, and on closed sessions

Times == 0..MaxTime
Never == MaxTime + 1

\* The margin covers what senders take off and how long a relay is missed.  The
\* code's margin is its senders' Backdate exactly, which leaves no Outage.
ASSUME InboxAssumption ==
    /\ IsFiniteSet(Wraps)
    /\ Reach \in [Wraps -> SUBSET SUBSET Relays]
    /\ MaxTime \in Nat /\ Margin \in Nat /\ MaxAge \in Nat /\ MaxBreaks \in Nat
    /\ PageLimit \in Nat \ {0} /\ MaxFailed \in Nat \ {0} /\ Cap \in Nat \ {0}
    /\ Backdate \in Nat /\ Ahead \in Nat /\ Outage \in Nat
    /\ Backdate + Outage <= Margin

VARIABLES
    now,
    \* the relays (external)
    created,    \* created_at of each wrap, Never until it is published
    stored,     \* the wraps each relay holds
    \* what the device keeps
    saved,      \* the stored cursor, 0 when there is none
    handled,    \* wraps whose event the consumer has stored
    \* the open session
    open,
    since,      \* where every walk of this session ends
    newest,     \* newestConfirmed
    walking,    \* relays that hold the cursor
    boundary,   \* unresolvedBoundaries, Never when a relay has none
    queue,      \* rawWraps: arrived, not yet taken by the stream
    seen,       \* wraps the stream has taken in this session
    taken,      \* of these, the ones not yet confirmed
    attempt,    \* each relay's subscription and walk
    \* history
    gaveUp,     \* relays that stopped holding the cursor without a walk
    lost,       \* how long each walked relay has been out of touch
    breaks

relayVars == <<now, created, stored>>
walkVars == <<walking, boundary, attempt, gaveUp, lost>>
streamVars == <<newest, queue, seen, taken>>
sessionVars == <<open, since, walkVars, streamVars>>
vars == <<relayVars, saved, handled, sessionVars, breaks>>

Attempts ==
    [pc : {"down", "asked", "walk", "live"}, failed : 0..MaxFailed,
     until : Times \cup {Never}, limit : {PageLimit, 2 * PageLimit},
     largest : Nat, delivered : SUBSET Wraps, lowest : Times \cup {Never}]

\* The fields of a walk outside it.
NoWalk(pc, failed) ==
    [pc |-> pc, failed |-> failed, until |-> Never, limit |-> PageLimit,
     largest |-> 0, delivered |-> {}, lowest |-> Never]

TypeOK ==
    /\ now \in Times
    /\ created \in [Wraps -> Times \cup {Never}]
    /\ stored \in [Relays -> SUBSET Wraps]
    /\ saved \in Times
    /\ handled \subseteq Wraps
    /\ open \in BOOLEAN
    /\ since \in Times
    /\ newest \in Times
    /\ walking \subseteq Relays
    /\ boundary \in [Relays -> Times \cup {Never}]
    /\ queue \subseteq Wraps
    /\ seen \subseteq Wraps
    /\ taken \subseteq seen
    /\ attempt \in [Relays -> Attempts]
    /\ gaveUp \subseteq Relays \ walking
    /\ lost \in [Relays -> 0..Outage]
    /\ breaks \in 0..MaxBreaks

Init ==
    /\ now = 0
    /\ created = [w \in Wraps |-> Never]
    /\ stored = [r \in Relays |-> {}]
    /\ saved = 0
    /\ handled = {}
    /\ open = FALSE /\ since = 0 /\ newest = 0
    /\ walking = {} /\ gaveUp = {}
    /\ boundary = [r \in Relays |-> Never]
    /\ queue = {} /\ seen = {} /\ taken = {}
    /\ attempt = [r \in Relays |-> NoWalk("down", 0)]
    /\ lost = [r \in Relays |-> 0]
    /\ breaks = 0

-----------------------------------------------------------------------------

Smaller(a, b) == IF a < b THEN a ELSE b
Larger(a, b) == IF a < b THEN b ELSE a

\* The newest n of S, ties broken in any way.
NewestOf(S, n) ==
    {P \in SUBSET S :
        /\ Cardinality(P) = Smaller(n, Cardinality(S))
        /\ \A w \in P, v \in S \ P : created[v] <= created[w]}

Window(r, until) == {w \in stored[r] : since <= created[w] /\ created[w] <= until}

\* advanceWhenSettled, on the values its caller leaves.
AdvanceWhenSettled(outstanding, holding, confirmed, boundaries) ==
    LET target == CHOOSE t \in {confirmed} \cup {boundaries[r] : r \in Relays} :
                     \A u \in {confirmed} \cup {boundaries[r] : r \in Relays} : t <= u
    IN saved' = IF outstanding = {} /\ holding = {} /\ target > saved
                THEN target ELSE saved

(* The session *)

\* open: the window is fixed, and every read relay holds the cursor.
Open ==
    /\ ~open
    /\ open' = TRUE
    /\ since' = Larger(0, Larger(saved - Margin, now - MaxAge))
    /\ walking' = Relays
    /\ UNCHANGED <<relayVars, saved, handled, boundary, attempt, gaveUp, lost, streamVars, breaks>>

\* The scope closes or the page dies: what was not confirmed is forgotten.
Close ==
    /\ open
    /\ breaks < MaxBreaks
    /\ breaks' = breaks + 1
    /\ open' = FALSE /\ since' = 0 /\ newest' = 0
    /\ walking' = {} /\ gaveUp' = {}
    /\ boundary' = [r \in Relays |-> Never]
    /\ queue' = {} /\ seen' = {} /\ taken' = {}
    /\ attempt' = [r \in Relays |-> NoWalk("down", 0)]
    /\ lost' = [r \in Relays |-> 0]
    /\ UNCHANGED <<relayVars, saved, handled>>

(* One relay: keepSubscribed, subscribeAndWalk, walkBack *)

Connected(r) == attempt[r].pc # "down"

Subscribe(r) ==
    /\ open
    /\ ~Connected(r)
    /\ attempt' = [attempt EXCEPT ![r].pc = "asked"]
    /\ UNCHANGED <<relayVars, saved, handled, open, since, walking, boundary,
                   gaveUp, lost, streamVars, breaks>>

\* The live subscription has returned at most its one stored wrap; the walk
\* starts and the relay holds the cursor (again).
Eose(r) ==
    /\ attempt[r].pc = "asked"
    /\ \E P \in {{}} \cup NewestOf(Window(r, Never), 1) : queue' = queue \cup P
    /\ attempt' = [attempt EXCEPT ![r] = NoWalk("walk", @.failed)]
    /\ walking' = walking \cup {r}
    /\ gaveUp' = gaveUp \ {r}
    /\ lost' = [lost EXCEPT ![r] = 0]
    /\ UNCHANGED <<relayVars, saved, handled, open, since, boundary, newest, seen, taken, breaks>>

\* Does the page repeat the second it was asked up to, and fill the largest
\* page so far?
Repeats(a, page) == a.until # Never /\ \A w \in page : created[w] >= a.until
Saturates(a, page) == Repeats(a, page) /\ Cardinality(page) >= a.largest

NextUntil(a, page) ==
    IF Repeats(a, page) THEN a.until - 1
    ELSE CHOOSE t \in {created[w] : w \in page} : \A w \in page : t <= created[w]

\* Mutant: a second that stays saturated is passed over.
PassedOver(a, page) == a.lowest

\* A saturated second that a doubled limit did not resolve.
Unresolved(a, page) ==
    IF Saturates(a, page) THEN Smaller(a.lowest, a.until) ELSE a.lowest

Received(a, page) ==
    [a EXCEPT !.largest = Larger(@, Cardinality(page)), !.delivered = @ \cup page]

\* Mutant: only an empty page ends the walk.
EndsEmpty(a, page) == page = {}

Ends(a, page) == ~(page # {} /\ NextUntil(a, page) >= since)
Doubles(a, page) == page # {} /\ Saturates(a, page) /\ a.limit = PageLimit

\* A page arrives; the walk asks for the second it stopped in once more with a
\* doubled limit, or goes on below, or has ended.
PageDoubles(r, page) ==
    /\ Doubles(attempt[r], page)
    /\ attempt' = [attempt EXCEPT ![r] = [Received(@, page) EXCEPT !.limit = 2 * PageLimit]]
    /\ UNCHANGED <<saved, walking, boundary>>

PageContinues(r, page) ==
    LET a == attempt[r]
    IN /\ ~Doubles(a, page) /\ ~Ends(a, page)
       /\ attempt' = [attempt EXCEPT ![r] =
                        [Received(a, page) EXCEPT !.limit = PageLimit,
                            !.until = NextUntil(a, page), !.lowest = Unresolved(a, page)]]
       /\ boundary' = [boundary EXCEPT ![r] =
                         IF Saturates(a, page) THEN Smaller(@, Unresolved(a, page)) ELSE @]
       /\ UNCHANGED <<saved, walking>>

PageEnds(r, page) ==
    LET a == attempt[r]
    IN /\ ~Doubles(a, page) /\ Ends(a, page)
       /\ attempt' = [attempt EXCEPT ![r] = NoWalk("live", a.failed)]
       /\ boundary' = [boundary EXCEPT ![r] =
                         IF page = {} THEN a.lowest ELSE Unresolved(a, page)]
       /\ walking' = walking \ {r}
       /\ AdvanceWhenSettled(queue' \cup taken, walking', newest, boundary')

Page(r) ==
    /\ attempt[r].pc = "walk"
    /\ LET a == attempt[r]
       IN \E page \in NewestOf(Window(r, a.until), Smaller(a.limit, Cap)) :
            /\ queue' = queue \cup (page \ a.delivered)
            /\ PageDoubles(r, page) \/ PageContinues(r, page) \/ PageEnds(r, page)
    /\ UNCHANGED <<relayVars, handled, open, since, gaveUp, lost, newest, seen, taken, breaks>>

\* The attempt ends: unreachable, closed by the relay, or a fetch failed.  A
\* relay whose walk is unfinished goes on holding the cursor, up to MaxFailed times.
Break(r) ==
    /\ Connected(r)
    /\ breaks < MaxBreaks
    /\ breaks' = breaks + 1
    /\ LET failed == IF r \in walking THEN Smaller(attempt[r].failed + 1, MaxFailed) ELSE 0
       IN /\ attempt' = [attempt EXCEPT ![r] = NoWalk("down", failed)]
          /\ IF r \in walking /\ failed = MaxFailed
             THEN /\ walking' = walking \ {r}
                  /\ gaveUp' = gaveUp \cup {r}
                  /\ AdvanceWhenSettled(queue \cup taken, walking', newest, boundary)
             ELSE UNCHANGED <<walking, gaveUp, saved>>
    /\ UNCHANGED <<relayVars, handled, open, since, boundary, lost, streamVars>>

(* The stream and its consumer *)

\* processRaw: a wrap seen before is settled, a new one goes to the consumer.
Process(w) ==
    /\ w \in queue
    /\ queue' = queue \ {w}
    /\ seen' = seen \cup {w}
    /\ IF w \in seen
       THEN /\ AdvanceWhenSettled(queue' \cup taken, walking, newest, boundary)
            /\ UNCHANGED taken
       ELSE taken' = taken \cup {w} /\ UNCHANGED saved
    /\ UNCHANGED <<relayVars, handled, open, since, walkVars, newest, breaks>>

\* The consumer has stored the event and acks it; one that fails never does.
Confirm(w) ==
    /\ w \in taken
    /\ handled' = handled \cup {w}
    /\ taken' = taken \ {w}
    /\ newest' = Larger(newest, Smaller(created[w], now))
    /\ AdvanceWhenSettled(queue \cup taken', walking, newest', boundary)
    /\ UNCHANGED <<relayVars, open, since, walkVars, queue, seen, breaks>>

(* The world *)

\* A wrap reaches some of the read relays, which push it to an open
\* subscription; what a subscription is late by counts as Outage.
Publish(w) ==
    /\ created[w] = Never
    /\ \E t \in {u \in Times : now - Backdate <= u /\ u <= now + Ahead}, S \in Reach[w] :
         /\ created' = [created EXCEPT ![w] = t]
         /\ stored' = [r \in Relays |-> IF r \in S THEN stored[r] \cup {w} ELSE stored[r]]
         /\ queue' = IF t >= since /\ \E r \in S : Connected(r) THEN queue \cup {w} ELSE queue
    /\ UNCHANGED <<now, saved, handled, open, since, walkVars, newest, seen, taken, breaks>>

OutOfTouch(r) ==
    open /\ r \notin walking \cup gaveUp /\ attempt[r].pc \in {"down", "asked"}

Tick ==
    /\ now < MaxTime
    /\ \A r \in Relays : OutOfTouch(r) => lost[r] < Outage
    /\ now' = now + 1
    /\ lost' = [r \in Relays |-> IF OutOfTouch(r) THEN lost[r] + 1 ELSE lost[r]]
    /\ UNCHANGED <<created, stored, saved, handled, open, since, walking, boundary,
                   attempt, gaveUp, streamVars, breaks>>

-----------------------------------------------------------------------------

Relay(r) == Subscribe(r) \/ Eose(r) \/ Page(r) \/ Break(r)

Next ==
    \/ Open \/ Close
    \/ \E r \in Relays : Relay(r)
    \/ \E w \in Wraps : Process(w) \/ Confirm(w) \/ Publish(w)
    \/ Tick

Spec == Init /\ [][Next]_vars

-----------------------------------------------------------------------------

\* The next session's window, a margin behind the cursor, leaves out no wrap of
\* this one's that is not stored yet, unless it is only on a relay that was given
\* up, and no wrap that is published later (inbox.md: "The cursor never passes an
\* unconfirmed event"; WrapInbox.ts: "relay result caps never truncate the
\* backfill", and on the clamp "restarts would skip everything published before it").
NothingSkipped ==
    [][/\ saved' # saved =>
            \A r \in Relays \ gaveUp' : \A w \in stored[r] \ handled' :
                since <= created[w] => saved' - Margin <= created[w]
       /\ \A r \in Relays : \A w \in stored'[r] \ stored[r] :
            saved - Margin <= created'[w]]_vars

=============================================================================
