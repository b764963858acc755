------------------------------ MODULE PayOnce -------------------------------
(***************************************************************************)
(* What an envelope promises (linkshu docs/envelope.md, Envelope.ts): one  *)
(* key pays at most once.  Each of its proofs is in one place; a token     *)
(* handed out is never taken back or paid away by the wallet that sent it. *)
(***************************************************************************)
CONSTANT Proofs

VARIABLES
    place,   \* of each proof: nowhere, reserved, inflight, paid, returned
    handed   \* has a token of these proofs been given away

vars == <<place, handed>>

Init ==
    /\ place = [p \in Proofs |-> "nowhere"]
    /\ handed = FALSE

Move(S, from, to) ==
    /\ \A p \in S : place[p] = from
    /\ place' = [p \in Proofs |-> IF p \in S THEN to ELSE place[p]]

Fund == Move(Proofs, "nowhere", "reserved") /\ UNCHANGED handed

\* No token leaves while a Lightning payment may still take the proofs.
HandOut ==
    /\ \A p \in Proofs : place[p] \notin {"nowhere", "inflight"}
    /\ handed' = TRUE
    /\ UNCHANGED place

Redeem ==
    /\ handed
    /\ \E p \in Proofs : Move({p}, "reserved", "paid")
    /\ UNCHANGED handed

\* Only what nobody else holds is paid away or taken back.
Dispatch == ~handed /\ Move(Proofs, "reserved", "inflight") /\ UNCHANGED handed

Return ==
    /\ ~handed
    /\ \E S \in SUBSET Proofs : Move(S, "reserved", "returned")
    /\ UNCHANGED handed

Settle ==
    /\ \E to \in {"paid", "reserved"} : Move(Proofs, "inflight", to)
    /\ UNCHANGED handed

Next == Fund \/ HandOut \/ Redeem \/ Dispatch \/ Return \/ Settle

Spec == Init /\ [][Next]_vars

=============================================================================
