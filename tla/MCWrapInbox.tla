---------------------------- MODULE MCWrapInbox ----------------------------
(***************************************************************************)
(* Small instances of WrapInbox: one or two relays, and three wraps.       *)
(***************************************************************************)
EXTENDS WrapInbox, TLC

CONSTANTS ra, rb, w1, w2, w3

OneRelay == {ra}
TwoRelays == {ra, rb}
ThreeWraps == {w1, w2, w3}

\* One wrap on the one relay, the others on the other.
Spread == [w \in Wraps |-> IF w = w1 THEN {{rb}} ELSE {{ra}}]
OnOne == [w \in Wraps |-> {{ra}}]

\* Wraps on the same relay are interchangeable.
SymmetrySpread == Permutations(Wraps \ {w1})
SymmetryOnOne == Permutations(Wraps)

=============================================================================
