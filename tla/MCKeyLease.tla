----------------------------- MODULE MCKeyLease -----------------------------
(***************************************************************************)
(* Three contexts; the default ratio ttl : renewal : timeout = 3 : 1 : 3   *)
(* with a lag of one unit (a third of the TTL), the most the assumption    *)
(* admits at this resolution.                                              *)
(***************************************************************************)
EXTENDS KeyLease, TLC

CONSTANTS c1, c2, c3

MCContexts == {c1, c2, c3}

Symmetry == Permutations(MCContexts)

=============================================================================
