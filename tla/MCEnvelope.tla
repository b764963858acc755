----------------------------- MODULE MCEnvelope -----------------------------
(***************************************************************************)
(* Small instances of Envelope: one or two devices, one or two proofs, one *)
(* melt, and the operations a run is about.                                *)
(***************************************************************************)
EXTENDS Envelope, TLC

CONSTANTS d1, d2, p1, p2, m1

OneDevice == {d1}
TwoDevices == {d1, d2}
OneProof == {p1}
TwoProofs == {p1, p2}
OneMelt == {m1}
NoMelts == {}

\* The operations of a run, the same on every device.  LeasedAndState is
\* everything but resumePending, the one operation that writes without the
\* key's lease.
On(tasks) == [d \in Devices |-> tasks]

LeasedAndState == On((Leased \cup Unleased) \ {"resume"})
Paying == On({"open", "melt", "resume"})
Settling == On({"open", "send", "state", "melt", "resume"})
Releasing == On({"open", "release", "state"})

\* One device pays, the other one opens too and settles what it syncs.
PayingAndHelping ==
    [d \in Devices |-> IF d = d2 THEN {"open", "resume"} ELSE {"open", "melt"}]

\* Proofs are interchangeable, and so are devices.
Symmetry == Permutations(Devices) \cup Permutations(Proofs)

=============================================================================
