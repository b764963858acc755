------------------------------ MODULE MCOutbox ------------------------------
(***************************************************************************)
(* Small instances of Outbox: one or two runtimes, two jobs, one of them   *)
(* telemetry in one instance, one or two identities.                       *)
(***************************************************************************)
EXTENDS Outbox, TLC

CONSTANTS r1, r2, j1, j2, tele, alice, bob

OneRuntime == {r1}
TwoRuntimes == {r1, r2}
TwoJobs == {j1, j2}
WithReport == {j1, tele}
OneTelemetry == {tele}
NoTelemetry == {}
OneKey == {alice}
TwoKeys == {alice, bob}

\* For safety with jobs of one lane under one key.
Symmetry == Permutations(TwoRuntimes) \cup Permutations(TwoJobs)

=============================================================================
