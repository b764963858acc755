--------------------------- MODULE MCRecurringRun ---------------------------
(* Instances of RecurringRun for TLC.                                      *)
EXTENDS RecurringRun, TLC

CONSTANTS d1, d2

DeviceSym == Permutations(Device)

=============================================================================
