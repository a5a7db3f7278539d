------------------------ MODULE MCConditionalAlerts ------------------------
(* ConditionalAlerts for TLC: threads are interchangeable.                 *)
EXTENDS ConditionalAlerts, TLC

Symmetry == Permutations(Threads)

=============================================================================
