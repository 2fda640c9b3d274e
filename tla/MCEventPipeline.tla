-------------------------- MODULE MCEventPipeline --------------------------
(* TLC instances of EventPipeline: the identities are model values.         *)
EXTENDS EventPipeline, TLC

Symmetry == Permutations(Events) \cup Permutations(Workers)

=============================================================================
