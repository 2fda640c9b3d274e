-------------------------- MODULE MCTaskLifecycle --------------------------
(* TLC instances of TaskLifecycle: the identities are model values.         *)
EXTENDS TaskLifecycle, TLC

Symmetry == Permutations(Tasks) \cup Permutations(Workers)
            \cup Permutations(Runners) \cup Permutations(Clients)

=============================================================================
