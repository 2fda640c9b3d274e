------------------------- MODULE MCResourceManager -------------------------
(* TLC instances of ResourceManager: requests are interchangeable.         *)
EXTENDS ResourceManager, TLC

Symmetry == Permutations(Requests)

=============================================================================
