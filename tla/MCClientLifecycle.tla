------------------------- MODULE MCClientLifecycle -------------------------
(* Instances of ClientLifecycle for TLC.                                   *)
EXTENDS ClientLifecycle, TLC

\* Tokens are interchangeable.
Symmetry == Permutations(Tokens)
=============================================================================
