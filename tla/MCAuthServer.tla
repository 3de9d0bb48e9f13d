---------------------------- MODULE MCAuthServer ----------------------------
(* Instances of AuthServer for TLC.                                        *)
EXTENDS AuthServer, TLC

\* Tokens, ids and profiles are each interchangeable.
Symmetry == Permutations(Tokens) \cup Permutations(Ids) \cup Permutations(Profiles)
=============================================================================
