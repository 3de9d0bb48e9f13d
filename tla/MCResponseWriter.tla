-------------------------- MODULE MCResponseWriter --------------------------
(* Instances of ResponseWriter for TLC.                                    *)
EXTENDS ResponseWriter, TLC
=============================================================================
