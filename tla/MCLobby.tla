------------------------------ MODULE MCLobby ------------------------------
(* Instances of Lobby for TLC.                                             *)
EXTENDS Lobby, TLC
=============================================================================
