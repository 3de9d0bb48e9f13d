--------------------------- MODULE MCReadFraming ---------------------------
(* Instances of ReadFraming for TLC.                                       *)
EXTENDS ReadFraming

MCMagic == <<6, 7, 3, 7>>

\* The header of an empty packet of type 1.
MCHeader == MCMagic \o <<1, 0, 0, 0>> \o <<4, 1, 0, 0>>

\* None, one byte, and a payload that holds a packet.
MCPayloads == {<<>>, <<5>>, <<6>> \o MCHeader}

MCZeroed == {[i \in 1 .. HeaderSize |-> 0]}

\* Zeros, and the header of a packet some former connection received.
MCGarbage == MCZeroed \cup {MCHeader}
=============================================================================
