---------------------------- MODULE ReadFraming ----------------------------
(***************************************************************************)
(* What ClientSocket::ReadAsync makes of the bytes of a connection.  The   *)
(* peer sends packets, a header of three words ("prot", type, total        *)
(* length) and a payload; TCP hands them over in reads that start and end  *)
(* anywhere.  Each read is judged by itself, from the start of a buffer    *)
(* that keeps what earlier reads left in it.                               *)
(*                                                                         *)
(* Words have four bytes of Base values each, 256 in the code.             *)
(***************************************************************************)
EXTENDS Integers, Sequences

CONSTANTS
    Base,
    ReadSizes,      \* how many bytes a read may return, up to RECV_BUFFER_SIZE
    Magic,          \* the word "prot"
    Payloads,       \* the payloads the peer may send, of any bytes
    Types,          \* the packet types the peer may send
    Handled,        \* the types that have a packet handler
    Garbage,        \* what a buffer fresh from new char[] may begin with
    MaxPackets      \* bound on the packets sent

HeaderSize == 12

Bytes == 0 .. Base - 1

\* Types and lengths fit a word; the bytes of a payload are the peer's, and
\* may look like a header.
ASSUME FramingAssumption ==
    /\ Base \in Nat \ {0, 1} /\ MaxPackets \in Nat
    /\ ReadSizes \subseteq Nat \ {0}
    /\ Magic \in [1 .. 4 -> Bytes]
    /\ Payloads \subseteq Seq(Bytes)
    /\ \A data \in Payloads : HeaderSize + Len(data) < Base * (Base * (Base * Base))
    /\ Handled \subseteq Types /\ Types \subseteq Nat
    /\ \A type \in Types : type < Base * (Base * (Base * Base))
    /\ Garbage \subseteq [1 .. HeaderSize -> Bytes]

VARIABLES
    sent,           \* the packets sent so far: type, payload, first byte
    stream,         \* their bytes
    pos,            \* how many of the bytes have been read
    header,         \* the first HeaderSize bytes of _recvBuffer
    handled,        \* what HandlePacket passed on: type, payload, length
    open            \* FALSE once the chain of reads has ended

vars == <<sent, stream, pos, header, handled, open>>

-----------------------------------------------------------------------------
(* Slips: what an operator would be after a plausible mistake in the code. *)
(* No specification uses them; each breaks one of the properties below.    *)

\* The bytes are not masked with 0xFF.
AppendUnmasked(value) ==
    LET shifted == value \div Base IN
    <<value, shifted, shifted \div Base, (shifted \div Base) \div Base>>

\* A read that holds more than the packet is taken, too.
AcceptsLonger(hdr, n) ==
    SubSeq(hdr, 1, 4) = Magic /\ hdr[9] + Base * (hdr[10] + Base * hdr[11]) <= n

-----------------------------------------------------------------------------
(* The format.                                                             *)

\* Little-endian.
append_int_vec_char_le(value) ==
    LET shift8  == value \div Base
        shift16 == shift8 \div Base
        shift24 == shift16 \div Base
    IN  <<value % Base, shift8 % Base, shift16 % Base, shift24 % Base>>

append_prot_packet(type, len) ==
    Magic \o append_int_vec_char_le(type) \o append_int_vec_char_le(len)

\* *(int32_t *) on the server, which is little-endian as well, at byte i.  A
\* word with the sign bit set is no length of a read and no type of a handler,
\* whether it is read as negative or not.
ReadInt(hdr, i) ==
    hdr[i] + Base * (hdr[i + 1] + Base * (hdr[i + 2] + Base * hdr[i + 3]))

Total(data) == HeaderSize + Len(data)

Wire(type, data) == append_prot_packet(type, Total(data)) \o data

Packets == [type : Types, data : Payloads, start : Nat]

TypeOK ==
    /\ sent \in Seq(Packets)
    /\ stream \in Seq(Bytes)
    /\ pos \in 0 .. Len(stream)
    /\ header \in [1 .. HeaderSize -> Bytes]
    /\ handled \in Seq([type : Handled, payload : Seq(Bytes), length : Int])
    /\ open \in BOOLEAN

Init ==
    /\ sent = <<>> /\ stream = <<>> /\ pos = 0
    /\ header \in Garbage
    /\ handled = <<>>
    /\ open = TRUE

\* The test for "prot" and for the length.
Accepts(hdr, n) == SubSeq(hdr, 1, 4) = Magic /\ ReadInt(hdr, 9) = n

-----------------------------------------------------------------------------
(* The steps.                                                              *)

Send(type, data) ==
    /\ Len(sent) < MaxPackets
    /\ sent' = Append(sent, [type |-> type, data |-> data, start |-> Len(stream)])
    /\ stream' = stream \o Wire(type, data)
    /\ UNCHANGED <<pos, header, handled, open>>

\* async_read_some returns n bytes.  A packet without a handler is dropped;
\* the next read is issued in any case.
ReadSome(n) ==
    LET chunk == SubSeq(stream, pos + 1, pos + n)
        hdr   == [i \in 1 .. HeaderSize |-> IF i <= n THEN chunk[i] ELSE header[i]]
        type  == ReadInt(hdr, 5)
    IN
    /\ open
    /\ pos + n <= Len(stream)
    /\ pos' = pos + n
    /\ header' = hdr
    /\ handled' = IF Accepts(hdr, n) /\ type \in Handled
                  THEN Append(handled, [type    |-> type,
                                        payload |-> SubSeq(chunk, HeaderSize + 1, n),
                                        length  |-> n - HeaderSize])
                  ELSE handled
    /\ UNCHANGED <<sent, stream, open>>

\* The read ends in an error or in end of file: HandleError, no other read.
ReadEnds ==
    /\ open
    /\ open' = FALSE
    /\ UNCHANGED <<sent, stream, pos, header, handled>>

Next ==
    \/ \E type \in Types, data \in Payloads : Send(type, data)
    \/ \E n \in ReadSizes : ReadSome(n)
    \/ ReadEnds

Spec == Init /\ [][Next]_vars

-----------------------------------------------------------------------------
(* Properties.                                                             *)

\* The packets whose bytes are exactly those a step reads.
CameAlone == {i \in DOMAIN sent : /\ pos = sent[i].start
                                  /\ pos' = pos + Total(sent[i].data)}

\* A step that reads a packet alone passes on its type and its payload.
HandlesCameAlone ==
    \A i \in CameAlone :
        sent[i].type \in Handled =>
            handled' = Append(handled, [type    |-> sent[i].type,
                                        payload |-> sent[i].data,
                                        length  |-> Len(sent[i].data)])

\* A step that reads a header or more passes nothing on, or one packet whose
\* encoding is what it reads, from the first byte to the last.
HandlesWhatItRead ==
    pos' >= pos + HeaderSize =>
        \/ handled' = handled
        \/ \E type \in Handled, n \in ReadSizes :
            LET chunk == SubSeq(stream, pos + 1, pos + n)
                data  == SubSeq(chunk, HeaderSize + 1, n)
            IN  /\ pos' = pos + n
                /\ chunk = Wire(type, data)
                /\ handled' = Append(handled, [type    |-> type,
                                               payload |-> data,
                                               length  |-> Len(data)])

\* Whatever fragments and runs of packets came before it, a packet that fits
\* the buffer and comes in a read of its own is handled, with its type and
\* its payload, once; and no read of header size or more is handled unless it
\* is, as a whole, the encoding of a packet: not a part of one, not one and
\* what follows it (ClientSocket.cpp:42-59, util.cpp:5-18).
WholePackets == [][HandlesCameAlone /\ HandlesWhatItRead]_vars

\* "This data is insufficient" (ClientSocket.cpp:54) is said of every read
\* that does not hold a packet: no handler is given a read that does not
\* even hold a header.
NoneInsufficient == \A i \in DOMAIN handled : handled[i].length >= 0
=============================================================================
