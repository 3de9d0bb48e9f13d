--------------------------- MODULE Sha256Padding ---------------------------
(***************************************************************************)
(* How SHA256 (sha256.cpp) cuts a message into the blocks it passes to     *)
(* transform(): update() fills m_block, final() pads what is left.  The    *)
(* compression of a block is not looked at, only which bytes make it up.   *)
(*                                                                         *)
(* A byte of the message is a value of its own, so that one taken from the *)
(* wrong place, twice or not at all shows.                                 *)
(***************************************************************************)
EXTENDS Integers, Sequences

CONSTANTS
    BlockSize,      \* SHA224_256_BLOCK_SIZE: 64
    ChunkSizes,     \* lengths of what update() may be called with
    MaxLength       \* bound on the length of the message

ASSUME PaddingAssumption ==
    /\ BlockSize \in Nat /\ BlockSize >= 9
    /\ ChunkSizes \subseteq Nat
    /\ MaxLength \in Nat /\ MaxLength < 2 ^ 20

VARIABLES
    length,         \* how much of the message update() was given
    m_block,        \* two blocks
    m_len,          \* how many bytes of it are taken
    m_tot_len,      \* how many bytes transform() was given
    blocks,         \* the blocks transform() was given
    done            \* final() was called

vars == <<length, m_block, m_len, m_tot_len, blocks, done>>

\* Values that are not bytes: what m_block holds before it is written, and
\* the i-th byte of the message.
Unset == -1
Char(i) == 256 + i

Message(from, n) == [i \in 1 .. n |-> Char(from + i)]

Values == {Unset} \cup 0 .. 255 \cup {Char(i) : i \in 1 .. MaxLength}

TypeOK ==
    /\ length \in 0 .. MaxLength
    /\ m_block \in [1 .. 2 * BlockSize -> Values]
    /\ m_len \in 0 .. BlockSize - 1
    /\ m_tot_len \in 0 .. MaxLength
    /\ blocks \in Seq(Seq(Values))
    /\ done \in BOOLEAN

\* init()
Init ==
    /\ length = 0
    /\ m_block = [i \in 1 .. 2 * BlockSize |-> Unset]
    /\ m_len = 0
    /\ m_tot_len = 0
    /\ blocks = <<>>
    /\ done = FALSE

\* memcpy of bytes to m_block + at.
Copy(block, at, bytes) ==
    [i \in DOMAIN block |-> IF i \in at + 1 .. at + Len(bytes) THEN bytes[i - at] ELSE block[i]]

\* The blocks transform(bytes, n) reads.
Blocks(bytes, n) ==
    [b \in 1 .. n |-> SubSeq(bytes, (b - 1) * BlockSize + 1, b * BlockSize)]

\* SHA2_UNPACK32: big-endian.
Unpack32(v) ==
    <<(v \div 16777216) % 256, (v \div 65536) % 256, (v \div 256) % 256, v % 256>>

Zeros(n) == [i \in 1 .. n |-> 0]

-----------------------------------------------------------------------------
(* Slips: what a definition would be after a plausible mistake in the      *)
(* code.  No specification uses them; each breaks one of the properties.   *)

\* The length field is taken to need eight bytes, and 0x80 none.
PaddingBlocksOffByOne(len) == IF BlockSize - 8 < len % BlockSize THEN 2 ELSE 1

\* Less than a block is left, or just one.
FitsWithFull(len, n) == len + n <= BlockSize

\* The block made up in m_block is not counted.
DigestedShifted(nb) == nb * BlockSize

-----------------------------------------------------------------------------
(* The steps.                                                              *)

\* What update() digests: m_block and nb blocks straight from the message.
Digested(nb) == (nb + 1) * BlockSize

Fits(len, n) == len + n < BlockSize

Update(n) ==
    LET chunk   == Message(length, n)
        head    == IF n < BlockSize - m_len THEN n ELSE BlockSize - m_len
        block   == Copy(m_block, m_len, SubSeq(chunk, 1, head))
        shifted == SubSeq(chunk, head + 1, n)
        nb      == Len(shifted) \div BlockSize
        tail    == SubSeq(shifted, nb * BlockSize + 1, Len(shifted))
    IN
    /\ ~done
    /\ length + n <= MaxLength
    /\ length' = length + n
    /\ \/ /\ Fits(m_len, n)
          /\ m_block' = block
          /\ m_len' = m_len + n
          /\ UNCHANGED <<m_tot_len, blocks>>
       \/ /\ ~Fits(m_len, n)
          /\ blocks' = blocks \o Blocks(block, 1) \o Blocks(shifted, nb)
          /\ m_block' = Copy(block, 0, tail)
          /\ m_len' = Len(tail)
          /\ m_tot_len' = m_tot_len + Digested(nb)
    /\ UNCHANGED done

\* How many blocks the rest of the message takes with 0x80 and the length.
PaddingBlocks(len) == IF BlockSize - 9 < len % BlockSize THEN 2 ELSE 1

\* memset, 0x80, and the length in bits in the last four bytes.
Final ==
    LET nb     == PaddingBlocks(m_len)
        zeroed == Copy(m_block, m_len, Zeros(nb * BlockSize - m_len))
        marked == Copy(zeroed, m_len, <<128>>)
        padded == Copy(marked, nb * BlockSize - 4, Unpack32((m_tot_len + m_len) * 8))
    IN
    /\ ~done
    /\ m_block' = padded
    /\ blocks' = blocks \o Blocks(padded, nb)
    /\ done' = TRUE
    /\ UNCHANGED <<length, m_len, m_tot_len>>

Next == Final \/ \E n \in ChunkSizes : Update(n)

Spec == Init /\ [][Next]_vars

-----------------------------------------------------------------------------
(* Properties.                                                             *)

\* The message as SHA-256 has it padded: 0x80, as few zeros as make it whole
\* blocks, the length in bits in eight bytes.
Padded ==
    LET zeros == CHOOSE z \in 0 .. BlockSize - 1 : (length + 9 + z) % BlockSize = 0 IN
    Message(0, length) \o <<128>> \o Zeros(zeros + 4) \o Unpack32(length * 8)

\* Whatever pieces it came in, the blocks that are digested are those of the
\* padded message (sha256.cpp:75-111), the cases of 55, 56, 63 and 64 bytes
\* in the last block included.
DigestsPaddedMessage == done => blocks = Blocks(Padded, Len(Padded) \div BlockSize)

\* Between the calls nothing is lost or taken twice: what was digested, block
\* by block, and what m_block holds make up the message, and m_tot_len counts
\* the former (sha256.cpp:83-95).
NothingLost ==
    ~done => /\ \A b \in DOMAIN blocks :
                  blocks[b] = Message((b - 1) * BlockSize, BlockSize)
             /\ m_tot_len = BlockSize * Len(blocks)
             /\ SubSeq(m_block, 1, m_len) = Message(m_tot_len, m_len)
             /\ length = m_tot_len + m_len
=============================================================================
