------------------------ MODULE Sha256PaddingProofs ------------------------
(***************************************************************************)
(* Proofs about Sha256Padding, for every block size of at least 9 bytes,   *)
(* every message and every way to cut it into the arguments of update():   *)
(* nothing is lost on the way, and what final() has digested is the padded *)
(* message.                                                                *)
(*                                                                         *)
(* The properties the run checks are together inductive (PaddingInv).  The *)
(* proof goes byte by byte: the lemmas say which byte of the message, of   *)
(* m_block or of the padding every operator puts at which place, and the   *)
(* arithmetic of blocks says which block and offset that is.               *)
(***************************************************************************)
EXTENDS Sha256Padding, TLAPS, SequenceTheorems

(***************************************************************************)
(* Arithmetic on blocks.                                                   *)
(***************************************************************************)
LEMMA TimesMonotonic ==
    ASSUME NEW a \in Nat, NEW b \in Nat, NEW c \in Nat, a <= b
    PROVE  a * c <= b * c
<1>1. (b - a) * c >= 0
  OBVIOUS
<1> QED
  BY <1>1

LEMMA TimesType ==
    ASSUME NEW a \in Nat, NEW b \in Nat
    PROVE  a * b \in Nat
  OBVIOUS

LEMMA Division ==
    ASSUME NEW n \in Nat, NEW B \in Nat \ {0}
    PROVE  /\ n \div B \in Nat
           /\ n % B \in 0 .. B - 1
           /\ n = (n \div B) * B + (n % B)
  OBVIOUS

LEMMA QuotientUnique ==
    ASSUME NEW B \in Nat \ {0}, NEW q \in Int, NEW k \in Int,
           q * B > k * B, q * B < (k + 2) * B
    PROVE  q = k + 1
<1>1. q > k
  <2>1. CASE q <= k
    <3>1. (k - q) * B >= 0
      BY <2>1
    <3> QED
      BY <3>1
  <2> QED
    BY <2>1
<1>2. q < k + 2
  <2>1. CASE q >= k + 2
    <3>1. (q - (k + 2)) * B >= 0
      BY <2>1
    <3> QED
      BY <3>1
  <2> QED
    BY <2>1
<1> QED
  BY <1>1, <1>2

LEMMA RemainderSmall ==
    ASSUME NEW B \in Nat \ {0}, NEW n \in 0 .. B - 1
    PROVE  n % B = n
  OBVIOUS

LEMMA Multiple ==
    ASSUME NEW B \in Nat \ {0}, NEW k \in Nat
    PROVE  (k * B) % B = 0 /\ (k * B) \div B = k
  OBVIOUS

\* The place of byte i of block c of n that follow L others.
LEMMA BlockIndex ==
    ASSUME NEW B \in Nat \ {0}, NEW L \in Nat, NEW n \in Nat, NEW c \in 1 .. n,
           NEW i \in 1 .. B
    PROVE  /\ (c - 1) * B + i \in 1 .. n * B
           /\ L * B + ((c - 1) * B + i) = (L + c - 1) * B + i
           /\ (L + c - 1) * B \in Nat
           /\ (L + c - 1) * B + B <= L * B + n * B
<1>1. PICK lo \in Nat : lo = (c - 1) * B
  <2>1. c - 1 \in Nat
    OBVIOUS
  <2> QED
    BY <2>1, TimesType
<1>2. PICK all \in Nat : all = n * B
  BY TimesType
<1>3. PICK before \in Nat : before = L * B
  BY TimesType
<1>4. lo + B <= all
  <2>1. c * B <= n * B
    BY TimesMonotonic
  <2>2. c * B = (c - 1) * B + B
    OBVIOUS
  <2> QED
    BY <1>1, <1>2, <2>1, <2>2
<1>5. (L + c - 1) * B = before + lo
  <2>1. (L + c - 1) * B = L * B + (c - 1) * B
    OBVIOUS
  <2> QED
    BY <1>1, <1>3, <2>1
<1>6. lo + i \in 1 .. all /\ before + (lo + i) = before + lo + i
  BY <1>4
<1>7. before + lo + B <= before + all /\ before + lo \in Nat
  BY <1>4
<1> QED
  BY <1>1, <1>2, <1>3, <1>5, <1>6, <1>7

(***************************************************************************)
(* What the operators on bytes make, element by element.                   *)
(***************************************************************************)
LEMMA SizeType == BlockSize \in Nat \ {0} /\ BlockSize >= 9 /\ MaxLength \in Nat
  BY PaddingAssumption

LEMMA FunctionIsSeq ==
    ASSUME NEW S, NEW n \in Nat, NEW s \in [1 .. n -> S]
    PROVE  s \in Seq(S) /\ Len(s) = n
  OBVIOUS

LEMMA MessageBytes ==
    ASSUME NEW from \in Nat, NEW n \in Nat, from + n <= MaxLength
    PROVE  /\ Message(from, n) \in Seq(Values)
           /\ Len(Message(from, n)) = n
           /\ \A i \in 1 .. n : Message(from, n)[i] = Char(from + i)
<1>1. \A i \in 1 .. n : from + i \in 1 .. MaxLength
  BY SizeType
<1>2. \A i \in 1 .. n : Char(from + i) \in Values
  BY <1>1 DEF Values
<1>3. Message(from, n) \in [1 .. n -> Values]
  BY <1>2 DEF Message
<1> QED
  BY <1>3, FunctionIsSeq DEF Message

LEMMA CopyBytes ==
    ASSUME NEW block \in [1 .. 2 * BlockSize -> Values], NEW at \in Nat,
           NEW bytes \in Seq(Values)
    PROVE  /\ Copy(block, at, bytes) \in [1 .. 2 * BlockSize -> Values]
           /\ \A i \in 1 .. 2 * BlockSize :
                Copy(block, at, bytes)[i] =
                    IF at < i /\ i <= at + Len(bytes) THEN bytes[i - at] ELSE block[i]
<1>1. /\ Len(bytes) \in Nat
      /\ \A k \in 1 .. Len(bytes) : bytes[k] \in Values
  BY LenProperties, ElementOfSeq
<1>2. \A i \in 1 .. 2 * BlockSize :
        i \in at + 1 .. at + Len(bytes) <=> at < i /\ i <= at + Len(bytes)
  BY <1>1, SizeType
<1>3. \A i \in 1 .. 2 * BlockSize :
        at < i /\ i <= at + Len(bytes) => i - at \in 1 .. Len(bytes)
  BY <1>1, SizeType
<1>4. DOMAIN block = 1 .. 2 * BlockSize
  OBVIOUS
<1> QED
  BY <1>1, <1>2, <1>3, <1>4 DEF Copy

LEMMA BlocksBytes ==
    ASSUME NEW bytes, NEW n \in Nat, \A i \in 1 .. n * BlockSize : bytes[i] \in Values
    PROVE  /\ Blocks(bytes, n) \in Seq(Seq(Values))
           /\ Len(Blocks(bytes, n)) = n
           /\ \A b \in 1 .. n :
                /\ Blocks(bytes, n)[b] \in Seq(Values)
                /\ Len(Blocks(bytes, n)[b]) = BlockSize
                /\ \A i \in 1 .. BlockSize :
                     Blocks(bytes, n)[b][i] = bytes[(b - 1) * BlockSize + i]
<1>1. ASSUME NEW b \in 1 .. n
      PROVE  LET s == SubSeq(bytes, (b - 1) * BlockSize + 1, b * BlockSize) IN
             /\ s \in Seq(Values)
             /\ Len(s) = BlockSize
             /\ \A i \in 1 .. BlockSize : s[i] = bytes[(b - 1) * BlockSize + i]
  <2> DEFINE lo == (b - 1) * BlockSize
             hi == b * BlockSize
  <2>1. lo \in Nat /\ hi = lo + BlockSize /\ hi <= n * BlockSize /\ hi \in Nat
    <3>1. b - 1 \in Nat /\ b \in Nat /\ b <= n
      OBVIOUS
    <3>2. lo \in Nat /\ hi \in Nat
      BY <3>1, SizeType, TimesType
    <3>3. hi <= n * BlockSize
      BY <3>1, SizeType, TimesMonotonic
    <3>4. hi = lo + BlockSize
      BY <3>1, SizeType
    <3> QED
      BY <3>2, <3>3, <3>4
  <2>2. n * BlockSize \in Nat
    BY SizeType, TimesType
  <2> HIDE DEF lo, hi
  <2>3. \A i \in lo + 1 .. hi : bytes[i] \in Values
    BY <2>1, <2>2, SizeType
  <2>4. /\ SubSeq(bytes, lo + 1, hi) \in Seq(Values)
        /\ Len(SubSeq(bytes, lo + 1, hi)) =
             IF lo + 1 <= hi THEN hi - (lo + 1) + 1 ELSE 0
        /\ \A i \in 1 .. hi - (lo + 1) + 1 :
             SubSeq(bytes, lo + 1, hi)[i] = bytes[lo + 1 + i - 1]
    BY <2>1, <2>3, SubSeqProperties
  <2>5. /\ Len(SubSeq(bytes, lo + 1, hi)) = BlockSize
        /\ \A i \in 1 .. BlockSize : SubSeq(bytes, lo + 1, hi)[i] = bytes[lo + i]
    <3>1. hi - (lo + 1) + 1 = BlockSize /\ lo + 1 <= hi
      BY <2>1, SizeType
    <3>2. \A i \in 1 .. BlockSize : lo + 1 + i - 1 = lo + i
      BY <2>1, SizeType
    <3> QED
      BY <2>4, <3>1, <3>2
  <2> QED
    BY <2>4, <2>5 DEF lo, hi
<1>2. Blocks(bytes, n) \in [1 .. n -> Seq(Values)]
  BY <1>1 DEF Blocks
<1>3. Blocks(bytes, n) \in Seq(Seq(Values)) /\ Len(Blocks(bytes, n)) = n
  BY <1>2, FunctionIsSeq
<1> QED
  BY <1>1, <1>3 DEF Blocks

\* Two sequences of blocks are the same if all their bytes are.
LEMMA SameBlocks ==
    ASSUME NEW s \in Seq(Seq(Values)), NEW t \in Seq(Seq(Values)), Len(s) = Len(t),
           \A b \in 1 .. Len(s) :
              /\ Len(s[b]) = BlockSize /\ Len(t[b]) = BlockSize
              /\ \A i \in 1 .. BlockSize : s[b][i] = t[b][i]
    PROVE  s = t
<1>1. ASSUME NEW b \in 1 .. Len(s) PROVE s[b] = t[b]
  <2>1. s[b] \in Seq(Values) /\ t[b] \in Seq(Values)
    BY ElementOfSeq
  <2>2. /\ Len(s[b]) = Len(t[b])
        /\ \A i \in 1 .. Len(s[b]) : s[b][i] = t[b][i]
    OBVIOUS
  <2> QED
    BY <2>1, <2>2, SeqEqual
<1> QED
  BY <1>1, SeqEqual

(***************************************************************************)
(* The inductive invariant.                                                *)
(***************************************************************************)
PaddingInv == TypeOK /\ NothingLost /\ DigestsPaddedMessage

\* What the start of a block holds, in terms of single bytes.
LEMMA HeldBytes ==
    ASSUME NEW block \in [1 .. 2 * BlockSize -> Values], NEW len \in 0 .. BlockSize,
           NEW tot \in Nat, tot + len <= MaxLength
    PROVE  SubSeq(block, 1, len) = Message(tot, len) <=>
           \A i \in 1 .. len : block[i] = Char(tot + i)
<1>1. len \in Nat /\ len <= 2 * BlockSize
  BY SizeType
<1>2. \A i \in 1 .. len : block[i] \in Values
  BY <1>1, SizeType
<1>3. /\ SubSeq(block, 1, len) \in Seq(Values)
      /\ Len(SubSeq(block, 1, len)) = IF 1 <= len THEN len - 1 + 1 ELSE 0
      /\ \A i \in 1 .. len - 1 + 1 : SubSeq(block, 1, len)[i] = block[1 + i - 1]
  BY <1>1, <1>2, SubSeqProperties
<1>4. /\ Len(SubSeq(block, 1, len)) = len
      /\ \A i \in 1 .. len : SubSeq(block, 1, len)[i] = block[i]
  BY <1>1, <1>3
<1>5. /\ Message(tot, len) \in Seq(Values)
      /\ Len(Message(tot, len)) = len
      /\ \A i \in 1 .. len : Message(tot, len)[i] = Char(tot + i)
  BY <1>1, MessageBytes
<1>6. ASSUME \A i \in 1 .. len : block[i] = Char(tot + i)
      PROVE  SubSeq(block, 1, len) = Message(tot, len)
  <2>1. /\ Len(SubSeq(block, 1, len)) = Len(Message(tot, len))
        /\ \A i \in 1 .. Len(SubSeq(block, 1, len)) :
             SubSeq(block, 1, len)[i] = Message(tot, len)[i]
    BY <1>4, <1>5, <1>6
  <2> QED
    BY <1>3, <1>5, <2>1, SeqEqual
<1> QED
  BY <1>4, <1>5, <1>6

LEMMA InitPadding == Init => PaddingInv
<1> SUFFICES ASSUME Init PROVE PaddingInv
  OBVIOUS
<1>1. blocks = <<>> /\ Len(blocks) = 0 /\ DOMAIN blocks = {}
  BY DEF Init
<1>2. m_block \in [1 .. 2 * BlockSize -> Values]
  BY DEF Init, Values
<1>3. TypeOK
  <2>1. blocks \in Seq(Seq(Values))
    BY <1>1, EmptySeq
  <2>2. 0 \in 0 .. MaxLength /\ 0 \in 0 .. BlockSize - 1
    BY SizeType
  <2> QED
    BY <1>2, <2>1, <2>2 DEF Init, TypeOK
<1>4. NothingLost
  <2>1. SubSeq(m_block, 1, m_len) = Message(m_tot_len, m_len)
    BY <1>2, HeldBytes, SizeType DEF Init
  <2> QED
    BY <1>1, <2>1, SizeType DEF Init, NothingLost
<1> QED
  BY <1>3, <1>4 DEF PaddingInv, DigestsPaddedMessage, Init

(***************************************************************************)
(* update().                                                               *)
(***************************************************************************)

\* What the first memcpy leaves in m_block.
LEMMA FirstCopy ==
    ASSUME PaddingInv, ~done, NEW n \in Nat, length + n <= MaxLength,
           NEW head \in 0 .. n, m_len + head <= BlockSize
    PROVE  LET block == Copy(m_block, m_len, SubSeq(Message(length, n), 1, head)) IN
           /\ block \in [1 .. 2 * BlockSize -> Values]
           /\ \A i \in 1 .. m_len + head : block[i] = Char(m_tot_len + i)
<1> DEFINE chunk == Message(length, n)
           part  == SubSeq(chunk, 1, head)
<1>1. /\ m_len \in Nat /\ m_tot_len \in Nat /\ length \in Nat /\ head \in Nat /\ head <= n
      /\ m_block \in [1 .. 2 * BlockSize -> Values] /\ m_len <= BlockSize
      /\ length = m_tot_len + m_len /\ length <= MaxLength
  BY SizeType DEF PaddingInv, TypeOK, NothingLost
<1>2. \A i \in 1 .. m_len : m_block[i] = Char(m_tot_len + i)
  <2>1. m_len \in 0 .. BlockSize /\ m_tot_len + m_len <= MaxLength
    BY <1>1, SizeType
  <2>2. SubSeq(m_block, 1, m_len) = Message(m_tot_len, m_len)
    BY DEF PaddingInv, NothingLost
  <2> QED
    BY <1>1, <2>1, <2>2, HeldBytes
<1>3. /\ chunk \in Seq(Values) /\ Len(chunk) = n
      /\ \A i \in 1 .. n : chunk[i] = Char(length + i)
  BY <1>1, MessageBytes
<1> HIDE DEF chunk
<1>4. \A i \in 1 .. head : chunk[i] \in Values
  BY <1>1, <1>3, ElementOfSeq
<1>5. /\ part \in Seq(Values)
      /\ Len(part) = IF 1 <= head THEN head - 1 + 1 ELSE 0
      /\ \A i \in 1 .. head - 1 + 1 : part[i] = chunk[1 + i - 1]
  BY <1>1, <1>4, SubSeqProperties
<1>6. Len(part) = head /\ \A i \in 1 .. head : part[i] = Char(length + i)
  BY <1>1, <1>3, <1>5
<1> HIDE DEF part
<1>7. /\ Copy(m_block, m_len, part) \in [1 .. 2 * BlockSize -> Values]
      /\ \A i \in 1 .. 2 * BlockSize :
           Copy(m_block, m_len, part)[i] =
             IF m_len < i /\ i <= m_len + Len(part) THEN part[i - m_len] ELSE m_block[i]
  BY <1>1, <1>5, CopyBytes
<1>8. ASSUME NEW i \in 1 .. m_len + head
      PROVE  Copy(m_block, m_len, part)[i] = Char(m_tot_len + i)
  <2>1. i \in 1 .. 2 * BlockSize
    BY <1>1, SizeType
  <2>2. CASE i <= m_len
    BY <1>1, <1>2, <1>7, <2>1, <2>2
  <2>3. CASE m_len < i
    <3>1. i - m_len \in 1 .. head /\ length + (i - m_len) = m_tot_len + i
      BY <1>1, <2>3
    <3> QED
      BY <1>1, <1>6, <1>7, <2>1, <2>3, <3>1
  <2> QED
    BY <1>1, <2>2, <2>3
<1> QED
  BY <1>7, <1>8 DEF part, chunk

LEMMA UpdateFits ==
    ASSUME PaddingInv, NEW n \in Nat, Update(n), Fits(m_len, n)
    PROVE  PaddingInv'
<1>1. /\ m_len \in Nat /\ m_tot_len \in Nat /\ length \in Nat
      /\ m_len + n < BlockSize /\ length + n <= MaxLength /\ ~done
      /\ length = m_tot_len + m_len
  BY SizeType DEF PaddingInv, TypeOK, NothingLost, Update, Fits
<1>2. n < BlockSize - m_len /\ n \in 0 .. n /\ m_len + n <= BlockSize
  BY <1>1, SizeType
<1>3. /\ m_block' = Copy(m_block, m_len, SubSeq(Message(length, n), 1, n))
      /\ m_len' = m_len + n /\ length' = length + n
      /\ UNCHANGED <<m_tot_len, blocks, done>>
  BY <1>2 DEF Update, Fits
<1>4. /\ m_block' \in [1 .. 2 * BlockSize -> Values]
      /\ \A i \in 1 .. m_len + n : m_block'[i] = Char(m_tot_len + i)
  BY <1>1, <1>2, <1>3, FirstCopy
<1>5. m_len + n \in 0 .. BlockSize /\ m_tot_len + (m_len + n) <= MaxLength
  BY <1>1, SizeType
<1>6. SubSeq(m_block', 1, m_len') = Message(m_tot_len', m_len')
  BY <1>1, <1>3, <1>4, <1>5, HeldBytes
<1>7. TypeOK'
  <2>1. length + n \in 0 .. MaxLength /\ m_len + n \in 0 .. BlockSize - 1
    BY <1>1, SizeType
  <2> QED
    BY <1>3, <1>4, <2>1 DEF PaddingInv, TypeOK
<1>8. NothingLost'
  BY <1>1, <1>3, <1>6 DEF PaddingInv, NothingLost
<1> QED
  BY <1>1, <1>3, <1>7, <1>8 DEF PaddingInv, DigestsPaddedMessage

LEMMA Suffix ==
    ASSUME NEW s \in Seq(Values), NEW m \in Nat, Len(s) = m, NEW k \in 0 .. m
    PROVE  /\ SubSeq(s, k + 1, m) \in Seq(Values)
           /\ Len(SubSeq(s, k + 1, m)) = m - k
           /\ \A i \in 1 .. m - k : SubSeq(s, k + 1, m)[i] = s[k + i] /\ k + i \in 1 .. m
<1>1. \A i \in k + 1 .. m : i \in 1 .. m
  OBVIOUS
<1>2. \A i \in k + 1 .. m : s[i] \in Values
  BY <1>1, ElementOfSeq
<1>3. /\ SubSeq(s, k + 1, m) \in Seq(Values)
      /\ Len(SubSeq(s, k + 1, m)) = IF k + 1 <= m THEN m - (k + 1) + 1 ELSE 0
      /\ \A i \in 1 .. m - (k + 1) + 1 : SubSeq(s, k + 1, m)[i] = s[k + 1 + i - 1]
  BY <1>2, SubSeqProperties
<1>4. m - (k + 1) + 1 = m - k /\ \A i \in 1 .. m - k : k + 1 + i - 1 = k + i
  OBVIOUS
<1>5. (IF k + 1 <= m THEN m - (k + 1) + 1 ELSE 0) = m - k
  OBVIOUS
<1>6. \A i \in 1 .. m - k : k + i \in 1 .. m
  OBVIOUS
<1> QED
  BY <1>3, <1>4, <1>5, <1>6

\* What update() digests straight from the message, and what it keeps.
LEMMA Rest ==
    ASSUME PaddingInv, ~done, NEW n \in Nat, length + n <= MaxLength,
           NEW head \in 0 .. n, m_len + head = BlockSize
    PROVE  LET shifted == SubSeq(Message(length, n), head + 1, n)
               nb      == Len(shifted) \div BlockSize
               tail    == SubSeq(shifted, nb * BlockSize + 1, Len(shifted))
           IN
           /\ nb \in Nat
           /\ Len(shifted) = n - head /\ nb * BlockSize <= Len(shifted)
           /\ \A i \in 1 .. Len(shifted) :
                shifted[i] = Char(m_tot_len + BlockSize + i) /\ shifted[i] \in Values
           /\ tail \in Seq(Values)
           /\ Len(tail) \in 0 .. BlockSize - 1
           /\ Len(tail) = Len(shifted) - nb * BlockSize
           /\ \A i \in 1 .. Len(tail) :
                tail[i] = Char(m_tot_len + BlockSize + (nb * BlockSize + i))
<1> DEFINE chunk   == Message(length, n)
           shifted == SubSeq(chunk, head + 1, n)
           nb      == Len(shifted) \div BlockSize
           tail    == SubSeq(shifted, nb * BlockSize + 1, Len(shifted))
<1>1. /\ m_len \in Nat /\ m_tot_len \in Nat /\ length \in Nat
      /\ length = m_tot_len + m_len
  BY SizeType DEF PaddingInv, TypeOK, NothingLost
<1>2. /\ chunk \in Seq(Values) /\ Len(chunk) = n
      /\ \A i \in 1 .. n : chunk[i] = Char(length + i)
  BY <1>1, MessageBytes
<1> HIDE DEF chunk
<1>3. /\ shifted \in Seq(Values) /\ Len(shifted) = n - head
      /\ \A i \in 1 .. n - head : shifted[i] = chunk[head + i] /\ head + i \in 1 .. n
  BY <1>2, Suffix
<1> HIDE DEF shifted
<1>4. PICK m \in Nat : m = n - head /\ m = Len(shifted)
  BY <1>3
<1>5. \A i \in 1 .. m :
        shifted[i] = Char(m_tot_len + BlockSize + i) /\ shifted[i] \in Values
  <2>1. \A i \in 1 .. m : length + (head + i) = m_tot_len + BlockSize + i
    BY <1>1, SizeType
  <2> QED
    BY <1>2, <1>3, <1>4, <2>1, ElementOfSeq
<1>6. /\ nb \in Nat /\ m % BlockSize \in 0 .. BlockSize - 1
      /\ m = nb * BlockSize + (m % BlockSize)
  BY <1>4, Division, SizeType
<1> HIDE DEF nb
<1>7. PICK k \in Nat : k = nb * BlockSize
  BY <1>6, SizeType, TimesType
<1>8. k \in 0 .. m /\ m - k \in 0 .. BlockSize - 1
  BY <1>6, <1>7, SizeType
<1>9. tail = SubSeq(shifted, k + 1, m)
  BY <1>4, <1>7
<1> HIDE DEF tail
<1>10. /\ tail \in Seq(Values) /\ Len(tail) = m - k
       /\ \A i \in 1 .. m - k : tail[i] = shifted[k + i] /\ k + i \in 1 .. m
  BY <1>3, <1>4, <1>8, <1>9, Suffix
<1>11. \A i \in 1 .. m - k : tail[i] = Char(m_tot_len + BlockSize + (k + i))
  BY <1>5, <1>10
<1>12. k <= m
  BY <1>8
<1>13. /\ nb \in Nat
       /\ Len(shifted) = n - head /\ nb * BlockSize <= Len(shifted)
       /\ \A i \in 1 .. Len(shifted) :
            shifted[i] = Char(m_tot_len + BlockSize + i) /\ shifted[i] \in Values
       /\ tail \in Seq(Values)
       /\ Len(tail) \in 0 .. BlockSize - 1
       /\ Len(tail) = Len(shifted) - nb * BlockSize
       /\ \A i \in 1 .. Len(tail) :
            tail[i] = Char(m_tot_len + BlockSize + (nb * BlockSize + i))
  BY <1>4, <1>5, <1>6, <1>7, <1>8, <1>10, <1>11, <1>12
<1> QED
  BY <1>13 DEF tail, nb, shifted, chunk

\* The blocks of a message, and bytes that go on with it after the first tot.
MessageBlocks(s) ==
    /\ s \in Seq(Seq(Values))
    /\ \A b \in 1 .. Len(s) : s[b] = Message((b - 1) * BlockSize, BlockSize)

GoesOn(bytes, n, tot) ==
    /\ tot + n * BlockSize <= MaxLength
    /\ \A i \in 1 .. n * BlockSize : bytes[i] \in Values /\ bytes[i] = Char(tot + i)

LEMMA MoreBlocks ==
    ASSUME NEW s, MessageBlocks(s), NEW bytes, NEW n \in Nat,
           GoesOn(bytes, n, Len(s) * BlockSize)
    PROVE  /\ MessageBlocks(s \o Blocks(bytes, n))
           /\ Len(s \o Blocks(bytes, n)) = Len(s) + n
<1>l. PICK L \in Nat : L = Len(s)
  BY LenProperties DEF MessageBlocks
<1>t. PICK tot \in Nat : tot = L * BlockSize
  BY SizeType, TimesType
<1>s. /\ s \in Seq(Seq(Values))
      /\ \A b \in 1 .. L : s[b] = Message((b - 1) * BlockSize, BlockSize)
      /\ tot + n * BlockSize <= MaxLength
      /\ \A i \in 1 .. n * BlockSize : bytes[i] \in Values /\ bytes[i] = Char(tot + i)
  BY <1>l, <1>t DEF MessageBlocks, GoesOn
<1>1. \A i \in 1 .. n * BlockSize : bytes[i] \in Values
  BY <1>s
<1>2. PICK t :
        /\ t = Blocks(bytes, n) /\ t \in Seq(Seq(Values)) /\ Len(t) = n
        /\ \A b \in 1 .. n : /\ t[b] \in Seq(Values) /\ Len(t[b]) = BlockSize
                             /\ \A i \in 1 .. BlockSize :
                                  t[b][i] = bytes[(b - 1) * BlockSize + i]
  BY <1>1, BlocksBytes
<1>3. /\ s \o t \in Seq(Seq(Values))
      /\ Len(s \o t) = L + n
      /\ \A b \in 1 .. L + n : (s \o t)[b] = IF b <= L THEN s[b] ELSE t[b - L]
  <2>1. /\ s \o t \in Seq(Seq(Values))
        /\ Len(s \o t) = Len(s) + Len(t)
        /\ \A b \in 1 .. Len(s) + Len(t) :
             (s \o t)[b] = IF b <= Len(s) THEN s[b] ELSE t[b - Len(s)]
    BY <1>2, <1>s, ConcatProperties
  <2> QED
    BY <1>2, <1>l, <2>1
<1>4. ASSUME NEW c \in 1 .. n, NEW from, from = (L + c - 1) * BlockSize
      PROVE  t[c] = Message(from, BlockSize)
  <2>1. 1 \in 1 .. BlockSize
    BY SizeType
  <2>2. from \in Nat /\ from + BlockSize <= MaxLength
    <3>1. from \in Nat /\ from + BlockSize <= tot + n * BlockSize
      BY <1>4, <1>t, <2>1, BlockIndex, SizeType
    <3>2. PICK all \in Nat : all = n * BlockSize
      BY SizeType, TimesType
    <3> QED
      BY <1>s, <3>1, <3>2, SizeType
  <2>3. \A i \in 1 .. BlockSize : t[c][i] = Char(from + i)
    <3> TAKE i \in 1 .. BlockSize
    <3>1. /\ (c - 1) * BlockSize + i \in 1 .. n * BlockSize
          /\ tot + ((c - 1) * BlockSize + i) = from + i
      BY <1>4, <1>t, BlockIndex, SizeType
    <3> QED
      BY <1>2, <1>s, <3>1
  <2>4. /\ Message(from, BlockSize) \in Seq(Values)
        /\ Len(Message(from, BlockSize)) = BlockSize
        /\ \A i \in 1 .. BlockSize : Message(from, BlockSize)[i] = Char(from + i)
    BY <2>2, MessageBytes, SizeType
  <2>5. /\ t[c] \in Seq(Values) /\ Len(t[c]) = Len(Message(from, BlockSize))
        /\ \A i \in 1 .. Len(t[c]) : t[c][i] = Message(from, BlockSize)[i]
    BY <1>2, <2>3, <2>4
  <2> QED
    BY <2>4, <2>5, SeqEqual
<1>5. ASSUME NEW b \in 1 .. L + n
      PROVE  (s \o t)[b] = Message((b - 1) * BlockSize, BlockSize)
  <2>1. CASE b <= L
    <3>1. b \in 1 .. L
      BY <2>1
    <3> QED
      BY <1>3, <1>s, <2>1, <3>1
  <2>2. CASE ~(b <= L)
    <3>1. PICK c \in 1 .. n : c = b - L
      BY <2>2
    <3>2. L + c - 1 = b - 1
      BY <3>1
    <3>3. (s \o t)[b] = t[c]
      BY <1>3, <2>2, <3>1
    <3> QED
      BY <1>4, <3>2, <3>3
  <2> QED
    BY <2>1, <2>2
<1> QED
  BY <1>2, <1>3, <1>5, <1>l DEF MessageBlocks

LEMMA UpdateDigests ==
    ASSUME PaddingInv, NEW n \in Nat, Update(n), ~Fits(m_len, n)
    PROVE  PaddingInv'
<1>1. /\ m_len \in Nat /\ m_len < BlockSize /\ m_tot_len \in Nat /\ length \in Nat
      /\ m_len + n >= BlockSize /\ length + n <= MaxLength /\ ~done
      /\ length = m_tot_len + m_len
  BY SizeType DEF PaddingInv, TypeOK, NothingLost, Update, Fits
<1>2. /\ blocks \in Seq(Seq(Values)) /\ Len(blocks) \in Nat
      /\ m_tot_len = BlockSize * Len(blocks)
      /\ \A b \in 1 .. Len(blocks) : blocks[b] = Message((b - 1) * BlockSize, BlockSize)
  BY <1>1, LenProperties DEF PaddingInv, TypeOK, NothingLost
<1>3. PICK head \in 0 .. n : head = BlockSize - m_len
  BY <1>1, SizeType
<1>4. m_len + head = BlockSize /\ m_len + head <= BlockSize /\ ~(n < BlockSize - m_len)
  BY <1>1, <1>3, SizeType
<1> DEFINE block   == Copy(m_block, m_len, SubSeq(Message(length, n), 1, head))
           shifted == SubSeq(Message(length, n), head + 1, n)
           nb      == Len(shifted) \div BlockSize
           tail    == SubSeq(shifted, nb * BlockSize + 1, Len(shifted))
<1>6. /\ blocks' = blocks \o Blocks(block, 1) \o Blocks(shifted, nb)
      /\ m_block' = Copy(block, 0, tail)
      /\ m_len' = Len(tail)
      /\ m_tot_len' = m_tot_len + (nb + 1) * BlockSize
      /\ length' = length + n
      /\ UNCHANGED done
  BY <1>3, <1>4 DEF Update, Digested
<1>7. /\ block \in [1 .. 2 * BlockSize -> Values]
      /\ \A i \in 1 .. BlockSize : block[i] = Char(m_tot_len + i)
  BY <1>1, <1>4, FirstCopy
<1>r. length + n <= MaxLength /\ ~done /\ n \in Nat
  BY <1>1
<1>8. /\ nb \in Nat
      /\ Len(shifted) = n - head /\ nb * BlockSize <= Len(shifted)
      /\ \A i \in 1 .. Len(shifted) :
           shifted[i] = Char(m_tot_len + BlockSize + i) /\ shifted[i] \in Values
      /\ tail \in Seq(Values)
      /\ Len(tail) \in 0 .. BlockSize - 1
      /\ Len(tail) = Len(shifted) - nb * BlockSize
      /\ \A i \in 1 .. Len(tail) :
           tail[i] = Char(m_tot_len + BlockSize + (nb * BlockSize + i))
  BY <1>4, <1>r, Rest
<1> HIDE DEF block, shifted, nb, tail
<1>9. PICK k \in Nat : k = nb * BlockSize
  BY <1>8, SizeType, TimesType
<1>10. PICK rest \in 0 .. BlockSize - 1 :
         rest = Len(tail) /\ rest = n - head - k /\ Len(shifted) = k + rest
  BY <1>8, <1>9
<1>11. m_tot_len' = m_tot_len + BlockSize + k
  <2>1. (nb + 1) * BlockSize = BlockSize + k
    BY <1>8, <1>9, SizeType
  <2> QED
    BY <1>1, <1>6, <1>9, <2>1, SizeType
<1>12. /\ length' = m_tot_len' + m_len' /\ m_tot_len' \in 0 .. MaxLength
       /\ length' \in 0 .. MaxLength /\ m_len' = rest /\ m_tot_len' \in Nat
       /\ m_tot_len' + rest <= MaxLength
  <2>1. m_len' = rest /\ length' = length + n /\ length + n = m_tot_len + BlockSize + k + rest
    BY <1>1, <1>3, <1>6, <1>9, <1>10, SizeType
  <2>2. PICK tot \in Nat : tot = m_tot_len + BlockSize + k
    BY <1>1, SizeType
  <2>3. m_tot_len' = tot /\ length' = tot + rest /\ tot + rest <= MaxLength /\ rest \in Nat
    BY <1>1, <1>10, <1>11, <2>1, <2>2
  <2> QED
    BY <2>1, <2>2, <2>3, SizeType
<1>13. /\ m_block' \in [1 .. 2 * BlockSize -> Values]
       /\ SubSeq(m_block', 1, m_len') = Message(m_tot_len', m_len')
  <2>1. /\ m_block' \in [1 .. 2 * BlockSize -> Values]
        /\ \A i \in 1 .. 2 * BlockSize :
             m_block'[i] = IF 0 < i /\ i <= 0 + Len(tail) THEN tail[i - 0] ELSE block[i]
    <3>1. tail \in Seq(Values) /\ 0 \in Nat
      BY <1>8
    <3> QED
      BY <1>6, <1>7, <3>1, CopyBytes
  <2>2. \A i \in 1 .. rest : i \in 1 .. 2 * BlockSize /\ i - 0 = i /\ i <= 0 + rest /\ 0 < i
    BY <1>10, SizeType
  <2>3. \A i \in 1 .. rest : tail[i] = Char(m_tot_len' + i)
    <3>1. \A i \in 1 .. rest : m_tot_len + BlockSize + (k + i) = m_tot_len' + i
      BY <1>1, <1>10, <1>11, SizeType
    <3> QED
      BY <1>8, <1>9, <1>10, <3>1
  <2>4. \A i \in 1 .. rest : m_block'[i] = Char(m_tot_len' + i)
    BY <1>10, <2>1, <2>2, <2>3
  <2>5. rest \in 0 .. BlockSize
    BY <1>10, SizeType
  <2> QED
    BY <1>12, <2>1, <2>4, <2>5, HeldBytes
\* The blocks.
<1>14. PICK one :
         /\ one = blocks \o Blocks(block, 1)
         /\ MessageBlocks(one) /\ Len(one) = Len(blocks) + 1
  <2>1. 1 * BlockSize = BlockSize /\ m_tot_len = Len(blocks) * BlockSize
    BY <1>2, SizeType
  <2>2. m_tot_len + BlockSize <= MaxLength
    BY <1>1, SizeType
  <2>3. \A i \in 1 .. BlockSize : i \in 1 .. 2 * BlockSize
    BY SizeType
  <2>4. \A i \in 1 .. BlockSize : block[i] \in Values /\ block[i] = Char(m_tot_len + i)
    BY <1>7, <2>3
  <2>5. GoesOn(block, 1, Len(blocks) * BlockSize)
    BY <2>1, <2>2, <2>4 DEF GoesOn
  <2>6. MessageBlocks(blocks)
    BY <1>2 DEF MessageBlocks
  <2> QED
    BY <2>5, <2>6, MoreBlocks
<1>15. MessageBlocks(blocks') /\ Len(blocks') = Len(blocks) + 1 + nb
  <2>1. PICK tot \in Nat : tot = m_tot_len + BlockSize
    BY <1>1, SizeType
  <2>2. tot = Len(one) * BlockSize
    <3>1. (Len(blocks) + 1) * BlockSize = BlockSize * Len(blocks) + BlockSize
      BY <1>2, SizeType
    <3> QED
      BY <1>2, <1>14, <2>1, <3>1
  <2>3. tot + nb * BlockSize <= MaxLength
    BY <1>9, <1>11, <1>12, <2>1
  <2>4. \A i \in 1 .. k : i \in 1 .. Len(shifted)
    BY <1>9, <1>10, SizeType
  <2>5. \A i \in 1 .. nb * BlockSize : shifted[i] \in Values /\ shifted[i] = Char(tot + i)
    BY <1>8, <1>9, <2>1, <2>4
  <2>6. GoesOn(shifted, nb, Len(one) * BlockSize) /\ nb \in Nat
    BY <1>8, <2>2, <2>3, <2>5 DEF GoesOn
  <2> QED
    BY <1>6, <1>14, <2>6, MoreBlocks
<1>16. m_tot_len' = BlockSize * Len(blocks')
  <2>1. nb \in Nat
    BY <1>8
  <2>2. BlockSize * (Len(blocks) + 1 + nb) = BlockSize * Len(blocks) + BlockSize + nb * BlockSize
    BY <1>2, <2>1, SizeType
  <2> QED
    BY <1>2, <1>9, <1>11, <1>15, <2>2
<1>17. DOMAIN blocks' = 1 .. Len(blocks')
  BY <1>15, LenProperties DEF MessageBlocks
<1>18. NothingLost'
  BY <1>12, <1>13, <1>15, <1>16, <1>17 DEF NothingLost, MessageBlocks
<1>19. TypeOK'
  BY <1>6, <1>10, <1>12, <1>13, <1>15 DEF PaddingInv, TypeOK, MessageBlocks
<1> QED
  BY <1>1, <1>6, <1>18, <1>19 DEF PaddingInv, DigestsPaddedMessage

(***************************************************************************)
(* final().  nb blocks hold what m_block has, 0x80, w zeros, four zeros    *)
(* more and the length.                                                    *)
(***************************************************************************)
Fill(len, nb) == nb * BlockSize - 9 - len

LEMMA PaddingFits ==
    ASSUME NEW len \in 0 .. BlockSize - 1
    PROVE  /\ PaddingBlocks(len) \in {1, 2}
           /\ Fill(len, PaddingBlocks(len)) \in 0 .. BlockSize - 1
           /\ PaddingBlocks(len) = 1 => len <= BlockSize - 9
           /\ PaddingBlocks(len) = 2 => len > BlockSize - 9
<1>1. len % BlockSize = len
  BY RemainderSmall, SizeType
<1>2. CASE BlockSize - 9 < len
  BY <1>1, <1>2, SizeType DEF PaddingBlocks, Fill
<1>3. CASE ~(BlockSize - 9 < len)
  BY <1>1, <1>3, SizeType DEF PaddingBlocks, Fill
<1> QED
  BY <1>2, <1>3

\* There is one number of zeros that makes up whole blocks.
LEMMA ZerosUnique ==
    ASSUME NEW len \in 0 .. BlockSize - 1, NEW L \in Nat, NEW nb, nb = PaddingBlocks(len),
           NEW z \in 0 .. BlockSize - 1
    PROVE  (L * BlockSize + len + 9 + z) % BlockSize = 0 <=> z = Fill(len, nb)
<1>1. PICK B \in Nat \ {0} : B = BlockSize /\ B >= 9
  BY SizeType
<1>2. PICK before \in Nat : before = L * B
  BY <1>1, TimesType
<1>3. /\ nb \in {1, 2} /\ Fill(len, nb) = nb * B - 9 - len
      /\ nb = 1 => len <= B - 9
      /\ nb = 2 => len > B - 9
  BY <1>1, PaddingFits DEF Fill
<1>4. L + nb \in Nat /\ (L + nb) * B = before + nb * B
  <2>1. CASE nb = 1
    BY <1>1, <1>2, <2>1
  <2>2. CASE nb = 2
    BY <1>1, <1>2, <2>2
  <2> QED
    BY <1>3, <2>1, <2>2
<1>5. ASSUME z = Fill(len, nb) PROVE (before + len + 9 + z) % B = 0
  <2>1. before + len + 9 + z = (L + nb) * B
    BY <1>1, <1>3, <1>4, <1>5
  <2> QED
    BY <1>4, <2>1, Multiple
<1>6. ASSUME (before + len + 9 + z) % B = 0 PROVE z = Fill(len, nb)
  <2>1. PICK n \in Nat : n = before + len + 9 + z
    BY <1>1
  <2>2. PICK q \in Nat : n = q * B
    <3>1. n % B = 0
      BY <1>6, <2>1
    <3>2. n \div B \in Nat /\ n = (n \div B) * B + (n % B)
      BY Division
    <3>3. PICK p \in Nat : p = n \div B
      BY <3>2
    <3>4. PICK pB \in Nat : pB = p * B
      BY TimesType
    <3>5. n = pB
      BY <3>1, <3>2, <3>3, <3>4
    <3> QED
      BY <3>4, <3>5
  <2>3. len + 9 + z > (nb - 1) * B /\ len + 9 + z < (nb + 1) * B
    BY <1>1, <1>3
  <2>4. /\ (L + nb - 1) * B = before + (nb - 1) * B
        /\ (L + nb - 1 + 2) * B = before + (nb + 1) * B
    <3>1. CASE nb = 1
      BY <1>1, <1>2, <3>1
    <3>2. CASE nb = 2
      BY <1>1, <1>2, <3>2
    <3> QED
      BY <1>3, <3>1, <3>2
  <2>5. L + nb - 1 \in Int /\ q \in Int /\ (nb - 1) * B \in Int /\ (nb + 1) * B \in Int
    BY <1>1, <1>3
  <2>6. q * B > (L + nb - 1) * B /\ q * B < (L + nb - 1 + 2) * B
    BY <1>1, <2>1, <2>2, <2>3, <2>4, <2>5
  <2>7. q = L + nb - 1 + 1
    BY <2>5, <2>6, QuotientUnique
  <2>8. q = L + nb
    BY <1>3, <2>7
  <2>9. before + len + 9 + z = before + nb * B /\ nb * B \in Nat
    <3>1. n = before + nb * B
      BY <1>4, <2>2, <2>8
    <3> QED
      BY <1>1, <1>3, <2>1, <3>1
  <2> QED
    BY <1>1, <1>3, <2>9
<1> QED
  BY <1>1, <1>2, <1>5, <1>6

LEMMA ZerosBytes ==
    ASSUME NEW n \in Nat
    PROVE  /\ Zeros(n) \in Seq(Values) /\ Len(Zeros(n)) = n
           /\ \A i \in 1 .. n : Zeros(n)[i] = 0
<1>1. Zeros(n) \in [1 .. n -> Values]
  BY DEF Zeros, Values
<1> QED
  BY <1>1, FunctionIsSeq DEF Zeros

LEMMA UnpackBytes ==
    ASSUME NEW v \in Nat
    PROVE  Unpack32(v) \in Seq(Values) /\ Len(Unpack32(v)) = 4
<1>1. /\ (v \div 16777216) % 256 \in 0 .. 255 /\ (v \div 65536) % 256 \in 0 .. 255
      /\ (v \div 256) % 256 \in 0 .. 255 /\ v % 256 \in 0 .. 255
  OBVIOUS
<1>2. \A x \in 0 .. 255 : x \in Values
  BY DEF Values
<1> QED
  BY <1>1, <1>2 DEF Unpack32

\* The shape of padded bytes: n of s, 0x80, zeros, and u in the last four of all.
Shape(r, s, n, u, all) ==
    \A k \in 1 .. all :
        r[k] = IF k <= n THEN s[k]
               ELSE IF k <= n + 1 THEN 128
               ELSE IF k <= all - 4 THEN 0
               ELSE u[k - (all - 4)]

LEMMA OneByte == <<128>> \in Seq(Values) /\ Len(<<128>>) = 1 /\ <<128>>[1] = 128
<1>1. 128 \in Values
  BY DEF Values
<1> QED
  BY <1>1

\* n bytes.
Run(s, n) == n \in Nat /\ s \in Seq(Values) /\ Len(s) = n

\* r is the a bytes of s and the b bytes of t.
Joins(r, s, a, t, b) ==
    /\ Run(r, a + b)
    /\ \A i \in 1 .. a + b : r[i] = IF i <= a THEN s[i] ELSE t[i - a]

LEMMA ConcatBytes ==
    ASSUME NEW s, NEW t, NEW a, NEW b, Run(s, a), Run(t, b)
    PROVE  Joins(s \o t, s, a, t, b)
<1>1. /\ s \o t \in Seq(Values)
      /\ Len(s \o t) = Len(s) + Len(t)
      /\ \A i \in 1 .. Len(s) + Len(t) :
           (s \o t)[i] = IF i <= Len(s) THEN s[i] ELSE t[i - Len(s)]
  BY ConcatProperties DEF Run
<1> QED
  BY <1>1 DEF Run, Joins

\* A message of n bytes, 0x80, w + 4 zeros and four bytes of length.
LEMMA PaddedParts ==
    ASSUME NEW n \in Nat, n <= MaxLength, NEW w \in Nat, NEW u \in Seq(Values), Len(u) = 4,
           NEW all \in Nat, all = n + 9 + w
    PROVE  /\ Run(((Message(0, n) \o <<128>>) \o Zeros(w + 4)) \o u, all)
           /\ Shape(((Message(0, n) \o <<128>>) \o Zeros(w + 4)) \o u,
                    Message(0, n), n, u, all)
<1>1. PICK m \in Seq(Values) :
        m = Message(0, n) /\ Len(m) = n
  <2>1. 0 \in Nat /\ 0 + n <= MaxLength
    OBVIOUS
  <2> QED
    BY <2>1, MessageBytes
<1>2. PICK o \in Seq(Values) : o = <<128>> /\ Len(o) = 1 /\ o[1] = 128
  BY OneByte, Zenon
<1>3. PICK zs \in Seq(Values) :
        zs = Zeros(w + 4) /\ Len(zs) = w + 4 /\ \A i \in 1 .. w + 4 : zs[i] = 0
  <2>1. w + 4 \in Nat
    OBVIOUS
  <2> QED
    BY <2>1, ZerosBytes
<1>4. /\ Run(m \o o, n + 1)
      /\ \A i \in 1 .. n + 1 : (m \o o)[i] = IF i <= n THEN m[i] ELSE o[i - n]
  <2>1. Run(m, n) /\ Run(o, 1)
    BY <1>1, <1>2 DEF Run
  <2>2. Joins(m \o o, m, n, o, 1)
    BY <2>1, ConcatBytes
  <2> QED
    BY <2>2 DEF Joins
<1>5. PICK p : p = m \o o
  OBVIOUS
<1>6. PICK a \in Nat : a = n + 1
  OBVIOUS
<1>7. PICK c \in Nat : c = w + 4
  OBVIOUS
<1>8. /\ Run(p \o zs, a + c)
      /\ \A i \in 1 .. a + c : (p \o zs)[i] = IF i <= a THEN p[i] ELSE zs[i - a]
  <2>1. Run(p, a) /\ Run(zs, c)
    BY <1>3, <1>4, <1>5, <1>6, <1>7 DEF Run
  <2>2. Joins(p \o zs, p, a, zs, c)
    BY <2>1, ConcatBytes
  <2> QED
    BY <2>2 DEF Joins
<1>9. PICK r : r = p \o zs
  OBVIOUS
<1>10. PICK d \in Nat : d = a + c
  OBVIOUS
<1>11. /\ Run(r \o u, d + 4)
       /\ \A i \in 1 .. d + 4 : (r \o u)[i] = IF i <= d THEN r[i] ELSE u[i - d]
  <2>1. Run(r, d) /\ Run(u, 4)
    BY <1>8, <1>9, <1>10 DEF Run
  <2>2. Joins(r \o u, r, d, u, 4)
    BY <2>1, ConcatBytes
  <2> QED
    BY <2>2 DEF Joins
<1>12. all = d + 4 /\ d = all - 4 /\ d = n + 1 + (w + 4)
  BY <1>6, <1>7, <1>10
<1>13. ASSUME NEW k \in 1 .. all
       PROVE  (r \o u)[k] = IF k <= n THEN m[k]
                            ELSE IF k <= n + 1 THEN 128
                            ELSE IF k <= d THEN 0
                            ELSE u[k - d]
  <2>1. k <= d => k \in 1 .. a + c
    BY <1>10
  <2>2. (r \o u)[k] = IF k <= d THEN r[k] ELSE u[k - d]
    BY <1>11, <1>12
  <2>3. k <= d => r[k] = IF k <= a THEN p[k] ELSE zs[k - a]
    BY <1>8, <1>9, <2>1
  <2>4. k <= a => p[k] = IF k <= n THEN m[k] ELSE 128
    <3>1. k <= n => k \in 1 .. n
      OBVIOUS
    <3>2. k <= a => k \in 1 .. n + 1 /\ (k <= n \/ k - n = 1)
      BY <1>6
    <3> QED
      BY <1>1, <1>2, <1>4, <1>5, <3>1, <3>2
  <2>5. k <= d /\ ~(k <= a) => zs[k - a] = 0
    <3>1. k <= d /\ ~(k <= a) => k - a \in 1 .. w + 4
      BY <1>6, <1>12
    <3> QED
      BY <1>3, <3>1
  <2>6. (k <= n => k <= a) /\ (k <= a => k <= d)
    BY <1>6, <1>12
  <2> QED
    BY <1>6, <2>2, <2>3, <2>4, <2>5, <2>6
<1>14. r \o u = ((Message(0, n) \o <<128>>) \o Zeros(w + 4)) \o u
  BY <1>1, <1>2, <1>3, <1>5, <1>9
<1>15. Shape(r \o u, m, n, u, all)
  BY <1>12, <1>13 DEF Shape
<1> QED
  BY <1>1, <1>11, <1>12, <1>14, <1>15

LEMMA PaddedBytes ==
    ASSUME length \in 0 .. MaxLength, NEW len \in 0 .. BlockSize - 1, NEW L \in Nat,
           length = L * BlockSize + len, NEW nb, nb = PaddingBlocks(len),
           NEW all, all = (L + nb) * BlockSize
    PROVE  /\ Run(Padded, all)
           /\ Shape(Padded, Message(0, length), length, Unpack32(length * 8), all)
<1> DEFINE zeros == CHOOSE z \in 0 .. BlockSize - 1 : (length + 9 + z) % BlockSize = 0
<1>1. Fill(len, nb) \in 0 .. BlockSize - 1 /\ nb \in {1, 2}
  BY PaddingFits
<1>2. \A z \in 0 .. BlockSize - 1 :
        (length + 9 + z) % BlockSize = 0 <=> z = Fill(len, nb)
  BY ZerosUnique
<1>3. zeros = Fill(len, nb)
  BY <1>1, <1>2
<1>4. Padded = ((Message(0, length) \o <<128>>) \o Zeros(zeros + 4)) \o Unpack32(length * 8)
  BY DEF Padded
<1> HIDE DEF zeros
<1>5. zeros \in Nat
  BY <1>1, <1>3, SizeType
<1>6. length \in Nat /\ length <= MaxLength /\ length * 8 \in Nat
  BY SizeType
<1>7. all \in Nat /\ all = length + 9 + zeros
  <2>1. PICK before \in Nat : before = L * BlockSize
    BY SizeType, TimesType
  <2>2. PICK more \in Nat : more = nb * BlockSize
    BY <1>1, SizeType, TimesType
  <2>3. (L + nb) * BlockSize = before + more
    BY <1>1, <2>1, <2>2, SizeType
  <2>4. before + more = length + 9 + zeros
    BY <1>3, <2>1, <2>2, SizeType DEF Fill
  <2> QED
    BY <2>3, <2>4
<1>8. Unpack32(length * 8) \in Seq(Values) /\ Len(Unpack32(length * 8)) = 4
  BY <1>6, UnpackBytes
<1>9. PICK n \in Nat, w \in Nat, u \in Seq(Values), m \in Nat :
        n = length /\ w = zeros /\ u = Unpack32(length * 8) /\ m = all
  BY <1>5, <1>6, <1>7, <1>8
<1>10. n <= MaxLength /\ Len(u) = 4 /\ m = n + 9 + w
  BY <1>6, <1>7, <1>8, <1>9
<1>11. /\ Run(((Message(0, n) \o <<128>>) \o Zeros(w + 4)) \o u, m)
       /\ Shape(((Message(0, n) \o <<128>>) \o Zeros(w + 4)) \o u, Message(0, n), n, u, m)
  BY <1>10, PaddedParts
<1> QED
  BY <1>4, <1>9, <1>11

\* What final() makes of m_block.
LEMMA FinalBytes ==
    ASSUME NEW block \in [1 .. 2 * BlockSize -> Values], NEW len \in 0 .. BlockSize - 1,
           NEW nb, nb = PaddingBlocks(len), NEW u \in Seq(Values), Len(u) = 4
    PROVE  LET zeroed == Copy(block, len, Zeros(nb * BlockSize - len))
               marked == Copy(zeroed, len, <<128>>)
               padded == Copy(marked, nb * BlockSize - 4, u)
           IN  /\ padded \in [1 .. 2 * BlockSize -> Values]
               /\ Shape(padded, block, len, u, nb * BlockSize)
<1>1. PICK B \in Nat \ {0} : B = BlockSize /\ B >= 9
  BY SizeType
<1>2. PICK all \in Nat :
        /\ all = nb * BlockSize /\ all <= 2 * B /\ len + 9 <= all
        /\ all - 4 \in Nat /\ all - len \in Nat
  <2>1. nb \in {1, 2} /\ (nb = 1 => len <= B - 9)
    BY <1>1, PaddingFits
  <2> QED
    BY <1>1, <2>1
<1>3. len \in Nat
  OBVIOUS
<1>4. PICK zs \in Seq(Values) :
        /\ zs = Zeros(all - len) /\ Len(zs) = all - len
        /\ \A i \in 1 .. all - len : zs[i] = 0
  BY <1>2, ZerosBytes
<1>5. PICK o \in Seq(Values) : o = <<128>> /\ Len(o) = 1 /\ o[1] = 128
  <2>1. PICK o : o = <<128>>
    OBVIOUS
  <2>2. o \in Seq(Values) /\ Len(o) = 1 /\ o[1] = 128
    BY <2>1, OneByte
  <2> QED
    BY <2>1, <2>2
<1>6. PICK zeroed \in [1 .. 2 * BlockSize -> Values] :
        /\ zeroed = Copy(block, len, zs)
        /\ \A i \in 1 .. 2 * BlockSize :
             zeroed[i] = IF len < i /\ i <= len + Len(zs) THEN zs[i - len] ELSE block[i]
  BY <1>3, CopyBytes
<1>7. PICK marked \in [1 .. 2 * BlockSize -> Values] :
        /\ marked = Copy(zeroed, len, o)
        /\ \A i \in 1 .. 2 * BlockSize :
             marked[i] = IF len < i /\ i <= len + Len(o) THEN o[i - len] ELSE zeroed[i]
  BY <1>3, CopyBytes
<1>8. PICK padded \in [1 .. 2 * BlockSize -> Values] :
        /\ padded = Copy(marked, all - 4, u)
        /\ \A i \in 1 .. 2 * BlockSize :
             padded[i] = IF all - 4 < i /\ i <= all - 4 + Len(u)
                         THEN u[i - (all - 4)] ELSE marked[i]
  <2>1. PICK at \in Nat : at = all - 4
    BY <1>2
  <2>2. /\ Copy(marked, at, u) \in [1 .. 2 * BlockSize -> Values]
        /\ \A i \in 1 .. 2 * BlockSize :
             Copy(marked, at, u)[i] = IF at < i /\ i <= at + Len(u)
                                      THEN u[i - at] ELSE marked[i]
    BY CopyBytes
  <2> QED
    BY <2>1, <2>2
<1>9. ASSUME NEW j \in 1 .. all
      PROVE  padded[j] = IF j <= len THEN block[j]
                         ELSE IF j <= len + 1 THEN 128
                         ELSE IF j <= all - 4 THEN 0
                         ELSE u[j - (all - 4)]
  <2>1. j \in 1 .. 2 * BlockSize
    BY <1>1, <1>2
  <2>2. padded[j] = IF all - 4 < j THEN u[j - (all - 4)] ELSE marked[j]
    <3>1. j <= all - 4 + 4
      BY <1>2
    <3> QED
      BY <1>8, <2>1, <3>1
  <2>3. marked[j] = IF j = len + 1 THEN 128 ELSE zeroed[j]
    BY <1>5, <1>7, <2>1
  <2>4. zeroed[j] = IF len < j THEN 0 ELSE block[j]
    <3>1. len < j => j - len \in 1 .. all - len /\ j <= len + (all - len)
      BY <1>2
    <3> QED
      BY <1>4, <1>6, <2>1, <3>1
  <2> QED
    BY <1>2, <2>2, <2>3, <2>4
<1>10. Shape(padded, block, len, u, all)
  BY <1>9 DEF Shape
<1> QED
  BY <1>2, <1>4, <1>5, <1>6, <1>7, <1>8, <1>10

LEMMA FinalPadding == ASSUME PaddingInv, Final PROVE PaddingInv'
<1>1. /\ ~done /\ m_len \in 0 .. BlockSize - 1 /\ m_tot_len \in Nat
      /\ length \in 0 .. MaxLength /\ length = m_tot_len + m_len
      /\ m_block \in [1 .. 2 * BlockSize -> Values]
      /\ blocks \in Seq(Seq(Values)) /\ Len(blocks) \in Nat
      /\ m_tot_len = BlockSize * Len(blocks)
      /\ \A b \in 1 .. Len(blocks) : blocks[b] = Message((b - 1) * BlockSize, BlockSize)
  <2>1. ~done
    BY DEF Final
  <2>2. DOMAIN blocks = 1 .. Len(blocks) /\ Len(blocks) \in Nat
    BY LenProperties DEF PaddingInv, TypeOK
  <2> QED
    BY <2>1, <2>2, SizeType DEF PaddingInv, TypeOK, NothingLost
<1>2. PICK len \in 0 .. BlockSize - 1, L \in Nat, tot \in Nat :
        len = m_len /\ L = Len(blocks) /\ tot = m_tot_len
  BY <1>1
<1>3. tot = L * BlockSize /\ length = L * BlockSize + len
  BY <1>1, <1>2, SizeType
<1>l. length = tot + len /\ len \in Nat /\ length \in Nat /\ tot <= length
  BY <1>1, <1>2, SizeType
<1>4. PICK nb \in {1, 2} : nb = PaddingBlocks(len)
  BY PaddingFits
<1>5. PICK u \in Seq(Values) : u = Unpack32(length * 8) /\ Len(u) = 4
  <2>1. length * 8 \in Nat
    BY <1>1
  <2> QED
    BY <2>1, UnpackBytes
<1>6. PICK padded \in [1 .. 2 * BlockSize -> Values] :
        /\ padded = Copy(Copy(Copy(m_block, len, Zeros(nb * BlockSize - len)), len, <<128>>),
                         nb * BlockSize - 4, u)
        /\ Shape(padded, m_block, len, u, nb * BlockSize)
  <2>1. PICK block \in [1 .. 2 * BlockSize -> Values] : block = m_block
    BY <1>1
  <2> DEFINE result == Copy(Copy(Copy(block, len, Zeros(nb * BlockSize - len)), len, <<128>>),
                            nb * BlockSize - 4, u)
  <2>2. /\ result \in [1 .. 2 * BlockSize -> Values]
        /\ Shape(result, block, len, u, nb * BlockSize)
    BY <1>4, <1>5, FinalBytes
  <2> HIDE DEF result
  <2>3. result = Copy(Copy(Copy(m_block, len, Zeros(nb * BlockSize - len)), len, <<128>>),
                      nb * BlockSize - 4, u)
    BY <2>1 DEF result
  <2> QED
    BY <2>1, <2>2, <2>3
<1>7. /\ m_block' = padded /\ blocks' = blocks \o Blocks(padded, nb) /\ done' = TRUE
      /\ UNCHANGED <<length, m_len, m_tot_len>>
  <2>1. (m_tot_len + m_len) * 8 = length * 8
    BY <1>1
  <2> QED
    BY <1>2, <1>4, <1>5, <1>6, <2>1 DEF Final
<1>8. \A j \in 1 .. len : m_block[j] = Char(tot + j)
  <2>1. len \in 0 .. BlockSize /\ tot + len <= MaxLength
    BY <1>1, <1>2, SizeType
  <2>2. SubSeq(m_block, 1, len) = Message(tot, len)
    BY <1>1, <1>2 DEF PaddingInv, NothingLost
  <2> QED
    BY <1>1, <2>1, <2>2, HeldBytes
<1>9. PICK all \in Nat :
        /\ all = (L + nb) * BlockSize
        /\ Padded \in Seq(Values) /\ Len(Padded) = all
        /\ Shape(Padded, Message(0, length), length, u, all)
  <2>1. Run(Padded, (L + nb) * BlockSize)
        /\ Shape(Padded, Message(0, length), length, u, (L + nb) * BlockSize)
    BY <1>1, <1>3, <1>4, <1>5, PaddedBytes
  <2> QED
    BY <2>1 DEF Run
<1>m. \A k \in 1 .. length : Message(0, length)[k] = Char(k)
  <2>1. 0 \in Nat /\ length \in Nat /\ 0 + length <= MaxLength /\ \A k \in 1 .. length : 0 + k = k
    BY <1>1, SizeType
  <2> QED
    BY <2>1, MessageBytes
<1>10. PICK more \in Nat : more = nb * BlockSize /\ all = tot + more /\ more <= 2 * BlockSize
  <2>1. (L + nb) * BlockSize = L * BlockSize + nb * BlockSize
    BY SizeType
  <2> QED
    BY <1>3, <1>9, <2>1, SizeType
\* The padding goes on with the message where the blocks end.
<1>11. \A j \in 1 .. more : padded[j] = Padded[tot + j]
  <2> TAKE j \in 1 .. more
  <2>1. tot + j \in 1 .. all /\ length = tot + len /\ len \in Nat
    BY <1>l, <1>10
  <2>2. /\ tot + j <= length <=> j <= len
        /\ tot + j <= length + 1 <=> j <= len + 1
        /\ tot + j <= all - 4 <=> j <= more - 4
        /\ tot + j - (all - 4) = j - (more - 4)
    <3>1. all = tot + more /\ all - 4 = tot + (more - 4) /\ tot + j \in Int
      BY <1>10
    <3> QED
      BY <2>1, <3>1
  <2>3. Padded[tot + j] = IF j <= len THEN Char(tot + j)
                          ELSE IF j <= len + 1 THEN 128
                          ELSE IF j <= more - 4 THEN 0
                          ELSE u[j - (more - 4)]
    <3>1. j <= len => tot + j \in 1 .. length
      BY <2>1
    <3>2. PICK k \in 1 .. all : k = tot + j
      BY <2>1
    <3>3. Padded[k] = IF k <= length THEN Message(0, length)[k]
                      ELSE IF k <= length + 1 THEN 128
                      ELSE IF k <= all - 4 THEN 0
                      ELSE u[k - (all - 4)]
      BY <1>9 DEF Shape
    <3> QED
      BY <1>m, <2>2, <3>1, <3>2, <3>3
  <2>4. padded[j] = IF j <= len THEN m_block[j]
                    ELSE IF j <= len + 1 THEN 128
                    ELSE IF j <= more - 4 THEN 0
                    ELSE u[j - (more - 4)]
    BY <1>6, <1>10 DEF Shape
  <2>5. j <= len => j \in 1 .. len
    OBVIOUS
  <2> QED
    BY <1>8, <2>3, <2>4, <2>5
<1>12. PICK t :
         /\ t = Blocks(padded, nb) /\ t \in Seq(Seq(Values)) /\ Len(t) = nb
         /\ \A b \in 1 .. nb : /\ t[b] \in Seq(Values) /\ Len(t[b]) = BlockSize
                               /\ \A i \in 1 .. BlockSize :
                                    t[b][i] = padded[(b - 1) * BlockSize + i]
  <2>1. \A j \in 1 .. more : j \in 1 .. 2 * BlockSize
    BY <1>10, SizeType
  <2>2. \A j \in 1 .. nb * BlockSize : padded[j] \in Values
    BY <1>10, <2>1
  <2>3. nb \in Nat
    OBVIOUS
  <2>4. /\ Blocks(padded, nb) \in Seq(Seq(Values)) /\ Len(Blocks(padded, nb)) = nb
        /\ \A b \in 1 .. nb :
             /\ Blocks(padded, nb)[b] \in Seq(Values)
             /\ Len(Blocks(padded, nb)[b]) = BlockSize
             /\ \A i \in 1 .. BlockSize :
                  Blocks(padded, nb)[b][i] = padded[(b - 1) * BlockSize + i]
    BY <2>2, <2>3, BlocksBytes
  <2> QED
    BY <2>4
<1>13. /\ blocks' \in Seq(Seq(Values)) /\ Len(blocks') = L + nb
       /\ \A b \in 1 .. L + nb : blocks'[b] = IF b <= L THEN blocks[b] ELSE t[b - L]
  <2>1. /\ blocks \o t \in Seq(Seq(Values))
        /\ Len(blocks \o t) = Len(blocks) + Len(t)
        /\ \A b \in 1 .. Len(blocks) + Len(t) :
             (blocks \o t)[b] = IF b <= Len(blocks) THEN blocks[b] ELSE t[b - Len(blocks)]
    <3>1. blocks \in Seq(Seq(Values)) /\ t \in Seq(Seq(Values))
      BY <1>1, <1>12
    <3> QED
      BY <3>1, ConcatProperties
  <2> QED
    BY <1>2, <1>7, <1>12, <2>1
<1>14. PICK s :
         /\ s = Blocks(Padded, L + nb) /\ s \in Seq(Seq(Values)) /\ Len(s) = L + nb
         /\ \A b \in 1 .. L + nb : /\ s[b] \in Seq(Values) /\ Len(s[b]) = BlockSize
                                   /\ \A i \in 1 .. BlockSize :
                                        s[b][i] = Padded[(b - 1) * BlockSize + i]
  <2>1. \A j \in 1 .. (L + nb) * BlockSize : Padded[j] \in Values
    BY <1>9, ElementOfSeq
  <2>2. PICK c \in Nat : c = L + nb
    OBVIOUS
  <2>r. PICK r : r = Blocks(Padded, c)
    OBVIOUS
  <2>3. /\ r \in Seq(Seq(Values)) /\ Len(r) = c
        /\ \A b \in 1 .. c : /\ r[b] \in Seq(Values) /\ Len(r[b]) = BlockSize
                             /\ \A i \in 1 .. BlockSize :
                                  r[b][i] = Padded[(b - 1) * BlockSize + i]
    <3>1. \A j \in 1 .. c * BlockSize : Padded[j] \in Values
      BY <2>1, <2>2, Zenon
    <3>2. PICK y : y = Padded
      OBVIOUS
    <3>3. \A j \in 1 .. c * BlockSize : y[j] \in Values
      BY <3>1, <3>2
    <3>4. /\ Blocks(y, c) \in Seq(Seq(Values)) /\ Len(Blocks(y, c)) = c
          /\ \A b \in 1 .. c :
               /\ Blocks(y, c)[b] \in Seq(Values) /\ Len(Blocks(y, c)[b]) = BlockSize
               /\ \A i \in 1 .. BlockSize : Blocks(y, c)[b][i] = y[(b - 1) * BlockSize + i]
      BY <3>3, BlocksBytes
    <3> QED
      BY <2>r, <3>2, <3>4, Zenon
  <2>4. /\ r = Blocks(Padded, L + nb) /\ r \in Seq(Seq(Values)) /\ Len(r) = L + nb
        /\ \A b \in 1 .. L + nb : /\ r[b] \in Seq(Values) /\ Len(r[b]) = BlockSize
                                  /\ \A i \in 1 .. BlockSize :
                                       r[b][i] = Padded[(b - 1) * BlockSize + i]
    BY <2>2, <2>r, <2>3, Zenon
  <2> QED
    BY <2>4, Zenon
<1>15. ASSUME NEW b \in 1 .. L + nb
       PROVE  /\ Len(blocks'[b]) = BlockSize
              /\ \A i \in 1 .. BlockSize : blocks'[b][i] = s[b][i]
  <2>1. CASE b <= L
    <3>1. b \in 1 .. L /\ 0 \in Nat /\ 0 + b - 1 = b - 1
      BY <2>1
    <3>2. \A i \in 1 .. BlockSize :
            /\ (b - 1) * BlockSize + i \in 1 .. tot
            /\ (b - 1) * BlockSize \in Nat
            /\ (b - 1) * BlockSize + BlockSize <= 0 * BlockSize + tot
      BY <1>3, <3>1, BlockIndex, SizeType
    <3>3. PICK from \in Nat : from = (b - 1) * BlockSize /\ from + BlockSize <= tot
      <4>1. 1 \in 1 .. BlockSize
        BY SizeType
      <4> QED
        BY <3>2, <4>1, SizeType
    <3>4. from + BlockSize <= MaxLength
      BY <1>1, <1>2, <3>3, SizeType
    <3>5. /\ Len(Message(from, BlockSize)) = BlockSize
          /\ \A i \in 1 .. BlockSize : Message(from, BlockSize)[i] = Char(from + i)
      BY <3>4, MessageBytes, SizeType
    <3>6. blocks'[b] = Message(from, BlockSize)
      BY <1>1, <1>2, <1>13, <2>1, <3>1, <3>3
    <3>7. \A i \in 1 .. BlockSize : from + i \in 1 .. all /\ from + i <= length
      <4>1. tot <= all /\ tot <= length
        BY <1>l, <1>10
      <4>2. \A i \in 1 .. BlockSize : from + i \in Nat /\ 1 <= from + i /\ from + i <= tot
        BY <3>3, SizeType
      <4> QED
        BY <1>1, <4>1, <4>2
    <3>8. \A i \in 1 .. BlockSize : s[b][i] = Char(from + i)
      <4>1. \A i \in 1 .. BlockSize : from + i \in 1 .. length
        BY <1>1, <3>3, <3>7
      <4>2. \A i \in 1 .. BlockSize : Padded[from + i] = Char(from + i)
        BY <1>9, <1>m, <3>7, <4>1 DEF Shape
      <4> QED
        BY <1>14, <3>3, <4>2
    <3> QED
      BY <3>5, <3>6, <3>8
  <2>2. CASE ~(b <= L)
    <3>1. PICK c \in 1 .. nb : c = b - L /\ L + c - 1 = b - 1
      BY <2>2
    <3>2. blocks'[b] = t[c]
      BY <1>13, <2>2, <3>1
    <3>3. nb \in Nat
      OBVIOUS
    <3>4. \A i \in 1 .. BlockSize :
            /\ (c - 1) * BlockSize + i \in 1 .. more
            /\ tot + ((c - 1) * BlockSize + i) = (b - 1) * BlockSize + i
      BY <1>3, <1>10, <3>1, <3>3, BlockIndex, SizeType
    <3>5. \A i \in 1 .. BlockSize : t[c][i] = Padded[(b - 1) * BlockSize + i]
      BY <1>11, <1>12, <3>4
    <3> QED
      BY <1>12, <1>14, <3>2, <3>5
  <2> QED
    BY <2>1, <2>2
<1>16. blocks' = s
  <2>1. Len(blocks') = Len(s) /\ blocks' \in Seq(Seq(Values)) /\ s \in Seq(Seq(Values))
    BY <1>13, <1>14
  <2>2. \A b \in 1 .. Len(blocks') :
          /\ Len(blocks'[b]) = BlockSize /\ Len(s[b]) = BlockSize
          /\ \A i \in 1 .. BlockSize : blocks'[b][i] = s[b][i]
    BY <1>13, <1>14, <1>15
  <2> QED
    BY <2>1, <2>2, SameBlocks
<1>17. Len(Padded) \div BlockSize = L + nb
  <2>1. L + nb \in Nat
    OBVIOUS
  <2> QED
    BY <1>9, <2>1, Multiple, SizeType
<1>18. DigestsPaddedMessage'
  <2>1. Padded' = Padded
    BY <1>7 DEF Padded
  <2> QED
    BY <1>14, <1>16, <1>17, <2>1 DEF DigestsPaddedMessage
<1>19. TypeOK' /\ NothingLost'
  BY <1>7, <1>13 DEF PaddingInv, TypeOK, NothingLost
<1> QED
  BY <1>18, <1>19 DEF PaddingInv

LEMMA NextPadding == ASSUME PaddingInv, [Next]_vars PROVE PaddingInv'
<1>1. ASSUME NEW n \in ChunkSizes, Update(n) PROVE PaddingInv'
  <2>1. n \in Nat
    BY PaddingAssumption
  <2> QED
    BY <1>1, <2>1, UpdateFits, UpdateDigests
<1>2. CASE UNCHANGED vars
  BY <1>2 DEF vars, PaddingInv, TypeOK, NothingLost, DigestsPaddedMessage, Padded
<1> QED
  BY <1>1, <1>2, FinalPadding DEF Next

LEMMA PaddingInvariance == Spec => []PaddingInv
<1>1. PaddingInv /\ [Next]_vars => PaddingInv'
  BY NextPadding
<1> QED
  BY InitPadding, <1>1, PTL DEF Spec

\* The buffer, its length and the count of bytes stay within their bounds,
\* whatever chunks update() is called with.
THEOREM PaddingTypeCorrect == Spec => []TypeOK
<1>1. PaddingInv => TypeOK
  BY DEF PaddingInv
<1> QED
  BY PaddingInvariance, <1>1, PTL

\* For every block size from 9 bytes, every message and every way to cut it
\* into chunks, the blocks digested so far and the bytes held in m_block are
\* the message (sha256.cpp:75-96).
THEOREM UpdateLosesNothing == Spec => []NothingLost
<1>1. PaddingInv => NothingLost
  BY DEF PaddingInv
<1> QED
  BY PaddingInvariance, <1>1, PTL

\* For every block size from 9 bytes, every message and every way to cut it
\* into chunks, what final() has had digested is the padded message, block
\* for block (sha256.cpp:98-111).
THEOREM FinalDigestsPadded == Spec => []DigestsPaddedMessage
<1>1. PaddingInv => DigestsPaddedMessage
  BY DEF PaddingInv
<1> QED
  BY PaddingInvariance, <1>1, PTL
=============================================================================
