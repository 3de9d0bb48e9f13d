------------------------ MODULE ResponseWriterProofs ------------------------
(***************************************************************************)
(* Proofs about ResponseWriter, for any number of responses, of pieces and *)
(* of io threads: its type invariant, that no wake-up is lost, that with   *)
(* one io thread no response is dropped unsent, and that the peer receives *)
(* the responses whole and in order as long as none is written again while *)
(* it is on its way.                                                       *)
(*                                                                         *)
(* The last two need to know what is in the queue (QueueInv: always the    *)
(* last responses, in order), that a thread that is alone leaves a queue   *)
(* whose front has been written (FrontInv), and what a run without a       *)
(* repeated write looks like (OrderInv: one write at a time, of the front, *)
(* and the peer has exactly what was popped and the pieces of that one).   *)
(***************************************************************************)
EXTENDS ResponseWriter, SequenceTheorems, TLAPS

\* How many responses have left the queue.
Popped == posted - Len(queue)

QueueInv ==
    \A i \in 1..Len(queue) : queue[i] = Popped + i

FrontInv ==
    concurrency = 1 /\ poster = "idle" /\ strand = "idle" /\ queue # <<>>
        => Head(queue) \in started

OrderInv ==
    ~reissued /\ ~broken =>
        /\ Len(writes) <= 1
        /\ writes = <<>> => started = 1..Popped /\ received = Popped * Chunks
        /\ writes # <<>> =>
            /\ queue # <<>>
            /\ writes[1].response = Popped + 1
            /\ started = 1..(Popped + 1)
            /\ received = Popped * Chunks + writes[1].sent

WriterInv ==
    /\ TypeOK /\ QueueInv /\ FrontInv /\ OrderInv
    /\ NoStall /\ NoneSkipped /\ InOrderUnlessReissued

-----------------------------------------------------------------------------
(* Sequences.                                                              *)

LEMMA RemoveAtProperties ==
    ASSUME NEW S, NEW q \in Seq(S), NEW w \in DOMAIN q
    PROVE  RemoveAt(q, w) \in Seq(S) /\ Len(RemoveAt(q, w)) = Len(q) - 1
<1>1. w \in 1..Len(q) /\ Len(q) \in Nat
  OBVIOUS
<1>2. SubSeq(q, 1, w - 1) \in Seq(S) /\ Len(SubSeq(q, 1, w - 1)) = w - 1
  OBVIOUS
<1>3. SubSeq(q, w + 1, Len(q)) \in Seq(S) /\ Len(SubSeq(q, w + 1, Len(q))) = Len(q) - w
  OBVIOUS
<1> DEFINE front == SubSeq(q, 1, w - 1)
           back  == SubSeq(q, w + 1, Len(q))
<1>4. front \o back \in Seq(S) /\ Len(front \o back) = Len(front) + Len(back)
  <2> HIDE DEF front, back
  <2> QED
    BY DEF front, back
<1>5. RemoveAt(q, w) = front \o back
  BY DEF RemoveAt
<1>6. Len(front) = w - 1 /\ Len(back) = Len(q) - w
  OBVIOUS
<1> QED
  <2> HIDE DEF front, back
  <2> QED
    BY <1>1, <1>4, <1>5, <1>6

LEMMA OneElement ==
    ASSUME NEW S, NEW q \in Seq(S), Len(q) <= 1, NEW w \in DOMAIN q
    PROVE  Len(q) = 1 /\ w = 1
<1>1. Len(q) \in Nat /\ w \in 1..Len(q)
  OBVIOUS
<1>2. \A n \in Nat : n <= 1 /\ w \in 1..n => n = 1 /\ w = 1
  OBVIOUS
<1> QED
  BY <1>1, <1>2

LEMMA ToSetTail ==
    ASSUME NEW S, NEW q \in Seq(S), q # <<>>
    PROVE  ToSet(q) = {Head(q)} \cup ToSet(Tail(q))
<1>1. ASSUME NEW i \in 1..Len(q) PROVE q[i] = Head(q) \/ q[i] \in ToSet(Tail(q))
  <2>1. CASE i = 1
    BY <2>1
  <2>2. CASE i # 1
    <3>1. i - 1 \in DOMAIN Tail(q) /\ Tail(q)[i - 1] = q[i]
      BY <2>2
    <3> QED
      BY <3>1 DEF ToSet
  <2> QED
    BY <2>2
<1>2. ASSUME NEW i \in DOMAIN Tail(q) PROVE Tail(q)[i] \in ToSet(q)
  BY DEF ToSet
<1>3. Head(q) \in ToSet(q)
  BY DEF ToSet
<1> QED
  BY <1>1 DEF ToSet

LEMMA ToSetAppend ==
    ASSUME NEW S, NEW q \in Seq(S), NEW e \in S
    PROVE  ToSet(Append(q, e)) = ToSet(q) \cup {e}
<1>1. ToSet(Append(q, e)) = {Append(q, e)[i] : i \in 1..(Len(q) + 1)}
  BY DEF ToSet
<1>2. \A i \in 1..Len(q) : Append(q, e)[i] = q[i]
  BY AppendProperties
<1>3. Append(q, e)[Len(q) + 1] = e
  BY AppendProperties
<1> QED
  BY <1>3 DEF ToSet

-----------------------------------------------------------------------------
(* What the invariant says of the front of the queue and of the pieces.    *)

LEMMA FrontOfQueue ==
    ASSUME TypeOK, QueueInv
    PROVE  /\ Len(queue) \in Nat /\ posted \in Nat /\ Popped \in 0..posted
           /\ queue # <<>> => Head(queue) = Popped + 1 /\ Head(queue) \in 1..posted
<1>1. Len(queue) \in Nat /\ posted \in Nat
  BY DEF TypeOK
<1>2. CASE queue = <<>>
  BY <1>1, <1>2 DEF Popped
<1>3. CASE queue # <<>>
  <2>1. Len(queue) >= 1 /\ Head(queue) = queue[1] /\ queue[1] \in 1..posted
    BY <1>3 DEF TypeOK
  <2>2. queue[1] = Popped + 1
    BY <2>1 DEF QueueInv
  <2> QED
    BY <1>1, <2>1, <2>2 DEF Popped
<1> QED
  BY <1>2, <1>3

\* The pieces of the first responses, and of one more.
LEMMA Places ==
    ASSUME NEW n \in Nat, NEW r \in 1..n, NEW k \in 0..(Chunks - 1)
    PROVE  /\ (r - 1) * Chunks + k + 1 \in 1..(n * Chunks)
           /\ (r - 1) * Chunks + Chunks = r * Chunks
<1>1. Chunks \in Nat \ {0}
  BY WriterAssumption
<1>2. (r - 1) * Chunks + Chunks = r * Chunks
  BY <1>1
<1>3. (n - r) * Chunks >= 0 /\ (r - 1) * Chunks >= 0
  BY <1>1
<1>4. n * Chunks = r * Chunks + (n - r) * Chunks
  BY <1>1
<1> QED
  BY <1>1

-----------------------------------------------------------------------------
(* The invariant holds initially and every action preserves it.            *)

LEMMA WriterInit == Init => WriterInv
<1> SUFFICES ASSUME Init PROVE WriterInv
  OBVIOUS
<1> USE DEF Init
<1>1. TypeOK
  <2>1. MaxPosts * Chunks \in Nat
    BY WriterAssumption
  <2>2. 0 \in 0..MaxPosts /\ 0 \in 0..(MaxPosts * Chunks)
    BY WriterAssumption
  <2>3. queue \in Seq(1..posted) /\ writes \in Seq(Calls)
    OBVIOUS
  <2>4. started \subseteq 1..posted /\ received \in 0..(MaxPosts * Chunks)
    BY <2>2
  <2> QED
    BY <2>2, <2>3 DEF TypeOK
<1>2. QueueInv /\ FrontInv /\ NoStall /\ NoneSkipped /\ InOrderUnlessReissued
  BY DEF QueueInv, FrontInv, NoStall, NoneSkipped, InOrderUnlessReissued
<1>3. OrderInv
  BY WriterAssumption DEF OrderInv, Popped
<1> QED
  BY <1>1, <1>2, <1>3 DEF WriterInv

\* A response is pushed: everything but the queue and what may be in it is
\* as before.
LEMMA PushKeeps ==
    ASSUME WriterInv, Push
    PROVE  WriterInv'
<1> USE DEF WriterInv, Push
<1>1. /\ posted \in Nat /\ posted' = posted + 1 /\ posted' \in 0..MaxPosts
      /\ Len(queue) \in Nat
  BY WriterAssumption DEF TypeOK
<1>2. /\ queue \in Seq(1..posted') /\ posted + 1 \in 1..posted'
  BY DEF TypeOK
<1>3. /\ queue' \in Seq(1..posted') /\ Len(queue') = Len(queue) + 1 /\ queue' # <<>>
      /\ \A i \in 1..Len(queue) : queue'[i] = queue[i]
      /\ queue'[Len(queue) + 1] = posted + 1
  BY <1>2
<1>4. writes \in Seq(Calls')
  <2>1. Calls \subseteq Calls'
    BY <1>1 DEF Calls
  <2>2. \A i \in 1..Len(writes) : writes[i] \in Calls
    BY DEF TypeOK
  <2> QED
    BY <2>1 DEF TypeOK
<1>5. TypeOK'
  BY <1>1, <1>4 DEF TypeOK
<1>6. Popped' = Popped
  BY <1>1 DEF Popped
<1>7. QueueInv'
  BY <1>1 DEF QueueInv, Popped
<1>8. OrderInv'
  BY <1>6 DEF OrderInv
<1>9. FrontInv' /\ NoStall' /\ InOrderUnlessReissued'
  BY DEF FrontInv, NoStall, InOrderUnlessReissued
<1>10. NoneSkipped'
  <2>1. ToSet(queue') = ToSet(queue) \cup {posted + 1}
    BY <1>2, ToSetAppend
  <2> QED
    BY <1>1, <2>1 DEF NoneSkipped
<1> QED
  BY <1>5, <1>7, <1>8, <1>9, <1>10

\* WriteAsync, by whichever of the two handlers.
LEMMA WriteAsyncKeeps ==
    ASSUME WriterInv, WriteAsync,
           poster' \in {"idle", "pushed"}, strand' \in {"idle", "popped", "more"}
    PROVE  WriterInv'
<1> USE DEF WriterInv
<1>1. UNCHANGED <<concurrency, posted, queue, broken, received, spoiled>>
  BY DEF WriteAsync
<1>2. CASE queue = <<>>
  <2>1. UNCHANGED <<writes, started, reissued>>
    BY <1>2 DEF WriteAsync
  <2>2. TypeOK' /\ QueueInv' /\ OrderInv'
    BY <1>1, <2>1 DEF TypeOK, Calls, QueueInv, OrderInv, Popped
  <2>3. FrontInv' /\ NoStall' /\ NoneSkipped' /\ InOrderUnlessReissued'
    BY <1>1, <1>2, <2>1 DEF FrontInv, NoStall, NoneSkipped, InOrderUnlessReissued
  <2> QED
    BY <2>2, <2>3
<1>3. CASE queue # <<>>
  <2> DEFINE call == [response |-> Head(queue), sent |-> 0]
  <2>1. /\ writes' = Append(writes, call)
        /\ started' = started \cup {Head(queue)}
        /\ reissued' = (reissued \/ Head(queue) \in started)
    BY <1>3 DEF WriteAsync
  <2>2. Head(queue) = Popped + 1 /\ Head(queue) \in 1..posted /\ Popped \in Nat
    BY <1>3, FrontOfQueue
  <2>3. call \in Calls
    BY <2>2, WriterAssumption DEF Calls
  <2>4. /\ writes' \in Seq(Calls) /\ Len(writes') = Len(writes) + 1 /\ writes' # <<>>
        /\ writes'[Len(writes) + 1] = call
    BY <2>1, <2>3, AppendProperties DEF TypeOK
  <2>5. TypeOK'
    BY <1>1, <2>1, <2>2, <2>4 DEF TypeOK, Calls
  <2>6. QueueInv'
    BY <1>1 DEF QueueInv, Popped
  <2>7. OrderInv'
    <3> SUFFICES ASSUME ~reissued', ~broken'
                 PROVE  /\ Len(writes') <= 1
                        /\ writes'[1].response = Popped + 1
                        /\ started' = 1..(Popped + 1)
                        /\ received' = Popped * Chunks + writes'[1].sent
      BY <1>1, <1>3, <2>4 DEF OrderInv, Popped
    <3>1. ~reissued /\ ~broken /\ Popped + 1 \notin started
      BY <1>1, <2>1, <2>2
    <3>2. writes = <<>> /\ started = 1..Popped /\ received = Popped * Chunks
      BY <2>2, <3>1 DEF OrderInv
    <3>3. Len(writes') = 1 /\ writes'[1] = call
      BY <2>4, <3>2
    <3>4. started' = 1..(Popped + 1)
      BY <2>1, <2>2, <3>2
    <3>5. received' = Popped * Chunks + 0 /\ Popped * Chunks \in Nat
      BY <1>1, <2>2, <3>2, WriterAssumption
    <3> QED
      BY <2>2, <3>3, <3>4, <3>5
  <2>8. FrontInv' /\ NoStall'
    BY <1>1, <2>1 DEF FrontInv, NoStall
  <2>9. NoneSkipped' /\ InOrderUnlessReissued'
    BY <1>1, <2>1 DEF NoneSkipped, InOrderUnlessReissued
  <2> QED
    BY <2>5, <2>6, <2>7, <2>8, <2>9
<1> QED
  BY <1>2, <1>3

LEMMA IsEmptyKeeps ==
    ASSUME WriterInv, IsWriteBufferQueueEmpty
    PROVE  WriterInv'
<1> USE DEF WriterInv, IsWriteBufferQueueEmpty
<1>1. TypeOK' /\ QueueInv' /\ OrderInv'
  BY DEF TypeOK, Calls, QueueInv, OrderInv, Popped
<1>2. FrontInv' /\ NoStall' /\ NoneSkipped' /\ InOrderUnlessReissued'
  BY DEF FrontInv, NoStall, NoneSkipped, InOrderUnlessReissued
<1> QED
  BY <1>1, <1>2

LEMMA BreakKeeps ==
    ASSUME WriterInv, Break
    PROVE  WriterInv'
<1> USE DEF WriterInv, Break
<1>1. TypeOK' /\ QueueInv' /\ OrderInv'
  BY DEF TypeOK, Calls, QueueInv, OrderInv, Popped
<1>2. FrontInv' /\ NoStall' /\ NoneSkipped' /\ InOrderUnlessReissued'
  BY DEF FrontInv, NoStall, NoneSkipped, InOrderUnlessReissued
<1> QED
  BY <1>1, <1>2

LEMMA CompleteErrorKeeps ==
    ASSUME WriterInv, NEW w \in DOMAIN writes, CompleteError(w)
    PROVE  WriterInv'
<1> USE DEF WriterInv, CompleteError
<1>1. writes' \in Seq(Calls)
  BY RemoveAtProperties DEF TypeOK
<1>2. TypeOK' /\ QueueInv' /\ OrderInv'
  BY <1>1 DEF TypeOK, Calls, QueueInv, OrderInv, Popped
<1>3. FrontInv' /\ NoStall' /\ NoneSkipped' /\ InOrderUnlessReissued'
  BY DEF FrontInv, NoStall, NoneSkipped, InOrderUnlessReissued
<1> QED
  BY <1>2, <1>3

LEMMA CompleteKeeps ==
    ASSUME WriterInv, NEW w \in DOMAIN writes, Complete(w)
    PROVE  WriterInv'
<1> USE DEF WriterInv
<1>0. /\ UNCHANGED <<concurrency, posted, poster, broken, started, reissued, received, spoiled>>
      /\ writes[w].sent = Chunks /\ strand = "idle" /\ strand' = "popped" /\ FreeThread
      /\ queue' = IF queue = <<>> THEN <<>> ELSE Tail(queue)
  BY DEF Complete
<1>1. /\ writes' \in Seq(Calls) /\ Len(writes') = Len(writes) - 1
      /\ w \in 1..Len(writes) /\ Len(writes) \in Nat
  <2>1. writes \in Seq(Calls) /\ writes' = RemoveAt(writes, w)
    BY DEF TypeOK, Complete
  <2>2. w \in 1..Len(writes) /\ Len(writes) \in Nat
    BY <2>1, LenProperties
  <2> QED
    BY <2>1, <2>2, RemoveAtProperties
<1>2. CASE queue = <<>>
  <2>1. UNCHANGED queue
    BY <1>0, <1>2
  <2>2. TypeOK' /\ QueueInv'
    BY <1>0, <1>1, <2>1 DEF TypeOK, Calls, QueueInv, Popped
  <2>3. OrderInv'
    BY <1>0, <1>2 DEF OrderInv
  <2>4. FrontInv' /\ NoStall' /\ NoneSkipped' /\ InOrderUnlessReissued'
    BY <1>0, <2>1 DEF FrontInv, NoStall, NoneSkipped, InOrderUnlessReissued
  <2> QED
    BY <2>2, <2>3, <2>4
<1>3. CASE queue # <<>>
  <2>1. /\ queue' = Tail(queue) /\ queue' \in Seq(1..posted)
        /\ Len(queue') = Len(queue) - 1
        /\ \A i \in 1..Len(queue') : queue'[i] = queue[i + 1]
    BY <1>0, <1>3 DEF TypeOK
  <2>2. /\ Head(queue) = Popped + 1 /\ Head(queue) \in 1..posted
        /\ Popped \in Nat /\ Len(queue) \in Nat /\ posted \in Nat
    BY <1>3, FrontOfQueue
  <2>3. Popped' = Popped + 1
    <3>1. posted' = posted /\ Len(queue') = Len(queue) - 1
      BY <1>0, <2>1
    <3> QED
      BY <2>2, <3>1 DEF Popped
  <2>4. TypeOK'
    BY <1>0, <1>1, <2>1 DEF TypeOK, Calls
  <2>5. QueueInv'
    BY <2>1, <2>2, <2>3 DEF QueueInv
  <2>6. OrderInv'
    <3> SUFFICES ASSUME ~reissued, ~broken
                 PROVE  /\ writes' = <<>> /\ started' = 1..Popped'
                        /\ received' = Popped' * Chunks
      BY <1>0 DEF OrderInv
    <3>1. Len(writes) = 1 /\ w = 1
      BY <1>1 DEF OrderInv
    <3>2. writes' = <<>>
      BY <1>1, <3>1
    <3>3. started = 1..(Popped + 1) /\ received = Popped * Chunks + Chunks
      BY <1>0 DEF OrderInv
    <3>4. Popped * Chunks + Chunks = (Popped + 1) * Chunks
      BY <2>2, WriterAssumption
    <3> QED
      BY <1>0, <2>3, <3>2, <3>3, <3>4
  <2>7. NoneSkipped'
    <3> SUFFICES ASSUME concurrency = 1 PROVE 1..posted \subseteq ToSet(queue') \cup started
      BY <1>0 DEF NoneSkipped
    <3>1. poster = "idle"
      BY <1>0 DEF FreeThread, Running
    <3>2. Head(queue) \in started
      BY <1>0, <1>3, <3>1 DEF FrontInv
    <3>3. ToSet(queue) = {Head(queue)} \cup ToSet(queue')
      BY <2>1, ToSetTail
    <3> QED
      BY <3>2, <3>3 DEF NoneSkipped
  <2>8. FrontInv' /\ NoStall' /\ InOrderUnlessReissued'
    BY <1>0 DEF FrontInv, NoStall, InOrderUnlessReissued
  <2> QED
    BY <2>4, <2>5, <2>6, <2>7, <2>8
<1> QED
  BY <1>2, <1>3

LEMMA SendChunkKeeps ==
    ASSUME WriterInv, NEW w \in DOMAIN writes, SendChunk(w)
    PROVE  WriterInv'
<1> USE DEF WriterInv
<1>1. /\ UNCHANGED <<concurrency, posted, queue, poster, strand, broken, started, reissued>>
      /\ ~broken /\ writes[w].sent < Chunks
      /\ writes' = [writes EXCEPT ![w].sent = @ + 1]
  BY DEF SendChunk
<1> DEFINE place == (writes[w].response - 1) * Chunks + writes[w].sent + 1
<1>2. /\ spoiled' \in BOOLEAN /\ received' \in {place, received}
      /\ ~spoiled /\ Alive(writes[w].response) /\ place = received + 1
            => ~spoiled' /\ received' = place
  <2>1. PICK intact \in {TRUE, Alive(writes[w].response)} :
            LET good == ~spoiled /\ intact /\ place = received + 1
            IN  received' = (IF good THEN place ELSE received) /\ spoiled' = ~good
    BY DEF SendChunk
  <2> HIDE DEF place
  <2> QED
    BY <2>1
<1>3. /\ Len(writes) \in Nat /\ writes[w] \in Calls /\ w \in 1..Len(writes)
      /\ writes[w].response \in 1..posted /\ writes[w].sent \in 0..(Chunks - 1)
      /\ posted \in Nat /\ posted \in 0..MaxPosts /\ MaxPosts \in Nat
  <2>1. Len(writes) \in Nat /\ writes[w] \in Calls /\ w \in 1..Len(writes)
    BY DEF TypeOK
  <2>2. posted \in 0..MaxPosts /\ MaxPosts \in Nat /\ Chunks \in Nat
    BY WriterAssumption DEF TypeOK
  <2> QED
    BY <1>1, <2>1, <2>2 DEF Calls
<1>4. writes' \in Seq(Calls) /\ Len(writes') = Len(writes)
  <2>1. [writes[w] EXCEPT !.sent = @ + 1] \in Calls
    BY <1>3, WriterAssumption DEF Calls
  <2> QED
    BY <1>1, <2>1 DEF TypeOK
<1>5. place \in 1..(MaxPosts * Chunks)
  <2>1. writes[w].response \in 1..MaxPosts
    BY <1>3
  <2> QED
    BY <1>3, <2>1, Places
<1>6. TypeOK'
  <2>1. received' \in 0..(MaxPosts * Chunks) /\ spoiled' \in BOOLEAN
    <3> HIDE DEF place
    <3> QED
      BY <1>2, <1>5 DEF TypeOK
  <2> QED
    BY <1>1, <1>4, <2>1 DEF TypeOK, Calls
<1>7. ASSUME ~reissued
      PROVE  /\ ~spoiled' /\ received' = place /\ Len(writes) = 1 /\ w = 1
             /\ received' = Popped * Chunks + writes[1].sent + 1
  <2>1. /\ Len(writes) = 1 /\ w = 1 /\ queue # <<>>
        /\ writes[1].response = Popped + 1 /\ received = Popped * Chunks + writes[1].sent
    <3>1. writes # <<>>
      BY <1>3
    <3>2. ~broken
      BY <1>1
    <3>3. /\ Len(writes) <= 1 /\ queue # <<>>
          /\ writes[1].response = Popped + 1
          /\ received = Popped * Chunks + writes[1].sent
      BY <1>7, <3>1, <3>2, Zenon DEF OrderInv
    <3>4. Len(writes) = 1 /\ w = 1
      BY <3>3, OneElement DEF TypeOK
    <3> QED
      BY <3>3, <3>4
  <2>2. Alive(writes[w].response)
    <3>1. 1 \in DOMAIN queue /\ queue[1] = Head(queue) /\ Head(queue) = Popped + 1
      BY <2>1, FrontOfQueue
    <3> QED
      BY <2>1, <3>1 DEF Alive, ToSet
  <2>3. place = Popped * Chunks + writes[1].sent + 1
    BY <2>1, FrontOfQueue
  <2>4. place = received + 1 /\ ~spoiled
    BY <1>7, <2>1, <2>3 DEF InOrderUnlessReissued
  <2> QED
    <3> HIDE DEF place
    <3> QED
      BY <1>2, <2>1, <2>2, <2>4
<1>8. OrderInv' /\ InOrderUnlessReissued'
  <2>1. Popped' = Popped
    BY <1>1 DEF Popped
  <2>2. ASSUME ~reissued
        PROVE  writes'[1].response = writes[1].response /\ writes'[1].sent = writes[1].sent + 1
    BY <1>1, <1>7, <2>2
  <2>3. OrderInv'
    <3> SUFFICES ASSUME ~reissued
                 PROVE  /\ Len(writes') = 1 /\ queue # <<>>
                        /\ writes'[1].response = Popped + 1 /\ started = 1..(Popped + 1)
                        /\ received' = Popped * Chunks + writes'[1].sent
      BY <1>1, <2>1 DEF OrderInv
    <3>1. /\ queue # <<>> /\ writes[1].response = Popped + 1
          /\ started = 1..(Popped + 1)
      BY <1>1 DEF OrderInv
    <3>2. Popped * Chunks \in Nat
      BY FrontOfQueue, WriterAssumption
    <3>3. writes[1].sent \in Nat
      BY <1>3, <1>7
    <3>4. received' = Popped * Chunks + writes'[1].sent
      BY <1>7, <2>2, <3>2, <3>3
    <3> QED
      BY <1>4, <1>7, <2>2, <3>1, <3>4
  <2> QED
    BY <1>1, <1>7, <2>3 DEF InOrderUnlessReissued
<1>9. QueueInv' /\ FrontInv' /\ NoStall' /\ NoneSkipped'
  BY <1>1 DEF QueueInv, Popped, FrontInv, NoStall, NoneSkipped
<1> QED
  BY <1>6, <1>8, <1>9

-----------------------------------------------------------------------------
(* The theorems.                                                           *)

\* The inductive invariant of the write path, for any number of responses,
\* pieces and io threads (ClientSocket.cpp:72-135, 201-224).
THEOREM WriterInvariance == Spec => []WriterInv
<1>1. ASSUME WriterInv, [Next]_vars
      PROVE  WriterInv'
  <2>1. CASE Push
    BY <1>1, <2>1, PushKeeps
  <2>2. CASE PostWriteAsync
    BY <1>1, <2>2, WriteAsyncKeeps DEF PostWriteAsync, WriterInv, TypeOK
  <2>3. CASE CompleteWriteAsync
    BY <1>1, <2>3, WriteAsyncKeeps DEF CompleteWriteAsync, WriterInv, TypeOK
  <2>4. CASE IsWriteBufferQueueEmpty \/ Break
    BY <1>1, <2>4, IsEmptyKeeps, BreakKeeps
  <2>5. ASSUME NEW w \in DOMAIN writes, Write(w) PROVE WriterInv'
    BY <1>1, <2>5, SendChunkKeeps, CompleteKeeps, CompleteErrorKeeps DEF Write
  <2>6. CASE UNCHANGED vars
    BY <1>1, <2>6 DEF vars, WriterInv, TypeOK, Calls, QueueInv, Popped, FrontInv, OrderInv,
                      NoStall, NoneSkipped, InOrderUnlessReissued
  <2> QED
    BY <1>1, <2>1, <2>2, <2>3, <2>4, <2>5, <2>6 DEF Next
<1> QED
  BY <1>1, WriterInit, PTL DEF Spec

\* The type invariant: what is queued and what is written are responses that
\* were posted, and the peer is not sent more than there is.
THEOREM WriterTypeCorrect == Spec => []TypeOK
<1>1. WriterInv => TypeOK
  BY DEF WriterInv
<1> QED
  BY <1>1, WriterInvariance, PTL

\* No wake-up is lost between PostWrite and the completion handlers, however
\* many io threads run them (ClientSocket.cpp:83-95, 222-223).
THEOREM NoWakeUpLost == Spec => []NoStall
<1>1. WriterInv => NoStall
  BY DEF WriterInv
<1> QED
  BY <1>1, WriterInvariance, PTL

\* With one io thread no response is dropped unsent, although completions of
\* repeated writes pop responses they did not write (ClientSocket.cpp:90,
\* 120-127).
THEOREM SerialSkipsNone == Spec => []NoneSkipped
<1>1. WriterInv => NoneSkipped
  BY DEF WriterInv
<1> QED
  BY <1>1, WriterInvariance, PTL

\* Unless some response is written again while it is on its way, the peer
\* receives them whole, once each and in order, and no write reads a buffer
\* that is gone (ClientSocket.cpp:79-90).
THEOREM InOrderDelivery == Spec => []InOrderUnlessReissued
<1>1. WriterInv => InOrderUnlessReissued
  BY DEF WriterInv
<1> QED
  BY <1>1, WriterInvariance, PTL
=============================================================================
