--------------------------- MODULE ResponseWriter ---------------------------
(***************************************************************************)
(* The write path of one ClientSocket: PostWrite, called by the handler of *)
(* the connection's current request, and the completion handlers of        *)
(* asio::async_write, which the socket's strand runs one at a time.  The   *)
(* two run on different io threads when there are two, and share the       *)
(* queue, each access to which takes _writeBufferMtx for itself.           *)
(*                                                                         *)
(* The completion handler keeps the socket alive but not the buffer being  *)
(* written: the queue owns the buffers.                                    *)
(***************************************************************************)
EXTENDS Naturals, Sequences, SequencesExt

CONSTANTS
    MaxPosts,       \* bound: responses posted on the connection
    Chunks,         \* pieces in which async_write hands a buffer to the kernel
    MaxConcurrency  \* bound: io threads of the machines considered

ASSUME WriterAssumption ==
    /\ MaxPosts \in Nat
    /\ Chunks \in Nat \ {0}
    /\ MaxConcurrency \in Nat \ {0}

VARIABLES
    concurrency,    \* threads in io_context::run()
    posted,         \* responses passed to PostWrite so far: 1, 2, ..., posted
    queue,          \* _writeBufferQueue
    poster,         \* the handler in PostWrite: "idle" or "pushed"
    strand,         \* the completion handler: "idle", "popped" or "more"
    writes,         \* the calls of async_write under way, oldest first: whose
                    \* response, and how many of its pieces the kernel has
    broken,         \* whether the connection is down
    started,        \* history: responses async_write has been called with
    reissued,       \* history: whether it was called with one of them again
    received,       \* history: pieces the peer got in the order of the responses
    spoiled         \* history: whether it got any other piece

vars == <<concurrency, posted, queue, poster, strand, writes, broken,
          started, reissued, received, spoiled>>

\* main() starts half as many io threads as the machine has, one at least.
Concurrencies == 1..MaxConcurrency

Calls == [response : 1..posted, sent : 0..Chunks]

TypeOK ==
    /\ concurrency \in Concurrencies
    /\ posted \in 0..MaxPosts
    /\ queue \in Seq(1..posted)
    /\ poster \in {"idle", "pushed"}
    /\ strand \in {"idle", "popped", "more"}
    /\ writes \in Seq(Calls)
    /\ broken \in BOOLEAN
    /\ started \subseteq 1..posted
    /\ reissued \in BOOLEAN
    /\ received \in 0..MaxPosts * Chunks
    /\ spoiled \in BOOLEAN

Init ==
    /\ concurrency \in Concurrencies
    /\ posted = 0
    /\ queue = <<>>
    /\ poster = "idle"
    /\ strand = "idle"
    /\ writes = <<>>
    /\ broken = FALSE
    /\ started = {}
    /\ reissued = FALSE
    /\ received = 0
    /\ spoiled = FALSE

-----------------------------------------------------------------------------
(* Threads and the write both handlers make.                               *)

Running == (IF poster = "idle" THEN 0 ELSE 1) + (IF strand = "idle" THEN 0 ELSE 1)

FreeThread == Running < concurrency

\* async_write of the front of the queue, unless the queue is empty.
WriteAsync ==
    /\ \/ /\ queue = <<>>
          /\ UNCHANGED <<writes, started, reissued>>
       \/ /\ queue # <<>>
          /\ writes' = Append(writes, [response |-> Head(queue), sent |-> 0])
          /\ started' = started \cup {Head(queue)}
          /\ reissued' = (reissued \/ Head(queue) \in started)
    /\ UNCHANGED <<concurrency, posted, queue, broken, received, spoiled>>

-----------------------------------------------------------------------------
(* Slips: what an action would be after a plausible mistake in the code.   *)
(* No specification uses them; each breaks one of the properties below.    *)

\* PostWrite leaves the writing to the completion handlers.
PostWriteOnlyPushes ==
    /\ poster = "pushed"
    /\ poster' = "idle"
    /\ UNCHANGED <<concurrency, posted, queue, strand, writes, broken, started,
                   reissued, received, spoiled>>

CompleteWithoutPop(w) ==
    /\ writes[w].sent = Chunks
    /\ strand = "idle"
    /\ FreeThread
    /\ writes' = RemoveAt(writes, w)
    /\ strand' = "popped"
    /\ UNCHANGED <<concurrency, posted, queue, poster, broken, started, reissued,
                   received, spoiled>>

\* async_write_some in the place of async_write.
CompleteAfterSome(w) ==
    /\ writes[w].sent > 0
    /\ strand = "idle"
    /\ FreeThread
    /\ writes' = RemoveAt(writes, w)
    /\ queue' = IF queue = <<>> THEN <<>> ELSE Tail(queue)
    /\ strand' = "popped"
    /\ UNCHANGED <<concurrency, posted, poster, broken, started, reissued, received,
                   spoiled>>

HasMoreThanOne ==
    /\ strand = "popped"
    /\ strand' = IF Len(queue) <= 1 THEN "idle" ELSE "more"
    /\ UNCHANGED <<concurrency, posted, queue, poster, writes, broken, started,
                   reissued, received, spoiled>>

\* PostWrite pushes the vector it has just moved from.
PushMovedFrom ==
    /\ poster = "idle"
    /\ FreeThread
    /\ posted < MaxPosts
    /\ posted' = posted + 1
    /\ queue' = Append(queue, 0)
    /\ poster' = "pushed"
    /\ UNCHANGED <<concurrency, strand, writes, broken, started, reissued, received,
                   spoiled>>

-----------------------------------------------------------------------------
(* PostWrite and the completion handler.                                   *)

\* PostWrite pushes the response of the current request ...
Push ==
    /\ poster = "idle"
    /\ FreeThread
    /\ posted < MaxPosts
    /\ posted' = posted + 1
    /\ queue' = Append(queue, posted + 1)
    /\ poster' = "pushed"
    /\ UNCHANGED <<concurrency, strand, writes, broken, started, reissued, received,
                   spoiled>>

\* ... and calls WriteAsync, whatever is already being written.
PostWriteAsync ==
    /\ poster = "pushed"
    /\ WriteAsync
    /\ poster' = "idle"
    /\ UNCHANGED strand

\* The completion handler of the w-th call: PopFrontWriteBuffer, ...
Complete(w) ==
    /\ writes[w].sent = Chunks
    /\ strand = "idle"
    /\ FreeThread
    /\ writes' = RemoveAt(writes, w)
    /\ queue' = IF queue = <<>> THEN <<>> ELSE Tail(queue)
    /\ strand' = "popped"
    /\ UNCHANGED <<concurrency, posted, poster, broken, started, reissued, received,
                   spoiled>>

\* ... a look whether the queue is empty now, ...
IsWriteBufferQueueEmpty ==
    /\ strand = "popped"
    /\ strand' = IF queue = <<>> THEN "idle" ELSE "more"
    /\ UNCHANGED <<concurrency, posted, queue, poster, writes, broken, started,
                   reissued, received, spoiled>>

\* ... and the next write.
CompleteWriteAsync ==
    /\ strand = "more"
    /\ WriteAsync
    /\ strand' = "idle"
    /\ UNCHANGED poster

-----------------------------------------------------------------------------
(* asio and the network.                                                   *)

\* The queue owns the buffers; PostWrite itself still refers to the last.
Alive(r) == r \in ToSet(queue) \/ (poster = "pushed" /\ r = posted)

\* The next piece of the w-th call goes out.  A buffer that is gone is read
\* all the same: its bytes may be intact, or anything.
SendChunk(w) ==
    /\ ~broken
    /\ FreeThread
    /\ writes[w].sent < Chunks
    /\ writes' = [writes EXCEPT ![w].sent = @ + 1]
    /\ \E intact \in {TRUE, Alive(writes[w].response)} :
        LET place == (writes[w].response - 1) * Chunks + writes[w].sent + 1
            good  == ~spoiled /\ intact /\ place = received + 1
        IN  /\ received' = IF good THEN place ELSE received
            /\ spoiled' = ~good
    /\ UNCHANGED <<concurrency, posted, queue, poster, strand, broken, started,
                   reissued>>

\* The peer is gone or the socket is closed.
Break ==
    /\ ~broken
    /\ broken' = TRUE
    /\ UNCHANGED <<concurrency, posted, queue, poster, strand, writes, started,
                   reissued, received, spoiled>>

\* A call ends with an error, which its completion handler only logs.
CompleteError(w) ==
    /\ broken
    /\ strand = "idle"
    /\ FreeThread
    /\ writes[w].sent < Chunks
    /\ writes' = RemoveAt(writes, w)
    /\ UNCHANGED <<concurrency, posted, queue, poster, strand, broken, started,
                   reissued, received, spoiled>>

-----------------------------------------------------------------------------
(* The specification.                                                      *)

Write(w) == SendChunk(w) \/ Complete(w) \/ CompleteError(w)

Next ==
    \/ Push \/ PostWriteAsync \/ IsWriteBufferQueueEmpty \/ CompleteWriteAsync
    \/ \E w \in DOMAIN writes : Write(w)
    \/ Break

Spec == Init /\ [][Next]_vars

\* The io threads run what is ready and a connected peer goes on reading;
\* requests and failures are left open.
Fairness ==
    /\ WF_vars(PostWriteAsync)
    /\ WF_vars(IsWriteBufferQueueEmpty \/ CompleteWriteAsync)
    /\ WF_vars(\E w \in DOMAIN writes : Write(w))

FairSpec == Spec /\ Fairness

-----------------------------------------------------------------------------
(* Properties.                                                             *)

\* No wake-up is lost between PostWrite and the completion handlers
\* (ClientSocket.cpp:83-95, 222-223): while a response waits in the queue of
\* a live connection, a write is under way or one of the two handlers is
\* about to look at the queue.
NoStall ==
    queue # <<>> /\ ~broken =>
        writes # <<>> \/ poster = "pushed" \/ strand # "idle"

\* As long as WriteAsync is never called with a response that is already on
\* its way, the peer receives the responses whole, once each and in the order
\* of its requests, and no write reads a freed buffer (ClientSocket.cpp:79-90).
InOrderUnlessReissued == spoiled => reissued

\* On a machine with one io thread a response leaves the queue only after
\* WriteAsync has been called with it (ClientSocket.cpp:90, 120-127): none is
\* dropped unsent, even when completions of repeated writes pop more than
\* they wrote.
NoneSkipped == concurrency = 1 => 1..posted \subseteq ToSet(queue) \cup started

\* A response does not stay in the queue of a connection that stays up.
Drains == queue # <<>> ~> queue = <<>> \/ broken
=============================================================================
