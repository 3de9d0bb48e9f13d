----------------------- MODULE ClientLifecycleProofs -----------------------
(***************************************************************************)
(* Proofs about ClientLifecycle, for any set of tokens, any number of      *)
(* packet types and any number of io threads: its type invariant, the      *)
(* absence of a lock cycle between AddClient and HandleError, the relation *)
(* of the map and of Redis to the sockets, and which connections Server    *)
(* keeps are served.                                                       *)
(*                                                                         *)
(* None of these is inductive.  What makes them hold is where AddClient    *)
(* has got to with the socket it adds (AddingInv), who holds which lock    *)
(* (LockInv), and what the registered handlers of a socket say of the map  *)
(* and of Redis (HandlerInv).                                              *)
(***************************************************************************)
EXTENDS ClientLifecycle, FiniteSetTheorems, TLAPS

Busy == {t \in Tokens : reader[t] \notin {"off", "armed"}}

\* What AddClient has done and not yet done for the socket it adds.
AddingInv ==
    accept \in AddSteps =>
        /\ adding \in used \ errorHandler
        /\ accept = "lock" => adding \notin connected
        /\ accept # "lock" => adding \in connected
        /\ accept \in {"lock", "init"} => reader[adding] = "off"
        /\ accept \in {"lock", "init", "key"} => packetHandlers[adding] = 0
        /\ accept = "packet" => packetHandlers[adding] < PacketTypes
        /\ accept \in {"packet", "error"} => adding \in clientKeys

\* Who holds Server::_connMtx and the _disconnectHandlerMtx of a socket.
LockInv ==
    /\ connMtx <=> accept \in AddSteps \ {"lock"}
    /\ disconnectMtx = {t \in Tokens : reader[t] \in {"logout", "remove"}}

\* What the state of a socket says of its handlers, the map and Redis.
HandlerInv ==
    /\ clientKeys \subseteq connected
    /\ connected \subseteq used
    /\ errorHandler \subseteq used
    /\ connected \subseteq errorHandler \cup {adding}
    /\ \A t \in Tokens :
        /\ t \notin used => packetHandlers[t] = 0
        /\ reader[t] # "off" => t \in connected
        /\ reader[t] \in {"logout", "remove"} => t \in errorHandler
        /\ reader[t] = "packet" => packetHandlers[t] > 0
        /\ packetHandlers[t] > 0 /\ t \in connected => t \in clientKeys

\* With one io thread AddClient runs alone.
SerialInv ==
    /\ concurrency = 1 /\ accept \in AddSteps => Busy = {}
    /\ KeptIsServed

LifecycleInv == TypeOK /\ AddingInv /\ LockInv /\ HandlerInv /\ SerialInv

-----------------------------------------------------------------------------
(* Threads.                                                                *)

\* With one io thread a handler starts only when no other runs.
LEMMA AloneIfSerial ==
    ASSUME TypeOK, FreeThread, concurrency = 1
    PROVE  Busy = {} /\ accept \notin AddSteps
<1>1. IsFiniteSet(Busy) /\ Cardinality(Busy) \in Nat
  BY LifecycleAssumption, FS_Subset, FS_CardinalityType DEF Busy
<1>2. Cardinality(Busy) + (IF accept \in AddSteps THEN 1 ELSE 0) < 1
  BY DEF FreeThread, Running, Busy
<1>3. accept \notin AddSteps /\ Cardinality(Busy) = 0
  BY <1>1, <1>2
<1> QED
  BY <1>1, <1>3, FS_EmptySet

-----------------------------------------------------------------------------
(* The invariant holds initially and every action preserves it.            *)

LEMMA LifecycleInit == Init => LifecycleInv
<1> SUFFICES ASSUME Init PROVE LifecycleInv
  OBVIOUS
<1>1. TypeOK
  <2>1. reader \in [Tokens -> ReadSteps]
    BY DEF Init, ReadSteps
  <2>2. packetHandlers \in [Tokens -> 0..PacketTypes]
    BY LifecycleAssumption DEF Init
  <2> QED
    BY <2>1, <2>2 DEF Init, TypeOK, AddSteps
<1> QED
  BY <1>1 DEF Init, LifecycleInv, AddingInv, LockInv, HandlerInv, SerialInv,
     KeptIsServed, AddSteps

LEMMA AcceptClientKeeps ==
    ASSUME LifecycleInv, NEW t \in Tokens, AcceptClient(t)
    PROVE  LifecycleInv'
<1> USE DEF AcceptClient
<1>1. TypeOK'
  BY LifecycleAssumption DEF LifecycleInv, TypeOK, AddSteps
<1>2. AddingInv'
  BY DEF LifecycleInv, AddingInv, HandlerInv
<1>3. LockInv'
  BY DEF LifecycleInv, LockInv, AddSteps
<1>4. HandlerInv'
  BY LifecycleAssumption DEF LifecycleInv, TypeOK, HandlerInv, AddSteps
<1>5. SerialInv'
  <2>1. concurrency = 1 => Busy = {}
    BY AloneIfSerial DEF LifecycleInv
  <2>2. Busy' = Busy
    BY DEF Busy
  <2>3. KeptIsServed'
    BY DEF LifecycleInv, SerialInv, KeptIsServed
  <2> QED
    BY <2>1, <2>2, <2>3 DEF SerialInv
<1> QED
  BY <1>1, <1>2, <1>3, <1>4, <1>5 DEF LifecycleInv

LEMMA AcceptErrorKeeps ==
    ASSUME LifecycleInv, AcceptError
    PROVE  LifecycleInv'
<1> USE DEF AcceptError
<1>1. TypeOK'
  BY DEF LifecycleInv, TypeOK, AddSteps
<1>2. AddingInv' /\ LockInv' /\ HandlerInv'
  BY DEF LifecycleInv, AddingInv, LockInv, HandlerInv, AddSteps
<1>3. SerialInv'
  BY DEF LifecycleInv, SerialInv, KeptIsServed, AddSteps
<1> QED
  BY <1>1, <1>2, <1>3 DEF LifecycleInv

LEMMA AddLockKeeps ==
    ASSUME LifecycleInv, AddLock
    PROVE  LifecycleInv'
<1> USE DEF AddLock
<1>1. TypeOK'
  BY DEF LifecycleInv, TypeOK, AddSteps
<1>2. AddingInv'
  BY DEF LifecycleInv, AddingInv, AddSteps
<1>3. LockInv'
  BY DEF LifecycleInv, LockInv, AddSteps
<1>4. HandlerInv'
  BY DEF LifecycleInv, AddingInv, HandlerInv, AddSteps
<1>5. SerialInv'
  BY DEF LifecycleInv, SerialInv, KeptIsServed, AddSteps, Busy
<1> QED
  BY <1>1, <1>2, <1>3, <1>4, <1>5 DEF LifecycleInv

LEMMA AddInitKeeps ==
    ASSUME LifecycleInv, AddInit
    PROVE  LifecycleInv'
<1> USE DEF AddInit
<1>1. TypeOK'
  BY DEF LifecycleInv, TypeOK, AddSteps, ReadSteps
<1>2. AddingInv'
  BY DEF LifecycleInv, AddingInv, AddSteps
<1>3. LockInv'
  BY DEF LifecycleInv, LockInv, AddingInv, AddSteps
<1>4. HandlerInv'
  BY DEF LifecycleInv, AddingInv, HandlerInv, AddSteps
<1>5. SerialInv'
  BY DEF LifecycleInv, TypeOK, SerialInv, KeptIsServed, Busy
<1> QED
  BY <1>1, <1>2, <1>3, <1>4, <1>5 DEF LifecycleInv

LEMMA AddKeyKeeps ==
    ASSUME LifecycleInv, AddKey
    PROVE  LifecycleInv'
<1> USE DEF AddKey
<1>1. TypeOK'
  BY DEF LifecycleInv, TypeOK, AddSteps
<1>2. AddingInv'
  BY LifecycleAssumption DEF LifecycleInv, AddingInv, AddSteps
<1>3. LockInv'
  BY DEF LifecycleInv, LockInv, AddSteps
<1>4. HandlerInv'
  BY DEF LifecycleInv, AddingInv, HandlerInv, AddSteps
<1>5. SerialInv'
  BY DEF LifecycleInv, SerialInv, KeptIsServed, AddSteps, Busy
<1> QED
  BY <1>1, <1>2, <1>3, <1>4, <1>5 DEF LifecycleInv

LEMMA SetPacketHandlerKeeps ==
    ASSUME LifecycleInv, SetPacketHandler
    PROVE  LifecycleInv'
<1> USE DEF SetPacketHandler
<1>1. TypeOK'
  BY LifecycleAssumption DEF LifecycleInv, TypeOK, AddingInv, AddSteps
<1>2. AddingInv'
  BY LifecycleAssumption DEF LifecycleInv, TypeOK, AddingInv
<1>3. LockInv'
  BY DEF LifecycleInv, LockInv, AddSteps
<1>4. HandlerInv'
  BY DEF LifecycleInv, TypeOK, AddingInv, HandlerInv
<1>5. SerialInv'
  BY DEF LifecycleInv, SerialInv, KeptIsServed, AddSteps, Busy
<1> QED
  BY <1>1, <1>2, <1>3, <1>4, <1>5 DEF LifecycleInv

LEMMA SetErrorHandlerKeeps ==
    ASSUME LifecycleInv, SetErrorHandler
    PROVE  LifecycleInv'
<1> USE DEF SetErrorHandler
<1>1. TypeOK'
  BY DEF LifecycleInv, TypeOK, AddSteps
<1>2. AddingInv'
  BY DEF AddingInv, AddSteps
<1>3. LockInv'
  BY DEF LifecycleInv, LockInv, AddSteps
<1>4. HandlerInv'
  BY DEF LifecycleInv, AddingInv, HandlerInv, AddSteps
<1>5. SerialInv'
  BY DEF LifecycleInv, SerialInv, KeptIsServed, AddSteps
<1> QED
  BY <1>1, <1>2, <1>3, <1>4, <1>5 DEF LifecycleInv

LEMMA ReadAsyncKeeps ==
    ASSUME LifecycleInv, NEW t \in Tokens, ReadAsync(t)
    PROVE  LifecycleInv'
<1> USE DEF ReadAsync
<1>1. TypeOK'
  BY DEF LifecycleInv, TypeOK, ReadSteps
<1>2. AddingInv'
  BY DEF LifecycleInv, AddingInv
<1>3. LockInv'
  BY DEF LifecycleInv, LockInv
<1>4. HandlerInv'
  BY DEF LifecycleInv, HandlerInv
<1>5. SerialInv'
  BY DEF LifecycleInv, SerialInv, KeptIsServed, Busy
<1> QED
  BY <1>1, <1>2, <1>3, <1>4, <1>5 DEF LifecycleInv

LEMMA HandleErrorKeeps ==
    ASSUME LifecycleInv, NEW t \in Tokens, HandleError(t)
    PROVE  LifecycleInv'
<1> USE DEF HandleError
<1>1. TypeOK'
  BY DEF LifecycleInv, TypeOK, ReadSteps
<1>2. AddingInv'
  BY DEF LifecycleInv, TypeOK, AddingInv
<1>3. LockInv'
  BY DEF LifecycleInv, TypeOK, LockInv
<1>4. HandlerInv'
  BY DEF LifecycleInv, TypeOK, HandlerInv
<1>5. SerialInv'
  BY LifecycleAssumption DEF LifecycleInv, TypeOK, HandlerInv, SerialInv,
     KeptIsServed, Busy
<1> QED
  BY <1>1, <1>2, <1>3, <1>4, <1>5 DEF LifecycleInv

LEMMA LogoutAndStopKeeps ==
    ASSUME LifecycleInv, NEW t \in Tokens, LogoutAndStop(t)
    PROVE  LifecycleInv'
<1> USE DEF LogoutAndStop
<1>1. TypeOK'
  BY DEF LifecycleInv, TypeOK, ReadSteps
<1>2. AddingInv'
  BY DEF LifecycleInv, AddingInv
<1>3. LockInv'
  BY DEF LifecycleInv, LockInv
<1>4. HandlerInv'
  BY DEF LifecycleInv, HandlerInv
<1>5. SerialInv'
  BY DEF LifecycleInv, SerialInv, KeptIsServed, Busy
<1> QED
  BY <1>1, <1>2, <1>3, <1>4, <1>5 DEF LifecycleInv

LEMMA RemoveClientKeeps ==
    ASSUME LifecycleInv, NEW t \in Tokens, RemoveClient(t)
    PROVE  LifecycleInv'
<1> USE DEF RemoveClient
<1>1. TypeOK'
  BY DEF LifecycleInv, TypeOK, ReadSteps
<1>2. AddingInv'
  BY DEF LifecycleInv, AddingInv, HandlerInv
<1>3. LockInv'
  BY DEF LifecycleInv, TypeOK, LockInv
<1>4. HandlerInv'
  BY DEF LifecycleInv, TypeOK, HandlerInv
<1>5. SerialInv'
  BY DEF LifecycleInv, SerialInv, KeptIsServed, Busy
<1> QED
  BY <1>1, <1>2, <1>3, <1>4, <1>5 DEF LifecycleInv

LEMMA DestroyKeeps ==
    ASSUME LifecycleInv, NEW t \in Tokens, Destroy(t)
    PROVE  LifecycleInv'
<1> USE DEF Destroy
<1>1. TypeOK'
  BY LifecycleAssumption DEF LifecycleInv, TypeOK
<1>2. AddingInv'
  BY DEF LifecycleInv, AddingInv
<1>3. LockInv'
  BY DEF LifecycleInv, LockInv
<1>4. HandlerInv'
  BY DEF LifecycleInv, TypeOK, HandlerInv
<1>5. SerialInv'
  BY DEF LifecycleInv, SerialInv, KeptIsServed, Busy
<1> QED
  BY <1>1, <1>2, <1>3, <1>4, <1>5 DEF LifecycleInv

LEMMA ReadErrorKeeps ==
    ASSUME LifecycleInv, NEW t \in Tokens, ReadError(t)
    PROVE  LifecycleInv'
<1> USE DEF ReadError
<1>1. TypeOK'
  BY DEF LifecycleInv, TypeOK, ReadSteps
<1>2. AddingInv'
  BY DEF LifecycleInv, AddingInv
<1>3. LockInv'
  BY DEF LifecycleInv, LockInv
<1>4. HandlerInv'
  BY DEF LifecycleInv, HandlerInv
<1>5. SerialInv'
  <2>1. concurrency = 1 => accept \notin AddSteps
    BY AloneIfSerial DEF LifecycleInv
  <2> QED
    BY <2>1 DEF LifecycleInv, SerialInv, KeptIsServed
<1> QED
  BY <1>1, <1>2, <1>3, <1>4, <1>5 DEF LifecycleInv

LEMMA HandlePacketKeeps ==
    ASSUME LifecycleInv, NEW t \in Tokens, NEW type \in 1..PacketTypes,
           HandlePacket(t, type)
    PROVE  LifecycleInv'
<1> USE DEF HandlePacket
<1>1. TypeOK'
  BY DEF LifecycleInv, TypeOK, ReadSteps
<1>2. AddingInv'
  BY DEF LifecycleInv, AddingInv
<1>3. LockInv'
  BY DEF LifecycleInv, LockInv
<1>4. HandlerInv'
  BY DEF LifecycleInv, TypeOK, HandlerInv
<1>5. SerialInv'
  <2>1. concurrency = 1 => accept \notin AddSteps
    BY AloneIfSerial DEF LifecycleInv
  <2> QED
    BY <2>1 DEF LifecycleInv, SerialInv, KeptIsServed
<1> QED
  BY <1>1, <1>2, <1>3, <1>4, <1>5 DEF LifecycleInv

-----------------------------------------------------------------------------
(* The theorems.                                                           *)

\* The inductive invariant: where AddClient is, who holds which lock and what
\* the handlers of a socket say of the map and of Redis, in every reachable
\* state (Server.cpp:19-27, 40-125; ClientSocket.cpp:169-198, 227-249).
THEOREM LifecycleInvariance == Spec => []LifecycleInv
<1>1. ASSUME LifecycleInv, [Next]_vars
      PROVE  LifecycleInv'
  <2>1. CASE AcceptError
    BY <1>1, <2>1, AcceptErrorKeeps
  <2>2. CASE AddClient
    BY <1>1, <2>2, AddLockKeeps, AddInitKeeps, AddKeyKeeps, SetPacketHandlerKeeps,
       SetErrorHandlerKeeps DEF AddClient
  <2>3. ASSUME NEW t \in Tokens, AcceptClient(t) \/ ReadError(t)
        PROVE  LifecycleInv'
    BY <1>1, <2>3, AcceptClientKeeps, ReadErrorKeeps
  <2>4. ASSUME NEW t \in Tokens, Read(t)
        PROVE  LifecycleInv'
    BY <1>1, <2>4, ReadAsyncKeeps, HandleErrorKeeps, LogoutAndStopKeeps,
       RemoveClientKeeps DEF Read
  <2>5. ASSUME NEW t \in Tokens, Destroy(t)
        PROVE  LifecycleInv'
    BY <1>1, <2>5, DestroyKeeps
  <2>6. ASSUME NEW t \in Tokens, NEW type \in 1..PacketTypes, HandlePacket(t, type)
        PROVE  LifecycleInv'
    BY <1>1, <2>6, HandlePacketKeeps
  <2>7. CASE UNCHANGED vars
    BY <1>1, <2>7 DEF vars, LifecycleInv, TypeOK, AddingInv, LockInv, HandlerInv,
                      SerialInv, KeptIsServed, Busy
  <2> QED
    BY <1>1, <2>1, <2>2, <2>3, <2>4, <2>5, <2>6, <2>7 DEF Next
<1> QED
  BY <1>1, LifecycleInit, PTL DEF Spec

\* The type invariant, in particular that AddClient registers no more packet
\* handlers than there are packet types (Server.cpp:60-108).
THEOREM LifecycleTypeCorrect == Spec => []TypeOK
<1>1. LifecycleInv => TypeOK
  BY DEF LifecycleInv
<1> QED
  BY <1>1, LifecycleInvariance, PTL

\* AddClient and HandleError never wait for each other's lock, for any number
\* of sockets and io threads: a disconnect handler only runs once it is
\* registered, the last thing AddClient does (Server.cpp:110-124).
THEOREM LockOrderSafe == Spec => []NoLockCycle
<1>1. LifecycleInv => NoLockCycle
  BY DEF LifecycleInv, AddingInv, HandlerInv, NoLockCycle, AddSteps
<1> QED
  BY <1>1, LifecycleInvariance, PTL

\* A packet handler finds client:{token}, and no token is drawn again while
\* the map or Redis has an entry for it, for any number of sockets and io
\* threads (Server.cpp:24-25, 52-58; ClientSocket.cpp:274-279).
THEOREM KeysFollow == Spec => []KeysFollowSockets
<1>1. LifecycleInv => KeysFollowSockets
  BY DEF LifecycleInv, HandlerInv, KeysFollowSockets
<1> QED
  BY <1>1, LifecycleInvariance, PTL

\* Every connection in Server's map is still read from, is being torn down,
\* or is one whose only read failed before SetErrorHandler, for any number of
\* sockets and io threads; with one io thread no read fails unseen between
\* Init and SetErrorHandler (main.cpp:84-97, Server.cpp:43-124).
THEOREM KeptAreServed == Spec => []KeptIsServed
<1>1. LifecycleInv => KeptIsServed
  BY DEF LifecycleInv, SerialInv
<1> QED
  BY <1>1, LifecycleInvariance, PTL
=============================================================================
