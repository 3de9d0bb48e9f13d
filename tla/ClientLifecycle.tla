-------------------------- MODULE ClientLifecycle --------------------------
(***************************************************************************)
(* The life of a ClientSocket, from Acceptor's accept through              *)
(* Server::AddClient and the chain of reads to the disconnect handler and  *)
(* the destructor, with the two locks these paths take in opposite order:  *)
(*                                                                         *)
(*   AddClient     Server::_connMtx, then the socket's                     *)
(*                 _disconnectHandlerMtx in SetErrorHandler                *)
(*   HandleError   the socket's _disconnectHandlerMtx, then                *)
(*                 Server::_connMtx in RemoveClient                        *)
(*                                                                         *)
(* What the packet and disconnect handlers do about logins is in           *)
(* AuthServer; here they only take a thread and the locks.                 *)
(***************************************************************************)
EXTENDS Naturals, FiniteSets

CONSTANTS
    Tokens,         \* values TokenPool64 may draw
    PacketTypes,    \* number of packet handlers AddClient registers
    MaxConcurrency  \* bound: io threads of the machines considered

ASSUME LifecycleAssumption ==
    /\ IsFiniteSet(Tokens)
    /\ PacketTypes \in Nat \ {0}
    /\ MaxConcurrency \in Nat \ {0}
    /\ "none" \notin Tokens

VARIABLES
    concurrency,    \* threads in io_context::run()
    used,           \* TokenPool64::used_: the sockets that exist
    accept,         \* where Acceptor's handler is in AddClient, "armed" when
                    \* it waits for a peer, "failed" when it has given up
    adding,         \* the socket AddClient was called with, or "none"
    reader,         \* reader[t]: where the chain of reads of t is
    packetHandlers, \* packetHandlers[t]: how many are registered, in the
                    \* order of the packet types 1, 2, ...
    errorHandler,   \* sockets whose disconnect handler is registered
    connected,      \* keys of Server::_connectedClients
    clientKeys,     \* Redis: the keys client:{token}
    connMtx,        \* whether AddClient holds Server::_connMtx
    disconnectMtx,  \* sockets whose _disconnectHandlerMtx HandleError holds
    unheard         \* history: sockets whose HandleError found no handler

vars == <<concurrency, used, accept, adding, reader, packetHandlers, errorHandler,
          connected, clientKeys, connMtx, disconnectMtx, unheard>>

\* main() starts half as many io threads as the machine has, one at least.
Concurrencies == 1..MaxConcurrency

AddSteps == {"lock", "init", "key", "packet", "error"}

ReadSteps == {"off", "armed", "packet", "error", "logout", "remove"}

TypeOK ==
    /\ concurrency \in Concurrencies
    /\ used \subseteq Tokens
    /\ accept \in {"armed", "failed"} \cup AddSteps
    /\ adding \in Tokens \cup {"none"}
    /\ adding = "none" <=> accept \notin AddSteps
    /\ reader \in [Tokens -> ReadSteps]
    /\ packetHandlers \in [Tokens -> 0..PacketTypes]
    /\ errorHandler \subseteq Tokens
    /\ connected \subseteq Tokens
    /\ clientKeys \subseteq Tokens
    /\ connMtx \in BOOLEAN
    /\ disconnectMtx \subseteq Tokens
    /\ unheard \subseteq Tokens

Init ==
    /\ concurrency \in Concurrencies
    /\ used = {}
    /\ accept = "armed"
    /\ adding = "none"
    /\ reader = [t \in Tokens |-> "off"]
    /\ packetHandlers = [t \in Tokens |-> 0]
    /\ errorHandler = {}
    /\ connected = {}
    /\ clientKeys = {}
    /\ connMtx = FALSE
    /\ disconnectMtx = {}
    /\ unheard = {}

\* A handler that waits for a lock keeps its thread.
Running ==
    Cardinality({t \in Tokens : reader[t] \notin {"off", "armed"}})
        + (IF accept \in AddSteps THEN 1 ELSE 0)

FreeThread == Running < concurrency

-----------------------------------------------------------------------------
(* Slips: what an action would be after a plausible mistake in the code.   *)
(* No specification uses them; each breaks one of the properties below.    *)

\* The packet handlers are registered before client:{token} is written.
InitThenHandlers ==
    /\ accept = "init"
    /\ reader' = [reader EXCEPT ![adding] = "armed"]
    /\ packetHandlers' = [packetHandlers EXCEPT ![adding] = PacketTypes]
    /\ accept' = "key"
    /\ UNCHANGED <<concurrency, used, adding, errorHandler, connected, clientKeys,
                   connMtx, disconnectMtx, unheard>>

\* The disconnect handler is registered as soon as the socket is known.
LockThenErrorHandler ==
    /\ accept = "lock"
    /\ ~connMtx
    /\ connMtx' = TRUE
    /\ connected' = connected \cup {adding}
    /\ errorHandler' = errorHandler \cup {adding}
    /\ accept' = "init"
    /\ UNCHANGED <<concurrency, used, adding, reader, packetHandlers, clientKeys,
                   disconnectMtx, unheard>>

\* A packet handler more than there are packet types.
SetPacketHandlerTooMany ==
    /\ accept = "packet"
    /\ packetHandlers' = [packetHandlers EXCEPT ![adding] = @ + 1]
    /\ accept' = IF packetHandlers[adding] = PacketTypes THEN "error" ELSE "packet"
    /\ UNCHANGED <<concurrency, used, adding, reader, errorHandler, connected,
                   clientKeys, connMtx, disconnectMtx, unheard>>

\* AddClient returns without giving up _connMtx.
SetErrorHandlerKeepsLock ==
    /\ accept = "error"
    /\ adding \notin disconnectMtx
    /\ errorHandler' = errorHandler \cup {adding}
    /\ adding' = "none"
    /\ accept' = "armed"
    /\ UNCHANGED <<concurrency, used, reader, packetHandlers, connected, clientKeys,
                   connMtx, disconnectMtx, unheard>>

\* HandleError returns without a look at the handlers.
HandleErrorIgnored(t) ==
    /\ reader[t] = "error"
    /\ reader' = [reader EXCEPT ![t] = "off"]
    /\ UNCHANGED <<concurrency, used, accept, adding, packetHandlers, errorHandler,
                   connected, clientKeys, connMtx, disconnectMtx, unheard>>

-----------------------------------------------------------------------------
(* Acceptor::Accept and Server::AddClient.                                 *)

\* A peer is accepted and its socket draws a token nobody holds.
AcceptClient(t) ==
    /\ accept = "armed"
    /\ FreeThread
    /\ t \notin used
    /\ used' = used \cup {t}
    /\ adding' = t
    /\ accept' = "lock"
    /\ UNCHANGED <<concurrency, reader, packetHandlers, errorHandler, connected,
                   clientKeys, connMtx, disconnectMtx, unheard>>

\* async_accept reports an error: it is not called again.
AcceptError ==
    /\ accept = "armed"
    /\ FreeThread
    /\ accept' = "failed"
    /\ UNCHANGED <<concurrency, used, adding, reader, packetHandlers, errorHandler,
                   connected, clientKeys, connMtx, disconnectMtx, unheard>>

AddLock ==
    /\ accept = "lock"
    /\ ~connMtx
    /\ connMtx' = TRUE
    /\ connected' = connected \cup {adding}
    /\ accept' = "init"
    /\ UNCHANGED <<concurrency, used, adding, reader, packetHandlers, errorHandler,
                   clientKeys, disconnectMtx, unheard>>

\* From here on the reads of the socket may complete on another thread.
AddInit ==
    /\ accept = "init"
    /\ reader' = [reader EXCEPT ![adding] = "armed"]
    /\ accept' = "key"
    /\ UNCHANGED <<concurrency, used, adding, packetHandlers, errorHandler,
                   connected, clientKeys, connMtx, disconnectMtx, unheard>>

AddKey ==
    /\ accept = "key"
    /\ clientKeys' = clientKeys \cup {adding}
    /\ accept' = "packet"
    /\ UNCHANGED <<concurrency, used, adding, reader, packetHandlers, errorHandler,
                   connected, connMtx, disconnectMtx, unheard>>

SetPacketHandler ==
    /\ accept = "packet"
    /\ packetHandlers' = [packetHandlers EXCEPT ![adding] = @ + 1]
    /\ accept' = IF packetHandlers[adding] + 1 = PacketTypes THEN "error" ELSE "packet"
    /\ UNCHANGED <<concurrency, used, adding, reader, errorHandler, connected,
                   clientKeys, connMtx, disconnectMtx, unheard>>

\* Then AddClient returns, gives up _connMtx, and the next accept is issued.
SetErrorHandler ==
    /\ accept = "error"
    /\ adding \notin disconnectMtx
    /\ errorHandler' = errorHandler \cup {adding}
    /\ connMtx' = FALSE
    /\ adding' = "none"
    /\ accept' = "armed"
    /\ UNCHANGED <<concurrency, used, reader, packetHandlers, connected, clientKeys,
                   disconnectMtx, unheard>>

-----------------------------------------------------------------------------
(* The chain of reads of one socket.                                       *)

\* A packet of a type that has a handler by now is given to it; any other is
\* dropped and the next read issued, which changes nothing.
HandlePacket(t, type) ==
    /\ reader[t] = "armed"
    /\ FreeThread
    /\ type <= packetHandlers[t]
    /\ reader' = [reader EXCEPT ![t] = "packet"]
    /\ UNCHANGED <<concurrency, used, accept, adding, packetHandlers, errorHandler,
                   connected, clientKeys, connMtx, disconnectMtx, unheard>>

\* The handler is done and the next read issued.
ReadAsync(t) ==
    /\ reader[t] = "packet"
    /\ reader' = [reader EXCEPT ![t] = "armed"]
    /\ UNCHANGED <<concurrency, used, accept, adding, packetHandlers, errorHandler,
                   connected, clientKeys, connMtx, disconnectMtx, unheard>>

\* The read ends in an error or in end of file: no other is issued.
ReadError(t) ==
    /\ reader[t] = "armed"
    /\ FreeThread
    /\ reader' = [reader EXCEPT ![t] = "error"]
    /\ UNCHANGED <<concurrency, used, accept, adding, packetHandlers, errorHandler,
                   connected, clientKeys, connMtx, disconnectMtx, unheard>>

\* HandleError runs the disconnect handler under _disconnectHandlerMtx; when
\* none is registered it returns at once.
HandleError(t) ==
    /\ reader[t] = "error"
    /\ \/ /\ t \in errorHandler
          /\ disconnectMtx' = disconnectMtx \cup {t}
          /\ reader' = [reader EXCEPT ![t] = "logout"]
          /\ UNCHANGED unheard
       \/ /\ t \notin errorHandler
          /\ reader' = [reader EXCEPT ![t] = "off"]
          /\ unheard' = unheard \cup {t}
          /\ UNCHANGED disconnectMtx
    /\ UNCHANGED <<concurrency, used, accept, adding, packetHandlers, errorHandler,
                   connected, clientKeys, connMtx>>

\* Server::LogoutClient, then ClientSocket::Stop.
LogoutAndStop(t) ==
    /\ reader[t] = "logout"
    /\ reader' = [reader EXCEPT ![t] = "remove"]
    /\ UNCHANGED <<concurrency, used, accept, adding, packetHandlers, errorHandler,
                   connected, clientKeys, connMtx, disconnectMtx, unheard>>

RemoveClient(t) ==
    /\ reader[t] = "remove"
    /\ ~connMtx
    /\ clientKeys' = clientKeys \ {t}
    /\ connected' = connected \ {t}
    /\ disconnectMtx' = disconnectMtx \ {t}
    /\ reader' = [reader EXCEPT ![t] = "off"]
    /\ UNCHANGED <<concurrency, used, accept, adding, packetHandlers, errorHandler,
                   connMtx, unheard>>

\* Nobody refers to the socket any more: not the map, not a read, not
\* AddClient, not a write under way.  Its token returns to the pool.
Destroy(t) ==
    /\ t \in used \ connected
    /\ adding # t
    /\ reader[t] = "off"
    /\ used' = used \ {t}
    /\ packetHandlers' = [packetHandlers EXCEPT ![t] = 0]
    /\ errorHandler' = errorHandler \ {t}
    /\ UNCHANGED <<concurrency, accept, adding, reader, connected, clientKeys,
                   connMtx, disconnectMtx, unheard>>

-----------------------------------------------------------------------------
(* The specification.                                                      *)

AddClient == AddLock \/ AddInit \/ AddKey \/ SetPacketHandler \/ SetErrorHandler

Read(t) ==
    ReadAsync(t) \/ HandleError(t) \/ LogoutAndStop(t) \/ RemoveClient(t)

Next ==
    \/ AcceptError \/ AddClient
    \/ \E t \in Tokens :
        \/ AcceptClient(t) \/ ReadError(t) \/ Read(t) \/ Destroy(t)
        \/ \E type \in 1..PacketTypes : HandlePacket(t, type)

Spec == Init /\ [][Next]_vars

\* The io threads go on with what they run, and a thread that waits for a
\* mutex gets it if it is free again and again.  Peers are left open.
Fairness ==
    /\ WF_vars(AddClient)
    /\ \A t \in Tokens : WF_vars(Read(t)) /\ SF_vars(RemoveClient(t))

FairSpec == Spec /\ Fairness

-----------------------------------------------------------------------------
(* Properties.                                                             *)

\* AddClient and a HandleError never wait for each other's lock, although
\* they take the two in opposite order (Server.cpp:42 and ClientSocket.cpp:242
\* against ClientSocket.cpp:180 and Server.cpp:23): a socket whose disconnect
\* handler can reach RemoveClient is one AddClient is done with.
NoLockCycle ==
    \A t \in Tokens :
        ~(accept = "error" /\ adding = t /\ t \in disconnectMtx
            /\ reader[t] \in {"logout", "remove"})

\* A packet handler finds the client:{token} of its connection
\* (Server.cpp:52-58), and no token is drawn again while the map or Redis
\* still has an entry for it (Server.cpp:24-25, ClientSocket.cpp:278).
KeysFollowSockets ==
    /\ \A t \in Tokens : reader[t] = "packet" => t \in clientKeys
    /\ clientKeys \subseteq connected
    /\ connected \subseteq used

\* Every connection Server keeps, and with it every key client:{token}, is
\* one that is still read from, or whose disconnect handler is at work, or
\* whose only read failed before AddClient came to SetErrorHandler
\* (Server.cpp:43-44, 110-124); no read does with one io thread
\* (main.cpp:84-97).
KeptIsServed ==
    /\ \A t \in connected \ unheard :
        reader[t] # "off" \/ (adding = t /\ accept = "init")
    /\ concurrency = 1 => unheard = {}

\* A disconnect is carried through (ClientSocket.cpp:180-185): once a read
\* has failed, the locks do not keep its handler waiting for ever.
DisconnectCompletes == \A t \in Tokens : reader[t] = "error" ~> reader[t] = "off"

\* Nor AddClient, and with it the next accept (Acceptor.cpp:37-40).
AddClientCompletes == accept \in AddSteps ~> accept = "armed"
=============================================================================
