------------------------------- MODULE Lobby -------------------------------
(***************************************************************************)
(* The lobby of the older server: LobbyManager keeps the sessions whose    *)
(* host has not announced a join code yet (_emptySessions) and the         *)
(* activated ones (_sessions), a Session keeps its data under two Redis    *)
(* keys, session:{token} and session:{token}:clients, which expire three   *)
(* minutes after the session was created unless the host enters it, and a  *)
(* timer rewrites the list of sessions that clients are sent.              *)
(*                                                                         *)
(* A step is what a handler does up to the next point where Redis, a lock  *)
(* or the timer may show it a change.  A handler that waits for a lock     *)
(* keeps its thread.  Requests that are turned away before they change     *)
(* anything (a message that does not parse, a name of one character) are   *)
(* not steps.                                                              *)
(***************************************************************************)
EXTENDS Naturals, FiniteSets

CONSTANTS
    Clients,        \* tokens of the client sockets
    Sessions,       \* tokens of sessions; LobbyManager's indices map to them
    MaxClientCount, \* what LobbyManager::CreateSession passes on, 4
    IoThreads       \* threads in io_context::run()

ASSUME LobbyAssumption ==
    /\ IsFiniteSet(Clients) /\ IsFiniteSet(Sessions)
    /\ MaxClientCount \in Nat \ {0}
    /\ IoThreads \in Nat \ {0}
    /\ Clients \cap {"none", "timer"} = {}
    /\ "none" \notin Sessions

VARIABLES
    up,             \* FALSE once an exception or a bad dereference ended the process
    pc,             \* pc[c]: where the handler of c is, and with which session
    joinHandler,    \* joinHandler[c]: session whose JOINCODE handler c has
    envHandler,     \* envHandler[c]: session of its REQUEST_ENVIRONMENT handler
    clientKeys,     \* Redis: the keys client:{token}
    sessionKey,     \* Redis session:{token}: see KeyStates
    clientsKey,     \* Redis session:{token}:clients: the fields of the hash
    clientsTtl,     \* sessions whose clients key has a time to live
    empty,          \* LobbyManager::_emptySessions
    active,         \* LobbyManager::_sessions
    holder,         \* who holds _sessionsMtx: a client's handler, which also
                    \* holds _emptySessionsMtx, or the timer's, which also
                    \* holds _RSLCacheMtx
    timer,          \* "armed", "waiting" for the locks or "running"
    todo,           \* sessions the running timer handler has yet to visit
    draft,          \* the list it writes
    cache,          \* _serializedRSLCache
    creator,        \* the client that created the session: its hostToken
    entered         \* history: the clients told that they entered the session

redis   == <<clientKeys, sessionKey, clientsKey, clientsTtl>>
sockets == <<joinHandler, envHandler>>
maps    == <<empty, active>>
lists   == <<timer, todo, draft, cache>>
history == <<creator, entered>>
vars    == <<up, pc, holder, redis, sockets, maps, lists, history>>

\* No key, one that expires, one that does not, and one that holds nothing
\* but a join code.
KeyStates == {"none", "volatile", "persistent", "torn"}

Complete(s) == sessionKey[s] \in {"volatile", "persistent"}

Resting == {"out", "idle", "left"}  \* not known, no handler runs, socket stopped

Steps == {"insert", "list", "enter", "valid", "hostToken", "persistSession",
          "persistClients", "hostIn", "count", "member", "codeSet", "activate"}

Listing == [count : Nat, list : SUBSET Sessions]

TypeOK ==
    /\ up \in BOOLEAN
    /\ pc \in [Clients -> [at : Resting \cup Steps, session : Sessions \cup {"none"}]]
    /\ \A c \in Clients : pc[c].session = "none" <=> pc[c].at \in Resting \cup {"list"}
    /\ joinHandler \in [Clients -> Sessions \cup {"none"}]
    /\ envHandler \in [Clients -> Sessions \cup {"none"}]
    /\ clientKeys \subseteq Clients
    /\ sessionKey \in [Sessions -> KeyStates]
    /\ clientsKey \in [Sessions -> SUBSET Clients]
    /\ clientsTtl \subseteq {s \in Sessions : clientsKey[s] # {}}
    /\ empty \subseteq Sessions /\ active \subseteq Sessions \ empty
    /\ holder \in Clients \cup {"none", "timer"}
    /\ timer \in {"armed", "waiting", "running"}
    /\ todo \subseteq Sessions
    /\ draft \in Listing /\ cache \in Listing
    /\ creator \in [Sessions -> Clients \cup {"none"}]
    /\ entered \in [Sessions -> SUBSET Clients]

NoSessions == [count |-> 0, list |-> {}]

Init ==
    /\ up = TRUE
    /\ pc = [c \in Clients |-> [at |-> "out", session |-> "none"]]
    /\ joinHandler = [c \in Clients |-> "none"]
    /\ envHandler = [c \in Clients |-> "none"]
    /\ clientKeys = {}
    /\ sessionKey = [s \in Sessions |-> "none"]
    /\ clientsKey = [s \in Sessions |-> {}]
    /\ clientsTtl = {}
    /\ empty = {} /\ active = {}
    /\ holder = "none"
    /\ timer = "armed" /\ todo = {}
    /\ draft = NoSessions /\ cache = NoSessions
    /\ creator = [s \in Sessions |-> "none"]
    /\ entered = [s \in Sessions |-> {}]

\* Where a process that is alive has come to.
At(c, step) == up /\ pc[c].at = step
TimerIs(state) == up /\ timer = state

FreeThread ==
    /\ up
    /\ Cardinality({c \in Clients : pc[c].at \in Steps})
            + (IF timer = "armed" THEN 0 ELSE 1) < IoThreads

\* A request is given to its handler: one at a time for each client, on a
\* thread that is free.
CanBegin(c) == At(c, "idle") /\ FreeThread

Goto(c, step) == pc' = [pc EXCEPT ![c].at = step]
Begin(c, step, s) == pc' = [pc EXCEPT ![c] = [at |-> step, session |-> s]]
Rest(c, state) == pc' = [pc EXCEPT ![c] = [at |-> state, session |-> "none"]]

\* HandleRequestSessionEnter answers that the client may not enter.
Refuse(c) ==
    /\ Rest(c, "idle")
    /\ holder' = "none"
    /\ UNCHANGED <<up, redis, sockets, maps, lists, history>>

\* An exception leaves the handler, and with it io_context::run(): nothing
\* runs any more.  The sessions and the list keep their last values.
Die ==
    /\ up' = FALSE
    /\ pc' = [c \in Clients |-> [at |-> "out", session |-> "none"]]
    /\ joinHandler' = [c \in Clients |-> "none"]
    /\ envHandler' = [c \in Clients |-> "none"]
    /\ holder' = "none"
    /\ timer' = "armed" /\ todo' = {} /\ draft' = NoSessions
    /\ UNCHANGED <<redis, maps, cache, history>>

-----------------------------------------------------------------------------
(* Slips: what an action would be after a plausible mistake in the code.   *)
(* No specification uses them; each breaks one of the properties below.    *)

\* Only the clients key is made to stay.
PersistSessionForgotten(c) ==
    /\ At(c, "persistSession")
    /\ Goto(c, "persistClients")
    /\ UNCHANGED <<up, holder, redis, sockets, maps, lists, history>>

\* Only the session key is made to stay.
PersistClientsForgotten(c) ==
    /\ At(c, "persistClients")
    /\ Goto(c, "member")
    /\ UNCHANGED <<up, holder, redis, sockets, maps, lists, history>>

\* The session is put among the activated ones as soon as it is created.
InsertActivated(c) ==
    /\ At(c, "insert")
    /\ holder \notin Clients
    /\ active' = active \cup {pc[c].session}
    /\ Rest(c, "idle")
    /\ UNCHANGED <<up, holder, redis, sockets, empty, lists, history>>

\* The locks are given up before AddClient is called.
EnterWithoutLocks(c) ==
    /\ At(c, "enter")
    /\ holder = "none"
    /\ \/ pc[c].session \notin empty \cup active /\ Rest(c, "idle")
       \/ pc[c].session \in empty \cup active /\ Goto(c, "valid")
    /\ UNCHANGED <<up, holder, redis, sockets, maps, lists, history>>

\* The next rewrite is called before the locks are given up.
RewriteInsideLocks ==
    /\ TimerIs("running")
    /\ todo = {}
    /\ cache' = draft
    /\ timer' = "waiting"
    /\ UNCHANGED <<up, pc, holder, redis, sockets, maps, todo, draft, history>>

\* Nothing to list: the function returns before the timer is armed.
RewriteUnarmed ==
    /\ TimerIs("running")
    /\ todo = {}
    /\ cache' = draft
    /\ timer' = IF draft.count = 0 THEN "off" ELSE "armed"
    /\ holder' = "none"
    /\ UNCHANGED <<up, pc, redis, sockets, maps, todo, draft, history>>

\* The index is not looked for in _emptySessions.
ActivateTwice(c) ==
    /\ At(c, "activate")
    /\ holder = "none"
    /\ active' = active \cup {pc[c].session}
    /\ Rest(c, "idle")
    /\ UNCHANGED <<up, holder, redis, sockets, empty, lists, history>>

-----------------------------------------------------------------------------
(* Entering and leaving the lobby.                                         *)

\* The nickname is checked against the key of the client's own token, so
\* which nickname it is makes no difference.
RequestEnterLobby(c) ==
    /\ At(c, "out")
    /\ FreeThread
    /\ c \notin clientKeys
    /\ clientKeys' = clientKeys \cup {c}
    /\ Rest(c, "idle")
    /\ UNCHANGED <<up, holder, sessionKey, clientsKey, clientsTtl, sockets, maps,
                   lists, history>>

\* The socket is stopped; the next read of it fails.
HandleRequestSessionLeave(c) ==
    /\ CanBegin(c)
    /\ Rest(c, "left")
    /\ UNCHANGED <<up, holder, redis, sockets, maps, lists, history>>

\* The sessions are not told.  The socket and its handlers are destroyed;
\* its token may be drawn again.
DisconnectedClient(c) ==
    /\ pc[c].at \in {"idle", "left"}
    /\ FreeThread
    /\ clientKeys' = clientKeys \ {c}
    /\ joinHandler' = [joinHandler EXCEPT ![c] = "none"]
    /\ envHandler' = [envHandler EXCEPT ![c] = "none"]
    /\ Rest(c, "out")
    /\ UNCHANGED <<up, holder, sessionKey, clientsKey, clientsTtl, maps, lists, history>>

-----------------------------------------------------------------------------
(* REQUEST_SESSION_CREATION.                                               *)

\* A name that is not UTF-8: nobody catches what utf8_length throws.
CreateThrows(c) == CanBegin(c) /\ Die

\* Session::CreateSession.  Nobody else knows the two keys yet; the host is
\* a field of the second one already.
CreateSession(c, s) ==
    /\ CanBegin(c)
    /\ creator[s] = "none"
    /\ creator' = [creator EXCEPT ![s] = c]
    /\ sessionKey' = [sessionKey EXCEPT ![s] = "volatile"]
    /\ clientsKey' = [clientsKey EXCEPT ![s] = {c}]
    /\ clientsTtl' = clientsTtl \cup {s}
    /\ Begin(c, "insert", s)
    /\ UNCHANGED <<up, holder, clientKeys, sockets, maps, lists, entered>>

\* LobbyManager::CreateSession files it under the next index.  The counter is
\* never initialised: the client may be answered -1, and still a session is filed.
InsertSession(c) ==
    /\ At(c, "insert")
    /\ holder \notin Clients
    /\ empty' = empty \cup {pc[c].session}
    /\ Rest(c, "idle")
    /\ UNCHANGED <<up, holder, redis, sockets, active, lists, history>>

-----------------------------------------------------------------------------
(* REQUEST_SESSION_ENTRY.                                                  *)

RequestEntry(c, s) ==
    /\ CanBegin(c)
    /\ Begin(c, "enter", s)
    /\ UNCHANGED <<up, holder, redis, sockets, maps, lists, history>>

\* Both locks are kept until the answer is sent.
HandleRequestSessionEnter(c) ==
    /\ At(c, "enter")
    /\ holder = "none"
    /\ \/ /\ pc[c].session \notin empty \cup active
          /\ Rest(c, "idle")
          /\ UNCHANGED holder
       \/ /\ pc[c].session \in empty \cup active
          /\ Goto(c, "valid")
          /\ holder' = c
    /\ UNCHANGED <<up, redis, sockets, maps, lists, history>>

IsValidSession(s) == Complete(s) /\ clientsKey[s] # {}

AddValid(c) ==
    /\ At(c, "valid")
    /\ \/ /\ c \in clientKeys /\ IsValidSession(pc[c].session)
          /\ Goto(c, "hostToken")
          /\ UNCHANGED <<up, holder, redis, sockets, maps, lists, history>>
       \/ /\ ~(c \in clientKeys /\ IsValidSession(pc[c].session))
          /\ Refuse(c)

\* The host gets the handler of JOINCODE, in place of one it may have for
\* another session.
AddAsHost(c) ==
    /\ joinHandler' = [joinHandler EXCEPT ![c] = pc[c].session]
    /\ Goto(c, "persistSession")
    /\ UNCHANGED <<up, holder, redis, envHandler, maps, lists, history>>

\* When the key has expired since it was found valid, the missing value is
\* used all the same: stoull throws, or it yields any number.  A client that
\* is then taken for a guest is refused for want of a maxClientCount.
AddHostToken(c) ==
    LET s == pc[c].session IN
    /\ At(c, "hostToken")
    /\ \/ Complete(s) /\ creator[s] = c /\ AddAsHost(c)
       \/ /\ Complete(s) /\ creator[s] # c
          /\ Goto(c, "hostIn")
          /\ UNCHANGED <<up, holder, redis, sockets, maps, lists, history>>
       \/ ~Complete(s) /\ (Die \/ AddAsHost(c) \/ Refuse(c))

AddPersistSession(c) ==
    LET s == pc[c].session IN
    /\ At(c, "persistSession")
    /\ sessionKey' = [sessionKey EXCEPT ![s] = IF @ = "volatile" THEN "persistent" ELSE @]
    /\ Goto(c, "persistClients")
    /\ UNCHANGED <<up, holder, clientKeys, clientsKey, clientsTtl, sockets, maps,
                   lists, history>>

AddPersistClients(c) ==
    /\ At(c, "persistClients")
    /\ clientsTtl' = clientsTtl \ {pc[c].session}
    /\ Goto(c, "member")
    /\ UNCHANGED <<up, holder, clientKeys, sessionKey, clientsKey, sockets, maps,
                   lists, history>>

\* A guest: the host is in the session, and it has a maxClientCount.
AddHostIn(c) ==
    LET s == pc[c].session IN
    /\ At(c, "hostIn")
    /\ \/ /\ creator[s] \in clientsKey[s] /\ Complete(s)
          /\ Goto(c, "count")
          /\ UNCHANGED <<up, holder, redis, sockets, maps, lists, history>>
       \/ ~(creator[s] \in clientsKey[s] /\ Complete(s)) /\ Refuse(c)

Full(s) == Cardinality(clientsKey[s]) > MaxClientCount

AddCount(c) ==
    /\ At(c, "count")
    /\ \/ /\ ~Full(pc[c].session)
          /\ Goto(c, "member")
          /\ UNCHANGED <<up, holder, redis, sockets, maps, lists, history>>
       \/ Full(pc[c].session) /\ Refuse(c)

\* HashSet makes the key anew if it has expired, without a time to live.
AddMember(c) ==
    LET s == pc[c].session IN
    /\ At(c, "member")
    /\ envHandler' = [envHandler EXCEPT ![c] = s]
    /\ clientsKey' = [clientsKey EXCEPT ![s] = @ \cup {c}]
    /\ entered' = [entered EXCEPT ![s] = @ \cup {c}]
    /\ holder' = "none"
    /\ Rest(c, "idle")
    /\ UNCHANGED <<up, clientKeys, sessionKey, clientsTtl, joinHandler, maps, lists,
                   creator>>

\* REQUEST_ENVIRONMENT of a session whose key has expired: the missing fields
\* are used all the same.
EnvironmentGone(c) ==
    /\ CanBegin(c)
    /\ envHandler[c] # "none"
    /\ ~Complete(envHandler[c])
    /\ Die

-----------------------------------------------------------------------------
(* JOINCODE, which activates the session.                                  *)

\* SetHostJoinCode finds the sender to be the host.
CodeGet(c) ==
    LET s == joinHandler[c] IN
    /\ CanBegin(c)
    /\ s # "none"
    /\ Complete(s) /\ creator[s] = c
    /\ Begin(c, "codeSet", s)
    /\ UNCHANGED <<up, holder, redis, sockets, maps, lists, history>>

CodeSet(c) ==
    LET s == pc[c].session IN
    /\ At(c, "codeSet")
    /\ sessionKey' = [sessionKey EXCEPT ![s] = IF @ = "none" THEN "torn" ELSE @]
    /\ Goto(c, "activate")
    /\ UNCHANGED <<up, holder, clientKeys, clientsKey, clientsTtl, sockets, maps,
                   lists, history>>

ActivateSession(c) ==
    LET s == pc[c].session IN
    /\ At(c, "activate")
    /\ holder = "none"
    /\ active' = IF s \in empty THEN active \cup {s} ELSE active
    /\ empty' = empty \ {s}
    /\ Rest(c, "idle")
    /\ UNCHANGED <<up, holder, redis, sockets, lists, history>>

-----------------------------------------------------------------------------
(* REQUEST_SESSION_LIST and the timer that writes the list.                *)

RequestList(c) ==
    /\ CanBegin(c)
    /\ Begin(c, "list", "none")
    /\ UNCHANGED <<up, holder, redis, sockets, maps, lists, history>>

SendCurrentActivedSessionList(c) ==
    /\ At(c, "list")
    /\ holder # "timer"
    /\ Rest(c, "idle")
    /\ UNCHANGED <<up, holder, redis, sockets, maps, lists, history>>

TimerFires ==
    /\ TimerIs("armed")
    /\ FreeThread
    /\ timer' = "waiting"
    /\ UNCHANGED <<up, pc, holder, redis, sockets, maps, todo, draft, cache, history>>

RewriteLock ==
    /\ TimerIs("waiting")
    /\ holder = "none"
    /\ holder' = "timer"
    /\ timer' = "running"
    /\ todo' = active
    /\ draft' = [count |-> Cardinality(active), list |-> {}]
    /\ UNCHANGED <<up, pc, redis, sockets, maps, cache, history>>

\* GetSessionInfo; a session that is not valid is left out.
RewriteEntry(s) ==
    /\ TimerIs("running")
    /\ s \in todo
    /\ todo' = todo \ {s}
    /\ draft' = [draft EXCEPT !.list = IF IsValidSession(s) THEN @ \cup {s} ELSE @]
    /\ UNCHANGED <<up, pc, holder, redis, sockets, maps, timer, cache, history>>

\* The cache is replaced, the locks given up, and the timer armed again.
RewriteDone ==
    /\ TimerIs("running")
    /\ todo = {}
    /\ cache' = draft
    /\ timer' = "armed"
    /\ holder' = "none"
    /\ UNCHANGED <<up, pc, redis, sockets, maps, todo, draft, history>>

-----------------------------------------------------------------------------
(* Redis: three minutes have passed.  The session key, whose expiry was    *)
(* set first, goes first.                                                  *)

ExpireSession(s) ==
    /\ sessionKey[s] = "volatile"
    /\ sessionKey' = [sessionKey EXCEPT ![s] = "none"]
    /\ UNCHANGED <<up, pc, holder, clientKeys, clientsKey, clientsTtl, sockets, maps,
                   lists, history>>

ExpireClients(s) ==
    /\ s \in clientsTtl
    /\ sessionKey[s] # "volatile"
    /\ clientsKey' = [clientsKey EXCEPT ![s] = {}]
    /\ clientsTtl' = clientsTtl \ {s}
    /\ UNCHANGED <<up, pc, holder, clientKeys, sessionKey, sockets, maps, lists, history>>

-----------------------------------------------------------------------------
(* The specification.                                                      *)

\* The steps of a client's handler that wait for a lock, and the others.
Locking(c) ==
    \/ InsertSession(c) \/ HandleRequestSessionEnter(c) \/ ActivateSession(c)
    \/ SendCurrentActivedSessionList(c)

AddClient(c) ==
    \/ AddValid(c) \/ AddHostToken(c) \/ AddPersistSession(c) \/ AddPersistClients(c)
    \/ AddHostIn(c) \/ AddCount(c) \/ AddMember(c)

Request(c) ==
    \/ RequestEnterLobby(c) \/ HandleRequestSessionLeave(c) \/ DisconnectedClient(c)
    \/ CreateThrows(c) \/ EnvironmentGone(c) \/ CodeGet(c) \/ RequestList(c)
    \/ \E s \in Sessions : CreateSession(c, s) \/ RequestEntry(c, s)

Rewrite == RewriteDone \/ \E s \in Sessions : RewriteEntry(s)

Next ==
    \/ \E c \in Clients : Request(c) \/ Locking(c) \/ AddClient(c) \/ CodeSet(c)
    \/ TimerFires \/ RewriteLock \/ Rewrite
    \/ \E s \in Sessions : ExpireSession(s) \/ ExpireClients(s)

Spec == Init /\ [][Next]_vars

\* A thread goes on with the handler it runs while nothing keeps it waiting;
\* the timer's handler gets a thread, and the locks it waits for, if they are
\* free again and again.  Requests and expiry are left open.
Fairness ==
    /\ \A c \in Clients : WF_vars(Locking(c) \/ AddClient(c) \/ CodeSet(c))
    /\ SF_vars(TimerFires)
    /\ SF_vars(RewriteLock)
    /\ WF_vars(Rewrite)

FairSpec == Spec /\ Fairness

-----------------------------------------------------------------------------
(* Properties.                                                             *)

\* An activated session cannot expire: its two keys are complete and without
\* a time to live, although IsValidSession, the two Persist calls and
\* the HashSet of the join code are separate commands (session.cpp:28-42,
\* 226, 312-313).  So GetSessionInfo and REQUEST_ENVIRONMENT find what they
\* dereference (session.cpp:361-363).
ActiveKeysPersist ==
    \A s \in active :
        sessionKey[s] = "persistent" /\ clientsKey[s] # {} /\ s \notin clientsTtl

\* A join code is never written to a key that has expired meanwhile, which
\* would leave a hash without its other fields (session.cpp:28-42).
NeverTorn == \A s \in Sessions : sessionKey[s] # "torn"

\* A session in the list clients are sent is one the host has entered, and
\* is still there to be entered ("host가 입장하기 전까지는 보이지 않음",
\* session.cpp:177).
ListedHasHost ==
    \A s \in cache.list : creator[s] \in entered[s] /\ s \in active /\ IsValidSession(s)

\* The count in a list is the number of its entries (lobbyManager.cpp:161,
\* 182-183): none is skipped.
CacheCountMatches == cache.count = Cardinality(cache.list)

\* Entries that race for a place do not both get it: a session that counts as
\* full when a member is written takes nobody new, for the count is read and
\* the member added under the locks (lobbyManager.cpp:365, session.cpp:339-341,
\* 379).
FullTakesNobody ==
    [][\A s \in Sessions :
            Complete(s) /\ Full(s) => clientsKey'[s] \subseteq clientsKey[s]]_vars

\* "session에 입장 가능한 최대 client 수" (session.cpp:176): maxClientCount is
\* the number of clients that can enter a session.
WithinLimit ==
    \A s \in Sessions : Complete(s) => Cardinality(clientsKey[s]) <= MaxClientCount

\* "session를 active함(client가 들어올 수 있도록)" (session.cpp:244): it is
\* the join code of the host that lets the others come in.
GuestsAfterActivation ==
    \A s \in Sessions : entered[s] \subseteq {creator[s]} \/ s \in active

\* Nobody keeps the locks for ever, the handler of an entry across its many
\* calls on Redis and the timer's across the sessions it visits included
\* (lobbyManager.cpp:154, 365): whoever waits for them can go on.
LocksGivenBack == holder # "none" ~> (holder = "none" \/ ~up)

\* An activated session gets into the list that clients are sent, for the
\* timer is armed again after every rewrite (lobbyManager.cpp:173-194,
\* 209-215).
ActivatedGetsListed == \A s \in Sessions : s \in active ~> (s \in cache.list \/ ~up)

\* The lobby keeps the promise of SessionDirectory: a session is what its
\* Redis key and the map it is filed in make of it (session.cpp:183-192,
\* 312-313, lobbyManager.cpp:301-303), its host is in once it was told so, and
\* the list is the cache.
Directory == INSTANCE SessionDirectory WITH
    phase    <- [s \in Sessions |-> CASE creator[s] = "none" -> "none"
                                      [] creator[s] # "none" /\ ~Complete(s) -> "lapsed"
                                      [] Complete(s) /\ s \in active -> "active"
                                      [] OTHER -> "waiting"],
    host     <- creator,
    hostIn   <- {s \in Sessions : creator[s] \in entered[s]},
    shown    <- cache.list

ImplementsDirectory == Directory!Spec
=============================================================================
