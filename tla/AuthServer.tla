----------------------------- MODULE AuthServer -----------------------------
(***************************************************************************)
(* The login server: Server's packet and disconnect handlers, run by the   *)
(* io threads of main() over the Redis instance they share, together with  *)
(* the start, shutdown and death of the process.                           *)
(*                                                                         *)
(* A connection is identified by its token.  Its reads are chained (the    *)
(* next async_read_some is issued when the handler of the last one ends),  *)
(* so a connection runs at most one handler at a time; handlers of         *)
(* different connections interleave, as many at once as there are io       *)
(* threads.  Every call of Server on the IRedis interface is one step.     *)
(*                                                                         *)
(* Six variables are history: no step reads them, and they only tell the   *)
(* properties what happened before.                                        *)
(***************************************************************************)
EXTENDS Naturals, FiniteSets, Redis

CONSTANTS
    Tokens,     \* connection tokens of TokenPool64
    Ids,        \* account ids
    Profiles,   \* contents of a registration: its password, nickname and
                \* personalColor, all three told apart by the profile
    IoThreads   \* threads in io_context::run()

ASSUME AuthAssumption ==
    /\ IsFiniteSet(Tokens)
    /\ IoThreads \in Nat \ {0}

VARIABLES
    proc,       \* "boot", "run" or "stopping": the life of the process
    connected,  \* keys of Server::_connectedClients
    pc,         \* pc[t]: the next call of the handler t runs, or "idle"
    req,        \* req[t]: what that handler has parsed or read so far
    closing,    \* connections whose handler is the disconnect handler
    answered,   \* connections that got a response (a call of PostWrite)
                \* since their last request
    clientKey,  \* Redis: client:{token} -> ConnectedTime, loginId
    idKey,      \* Redis: id:{id} -> password, nickname, personalColor
    loginedKey, \* Redis: logined:{id} -> token, loginTime
    staleClient,    \* history: keys client: the last start did not delete
    staleLogined,   \* history: keys logined: the last start did not delete
    forked,         \* history: ids a registration looked up while another
                    \* was between its lookup and its first write
    contended,      \* history: ids whose lock a login looked up while
                    \* another was between its lookup and its write
    overwritten,    \* history: ids a client was logged in with when it
                    \* logged in with another one
    interrupted     \* history: ids whose registration a process left half
                    \* written

redis == <<clientKey, idKey, loginedKey>>
history == <<staleClient, staleLogined, forked, contended, overwritten,
             interrupted>>
vars == <<proc, connected, pc, req, closing, answered, clientKey, idKey,
          loginedKey, staleClient, staleLogined, forked, contended, overwritten,
          interrupted>>

-----------------------------------------------------------------------------
(* Data.                                                                   *)

ClientFields  == {"ConnectedTime", "loginId"}
AccountFields == {"password", "nickname", "personalColor"}
LoginedFields == {"token", "loginTime"}

\* The digest of a password: told apart from the password itself, and equal
\* for two passwords only when they are equal.
sha256(password) == <<"sha256", password>>

\* std::to_string of a token, or of the milliseconds of system_clock, which
\* nothing compares.
to_string(n) == <<"to_string", n>>

Now == to_string("now")

Digests == {sha256(p) : p \in Profiles}
TokenStrings == {to_string(t) : t \in Tokens}

ASSUME ValuesAssumption ==
    NoValue \notin Ids \cup Profiles \cup Digests \cup TokenStrings \cup {Now}

NoReq == [id |-> NoValue, profile |-> NoValue]

Requests == [id : Ids \cup {NoValue}, profile : Profiles \cup {NoValue}]

RegisterSteps == {"regExists", "regPassword", "regNickname", "regColor"}
LoginSteps    == {"logExists", "logPassword", "logLogined",
                  "logSetId", "logSetToken", "logSetTime"}
DataSteps     == {"datClient", "datLoginId", "datExists", "datNickname",
                  "datColor"}
LogoutSteps   == {"outClient", "outLoginId", "outDel", "outHashDel"}
Steps == RegisterSteps \cup LoginSteps \cup DataSteps \cup LogoutSteps
            \cup {"remove"}

TypeOK ==
    /\ proc \in {"boot", "run", "stopping"}
    /\ connected \subseteq Tokens
    /\ pc \in [Tokens -> Steps \cup {"idle"}]
    /\ req \in [Tokens -> Requests]
    /\ closing \subseteq connected
    /\ answered \subseteq Tokens
    /\ clientKey \in [Tokens -> Hash(ClientFields, Ids \cup {Now})]
    /\ idKey \in [Ids -> Hash(AccountFields, Digests \cup Profiles)]
    /\ loginedKey \in [Ids -> Hash(LoginedFields, TokenStrings \cup {Now})]
    /\ \A t \in Tokens : clientKey[t]["loginId"] \in Ids \cup {NoValue}
    /\ \A i \in Ids : /\ idKey[i]["password"] \in Digests \cup {NoValue}
                      /\ idKey[i]["nickname"] \in Profiles \cup {NoValue}
    /\ staleClient \subseteq Tokens
    /\ staleLogined \cup forked \cup contended \cup overwritten \cup interrupted
         \subseteq Ids

Init ==
    /\ proc = "boot"
    /\ connected = {}
    /\ pc = [t \in Tokens |-> "idle"]
    /\ req = [t \in Tokens |-> NoReq]
    /\ closing = {}
    /\ answered = {}
    /\ clientKey = [t \in Tokens |-> NoKey(ClientFields)]
    /\ idKey = [i \in Ids |-> NoKey(AccountFields)]
    /\ loginedKey = [i \in Ids |-> NoKey(LoginedFields)]
    /\ staleClient = {} /\ staleLogined = {}
    /\ forked = {} /\ contended = {} /\ overwritten = {} /\ interrupted = {}

-----------------------------------------------------------------------------
(* Running handlers.                                                       *)

Busy(t) == pc[t] # "idle"

FreeThread == Cardinality({t \in Tokens : Busy(t)}) < IoThreads

\* An io thread can take t's completed read.
CanBegin(t) ==
    /\ proc = "run"
    /\ t \in connected
    /\ ~Busy(t)
    /\ FreeThread

\* It does, and enters a handler of t.
Begin(t, at, r) ==
    /\ CanBegin(t)
    /\ pc' = [pc EXCEPT ![t] = at]
    /\ req' = [req EXCEPT ![t] = r]
    /\ answered' = answered \ {t}

Goto(t, there) ==
    /\ pc' = [pc EXCEPT ![t] = there]
    /\ UNCHANGED <<proc, connected, req, closing, answered>>

\* The handler returns after PostWrite of a response.
Respond(t) ==
    /\ pc' = [pc EXCEPT ![t] = "idle"]
    /\ req' = [req EXCEPT ![t] = NoReq]
    /\ answered' = answered \cup {t}
    /\ UNCHANGED <<proc, connected, closing>>

\* LogoutClient returns: to HandleRequestLogout, which sends no response, or
\* to the disconnect handler, which goes on to RemoveClient.
LogoutReturns(t) ==
    /\ pc' = [pc EXCEPT ![t] = IF t \in closing THEN "remove" ELSE "idle"]
    /\ req' = [req EXCEPT ![t] = NoReq]
    /\ UNCHANGED <<proc, connected, closing, answered>>

loginId(t) == HashGet(clientKey[t], "loginId")

\* The steps at which an account has some of its fields and not yet all.
Filling == {"regNickname", "regColor"}

\* The process is gone: its memory is lost, Redis keeps what it has.
ProcessEnds ==
    /\ proc' = "boot"
    /\ connected' = {}
    /\ pc' = [t \in Tokens |-> "idle"]
    /\ req' = [t \in Tokens |-> NoReq]
    /\ closing' = {}
    /\ answered' = {}
    /\ staleClient' = {} /\ staleLogined' = {}
    /\ forked' = {} /\ contended' = {} /\ overwritten' = {}
    /\ interrupted' = interrupted \cup
         {i \in Ids : \E t \in Tokens : pc[t] \in Filling /\ req[t].id = i}
    /\ UNCHANGED redis

-----------------------------------------------------------------------------
(* Calls on Redis.                                                         *)

\* A lookup that ends the handler with a failure response when it says no.
Check(t, here, yes, there) ==
    /\ pc[t] = here
    /\ IF yes THEN Goto(t, there) ELSE Respond(t)
    /\ UNCHANGED redis

SetAccount(t, here, field, value) ==
    /\ pc[t] = here
    /\ idKey' = HashSet(idKey, req[t].id, field, value)
    /\ UNCHANGED <<clientKey, loginedKey, history>>

SetLoginId(t, here, id) ==
    /\ pc[t] = here
    /\ clientKey' = HashSet(clientKey, t, "loginId", id)
    /\ overwritten' = overwritten \cup ({loginId(t)} \ {NoValue, req[t].id})
    /\ UNCHANGED <<idKey, loginedKey, staleClient, staleLogined,
                   forked, contended, interrupted>>

SetLogined(t, here, field, value) ==
    /\ pc[t] = here
    /\ loginedKey' = HashSet(loginedKey, req[t].id, field, value)
    /\ UNCHANGED <<clientKey, idKey, history>>

\* The id of t's request, when another handler is at one of the steps with it.
Overlap(t, steps) ==
    {i \in Ids : /\ req[t].id = i
                 /\ \E s \in Tokens \ {t} : pc[s] \in steps /\ req[s].id = i}

\* The two lookups whose answer other handlers may be about to change.
CheckAccount(t, yes) ==
    /\ Check(t, "regExists", yes, "regPassword")
    /\ forked' = forked \cup Overlap(t, {"regPassword"})
    /\ UNCHANGED <<staleClient, staleLogined, contended, overwritten, interrupted>>

CheckLogined(t, yes) ==
    /\ Check(t, "logLogined", yes, "logSetId")
    /\ contended' = contended \cup Overlap(t, {"logSetId", "logSetToken"})
    /\ UNCHANGED <<staleClient, staleLogined, forked, overwritten, interrupted>>

-----------------------------------------------------------------------------
(* Slips: what an action would be after a plausible mistake in the code.   *)
(* No specification uses them; each breaks one of the properties below.    *)

RegExistsIgnored(t) == CheckAccount(t, TRUE)

RegPasswordAfterNickname(t) ==
    SetAccount(t, "regPassword", "nickname", req[t].profile) /\ Goto(t, "regNickname")

RegNicknameOnly(t) ==
    SetAccount(t, "regNickname", "nickname", req[t].profile) /\ Respond(t)

LogExistsReturnsEarly(t) ==
    /\ pc[t] = "logExists"
    /\ IF Exists(idKey[req[t].id]) THEN Goto(t, "logPassword") ELSE LogoutReturns(t)
    /\ UNCHANGED <<redis, history>>

LogLoginedIgnored(t) == CheckLogined(t, TRUE)

LogSetIdToKey(t) ==
    SetLoginId(t, "logSetId", <<"logined:", req[t].id>>) /\ Goto(t, "logSetToken")

DisconnectWithoutLogout(t) ==
    /\ Begin(t, "remove", NoReq)
    /\ closing' = closing \cup {t}
    /\ UNCHANGED <<proc, connected, redis, history>>

OutDelForgotten(t) ==
    /\ pc[t] = "outDel"
    /\ Goto(t, "outHashDel")
    /\ UNCHANGED <<redis, history>>

OutHashDelForgotten(t) ==
    pc[t] = "outHashDel" /\ LogoutReturns(t) /\ UNCHANGED <<redis, history>>

RemoveClientKeepsKey(t) ==
    /\ pc[t] = "remove"
    /\ connected' = connected \ {t}
    /\ closing' = closing \ {t}
    /\ pc' = [pc EXCEPT ![t] = "idle"]
    /\ answered' = answered \ {t}
    /\ UNCHANGED <<proc, req, redis, history>>

-----------------------------------------------------------------------------
(* main(): the clean-up of the former process's keys before any io thread  *)
(* starts, the shutdown signal, and death.                                 *)

\* Both scans come first, then the deletions; nothing else runs before the
\* io threads, and dying in the middle leaves what a smaller page leaves.
Boot ==
    /\ proc = "boot"
    /\ \E clients \in Scan(clientKey), locks \in Scan(loginedKey) :
         /\ clientKey' = DelAll(clientKey, clients)
         /\ loginedKey' = DelAll(loginedKey, locks)
         /\ staleClient' = Keys(clientKey) \ clients
         /\ staleLogined' = Keys(loginedKey) \ locks
    /\ proc' = "run"
    /\ UNCHANGED <<connected, pc, req, closing, answered, idKey,
                   forked, contended, overwritten, interrupted>>

\* SIGINT or SIGTERM: io_context::stop() lets running handlers return and
\* starts no other.
Signal ==
    /\ proc = "run"
    /\ FreeThread
    /\ proc' = "stopping"
    /\ UNCHANGED <<connected, pc, req, closing, answered, redis, history>>

\* All io threads are joined and main() returns.
Exit ==
    /\ proc = "stopping"
    /\ \A t \in Tokens : ~Busy(t)
    /\ ProcessEnds

\* The process may die between any two calls: it is killed, or a Redis error
\* is thrown in an io thread, where nobody catches it.
Crash == proc # "boot" /\ ProcessEnds

-----------------------------------------------------------------------------
(* Server::AddClient, with the token TokenPool64 gave the new socket, as   *)
(* one step: ClientLifecycle has its parts and its locks, and shows that   *)
(* no handler of the new connection runs before its key is written.  The   *)
(* generator of TokenPool64 is seeded anew in every process: one of its    *)
(* 2^64 tokens that a former process has left a key for is not drawn again.*)

AddClient(t) ==
    /\ proc = "run"
    /\ FreeThread
    /\ t \notin connected /\ ~Exists(clientKey[t])
    /\ connected' = connected \cup {t}
    /\ clientKey' = HashSet(clientKey, t, "ConnectedTime", Now)
    /\ UNCHANGED <<proc, pc, req, closing, answered, idKey, loginedKey,
                   history>>

-----------------------------------------------------------------------------
(* Server::HandleRequestCreationAccount.                                   *)

\* A request whose body does not parse, or a registration with a field
\* shorter than 2, is answered without a call on Redis.  A logout that does
\* not parse is dropped, which changes nothing.
RejectRequest(t) ==
    /\ CanBegin(t)
    /\ answered' = answered \cup {t}
    /\ UNCHANGED <<proc, connected, pc, req, closing, redis, history>>

Register(t, i, p) ==
    /\ Begin(t, "regExists", [id |-> i, profile |-> p])
    /\ UNCHANGED <<proc, connected, closing, redis, history>>

RegExists(t) == CheckAccount(t, ~Exists(idKey[req[t].id]))

RegPassword(t) ==
    /\ SetAccount(t, "regPassword", "password", sha256(req[t].profile))
    /\ Goto(t, "regNickname")

RegNickname(t) ==
    SetAccount(t, "regNickname", "nickname", req[t].profile) /\ Goto(t, "regColor")

RegColor(t) ==
    SetAccount(t, "regColor", "personalColor", req[t].profile) /\ Respond(t)

-----------------------------------------------------------------------------
(* Server::HandleRequestLogin.                                             *)

Login(t, i, p) ==
    /\ Begin(t, "logExists", [id |-> i, profile |-> p])
    /\ UNCHANGED <<proc, connected, closing, redis, history>>

LogExists(t) ==
    Check(t, "logExists", Exists(idKey[req[t].id]), "logPassword") /\ UNCHANGED history

\* The code dereferences the optional HashGet returns; PasswordPresent below
\* is why it always holds a value.
LogPassword(t) ==
    LET matches == HashGet(idKey[req[t].id], "password") = sha256(req[t].profile)
    IN  Check(t, "logPassword", matches, "logLogined") /\ UNCHANGED history

LogLogined(t) == CheckLogined(t, ~Exists(loginedKey[req[t].id]))

LogSetId(t) == SetLoginId(t, "logSetId", req[t].id) /\ Goto(t, "logSetToken")

LogSetToken(t) ==
    SetLogined(t, "logSetToken", "token", to_string(t)) /\ Goto(t, "logSetTime")

LogSetTime(t) == SetLogined(t, "logSetTime", "loginTime", Now) /\ Respond(t)

-----------------------------------------------------------------------------
(* Server::HandleRequestPlayerData.                                        *)

PlayerData(t) ==
    /\ Begin(t, "datClient", NoReq)
    /\ UNCHANGED <<proc, connected, closing, redis, history>>

DatClient(t) ==
    Check(t, "datClient", Exists(clientKey[t]), "datLoginId") /\ UNCHANGED history

\* The loginId of t, when it has one, is what the handler goes on with.
ReadLoginId(t, here, there) ==
    /\ pc[t] = here
    /\ HashGet(clientKey[t], "loginId") # NoValue
    /\ pc' = [pc EXCEPT ![t] = there]
    /\ req' = [req EXCEPT ![t].id = HashGet(clientKey[t], "loginId")]
    /\ UNCHANGED <<proc, connected, closing, answered, redis, history>>

DatLoginId(t) ==
    \/ ReadLoginId(t, "datLoginId", "datExists")
    \/ /\ pc[t] = "datLoginId"
       /\ HashGet(clientKey[t], "loginId") = NoValue
       /\ Respond(t)
       /\ UNCHANGED <<redis, history>>

DatExists(t) ==
    Check(t, "datExists", Exists(idKey[req[t].id]), "datNickname") /\ UNCHANGED history

DatNickname(t) ==
    /\ pc[t] = "datNickname"
    /\ pc' = [pc EXCEPT ![t] = "datColor"]
    /\ req' = [req EXCEPT ![t].profile = HashGet(idKey[req[t].id], "nickname")]
    /\ UNCHANGED <<proc, connected, closing, answered, redis, history>>

\* Both optionals the response is built from hold a value.
ProfileRead(t) ==
    /\ req[t].profile # NoValue
    /\ HashGet(idKey[req[t].id], "personalColor") # NoValue

\* The last call also covers Persist, without effect on a key that has no
\* expiry.  Dereferencing an empty optional is undefined: the response is
\* sent with whatever the storage holds, or the process dies.
DatColor(t) ==
    /\ pc[t] = "datColor"
    /\ \/ Respond(t) /\ UNCHANGED <<redis, history>>
       \/ ~ProfileRead(t) /\ ProcessEnds

-----------------------------------------------------------------------------
(* Server::LogoutClient, called by HandleRequestLogout and by the handler  *)
(* AddClient registers for a disconnect.                                   *)

Logout(t) ==
    /\ Begin(t, "outClient", NoReq)
    /\ UNCHANGED <<proc, connected, closing, redis, history>>

\* The read ends in an error or in end of file.
Disconnect(t) ==
    /\ Begin(t, "outClient", NoReq)
    /\ closing' = closing \cup {t}
    /\ UNCHANGED <<proc, connected, redis, history>>

OutClient(t) ==
    /\ pc[t] = "outClient"
    /\ IF Exists(clientKey[t]) THEN Goto(t, "outLoginId") ELSE LogoutReturns(t)
    /\ UNCHANGED <<redis, history>>

OutLoginId(t) ==
    \/ ReadLoginId(t, "outLoginId", "outDel")
    \/ /\ pc[t] = "outLoginId"
       /\ HashGet(clientKey[t], "loginId") = NoValue
       /\ LogoutReturns(t)
       /\ UNCHANGED <<redis, history>>

OutDel(t) ==
    /\ pc[t] = "outDel"
    /\ loginedKey' = Del(loginedKey, req[t].id)
    /\ Goto(t, "outHashDel")
    /\ UNCHANGED <<clientKey, idKey, history>>

OutHashDel(t) ==
    /\ pc[t] = "outHashDel"
    /\ clientKey' = HashDel(clientKey, t, "loginId")
    /\ LogoutReturns(t)
    /\ UNCHANGED <<idKey, loginedKey, history>>

\* ClientSocket::Stop and Server::RemoveClient; with the last reference to
\* the socket its token returns to the pool.
RemoveClient(t) ==
    /\ pc[t] = "remove"
    /\ clientKey' = Del(clientKey, t)
    /\ connected' = connected \ {t}
    /\ closing' = closing \ {t}
    /\ pc' = [pc EXCEPT ![t] = "idle"]
    /\ answered' = answered \ {t}
    /\ UNCHANGED <<proc, req, idKey, loginedKey, history>>

-----------------------------------------------------------------------------
(* The specification.                                                      *)

RegisterStep(t) ==
    RegExists(t) \/ RegPassword(t) \/ RegNickname(t) \/ RegColor(t)

LoginStep(t) ==
    \/ LogExists(t) \/ LogPassword(t) \/ LogLogined(t)
    \/ LogSetId(t) \/ LogSetToken(t) \/ LogSetTime(t)

DataStep(t) ==
    \/ DatClient(t) \/ DatLoginId(t) \/ DatExists(t)
    \/ DatNickname(t) \/ DatColor(t)

LogoutStep(t) ==
    \/ OutClient(t) \/ OutLoginId(t) \/ OutDel(t) \/ OutHashDel(t)
    \/ RemoveClient(t)

\* The next step of the handler t runs.
Handler(t) == RegisterStep(t) \/ LoginStep(t) \/ DataStep(t) \/ LogoutStep(t)

\* What t's peer may send, or its disconnection.
Request(t) ==
    \/ RejectRequest(t) \/ PlayerData(t) \/ Logout(t) \/ Disconnect(t)
    \/ \E i \in Ids, p \in Profiles : Register(t, i, p) \/ Login(t, i, p)

Next ==
    \/ Boot \/ Signal \/ Exit \/ Crash
    \/ \E t \in Tokens : AddClient(t) \/ Request(t) \/ Handler(t)

Spec == Init /\ [][Next]_vars

\* The io threads keep running handlers and main() keeps going; what peers,
\* the operator and failures do is left open.
Fairness ==
    /\ WF_vars(Boot)
    /\ WF_vars(Exit)
    /\ \A t \in Tokens : WF_vars(Handler(t))

FairSpec == Spec /\ Fairness

-----------------------------------------------------------------------------
(* Properties.                                                             *)

\* HandleRequestLogin dereferences the password of every account it finds
\* (Server.cpp:220): whatever the interleaving of handlers and wherever the
\* process died during a registration, a key id:{id} that exists has one.
PasswordPresent ==
    \A i \in Ids : Exists(idKey[i]) => HashGet(idKey[i], "password") # NoValue

\* An account has all the fields a registration writes (Server.cpp:171-173)
\* once no registration is filling it, unless a process ended in the middle
\* of its registration: no interleaving of two registrations, no rejection
\* and no shutdown leaves a part.
AccountTornOnlyByEnd ==
    \A i \in Ids :
        \/ ~Exists(idKey[i])
        \/ \A f \in AccountFields : HashGet(idKey[i], f) # NoValue
        \/ \E t \in Tokens : pc[t] \in Filling /\ req[t].id = i
        \/ i \in interrupted

\* HandleRequestPlayerData and LogoutClient look up client:{token} before
\* they use it (Server.cpp:278, 354): from AddClient to RemoveClient, across
\* logouts and token reuse, the key of a connection exists with the time of
\* its connection, and the only other keys are those the first page of the
\* clean-up of this start did not hold (redisService.cpp:99).
ClientKeyTracksConnection ==
    proc # "boot" =>
        \A t \in Tokens :
            /\ Exists(clientKey[t]) <=> t \in connected \/ t \in staleClient
            /\ t \in connected => /\ clientKey[t]["ConnectedTime"] # NoValue
                                  /\ t \notin staleClient

\* The id a connection is logged in with: the loginId of its key until its
\* logout has released the account (Server.cpp:237, 371).
Session(t) ==
    IF t \in connected /\ pc[t] # "outHashDel" THEN loginId(t) ELSE NoValue

\* No two connections are logged in with the same id.
SingleLogin ==
    \A s, t \in Tokens : Session(s) = Session(t) /\ s # t => Session(t) = NoValue

\* logined:{id} is there to prevent a second login (Server.cpp:225).  It does,
\* through logouts, disconnections, second logins of a client and restarts
\* that leave keys behind, for every id whose lock was not looked up by one
\* login between the lookup and the write of another.
SingleLoginUnlessContended ==
    \A s, t \in Tokens :
        Session(s) = Session(t) /\ s # t => Session(t) \in {NoValue} \cup contended

\* The login of a connection is protected by a key logined:{id} that names
\* this connection, except before its own handler has written the key
\* (Server.cpp:237-238): nobody else's logout, disconnect or login, and no
\* clean-up, takes the key away from an id that is not contended.
SessionLocked ==
    \A t \in Tokens, i \in Ids \ contended :
        Session(t) = i /\ pc[t] # "logSetToken" => loginedKey[i]["token"] = to_string(t)

\* The token in logined:{id} identifies a real client (Server.cpp:238): an
\* id is locked only while some connection is logged in with it.
LockHasOwner ==
    proc # "boot" =>
        \A i \in Ids : Exists(loginedKey[i]) => \E t \in Tokens : Session(t) = i

\* A lock nobody holds keeps everybody out of the account.  It arises in two
\* ways only: this start found the key and its one page of Scan did not hold
\* it (main.cpp:65-75), or the client that held it logged in with another id
\* (Server.cpp:237), which replaces the loginId a logout would release.
LockExplained ==
    proc # "boot" =>
        \A i \in Ids :
            Exists(loginedKey[i]) =>
                \/ \E t \in Tokens : Session(t) = i
                \/ i \in staleLogined
                \/ i \in overwritten

\* A registration, login or player data request that reached its handler is
\* answered (Server.cpp:198, 261, 334), or the process dies first.
RequestAnswered ==
    \A t \in Tokens :
        pc[t] \in RegisterSteps \cup LoginSteps \cup DataSteps
            ~> t \in answered \/ proc = "boot"

\* A peer that goes away does not keep an account locked, whichever of its
\* requests was the last and whoever else wants the account: when RemoveClient
\* takes the connection out of the map (Server.cpp:110-124), no key logined:
\* this process wrote names it, unless it logged in with another id since.
DisconnectReleasesLogin ==
    [][\A t \in connected \ connected', i \in Ids \ (staleLogined \cup overwritten) :
        proc' = "boot" \/ loginedKey'[i]["token"] # to_string(t)]_vars

\* The server keeps the promise of LoginRegistry: an account is the password
\* digest in id:{id} (Server.cpp:159-171), a session the loginId of a
\* connection (Server.cpp:215-237, 349-372).
Registry == INSTANCE LoginRegistry WITH
    Clients   <- Tokens,
    Passwords <- Digests,
    None      <- NoValue,
    account   <- [i \in Ids |-> HashGet(idKey[i], "password")],
    session   <- [t \in Tokens |-> Session(t)]

ImplementsRegistry == Registry!Spec
=============================================================================
