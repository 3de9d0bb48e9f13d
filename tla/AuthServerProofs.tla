-------------------------- MODULE AuthServerProofs --------------------------
(***************************************************************************)
(* Proofs about AuthServer for every set of tokens, ids and profiles and   *)
(* every number of io threads.                                             *)
(***************************************************************************)
EXTENDS AuthServer, TLAPS, FiniteSetTheorems

(***************************************************************************)
(* Types.  TypeOK is not inductive: a handler writes to Redis what it has  *)
(* parsed out of its request or read before, so the proof also needs to    *)
(* know what a request holds at each step.                                 *)
(***************************************************************************)
ReqAt(step, r) ==
    /\ step \in RegisterSteps \cup LoginSteps => r.id \in Ids /\ r.profile \in Profiles
    /\ step \in {"datExists", "datNickname", "datColor", "outDel", "outHashDel"}
         => r.id \in Ids

HandlersOK ==
    /\ pc \in [Tokens -> Steps \cup {"idle"}]
    /\ req \in [Tokens -> Requests]
    /\ \A t \in Tokens : ReqAt(pc[t], req[t])

ConnectionsOK ==
    /\ proc \in {"boot", "run", "stopping"}
    /\ connected \subseteq Tokens
    /\ closing \subseteq connected
    /\ answered \subseteq Tokens

ClientKeysOK ==
    /\ clientKey \in [Tokens -> Hash(ClientFields, Ids \cup {Now})]
    /\ \A t \in Tokens : clientKey[t]["loginId"] \in Ids \cup {NoValue}

AccountsOK ==
    /\ idKey \in [Ids -> Hash(AccountFields, Digests \cup Profiles)]
    /\ \A i \in Ids : /\ idKey[i]["password"] \in Digests \cup {NoValue}
                      /\ idKey[i]["nickname"] \in Profiles \cup {NoValue}

LoginedOK == loginedKey \in [Ids -> Hash(LoginedFields, TokenStrings \cup {Now})]

TypeInv == HandlersOK /\ ConnectionsOK /\ ClientKeysOK /\ AccountsOK /\ LoginedOK

HistoryOK ==
    /\ staleClient \subseteq Tokens
    /\ staleLogined \cup forked \cup contended \cup overwritten \cup interrupted
         \subseteq Ids

LEMMA TypeInvTypeOK == TypeInv /\ HistoryOK => TypeOK
  BY DEF TypeInv, HandlersOK, ConnectionsOK, ClientKeysOK, AccountsOK, LoginedOK,
     HistoryOK, TypeOK

\* What the calls on Redis do to a table, field by field.
LEMMA HashSetFields ==
    ASSUME NEW K, NEW F, NEW V, NEW table \in [K -> Hash(F, V)],
           NEW k \in K, NEW f \in F, NEW v \in V \cup {NoValue}
    PROVE  /\ HashSet(table, k, f, v) \in [K -> Hash(F, V)]
           /\ \A j \in K, g \in F :
                HashSet(table, k, f, v)[j][g] =
                    IF j = k /\ g = f THEN v ELSE table[j][g]
  BY DEF HashSet, Hash

LEMMA HashDelFields ==
    ASSUME NEW K, NEW F, NEW V, NEW table \in [K -> Hash(F, V)],
           NEW k \in K, NEW f \in F
    PROVE  /\ HashDel(table, k, f) \in [K -> Hash(F, V)]
           /\ \A j \in K, g \in F :
                HashDel(table, k, f)[j][g] =
                    IF j = k /\ g = f THEN NoValue ELSE table[j][g]
  BY DEF HashDel, Hash

LEMMA DelFields ==
    ASSUME NEW K, NEW F, NEW V, NEW table \in [K -> Hash(F, V)], NEW k \in K
    PROVE  /\ Del(table, k) \in [K -> Hash(F, V)]
           /\ \A j \in K, g \in F :
                Del(table, k)[j][g] = IF j = k THEN NoValue ELSE table[j][g]
  BY DEF Del, NoKey, Hash

LEMMA DelAllFields ==
    ASSUME NEW K, NEW F, NEW V, NEW table \in [K -> Hash(F, V)], NEW ks
    PROVE  /\ DelAll(table, ks) \in [K -> Hash(F, V)]
           /\ \A j \in K, g \in F :
                DelAll(table, ks)[j][g] = IF j \in ks THEN NoValue ELSE table[j][g]
  BY DEF DelAll, NoKey, Hash

\* The same for the three tables of the server, which keep their types.
LEMMA ClientKeySet ==
    ASSUME ClientKeysOK, NEW t \in Tokens, NEW f \in ClientFields,
           NEW v \in Ids \cup {Now}, f = "loginId" => v \in Ids,
           clientKey' = HashSet(clientKey, t, f, v)
    PROVE  /\ ClientKeysOK'
           /\ \A u \in Tokens, g \in ClientFields :
                clientKey'[u][g] = IF u = t /\ g = f THEN v ELSE clientKey[u][g]
<1> DEFINE V == Ids \cup {Now}
<1>1. clientKey \in [Tokens -> Hash(ClientFields, V)] /\ v \in V \cup {NoValue}
  BY DEF ClientKeysOK
<1> HIDE DEF V
<1>2. /\ clientKey' \in [Tokens -> Hash(ClientFields, V)]
      /\ \A u \in Tokens, g \in ClientFields :
           clientKey'[u][g] = IF u = t /\ g = f THEN v ELSE clientKey[u][g]
  BY <1>1, HashSetFields
<1>3. "loginId" \in ClientFields
  BY DEF ClientFields
<1>4. \A u \in Tokens : clientKey'[u]["loginId"] \in Ids \cup {NoValue}
  BY <1>2, <1>3 DEF ClientKeysOK
<1> QED
  BY <1>2, <1>4 DEF ClientKeysOK, V

LEMMA ClientKeyUnset ==
    ASSUME ClientKeysOK, NEW t \in Tokens,
           clientKey' = HashDel(clientKey, t, "loginId")
    PROVE  /\ ClientKeysOK'
           /\ \A u \in Tokens, g \in ClientFields :
                clientKey'[u][g] =
                    IF u = t /\ g = "loginId" THEN NoValue ELSE clientKey[u][g]
<1> DEFINE V == Ids \cup {Now}
<1>1. clientKey \in [Tokens -> Hash(ClientFields, V)]
  BY DEF ClientKeysOK
<1> HIDE DEF V
<1>2. "loginId" \in ClientFields
  BY DEF ClientFields
<1>3. /\ clientKey' \in [Tokens -> Hash(ClientFields, V)]
      /\ \A u \in Tokens, g \in ClientFields :
           clientKey'[u][g] =
               IF u = t /\ g = "loginId" THEN NoValue ELSE clientKey[u][g]
  BY <1>1, <1>2, HashDelFields
<1>4. \A u \in Tokens : clientKey'[u]["loginId"] \in Ids \cup {NoValue}
  BY <1>2, <1>3 DEF ClientKeysOK
<1> QED
  BY <1>3, <1>4 DEF ClientKeysOK, V

LEMMA ClientKeyDel ==
    ASSUME ClientKeysOK, NEW t \in Tokens, clientKey' = Del(clientKey, t)
    PROVE  /\ ClientKeysOK'
           /\ \A u \in Tokens, g \in ClientFields :
                clientKey'[u][g] = IF u = t THEN NoValue ELSE clientKey[u][g]
<1> DEFINE V == Ids \cup {Now}
<1>1. clientKey \in [Tokens -> Hash(ClientFields, V)]
  BY DEF ClientKeysOK
<1> HIDE DEF V
<1>2. /\ clientKey' \in [Tokens -> Hash(ClientFields, V)]
      /\ \A u \in Tokens, g \in ClientFields :
           clientKey'[u][g] = IF u = t THEN NoValue ELSE clientKey[u][g]
  BY <1>1, DelFields
<1>3. "loginId" \in ClientFields
  BY DEF ClientFields
<1>4. \A u \in Tokens : clientKey'[u]["loginId"] \in Ids \cup {NoValue}
  BY <1>2, <1>3 DEF ClientKeysOK
<1> QED
  BY <1>2, <1>4 DEF ClientKeysOK, V

LEMMA ClientKeysDel ==
    ASSUME ClientKeysOK, NEW ks, clientKey' = DelAll(clientKey, ks)
    PROVE  /\ ClientKeysOK'
           /\ \A u \in Tokens, g \in ClientFields :
                clientKey'[u][g] = IF u \in ks THEN NoValue ELSE clientKey[u][g]
<1> DEFINE V == Ids \cup {Now}
<1>1. clientKey \in [Tokens -> Hash(ClientFields, V)]
  BY DEF ClientKeysOK
<1> HIDE DEF V
<1>2. /\ clientKey' \in [Tokens -> Hash(ClientFields, V)]
      /\ \A u \in Tokens, g \in ClientFields :
           clientKey'[u][g] = IF u \in ks THEN NoValue ELSE clientKey[u][g]
  BY <1>1, DelAllFields
<1>3. "loginId" \in ClientFields
  BY DEF ClientFields
<1>4. \A u \in Tokens : clientKey'[u]["loginId"] \in Ids \cup {NoValue}
  BY <1>2, <1>3 DEF ClientKeysOK
<1> QED
  BY <1>2, <1>4 DEF ClientKeysOK, V

LEMMA AccountSet ==
    ASSUME AccountsOK, NEW i \in Ids, NEW f \in AccountFields,
           NEW v \in Digests \cup Profiles,
           f = "password" => v \in Digests, f = "nickname" => v \in Profiles,
           idKey' = HashSet(idKey, i, f, v)
    PROVE  /\ AccountsOK'
           /\ \A j \in Ids, g \in AccountFields :
                idKey'[j][g] = IF j = i /\ g = f THEN v ELSE idKey[j][g]
<1> DEFINE V == Digests \cup Profiles
<1>1. idKey \in [Ids -> Hash(AccountFields, V)] /\ v \in V \cup {NoValue}
  BY DEF AccountsOK
<1> HIDE DEF V
<1>2. /\ idKey' \in [Ids -> Hash(AccountFields, V)]
      /\ \A j \in Ids, g \in AccountFields :
           idKey'[j][g] = IF j = i /\ g = f THEN v ELSE idKey[j][g]
  BY <1>1, HashSetFields
<1>3. "password" \in AccountFields /\ "nickname" \in AccountFields
  BY DEF AccountFields
<1>4. \A j \in Ids : /\ idKey'[j]["password"] \in Digests \cup {NoValue}
                    /\ idKey'[j]["nickname"] \in Profiles \cup {NoValue}
  BY <1>2, <1>3 DEF AccountsOK
<1> QED
  BY <1>2, <1>4 DEF AccountsOK, V

LEMMA LoginedSet ==
    ASSUME LoginedOK, NEW i \in Ids, NEW f \in LoginedFields,
           NEW v \in TokenStrings \cup {Now},
           loginedKey' = HashSet(loginedKey, i, f, v)
    PROVE  /\ LoginedOK'
           /\ \A j \in Ids, g \in LoginedFields :
                loginedKey'[j][g] = IF j = i /\ g = f THEN v ELSE loginedKey[j][g]
<1> DEFINE V == TokenStrings \cup {Now}
<1>1. loginedKey \in [Ids -> Hash(LoginedFields, V)] /\ v \in V \cup {NoValue}
  BY DEF LoginedOK
<1> HIDE DEF V
<1>2. /\ loginedKey' \in [Ids -> Hash(LoginedFields, V)]
      /\ \A j \in Ids, g \in LoginedFields :
           loginedKey'[j][g] = IF j = i /\ g = f THEN v ELSE loginedKey[j][g]
  BY <1>1, HashSetFields
<1> QED
  BY <1>2 DEF LoginedOK, V

LEMMA LoginedDel ==
    ASSUME LoginedOK, NEW i \in Ids, loginedKey' = Del(loginedKey, i)
    PROVE  /\ LoginedOK'
           /\ \A j \in Ids, g \in LoginedFields :
                loginedKey'[j][g] = IF j = i THEN NoValue ELSE loginedKey[j][g]
<1> DEFINE V == TokenStrings \cup {Now}
<1>1. loginedKey \in [Ids -> Hash(LoginedFields, V)]
  BY DEF LoginedOK
<1> HIDE DEF V
<1>2. /\ loginedKey' \in [Ids -> Hash(LoginedFields, V)]
      /\ \A j \in Ids, g \in LoginedFields :
           loginedKey'[j][g] = IF j = i THEN NoValue ELSE loginedKey[j][g]
  BY <1>1, DelFields
<1> QED
  BY <1>2 DEF LoginedOK, V

LEMMA ExistsField ==
    ASSUME NEW F, NEW V, NEW h \in Hash(F, V)
    PROVE  Exists(h) <=> \E f \in F : h[f] # NoValue
  BY DEF Exists, Hash

LEMMA NoKeyFields ==
    ASSUME NEW F, NEW V
    PROVE  /\ NoKey(F) \in Hash(F, V)
           /\ \A f \in F : NoKey(F)[f] = NoValue
           /\ ~Exists(NoKey(F))
  BY DEF NoKey, Hash, Exists

LEMMA InitType == Init => TypeInv
<1> SUFFICES ASSUME Init PROVE TypeInv
  OBVIOUS
<1>1. HandlersOK
  BY DEF Init, HandlersOK, NoReq, Requests, ReqAt, RegisterSteps, LoginSteps
<1>2. ConnectionsOK
  BY DEF Init, ConnectionsOK
<1>3. ClientKeysOK
  <2>1. clientKey \in [Tokens -> Hash(ClientFields, Ids \cup {Now})]
    BY NoKeyFields DEF Init
  <2>2. \A t \in Tokens : clientKey[t]["loginId"] = NoValue
    BY DEF Init, NoKey, ClientFields
  <2> QED
    BY <2>1, <2>2 DEF ClientKeysOK
<1>4. AccountsOK
  <2>1. idKey \in [Ids -> Hash(AccountFields, Digests \cup Profiles)]
    BY NoKeyFields DEF Init
  <2>2. \A i \in Ids : idKey[i]["password"] = NoValue /\ idKey[i]["nickname"] = NoValue
    BY DEF Init, NoKey, AccountFields
  <2> QED
    BY <2>1, <2>2 DEF AccountsOK
<1>5. LoginedOK
  BY NoKeyFields DEF Init, LoginedOK
<1> QED
  BY <1>1, <1>2, <1>3, <1>4, <1>5 DEF TypeInv

\* A handler moves to another step with another request.
LEMMA MoveHandler ==
    ASSUME HandlersOK, NEW t \in Tokens, NEW step \in Steps \cup {"idle"},
           NEW r \in Requests, ReqAt(step, r),
           pc' = [pc EXCEPT ![t] = step], req' = [req EXCEPT ![t] = r]
    PROVE  HandlersOK'
<1>1. pc' \in [Tokens -> Steps \cup {"idle"}] /\ req' \in [Tokens -> Requests]
  BY DEF HandlersOK
<1>2. ASSUME NEW u \in Tokens PROVE ReqAt(pc'[u], req'[u])
  <2>1. CASE u = t
    <3>1. pc'[u] = step /\ req'[u] = r
      BY <2>1 DEF HandlersOK
    <3> QED
      BY <3>1
  <2>2. CASE u # t
    <3>1. pc'[u] = pc[u] /\ req'[u] = req[u]
      BY <2>2 DEF HandlersOK
    <3> QED
      BY <3>1 DEF HandlersOK
  <2> QED
    BY <2>1, <2>2
<1> QED
  BY <1>1, <1>2 DEF HandlersOK, ReqAt

LEMMA GotoType ==
    ASSUME TypeInv, NEW t \in Tokens, NEW there \in Steps, Goto(t, there),
           ReqAt(there, req[t])
    PROVE  HandlersOK' /\ ConnectionsOK'
<1>1. req[t] \in Requests /\ req' = [req EXCEPT ![t] = req[t]]
  BY DEF TypeInv, HandlersOK, Goto
<1>2. HandlersOK'
  BY <1>1, MoveHandler DEF TypeInv, Goto
<1> QED
  BY <1>2 DEF TypeInv, ConnectionsOK, Goto

LEMMA ReturnType ==
    ASSUME TypeInv, NEW t \in Tokens, LogoutReturns(t) \/ Respond(t)
    PROVE  HandlersOK' /\ ConnectionsOK'
<1>1. NoReq \in Requests /\ ReqAt("idle", NoReq) /\ ReqAt("remove", NoReq)
  BY DEF NoReq, Requests, ReqAt, RegisterSteps, LoginSteps
<1>2. PICK step \in Steps \cup {"idle"} :
        /\ step \in {"idle", "remove"}
        /\ pc' = [pc EXCEPT ![t] = step]
        /\ req' = [req EXCEPT ![t] = NoReq]
  BY DEF LogoutReturns, Respond, Steps
<1>3. HandlersOK'
  BY <1>1, <1>2, MoveHandler DEF TypeInv
<1>4. ConnectionsOK'
  BY DEF TypeInv, ConnectionsOK, LogoutReturns, Respond
<1> QED
  BY <1>3, <1>4

LEMMA BeginType ==
    ASSUME TypeInv, NEW t \in Tokens, NEW step \in Steps, NEW r \in Requests,
           ReqAt(step, r), Begin(t, step, r),
           closing' = closing \/ closing' = closing \cup {t},
           UNCHANGED <<proc, connected, redis>>
    PROVE  TypeInv'
<1>1. HandlersOK'
  BY MoveHandler DEF TypeInv, Begin
<1>2. ConnectionsOK'
  BY DEF TypeInv, ConnectionsOK, Begin, CanBegin
<1> QED
  BY <1>1, <1>2 DEF TypeInv, ClientKeysOK, AccountsOK, LoginedOK, redis

LEMMA EndType == ASSUME TypeInv, ProcessEnds PROVE TypeInv'
<1>1. HandlersOK'
  BY DEF ProcessEnds, HandlersOK, NoReq, Requests, ReqAt, RegisterSteps, LoginSteps
<1>2. ConnectionsOK'
  BY DEF ProcessEnds, ConnectionsOK
<1> QED
  BY <1>1, <1>2 DEF TypeInv, ClientKeysOK, AccountsOK, LoginedOK, redis, ProcessEnds

LEMMA QuietType ==
    ASSUME TypeInv, UNCHANGED redis, HandlersOK', ConnectionsOK'
    PROVE  TypeInv'
  BY DEF TypeInv, ClientKeysOK, AccountsOK, LoginedOK, redis

\* A lookup, when the step it leads to needs no more than the one it is.
LEMMA CheckType ==
    ASSUME TypeInv, NEW t \in Tokens, NEW here, NEW there \in Steps,
           pc[t] = here, Goto(t, there) \/ Respond(t),
           UNCHANGED redis,
           \A r : ReqAt(here, r) => ReqAt(there, r)
    PROVE  TypeInv'
<1>1. ReqAt(there, req[t])
  BY DEF TypeInv, HandlersOK
<1>2. HandlersOK' /\ ConnectionsOK'
  BY <1>1, GotoType, ReturnType
<1> QED
  BY <1>2, QuietType

LEMMA BootType ==
    ASSUME TypeInv, Boot \/ Signal \/ Exit \/ Crash
    PROVE  TypeInv'
<1> USE DEF TypeInv
<1>1. CASE Boot
  <2>1. PICK ks, is : /\ clientKey' = DelAll(clientKey, ks)
                      /\ loginedKey' = DelAll(loginedKey, is)
    BY <1>1 DEF Boot
  <2>2. ClientKeysOK'
    BY <2>1, ClientKeysDel
  <2>3. LoginedOK'
    BY <2>1, DelAllFields DEF LoginedOK
  <2> QED
    BY <1>1, <2>2, <2>3 DEF Boot, HandlersOK, ConnectionsOK, AccountsOK
<1>2. CASE Signal
  <2>1. HandlersOK' /\ ConnectionsOK'
    BY <1>2 DEF Signal, HandlersOK, ConnectionsOK
  <2> QED
    BY <1>2, <2>1, QuietType DEF Signal
<1>3. CASE Exit \/ Crash
  BY <1>3, EndType DEF Exit, Crash
<1> QED
  BY <1>1, <1>2, <1>3

LEMMA AddClientType ==
    ASSUME TypeInv, NEW t \in Tokens, AddClient(t)
    PROVE  TypeInv'
<1> USE DEF TypeInv
<1>1. ClientKeysOK'
  BY ClientKeySet DEF AddClient, ClientFields
<1>2. HandlersOK' /\ ConnectionsOK'
  BY DEF AddClient, HandlersOK, ConnectionsOK
<1> QED
  BY <1>1, <1>2 DEF AddClient, AccountsOK, LoginedOK

LEMMA RequestType ==
    ASSUME TypeInv, NEW t \in Tokens, Request(t)
    PROVE  TypeInv'
<1>1. CASE RejectRequest(t)
  <2>1. HandlersOK' /\ ConnectionsOK'
    BY <1>1 DEF TypeInv, HandlersOK, ConnectionsOK, RejectRequest
  <2> QED
    BY <1>1, <2>1, QuietType DEF RejectRequest
<1>2. CASE PlayerData(t) \/ Logout(t) \/ Disconnect(t)
  <2>1. /\ NoReq \in Requests
        /\ ReqAt("datClient", NoReq) /\ ReqAt("outClient", NoReq)
    BY DEF NoReq, Requests, ReqAt, RegisterSteps, LoginSteps
  <2>2. {"datClient", "outClient"} \subseteq Steps
    BY DEF Steps, DataSteps, LogoutSteps
  <2> QED
    BY <1>2, <2>1, <2>2, BeginType DEF PlayerData, Logout, Disconnect
<1>3. CASE \E i \in Ids, p \in Profiles : Register(t, i, p) \/ Login(t, i, p)
  <2>1. PICK i \in Ids, p \in Profiles : Register(t, i, p) \/ Login(t, i, p)
    BY <1>3
  <2> DEFINE r == [id |-> i, profile |-> p]
  <2>2. r \in Requests /\ ReqAt("regExists", r) /\ ReqAt("logExists", r)
    BY DEF Requests, ReqAt, RegisterSteps, LoginSteps
  <2>3. {"regExists", "logExists"} \subseteq Steps
    BY DEF Steps, RegisterSteps, LoginSteps
  <2> QED
    BY <2>1, <2>2, <2>3, BeginType DEF Register, Login
<1> QED
  BY <1>1, <1>2, <1>3 DEF Request

LEMMA RegisterStepType ==
    ASSUME TypeInv, NEW t \in Tokens, RegisterStep(t)
    PROVE  TypeInv'
<1>1. {"regPassword", "regNickname", "regColor"} \subseteq Steps
  BY DEF Steps, RegisterSteps
<1>2. ReqAt(pc[t], req[t])
  BY DEF TypeInv, HandlersOK
<1>3. CASE RegExists(t)
  <2>1. \A r : ReqAt("regExists", r) => ReqAt("regPassword", r)
    BY DEF ReqAt, RegisterSteps, LoginSteps
  <2> QED
    BY <1>1, <1>3, <2>1, CheckType DEF RegExists, CheckAccount, Check
<1>4. CASE RegPassword(t) \/ RegNickname(t) \/ RegColor(t)
  <2>1. UNCHANGED <<clientKey, loginedKey>>
    BY <1>4 DEF RegPassword, RegNickname, RegColor, SetAccount
  <2>2. pc[t] \in RegisterSteps
    BY <1>4 DEF RegPassword, RegNickname, RegColor, SetAccount, RegisterSteps
  <2>3. req[t].id \in Ids /\ req[t].profile \in Profiles
    BY <1>2, <2>2 DEF ReqAt
  <2>4. ReqAt("regNickname", req[t]) /\ ReqAt("regColor", req[t])
    BY <2>3 DEF ReqAt
  <2>5. HandlersOK' /\ ConnectionsOK'
    BY <1>1, <1>2, <1>4, <2>1, <2>4, GotoType, ReturnType
    DEF RegPassword, RegNickname, RegColor
  <2>6. sha256(req[t].profile) \in Digests
    BY <2>3 DEF Digests
  <2>7. AccountsOK'
    BY <1>4, <2>3, <2>6, AccountSet
    DEF TypeInv, AccountFields, RegPassword, RegNickname, RegColor, SetAccount
  <2> QED
    BY <2>1, <2>5, <2>7 DEF TypeInv, ClientKeysOK, LoginedOK
<1> QED
  BY <1>3, <1>4 DEF RegisterStep

LEMMA LoginStepType ==
    ASSUME TypeInv, NEW t \in Tokens, LoginStep(t)
    PROVE  TypeInv'
<1>1. LoginSteps \subseteq Steps
  BY DEF Steps
<1>2. ReqAt(pc[t], req[t])
  BY DEF TypeInv, HandlersOK
<1>3. CASE LogExists(t) \/ LogPassword(t) \/ LogLogined(t)
  <2>1. \A a, b \in LoginSteps : \A r : ReqAt(a, r) => ReqAt(b, r)
    BY DEF ReqAt, LoginSteps
  <2>2. {"logExists", "logPassword", "logLogined", "logSetId"} \subseteq LoginSteps
    BY DEF LoginSteps
  <2>3. CASE LogExists(t)
    BY <1>1, <2>1, <2>2, <2>3, CheckType DEF LogExists, Check
  <2>4. CASE LogPassword(t)
    BY <1>1, <2>1, <2>2, <2>4, CheckType DEF LogPassword, Check
  <2>5. CASE LogLogined(t)
    BY <1>1, <2>1, <2>2, <2>5, CheckType DEF LogLogined, CheckLogined, Check
  <2> QED
    BY <1>3, <2>3, <2>4, <2>5
<1>4. CASE LogSetId(t) \/ LogSetToken(t) \/ LogSetTime(t)
  <2>1. pc[t] \in LoginSteps
    BY <1>4 DEF LogSetId, LogSetToken, LogSetTime, SetLoginId, SetLogined, LoginSteps
  <2>2. req[t].id \in Ids /\ req[t].profile \in Profiles
    BY <1>2, <2>1 DEF ReqAt
  <2>3. ReqAt("logSetToken", req[t]) /\ ReqAt("logSetTime", req[t])
    BY <2>2 DEF ReqAt
  <2>5. HandlersOK' /\ ConnectionsOK'
    BY <1>1, <1>4, <2>3, GotoType, ReturnType
    DEF LogSetId, LogSetToken, LogSetTime, LoginSteps
  <2>6. ClientKeysOK'
    <3>1. CASE LogSetId(t)
      BY <2>2, <3>1, ClientKeySet DEF TypeInv, ClientFields, LogSetId, SetLoginId
    <3>2. CASE LogSetToken(t) \/ LogSetTime(t)
      BY <3>2 DEF TypeInv, ClientKeysOK, LogSetToken, LogSetTime, SetLogined
    <3> QED
      BY <1>4, <3>1, <3>2
  <2>7. LoginedOK'
    <3>1. CASE LogSetId(t)
      BY <3>1 DEF TypeInv, LoginedOK, LogSetId, SetLoginId
    <3>2. CASE LogSetToken(t) \/ LogSetTime(t)
      <4>1. /\ "token" \in LoginedFields /\ "loginTime" \in LoginedFields
            /\ to_string(t) \in TokenStrings
        BY DEF LoginedFields, TokenStrings
      <4> QED
        BY <2>2, <3>2, <4>1, LoginedSet DEF TypeInv, LogSetToken, LogSetTime, SetLogined
    <3> QED
      BY <1>4, <3>1, <3>2
  <2>8. UNCHANGED idKey
    BY <1>4 DEF LogSetId, LogSetToken, LogSetTime, SetLoginId, SetLogined
  <2> QED
    BY <2>5, <2>6, <2>7, <2>8 DEF TypeInv, AccountsOK
<1> QED
  BY <1>3, <1>4 DEF LoginStep

\* A handler that reads the loginId of its connection.
LEMMA ReadLoginIdType ==
    ASSUME TypeInv, NEW t \in Tokens, NEW here, NEW there \in Steps,
           ReadLoginId(t, here, there), there \notin RegisterSteps \cup LoginSteps
    PROVE  TypeInv'
<1> DEFINE r == [req[t] EXCEPT !.id = clientKey[t]["loginId"]]
<1>1. clientKey[t]["loginId"] \in Ids /\ req[t] \in Requests
  BY DEF TypeInv, ClientKeysOK, HandlersOK, ReadLoginId, HashGet
<1>2. r \in Requests /\ r.id \in Ids
  BY <1>1 DEF Requests
<1>3. ReqAt(there, r)
  BY <1>2 DEF ReqAt
<1>4. req' = [req EXCEPT ![t] = r] /\ pc' = [pc EXCEPT ![t] = there]
  BY DEF ReadLoginId, HashGet, TypeInv, HandlersOK
<1>5. HandlersOK'
  BY <1>2, <1>3, <1>4, MoveHandler DEF TypeInv
<1>6. ConnectionsOK'
  BY DEF ReadLoginId, TypeInv, ConnectionsOK
<1> QED
  BY <1>5, <1>6, QuietType DEF ReadLoginId

LEMMA DataStepType ==
    ASSUME TypeInv, NEW t \in Tokens, DataStep(t)
    PROVE  TypeInv'
<1>1. DataSteps \subseteq Steps
  BY DEF Steps
<1>2. ReqAt(pc[t], req[t])
  BY DEF TypeInv, HandlersOK
<1>3. CASE DatClient(t)
  <2>1. \A r : ReqAt("datClient", r) => ReqAt("datLoginId", r)
    BY DEF ReqAt, RegisterSteps, LoginSteps
  <2> QED
    BY <1>1, <1>3, <2>1, CheckType DEF DatClient, Check, DataSteps
<1>4. CASE DatLoginId(t)
  <2>1. CASE ReadLoginId(t, "datLoginId", "datExists")
    BY <1>1, <2>1, ReadLoginIdType DEF DataSteps, RegisterSteps, LoginSteps
  <2>2. CASE Respond(t) /\ UNCHANGED redis
    BY <1>2, <2>2, ReturnType, QuietType
  <2> QED
    BY <1>4, <2>1, <2>2 DEF DatLoginId
<1>5. CASE DatExists(t)
  <2>1. \A r : ReqAt("datExists", r) => ReqAt("datNickname", r)
    BY DEF ReqAt, RegisterSteps, LoginSteps
  <2> QED
    BY <1>1, <1>5, <2>1, CheckType DEF DatExists, Check, DataSteps
<1>6. CASE DatNickname(t)
  <2> DEFINE r == [req[t] EXCEPT !.profile = idKey[req[t].id]["nickname"]]
  <2>1. req[t] \in Requests /\ req[t].id \in Ids
    BY <1>2, <1>6 DEF TypeInv, HandlersOK, DatNickname, ReqAt
  <2>2. idKey[req[t].id]["nickname"] \in Profiles \cup {NoValue}
    BY <2>1 DEF TypeInv, AccountsOK
  <2>3. r \in Requests /\ r.id \in Ids
    BY <2>1, <2>2 DEF Requests
  <2>4. ReqAt("datColor", r)
    BY <2>3 DEF ReqAt, RegisterSteps, LoginSteps
  <2>5. req' = [req EXCEPT ![t] = r] /\ pc' = [pc EXCEPT ![t] = "datColor"]
    BY <1>6 DEF DatNickname, HashGet, TypeInv, HandlersOK
  <2>6. HandlersOK'
    BY <1>1, <2>3, <2>4, <2>5, MoveHandler DEF TypeInv, DataSteps
  <2>7. ConnectionsOK'
    BY <1>6 DEF DatNickname, TypeInv, ConnectionsOK
  <2> QED
    BY <1>6, <2>6, <2>7, QuietType DEF DatNickname
<1>7. CASE DatColor(t)
  BY <1>2, <1>7, ReturnType, QuietType, EndType DEF DatColor
<1> QED
  BY <1>3, <1>4, <1>5, <1>6, <1>7 DEF DataStep

LEMMA LogoutStepType ==
    ASSUME TypeInv, NEW t \in Tokens, LogoutStep(t)
    PROVE  TypeInv'
<1>1. LogoutSteps \subseteq Steps
  BY DEF Steps
<1>2. ReqAt(pc[t], req[t])
  BY DEF TypeInv, HandlersOK
<1>3. CASE OutClient(t)
  <2>1. ReqAt("outLoginId", req[t])
    BY DEF ReqAt, RegisterSteps, LoginSteps
  <2> QED
    BY <1>1, <1>2, <1>3, <2>1, GotoType, ReturnType, QuietType DEF OutClient, LogoutSteps
<1>4. CASE OutLoginId(t)
  <2>1. CASE ReadLoginId(t, "outLoginId", "outDel")
    BY <1>1, <2>1, ReadLoginIdType DEF LogoutSteps, RegisterSteps, LoginSteps
  <2>2. CASE LogoutReturns(t) /\ UNCHANGED redis
    BY <1>2, <2>2, ReturnType, QuietType
  <2> QED
    BY <1>4, <2>1, <2>2 DEF OutLoginId
<1>5. CASE OutDel(t)
  <2>1. req[t].id \in Ids
    BY <1>2, <1>5 DEF OutDel, ReqAt
  <2>2. ReqAt("outHashDel", req[t])
    BY <2>1 DEF ReqAt, RegisterSteps, LoginSteps
  <2>4. HandlersOK' /\ ConnectionsOK'
    BY <1>1, <1>5, <2>2, GotoType DEF OutDel, LogoutSteps
  <2>5. LoginedOK'
    BY <1>5, <2>1, LoginedDel DEF TypeInv, OutDel
  <2> QED
    BY <1>5, <2>4, <2>5 DEF TypeInv, ClientKeysOK, AccountsOK, OutDel
<1>6. CASE OutHashDel(t)
  <2>1. HandlersOK' /\ ConnectionsOK'
    BY <1>2, <1>6, ReturnType DEF OutHashDel
  <2>2. ClientKeysOK'
    BY <1>6, ClientKeyUnset DEF TypeInv, OutHashDel
  <2> QED
    BY <1>6, <2>1, <2>2 DEF TypeInv, AccountsOK, LoginedOK, OutHashDel
<1>7. CASE RemoveClient(t)
  <2>1. ReqAt("idle", req[t]) /\ req[t] \in Requests /\ req' = [req EXCEPT ![t] = req[t]]
    BY <1>7 DEF ReqAt, RegisterSteps, LoginSteps, RemoveClient, TypeInv, HandlersOK
  <2>2. HandlersOK'
    BY <1>7, <2>1, MoveHandler DEF TypeInv, RemoveClient
  <2>3. ConnectionsOK'
    BY <1>7 DEF TypeInv, ConnectionsOK, RemoveClient
  <2>4. ClientKeysOK'
    BY <1>7, ClientKeyDel DEF TypeInv, RemoveClient
  <2> QED
    BY <1>7, <2>2, <2>3, <2>4 DEF TypeInv, AccountsOK, LoginedOK, RemoveClient
<1> QED
  BY <1>3, <1>4, <1>5, <1>6, <1>7 DEF LogoutStep

LEMMA NextType == ASSUME TypeInv, [Next]_vars PROVE TypeInv'
<1>1. CASE Boot \/ Signal \/ Exit \/ Crash
  BY <1>1, BootType
<1>2. CASE \E t \in Tokens : AddClient(t) \/ Request(t) \/ Handler(t)
  BY <1>2, AddClientType, RequestType, RegisterStepType, LoginStepType,
     DataStepType, LogoutStepType DEF Handler
<1>3. CASE UNCHANGED vars
  BY <1>3 DEF vars, TypeInv, HandlersOK, ConnectionsOK, ClientKeysOK, AccountsOK, LoginedOK
<1> QED
  BY <1>1, <1>2, <1>3 DEF Next

LEMMA TypeInvariance == Spec => []TypeInv
<1>1. TypeInv /\ [Next]_vars => TypeInv'
  BY NextType
<1> QED
  BY InitType, <1>1, PTL DEF Spec

LEMMA HistoryInit == Init => HistoryOK
  BY DEF Init, HistoryOK

\* The steps that leave the history variables alone, but those of Boot and
\* of an end of the process.
LEMMA HistorySteps ==
    ASSUME [Next]_vars
    PROVE  \/ Boot \/ ProcessEnds
           \/ \E t \in Tokens : RegExists(t) \/ LogLogined(t) \/ LogSetId(t)
           \/ UNCHANGED history
<1>1. CASE Signal \/ Exit \/ Crash
  BY <1>1 DEF Signal, Exit, Crash
<1>2. ASSUME NEW t \in Tokens, AddClient(t) \/ Request(t) PROVE UNCHANGED history
  BY <1>2 DEF AddClient, Request, RejectRequest, PlayerData, Logout, Disconnect, Register,
              Login, Begin
<1>3. ASSUME NEW t \in Tokens, RegPassword(t) \/ RegNickname(t) \/ RegColor(t)
      PROVE  UNCHANGED history
  BY <1>3 DEF RegPassword, RegNickname, RegColor, SetAccount
<1>4. ASSUME NEW t \in Tokens,
             LogExists(t) \/ LogPassword(t) \/ LogSetToken(t) \/ LogSetTime(t)
      PROVE  UNCHANGED history
  BY <1>4 DEF LogExists, LogPassword, LogSetToken, LogSetTime, SetLogined
<1>5. ASSUME NEW t \in Tokens, DataStep(t) PROVE UNCHANGED history \/ ProcessEnds
  BY <1>5 DEF DataStep, DatClient, DatLoginId, DatExists, DatNickname, DatColor, ReadLoginId
<1>6. ASSUME NEW t \in Tokens, LogoutStep(t) PROVE UNCHANGED history
  BY <1>6 DEF LogoutStep, OutClient, OutLoginId, OutDel, OutHashDel, RemoveClient, ReadLoginId
<1>7. CASE UNCHANGED vars
  BY <1>7 DEF vars, history
<1> QED
  BY <1>1, <1>2, <1>3, <1>4, <1>5, <1>6, <1>7
  DEF Next, Handler, RegisterStep, LoginStep

LEMMA HistoryNext == ASSUME TypeInv, HistoryOK, [Next]_vars PROVE HistoryOK'
<1>1. CASE Boot
  <2>1. DOMAIN clientKey = Tokens /\ DOMAIN loginedKey = Ids
    BY DEF TypeInv, ClientKeysOK, LoginedOK
  <2> QED
    BY <1>1, <2>1 DEF Boot, HistoryOK, Keys
<1>2. CASE ProcessEnds
  BY <1>2 DEF ProcessEnds, HistoryOK
<1>3. ASSUME NEW t \in Tokens, RegExists(t) \/ LogLogined(t) PROVE HistoryOK'
  BY <1>3 DEF RegExists, LogLogined, CheckAccount, CheckLogined, Overlap, HistoryOK
<1>4. ASSUME NEW t \in Tokens, LogSetId(t) PROVE HistoryOK'
  <2>1. loginId(t) \in Ids \cup {NoValue}
    BY DEF TypeInv, ClientKeysOK, loginId, HashGet
  <2> QED
    BY <1>4, <2>1 DEF LogSetId, SetLoginId, HistoryOK
<1>5. CASE UNCHANGED history
  BY <1>5 DEF history, HistoryOK
<1> QED
  BY <1>1, <1>2, <1>3, <1>4, <1>5, HistorySteps

\* Whatever the handlers, threads, crashes and restarts do, the memory of the
\* server and its keys in Redis hold only values of the right kind: each
\* field of client:, id: and logined: is absent or holds what Server wrote.
THEOREM TypeCorrect == Spec => []TypeOK
<1>1. TypeInv /\ HistoryOK /\ [Next]_vars => HistoryOK'
  BY HistoryNext
<1> QED
  BY HistoryInit, TypeInvariance, <1>1, TypeInvTypeOK, PTL DEF Spec

(***************************************************************************)
(* Every account has a password.  A registration that is past its first    *)
(* call has stored it, and nothing ever takes a field of id:{id} away.     *)
(***************************************************************************)
hasPassword(i) == idKey[i]["password"] # NoValue

PasswordInv ==
    /\ PasswordPresent
    /\ \A t \in Tokens : pc[t] \in Filling => hasPassword(req[t].id)

LEMMA PasswordInit == Init => PasswordInv
<1>1. ~Exists(NoKey(AccountFields))
  BY NoKeyFields
<1> QED
  BY <1>1 DEF Init, PasswordInv, PasswordPresent, Filling

\* All actions but the three that write to an account.
LEMMA AccountsUnchanged ==
    ASSUME TypeInv, [Next]_vars
    PROVE  \/ \E t \in Tokens : RegPassword(t) \/ RegNickname(t) \/ RegColor(t)
           \/ /\ UNCHANGED idKey
              /\ \A t \in Tokens :
                   pc'[t] \in Filling => pc[t] = pc'[t] /\ req[t] = req'[t]
<1> DEFINE Quiet == /\ UNCHANGED idKey
                    /\ \A t \in Tokens :
                         pc'[t] \in Filling =>
                            pc[t] = pc'[t] /\ req[t] = req'[t]
<1> USE DEF TypeInv, HandlersOK, Filling
<1>1. CASE Boot \/ Signal \/ Exit \/ Crash
  BY <1>1 DEF Boot, Signal, Exit, Crash, ProcessEnds, redis
<1>2. ASSUME NEW t \in Tokens, AddClient(t) PROVE Quiet
  BY <1>2 DEF AddClient
<1>3. ASSUME NEW t \in Tokens, Request(t) PROVE Quiet
  BY <1>3 DEF Request, RejectRequest, PlayerData, Logout, Disconnect, Register, Login,
              Begin, redis
<1>4. ASSUME NEW t \in Tokens, RegExists(t) PROVE Quiet
  BY <1>4 DEF RegExists, CheckAccount, Check, Goto, Respond, redis
<1>5. ASSUME NEW t \in Tokens, LoginStep(t) PROVE Quiet
  BY <1>5 DEF LoginStep, LogExists, LogPassword, LogLogined, LogSetId, LogSetToken,
              LogSetTime, CheckLogined, Check, SetLoginId, SetLogined, Goto, Respond,
              redis
<1>6. ASSUME NEW t \in Tokens, DataStep(t) PROVE Quiet
  BY <1>6 DEF DataStep, DatClient, DatLoginId, DatExists, DatNickname, DatColor, Check,
              ReadLoginId, Goto, Respond, ProcessEnds, redis
<1>7. ASSUME NEW t \in Tokens, LogoutStep(t) PROVE Quiet
  BY <1>7 DEF LogoutStep, OutClient, OutLoginId, OutDel, OutHashDel, RemoveClient,
              ReadLoginId, LogoutReturns, Goto, redis
<1>8. CASE UNCHANGED vars
  BY <1>8 DEF vars
<1> QED
  BY <1>1, <1>2, <1>3, <1>4, <1>5, <1>6, <1>7, <1>8 DEF Next, Handler, RegisterStep

LEMMA PasswordNext == ASSUME TypeInv, PasswordInv, [Next]_vars PROVE PasswordInv'
<1>1. CASE \E t \in Tokens : RegPassword(t) \/ RegNickname(t) \/ RegColor(t)
  <2>1. PICK t \in Tokens : RegPassword(t) \/ RegNickname(t) \/ RegColor(t)
    BY <1>1
  <2>2. PICK i \in Ids : i = req[t].id /\ req[t].profile \in Profiles
    BY <2>1 DEF TypeInv, HandlersOK, ReqAt, RegisterSteps, RegPassword, RegNickname,
                RegColor, SetAccount
  <2>3. PICK f \in AccountFields, v \in Digests \cup Profiles :
          /\ idKey' = HashSet(idKey, i, f, v)
          /\ f = "password" => v \in Digests
          /\ f = "nickname" => v \in Profiles
          /\ f # "password" => hasPassword(i)
    BY <2>1, <2>2 DEF PasswordInv, RegPassword, RegNickname, RegColor, SetAccount,
                      AccountFields, Digests, Filling
  <2>4. /\ AccountsOK'
        /\ \A j \in Ids, g \in AccountFields :
             idKey'[j][g] = IF j = i /\ g = f THEN v ELSE idKey[j][g]
    BY <2>2, <2>3, AccountSet DEF TypeInv
  <2>5. v # NoValue /\ "password" \in AccountFields
    BY ValuesAssumption DEF AccountFields
  <2>6. hasPassword(i)' /\ \A j \in Ids : hasPassword(j) => hasPassword(j)'
    BY <2>2, <2>3, <2>4, <2>5 DEF hasPassword
  <2>7. \A j \in Ids : Exists(idKey[j])' => hasPassword(j)'
    <3> TAKE j \in Ids
    <3> HAVE Exists(idKey[j])'
    <3>1. idKey[j] \in Hash(AccountFields, Digests \cup Profiles)
      BY DEF TypeInv, AccountsOK
    <3>2. (idKey[j] \in Hash(AccountFields, Digests \cup Profiles))'
      BY <2>4 DEF AccountsOK
    <3>3. CASE j = i
      BY <2>6, <3>3
    <3>4. CASE j # i
      <4>1. PICK g \in AccountFields : idKey'[j][g] # NoValue
        BY <3>2 DEF Exists, Hash
      <4>2. Exists(idKey[j])
        BY <2>4, <3>1, <3>4, <4>1 DEF Exists, Hash
      <4> QED
        BY <2>6, <4>2 DEF PasswordInv, PasswordPresent, hasPassword, HashGet
    <3> QED
      BY <3>3, <3>4
  <2>8. ASSUME NEW u \in Tokens, pc'[u] \in Filling
        PROVE  hasPassword(req[u].id)'
    <3>1. CASE u = t
      <4>1. req'[u].id = i
        BY <2>1, <2>2, <2>8, <3>1 DEF TypeInv, HandlersOK, RegPassword, RegNickname,
                                      RegColor, Goto, Respond, Filling
      <4> QED
        BY <2>6, <4>1 DEF hasPassword
    <3>2. CASE u # t
      <4>1. pc'[u] = pc[u] /\ req'[u] = req[u]
        BY <2>1, <3>2 DEF TypeInv, HandlersOK, RegPassword, RegNickname, RegColor, Goto, Respond
      <4>2. req[u].id \in Ids /\ hasPassword(req[u].id)
        BY <2>8, <4>1 DEF PasswordInv, TypeInv, HandlersOK, ReqAt, RegisterSteps, Filling
      <4> QED
        BY <2>6, <4>1, <4>2 DEF hasPassword
    <3> QED
      BY <3>1, <3>2
  <2> QED
    BY <2>7, <2>8 DEF PasswordInv, PasswordPresent, hasPassword, HashGet
<1>2. CASE /\ UNCHANGED idKey
           /\ \A t \in Tokens :
                pc'[t] \in Filling => pc[t] = pc'[t] /\ req[t] = req'[t]
  BY <1>2 DEF PasswordInv, PasswordPresent, hasPassword
<1> QED
  BY <1>1, <1>2, AccountsUnchanged

\* HandleRequestLogin never dereferences an empty optional: for any number of
\* io threads, and wherever the process is killed in a registration, an
\* account that exists has a password.
THEOREM PasswordAlwaysPresent == Spec => []PasswordPresent
<1>1. TypeInv /\ PasswordInv /\ [Next]_vars => PasswordInv'
  BY PasswordNext
<1>2. PasswordInv => PasswordPresent
  BY DEF PasswordInv
<1> QED
  BY PasswordInit, TypeInvariance, <1>1, <1>2, PTL DEF Spec

====
