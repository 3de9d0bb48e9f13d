------------------------- MODULE AuthSessionProofs -------------------------
(***************************************************************************)
(* Proofs about logins: who holds the key logined:{id} of an account, and  *)
(* whether two connections can be logged in with the same id.  They hold   *)
(* for any number of io threads, for clients that log in again, and        *)
(* through ends of the process after which some of its keys are still      *)
(* there.                                                                  *)
(***************************************************************************)
EXTENDS AuthServerProofs

(***************************************************************************)
(* Kinds of steps.  Most write neither a loginId nor a key logined:{id}    *)
(* and only move one handler, past no call that this module is about.      *)
(***************************************************************************)
Window == {"logSetId", "logSetToken"}

Held == {"logSetId", "logSetToken", "logSetTime", "outDel", "outHashDel", "remove"}

Moves(t) ==
    \/ pc'[t] = pc[t] /\ req'[t] = req[t]
    \/ /\ pc[t] \notin Held
       /\ Busy(t) \/ t \in connected
       /\ \/ pc'[t] \notin Held
          \/ pc'[t] = "outDel" /\ req'[t].id = loginId(t)
          \/ pc'[t] = "remove" /\ loginId(t) = NoValue

QuietStep ==
    /\ UNCHANGED <<connected, clientKey, loginedKey>>
    /\ UNCHANGED <<staleClient, staleLogined, contended, overwritten>>
    /\ proc' = "boot" <=> proc = "boot"
    /\ \A t \in Tokens : Moves(t)

SessionWrite(t) ==
    \/ LogSetId(t) \/ LogSetToken(t) \/ LogSetTime(t)
    \/ OutDel(t) \/ OutHashDel(t) \/ RemoveClient(t) \/ AddClient(t)

LEMMA NoClientKey ==
    ASSUME TypeInv, NEW t \in Tokens, ~Exists(clientKey[t])
    PROVE  loginId(t) = NoValue
  BY DEF TypeInv, ClientKeysOK, Hash, ClientFields, Exists, loginId, HashGet

LEMMA StepKinds ==
    ASSUME TypeInv, [Next]_vars
    PROVE  \/ Boot \/ ProcessEnds
           \/ \E t \in Tokens : SessionWrite(t) \/ LogLogined(t)
           \/ QuietStep
<1> USE DEF TypeInv, HandlersOK, QuietStep, Moves, Held, Busy
<1>1. CASE Signal \/ Exit \/ Crash
  BY <1>1 DEF Signal, Exit, Crash, redis, history
<1>2. ASSUME NEW t \in Tokens, Request(t) PROVE QuietStep
  BY <1>2 DEF Request, RejectRequest, PlayerData, Logout, Disconnect, Register, Login,
              Begin, CanBegin, redis, history
<1>3. ASSUME NEW t \in Tokens, RegisterStep(t) PROVE QuietStep
  BY <1>3 DEF RegisterStep, RegExists, RegPassword, RegNickname, RegColor, CheckAccount,
              Check, SetAccount, Goto, Respond, redis, history
<1>4. ASSUME NEW t \in Tokens, LogExists(t) \/ LogPassword(t) PROVE QuietStep
  BY <1>4 DEF LogExists, LogPassword, Check, Goto, Respond, redis, history
<1>5. ASSUME NEW t \in Tokens, DataStep(t) PROVE QuietStep \/ ProcessEnds
  BY <1>5 DEF DataStep, DatClient, DatLoginId, DatExists, DatNickname, DatColor, Check,
              ReadLoginId, Goto, Respond, redis, history
<1>6. ASSUME NEW t \in Tokens, OutClient(t) PROVE QuietStep
  BY <1>6, NoClientKey DEF OutClient, LogoutReturns, Goto, redis, history
<1>7. ASSUME NEW t \in Tokens, OutLoginId(t) PROVE QuietStep
  <2>1. req[t] \in Requests
    OBVIOUS
  <2> QED
    BY <1>7, <2>1 DEF OutLoginId, ReadLoginId, LogoutReturns, redis, history,
                      Requests, loginId, HashGet
<1>8. CASE UNCHANGED vars
  BY <1>8 DEF vars
<1> QED
  BY <1>1, <1>2, <1>3, <1>4, <1>5, <1>6, <1>7, <1>8
  DEF Next, Handler, LoginStep, LogoutStep, SessionWrite

\* What the other steps do to the loginIds and to the handlers.
LEMMA WriteEffect ==
    ASSUME TypeInv, NEW t \in Tokens, SessionWrite(t)
    PROVE  /\ \A u \in Tokens \ {t} :
                /\ loginId(u)' = loginId(u) /\ pc'[u] = pc[u] /\ req'[u] = req[u]
                /\ u \in connected' <=> u \in connected
           /\ LogSetId(t) => loginId(t)' = req[t].id
           /\ OutHashDel(t) \/ RemoveClient(t) => loginId(t)' = NoValue
           /\ LogSetToken(t) \/ LogSetTime(t) \/ OutDel(t) \/ AddClient(t)
                => loginId(t)' = loginId(t)
           /\ proc' = proc
           /\ UNCHANGED <<staleClient, staleLogined, contended>>
<1>1. "loginId" \in ClientFields /\ "ConnectedTime" \in ClientFields
  BY DEF ClientFields
<1> USE DEF loginId, HashGet
<1>2. CASE LogSetId(t)
  <2>1. req[t].id \in Ids
    BY <1>2 DEF TypeInv, HandlersOK, ReqAt, LogSetId, SetLoginId, LoginSteps
  <2>2. \A u \in Tokens : loginId(u)' = IF u = t THEN req[t].id ELSE loginId(u)
    BY <1>1, <1>2, <2>1, ClientKeySet DEF TypeInv, LogSetId, SetLoginId
  <2> QED
    BY <1>2, <2>2 DEF TypeInv, HandlersOK, LogSetId, LogSetToken, LogSetTime, OutDel,
       OutHashDel, RemoveClient, AddClient, SetLoginId, SetLogined, Goto
<1>3. CASE LogSetToken(t) \/ LogSetTime(t) \/ OutDel(t)
  BY <1>3 DEF TypeInv, HandlersOK, LogSetId, LogSetToken, LogSetTime, OutDel,
     OutHashDel, RemoveClient, AddClient, SetLoginId, SetLogined, Goto, Respond, history
<1>4. CASE OutHashDel(t)
  <2>1. \A u \in Tokens : loginId(u)' = IF u = t THEN NoValue ELSE loginId(u)
    BY <1>1, <1>4, ClientKeyUnset DEF TypeInv, OutHashDel
  <2> QED
    BY <1>4, <2>1 DEF TypeInv, HandlersOK, LogSetId, LogSetToken, LogSetTime, OutDel,
       OutHashDel, RemoveClient, AddClient, SetLoginId, SetLogined, LogoutReturns, history
<1>5. CASE RemoveClient(t)
  <2>1. \A u \in Tokens : loginId(u)' = IF u = t THEN NoValue ELSE loginId(u)
    BY <1>1, <1>5, ClientKeyDel DEF TypeInv, RemoveClient
  <2> QED
    BY <1>5, <2>1 DEF TypeInv, HandlersOK, LogSetId, LogSetToken, LogSetTime, OutDel,
       OutHashDel, RemoveClient, AddClient, SetLoginId, SetLogined, history
<1>6. CASE AddClient(t) /\ ~LogSetId(t) /\ ~OutHashDel(t) /\ ~RemoveClient(t)
  <2>1. \A u \in Tokens : loginId(u)' = loginId(u)
    BY <1>1, <1>6, ClientKeySet DEF TypeInv, AddClient
  <2> QED
    BY <1>6, <2>1 DEF AddClient, history
<1> QED
  BY <1>2, <1>3, <1>4, <1>5, <1>6 DEF SessionWrite

(***************************************************************************)
(* A handler between its calls knows the loginId of its connection, because *)
(* only handlers of the connection itself write it.                         *)
(***************************************************************************)
HandlerAt(t) ==
    /\ pc[t] # "idle" => t \in connected
    /\ pc[t] \in {"logSetToken", "logSetTime", "outDel", "outHashDel"} =>
         loginId(t) = req[t].id
    /\ pc[t] = "remove" => loginId(t) = NoValue

SessionInv ==
    /\ proc = "boot" => connected = {}
    /\ \A t \in Tokens : HandlerAt(t)

LEMMA SessionInit == Init => SessionInv
  BY DEF Init, SessionInv, HandlerAt

LEMMA EndIdle ==
    ASSUME ProcessEnds
    PROVE  /\ proc' = "boot" /\ connected' = {}
           /\ \A t \in Tokens : pc'[t] = "idle"
  BY DEF ProcessEnds

LEMMA SessionNext == ASSUME TypeInv, SessionInv, [Next]_vars PROVE SessionInv'
<1>1. CASE Boot
  <2>1. proc' # "boot" /\ UNCHANGED <<connected, pc, req>>
    BY <1>1 DEF Boot
  <2>2. \A t \in Tokens : pc[t] = "idle"
    BY <1>1 DEF Boot, SessionInv, HandlerAt
  <2> QED
    BY <2>1, <2>2 DEF SessionInv, HandlerAt
<1>2. CASE ProcessEnds
  BY <1>2, EndIdle DEF SessionInv, HandlerAt
<1>3. CASE QuietStep
  BY <1>3 DEF SessionInv, HandlerAt, QuietStep, Moves, Held, Busy, loginId
<1>4. ASSUME NEW t \in Tokens, LogLogined(t) PROVE SessionInv'
  <2>1. /\ UNCHANGED <<proc, connected, clientKey>> /\ pc[t] # "idle"
        /\ pc'[t] \in {"logSetId", "idle"}
        /\ \A u \in Tokens \ {t} : pc'[u] = pc[u] /\ req'[u] = req[u]
    BY <1>4 DEF TypeInv, HandlersOK, LogLogined, CheckLogined, Check, Goto, Respond, redis
  <2> QED
    BY <2>1 DEF SessionInv, HandlerAt, loginId
<1>5. ASSUME NEW t \in Tokens, SessionWrite(t) PROVE SessionInv'
  <2>1. proc # "boot"
    BY <1>5 DEF SessionInv, HandlerAt, SessionWrite, LogSetId, LogSetToken, LogSetTime,
       OutDel, OutHashDel, RemoveClient, AddClient, SetLoginId, SetLogined
  <2>2. HandlerAt(t)'
    <3>1. /\ pc'[t] \in {"logSetToken", "logSetTime", "outDel", "outHashDel"} =>
               loginId(t)' = req'[t].id
          /\ pc'[t] = "remove" => loginId(t)' = NoValue
      BY <1>5, WriteEffect DEF TypeInv, HandlersOK, SessionInv, HandlerAt, SessionWrite,
         LogSetId, LogSetToken, LogSetTime, OutDel, OutHashDel, RemoveClient, AddClient,
         SetLoginId, SetLogined, Goto, Respond, LogoutReturns
    <3>2. pc'[t] # "idle" => t \in connected'
      BY <1>5 DEF TypeInv, HandlersOK, SessionInv, HandlerAt, SessionWrite,
         LogSetId, LogSetToken, LogSetTime, OutDel, OutHashDel, RemoveClient, AddClient,
         SetLoginId, SetLogined, Goto, Respond, LogoutReturns
    <3> QED
      BY <3>1, <3>2 DEF HandlerAt
  <2> QED
    BY <1>5, <2>1, <2>2, WriteEffect DEF SessionInv, HandlerAt
<1> QED
  BY <1>1, <1>2, <1>3, <1>4, <1>5, StepKinds

LEMMA SessionInvariance == Spec => []SessionInv
<1>1. TypeInv /\ SessionInv /\ [Next]_vars => SessionInv'
  BY SessionNext
<1> QED
  BY SessionInit, TypeInvariance, <1>1, PTL DEF Spec

\* What the steps do to the sessions: a login replaces the session of its
\* connection, deleting the lock ends it, and nothing else changes it.
LEMMA QuietSession ==
    ASSUME QuietStep
    PROVE  \A t \in Tokens : /\ Session(t)' = Session(t)
                             /\ pc[t] \in Held => pc'[t] = pc[t] /\ req'[t] = req[t]
                             /\ pc'[t] \in Window => pc'[t] = pc[t] /\ req'[t] = req[t]
  BY DEF QuietStep, Moves, Held, Window, Session, loginId

LEMMA LookupSession ==
    ASSUME TypeInv, NEW t \in Tokens, LogLogined(t)
    PROVE  /\ UNCHANGED <<proc, connected, clientKey, loginedKey>>
           /\ UNCHANGED <<staleClient, staleLogined, overwritten>>
           /\ pc[t] = "logLogined" /\ pc'[t] \in {"logSetId", "idle"}
           /\ pc'[t] = "logSetId" => /\ req'[t] = req[t]
                                     /\ ~Exists(loginedKey[req[t].id])
           /\ \A u \in Tokens \ {t} : pc'[u] = pc[u] /\ req'[u] = req[u]
           /\ \A u \in Tokens : Session(u)' = Session(u)
           /\ contended' = contended \cup Overlap(t, Window)
<1>1. /\ UNCHANGED <<proc, connected, clientKey, loginedKey>>
      /\ UNCHANGED <<staleClient, staleLogined, overwritten>>
      /\ pc[t] = "logLogined" /\ pc'[t] \in {"logSetId", "idle"}
      /\ pc'[t] = "logSetId" => /\ req'[t] = req[t]
                                /\ ~Exists(loginedKey[req[t].id])
      /\ \A u \in Tokens \ {t} : pc'[u] = pc[u] /\ req'[u] = req[u]
      /\ contended' = contended \cup Overlap(t, Window)
  BY DEF TypeInv, HandlersOK, LogLogined, CheckLogined, Check, Goto, Respond, redis, Window
<1>2. \A u \in Tokens : Session(u)' = Session(u)
  BY <1>1 DEF Session, loginId
<1> QED
  BY <1>1, <1>2

LEMMA WriteSession ==
    ASSUME TypeInv, SessionInv, NEW t \in Tokens, SessionWrite(t)
    PROVE  /\ \A u \in Tokens \ {t} : Session(u)' = Session(u)
           /\ LogSetId(t) => Session(t) = loginId(t) /\ Session(t)' = req[t].id
           /\ LogSetToken(t) \/ LogSetTime(t) =>
                Session(t) = req[t].id /\ Session(t)' = req[t].id
           /\ OutDel(t) => Session(t) = req[t].id /\ Session(t)' = NoValue
           /\ OutHashDel(t) \/ RemoveClient(t) \/ AddClient(t) =>
                Session(t) = NoValue /\ Session(t)' = NoValue
<1>1. \A u \in Tokens \ {t} : Session(u)' = Session(u)
  BY WriteEffect DEF Session
<1>2. CASE LogSetId(t)
  <2>1. t \in connected /\ t \in connected' /\ pc[t] = "logSetId" /\ pc'[t] = "logSetToken"
    BY <1>2 DEF SessionInv, HandlerAt, TypeInv, HandlersOK, LogSetId, SetLoginId, Goto
  <2>2. Session(t) = loginId(t) /\ Session(t)' = req[t].id
    BY <1>2, <2>1, WriteEffect DEF Session
  <2> QED
    BY <1>1, <1>2, <2>1, <2>2 DEF LogSetToken, LogSetTime, OutDel, OutHashDel, RemoveClient,
       AddClient, SetLogined
<1>3. CASE LogSetToken(t) \/ LogSetTime(t)
  <2>1. /\ t \in connected /\ t \in connected' /\ pc'[t] \in {"logSetTime", "idle"}
        /\ pc[t] \in {"logSetToken", "logSetTime"} /\ loginId(t) = req[t].id
    BY <1>3 DEF SessionInv, HandlerAt, TypeInv, HandlersOK, LogSetToken, LogSetTime,
       SetLogined, Goto, Respond
  <2>2. Session(t) = req[t].id /\ Session(t)' = req[t].id
    BY <1>3, <2>1, WriteEffect DEF Session
  <2> QED
    BY <1>1, <2>1, <2>2 DEF LogSetId, OutDel, OutHashDel, RemoveClient, AddClient, SetLoginId
<1>4. CASE OutDel(t)
  <2>1. t \in connected /\ loginId(t) = req[t].id /\ pc[t] = "outDel" /\ pc'[t] = "outHashDel"
    BY <1>4 DEF SessionInv, HandlerAt, TypeInv, HandlersOK, OutDel, Goto
  <2>2. Session(t) = req[t].id /\ Session(t)' = NoValue
    BY <2>1 DEF Session
  <2> QED
    BY <1>1, <2>1, <2>2 DEF LogSetId, LogSetToken, LogSetTime, OutHashDel, RemoveClient,
       AddClient, SetLoginId, SetLogined
<1>5. CASE OutHashDel(t) \/ RemoveClient(t) \/ AddClient(t)
  <2>1. Session(t)' = NoValue
    <3>1. CASE OutHashDel(t) \/ RemoveClient(t)
      BY <3>1, WriteEffect DEF Session
    <3>2. CASE AddClient(t)
      BY <3>2, WriteEffect, NoClientKey DEF Session, AddClient
    <3> QED
      BY <1>5, <3>1, <3>2
  <2>2. Session(t) = NoValue
    BY <1>5 DEF Session, SessionInv, HandlerAt, OutHashDel, RemoveClient, AddClient
  <2>3. pc[t] \in {"outHashDel", "remove"} \/ t \notin connected
    BY <1>5 DEF OutHashDel, RemoveClient, AddClient
  <2>4. ~(LogSetId(t) \/ LogSetToken(t) \/ LogSetTime(t) \/ OutDel(t))
    BY <2>3 DEF SessionInv, HandlerAt, LogSetId, LogSetToken, LogSetTime, OutDel,
       SetLoginId, SetLogined
  <2> QED
    BY <1>1, <2>1, <2>2, <2>4
<1> QED
  BY <1>2, <1>3, <1>4, <1>5 DEF SessionWrite

(***************************************************************************)
(* One login per account.  Two logins that are both between their lookup   *)
(* and their write of logined:{id} have made the id contended; of an id    *)
(* that is not, a login that has found no lock knows that nobody else has  *)
(* a session, because every session is locked from the moment its handler  *)
(* leaves that window.                                                     *)
(***************************************************************************)
Overlapping ==
    \A s, t \in Tokens :
        /\ pc[s] \in Window /\ pc[t] \in Window
        /\ req[s].id = req[t].id /\ s # t
        => req[t].id \in contended

Fresh ==
    \A t, d \in Tokens :
        pc[t] \in Window /\ d # t /\ Session(d) = req[t].id => req[t].id \in contended

LoginInv ==
    /\ Overlapping
    /\ Fresh
    /\ SessionLocked
    /\ SingleLoginUnlessContended

LEMMA NoSessions ==
    ASSUME connected = {}
    PROVE  \A t \in Tokens : Session(t) = NoValue
  BY DEF Session

LEMMA LoginEmpty ==
    ASSUME connected = {}, \A t \in Tokens : pc[t] = "idle"
    PROVE  LoginInv
  BY NoSessions, ValuesAssumption
  DEF LoginInv, Overlapping, Fresh, SessionLocked, SingleLoginUnlessContended, Window

LEMMA LoginInit == Init => LoginInv
  BY LoginEmpty DEF Init

LEMMA TokenExists ==
    ASSUME LoginedOK, NEW i \in Ids, NEW t \in Tokens, loginedKey[i]["token"] = to_string(t)
    PROVE  Exists(loginedKey[i])
<1>1. to_string(t) # NoValue
  BY ValuesAssumption DEF TokenStrings
<1> QED
  BY <1>1 DEF LoginedOK, Hash, LoginedFields, Exists

LEMMA LookupLogin ==
    ASSUME TypeInv, SessionInv, LoginInv, NEW t \in Tokens, LogLogined(t)
    PROVE  LoginInv'
<1> USE LookupSession
<1>1. contended \subseteq contended'
  OBVIOUS
<1>2. PICK i \in Ids : i = req[t].id
  BY DEF TypeInv, HandlersOK, ReqAt, LoginSteps
<1>3. ASSUME NEW s \in Tokens \ {t}, pc[s] \in Window, req[s].id = i
      PROVE  i \in contended'
  BY <1>2, <1>3 DEF Overlap
<1>4. Overlapping'
  BY <1>1, <1>2, <1>3 DEF LoginInv, Overlapping, Window
<1>5. Fresh'
  <2> SUFFICES ASSUME NEW u \in Tokens, NEW d \in Tokens, pc'[u] \in Window, d # u,
                      Session(d) = req'[u].id
               PROVE  req'[u].id \in contended'
    BY DEF Fresh
  <2>1. CASE u # t
    BY <1>1, <2>1 DEF LoginInv, Fresh
  <2>2. CASE u = t
    <3>1. req'[u].id = i /\ ~Exists(loginedKey[i]) /\ Session(d) = i
      BY <1>2, <2>2 DEF Window
    <3>2. CASE pc[d] = "logSetToken"
      <4>1. req[d].id = i
        BY <1>2, <3>1, <3>2, ValuesAssumption DEF SessionInv, HandlerAt, Session
      <4> QED
        BY <1>3, <2>2, <3>1, <3>2, <4>1 DEF Window
    <3>3. CASE pc[d] # "logSetToken"
      BY <1>1, <3>1, <3>3, TokenExists DEF TypeInv, LoginInv, SessionLocked
    <3> QED
      BY <3>2, <3>3
  <2> QED
    BY <2>1, <2>2
<1>6. SessionLocked'
  BY <1>1 DEF LoginInv, SessionLocked
<1>7. SingleLoginUnlessContended'
  BY <1>1 DEF LoginInv, SingleLoginUnlessContended
<1> QED
  BY <1>4, <1>5, <1>6, <1>7 DEF LoginInv

\* The steps that write: what becomes of the locks.
LEMMA WriteLock ==
    ASSUME TypeInv, NEW t \in Tokens, SessionWrite(t)
    PROVE  /\ LogSetToken(t) =>
                \A i \in Ids : loginedKey'[i]["token"] =
                    IF i = req[t].id THEN to_string(t) ELSE loginedKey[i]["token"]
           /\ OutDel(t) =>
                \A i \in Ids : loginedKey'[i]["token"] =
                    IF i = req[t].id THEN NoValue ELSE loginedKey[i]["token"]
           /\ ~LogSetToken(t) /\ ~OutDel(t) =>
                \A i \in Ids : loginedKey'[i]["token"] = loginedKey[i]["token"]
<1>1. /\ "token" \in LoginedFields /\ "loginTime" \in LoginedFields
      /\ to_string(t) \in TokenStrings
  BY DEF LoginedFields, TokenStrings
<1>2. LogSetToken(t) \/ LogSetTime(t) \/ OutDel(t) => req[t].id \in Ids
  BY DEF TypeInv, HandlersOK, ReqAt, LoginSteps, LogSetToken, LogSetTime, OutDel, SetLogined
<1>3. CASE LogSetToken(t)
  <2>1. \A i \in Ids : loginedKey'[i]["token"] =
          IF i = req[t].id THEN to_string(t) ELSE loginedKey[i]["token"]
    BY <1>1, <1>2, <1>3, LoginedSet DEF TypeInv, LogSetToken, SetLogined
  <2> QED
    BY <1>3, <2>1 DEF LogSetToken, OutDel, SetLogined
<1>4. CASE LogSetTime(t)
  <2>1. \A i \in Ids : loginedKey'[i]["token"] = loginedKey[i]["token"]
    BY <1>1, <1>2, <1>4, LoginedSet DEF TypeInv, LogSetTime, SetLogined
  <2> QED
    BY <1>4, <2>1 DEF LogSetToken, LogSetTime, OutDel, SetLogined
<1>5. CASE OutDel(t)
  <2>1. \A i \in Ids : loginedKey'[i]["token"] =
          IF i = req[t].id THEN NoValue ELSE loginedKey[i]["token"]
    BY <1>1, <1>2, <1>5, LoginedDel DEF TypeInv, OutDel
  <2> QED
    BY <1>5, <2>1 DEF LogSetToken, OutDel, SetLogined
<1>6. CASE LogSetId(t) \/ OutHashDel(t) \/ RemoveClient(t) \/ AddClient(t)
  <2>1. UNCHANGED loginedKey
    BY <1>6 DEF LogSetId, OutHashDel, RemoveClient, AddClient, SetLoginId
  <2>2. CASE LogSetToken(t) \/ OutDel(t)
    BY <1>3, <1>5, <2>2
  <2> QED
    BY <2>1, <2>2
<1> QED
  BY <1>3, <1>4, <1>5, <1>6 DEF SessionWrite

LEMMA WriteLogin ==
    ASSUME TypeInv, SessionInv, LoginInv, NEW t \in Tokens, SessionWrite(t)
    PROVE  LoginInv'
<1>0. /\ contended' = contended
      /\ \A u \in Tokens \ {t} :
           pc'[u] = pc[u] /\ req'[u] = req[u] /\ Session(u)' = Session(u)
  BY WriteEffect, WriteSession
<1>1. CASE LogSetId(t)
  <2>1. PICK i \in Ids : i = req[t].id
    BY <1>1 DEF TypeInv, HandlersOK, ReqAt, LoginSteps, LogSetId, SetLoginId
  <2>2. pc[t] = "logSetId" /\ pc'[t] = "logSetToken" /\ req'[t] = req[t] /\ Session(t)' = i
    BY <1>1, <2>1, WriteSession DEF TypeInv, HandlersOK, LogSetId, SetLoginId, Goto
  <2>3. Overlapping'
    BY <1>0, <2>2 DEF LoginInv, Overlapping, Window
  <2>4. Fresh'
    <3> SUFFICES ASSUME NEW u \in Tokens, NEW d \in Tokens, pc'[u] \in Window, d # u,
                        Session(d)' = req'[u].id
                 PROVE  req'[u].id \in contended
      BY <1>0 DEF Fresh
    <3>1. CASE d = t
      BY <1>0, <2>1, <2>2, <3>1 DEF LoginInv, Overlapping, Window
    <3>2. CASE d # t
      BY <1>0, <2>2, <3>2 DEF LoginInv, Fresh, Window
    <3> QED
      BY <3>1, <3>2
  <2>5. SessionLocked'
    <3>1. \A j \in Ids : loginedKey'[j]["token"] = loginedKey[j]["token"]
      BY <1>1, WriteLock DEF LogSetId, SetLoginId, LogSetToken, OutDel, SetLogined
    <3> QED
      BY <1>0, <2>2, <3>1 DEF LoginInv, SessionLocked
  <2>6. SingleLoginUnlessContended'
    <3>1. \A d \in Tokens \ {t} : Session(d) = i => i \in contended
      BY <2>1, <2>2 DEF LoginInv, Fresh, Window
    <3> QED
      BY <1>0, <2>2, <3>1 DEF LoginInv, SingleLoginUnlessContended
  <2> QED
    BY <2>3, <2>4, <2>5, <2>6 DEF LoginInv
<1>2. CASE LogSetToken(t) \/ LogSetTime(t)
  <2>1. PICK i \in Ids : i = req[t].id
    BY <1>2 DEF TypeInv, HandlersOK, ReqAt, LoginSteps, LogSetToken, LogSetTime, SetLogined
  <2>2. /\ Session(t) = i /\ Session(t)' = i
        /\ LogSetToken(t) => pc[t] = "logSetToken"
        /\ LogSetTime(t) => pc[t] = "logSetTime"
        /\ pc'[t] \in {"logSetTime", "idle"}
    BY <1>2, <2>1, WriteSession
    DEF TypeInv, HandlersOK, LogSetToken, LogSetTime, SetLogined, Goto, Respond
  <2>3. Overlapping'
    BY <1>0, <2>2 DEF LoginInv, Overlapping, Window
  <2>4. Fresh'
    BY <1>0, <2>2 DEF LoginInv, Fresh, Window
  <2>5. SessionLocked'
    <3> SUFFICES ASSUME NEW u \in Tokens, NEW j \in Ids \ contended, Session(u)' = j,
                        pc'[u] # "logSetToken"
                 PROVE  loginedKey'[j]["token"] = to_string(u)
      BY <1>0 DEF SessionLocked
    <3>1. CASE LogSetToken(t)
      <4>1. CASE u = t
        BY <2>1, <2>2, <3>1, <4>1, WriteLock
      <4>2. CASE u # t
        <5>1. j # i
          BY <1>0, <2>1, <2>2, <3>1, <4>2 DEF LoginInv, Fresh, Window
        <5> QED
          BY <1>0, <2>1, <3>1, <4>2, <5>1, WriteLock DEF LoginInv, SessionLocked
      <4> QED
        BY <4>1, <4>2
    <3>2. CASE LogSetTime(t)
      <4>1. loginedKey'[j]["token"] = loginedKey[j]["token"]
        BY <3>2, WriteLock DEF LogSetTime, LogSetToken, OutDel, SetLogined
      <4>2. Session(u) = j /\ pc[u] # "logSetToken"
        BY <1>0, <2>2, <3>2
      <4> QED
        BY <4>1, <4>2 DEF LoginInv, SessionLocked
    <3> QED
      BY <1>2, <3>1, <3>2
  <2>6. SingleLoginUnlessContended'
    BY <1>0, <2>2 DEF LoginInv, SingleLoginUnlessContended
  <2> QED
    BY <2>3, <2>4, <2>5, <2>6 DEF LoginInv
<1>3. CASE OutDel(t) \/ OutHashDel(t) \/ RemoveClient(t) \/ AddClient(t)
  <2>1. /\ Session(t)' = NoValue
        /\ pc'[t] \notin Window
    BY <1>3, WriteSession DEF TypeInv, HandlersOK, OutDel, OutHashDel, RemoveClient,
       AddClient, SessionInv, HandlerAt, Window, Goto, LogoutReturns
  <2>2. NoValue \notin Ids
    BY ValuesAssumption
  <2>3. Overlapping'
    BY <1>0, <2>1 DEF LoginInv, Overlapping
  <2>4. Fresh'
    <3>1. \A u \in Tokens : pc'[u] \in Window => req'[u].id \in Ids
      BY <1>0, <2>1 DEF TypeInv, HandlersOK, ReqAt, LoginSteps, Window
    <3> QED
      BY <1>0, <2>1, <2>2, <3>1 DEF LoginInv, Fresh
  <2>5. SessionLocked'
    <3> SUFFICES ASSUME NEW u \in Tokens, NEW j \in Ids \ contended, Session(u)' = j,
                        pc'[u] # "logSetToken"
                 PROVE  loginedKey'[j]["token"] = to_string(u)
      BY <1>0 DEF SessionLocked
    <3>1. u # t /\ loginedKey[j]["token"] = to_string(u) /\ Session(u) = j
      BY <1>0, <2>1, <2>2 DEF LoginInv, SessionLocked
    <3>2. CASE OutDel(t)
      <4>1. j # req[t].id
        BY <2>2, <3>1, <3>2, WriteSession DEF LoginInv, SingleLoginUnlessContended
      <4> QED
        BY <3>1, <3>2, <4>1, WriteLock
    <3>3. CASE ~OutDel(t)
      <4>1. ~LogSetToken(t)
        BY <1>3, <3>3, WriteSession, <2>1, <2>2
        DEF LogSetToken, SetLogined, TypeInv, HandlersOK, ReqAt, LoginSteps
      <4> QED
        BY <3>1, <3>3, <4>1, WriteLock
    <3> QED
      BY <3>2, <3>3
  <2>6. SingleLoginUnlessContended'
    BY <1>0, <2>1 DEF LoginInv, SingleLoginUnlessContended
  <2> QED
    BY <2>3, <2>4, <2>5, <2>6 DEF LoginInv
<1> QED
  BY <1>1, <1>2, <1>3 DEF SessionWrite

LEMMA LoginNext == ASSUME TypeInv, SessionInv, LoginInv, [Next]_vars PROVE LoginInv'
<1>1. CASE Boot
  <2>1. connected' = {} /\ \A t \in Tokens : pc'[t] = "idle"
    BY <1>1 DEF Boot, SessionInv, HandlerAt
  <2> QED
    BY <2>1, NoSessions, ValuesAssumption
    DEF LoginInv, Overlapping, Fresh, SessionLocked, SingleLoginUnlessContended, Window,
        Session
<1>2. CASE ProcessEnds
  <2>1. connected' = {} /\ \A t \in Tokens : pc'[t] = "idle"
    BY <1>2, EndIdle
  <2> QED
    BY <2>1, ValuesAssumption
    DEF LoginInv, Overlapping, Fresh, SessionLocked, SingleLoginUnlessContended, Window,
        Session
<1>3. CASE QuietStep
  <2>1. UNCHANGED <<contended, loginedKey>>
    BY <1>3 DEF QuietStep
  <2>2. Overlapping' /\ Fresh'
    BY <1>3, <2>1, QuietSession DEF LoginInv, Overlapping, Fresh
  <2>3. SessionLocked'
    BY <1>3, <2>1, QuietSession DEF LoginInv, SessionLocked, Held
  <2>4. SingleLoginUnlessContended'
    BY <1>3, <2>1, QuietSession DEF LoginInv, SingleLoginUnlessContended
  <2> QED
    BY <2>2, <2>3, <2>4 DEF LoginInv
<1> QED
  BY <1>1, <1>2, <1>3, StepKinds, LookupLogin, WriteLogin

LEMMA LoginInvariance == Spec => []LoginInv
<1>1. TypeInv /\ SessionInv /\ LoginInv /\ [Next]_vars => LoginInv'
  BY LoginNext
<1> QED
  BY LoginInit, TypeInvariance, SessionInvariance, <1>1, PTL DEF Spec

\* For any number of io threads, and through logouts, disconnections, second
\* logins, ends of the process and starts that leave keys behind, two
\* connections are logged in with the same id only if two logins of this
\* process have looked up its lock before either wrote it.
THEOREM OneLoginUnlessContended == Spec => []SingleLoginUnlessContended
<1>1. LoginInv => SingleLoginUnlessContended
  BY DEF LoginInv
<1> QED
  BY LoginInvariance, <1>1, PTL

\* Under the same conditions the login of a connection stays protected by the
\* key logined:{id} that names this connection.
THEOREM LoginsAreLocked == Spec => []SessionLocked
<1>1. LoginInv => SessionLocked
  BY DEF LoginInv
<1> QED
  BY LoginInvariance, <1>1, PTL

(***************************************************************************)
(* Locks and their owners.  A lock this process writes belongs to the      *)
(* session of the connection that writes it, and stays with it until the   *)
(* logout deletes both or a second login of the connection leaves it       *)
(* behind.                                                                 *)
(***************************************************************************)
Explained(i) == (\E t \in Tokens : Session(t) = i) \/ i \in staleLogined \cup overwritten

NamesOwner ==
    \A i \in Ids, t \in Tokens :
        loginedKey[i]["token"] = to_string(t) =>
            Session(t) = i \/ i \in staleLogined \cup overwritten

OwnerInv == proc # "boot" => NamesOwner /\ \A i \in Ids : Exists(loginedKey[i]) => Explained(i)

LEMMA OwnerInit == Init => OwnerInv
  BY DEF Init, OwnerInv

LEMMA LoginedSetExists ==
    ASSUME LoginedOK, NEW i \in Ids, NEW f \in LoginedFields,
           NEW v \in TokenStrings \cup {Now},
           loginedKey' = HashSet(loginedKey, i, f, v)
    PROVE  \A j \in Ids : j # i => (Exists(loginedKey[j])' <=> Exists(loginedKey[j]))
<1> TAKE j \in Ids
<1> HAVE j # i
<1>1. loginedKey'[j] = loginedKey[j]
  BY DEF HashSet, LoginedOK
<1> QED
  BY <1>1

LEMMA LoginedDelExists ==
    ASSUME LoginedOK, NEW i \in Ids, loginedKey' = Del(loginedKey, i)
    PROVE  \A j \in Ids : Exists(loginedKey[j])' <=> j # i /\ Exists(loginedKey[j])
<1> TAKE j \in Ids
<1>1. CASE j # i
  <2>1. loginedKey'[j] = loginedKey[j]
    BY <1>1 DEF Del, LoginedOK
  <2> QED
    BY <1>1, <2>1
<1>2. CASE j = i
  <2>1. loginedKey'[j] = NoKey(DOMAIN loginedKey[i])
    BY <1>2 DEF Del, LoginedOK
  <2> QED
    BY <1>2, <2>1 DEF NoKey, Exists
<1> QED
  BY <1>1, <1>2

\* What the clean-up of a start leaves is what this start is said to leave.
LEMMA BootLeaves ==
    ASSUME TypeInv, Boot
    PROVE  \A i \in Ids : Exists(loginedKey[i])' => i \in staleLogined'
<1>1. PICK locks : /\ loginedKey' = DelAll(loginedKey, locks)
                   /\ staleLogined' = Keys(loginedKey) \ locks
  BY DEF Boot
<1> SUFFICES ASSUME NEW i \in Ids, Exists(loginedKey'[i]) PROVE i \in staleLogined'
  OBVIOUS
<1>2. i \notin locks
  <2> SUFFICES ASSUME i \in locks PROVE FALSE
    OBVIOUS
  <2>1. loginedKey'[i] = NoKey(DOMAIN loginedKey[i])
    BY <1>1 DEF DelAll, TypeInv, LoginedOK
  <2> QED
    BY <2>1 DEF NoKey, Exists
<1>3. loginedKey'[i] = loginedKey[i] /\ i \in DOMAIN loginedKey
  BY <1>1, <1>2 DEF DelAll, TypeInv, LoginedOK
<1> QED
  BY <1>1, <1>2, <1>3 DEF Keys

LEMMA WriteOwner ==
    ASSUME TypeInv, SessionInv, OwnerInv, NEW t \in Tokens, SessionWrite(t)
    PROVE  OwnerInv'
<1>0. /\ proc # "boot" /\ proc' = proc /\ staleLogined' = staleLogined
      /\ \A u \in Tokens \ {t} : Session(u)' = Session(u)
      /\ NoValue \notin Ids
  BY WriteEffect, WriteSession, ValuesAssumption
  DEF SessionInv, HandlerAt, SessionWrite, LogSetId, LogSetToken, LogSetTime, OutDel,
      OutHashDel, RemoveClient, AddClient, SetLoginId, SetLogined
<1>1. NamesOwner /\ \A i \in Ids : Exists(loginedKey[i]) => Explained(i)
  BY <1>0 DEF OwnerInv
<1>2. CASE LogSetId(t)
  <2>1. /\ UNCHANGED loginedKey
        /\ overwritten' = overwritten \cup ({Session(t)} \ {NoValue, req[t].id})
        /\ Session(t)' = req[t].id
    BY <1>2, WriteSession DEF LogSetId, SetLoginId
  <2>2. \A i \in Ids : Session(t) = i => Session(t)' = i \/ i \in overwritten'
    BY <1>0, <2>1
  <2>3. NamesOwner'
    BY <1>0, <1>1, <2>1, <2>2 DEF NamesOwner
  <2>4. \A i \in Ids : Explained(i) => Explained(i)'
    BY <1>0, <2>1, <2>2 DEF Explained
  <2> QED
    BY <1>1, <2>1, <2>3, <2>4 DEF OwnerInv
<1>3. CASE LogSetToken(t) \/ LogSetTime(t)
  <2>1. PICK i \in Ids : i = req[t].id
    BY <1>3 DEF TypeInv, HandlersOK, ReqAt, LoginSteps, LogSetToken, LogSetTime, SetLogined
  <2>2. Session(t) = i /\ Session(t)' = i /\ overwritten' = overwritten
    BY <1>3, <2>1, WriteSession DEF LogSetToken, LogSetTime, SetLogined, history
  <2>3. \A j \in Ids : Explained(j) => Explained(j)'
    BY <1>0, <2>2 DEF Explained
  <2>4. \A u \in Tokens : to_string(u) = to_string(t) => u = t
    BY DEF to_string
  <2>5. NamesOwner'
    <3> SUFFICES ASSUME NEW j \in Ids, NEW u \in Tokens,
                        loginedKey'[j]["token"] = to_string(u)
                 PROVE  Session(u)' = j \/ j \in staleLogined \cup overwritten
      BY <1>0, <2>2 DEF NamesOwner
    <3>1. CASE LogSetToken(t) /\ j = i
      <4>1. u = t
        BY <2>1, <2>4, <3>1, WriteLock
      <4> QED
        BY <2>2, <3>1, <4>1
    <3>2. CASE ~LogSetToken(t) \/ j # i
      <4>1. loginedKey[j]["token"] = to_string(u)
        <5>1. LogSetTime(t) => ~LogSetToken(t) /\ ~OutDel(t)
          BY DEF LogSetToken, LogSetTime, OutDel, SetLogined
        <5> QED
          BY <1>3, <2>1, <3>2, <5>1, WriteLock
      <4>2. Session(u) = j \/ j \in staleLogined \cup overwritten
        BY <1>1, <4>1 DEF NamesOwner
      <4> QED
        BY <1>0, <2>2, <4>2
    <3> QED
      BY <3>1, <3>2
  <2>6. \A j \in Ids : Exists(loginedKey[j])' => Explained(j)'
    <3> SUFFICES ASSUME NEW j \in Ids, j # i, Exists(loginedKey[j])' PROVE Explained(j)'
      BY <2>2 DEF Explained
    <3>1. /\ "token" \in LoginedFields /\ "loginTime" \in LoginedFields
          /\ to_string(t) \in TokenStrings
      BY DEF LoginedFields, TokenStrings
    <3>2. Exists(loginedKey[j])
      BY <1>3, <2>1, <3>1, LoginedSetExists DEF TypeInv, LogSetToken, LogSetTime, SetLogined
    <3> QED
      BY <1>1, <2>3, <3>2
  <2> QED
    BY <2>5, <2>6 DEF OwnerInv
<1>4. CASE OutDel(t)
  <2>1. PICK i \in Ids : i = req[t].id
    BY <1>4 DEF TypeInv, HandlersOK, ReqAt, OutDel
  <2>2. Session(t) = i /\ Session(t)' = NoValue /\ overwritten' = overwritten
    BY <1>4, <2>1, WriteSession DEF OutDel, history
  <2>3. \A j \in Ids \ {i} : Explained(j) => Explained(j)'
    BY <1>0, <2>2 DEF Explained
  <2>4. \A j \in Ids : Exists(loginedKey[j])' => j # i /\ Exists(loginedKey[j])
    BY <1>4, <2>1, LoginedDelExists DEF TypeInv, OutDel
  <2>5. NamesOwner'
    <3> SUFFICES ASSUME NEW j \in Ids, NEW u \in Tokens,
                        loginedKey'[j]["token"] = to_string(u)
                 PROVE  Session(u)' = j \/ j \in staleLogined \cup overwritten
      BY <1>0, <2>2 DEF NamesOwner
    <3>1. to_string(u) # NoValue
      BY ValuesAssumption DEF TokenStrings
    <3>2. j # i /\ loginedKey[j]["token"] = to_string(u)
      BY <1>4, <2>1, <3>1, WriteLock
    <3> QED
      BY <1>0, <1>1, <2>2, <3>2 DEF NamesOwner
  <2> QED
    BY <1>1, <2>3, <2>4, <2>5 DEF OwnerInv
<1>5. CASE OutHashDel(t) \/ RemoveClient(t) \/ AddClient(t)
  <2>1. UNCHANGED <<loginedKey, overwritten>> /\ Session(t)' = Session(t)
    BY <1>5, WriteSession DEF OutHashDel, RemoveClient, AddClient, history
  <2>2. \A i \in Ids : Explained(i) => Explained(i)'
    BY <1>0, <2>1 DEF Explained
  <2> QED
    BY <1>0, <1>1, <2>1, <2>2 DEF OwnerInv, NamesOwner
<1> QED
  BY <1>2, <1>3, <1>4, <1>5 DEF SessionWrite

LEMMA OwnerNext == ASSUME TypeInv, SessionInv, OwnerInv, [Next]_vars PROVE OwnerInv'
<1>1. CASE Boot
  <2>1. LoginedOK'
    BY <1>1, BootType DEF TypeInv
  <2>2. \A i \in Ids, t \in Tokens :
          loginedKey'[i]["token"] = to_string(t) => Exists(loginedKey[i])'
    BY <2>1, TokenExists, ValuesAssumption
    DEF LoginedOK, Hash, LoginedFields, Exists, TokenStrings
  <2> QED
    BY <1>1, <2>2, BootLeaves DEF OwnerInv, NamesOwner, Explained
<1>2. CASE ProcessEnds
  BY <1>2 DEF ProcessEnds, OwnerInv
<1>3. CASE QuietStep
  <2>1. /\ UNCHANGED <<loginedKey, staleLogined, overwritten>>
        /\ proc' # "boot" => proc # "boot"
    BY <1>3 DEF QuietStep
  <2> QED
    BY <1>3, <2>1, QuietSession DEF OwnerInv, NamesOwner, Explained
<1>4. ASSUME NEW t \in Tokens, LogLogined(t) PROVE OwnerInv'
  <2>1. /\ UNCHANGED <<proc, loginedKey, staleLogined, overwritten>>
        /\ \A u \in Tokens : Session(u)' = Session(u)
    BY <1>4, LookupSession
  <2> QED
    BY <2>1 DEF OwnerInv, NamesOwner, Explained
<1> QED
  BY <1>1, <1>2, <1>3, <1>4, StepKinds, WriteOwner

LEMMA OwnerInvariance == Spec => []OwnerInv
<1>1. TypeInv /\ SessionInv /\ OwnerInv /\ [Next]_vars => OwnerInv'
  BY OwnerNext
<1> QED
  BY OwnerInit, TypeInvariance, SessionInvariance, <1>1, PTL DEF Spec

\* A key logined:{id} without a connection that is logged in with the id has
\* been left by a former process, outside the one page the start scanned, or
\* by a client that logged in with another id: no interleaving of logins,
\* logouts and disconnections adds a third way to lock an account for good.
THEOREM LocksAreExplained == Spec => []LockExplained
<1>1. OwnerInv => LockExplained
  BY DEF OwnerInv, LockExplained, Explained
<1> QED
  BY OwnerInvariance, <1>1, PTL

\* When the disconnect handler has removed a connection, no account this
\* process locked for it stays locked, but one it had left by logging in with
\* another id.
THEOREM DisconnectsRelease == Spec => DisconnectReleasesLogin
<1> DEFINE Released ==
      \A t \in connected \ connected', i \in Ids \ (staleLogined \cup overwritten) :
        proc' = "boot" \/ loginedKey'[i]["token"] # to_string(t)
<1>1. TypeInv /\ SessionInv /\ OwnerInv /\ [Next]_vars => [Released]_vars
  <2> SUFFICES ASSUME TypeInv, SessionInv, OwnerInv, [Next]_vars, proc' # "boot",
                      NEW t \in connected \ connected',
                      NEW i \in Ids \ (staleLogined \cup overwritten)
               PROVE  loginedKey'[i]["token"] # to_string(t)
    OBVIOUS
  <2>1. t \in Tokens
    BY DEF TypeInv, ConnectionsOK
  <2>2. ~Boot /\ ~ProcessEnds /\ ~QuietStep /\ \A u \in Tokens : ~LogLogined(u)
    BY LookupSession, EndIdle DEF Boot, QuietStep
  <2>3. PICK u \in Tokens : SessionWrite(u)
    BY <2>2, StepKinds
  <2>4. u = t
    BY <2>1, <2>3, WriteEffect
  <2>5. RemoveClient(t)
    BY <2>3, <2>4 DEF SessionWrite, LogSetId, LogSetToken, LogSetTime, OutDel, OutHashDel,
       AddClient, Goto, Respond, LogoutReturns
  <2>6. Session(t) = NoValue /\ UNCHANGED loginedKey /\ NoValue \notin Ids /\ proc # "boot"
    BY <2>3, <2>4, <2>5, WriteSession, WriteEffect, ValuesAssumption DEF RemoveClient
  <2> QED
    BY <2>1, <2>6 DEF OwnerInv, NamesOwner
<1> QED
  BY <1>1, TypeInvariance, SessionInvariance, OwnerInvariance, PTL
  DEF Spec, DisconnectReleasesLogin

(***************************************************************************)
(* The keys client:{token}.  Handlers run only for connections, so what a  *)
(* start has left is never written and never taken for a connection.       *)
(***************************************************************************)
Recorded(t) ==
    /\ t \in connected => clientKey[t]["ConnectedTime"] # NoValue /\ t \notin staleClient
    /\ t \in staleClient => \E f \in ClientFields : clientKey[t][f] # NoValue
    /\ t \notin connected \cup staleClient => \A f \in ClientFields : clientKey[t][f] = NoValue

ConnectionInv == proc # "boot" => \A t \in Tokens : Recorded(t)

LEMMA NoFieldSet ==
    ASSUME ClientKeysOK, NEW t \in Tokens
    PROVE  Exists(clientKey[t]) <=> \E f \in ClientFields : clientKey[t][f] # NoValue
  BY DEF ClientKeysOK, Hash, Exists

LEMMA ConnectionNext ==
    ASSUME TypeInv, SessionInv, ConnectionInv, [Next]_vars
    PROVE  ConnectionInv'
<1>0. "ConnectedTime" \in ClientFields /\ "loginId" \in ClientFields
  BY DEF ClientFields
<1>1. CASE Boot
  <2>1. PICK ks : clientKey' = DelAll(clientKey, ks) /\ staleClient' = Keys(clientKey) \ ks
    BY <1>1 DEF Boot
  <2>2. \A u \in Tokens, g \in ClientFields :
          clientKey'[u][g] = IF u \in ks THEN NoValue ELSE clientKey[u][g]
    BY <2>1, ClientKeysDel DEF TypeInv
  <2>3. \A u \in Tokens :
          u \in staleClient' <=> u \notin ks /\ \E f \in ClientFields : clientKey[u][f] # NoValue
    BY <2>1, NoFieldSet DEF TypeInv, Keys, ClientKeysOK
  <2>4. connected' = {}
    BY <1>1 DEF Boot, SessionInv
  <2> QED
    BY <2>2, <2>3, <2>4 DEF ConnectionInv, Recorded
<1>2. CASE ProcessEnds
  BY <1>2 DEF ProcessEnds, ConnectionInv
<1>3. CASE QuietStep \/ \E t \in Tokens : LogLogined(t)
  <2>1. /\ UNCHANGED <<connected, clientKey, staleClient>>
        /\ proc' # "boot" => proc # "boot"
    BY <1>3, LookupSession DEF QuietStep
  <2> QED
    BY <2>1 DEF ConnectionInv, Recorded
<1>4. ASSUME NEW t \in Tokens, SessionWrite(t) PROVE ConnectionInv'
  <2>0. proc' = proc /\ staleClient' = staleClient
    BY <1>4, WriteEffect
  <2>1. CASE AddClient(t)
    <3>1. /\ \A u \in Tokens, g \in ClientFields :
               clientKey'[u][g] =
                 IF u = t /\ g = "ConnectedTime" THEN Now ELSE clientKey[u][g]
          /\ Now # NoValue
      BY <1>0, <2>1, ClientKeySet, ValuesAssumption DEF AddClient, TypeInv
    <3>2. \A f \in ClientFields : clientKey[t][f] = NoValue
      BY <2>1, NoFieldSet DEF AddClient, TypeInv
    <3> QED
      BY <1>0, <2>0, <2>1, <3>1, <3>2 DEF AddClient, ConnectionInv, Recorded
  <2>2. CASE LogSetId(t)
    <3>1. req[t].id \in Ids /\ t \in connected /\ connected' = connected
      BY <2>2 DEF TypeInv, HandlersOK, ReqAt, LogSetId, SetLoginId, LoginSteps, Goto,
         SessionInv, HandlerAt
    <3>2. \A u \in Tokens, g \in ClientFields :
            clientKey'[u][g] =
              IF u = t /\ g = "loginId" THEN req[t].id ELSE clientKey[u][g]
      BY <1>0, <2>2, <3>1, ClientKeySet DEF LogSetId, SetLoginId, TypeInv
    <3> QED
      BY <1>0, <2>0, <3>1, <3>2 DEF ConnectionInv, Recorded
  <2>3. CASE OutHashDel(t)
    <3>1. t \in connected /\ connected' = connected
      BY <2>3 DEF OutHashDel, LogoutReturns, SessionInv, HandlerAt
    <3>2. \A u \in Tokens, g \in ClientFields :
            clientKey'[u][g] =
              IF u = t /\ g = "loginId" THEN NoValue ELSE clientKey[u][g]
      BY <2>3, ClientKeyUnset DEF OutHashDel, TypeInv
    <3> QED
      BY <1>0, <2>0, <3>1, <3>2 DEF ConnectionInv, Recorded
  <2>4. CASE RemoveClient(t)
    <3>1. t \in connected /\ connected' = connected \ {t}
      BY <2>4 DEF RemoveClient, SessionInv, HandlerAt
    <3>2. \A u \in Tokens, g \in ClientFields :
            clientKey'[u][g] = IF u = t THEN NoValue ELSE clientKey[u][g]
      BY <2>4, ClientKeyDel DEF RemoveClient, TypeInv
    <3> QED
      BY <1>0, <2>0, <3>1, <3>2 DEF ConnectionInv, Recorded
  <2>5. CASE LogSetToken(t) \/ LogSetTime(t) \/ OutDel(t)
    <3>1. UNCHANGED <<connected, clientKey>>
      BY <2>5 DEF LogSetToken, LogSetTime, OutDel, SetLogined, Goto, Respond
    <3> QED
      BY <2>0, <3>1 DEF ConnectionInv, Recorded
  <2> QED
    BY <1>4, <2>1, <2>2, <2>3, <2>4, <2>5 DEF SessionWrite
<1> QED
  BY <1>1, <1>2, <1>3, <1>4, StepKinds

\* For any number of io threads, and through crashes, restarts and the reuse
\* of tokens, client:{token} exists exactly while the token belongs to a
\* connection, with the time of that connection, or is one of the keys the
\* one page of this start's clean-up did not hold.
THEOREM KeysTrackConnections == Spec => []ClientKeyTracksConnection
<1>1. TypeInv /\ SessionInv /\ ConnectionInv /\ [Next]_vars => ConnectionInv'
  BY ConnectionNext
<1>2. Init => ConnectionInv
  BY DEF Init, ConnectionInv
<1>3. TypeInv /\ ConnectionInv => ClientKeyTracksConnection
  <2>1. "ConnectedTime" \in ClientFields
    BY DEF ClientFields
  <2> QED
    BY <2>1, NoFieldSet DEF TypeInv, ConnectionInv, Recorded, ClientKeyTracksConnection
<1> QED
  BY TypeInvariance, SessionInvariance, <1>1, <1>2, <1>3, PTL DEF Spec

(***************************************************************************)
(* Complete accounts.  Of the registrations that write an account, the one *)
(* that leaves last has written all three fields itself.                   *)
(***************************************************************************)
FilledInv ==
    /\ AccountTornOnlyByEnd
    /\ \A t \in Tokens : pc[t] = "regColor" => idKey[req[t].id]["nickname"] # NoValue

LEMMA FilledInit == Init => FilledInv
<1>1. ~Exists(NoKey(AccountFields))
  BY NoKeyFields
<1> QED
  BY <1>1 DEF Init, FilledInv, AccountTornOnlyByEnd

\* A registration that has begun to write goes on, in steps of other handlers,
\* until the process ends.
LEMMA FillingStays ==
    ASSUME TypeInv, [Next]_vars
    PROVE  \/ \E t \in Tokens : RegPassword(t) \/ RegNickname(t) \/ RegColor(t)
           \/ ProcessEnds
           \/ /\ interrupted' = interrupted
              /\ \A t \in Tokens : pc[t] \in Filling => pc'[t] = pc[t] /\ req'[t] = req[t]
<1> DEFINE Stays == /\ interrupted' = interrupted
                    /\ \A t \in Tokens :
                         pc[t] \in Filling => pc'[t] = pc[t] /\ req'[t] = req[t]
<1> USE DEF TypeInv, HandlersOK, Filling, history
<1>1. CASE Boot \/ Signal \/ Exit \/ Crash
  BY <1>1 DEF Boot, Signal, Exit, Crash
<1>2. ASSUME NEW t \in Tokens, AddClient(t) PROVE Stays
  BY <1>2 DEF AddClient
<1>3. ASSUME NEW t \in Tokens, Request(t) PROVE Stays
  BY <1>3 DEF Request, RejectRequest, PlayerData, Logout, Disconnect, Register, Login,
              Begin, CanBegin, Busy
<1>4. ASSUME NEW t \in Tokens, RegExists(t) PROVE Stays
  BY <1>4 DEF RegExists, CheckAccount, Check, Goto, Respond
<1>5. ASSUME NEW t \in Tokens, LoginStep(t) PROVE Stays
  BY <1>5 DEF LoginStep, LogExists, LogPassword, LogLogined, LogSetId, LogSetToken,
              LogSetTime, CheckLogined, Check, SetLoginId, SetLogined, Goto, Respond
<1>6. ASSUME NEW t \in Tokens, DataStep(t) PROVE Stays \/ ProcessEnds
  BY <1>6 DEF DataStep, DatClient, DatLoginId, DatExists, DatNickname, DatColor, Check,
              ReadLoginId, Goto, Respond
<1>7. ASSUME NEW t \in Tokens, LogoutStep(t) PROVE Stays
  BY <1>7 DEF LogoutStep, OutClient, OutLoginId, OutDel, OutHashDel, RemoveClient,
              ReadLoginId, LogoutReturns, Goto
<1>8. CASE UNCHANGED vars
  BY <1>8 DEF vars
<1> QED
  BY <1>1, <1>2, <1>3, <1>4, <1>5, <1>6, <1>7, <1>8 DEF Next, Handler, RegisterStep

LEMMA FilledNext ==
    ASSUME TypeInv, PasswordInv, FilledInv, [Next]_vars
    PROVE  FilledInv'
<1>0. /\ AccountFields = {"password", "nickname", "personalColor"}
      /\ NoValue \notin Digests \cup Profiles
  BY ValuesAssumption DEF AccountFields
<1>1. ASSUME NEW t \in Tokens, RegPassword(t) \/ RegNickname(t) \/ RegColor(t)
      PROVE  FilledInv'
  <2>1. PICK i \in Ids : i = req[t].id /\ req[t].profile \in Profiles
    BY <1>1 DEF TypeInv, HandlersOK, ReqAt, RegisterSteps, RegPassword, RegNickname,
                RegColor, SetAccount
  <2>2. PICK f \in AccountFields, v \in Digests \cup Profiles :
          /\ idKey' = HashSet(idKey, i, f, v)
          /\ f = "password" => v \in Digests
          /\ f = "nickname" => v \in Profiles
          /\ RegNickname(t) => f = "nickname"
          /\ RegColor(t) => f = "personalColor"
    BY <1>0, <1>1, <2>1 DEF RegPassword, RegNickname, RegColor, SetAccount, Digests
  <2>3. /\ AccountsOK'
        /\ \A j \in Ids, g \in AccountFields :
             idKey'[j][g] = IF j = i /\ g = f THEN v ELSE idKey[j][g]
    BY <2>2, AccountSet DEF TypeInv
  <2>4. v # NoValue /\ interrupted' = interrupted
    BY <1>0, <1>1 DEF RegPassword, RegNickname, RegColor, SetAccount, history
  <2>5. \A j \in Ids, g \in AccountFields : idKey[j][g] # NoValue => idKey'[j][g] # NoValue
    BY <2>3, <2>4
  <2>6. \A u \in Tokens \ {t} : pc'[u] = pc[u] /\ req'[u] = req[u]
    BY <1>1 DEF TypeInv, HandlersOK, RegPassword, RegNickname, RegColor, Goto, Respond
  <2>7. \/ pc'[t] = "regNickname" /\ req'[t].id = i /\ RegPassword(t)
        \/ pc'[t] = "regColor" /\ req'[t].id = i /\ RegNickname(t)
        \/ pc'[t] = "idle" /\ RegColor(t)
    BY <1>1, <2>1 DEF TypeInv, HandlersOK, RegPassword, RegNickname, RegColor, Goto, Respond
  <2>8. ASSUME NEW u \in Tokens, pc'[u] = "regColor"
        PROVE  idKey'[req'[u].id]["nickname"] # NoValue
    <3>1. CASE u = t
      BY <1>0, <2>2, <2>3, <2>4, <2>7, <2>8, <3>1
    <3>2. CASE u # t
      <4>1. pc[u] = "regColor" /\ req'[u] = req[u]
        BY <2>6, <2>8, <3>2
      <4>2. req[u].id \in Ids
        BY <4>1 DEF TypeInv, HandlersOK, ReqAt, RegisterSteps
      <4> QED
        BY <1>0, <2>5, <4>1, <4>2 DEF FilledInv
    <3> QED
      BY <3>1, <3>2
  <2>9. ASSUME NEW j \in Ids
        PROVE  \/ ~Exists(idKey[j])'
               \/ \A g \in AccountFields : idKey'[j][g] # NoValue
               \/ \E u \in Tokens : pc'[u] \in Filling /\ req'[u].id = j
               \/ j \in interrupted'
    <3>1. CASE j # i
      <4>1. idKey'[j] = idKey[j]
        BY <2>2, <3>1 DEF HashSet, TypeInv, AccountsOK
      <4>2. ASSUME NEW u \in Tokens, pc[u] \in Filling, req[u].id = j
            PROVE  pc'[u] \in Filling /\ req'[u].id = j
        BY <2>1, <2>6, <3>1, <4>2
      <4>3. \/ ~Exists(idKey[j])
            \/ \A g \in AccountFields : idKey[j][g] # NoValue
            \/ \E u \in Tokens : pc[u] \in Filling /\ req[u].id = j
            \/ j \in interrupted
        BY DEF FilledInv, AccountTornOnlyByEnd, HashGet
      <4> QED
        BY <2>4, <4>1, <4>2, <4>3
    <3>2. CASE j = i /\ ~RegColor(t)
      BY <2>7, <3>2 DEF Filling
    <3>3. CASE j = i /\ RegColor(t)
      <4>1. idKey[i]["password"] # NoValue /\ idKey[i]["nickname"] # NoValue
        BY <2>1, <3>3 DEF PasswordInv, hasPassword, FilledInv, RegColor, SetAccount, Filling
      <4>2. \A g \in AccountFields : idKey'[i][g] # NoValue
        BY <1>0, <2>2, <2>3, <2>4, <3>3, <4>1
      <4> QED
        BY <3>3, <4>2
    <3> QED
      BY <3>1, <3>2, <3>3
  <2> QED
    BY <2>8, <2>9 DEF FilledInv, AccountTornOnlyByEnd, HashGet
<1>2. CASE /\ UNCHANGED idKey
           /\ \A t \in Tokens :
                pc'[t] \in Filling => pc[t] = pc'[t] /\ req[t] = req'[t]
  <2>1. \A t \in Tokens : pc'[t] = "regColor" => idKey'[req'[t].id]["nickname"] # NoValue
    BY <1>2 DEF FilledInv, Filling
  <2>2. CASE ProcessEnds
    <3>1. \A i \in Ids :
            i \in interrupted \/ (\E t \in Tokens : pc[t] \in Filling /\ req[t].id = i)
              => i \in interrupted'
      BY <2>2 DEF ProcessEnds
    <3> QED
      BY <1>2, <2>1, <3>1 DEF FilledInv, AccountTornOnlyByEnd
  <2>3. CASE /\ interrupted' = interrupted
             /\ \A t \in Tokens : pc[t] \in Filling => pc'[t] = pc[t] /\ req'[t] = req[t]
    BY <1>2, <2>1, <2>3 DEF FilledInv, AccountTornOnlyByEnd
  <2> QED
    BY <1>1, <2>2, <2>3, FillingStays
<1> QED
  BY <1>1, <1>2, AccountsUnchanged

\* For any number of io threads, an account without all of its fields is one
\* that a registration is still filling, or one whose registration an end of
\* the process cut short.
THEOREM AccountsTornOnlyByEnd == Spec => []AccountTornOnlyByEnd
<1>1. TypeInv /\ PasswordInv /\ [Next]_vars => PasswordInv'
  BY PasswordNext
<1>2. TypeInv /\ PasswordInv /\ FilledInv /\ [Next]_vars => FilledInv'
  BY FilledNext
<1>3. FilledInv => AccountTornOnlyByEnd
  BY DEF FilledInv
<1> QED
  BY PasswordInit, FilledInit, TypeInvariance, <1>1, <1>2, <1>3, PTL DEF Spec
=============================================================================
