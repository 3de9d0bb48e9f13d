------------------------ MODULE AuthRefinementProofs ------------------------
(***************************************************************************)
(* The server implements LoginRegistry: the calls on Redis of one request, *)
(* with the calls of other requests, crashes and restarts between them,    *)
(* look to the clients like a registry that registers an id once and gives *)
(* out each account's only session, except for the ids two requests raced  *)
(* for.  With one io thread there are none.                                *)
(***************************************************************************)
EXTENDS AuthSessionProofs

(***************************************************************************)
(* What a handler has read about an account is still true when it acts on  *)
(* it, unless two registrations of the id overlapped: the first password   *)
(* of an account is written by the only registration that found no key.    *)
(***************************************************************************)
KnownAt(t) ==
    /\ pc[t] = "regPassword" /\ req[t].id \notin forked => ~Exists(idKey[req[t].id])
    /\ pc[t] \in {"logLogined", "logSetId"} /\ req[t].id \notin forked =>
         idKey[req[t].id]["password"] = sha256(req[t].profile)

ForkedAt(s, t) ==
    /\ pc[s] = "regPassword" /\ pc[t] = "regPassword"
    /\ req[s].id = req[t].id /\ s # t
    => req[t].id \in forked

KnownInv ==
    /\ \A t \in Tokens : KnownAt(t)
    /\ \A s, t \in Tokens : ForkedAt(s, t)

\* Steps that write no account and enter none of these states by a lookup.
KnownStays ==
    /\ UNCHANGED idKey
    /\ forked \subseteq forked'
    /\ \A t \in Tokens :
         pc'[t] \in {"regPassword", "logLogined", "logSetId"} =>
            /\ req'[t] = req[t]
            /\ \/ pc'[t] = pc[t]
               \/ pc[t] = "logLogined" /\ pc'[t] = "logSetId"

LEMMA KnownSteps ==
    ASSUME TypeInv, [Next]_vars
    PROVE  \/ \E t \in Tokens : RegPassword(t) \/ RegNickname(t) \/ RegColor(t)
           \/ \E t \in Tokens : RegExists(t) \/ LogPassword(t)
           \/ ProcessEnds
           \/ KnownStays
<1> USE DEF TypeInv, HandlersOK, KnownStays, history, redis
<1>1. CASE Boot \/ Signal \/ Exit \/ Crash
  BY <1>1 DEF Boot, Signal, Exit, Crash
<1>2. ASSUME NEW t \in Tokens, AddClient(t) PROVE KnownStays
  BY <1>2 DEF AddClient
<1>3. ASSUME NEW t \in Tokens, Request(t) PROVE KnownStays
  BY <1>3 DEF Request, RejectRequest, PlayerData, Logout, Disconnect, Register, Login, Begin
<1>4. ASSUME NEW t \in Tokens, LogExists(t) \/ LogLogined(t) \/ LogSetId(t)
             \/ LogSetToken(t) \/ LogSetTime(t)
      PROVE  KnownStays
  BY <1>4 DEF LogExists, LogLogined, LogSetId, LogSetToken, LogSetTime, CheckLogined, Check,
              SetLoginId, SetLogined, Goto, Respond
<1>5. ASSUME NEW t \in Tokens, DataStep(t) PROVE KnownStays \/ ProcessEnds
  BY <1>5 DEF DataStep, DatClient, DatLoginId, DatExists, DatNickname, DatColor, Check,
              ReadLoginId, Goto, Respond
<1>6. ASSUME NEW t \in Tokens, LogoutStep(t) PROVE KnownStays
  BY <1>6 DEF LogoutStep, OutClient, OutLoginId, OutDel, OutHashDel, RemoveClient,
              ReadLoginId, LogoutReturns, Goto
<1>7. CASE UNCHANGED vars
  BY <1>7 DEF vars
<1> QED
  BY <1>1, <1>2, <1>3, <1>4, <1>5, <1>6, <1>7
  DEF Next, Handler, RegisterStep, LoginStep

LEMMA RegisterKnown ==
    ASSUME TypeInv, PasswordInv, KnownInv, NEW t \in Tokens,
           RegPassword(t) \/ RegNickname(t) \/ RegColor(t)
    PROVE  KnownInv'
<1>1. PICK i \in Ids : i = req[t].id /\ req[t].profile \in Profiles
  BY DEF TypeInv, HandlersOK, ReqAt, RegisterSteps, RegPassword, RegNickname, RegColor,
     SetAccount
<1>2. /\ \A u \in Tokens \ {t} : pc'[u] = pc[u] /\ req'[u] = req[u]
      /\ pc'[t] \in {"regNickname", "regColor", "idle"} /\ forked' = forked
  BY DEF TypeInv, HandlersOK, RegPassword, RegNickname, RegColor, SetAccount, Goto, Respond,
     history
<1>3. \A j \in Ids \ {i} : idKey'[j] = idKey[j]
  BY <1>1 DEF TypeInv, AccountsOK, RegPassword, RegNickname, RegColor, SetAccount, HashSet
<1>4. "password" \in AccountFields /\ NoValue \notin Digests
  BY ValuesAssumption DEF AccountFields
<1>5. \A j \in Ids : idKey[j]["password"] # NoValue => Exists(idKey[j])
  BY <1>4 DEF TypeInv, AccountsOK, Hash, Exists
<1>6. ASSUME NEW u \in Tokens PROVE KnownAt(u)'
  <2>1. CASE u = t
    BY <1>2, <2>1 DEF KnownAt
  <2>2. CASE u # t /\ pc[u] = "regPassword" /\ req[u].id \notin forked
    <3>1. req[u].id \in Ids /\ ~Exists(idKey[req[u].id])
      BY <2>2 DEF TypeInv, HandlersOK, ReqAt, RegisterSteps, KnownInv, KnownAt
    <3>2. req[u].id # i
      <4>1. CASE RegPassword(t)
        BY <1>1, <2>2, <4>1 DEF KnownInv, ForkedAt, RegPassword, SetAccount
      <4>2. CASE RegNickname(t) \/ RegColor(t)
        BY <1>1, <1>5, <3>1, <4>2 DEF PasswordInv, hasPassword, Filling, RegNickname,
           RegColor, SetAccount
      <4> QED
        BY <4>1, <4>2
    <3> QED
      BY <1>2, <1>3, <2>2, <3>1, <3>2 DEF KnownAt
  <2>3. CASE u # t /\ pc[u] \in {"logLogined", "logSetId"} /\ req[u].id \notin forked
    <3>1. /\ req[u].id \in Ids /\ sha256(req[u].profile) \in Digests
          /\ idKey[req[u].id]["password"] = sha256(req[u].profile)
      BY <2>3 DEF TypeInv, HandlersOK, ReqAt, LoginSteps, Digests, KnownInv, KnownAt
    <3>2. CASE req[u].id # i
      BY <1>2, <1>3, <2>3, <3>1, <3>2 DEF KnownAt
    <3>3. CASE req[u].id = i
      <4>1. ~RegPassword(t)
        BY <1>1, <1>4, <1>5, <2>3, <3>1, <3>3 DEF KnownInv, KnownAt, RegPassword, SetAccount
      <4>2. idKey'[i]["password"] = idKey[i]["password"]
        BY <1>1, <1>4, <4>1, AccountSet
        DEF TypeInv, RegNickname, RegColor, SetAccount, AccountFields
      <4> QED
        BY <1>2, <2>3, <3>1, <3>3, <4>2 DEF KnownAt
    <3> QED
      BY <3>2, <3>3
  <2>4. CASE u # t /\ (pc[u] \notin {"regPassword", "logLogined", "logSetId"}
                       \/ req[u].id \in forked)
    BY <1>2, <2>4 DEF KnownAt
  <2> QED
    BY <2>1, <2>2, <2>3, <2>4
<1>7. \A s, u \in Tokens : ForkedAt(s, u)'
  BY <1>2 DEF KnownInv, ForkedAt
<1> QED
  BY <1>6, <1>7 DEF KnownInv

LEMMA KnownNext ==
    ASSUME TypeInv, PasswordInv, KnownInv, [Next]_vars
    PROVE  KnownInv'
<1> USE DEF TypeInv, HandlersOK
<1>1. ASSUME NEW t \in Tokens, RegExists(t) PROVE KnownInv'
  <2>1. /\ UNCHANGED idKey
        /\ forked' = forked \cup Overlap(t, {"regPassword"})
        /\ pc[t] = "regExists" /\ pc'[t] \in {"regPassword", "idle"}
        /\ pc'[t] = "regPassword" => req'[t] = req[t] /\ ~Exists(idKey[req[t].id])
        /\ \A u \in Tokens \ {t} : pc'[u] = pc[u] /\ req'[u] = req[u]
    BY <1>1 DEF RegExists, CheckAccount, Check, Goto, Respond, redis
  <2>2. req[t].id \in Ids
    BY <2>1 DEF ReqAt, RegisterSteps
  <2>3. \A u \in Tokens : KnownAt(u)'
    BY <2>1 DEF KnownInv, KnownAt
  <2>4. \A s, u \in Tokens : ForkedAt(s, u)'
    BY <2>1, <2>2 DEF KnownInv, ForkedAt, Overlap
  <2> QED
    BY <2>3, <2>4 DEF KnownInv
<1>2. ASSUME NEW t \in Tokens, LogPassword(t) PROVE KnownInv'
  <2>1. /\ UNCHANGED <<idKey, forked>>
        /\ pc'[t] \in {"logLogined", "idle"}
        /\ pc'[t] = "logLogined" =>
             req'[t] = req[t] /\ idKey[req[t].id]["password"] = sha256(req[t].profile)
        /\ \A u \in Tokens \ {t} : pc'[u] = pc[u] /\ req'[u] = req[u]
    BY <1>2 DEF LogPassword, Check, Goto, Respond, redis, history, HashGet
  <2> QED
    BY <2>1 DEF KnownInv, KnownAt, ForkedAt
<1>3. CASE ProcessEnds
  BY <1>3, EndIdle DEF KnownInv, KnownAt, ForkedAt
<1>4. CASE KnownStays
  BY <1>4 DEF KnownStays, KnownInv, KnownAt, ForkedAt
<1> QED
  BY <1>1, <1>2, <1>3, <1>4, KnownSteps, RegisterKnown

LEMMA KnownInvariance == Spec => []KnownInv
<1>1. Init => KnownInv
  BY DEF Init, KnownInv, KnownAt, ForkedAt
<1>2. TypeInv /\ PasswordInv /\ [Next]_vars => PasswordInv'
  BY PasswordNext
<1>3. TypeInv /\ PasswordInv /\ KnownInv /\ [Next]_vars => KnownInv'
  BY KnownNext
<1> QED
  BY <1>1, <1>2, <1>3, PasswordInit, TypeInvariance, PTL DEF Spec

(***************************************************************************)
(* The abstract state, and what every step does to it.                     *)
(***************************************************************************)
accounts == [i \in Ids |-> HashGet(idKey[i], "password")]
sessions == [t \in Tokens |-> Session(t)]

RegistryStep ==
    \/ Registry!Next
    \/ UNCHANGED <<accounts, sessions, forked, contended>>

LEMMA RegistryInit == Init => Registry!Init
<1> SUFFICES ASSUME Init PROVE Registry!Init
  OBVIOUS
<1>1. accounts = [i \in Ids |-> NoValue]
  BY DEF Init, accounts, HashGet, NoKey, AccountFields
<1>2. sessions = [t \in Tokens |-> NoValue]
  BY DEF Init, sessions, Session
<1>3. forked = {} /\ contended = {}
  BY DEF Init
<1> QED
  BY <1>1, <1>2, <1>3 DEF Registry!Init, accounts, sessions

LEMMA SameSessions ==
    ASSUME \A t \in Tokens : Session(t)' = Session(t)
    PROVE  UNCHANGED sessions
  BY DEF sessions

\* The calls of a registration: its first write registers the account.
LEMMA RegisterRefines ==
    ASSUME TypeInv, KnownInv, NEW t \in Tokens,
           RegPassword(t) \/ RegNickname(t) \/ RegColor(t)
    PROVE  RegistryStep
<1>1. UNCHANGED <<forked, contended>>
  BY DEF RegPassword, RegNickname, RegColor, SetAccount, history
<1>2. UNCHANGED sessions
  <2>1. UNCHANGED <<connected, clientKey>>
    BY DEF RegPassword, RegNickname, RegColor, SetAccount, Goto, Respond
  <2>2. \A u \in Tokens : pc[u] = "outHashDel" <=> pc'[u] = "outHashDel"
    BY DEF TypeInv, HandlersOK, RegPassword, RegNickname, RegColor, SetAccount, Goto, Respond
  <2> QED
    BY <2>1, <2>2, SameSessions DEF Session, loginId
<1>3. PICK i \in Ids : i = req[t].id /\ req[t].profile \in Profiles
  BY DEF TypeInv, HandlersOK, ReqAt, RegisterSteps, RegPassword, RegNickname, RegColor,
     SetAccount
<1>4. "password" \in AccountFields /\ sha256(req[t].profile) \in Digests
  BY <1>3 DEF AccountFields, Digests
<1>5. CASE RegPassword(t)
  <2> DEFINE d == sha256(req[t].profile)
  <2>1. i \in forked \/ ~Exists(idKey[i])
    BY <1>3, <1>5 DEF KnownInv, KnownAt, RegPassword, SetAccount
  <2>2. i \in forked \/ accounts[i] = NoValue
    BY <1>4, <2>1 DEF TypeInv, AccountsOK, Exists, Hash, accounts, HashGet
  <2>3. \A j \in Ids : idKey'[j]["password"] = IF j = i THEN d ELSE idKey[j]["password"]
    BY <1>3, <1>4, <1>5, AccountSet DEF TypeInv, RegPassword, SetAccount
  <2>4. accounts' = [accounts EXCEPT ![i] = d]
    BY <2>3 DEF accounts, HashGet
  <2>5. Registry!Register(i, d)
    BY <1>1, <1>2, <2>2, <2>4 DEF Registry!Register, accounts, sessions
  <2> QED
    BY <1>4, <2>5 DEF RegistryStep, Registry!Next
<1>6. CASE RegNickname(t) \/ RegColor(t)
  <2>1. \A j \in Ids : idKey'[j]["password"] = idKey[j]["password"]
    BY <1>3, <1>4, <1>6, AccountSet
    DEF TypeInv, RegNickname, RegColor, SetAccount, AccountFields
  <2>2. UNCHANGED accounts
    BY <2>1 DEF accounts, HashGet
  <2> QED
    BY <1>1, <1>2, <2>2 DEF RegistryStep
<1> QED
  BY <1>5, <1>6

\* A loginId that is written is a login, a lock that is deleted the end of a
\* session.
LEMMA SessionRefines ==
    ASSUME TypeInv, SessionInv, LoginInv, KnownInv, UNCHANGED <<accounts, forked>>,
           NEW t \in Tokens, SessionWrite(t)
    PROVE  RegistryStep
<1>0. UNCHANGED contended
  BY WriteEffect
<1>1. CASE LogSetId(t)
  <2>1. PICK i \in Ids : i = req[t].id /\ req[t].profile \in Profiles
    BY <1>1 DEF TypeInv, HandlersOK, ReqAt, LogSetId, SetLoginId, LoginSteps
  <2> DEFINE d == sha256(req[t].profile)
  <2>2. d \in Digests /\ (accounts[i] = d \/ i \in forked)
    BY <1>1, <2>1 DEF Digests, KnownInv, KnownAt, LogSetId, SetLoginId, accounts, HashGet
  <2>3. CASE i \in contended \/ \A u \in Tokens : sessions[u] # i
    <3>1. \A u \in Tokens : Session(u)' = IF u = t THEN i ELSE Session(u)
      BY <1>1, <2>1, WriteSession
    <3>2. sessions' = [sessions EXCEPT ![t] = i]
      BY <3>1 DEF sessions
    <3>3. Registry!Login(t, i, d)
      BY <1>0, <2>2, <2>3, <3>2 DEF Registry!Login, accounts, sessions
    <3> QED
      BY <2>2, <3>3 DEF RegistryStep, Registry!Next
  <2>4. CASE i \notin contended /\ \E u \in Tokens : sessions[u] = i
    <3>1. PICK u \in Tokens : Session(u) = i
      BY <2>4 DEF sessions
    <3>2. u = t
      BY <1>1, <2>1, <2>4, <3>1 DEF LoginInv, Fresh, Window, LogSetId, SetLoginId
    <3>3. \A v \in Tokens : Session(v)' = Session(v)
      BY <1>1, <2>1, <3>1, <3>2, WriteSession
    <3> QED
      BY <1>0, <3>3, SameSessions DEF RegistryStep
  <2> QED
    BY <2>3, <2>4
<1>2. CASE OutDel(t)
  <2>1. \A u \in Tokens : Session(u)' = IF u = t THEN NoValue ELSE Session(u)
    BY <1>2, WriteSession
  <2>2. sessions' = [sessions EXCEPT ![t] = NoValue]
    BY <2>1 DEF sessions
  <2>3. Registry!End(t)
    BY <1>0, <2>2 DEF Registry!End, accounts, sessions
  <2> QED
    BY <2>3 DEF RegistryStep, Registry!Next
<1>3. CASE LogSetToken(t) \/ LogSetTime(t) \/ OutHashDel(t) \/ RemoveClient(t) \/ AddClient(t)
  <2>1. \A u \in Tokens : Session(u)' = Session(u)
    BY <1>3, WriteSession
  <2> QED
    BY <1>0, <2>1, SameSessions DEF RegistryStep
<1> QED
  BY <1>1, <1>2, <1>3 DEF SessionWrite

\* Lookups that overlap give up the promise for their id.
LEMMA LookupRefines ==
    ASSUME TypeInv, NEW t \in Tokens, RegExists(t) \/ LogLogined(t)
    PROVE  RegistryStep
<1>1. UNCHANGED accounts
  BY DEF RegExists, LogLogined, CheckAccount, CheckLogined, Check, redis, accounts
<1>2. UNCHANGED sessions
  <2>1. UNCHANGED <<connected, clientKey>>
    BY DEF RegExists, LogLogined, CheckAccount, CheckLogined, Check, Goto, Respond, redis
  <2>2. \A u \in Tokens : pc[u] = "outHashDel" <=> pc'[u] = "outHashDel"
    BY DEF TypeInv, HandlersOK, RegExists, LogLogined, CheckAccount, CheckLogined, Check,
       Goto, Respond
  <2> QED
    BY <2>1, <2>2, SameSessions DEF Session, loginId
<1>3. ASSUME NEW S PROVE \/ Overlap(t, S) = {}
                         \/ \E i \in Ids : Overlap(t, S) = {i}
  BY DEF Overlap
<1>4. CASE RegExists(t)
  <2>1. contended' = contended /\ forked' = forked \cup Overlap(t, {"regPassword"})
    BY <1>4 DEF RegExists, CheckAccount
  <2>2. forked' = forked \/ \E i \in Ids : forked' = forked \cup {i}
    BY <1>3, <2>1
  <2>3. CASE forked' = forked
    BY <1>1, <1>2, <2>1, <2>3 DEF RegistryStep
  <2>4. ASSUME NEW i \in Ids, forked' = forked \cup {i} PROVE RegistryStep
    <3>1. Registry!Fork(i)
      BY <1>1, <1>2, <2>1, <2>4 DEF Registry!Fork, accounts, sessions
    <3> QED
      BY <3>1 DEF RegistryStep, Registry!Next
  <2> QED
    BY <2>2, <2>3, <2>4
<1>5. CASE LogLogined(t)
  <2>1. forked' = forked /\ contended' = contended \cup Overlap(t, Window)
    BY <1>5, LookupSession DEF LogLogined, CheckLogined
  <2>2. contended' = contended \/ \E i \in Ids : contended' = contended \cup {i}
    BY <1>3, <2>1
  <2>3. CASE contended' = contended
    BY <1>1, <1>2, <2>1, <2>3 DEF RegistryStep
  <2>4. ASSUME NEW i \in Ids, contended' = contended \cup {i} PROVE RegistryStep
    <3>1. Registry!Contend(i)
      BY <1>1, <1>2, <2>1, <2>4 DEF Registry!Contend, accounts, sessions
    <3> QED
      BY <3>1 DEF RegistryStep, Registry!Next
  <2> QED
    BY <2>2, <2>3, <2>4
<1> QED
  BY <1>4, <1>5

LEMMA EndRefines == ASSUME ProcessEnds PROVE RegistryStep
<1>1. UNCHANGED accounts /\ forked' = {} /\ contended' = {} /\ connected' = {}
  BY DEF ProcessEnds, redis, accounts
<1>2. sessions' = [t \in Tokens |-> NoValue]
  BY <1>1 DEF sessions, Session
<1>3. Registry!Restart
  BY <1>1, <1>2 DEF Registry!Restart, accounts, sessions
<1> QED
  BY <1>3 DEF RegistryStep, Registry!Next

LEMMA NextRefines ==
    ASSUME TypeInv, SessionInv, LoginInv, KnownInv, [Next]_vars
    PROVE  RegistryStep
<1>1. CASE \E t \in Tokens : RegPassword(t) \/ RegNickname(t) \/ RegColor(t)
  BY <1>1, RegisterRefines
<1>2. CASE ProcessEnds
  BY <1>2, EndRefines
<1>3. CASE \E t \in Tokens : RegExists(t) \/ LogLogined(t)
  BY <1>3, LookupRefines
<1>4. CASE /\ UNCHANGED idKey /\ ~ProcessEnds
           /\ \A t \in Tokens : ~RegExists(t) /\ ~LogLogined(t)
  <2>1. UNCHANGED <<accounts, forked>>
    BY <1>4, HistorySteps DEF accounts, history, Boot, LogSetId, SetLoginId
  <2>2. CASE Boot
    <3>1. connected = {} /\ connected' = {} /\ contended' = contended
      BY <2>2 DEF Boot, SessionInv
    <3>2. UNCHANGED sessions
      BY <3>1 DEF sessions, Session
    <3> QED
      BY <2>1, <3>1, <3>2 DEF RegistryStep
  <2>3. CASE QuietStep
    BY <2>1, <2>3, QuietSession, SameSessions DEF QuietStep, RegistryStep
  <2> QED
    BY <1>4, <2>1, <2>2, <2>3, StepKinds, SessionRefines
<1> QED
  BY <1>1, <1>2, <1>3, <1>4, AccountsUnchanged

LEMMA RefinementInvariants == Spec => [](TypeInv /\ SessionInv /\ LoginInv /\ KnownInv)
  BY TypeInvariance, SessionInvariance, LoginInvariance, KnownInvariance, PTL

\* The server implements the registry for any number of io threads, tokens,
\* ids and profiles, wherever the process is killed and whatever keys a start
\* leaves behind: an account is created once and keeps its password, a login
\* needs that password and the account's session to be free, unless two
\* requests for this very id overlapped in this process.
THEOREM ServerImplementsRegistry == Spec => ImplementsRegistry
<1>1. TypeInv /\ SessionInv /\ LoginInv /\ KnownInv /\ [Next]_vars
        => [Registry!Next]_<<[i \in Ids |-> HashGet(idKey[i], "password")],
                             [t \in Tokens |-> Session(t)], forked, contended>>
  BY NextRefines DEF RegistryStep, accounts, sessions
<1> QED
  BY <1>1, RefinementInvariants, RegistryInit, PTL
  DEF Spec, ImplementsRegistry, Registry!Spec

(***************************************************************************)
(* One io thread runs one handler at a time, so no two requests overlap    *)
(* and nothing of the promise is given up.                                 *)
(***************************************************************************)
SerialInv ==
    /\ \A s, t \in Tokens : Busy(s) /\ Busy(t) => s = t
    /\ forked = {} /\ contended = {}

LEMMA NoneBusy ==
    ASSUME IoThreads = 1, FreeThread
    PROVE  \A t \in Tokens : ~Busy(t)
<1> DEFINE B == {t \in Tokens : Busy(t)}
<1>1. B \in SUBSET Tokens /\ IsFiniteSet(Tokens)
  BY AuthAssumption
<1> HIDE DEF B
<1>2. IsFiniteSet(B)
  BY <1>1, FS_Subset
<1>3. Cardinality(B) \in Nat
  BY <1>2, FS_CardinalityType
<1>4. Cardinality(B) < 1
  BY DEF FreeThread, B
<1>5. Cardinality(B) = 0
  BY <1>3, <1>4
<1>6. B = {}
  BY <1>2, <1>5, FS_EmptySet
<1> QED
  BY <1>6 DEF B

LEMMA SerialNext ==
    ASSUME IoThreads = 1, TypeInv, SerialInv, [Next]_vars
    PROVE  SerialInv'
<1> DEFINE Alone == \A s, t \in Tokens : Busy(s) /\ Busy(t) => s = t
<1>1. Alone'
  <2> USE DEF TypeInv, HandlersOK
  <2>1. ASSUME NEW t \in Tokens, Request(t) PROVE Alone'
    <3>1. FreeThread
      BY <2>1 DEF Request, RejectRequest, PlayerData, Logout, Disconnect, Register,
         Login, Begin, CanBegin
    <3>2. \A u \in Tokens : ~Busy(u)
      BY <3>1, NoneBusy
    <3> QED
      BY <2>1, <3>2 DEF Request, RejectRequest, PlayerData, Logout, Disconnect, Register,
         Login, Begin, Busy
  <2>2. ASSUME NEW t \in Tokens, RegisterStep(t) \/ LoginStep(t)
        PROVE  \A u \in Tokens : Busy(u)' => Busy(u)
    BY <2>2 DEF RegisterStep, RegExists, RegPassword, RegNickname, RegColor, CheckAccount,
       Check, SetAccount, LoginStep, LogExists, LogPassword, LogLogined, LogSetId,
       LogSetToken, LogSetTime, CheckLogined, SetLoginId, SetLogined, Goto, Respond, Busy
  <2>3. ASSUME NEW t \in Tokens, DataStep(t) \/ LogoutStep(t)
        PROVE  \A u \in Tokens : Busy(u)' => Busy(u)
    BY <2>3 DEF DataStep, DatClient, DatLoginId, DatExists, DatNickname, DatColor, Check,
       ReadLoginId, LogoutStep, OutClient, OutLoginId, OutDel, OutHashDel, RemoveClient,
       LogoutReturns, ProcessEnds, Goto, Respond, Busy
  <2>4. ASSUME UNCHANGED vars \/ Boot \/ Signal \/ Exit \/ Crash
               \/ \E t \in Tokens : AddClient(t)
        PROVE  \A u \in Tokens : Busy(u)' => Busy(u)
    BY <2>4 DEF vars, Boot, Signal, Exit, Crash, ProcessEnds, AddClient, Busy
  <2> QED
    BY <2>1, <2>2, <2>3, <2>4 DEF Next, Handler, SerialInv
<1>2. forked' = {} /\ contended' = {}
  <2>1. ASSUME NEW t \in Tokens, RegExists(t) \/ LogLogined(t)
        PROVE  forked' = {} /\ contended' = {}
    <3>1. Busy(t)
      BY <2>1 DEF Busy, RegExists, LogLogined, CheckAccount, CheckLogined, Check
    <3>2. Overlap(t, {"regPassword"}) = {} /\ Overlap(t, {"logSetId", "logSetToken"}) = {}
      BY <3>1 DEF SerialInv, Busy, Overlap
    <3> QED
      BY <2>1, <3>2 DEF SerialInv, RegExists, LogLogined, CheckAccount, CheckLogined
  <2> QED
    BY <2>1, HistorySteps DEF SerialInv, Boot, ProcessEnds, LogSetId, SetLoginId, history
<1> QED
  BY <1>1, <1>2 DEF SerialInv

LEMMA SerialInvariance == ASSUME IoThreads = 1 PROVE Spec => []SerialInv
<1>1. Init => SerialInv
  BY DEF Init, SerialInv, Busy
<1>2. TypeInv /\ SerialInv /\ [Next]_vars => SerialInv'
  BY SerialNext
<1> QED
  BY <1>1, <1>2, TypeInvariance, PTL DEF Spec

\* With one io thread no two connections are ever logged in with the same id:
\* the hypothesis is needed, as the run with two threads shows.
THEOREM OneThreadOneLogin == ASSUME IoThreads = 1 PROVE Spec => []SingleLogin
<1>1. SerialInv /\ LoginInv => SingleLogin
  BY DEF SerialInv, LoginInv, SingleLoginUnlessContended, SingleLogin
<1> QED
  BY SerialInvariance, LoginInvariance, <1>1, PTL

\* The registry without the exceptions.
StrictRegistry == INSTANCE LoginRegistry WITH
    Clients   <- Tokens,
    Passwords <- Digests,
    None      <- NoValue,
    account   <- accounts,
    session   <- sessions,
    forked    <- {},
    contended <- {}

\* With one io thread the server implements the registry with nothing given
\* up: no id is ever forked or contended.
THEOREM OneThreadImplementsRegistry ==
    ASSUME IoThreads = 1 PROVE Spec => StrictRegistry!Spec
<1>1. ASSUME Init PROVE StrictRegistry!Init
  BY <1>1, RegistryInit DEF Registry!Init, StrictRegistry!Init, accounts, sessions
<1>2. ASSUME RegistryStep, SerialInv, SerialInv'
      PROVE  [StrictRegistry!Next]_<<accounts, sessions, {}, {}>>
  <2>1. forked = {} /\ contended = {} /\ forked' = {} /\ contended' = {}
    BY <1>2 DEF SerialInv
  <2>2. CASE UNCHANGED <<accounts, sessions, forked, contended>>
    BY <2>2
  <2>3. CASE Registry!Next
    BY <2>1, <2>3
    DEF Registry!Next, Registry!Register, Registry!Login, Registry!End, Registry!Fork,
        Registry!Contend, Registry!Restart, StrictRegistry!Next, StrictRegistry!Register,
        StrictRegistry!Login, StrictRegistry!End, StrictRegistry!Restart, accounts, sessions
  <2> QED
    BY <1>2, <2>2, <2>3 DEF RegistryStep
<1>3. /\ TypeInv /\ SessionInv /\ LoginInv /\ KnownInv /\ [Next]_vars /\ SerialInv /\ SerialInv'
      => [StrictRegistry!Next]_<<accounts, sessions, {}, {}>>
  BY <1>2, NextRefines
<1> QED
  BY <1>1, <1>3, RefinementInvariants, SerialInvariance, PTL DEF Spec, StrictRegistry!Spec
=============================================================================
