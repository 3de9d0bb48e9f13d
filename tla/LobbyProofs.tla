---------------------------- MODULE LobbyProofs ----------------------------
(***************************************************************************)
(* Proofs about Lobby, for any sets of clients and sessions, any           *)
(* maxClientCount and any number of io threads.                            *)
(*                                                                         *)
(* The invariants the runs check rest on what the calls of one handler on  *)
(* Redis leave between them: who has the locks (LockInv), which session a  *)
(* handler may speak of (FiledInv), what having the JOINCODE handler of a  *)
(* session says of its keys (HostInv, CodeInv), what the timer has visited *)
(* (ListInv), and whom an entry has been checked against (MemberInv).      *)
(***************************************************************************)
EXTENDS Lobby, FiniteSetTheorems, TLAPS

\* The steps between which an entry keeps both locks.
EntrySteps == {"valid", "hostToken", "persistSession", "persistClients",
               "hostIn", "count", "member"}

\* Those of them at which it may still be turned away.
LookSteps == {"valid", "hostToken", "hostIn", "count"}

\* Those of the host, after it was given the handler of JOINCODE.
HostSteps == {"persistSession", "persistClients", "member"}

\* The handler of c has come to one of these steps with session s.
In(c, steps, s) == pc[c].at \in steps /\ pc[c].session = s

Filed == empty \cup active

LockInv ==
    /\ \A c \in Clients : pc[c].at \in EntrySteps => holder = c
    /\ timer = "running" => holder = "timer"
    /\ ~up => \A c \in Clients : pc[c].at = "out"

FiledInv ==
    /\ \A s \in Sessions :
        creator[s] = "none" => /\ sessionKey[s] = "none" /\ s \notin Filed
                               /\ entered[s] = {}
    /\ \A c \in Clients :
        /\ pc[c].at = "insert" => creator[pc[c].session] = c /\ pc[c].session \notin Filed
        /\ pc[c].at \in EntrySteps \cup {"codeSet", "activate"} => pc[c].session \in Filed
        /\ joinHandler[c] # "none" => joinHandler[c] \in Filed

\* A client that has the JOINCODE handler of s and is not still entering it
\* as its host has made both keys of s stay, as far as they were still there.
HostInv ==
    \A c \in Clients, s \in Sessions :
        joinHandler[c] = s =>
            /\ ~In(c, {"persistSession"}, s) => sessionKey[s] # "volatile"
            /\ ~In(c, {"persistSession", "persistClients"}, s) => s \notin clientsTtl
            /\ ~In(c, HostSteps, s) => clientsKey[s] # {} /\ c \in entered[s]

\* Both keys of s are there to stay.
KeysStay(s) == sessionKey[s] = "persistent" /\ clientsKey[s] # {} /\ s \notin clientsTtl

CodeInv ==
    \A c \in Clients, s \in Sessions :
        In(c, {"codeSet", "activate"}, s) =>
            KeysStay(s) /\ creator[s] = c /\ c \in entered[s]

ActiveInv ==
    \A s \in active : KeysStay(s) /\ creator[s] \in entered[s]

ListInv ==
    /\ cache.list \subseteq active
    /\ cache.count = Cardinality(cache.list)
    /\ timer = "running" =>
        todo \cup draft.list = active /\ draft.count = Cardinality(active)

\* Whoever is about to be added to a session that has not expired is its
\* host, or was found to have a place while the host was in.
MemberInv ==
    /\ \A c \in Clients, s \in Sessions :
        /\ In(c, {"persistSession", "persistClients"}, s) /\ Complete(s) => creator[s] = c
        /\ In(c, {"count"}, s) /\ Complete(s) => creator[s] \in clientsKey[s]
        /\ In(c, {"member"}, s) /\ Complete(s) =>
            creator[s] = c \/ (creator[s] \in clientsKey[s] /\ ~Full(s))
    /\ \A s \in Sessions :
        /\ Complete(s) => clientsKey[s] = {} \/ creator[s] \in clientsKey[s]
        /\ up /\ sessionKey[s] = "persistent" /\ s \in clientsTtl =>
            \E c \in Clients : In(c, {"persistClients"}, s)

LobbyInv ==
    /\ TypeOK /\ LockInv /\ FiledInv /\ HostInv /\ CodeInv /\ ActiveInv /\ ListInv
    /\ NeverTorn /\ MemberInv

-----------------------------------------------------------------------------
(* The invariant holds initially and every action preserves it.  The tuples *)
(* of variables are expanded throughout.                                    *)

USE DEF redis, sockets, maps, lists, history

LEMMA RequestEnterLobbyKeeps ==
    ASSUME LobbyInv, NEW c \in Clients, RequestEnterLobby(c)
    PROVE  LobbyInv'
<1> USE DEF RequestEnterLobby, Rest, At
<1>1. TypeOK'
  BY DEF LobbyInv, TypeOK, Resting
<1>2. LockInv'
  BY DEF LobbyInv, LockInv, EntrySteps
<1>3. FiledInv'
  BY DEF LobbyInv, FiledInv, EntrySteps, Filed
<1>4. HostInv'
  BY DEF LobbyInv, HostInv, In, HostSteps
<1>5. CodeInv'
  BY DEF LobbyInv, CodeInv, In, KeysStay
<1>6. MemberInv'
  BY DEF LobbyInv, MemberInv, In, Complete, Full
<1>7. ActiveInv' /\ ListInv' /\ NeverTorn'
  BY DEF LobbyInv, ActiveInv, KeysStay, ListInv, NeverTorn,
     Complete
<1> QED
  BY <1>1, <1>2, <1>3, <1>4, <1>5, <1>6, <1>7 DEF LobbyInv

LEMMA LeaveKeeps ==
    ASSUME LobbyInv, NEW c \in Clients, HandleRequestSessionLeave(c)
    PROVE  LobbyInv'
<1> USE DEF HandleRequestSessionLeave, CanBegin, At, Rest
<1>1. TypeOK'
  BY DEF LobbyInv, TypeOK, Resting
<1>2. LockInv'
  BY DEF LobbyInv, LockInv, EntrySteps
<1>3. FiledInv'
  BY DEF LobbyInv, FiledInv, EntrySteps, Filed
<1>4. HostInv'
  BY DEF LobbyInv, HostInv, In, HostSteps
<1>5. CodeInv'
  BY DEF LobbyInv, CodeInv, In, KeysStay
<1>6. MemberInv'
  BY DEF LobbyInv, MemberInv, In, Complete, Full
<1>7. ActiveInv' /\ ListInv' /\ NeverTorn'
  BY DEF LobbyInv, ActiveInv, KeysStay, ListInv, NeverTorn,
     Complete
<1> QED
  BY <1>1, <1>2, <1>3, <1>4, <1>5, <1>6, <1>7 DEF LobbyInv

LEMMA DisconnectedKeeps ==
    ASSUME LobbyInv, NEW c \in Clients, DisconnectedClient(c)
    PROVE  LobbyInv'
<1> USE DEF DisconnectedClient, Rest
<1>1. TypeOK'
  BY DEF LobbyInv, TypeOK, Resting
<1>2. LockInv'
  BY DEF LobbyInv, LockInv, EntrySteps
<1>3. FiledInv'
  BY DEF LobbyInv, FiledInv, EntrySteps, Filed
<1>4. HostInv'
  BY LobbyAssumption DEF LobbyInv, HostInv, In, HostSteps
<1>5. CodeInv'
  BY DEF LobbyInv, CodeInv, In, KeysStay
<1>6. MemberInv'
  BY DEF LobbyInv, MemberInv, In, Complete, Full
<1>7. ActiveInv' /\ ListInv' /\ NeverTorn'
  BY DEF LobbyInv, ActiveInv, KeysStay, ListInv, NeverTorn,
     Complete
<1> QED
  BY <1>1, <1>2, <1>3, <1>4, <1>5, <1>6, <1>7 DEF LobbyInv

LEMMA CreateSessionKeeps ==
    ASSUME LobbyInv, NEW c \in Clients, NEW s \in Sessions, CreateSession(c, s)
    PROVE  LobbyInv'
<1> USE DEF CreateSession, CanBegin, At, Begin
<1>1. TypeOK'
  <2>1. pc' \in [Clients -> [at : Resting \cup Steps, session : Sessions \cup {"none"}]]
    BY DEF LobbyInv, TypeOK, Steps
  <2>2. \A d \in Clients :
            pc'[d].session = "none" <=> pc'[d].at \in Resting \cup {"list"}
    BY LobbyAssumption DEF LobbyInv, TypeOK, Resting
  <2>3. clientsTtl' \subseteq {r \in Sessions : clientsKey'[r] # {}}
    <3>1. clientsKey'[s] = {c} /\ \A r \in Sessions \ {s} : clientsKey'[r] = clientsKey[r]
      BY DEF LobbyInv, TypeOK
    <3> QED
      BY <3>1 DEF LobbyInv, TypeOK
  <2>4. /\ creator' \in [Sessions -> Clients \cup {"none"}]
        /\ sessionKey' \in [Sessions -> KeyStates]
        /\ clientsKey' \in [Sessions -> SUBSET Clients]
    BY DEF LobbyInv, TypeOK, KeyStates
  <2> QED
    BY <2>1, <2>2, <2>3, <2>4 DEF LobbyInv, TypeOK
<1>2. LockInv'
  BY DEF LobbyInv, LockInv, EntrySteps
<1>3. FiledInv'
  BY LobbyAssumption DEF LobbyInv, TypeOK, FiledInv, EntrySteps, Filed
<1>4. HostInv'
  BY LobbyAssumption DEF LobbyInv, HostInv, FiledInv, In, HostSteps
<1>5. CodeInv'
  BY LobbyAssumption DEF LobbyInv, CodeInv, In, KeysStay
<1>6. ActiveInv'
  BY DEF LobbyInv, ActiveInv, KeysStay, FiledInv
<1>7. NeverTorn'
  BY DEF LobbyInv, NeverTorn
<1>8. MemberInv'
  BY DEF LobbyInv, TypeOK, MemberInv, FiledInv, EntrySteps, In, Complete, Full
<1>9. ListInv'
  BY DEF LobbyInv, ListInv
<1> QED
  BY <1>1, <1>2, <1>3, <1>4, <1>5, <1>6, <1>7, <1>8, <1>9 DEF LobbyInv

LEMMA InsertSessionKeeps ==
    ASSUME LobbyInv, NEW c \in Clients, InsertSession(c)
    PROVE  LobbyInv'
<1> USE DEF InsertSession, At, Rest
<1>1. TypeOK'
  BY DEF LobbyInv, TypeOK, Resting, FiledInv, Filed
<1>2. LockInv'
  BY DEF LobbyInv, LockInv, EntrySteps
<1>3. FiledInv'
  BY LobbyAssumption DEF LobbyInv, TypeOK, FiledInv, EntrySteps, Filed
<1>4. HostInv'
  BY DEF LobbyInv, HostInv, In, HostSteps
<1>5. CodeInv'
  BY DEF LobbyInv, CodeInv, In, KeysStay
<1>6. MemberInv'
  BY DEF LobbyInv, MemberInv, In, Complete, Full
<1>7. ActiveInv' /\ ListInv' /\ NeverTorn'
  BY DEF LobbyInv, ActiveInv, KeysStay, ListInv, NeverTorn,
     Complete
<1> QED
  BY <1>1, <1>2, <1>3, <1>4, <1>5, <1>6, <1>7 DEF LobbyInv

LEMMA RequestEntryKeeps ==
    ASSUME LobbyInv, NEW c \in Clients, NEW s \in Sessions, RequestEntry(c, s)
    PROVE  LobbyInv'
<1> USE DEF RequestEntry, CanBegin, At, Begin
<1>1. TypeOK'
  BY LobbyAssumption DEF LobbyInv, TypeOK, Resting, Steps
<1>2. LockInv'
  BY DEF LobbyInv, LockInv, EntrySteps
<1>3. FiledInv'
  BY DEF LobbyInv, FiledInv, EntrySteps, Filed
<1>4. HostInv'
  BY DEF LobbyInv, HostInv, In, HostSteps
<1>5. CodeInv'
  BY DEF LobbyInv, CodeInv, In, KeysStay
<1>6. MemberInv'
  BY DEF LobbyInv, MemberInv, In, Complete, Full
<1>7. ActiveInv' /\ ListInv' /\ NeverTorn'
  BY DEF LobbyInv, ActiveInv, KeysStay, ListInv, NeverTorn,
     Complete
<1> QED
  BY <1>1, <1>2, <1>3, <1>4, <1>5, <1>6, <1>7 DEF LobbyInv

LEMMA EnterKeeps ==
    ASSUME LobbyInv, NEW c \in Clients, HandleRequestSessionEnter(c)
    PROVE  LobbyInv'
<1> USE DEF HandleRequestSessionEnter, At, Goto, Rest
<1>1. TypeOK'
  <2>1. CASE Rest(c, "idle")
    BY <2>1 DEF LobbyInv, TypeOK, Resting
  <2>2. CASE Goto(c, "valid") /\ holder' = c
    BY <2>2 DEF LobbyInv, TypeOK, Resting, Steps
  <2> QED
    BY <2>1, <2>2
<1>2. LockInv'
  BY LobbyAssumption DEF LobbyInv, TypeOK, LockInv, EntrySteps
<1>3. FiledInv'
  BY DEF LobbyInv, TypeOK, FiledInv, EntrySteps, Filed
<1>4. HostInv'
  BY LobbyAssumption DEF LobbyInv, HostInv, In, HostSteps, LockInv, EntrySteps
<1>5. CodeInv'
  BY DEF LobbyInv, TypeOK, CodeInv, FiledInv, In, KeysStay, EntrySteps
<1>6. MemberInv'
  <2>1. \A d \in Clients, s \in Sessions :
          \A step \in {"persistSession", "persistClients", "count", "member"} :
            (pc'[d].at = step /\ pc'[d].session = s) <=> (pc[d].at = step /\ pc[d].session = s)
    BY DEF LobbyInv, TypeOK
  <2> QED
    BY <2>1 DEF LobbyInv, MemberInv, In, Complete, Full
<1>7. ActiveInv' /\ ListInv' /\ NeverTorn'
  BY DEF LobbyInv, ActiveInv, KeysStay, ListInv, NeverTorn,
     Complete
<1> QED
  BY <1>1, <1>2, <1>3, <1>4, <1>5, <1>6, <1>7 DEF LobbyInv

LEMMA DieKeeps ==
    ASSUME LobbyInv, Die
    PROVE  LobbyInv'
<1> USE DEF Die
<1>1. TypeOK'
  BY DEF LobbyInv, TypeOK, Resting, Listing, NoSessions
<1>2. LockInv'
  BY DEF LockInv, EntrySteps
<1>3. FiledInv'
  BY DEF LobbyInv, FiledInv, EntrySteps, Filed
<1>4. HostInv'
  BY LobbyAssumption DEF HostInv
<1>5. CodeInv'
  BY DEF CodeInv, In
<1>6. ListInv'
  BY DEF LobbyInv, ListInv
<1>7. MemberInv'
  BY DEF LobbyInv, MemberInv, In, Complete
<1>8. ActiveInv' /\ NeverTorn'
  BY DEF LobbyInv, ActiveInv, KeysStay, NeverTorn, Complete
<1> QED
  BY <1>1, <1>2, <1>3, <1>4, <1>5, <1>6, <1>7, <1>8 DEF LobbyInv

LEMMA RefuseKeeps ==
    ASSUME LobbyInv, NEW c \in Clients, pc[c].at \in LookSteps, Refuse(c)
    PROVE  LobbyInv'
<1> USE DEF Refuse, Rest
<1>1. TypeOK'
  BY DEF LobbyInv, TypeOK, Resting
<1>2. LockInv'
  BY LobbyAssumption DEF LobbyInv, TypeOK, LockInv, EntrySteps, LookSteps
<1>3. FiledInv'
  BY DEF LobbyInv, FiledInv, EntrySteps, Filed
<1>4. HostInv'
  BY DEF LobbyInv, HostInv, In, HostSteps, LookSteps
<1>5. CodeInv'
  BY DEF LobbyInv, CodeInv, In, KeysStay
<1>6. MemberInv'
  BY DEF LobbyInv, MemberInv, In, Complete, Full, LookSteps
<1>7. ActiveInv' /\ ListInv' /\ NeverTorn'
  BY DEF LobbyInv, ActiveInv, KeysStay, ListInv, NeverTorn,
     Complete
<1> QED
  BY <1>1, <1>2, <1>3, <1>4, <1>5, <1>6, <1>7 DEF LobbyInv

LEMMA AddAsHostKeeps ==
    ASSUME LobbyInv, NEW c \in Clients, At(c, "hostToken"),
           Complete(pc[c].session) => creator[pc[c].session] = c, AddAsHost(c)
    PROVE  LobbyInv'
<1> USE DEF AddAsHost, At, Goto
<1>1. TypeOK'
  BY DEF LobbyInv, TypeOK, Resting, Steps
<1>2. LockInv'
  BY DEF LobbyInv, LockInv, EntrySteps
<1>3. FiledInv'
  BY DEF LobbyInv, FiledInv, EntrySteps, Filed
<1>4. HostInv'
  BY DEF LobbyInv, TypeOK, HostInv, In, HostSteps
<1>5. CodeInv'
  BY DEF LobbyInv, CodeInv, In, KeysStay
<1>6. MemberInv'
  BY DEF LobbyInv, MemberInv, In, Complete, Full
<1>7. ActiveInv' /\ ListInv' /\ NeverTorn'
  BY DEF LobbyInv, ActiveInv, KeysStay, ListInv, NeverTorn,
     Complete
<1> QED
  BY <1>1, <1>2, <1>3, <1>4, <1>5, <1>6, <1>7 DEF LobbyInv

\* A step of an entry that only looks, and goes on to another.
LEMMA LookKeeps ==
    ASSUME LobbyInv, NEW c \in Clients, NEW step \in {"hostToken", "hostIn", "count", "member"},
           up, pc[c].at \in LookSteps, Goto(c, step),
           UNCHANGED <<up, holder, redis, sockets, maps, lists, history>>,
           step = "count" => creator[pc[c].session] \in clientsKey[pc[c].session],
           step = "member" => pc[c].at = "count" /\ ~Full(pc[c].session)
    PROVE  LobbyInv'
<1> USE DEF Goto
<1>1. TypeOK'
  BY DEF LobbyInv, TypeOK, Resting, Steps, LookSteps
<1>2. LockInv'
  BY DEF LobbyInv, LockInv, EntrySteps, LookSteps
<1>3. FiledInv'
  BY DEF LobbyInv, FiledInv, EntrySteps, Filed, LookSteps
<1>4. HostInv'
  BY DEF LobbyInv, HostInv, In, HostSteps, LookSteps
<1>5. CodeInv'
  BY DEF LobbyInv, CodeInv, In, KeysStay
<1>6. MemberInv'
  BY DEF LobbyInv, MemberInv, In, Complete, Full, LookSteps
<1>7. ActiveInv' /\ ListInv' /\ NeverTorn'
  BY DEF LobbyInv, ActiveInv, KeysStay, ListInv, NeverTorn,
     Complete
<1> QED
  BY <1>1, <1>2, <1>3, <1>4, <1>5, <1>6, <1>7 DEF LobbyInv

LEMMA AddValidKeeps ==
    ASSUME LobbyInv, NEW c \in Clients, AddValid(c)
    PROVE  LobbyInv'
  BY LookKeeps, RefuseKeeps DEF AddValid, At, LookSteps

LEMMA AddHostTokenKeeps ==
    ASSUME LobbyInv, NEW c \in Clients, AddHostToken(c)
    PROVE  LobbyInv'
  BY LookKeeps, RefuseKeeps, AddAsHostKeeps, DieKeeps DEF AddHostToken, At,
     LookSteps

LEMMA AddHostInKeeps ==
    ASSUME LobbyInv, NEW c \in Clients, AddHostIn(c)
    PROVE  LobbyInv'
  BY LookKeeps, RefuseKeeps DEF AddHostIn, At, LookSteps

LEMMA AddCountKeeps ==
    ASSUME LobbyInv, NEW c \in Clients, AddCount(c)
    PROVE  LobbyInv'
  BY LookKeeps, RefuseKeeps DEF AddCount, At, LookSteps

LEMMA AddPersistSessionKeeps ==
    ASSUME LobbyInv, NEW c \in Clients, AddPersistSession(c)
    PROVE  LobbyInv'
<1> USE DEF AddPersistSession, At, Goto
<1>1. TypeOK'
  BY DEF LobbyInv, TypeOK, Resting, Steps, KeyStates, Listing
<1>2. LockInv'
  BY DEF LobbyInv, LockInv, EntrySteps
<1>3. FiledInv'
  BY DEF LobbyInv, FiledInv, EntrySteps, Filed
<1>4. HostInv'
  BY DEF LobbyInv, TypeOK, HostInv, In, HostSteps
<1>5. CodeInv'
  BY DEF LobbyInv, CodeInv, In, KeysStay
<1>6. ActiveInv'
  BY DEF LobbyInv, ActiveInv, KeysStay
<1>7. NeverTorn'
  BY DEF LobbyInv, NeverTorn
<1>8. MemberInv'
  BY DEF LobbyInv, TypeOK, MemberInv, In, Complete, Full
<1>9. ListInv'
  BY DEF LobbyInv, ListInv
<1> QED
  BY <1>1, <1>2, <1>3, <1>4, <1>5, <1>6, <1>7, <1>8, <1>9 DEF LobbyInv

LEMMA AddPersistClientsKeeps ==
    ASSUME LobbyInv, NEW c \in Clients, AddPersistClients(c)
    PROVE  LobbyInv'
<1> USE DEF AddPersistClients, At, Goto
<1>1. TypeOK'
  BY DEF LobbyInv, TypeOK, Resting, Steps
<1>2. LockInv'
  BY DEF LobbyInv, LockInv, EntrySteps
<1>3. FiledInv'
  BY DEF LobbyInv, FiledInv, EntrySteps, Filed
<1>4. HostInv'
  BY DEF LobbyInv, HostInv, In, HostSteps
<1>5. CodeInv'
  BY DEF LobbyInv, CodeInv, In, KeysStay
<1>6. ActiveInv'
  BY DEF LobbyInv, ActiveInv, KeysStay
<1>7. MemberInv'
  BY DEF LobbyInv, MemberInv, In, Complete, Full
<1>8. ListInv' /\ NeverTorn'
  BY DEF LobbyInv, ListInv, NeverTorn, Complete
<1> QED
  BY <1>1, <1>2, <1>3, <1>4, <1>5, <1>6, <1>7, <1>8 DEF LobbyInv

LEMMA AddMemberKeeps ==
    ASSUME LobbyInv, NEW c \in Clients, AddMember(c)
    PROVE  LobbyInv'
<1> USE DEF AddMember, At, Rest
<1>1. TypeOK'
  BY DEF LobbyInv, TypeOK, Resting
<1>2. LockInv'
  BY LobbyAssumption DEF LobbyInv, TypeOK, LockInv, EntrySteps
<1>3. FiledInv'
  BY DEF LobbyInv, FiledInv, EntrySteps, Filed
<1>4. HostInv'
  <2> SUFFICES ASSUME NEW d \in Clients, NEW r \in Sessions, (joinHandler[d] = r)'
               PROVE  /\ sessionKey'[r] = "volatile" => In(d, {"persistSession"}, r)'
                      /\ r \in clientsTtl' => In(d, {"persistSession", "persistClients"}, r)'
                      /\ In(d, HostSteps, r)' \/ (clientsKey'[r] # {} /\ d \in entered'[r])
    BY DEF HostInv
  <2>1. CASE d = c
    BY DEF LobbyInv, TypeOK, HostInv, In
  <2>2. CASE d # c
    BY <2>2 DEF LobbyInv, HostInv, In
  <2> QED
    BY <2>1, <2>2
<1>5. CodeInv'
  BY DEF LobbyInv, CodeInv, In, KeysStay
<1>6. ActiveInv'
  BY DEF LobbyInv, ActiveInv, KeysStay
<1>7. MemberInv'
  BY DEF LobbyInv, TypeOK, MemberInv, LockInv, EntrySteps, In, Complete
<1>8. ListInv' /\ NeverTorn'
  BY DEF LobbyInv, ListInv, NeverTorn
<1> QED
  BY <1>1, <1>2, <1>3, <1>4, <1>5, <1>6, <1>7, <1>8 DEF LobbyInv

LEMMA CodeGetKeeps ==
    ASSUME LobbyInv, NEW c \in Clients, CodeGet(c)
    PROVE  LobbyInv'
<1> USE DEF CodeGet, CanBegin, At, Begin
<1>1. TypeOK'
  BY DEF LobbyInv, TypeOK, Resting, Steps
<1>2. LockInv'
  BY DEF LobbyInv, LockInv, EntrySteps
<1>3. FiledInv'
  BY DEF LobbyInv, FiledInv, Filed
<1>4. HostInv'
  BY DEF LobbyInv, HostInv, In, HostSteps
<1>5. CodeInv'
  BY DEF LobbyInv, CodeInv, HostInv, In, KeysStay, HostSteps, Complete
<1>6. MemberInv'
  BY DEF LobbyInv, MemberInv, In, Complete, Full
<1>7. ActiveInv' /\ ListInv' /\ NeverTorn'
  BY DEF LobbyInv, ActiveInv, KeysStay, ListInv, NeverTorn,
     Complete
<1> QED
  BY <1>1, <1>2, <1>3, <1>4, <1>5, <1>6, <1>7 DEF LobbyInv

LEMMA CodeSetKeeps ==
    ASSUME LobbyInv, NEW c \in Clients, CodeSet(c)
    PROVE  LobbyInv'
<1> USE DEF CodeSet, At, Goto
<1>1. TypeOK'
  BY DEF LobbyInv, TypeOK, Resting, Steps, KeyStates
<1>2. LockInv'
  BY DEF LobbyInv, LockInv, EntrySteps
<1>3. FiledInv'
  BY DEF LobbyInv, FiledInv, Filed
<1>4. HostInv'
  BY DEF LobbyInv, HostInv, In, HostSteps
<1>5. CodeInv'
  BY DEF LobbyInv, CodeInv, In, KeysStay
<1>6. ActiveInv'
  BY DEF LobbyInv, ActiveInv, KeysStay
<1>7. NeverTorn'
  BY DEF LobbyInv, NeverTorn, CodeInv, In, KeysStay
<1>8. MemberInv'
  BY DEF LobbyInv, MemberInv, In, Complete, Full
<1>9. ListInv'
  BY DEF LobbyInv, ListInv
<1> QED
  BY <1>1, <1>2, <1>3, <1>4, <1>5, <1>6, <1>7, <1>8, <1>9 DEF LobbyInv

LEMMA ActivateSessionKeeps ==
    ASSUME LobbyInv, NEW c \in Clients, ActivateSession(c)
    PROVE  LobbyInv'
<1> USE DEF ActivateSession, At, Rest
<1>1. TypeOK'
  BY DEF LobbyInv, TypeOK, Resting
<1>2. LockInv'
  BY DEF LobbyInv, LockInv, EntrySteps
<1>3. FiledInv'
  BY DEF LobbyInv, FiledInv, EntrySteps, Filed
<1>4. HostInv'
  BY DEF LobbyInv, HostInv, In, HostSteps
<1>5. CodeInv'
  BY DEF LobbyInv, CodeInv, In, KeysStay
<1>6. ActiveInv'
  BY DEF LobbyInv, TypeOK, ActiveInv, CodeInv, KeysStay, In
<1>7. ListInv'
  BY DEF LobbyInv, ListInv, LockInv
<1>8. MemberInv'
  BY DEF LobbyInv, MemberInv, In, Complete, Full
<1>9. NeverTorn'
  BY DEF LobbyInv, NeverTorn, Complete
<1> QED
  BY <1>1, <1>2, <1>3, <1>4, <1>5, <1>6, <1>7, <1>8, <1>9 DEF LobbyInv

LEMMA RequestListKeeps ==
    ASSUME LobbyInv, NEW c \in Clients, RequestList(c)
    PROVE  LobbyInv'
<1> USE DEF RequestList, CanBegin, At, Begin
<1>1. TypeOK'
  BY DEF LobbyInv, TypeOK, Steps
<1>2. LockInv'
  BY DEF LobbyInv, LockInv, EntrySteps
<1>3. FiledInv'
  BY DEF LobbyInv, FiledInv, EntrySteps, Filed
<1>4. HostInv'
  BY DEF LobbyInv, HostInv, In, HostSteps
<1>5. CodeInv'
  BY DEF LobbyInv, CodeInv, In, KeysStay
<1>6. MemberInv'
  BY DEF LobbyInv, MemberInv, In, Complete, Full
<1>7. ActiveInv' /\ ListInv' /\ NeverTorn'
  BY DEF LobbyInv, ActiveInv, KeysStay, ListInv, NeverTorn,
     Complete
<1> QED
  BY <1>1, <1>2, <1>3, <1>4, <1>5, <1>6, <1>7 DEF LobbyInv

LEMMA SendListKeeps ==
    ASSUME LobbyInv, NEW c \in Clients, SendCurrentActivedSessionList(c)
    PROVE  LobbyInv'
<1> USE DEF SendCurrentActivedSessionList, At, Rest
<1>1. TypeOK'
  BY DEF LobbyInv, TypeOK, Resting
<1>2. LockInv'
  BY DEF LobbyInv, LockInv, EntrySteps
<1>3. FiledInv'
  BY DEF LobbyInv, FiledInv, EntrySteps, Filed
<1>4. HostInv'
  BY DEF LobbyInv, HostInv, In, HostSteps
<1>5. CodeInv'
  BY DEF LobbyInv, CodeInv, In, KeysStay
<1>6. MemberInv'
  BY DEF LobbyInv, MemberInv, In, Complete, Full
<1>7. ActiveInv' /\ ListInv' /\ NeverTorn'
  BY DEF LobbyInv, ActiveInv, KeysStay, ListInv, NeverTorn,
     Complete
<1> QED
  BY <1>1, <1>2, <1>3, <1>4, <1>5, <1>6, <1>7 DEF LobbyInv

LEMMA TimerFiresKeeps ==
    ASSUME LobbyInv, TimerFires
    PROVE  LobbyInv'
<1> USE DEF TimerFires, TimerIs
<1>1. TypeOK'
  BY DEF LobbyInv, TypeOK
<1>2. LockInv'
  BY DEF LobbyInv, LockInv
<1>3. ListInv'
  BY DEF LobbyInv, ListInv
<1>4. FiledInv' /\ HostInv' /\ CodeInv' /\ ActiveInv' /\ NeverTorn' /\
      MemberInv'
  BY DEF LobbyInv, FiledInv, Filed, HostInv, In, CodeInv, KeysStay, ActiveInv,
     NeverTorn, MemberInv, Complete, Full
<1> QED
  BY <1>1, <1>2, <1>3, <1>4 DEF LobbyInv

LEMMA RewriteLockKeeps ==
    ASSUME LobbyInv, RewriteLock
    PROVE  LobbyInv'
<1> USE DEF RewriteLock, TimerIs
<1>1. TypeOK'
  <2>1. Cardinality(active) \in Nat
    BY LobbyAssumption, FS_Subset, FS_CardinalityType DEF LobbyInv, TypeOK
  <2> QED
    BY <2>1 DEF LobbyInv, TypeOK, Listing
<1>2. LockInv'
  BY LobbyAssumption DEF LobbyInv, LockInv
<1>3. ListInv'
  BY DEF LobbyInv, ListInv
<1>4. FiledInv' /\ HostInv' /\ CodeInv' /\ ActiveInv' /\ NeverTorn' /\
      MemberInv'
  BY DEF LobbyInv, FiledInv, Filed, HostInv, In, CodeInv, KeysStay, ActiveInv,
     NeverTorn, MemberInv, Complete, Full
<1> QED
  BY <1>1, <1>2, <1>3, <1>4 DEF LobbyInv

LEMMA RewriteEntryKeeps ==
    ASSUME LobbyInv, NEW s \in Sessions, RewriteEntry(s)
    PROVE  LobbyInv'
<1> USE DEF RewriteEntry, TimerIs
<1>1. TypeOK'
  BY DEF LobbyInv, TypeOK, Listing
<1>2. ListInv'
  BY DEF LobbyInv, ListInv, ActiveInv, KeysStay, IsValidSession, Complete
<1>3. LockInv' /\ FiledInv' /\ HostInv' /\ CodeInv' /\ ActiveInv' /\ NeverTorn'
      /\ MemberInv'
  BY DEF LobbyInv, LockInv, FiledInv, Filed, HostInv, In, CodeInv, KeysStay,
     ActiveInv, NeverTorn, MemberInv, Complete, Full
<1> QED
  BY <1>1, <1>2, <1>3 DEF LobbyInv

LEMMA RewriteDoneKeeps ==
    ASSUME LobbyInv, RewriteDone
    PROVE  LobbyInv'
<1> USE DEF RewriteDone, TimerIs
<1>1. TypeOK'
  BY DEF LobbyInv, TypeOK
<1>2. LockInv'
  BY LobbyAssumption DEF LobbyInv, LockInv
<1>3. ListInv'
  BY DEF LobbyInv, ListInv
<1>4. FiledInv' /\ HostInv' /\ CodeInv' /\ ActiveInv' /\ NeverTorn' /\
      MemberInv'
  BY DEF LobbyInv, FiledInv, Filed, HostInv, In, CodeInv, KeysStay, ActiveInv,
     NeverTorn, MemberInv, Complete, Full
<1> QED
  BY <1>1, <1>2, <1>3, <1>4 DEF LobbyInv

LEMMA ExpireSessionKeeps ==
    ASSUME LobbyInv, NEW s \in Sessions, ExpireSession(s)
    PROVE  LobbyInv'
<1> USE DEF ExpireSession
<1>1. TypeOK'
  BY DEF LobbyInv, TypeOK, KeyStates
<1>2. FiledInv'
  BY DEF LobbyInv, FiledInv, Filed
<1>3. HostInv'
  BY DEF LobbyInv, HostInv, In
<1>4. CodeInv'
  BY DEF LobbyInv, CodeInv, In, KeysStay
<1>5. ActiveInv'
  BY DEF LobbyInv, ActiveInv, KeysStay
<1>6. NeverTorn'
  BY DEF LobbyInv, NeverTorn
<1>7. MemberInv'
  BY DEF LobbyInv, MemberInv, In, Complete, Full
<1>8. LockInv' /\ ListInv'
  BY DEF LobbyInv, LockInv, ListInv
<1> QED
  BY <1>1, <1>2, <1>3, <1>4, <1>5, <1>6, <1>7, <1>8 DEF LobbyInv

LEMMA ExpireClientsKeeps ==
    ASSUME LobbyInv, NEW s \in Sessions, ExpireClients(s)
    PROVE  LobbyInv'
<1> USE DEF ExpireClients
<1>1. TypeOK'
  BY DEF LobbyInv, TypeOK
<1>2. HostInv'
  BY DEF LobbyInv, HostInv, In, HostSteps
<1>3. CodeInv'
  BY DEF LobbyInv, CodeInv, In, KeysStay
<1>4. ActiveInv'
  BY DEF LobbyInv, ActiveInv, KeysStay
<1>5. MemberInv'
  BY DEF LobbyInv, MemberInv, LockInv, EntrySteps, In, Complete, Full
<1>6. LockInv' /\ FiledInv' /\ ListInv' /\ NeverTorn'
  BY DEF LobbyInv, LockInv, FiledInv, Filed, ListInv, NeverTorn
<1> QED
  BY <1>1, <1>2, <1>3, <1>4, <1>5, <1>6 DEF LobbyInv

LEMMA LobbyInit == Init => LobbyInv
<1> SUFFICES ASSUME Init PROVE LobbyInv
  OBVIOUS
<1> USE DEF Init
<1>1. TypeOK
  BY DEF TypeOK, Resting, KeyStates, Listing, NoSessions
<1>2. LockInv /\ FiledInv /\ HostInv /\ CodeInv /\ NeverTorn
  BY LobbyAssumption DEF LockInv, FiledInv, HostInv, CodeInv, NeverTorn, EntrySteps, In,
     Filed
<1>3. ActiveInv /\ ListInv
  BY FS_EmptySet DEF ActiveInv, ListInv, NoSessions
<1>4. MemberInv
  BY DEF MemberInv, Complete
<1> QED
  BY <1>1, <1>2, <1>3, <1>4 DEF LobbyInv

-----------------------------------------------------------------------------
(* The theorems.                                                           *)

LEMMA LobbyStep == LobbyInv /\ [Next]_vars => LobbyInv'
<1> SUFFICES ASSUME LobbyInv, [Next]_vars PROVE LobbyInv'
  OBVIOUS
<1>1. ASSUME NEW c \in Clients, Request(c) PROVE LobbyInv'
  <2>1. CASE CreateThrows(c) \/ EnvironmentGone(c)
    BY <2>1, DieKeeps DEF CreateThrows, EnvironmentGone
  <2> QED
    BY <1>1, <2>1, RequestEnterLobbyKeeps, LeaveKeeps, DisconnectedKeeps, CodeGetKeeps,
       RequestListKeeps, CreateSessionKeeps, RequestEntryKeeps DEF Request
<1>2. ASSUME NEW c \in Clients, Locking(c) PROVE LobbyInv'
  BY <1>2, InsertSessionKeeps, EnterKeeps, ActivateSessionKeeps, SendListKeeps
     DEF Locking
<1>3. ASSUME NEW c \in Clients, AddClient(c) PROVE LobbyInv'
  BY <1>3, AddValidKeeps, AddHostTokenKeeps, AddPersistSessionKeeps,
     AddPersistClientsKeeps, AddHostInKeeps, AddCountKeeps, AddMemberKeeps DEF AddClient
<1>4. ASSUME NEW c \in Clients, CodeSet(c) PROVE LobbyInv'
  BY <1>4, CodeSetKeeps
<1>5. CASE TimerFires \/ RewriteLock \/ Rewrite
  BY <1>5, TimerFiresKeeps, RewriteLockKeeps, RewriteEntryKeeps, RewriteDoneKeeps
     DEF Rewrite
<1>6. ASSUME NEW s \in Sessions, ExpireSession(s) \/ ExpireClients(s) PROVE LobbyInv'
  BY <1>6, ExpireSessionKeeps, ExpireClientsKeeps
<1>7. CASE UNCHANGED vars
  <2>1. TypeOK' /\ LockInv' /\ FiledInv' /\ HostInv' /\ CodeInv' /\ ActiveInv'
    BY <1>7 DEF vars, LobbyInv, TypeOK, LockInv, FiledInv, Filed, HostInv, CodeInv,
                ActiveInv, KeysStay, In
  <2>2. ListInv' /\ NeverTorn' /\ MemberInv'
    BY <1>7 DEF vars, LobbyInv, ListInv, NeverTorn, MemberInv, In,
                Complete, Full
  <2> QED
    BY <2>1, <2>2 DEF LobbyInv
<1> QED
  BY <1>1, <1>2, <1>3, <1>4, <1>5, <1>6, <1>7 DEF Next

\* The inductive invariant holds in every reachable state of the lobby: the
\* locks, the sessions on file, the keys of a session whose host is in, the
\* list being written and the entry being checked (lobbyManager.cpp:154-194,
\* 365; session.cpp:212-381).
THEOREM LobbyInvariance == Spec => []LobbyInv
  BY LobbyInit, LobbyStep, PTL DEF Spec

\* The type invariant, in particular that no session is on file both as
\* waiting and as activated (lobbyManager.cpp:301-303).
THEOREM LobbyTypeCorrect == Spec => []TypeOK
<1>1. LobbyInv => TypeOK
  BY DEF LobbyInv
<1> QED
  BY <1>1, LobbyInvariance, PTL

\* An activated session cannot expire, however its host's Persist calls, the
\* expiry of the keys and the handlers of other clients interleave
\* (session.cpp:28-42, 226, 312-313).
THEOREM ActivatedStays == Spec => []ActiveKeysPersist
<1>1. LobbyInv => ActiveKeysPersist
  BY DEF LobbyInv, ActiveInv, KeysStay, ActiveKeysPersist
<1> QED
  BY <1>1, LobbyInvariance, PTL

\* A join code never creates a key that has nothing else in it
\* (session.cpp:28-42).
THEOREM JoinCodeNeverTears == Spec => []NeverTorn
<1>1. LobbyInv => NeverTorn
  BY DEF LobbyInv
<1> QED
  BY <1>1, LobbyInvariance, PTL

\* Every session in the list clients are sent has its host in and can still
\* be entered (session.cpp:177, lobbyManager.cpp:154-194).
THEOREM ListedSessionsOpen == Spec => []ListedHasHost
<1>1. LobbyInv => ListedHasHost
  BY DEF LobbyInv, ListInv, ActiveInv, KeysStay, ListedHasHost, IsValidSession, Complete
<1> QED
  BY <1>1, LobbyInvariance, PTL

\* The list has as many entries as its count says (lobbyManager.cpp:161,
\* 182-183).
THEOREM ListComplete == Spec => []CacheCountMatches
<1>1. LobbyInv => CacheCountMatches
  BY DEF LobbyInv, ListInv, CacheCountMatches
<1> QED
  BY <1>1, LobbyInvariance, PTL

\* A step that gives a complete session a new member is AddMember, and finds
\* the session as the entry that has the locks left it.
LEMMA MemberHasPlace ==
    ASSUME LobbyInv, NEW c \in Clients, AddMember(c), NEW s \in Sessions,
           Complete(s), Full(s)
    PROVE  clientsKey'[s] \subseteq clientsKey[s]
<1> USE DEF AddMember, At
<1>1. CASE pc[c].session # s
  BY <1>1 DEF LobbyInv, TypeOK
<1>2. CASE pc[c].session = s
  <2>1. clientsKey'[s] = clientsKey[s] \cup {c}
    BY <1>2 DEF LobbyInv, TypeOK
  <2>2. clientsKey[s] # {}
    BY FS_EmptySet, LobbyAssumption DEF Full
  <2>3. creator[s] \in clientsKey[s] /\ creator[s] = c
    BY <1>2, <2>2 DEF LobbyInv, MemberInv, In
  <2> QED
    BY <2>1, <2>3
<1> QED
  BY <1>1, <1>2

\* No entry takes a place that another one took after the count was read, for
\* any clients, sessions and io threads (lobbyManager.cpp:365,
\* session.cpp:339-341, 379).
THEOREM PlacesNotShared == Spec => FullTakesNobody
<1>1. ASSUME LobbyInv, [Next]_vars, NEW s \in Sessions, Complete(s), Full(s)
      PROVE  clientsKey'[s] \subseteq clientsKey[s]
  <2>1. ASSUME NEW c \in Clients, AddMember(c)
        PROVE  clientsKey'[s] \subseteq clientsKey[s]
    BY <1>1, <2>1, MemberHasPlace
  <2>2. ASSUME NEW c \in Clients, NEW r \in Sessions, CreateSession(c, r)
        PROVE  clientsKey'[s] \subseteq clientsKey[s]
    BY <1>1, <2>2 DEF CreateSession, LobbyInv, TypeOK, FiledInv, Complete
  <2>3. ASSUME NEW r \in Sessions, ExpireClients(r)
        PROVE  clientsKey'[s] \subseteq clientsKey[s]
    BY <1>1, <2>3 DEF ExpireClients, LobbyInv, TypeOK
  <2>4. CASE UNCHANGED clientsKey
    BY <2>4
  <2>5. ASSUME NEW c \in Clients,
               \/ RequestEnterLobby(c) \/ HandleRequestSessionLeave(c)
               \/ DisconnectedClient(c) \/ CreateThrows(c) \/ EnvironmentGone(c)
               \/ CodeGet(c) \/ RequestList(c)
               \/ \E r \in Sessions : RequestEntry(c, r)
        PROVE  UNCHANGED clientsKey
    BY <2>5 DEF RequestEnterLobby, HandleRequestSessionLeave, DisconnectedClient,
       CreateThrows, EnvironmentGone, Die, CodeGet, RequestList, RequestEntry
  <2>6. ASSUME NEW c \in Clients, Locking(c) \/ CodeSet(c)
        PROVE  UNCHANGED clientsKey
    BY <2>6 DEF Locking, InsertSession, HandleRequestSessionEnter, ActivateSession,
       SendCurrentActivedSessionList, CodeSet
  <2>7. ASSUME NEW c \in Clients,
               \/ AddValid(c) \/ AddHostToken(c) \/ AddPersistSession(c)
               \/ AddPersistClients(c) \/ AddHostIn(c) \/ AddCount(c)
        PROVE  UNCHANGED clientsKey
    BY <2>7 DEF AddValid, AddHostToken, AddAsHost, Refuse, Die, AddPersistSession,
       AddPersistClients, AddHostIn, AddCount
  <2>8. CASE \/ TimerFires \/ RewriteLock \/ Rewrite \/ UNCHANGED vars
             \/ \E r \in Sessions : ExpireSession(r)
    BY <2>4, <2>8 DEF TimerFires, RewriteLock, Rewrite, RewriteEntry, RewriteDone, vars,
       ExpireSession
  <2> QED
    BY <1>1, <2>1, <2>2, <2>3, <2>4, <2>5, <2>6, <2>7, <2>8 DEF Next, Request, AddClient
<1>2. LobbyInv /\ [Next]_vars
        => [\A s \in Sessions :
                Complete(s) /\ Full(s) => clientsKey'[s] \subseteq clientsKey[s]]_vars
  BY <1>1
<1> QED
  BY <1>2, LobbyInvariance, PTL DEF Spec, FullTakesNobody

-----------------------------------------------------------------------------
(* The lobby implements SessionDirectory.                                  *)

\* The phases of the sessions, as the refinement mapping has them.
phases == [s \in Sessions |-> CASE creator[s] = "none" -> "none"
                                [] creator[s] # "none" /\ ~Complete(s) -> "lapsed"
                                [] Complete(s) /\ s \in active -> "active"
                                [] OTHER -> "waiting"]

hosted == {s \in Sessions : creator[s] \in entered[s]}

DirectoryStep ==
    \/ Directory!Next
    \/ UNCHANGED <<phases, creator, hosted, cache.list>>

LEMMA DirectoryInit == Init => Directory!Init
<1> SUFFICES ASSUME Init PROVE Directory!Init
  OBVIOUS
<1>1. phases = [s \in Sessions |-> "none"]
  BY DEF Init, phases
<1>2. hosted = {}
  BY DEF Init, hosted
<1> QED
  BY <1>1, <1>2 DEF Init, Directory!Init, NoSessions, phases, hosted

\* The cases of a phase exclude each other when the invariant holds.
LEMMA PhaseIs ==
    ASSUME FiledInv, NEW s \in Sessions
    PROVE  /\ phases[s] = "none" <=> creator[s] = "none"
           /\ phases[s] = "lapsed" <=> creator[s] # "none" /\ ~Complete(s)
           /\ phases[s] = "active" <=> Complete(s) /\ s \in active
           /\ phases[s] = "waiting" <=> Complete(s) /\ s \notin active
  BY DEF phases, FiledInv, Complete

LEMMA PhaseSame ==
    ASSUME NEW s \in Sessions, creator'[s] = creator[s], Complete(s)' = Complete(s),
           s \in active' <=> s \in active
    PROVE  phases'[s] = phases[s]
  BY DEF phases

LEMMA CreateRefines ==
    ASSUME LobbyInv, NEW c \in Clients, NEW s \in Sessions, CreateSession(c, s)
    PROVE  Directory!Create(c, s)
<1> USE DEF CreateSession
<1>1. phases' = [phases EXCEPT ![s] = "waiting"]
  <2>1. phases'[s] = "waiting"
    BY LobbyAssumption DEF LobbyInv, TypeOK, FiledInv, Filed, phases, Complete
  <2>2. ASSUME NEW r \in Sessions \ {s} PROVE phases'[r] = phases[r]
    BY PhaseSame DEF Complete
  <2> QED
    BY <2>1, <2>2 DEF phases
<1>2. phases[s] = "none"
  BY PhaseIs DEF LobbyInv
<1>3. UNCHANGED hosted
  BY LobbyAssumption DEF LobbyInv, TypeOK, FiledInv, hosted
<1> QED
  BY <1>1, <1>2, <1>3 DEF Directory!Create, phases, hosted

LEMMA EntryRefines ==
    ASSUME LobbyInv, NEW c \in Clients, AddMember(c)
    PROVE  DirectoryStep
<1> USE DEF AddMember, At
<1>0. PICK s \in Sessions : s = pc[c].session
  BY DEF LobbyInv, TypeOK, Resting
<1>1. phases[s] # "none"
  BY <1>0, PhaseIs DEF LobbyInv, FiledInv, EntrySteps
<1>2. UNCHANGED phases
  BY DEF phases
<1>3. c \in entered'[s] /\ entered'[s] = entered[s] \cup {c}
  BY <1>0 DEF LobbyInv, TypeOK
<1>4. \A r \in Sessions \ {s} : entered'[r] = entered[r]
  BY <1>0 DEF LobbyInv, TypeOK
<1>5. \A r \in Sessions : /\ r \in hosted' <=> creator[r] \in entered'[r]
                          /\ r \in hosted <=> creator[r] \in entered[r]
  BY DEF hosted
<1>6. hosted \subseteq Sessions /\ hosted' \subseteq Sessions
  BY DEF hosted
<1>7. CASE creator[s] = c
  <2>1. s \in hosted'
    BY <1>3, <1>5, <1>7, Zenon
  <2>2. \A r \in Sessions \ {s} : r \in hosted' <=> r \in hosted
    BY <1>4, <1>5
  <2>3. hosted' = hosted \cup {s}
    BY <1>6, <2>1, <2>2
  <2>4. Directory!HostEnters(s)
    BY <1>1, <1>2, <2>3 DEF Directory!HostEnters, phases, hosted
  <2> QED
    BY <2>4 DEF DirectoryStep, Directory!Next
<1>8. CASE creator[s] # c
  <2>1. s \in hosted' <=> s \in hosted
    BY <1>3, <1>5, <1>8
  <2>2. \A r \in Sessions \ {s} : r \in hosted' <=> r \in hosted
    BY <1>4, <1>5
  <2>3. UNCHANGED hosted
    BY <1>6, <2>1, <2>2
  <2> QED
    BY <1>2, <2>3 DEF DirectoryStep
<1> QED
  BY <1>7, <1>8

LEMMA LapseRefines ==
    ASSUME LobbyInv, NEW s \in Sessions, ExpireSession(s)
    PROVE  Directory!Lapse(s)
<1> USE DEF ExpireSession
<1>1. s \notin active /\ creator[s] # "none"
  BY DEF LobbyInv, ActiveInv, KeysStay, FiledInv
<1>2. phases[s] = "waiting"
  BY <1>1, PhaseIs DEF LobbyInv, Complete
<1>3. phases' = [phases EXCEPT ![s] = "lapsed"]
  <2>1. phases'[s] = "lapsed"
    BY <1>1 DEF LobbyInv, TypeOK, phases, Complete
  <2>2. ASSUME NEW r \in Sessions \ {s} PROVE phases'[r] = phases[r]
    BY PhaseSame DEF Complete
  <2> QED
    BY <2>1, <2>2 DEF phases
<1> QED
  BY <1>2, <1>3 DEF Directory!Lapse, phases, hosted

LEMMA ActivateRefines ==
    ASSUME LobbyInv, NEW c \in Clients, ActivateSession(c)
    PROVE  DirectoryStep
<1> USE DEF ActivateSession, At
<1>0. PICK s \in Sessions : s = pc[c].session
  BY DEF LobbyInv, TypeOK, Resting
<1>1. KeysStay(s) /\ creator[s] \in entered[s] /\ creator[s] # "none"
  BY <1>0, LobbyAssumption DEF LobbyInv, CodeInv, In
<1>2. CASE s \in empty
  <2>1. s \notin active
    BY <1>2 DEF LobbyInv, TypeOK
  <2>2. phases[s] = "waiting"
    BY <1>1, <2>1, PhaseIs DEF LobbyInv, KeysStay, Complete
  <2>3. phases' = [phases EXCEPT ![s] = "active"]
    <3>1. phases'[s] = "active"
      BY <1>0, <1>1, <1>2 DEF KeysStay, phases, Complete
    <3>2. ASSUME NEW r \in Sessions \ {s} PROVE phases'[r] = phases[r]
      BY <1>0, PhaseSame DEF Complete
    <3> QED
      BY <1>1, <3>1, <3>2 DEF phases
  <2>4. Directory!Activate(s)
    BY <1>1, <2>2, <2>3 DEF Directory!Activate, phases, hosted
  <2> QED
    BY <2>4 DEF DirectoryStep, Directory!Next
<1>3. CASE s \notin empty
  BY DEF DirectoryStep, phases, hosted
<1> QED
  BY <1>2, <1>3

LEMMA ShowRefines ==
    ASSUME LobbyInv, RewriteDone
    PROVE  Directory!Show(draft.list)
<1> USE DEF RewriteDone, TimerIs
<1>1. draft.list = active /\ cache.list \subseteq active
  BY DEF LobbyInv, ListInv
<1>2. ASSUME NEW s \in active PROVE phases[s] = "active"
  BY PhaseIs DEF LobbyInv, TypeOK, ActiveInv, KeysStay, Complete
<1>3. UNCHANGED phases
  BY DEF phases
<1> QED
  BY <1>1, <1>2 DEF Directory!Show, phases, hosted

\* No other step is seen: the phase of a session does not depend on whether
\* its key has a time to live, and CodeSet writes to a key that is there.
LEMMA OthersStutter ==
    ASSUME LobbyInv, UNCHANGED <<creator, active, entered, cache>>,
           \/ UNCHANGED sessionKey
           \/ \E c \in Clients : AddPersistSession(c) \/ CodeSet(c)
    PROVE  DirectoryStep
<1>1. \A s \in Sessions : Complete(s)' = Complete(s)
  BY DEF LobbyInv, TypeOK, Complete, AddPersistSession, CodeSet
<1> QED
  BY DEF DirectoryStep, phases, hosted

LEMMA LobbyRefines ==
    ASSUME LobbyInv, [Next]_vars
    PROVE  DirectoryStep
<1>1. ASSUME NEW c \in Clients, NEW s \in Sessions, CreateSession(c, s) PROVE DirectoryStep
  BY <1>1, CreateRefines DEF DirectoryStep, Directory!Next
<1>2. ASSUME NEW c \in Clients, AddMember(c) PROVE DirectoryStep
  BY <1>2, EntryRefines
<1>3. ASSUME NEW s \in Sessions, ExpireSession(s) PROVE DirectoryStep
  BY <1>3, LapseRefines DEF DirectoryStep, Directory!Next
<1>4. ASSUME NEW c \in Clients, ActivateSession(c) PROVE DirectoryStep
  BY <1>4, ActivateRefines
<1>5. CASE RewriteDone
  <2>1. draft.list \in SUBSET Sessions
    BY DEF LobbyInv, TypeOK, Listing
  <2> QED
    BY <1>5, <2>1, ShowRefines DEF DirectoryStep, Directory!Next
<1>6. ASSUME NEW c \in Clients, AddPersistSession(c) \/ CodeSet(c) PROVE DirectoryStep
  BY <1>6, OthersStutter DEF AddPersistSession, CodeSet
<1>7. ASSUME NEW c \in Clients,
             \/ RequestEnterLobby(c) \/ HandleRequestSessionLeave(c)
             \/ DisconnectedClient(c) \/ CreateThrows(c) \/ EnvironmentGone(c)
             \/ CodeGet(c) \/ RequestList(c)
             \/ \E s \in Sessions : RequestEntry(c, s)
      PROVE  DirectoryStep
  BY <1>7, OthersStutter DEF RequestEnterLobby, HandleRequestSessionLeave,
     DisconnectedClient, CreateThrows, EnvironmentGone, Die, CodeGet, RequestList,
     RequestEntry
<1>8. ASSUME NEW c \in Clients,
             \/ InsertSession(c) \/ HandleRequestSessionEnter(c)
             \/ SendCurrentActivedSessionList(c)
             \/ AddValid(c) \/ AddHostToken(c) \/ AddPersistClients(c)
             \/ AddHostIn(c) \/ AddCount(c)
      PROVE  DirectoryStep
  BY <1>8, OthersStutter DEF InsertSession, HandleRequestSessionEnter,
     SendCurrentActivedSessionList, AddValid, AddHostToken, AddAsHost, Refuse, Die,
     AddPersistClients, AddHostIn, AddCount
<1>9. CASE TimerFires \/ RewriteLock \/ \E s \in Sessions : RewriteEntry(s) \/ ExpireClients(s)
  BY <1>9, OthersStutter DEF TimerFires, RewriteLock, RewriteEntry, ExpireClients
<1>10. CASE UNCHANGED vars
  BY <1>10, OthersStutter DEF vars
<1> QED
  BY <1>1, <1>2, <1>3, <1>4, <1>5, <1>6, <1>7, <1>8, <1>9, <1>10
     DEF Next, Request, Locking, AddClient, Rewrite

\* The lobby, with its handlers, locks, timers and expiring keys, implements
\* the directory, for any clients, sessions and io threads: a session lapses
\* or is activated for good, only with its host in, and the list shows
\* activated sessions and loses none (session.cpp:183-192, 312-313;
\* lobbyManager.cpp:154-194, 301-303).
THEOREM LobbyImplementsDirectory == Spec => ImplementsDirectory
<1>1. LobbyInv /\ [Next]_vars
        => [Directory!Next]_<<[s \in Sessions |-> CASE creator[s] = "none" -> "none"
                                [] creator[s] # "none" /\ ~Complete(s) -> "lapsed"
                                [] Complete(s) /\ s \in active -> "active"
                                [] OTHER -> "waiting"], creator,
                              {s \in Sessions : creator[s] \in entered[s]}, cache.list>>
  BY LobbyRefines DEF DirectoryStep, phases, hosted
<1> QED
  BY <1>1, LobbyInvariance, DirectoryInit, PTL DEF Spec, ImplementsDirectory, Directory!Spec
=============================================================================
