--------------------------- MODULE LoginRegistry ---------------------------
(***************************************************************************)
(* What the login server promises its clients, without Redis, handlers or  *)
(* threads: an id is registered once and for all with one password, and a  *)
(* client that presents the password of an account holds the account's     *)
(* only session until the session ends, or the registry starts again.      *)
(*                                                                         *)
(* The promise is withdrawn id by id, in the open: two registrations that  *)
(* overlap make an id forked, two logins that overlap make it contended.   *)
(* For an id that is neither, nothing is given up.                         *)
(***************************************************************************)
CONSTANTS Clients, Ids, Passwords, None

VARIABLES
    account,    \* account[i]: the password i was registered with, or None
    session,    \* session[c]: the id c is logged in with, or None
    forked,     \* ids that may be registered twice
    contended   \* ids that may have two sessions

Init ==
    /\ account = [i \in Ids |-> None]
    /\ session = [c \in Clients |-> None]
    /\ forked = {}
    /\ contended = {}

Register(i, p) ==
    /\ account[i] = None \/ i \in forked
    /\ account' = [account EXCEPT ![i] = p]
    /\ UNCHANGED <<session, forked, contended>>

\* Logging in again with another id ends the session of the first.
Login(c, i, p) ==
    /\ account[i] = p \/ i \in forked
    /\ (\A d \in Clients : session[d] # i) \/ i \in contended
    /\ session' = [session EXCEPT ![c] = i]
    /\ UNCHANGED <<account, forked, contended>>

End(c) ==
    /\ session' = [session EXCEPT ![c] = None]
    /\ UNCHANGED <<account, forked, contended>>

\* Two requests for the same id overlap.
Fork(i) ==
    /\ forked' = forked \cup {i}
    /\ UNCHANGED <<account, session, contended>>

Contend(i) ==
    /\ contended' = contended \cup {i}
    /\ UNCHANGED <<account, session, forked>>

\* Accounts outlive the registry, sessions do not.
Restart ==
    /\ session' = [c \in Clients |-> None]
    /\ forked' = {}
    /\ contended' = {}
    /\ UNCHANGED account

Next ==
    \/ \E i \in Ids, p \in Passwords : Register(i, p)
    \/ \E c \in Clients, i \in Ids, p \in Passwords : Login(c, i, p)
    \/ \E c \in Clients : End(c)
    \/ \E i \in Ids : Fork(i) \/ Contend(i)
    \/ Restart

Spec == Init /\ [][Next]_<<account, session, forked, contended>>
=============================================================================
