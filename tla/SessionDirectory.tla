-------------------------- MODULE SessionDirectory --------------------------
(***************************************************************************)
(* What the lobby promises, without Redis, handlers or locks: a session    *)
(* waits for its host until it lapses for good, or the host, once in,      *)
(* activates it for good; the list that is shown holds activated sessions  *)
(* and never loses one.  Whom else a session lets in, and when, is not     *)
(* part of the promise.                                                    *)
(***************************************************************************)
CONSTANTS Clients, Sessions

VARIABLES
    phase,      \* phase[s]: "none", "waiting", "lapsed" or "active"
    host,       \* host[s]: who created s, "none" before
    hostIn,     \* the sessions whose host was let in
    shown       \* the list of sessions

Init ==
    /\ phase = [s \in Sessions |-> "none"]
    /\ host = [s \in Sessions |-> "none"]
    /\ hostIn = {}
    /\ shown = {}

Create(c, s) ==
    /\ phase[s] = "none"
    /\ phase' = [phase EXCEPT ![s] = "waiting"]
    /\ host' = [host EXCEPT ![s] = c]
    /\ UNCHANGED <<hostIn, shown>>

\* A host that was being let in while its session lapsed may be told so.
HostEnters(s) ==
    /\ phase[s] # "none"
    /\ hostIn' = hostIn \cup {s}
    /\ UNCHANGED <<phase, host, shown>>

Lapse(s) ==
    /\ phase[s] = "waiting"
    /\ phase' = [phase EXCEPT ![s] = "lapsed"]
    /\ UNCHANGED <<host, hostIn, shown>>

Activate(s) ==
    /\ phase[s] = "waiting"
    /\ s \in hostIn
    /\ phase' = [phase EXCEPT ![s] = "active"]
    /\ UNCHANGED <<host, hostIn, shown>>

Show(list) ==
    /\ shown \subseteq list
    /\ \A s \in list : phase[s] = "active"
    /\ shown' = list
    /\ UNCHANGED <<phase, host, hostIn>>

Next ==
    \/ \E s \in Sessions :
        \/ HostEnters(s) \/ Lapse(s) \/ Activate(s)
        \/ \E c \in Clients : Create(c, s)
    \/ \E list \in SUBSET Sessions : Show(list)

Spec == Init /\ [][Next]_<<phase, host, hostIn, shown>>
=============================================================================
