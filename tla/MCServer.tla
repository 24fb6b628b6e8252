------------------------------ MODULE MCServer ------------------------------
(***************************************************************************)
(* The server in one run: its connections, what it answers to requests,    *)
(* the registry of its connections, and the sessions of its users.  A      *)
(* behaviour is about one of them, and the state of the others does not    *)
(* change.                                                                 *)
(***************************************************************************)
EXTENDS Server, Requests, Sessions

CONSTANTS Parts, c1, c2, c3, s1, s2

VARIABLE part   \* what the behaviour is about

\* Two connections from one address and one from another; the client of the
\* first has the most to say.
MCConns == {c1, c2, c3}
MCIpOf == [c \in MCConns |-> IF c = c3 THEN 2 ELSE 1]
MCMaxItems == [c \in MCConns |-> IF c = c1 THEN 3 ELSE 0]

\* One connection
MCOne == {c1}
MCTwoItems == [c \in MCOne |-> 2]

\* One address is a prefix of the other.
MCSlotIp == [s \in {s1, s2} |-> IF s = s1 THEN <<1>> ELSE <<1, 2>>]

requestVars == <<dispatchVars, registryVars>>
vars == <<part, serverVars, requestVars, sessVars>>

\* What a behaviour is not about has one initial state.
Init ==
    /\ part \in Parts
    /\ ServerInit /\ DispatchInit /\ RegistryInit /\ SessionsInit
    /\ engine = "none" <=> part # "dispatch"

Next ==
    /\ UNCHANGED part
    /\ \/ part = "server" /\ ServerNext /\ UNCHANGED <<requestVars, sessVars>>
       \/ part = "dispatch" /\ DispatchNext /\ UNCHANGED <<serverVars, registryVars, sessVars>>
       \/ part = "registry" /\ RegistryNext /\ UNCHANGED <<serverVars, dispatchVars, sessVars>>
       \/ part = "sessions" /\ SessionsNext /\ UNCHANGED <<serverVars, requestVars>>

Spec == Init /\ [][Next]_vars /\ ServerFair
=============================================================================
