--------------------------- MODULE ConnectionService ---------------------------
(***************************************************************************)
(* What Server::listen owes its clients, whatever runs behind it: while it *)
(* listens it accepts connections, each accepted connection waits, may be  *)
(* served, and is closed exactly once, and listen returns only when it has *)
(* left none open.                                                         *)
(***************************************************************************)
CONSTANT Connections

VARIABLES
    phase,      \* of each connection
    listening   \* "before", "during" or "after" the call of listen

cvars == <<phase, listening>>

Init ==
    /\ phase = [c \in Connections |-> "none"]
    /\ listening = "before"

Listen ==
    /\ listening = "before"
    /\ listening' = "during"
    /\ UNCHANGED phase

Accept(c) ==
    /\ listening = "during" /\ phase[c] = "none"
    /\ phase' = [phase EXCEPT ![c] = "waiting"]
    /\ UNCHANGED listening

Serve(c) ==
    /\ phase[c] = "waiting"
    /\ phase' = [phase EXCEPT ![c] = "served"]
    /\ UNCHANGED listening

\* A connection that nobody had room for is closed without being served.
Close(c) ==
    /\ phase[c] \in {"waiting", "served"}
    /\ phase' = [phase EXCEPT ![c] = "closed"]
    /\ UNCHANGED listening

Return ==
    /\ listening = "during"
    /\ \A c \in Connections : phase[c] \in {"none", "closed"}
    /\ listening' = "after"
    /\ UNCHANGED phase

Next ==
    \/ Listen \/ Return
    \/ \E c \in Connections : Accept(c) \/ Serve(c) \/ Close(c)

Spec == Init /\ [][Next]_cvars

=============================================================================
