-------------------------------- MODULE Callers --------------------------------
(* The threads that call the engine's services: each makes one call at a time. *)
EXTENDS Naturals, FiniteSets

CONSTANTS
    Threads,
    MaxCalls    \* bound on the calls made, of all kinds

ASSUME CallersAssumption == IsFiniteSet(Threads) /\ MaxCalls \in Nat

VARIABLES
    at,         \* where each thread is in the call it makes
    calls       \* history: calls begun

callVars == <<at, calls>>

Idle == [op |-> "idle"]

CallersInit == at = [t \in Threads |-> Idle] /\ calls = 0

\* A call that the thread goes on with.
Begin(t, place) ==
    /\ at[t] = Idle /\ calls < MaxCalls
    /\ at' = [at EXCEPT ![t] = place]
    /\ calls' = calls + 1

\* A call that holds its mutex from beginning to end.
CallAtOnce(t) == Begin(t, Idle)

GoOn(t, place) == at' = [at EXCEPT ![t] = place] /\ calls' = calls

=============================================================================
