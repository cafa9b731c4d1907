----------------------------- MODULE ReplayWindow -----------------------------
(***************************************************************************)
(* What the anti-replay ledger promises, without its table: a payload hash *)
(* is accepted exactly when no acceptance of the same hash lies less than  *)
(* TTL before it. All acceptances are remembered; what a ledger may forget *)
(* is for the ledger to decide.                                            *)
(***************************************************************************)
EXTENDS Integers

CONSTANTS
    Hashes,  \* payload hashes
    Times,   \* times at which a hash may be checked
    TTL      \* length of the window

VARIABLES
    accepts,  \* <<hash, time>> of every acceptance since the last clear
    answer    \* the last answer given: hash, time, and whether it was accepted

NoAnswer == [hash |-> "none", time |-> 0, accepted |-> FALSE]

\* hash was accepted less than TTL before time.
Replayed(hash, time) ==
    \E a \in accepts : a[1] = hash /\ a[2] <= time /\ time - a[2] < TTL

Init == accepts = {} /\ answer = NoAnswer

Check(hash, time) ==
    /\ answer' = [hash |-> hash, time |-> time,
                  accepted |-> ~Replayed(hash, time)]
    /\ accepts' = IF Replayed(hash, time) THEN accepts
                                          ELSE accepts \cup {<<hash, time>>}

Clear == accepts' = {} /\ UNCHANGED answer

Next == (\E hash \in Hashes, time \in Times : Check(hash, time)) \/ Clear

Spec == Init /\ [][Next]_<<accepts, answer>>

=============================================================================
