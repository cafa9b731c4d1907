------------------------------ MODULE TokenBucket ------------------------------
(***************************************************************************)
(* TokenBucketRateLimiter. Every call holds the mutex from the reading of  *)
(* the clock to its answer and is one action. The clock is the system's:   *)
(* it advances with time and is now and then set, forwards or back. Tokens *)
(* are counted in a unit in which the rate is whole; rounding of doubles   *)
(* does not appear.                                                        *)
(***************************************************************************)
EXTENDS Integers

CONSTANTS
    Capacity,   \* capacity_
    Rate,       \* rate_per_sec_, in tokens per tick of the clock
    Costs,      \* what callers of try_acquire ask for, never below 0
    Word,       \* 2^w for the w bits of a Timestamp
    MaxTime,    \* bound on the clock
    MaxSteps    \* bound on how often the clock is set

VARIABLES
    clock,      \* now_microseconds()
    tokens,     \* current_tokens_
    last,       \* last_refill_us_
    answer,     \* the last answer of try_acquire: what was asked, and if granted
    debt,       \* history: what was granted, less what the rate has paid back
    steps       \* history: how often the clock was set

vars == <<clock, tokens, last, answer, debt, steps>>

ASSUME BucketAssumption ==
    /\ Capacity \in Nat /\ Rate \in Nat
    /\ Costs \subseteq Nat
    /\ MaxTime \in Nat /\ Word \in Nat /\ Word > MaxTime
    /\ MaxSteps \in Nat

NoAnswer == [asked |-> 0, granted |-> TRUE]

Lower(a, b) == IF a <= b THEN a ELSE b

Init ==
    /\ clock = 0
    /\ tokens = Capacity
    /\ last = clock
    /\ answer = NoAnswer
    /\ debt = 0
    /\ steps = 0

-----------------------------------------------------------------------------
(* Time.                                                                   *)

Tick ==
    /\ clock < MaxTime
    /\ clock' = clock + 1
    /\ debt' = IF debt > Rate THEN debt - Rate ELSE 0
    /\ UNCHANGED <<tokens, last, answer, steps>>

\* The system clock is set; no time passes.
SetClock ==
    /\ steps < MaxSteps
    /\ \E t \in 0..MaxTime : t # clock /\ clock' = t
    /\ steps' = steps + 1
    /\ UNCHANGED <<tokens, last, answer, debt>>

-----------------------------------------------------------------------------
(* The limiter.                                                            *)

\* now - last_refill_us_, of unsigned numbers.
Elapsed == (clock - last) % Word

\* Slip: the bucket overflows.
Overfull == tokens + Elapsed * Rate

\* What refill() leaves in the bucket.
Refilled == Lower(Capacity, tokens + Elapsed * Rate)

\* remaining_tokens and headroom_percent.
Query ==
    /\ tokens' = Refilled
    /\ last' = clock
    /\ UNCHANGED <<clock, answer, debt, steps>>

\* Slip: a granted call does not note the time of its refill.
GrantTwice(n) ==
    /\ Refilled >= n
    /\ tokens' = Refilled - n
    /\ answer' = [asked |-> n, granted |-> TRUE]
    /\ debt' = debt + n
    /\ UNCHANGED <<clock, last, steps>>

Grant(n) ==
    /\ Refilled >= n
    /\ tokens' = Refilled - n
    /\ last' = clock
    /\ answer' = [asked |-> n, granted |-> TRUE]
    /\ debt' = debt + n
    /\ UNCHANGED <<clock, steps>>

\* Slip: a refused call forgets the time that has passed.
RefuseForgetful(n) ==
    /\ Refilled < n
    /\ last' = clock
    /\ answer' = [asked |-> n, granted |-> FALSE]
    /\ UNCHANGED <<clock, tokens, debt, steps>>

Refuse(n) ==
    /\ Refilled < n
    /\ tokens' = Refilled
    /\ last' = clock
    /\ answer' = [asked |-> n, granted |-> FALSE]
    /\ UNCHANGED <<clock, debt, steps>>

Next ==
    \/ Tick \/ SetClock \/ Query
    \/ \E n \in Costs : Grant(n) \/ Refuse(n)

Spec == Init /\ [][Next]_vars

-----------------------------------------------------------------------------
(* Properties.                                                             *)

TypeOK ==
    /\ clock \in 0..MaxTime /\ last \in 0..MaxTime
    /\ tokens \in 0..Capacity
    /\ answer \in [asked : Costs \cup {0}, granted : BOOLEAN]
    /\ debt \in Nat
    /\ steps \in 0..MaxSteps

\* debt is the largest excess, over all spans of time that end now, of what was
\* granted in the span over what the rate allows in it. In no span is more
\* granted than the rate allows and a full bucket, and one more full bucket for
\* each time the clock was set.
GrantsBounded == debt <= Capacity * (1 + steps)

\* While nobody sets the clock a call is refused only if granting it would break
\* that bound: the refill at calls loses nothing against one at every instant.
RefusedOnlyWhenSpent ==
    [][\A n \in Costs :
          steps = 0 /\ answer' = [asked |-> n, granted |-> FALSE]
          /\ answer' # answer => debt + n > Capacity]_vars

=============================================================================
