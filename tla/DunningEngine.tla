---------------------------- MODULE DunningEngine ----------------------------
(***************************************************************************)
(* DunningEngine: callers put failed charges into a queue ordered by the   *)
(* time of their next retry, a worker thread takes them when they are due, *)
(* and stop() ends the worker. The worker sleeps on a condition variable.  *)
(*                                                                         *)
(* mutex_ is held across a step only by the worker that has decided to     *)
(* wait and has not yet blocked ("sleep", "doze"); every other critical    *)
(* section is one action. stop() takes no mutex at all.                    *)
(*                                                                         *)
(* Times are relative: a charge carries the time left until its retry,     *)
(* which Tick lowers. Below -MaxLate overdue charges are not told apart.   *)
(***************************************************************************)
EXTENDS Integers, FiniteSets

CONSTANTS
    Txs,       \* failed charges; schedule_retry is called once for each
    Attempts,  \* attempt_count values it is called with
    Backoff,   \* delay of attempt 1, 2, 3 and of all later ones
    MaxLate    \* bound on how late a charge is known to be

ASSUME AttemptsAssumption == Attempts \subseteq Nat

ASSUME BackoffAssumption == Backoff \in [1..4 -> Nat]

ASSUME MaxLateAssumption == MaxLate \in Nat

VARIABLES
    queue,      \* retry_queue_: records of tx, attempt and time left
    running,    \* running_
    wpc,        \* where the worker is
    hand,       \* the charge it has popped, as a set
    deadline,   \* time left until its wait_until returns
    calls,      \* charges of schedule_retry calls that have not pushed yet
    notifying,  \* calls that have pushed and not notified yet
    spc,        \* where the caller of stop() is
    scheduled,  \* history: charges schedule_retry was called for
    recovered,  \* history: charges whose retry succeeded
    since       \* history: time since each was last scheduled, up to MaxDelay

workerVars == <<wpc, hand, deadline>>
callerVars == <<calls, notifying>>
stopVars   == <<running, spc>>
history    == <<scheduled, recovered, since>>
vars == <<queue, workerVars, callerVars, stopVars, history>>

\* BackoffStrategy::get_next_delay.
NextDelay(attempt) == IF attempt <= 1 THEN Backoff[1]
                 ELSE IF attempt <= 3 THEN Backoff[attempt] ELSE Backoff[4]

MaxDelay == CHOOSE d \in {Backoff[i] : i \in 1..4} : \A i \in 1..4 : Backoff[i] <= d

Charge(tx, attempt) == [tx |-> tx, attempt |-> attempt, left |-> NextDelay(attempt)]

Init ==
    /\ queue = {} /\ hand = {} /\ calls = {} /\ notifying = {}
    /\ running = TRUE
    /\ wpc = "test" /\ deadline = 0
    /\ spc = "idle"
    /\ scheduled = {} /\ recovered = {}
    /\ since = [tx \in Txs |-> 0]

-----------------------------------------------------------------------------
(* Time, as system_clock tells it: it only advances.                       *)

Sooner(left) == IF left > -MaxLate THEN left - 1 ELSE left

Age(charges) == {[c EXCEPT !.left = Sooner(c.left)] : c \in charges}

Tick ==
    /\ queue' = Age(queue) /\ hand' = Age(hand) /\ calls' = Age(calls)
    /\ deadline' = Sooner(deadline)
    /\ since' = [tx \in Txs |-> IF since[tx] < MaxDelay THEN since[tx] + 1
                                                        ELSE since[tx]]
    /\ UNCHANGED <<wpc, notifying, stopVars, scheduled, recovered>>

-----------------------------------------------------------------------------
(* schedule_retry and the condition variable.                              *)

Locked == wpc \in {"sleep", "doze"}

\* A notification reaches the worker only while it is blocked. Out of wait()
\* it looks at the predicate, out of wait_until() it goes round the loop.
Notify ==
    wpc' = CASE wpc = "asleep" -> "awake"
             [] wpc = "dozing" -> "test"
             [] OTHER          -> wpc

\* The time of the retry is computed before the mutex is taken.
ScheduleRetry(tx, attempt) ==
    /\ tx \notin scheduled
    /\ scheduled' = scheduled \cup {tx}
    /\ calls' = calls \cup {Charge(tx, attempt)}
    /\ since' = [since EXCEPT ![tx] = 0]
    /\ UNCHANGED <<queue, workerVars, notifying, stopVars, recovered>>

\* Slip: the push is announced to nobody.
PushSilently(c) ==
    /\ ~Locked
    /\ calls' = calls \ {c}
    /\ queue' = queue \cup {c}
    /\ UNCHANGED <<workerVars, notifying, stopVars, history>>

Push(c) ==
    /\ ~Locked
    /\ calls' = calls \ {c}
    /\ queue' = queue \cup {c}
    /\ notifying' = notifying \cup {c.tx}
    /\ UNCHANGED <<workerVars, stopVars, history>>

NotifyOne(tx) ==
    /\ notifying' = notifying \ {tx}
    /\ Notify
    /\ UNCHANGED <<queue, hand, deadline, calls, stopVars, history>>

CallerStep ==
    (\E c \in calls : Push(c)) \/ (\E tx \in notifying : NotifyOne(tx))

-----------------------------------------------------------------------------
(* worker_loop.                                                            *)

\* retry_queue_.top(): none is due earlier.
Earliest(c) == c \in queue /\ \A d \in queue : c.left <= d.left

\* Slip: the charge stays in the queue while its retry runs.
TakeUnpopped ==
    /\ wpc = "lock"
    /\ \E c \in queue :
           /\ Earliest(c) /\ c.left <= 0
           /\ hand' = {c}
    /\ wpc' = "retry"
    /\ UNCHANGED <<queue, deadline, callerVars, stopVars, history>>

TestRunning ==
    /\ wpc = "test"
    /\ wpc' = IF running THEN "lock" ELSE "done"
    /\ UNCHANGED <<queue, hand, deadline, callerVars, stopVars, history>>

\* The queue is empty: wait() tests its predicate before it blocks.
FindNothing ==
    /\ wpc = "lock" /\ queue = {}
    /\ wpc' = IF running THEN "sleep" ELSE "test"
    /\ UNCHANGED <<queue, hand, deadline, callerVars, stopVars, history>>

TakeDue ==
    /\ wpc = "lock"
    /\ \E c \in queue :
           /\ Earliest(c) /\ c.left <= 0
           /\ queue' = queue \ {c}
           /\ hand' = {c}
    /\ wpc' = "retry"
    /\ UNCHANGED <<deadline, callerVars, stopVars, history>>

FindEarly ==
    /\ wpc = "lock"
    /\ \E c \in queue :
           /\ Earliest(c) /\ c.left > 0
           /\ deadline' = c.left
    /\ wpc' = "doze"
    /\ UNCHANGED <<queue, hand, callerVars, stopVars, history>>

\* Blocking and releasing the mutex are one step to whoever takes the mutex.
Block ==
    /\ Locked
    /\ wpc' = IF wpc = "sleep" THEN "asleep" ELSE "dozing"
    /\ UNCHANGED <<queue, hand, deadline, callerVars, stopVars, history>>

TimeOut ==
    /\ wpc = "dozing" /\ deadline <= 0
    /\ wpc' = "test"
    /\ UNCHANGED <<queue, hand, deadline, callerVars, stopVars, history>>

\* Slip: the predicate forgets the queue.
AwakeToStop ==
    /\ wpc = "awake"
    /\ wpc' = IF ~running THEN "test" ELSE "sleep"
    /\ UNCHANGED <<queue, hand, deadline, callerVars, stopVars, history>>

\* The predicate of wait(), under the mutex again.
Awake ==
    /\ wpc = "awake"
    /\ wpc' = IF ~running \/ queue # {} THEN "test" ELSE "sleep"
    /\ UNCHANGED <<queue, hand, deadline, callerVars, stopVars, history>>

\* The simulated charge succeeds from the second attempt on.
Succeed ==
    /\ wpc = "retry"
    /\ \E c \in hand : c.attempt >= 2 /\ recovered' = recovered \cup {c.tx}
    /\ hand' = {}
    /\ wpc' = "test"
    /\ UNCHANGED <<queue, deadline, callerVars, stopVars, scheduled, since>>

\* Slip: the next attempt waits as long as the one that failed.
FailHastily ==
    /\ wpc = "retry"
    /\ \E c \in hand :
           /\ c.attempt < 2
           /\ hand' = {[Charge(c.tx, c.attempt) EXCEPT !.attempt = @ + 1]}
           /\ since' = [since EXCEPT ![c.tx] = 0]
    /\ wpc' = "requeue"
    /\ UNCHANGED <<queue, deadline, callerVars, stopVars, scheduled, recovered>>

\* The worker calls schedule_retry itself.
Fail ==
    /\ wpc = "retry"
    /\ \E c \in hand :
           /\ c.attempt < 2
           /\ hand' = {Charge(c.tx, c.attempt + 1)}
           /\ since' = [since EXCEPT ![c.tx] = 0]
    /\ wpc' = "requeue"
    /\ UNCHANGED <<queue, deadline, callerVars, stopVars, scheduled, recovered>>

\* Slip: the worker keeps the charge it has pushed.
RequeueKept ==
    /\ wpc = "requeue"
    /\ queue' = queue \cup hand
    /\ wpc' = "test"
    /\ UNCHANGED <<hand, deadline, callerVars, stopVars, history>>

\* Its notify_one finds nobody waiting: the one who waits is the worker.
Requeue ==
    /\ wpc = "requeue"
    /\ queue' = queue \cup hand
    /\ hand' = {}
    /\ wpc' = "test"
    /\ UNCHANGED <<deadline, callerVars, stopVars, history>>

WorkerStep ==
    \/ TestRunning \/ FindNothing \/ TakeDue \/ FindEarly \/ Block \/ TimeOut
    \/ Awake \/ Succeed \/ Fail \/ Requeue

\* Condition variables may wake up without a cause.
WakeSpuriously ==
    /\ wpc \in {"asleep", "dozing"}
    /\ Notify
    /\ UNCHANGED <<queue, hand, deadline, callerVars, stopVars, history>>

-----------------------------------------------------------------------------
(* stop().                                                                 *)

Exchange ==
    /\ spc = "idle"
    /\ running' = FALSE
    /\ spc' = "notify"
    /\ UNCHANGED <<queue, workerVars, callerVars, history>>

NotifyAll ==
    /\ spc = "notify"
    /\ spc' = "join"
    /\ Notify
    /\ UNCHANGED <<queue, hand, deadline, callerVars, running, history>>

Join ==
    /\ spc = "join" /\ wpc = "done"
    /\ spc' = "returned"
    /\ UNCHANGED <<queue, workerVars, callerVars, running, history>>

-----------------------------------------------------------------------------
Next ==
    \/ Tick
    \/ \E tx \in Txs, attempt \in Attempts : ScheduleRetry(tx, attempt)
    \/ CallerStep \/ WorkerStep \/ WakeSpuriously
    \/ Exchange \/ NotifyAll \/ Join

\* Time passes, and a thread that has begun a call goes on; the mutex, which the
\* worker may take again and again, is not withheld from a caller for ever.
\* Nobody need call, and no sleeper need wake up without a cause.
Fairness ==
    /\ WF_vars(Tick) /\ WF_vars(WorkerStep)
    /\ \A tx \in Txs :
           /\ SF_vars(\E c \in calls : c.tx = tx /\ Push(c))
           /\ WF_vars(tx \in notifying /\ NotifyOne(tx))
    /\ WF_vars(NotifyAll) /\ WF_vars(Join)

Spec     == Init /\ [][Next]_vars
FairSpec == Spec /\ Fairness

-----------------------------------------------------------------------------
(* Properties.                                                             *)

Charges == [tx : Txs, attempt : Nat, left : Int]

\* The worker holds a charge exactly between popping it and being done with
\* it, and stop() has cleared running_ exactly when it has begun.
TypeOK ==
    /\ queue \subseteq Charges /\ hand \subseteq Charges /\ calls \subseteq Charges
    /\ running \in BOOLEAN /\ (running <=> spc = "idle")
    /\ wpc \in {"test", "lock", "sleep", "asleep", "awake", "doze", "dozing",
                "retry", "requeue", "done"}
    /\ hand # {} <=> wpc \in {"retry", "requeue"}
    /\ deadline \in Int
    /\ notifying \subseteq scheduled
    /\ spc \in {"idle", "notify", "join", "returned"}
    /\ scheduled \subseteq Txs /\ recovered \subseteq scheduled
    /\ since \in [Txs -> 0..MaxDelay]

Pending == queue \cup hand \cup calls

\* Whatever pops, fails, is pushed again or is stopped half way: a scheduled
\* charge is either recovered or waiting in exactly one place, once.
ChargesConserved ==
    /\ scheduled = recovered \cup {c.tx : c \in Pending}
    /\ \A c \in Pending : c.tx \notin recovered
    /\ \A c, d \in Pending : c.tx = d.tx => c = d
    /\ queue \cap hand = {} /\ queue \cap calls = {} /\ hand \cap calls = {}

\* No retry runs before the delay of its attempt has passed since it was
\* scheduled, whoever woke the worker up and whatever it was waiting for.
NotEarly ==
    \A c \in hand : wpc = "retry" => since[c.tx] >= NextDelay(c.attempt)

\* schedule_retry pushes and notifies in two steps and the worker tests and
\* blocks in two: it never sleeps over a charge it ought to see, unless the
\* notification is still on its way.
NoSleepOverWork ==
    notifying = {} =>
        /\ wpc \in {"sleep", "asleep"} => queue = {}
        /\ wpc \in {"doze", "dozing"} => \A c \in queue : c.left >= deadline

\* Every charge the engine was given is recovered, if it is not stopped.
EveryChargeRecovered ==
    \A tx \in Txs : tx \in scheduled ~> (tx \in recovered \/ ~running)

\* stop() does not take the mutex, and its notification may be lost to a
\* worker about to wait on an empty queue. With a charge in the queue it is
\* not: the worker comes to its end, and stop() returns.
StopsWithWorkLeft == (~running /\ queue # {}) ~> wpc = "done"

=============================================================================
