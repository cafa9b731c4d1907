------------------------------ MODULE ThreadPool ------------------------------
(***************************************************************************)
(* httplib::ThreadPool, the threads in which every handler of the engine   *)
(* runs: base workers that live as long as the pool, dynamic ones that     *)
(* enqueue starts when nobody is idle and that leave after a while without *)
(* work, one queue, one mutex, one condition variable, and shutdown.       *)
(*                                                                         *)
(* What runs between two releases of the mutex is one action, which is all *)
(* the other threads can see of it. A worker that waits holds no mutex;    *)
(* one that was woken still counts as idle until it has taken the mutex.   *)
(***************************************************************************)
EXTENDS Integers, Sequences, FiniteSets

CONSTANTS
    Base,           \* threads_
    Dynamic,        \* names for dynamic threads; a joined one is free again
    MaxThreads,     \* max_thread_count_
    MaxQueued,      \* max_queued_requests_, 0 for no limit
    Connections,    \* what a job serves: process_and_close_socket(sock)
    NoConnection

VARIABLES
    jobs,       \* jobs_
    idle,       \* idle_thread_count_
    shutdown,   \* shutdown_
    at,         \* where each worker is
    hand        \* the job each worker runs

poolVars == <<jobs, idle, shutdown, at, hand>>

Workers == Base \cup Dynamic

ASSUME PoolAssumption ==
    /\ IsFiniteSet(Base) /\ Base # {}
    /\ IsFiniteSet(Dynamic) /\ Base \cap Dynamic = {}
    /\ MaxThreads \in Cardinality(Base)..Cardinality(Base \cup Dynamic)
    /\ MaxQueued \in Nat
    /\ NoConnection \notin Connections

PoolInit ==
    /\ jobs = <<>>
    /\ idle = 0
    /\ shutdown = FALSE
    /\ at = [w \in Workers |-> IF w \in Base THEN "lock" ELSE "unborn"]
    /\ hand = [w \in Workers |-> NoConnection]

\* dynamic_threads_: also those that have ended and are not yet joined.
DynamicThreads == {w \in Dynamic : at[w] \notin {"unborn", "finished"}}

-----------------------------------------------------------------------------
(* enqueue.                                                                *)

MayQueue == ~shutdown /\ (MaxQueued > 0 => Len(jobs) < MaxQueued)

NeedsThread ==
    /\ idle = 0
    /\ Cardinality(Base) + Cardinality(DynamicThreads) < MaxThreads

\* Slip: threads that timed out are not joined before another is started.
SpawnUnjoined ==
    \E d \in Dynamic :
        /\ at[d] = "unborn"
        /\ at' = [at EXCEPT ![d] = "lock"]

\* cleanup_finished_threads joins what timed out, and a new worker starts.
\* That the system has no thread to give is left out.
Spawn ==
    \E d \in Dynamic :
        /\ at[d] \in {"unborn", "finished"}
        /\ at' = [w \in Workers |->
                     IF w = d THEN "lock"
                     ELSE IF at[w] = "finished" THEN "unborn" ELSE at[w]]

PushJob(c) ==
    /\ MayQueue
    /\ jobs' = Append(jobs, c)
    /\ IF NeedsThread THEN Spawn ELSE UNCHANGED at
    /\ UNCHANGED <<idle, shutdown, hand>>

\* A notification that finds nobody waiting is gone.
NotifyOne ==
    /\ IF \E w \in Workers : at[w] = "wait"
       THEN \E w \in Workers :
                /\ at[w] = "wait"
                /\ at' = [at EXCEPT ![w] = "woken"]
       ELSE UNCHANGED at
    /\ UNCHANGED <<jobs, idle, shutdown, hand>>

-----------------------------------------------------------------------------
(* worker.                                                                 *)

\* It holds the mutex for the first time round, or again after a wait.
InLoop(w) == at[w] \in {"lock", "woken"}
Counted(w) == IF at[w] = "woken" THEN 1 ELSE 0

\* Slip: only jobs are waited for, not a shutdown.
WaitForJobs(w) ==
    /\ InLoop(w)
    /\ jobs = <<>>
    /\ at' = [at EXCEPT ![w] = "wait"]
    /\ idle' = idle + 1 - Counted(w)
    /\ UNCHANGED <<jobs, shutdown, hand>>

Wait(w) ==
    /\ InLoop(w)
    /\ jobs = <<>> /\ ~shutdown
    /\ at' = [at EXCEPT ![w] = "wait"]
    /\ idle' = idle + 1 - Counted(w)
    /\ UNCHANGED <<jobs, shutdown, hand>>

TakeJob(w) ==
    /\ InLoop(w)
    /\ jobs # <<>>
    /\ hand' = [hand EXCEPT ![w] = Head(jobs)]
    /\ jobs' = Tail(jobs)
    /\ at' = [at EXCEPT ![w] = "run"]
    /\ idle' = idle - Counted(w)
    /\ UNCHANGED shutdown

\* Slip: a shutdown does not wait for the queue.
LeaveAtOnce(w) ==
    /\ InLoop(w)
    /\ shutdown
    /\ at' = [at EXCEPT ![w] = "exited"]
    /\ idle' = idle - Counted(w)
    /\ UNCHANGED <<jobs, shutdown, hand>>

Leave(w) ==
    /\ InLoop(w)
    /\ shutdown /\ jobs = <<>>
    /\ at' = [at EXCEPT ![w] = "exited"]
    /\ idle' = idle - Counted(w)
    /\ UNCHANGED <<jobs, shutdown, hand>>

\* Slip: the count of idle threads is left as it was.
TimeOutUncounted(w) ==
    /\ w \in Dynamic /\ at[w] = "wait"
    /\ jobs = <<>> /\ ~shutdown
    /\ at' = [at EXCEPT ![w] = "finished"]
    /\ UNCHANGED <<jobs, idle, shutdown, hand>>

\* wait_for ends by time: with a job or a shutdown it goes on as if woken.
TimeOut(w) ==
    /\ w \in Dynamic /\ at[w] = "wait"
    /\ jobs = <<>> /\ ~shutdown
    /\ at' = [at EXCEPT ![w] = "finished"]
    /\ idle' = idle - 1
    /\ UNCHANGED <<jobs, shutdown, hand>>

\* For no reason, or at the end of a wait_for that has something to do.
WakeUp(w) ==
    /\ at[w] = "wait"
    /\ at' = [at EXCEPT ![w] = "woken"]
    /\ UNCHANGED <<jobs, idle, shutdown, hand>>

\* Slip: the worker keeps the job it has run.
FinishAndKeep(w) ==
    /\ at' = [at EXCEPT ![w] = "lock"]
    /\ UNCHANGED <<jobs, idle, shutdown, hand>>

\* fn() has returned.
FinishJob(w) ==
    /\ at' = [at EXCEPT ![w] = "lock"]
    /\ hand' = [hand EXCEPT ![w] = NoConnection]
    /\ UNCHANGED <<jobs, idle, shutdown>>

-----------------------------------------------------------------------------
(* shutdown.                                                               *)

RaiseShutdown ==
    /\ shutdown' = TRUE
    /\ UNCHANGED <<jobs, idle, at, hand>>

NotifyAll ==
    /\ at' = [w \in Workers |-> IF at[w] = "wait" THEN "woken" ELSE at[w]]
    /\ UNCHANGED <<jobs, idle, shutdown, hand>>

\* The joins of the base threads, of the dynamic ones and of those that timed
\* out; threads that are joined need not be told from ended ones any more.
JoinAll ==
    /\ \A w \in Base : at[w] = "exited"
    /\ \A w \in Dynamic : at[w] \in {"unborn", "finished", "exited"}
    /\ UNCHANGED poolVars

=============================================================================
