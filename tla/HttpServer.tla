------------------------------ MODULE HttpServer ------------------------------
(***************************************************************************)
(* The engine's HTTP server at work: the main thread in Server::listen,    *)
(* the connections it accepts, the ThreadPool that serves them, requests   *)
(* one after the other on a kept-alive connection, and a stop from another *)
(* thread at any moment. Of a request only this is kept: whether the ring  *)
(* took it (POST /api/accounts) and whether the client was told.           *)
(***************************************************************************)
EXTENDS ThreadPool

CONSTANT KeepAliveMax   \* keep_alive_max_count_

ASSUME KeepAliveAssumption == KeepAliveMax \in Nat \ {0}

VARIABLES
    lpc,        \* where listen is
    caught,     \* the connection listen has accepted and not passed on
    svrSock,    \* svr_sock_: open, closed by "stop", or "dead" and still set
    isRunning,  \* is_running_
    stopping,   \* a stop() that has read is_running_ and not yet acted
    asked,      \* history: a stop() has taken the server socket from listen
    sock,       \* the socket of each connection
    left,       \* requests each worker may still serve on its connection
    untold      \* per connection: requests in the ring and not yet answered

serverVars == <<lpc, caught, svrSock, isRunning, stopping, asked>>
connVars   == <<sock, left, untold>>
hvars      == <<poolVars, serverVars, connVars>>

Init ==
    /\ PoolInit
    /\ lpc = "bound"
    /\ caught = NoConnection
    /\ svrSock = "open"
    /\ isRunning = FALSE
    /\ stopping = FALSE
    /\ asked = FALSE
    /\ sock = [c \in Connections |-> "none"]
    /\ left = [w \in Workers |-> 0]
    /\ untold = [c \in Connections |-> 0]

-----------------------------------------------------------------------------
(* Server::listen, in the main thread.                                     *)

StartListening ==
    /\ lpc = "bound"
    /\ isRunning' = TRUE
    /\ lpc' = "accept"
    /\ UNCHANGED <<poolVars, caught, svrSock, stopping, asked, connVars>>

Accept(c) ==
    /\ lpc = "accept" /\ svrSock = "open"
    /\ sock[c] = "none"
    /\ sock' = [sock EXCEPT ![c] = "open"]
    /\ caught' = c
    /\ lpc' = "enqueue"
    /\ UNCHANGED <<poolVars, svrSock, isRunning, stopping, asked, left, untold>>

\* An error of accept that is not one of those to retry: listen closes the
\* server socket, and leaves its number in svr_sock_.
AcceptFails ==
    /\ lpc = "accept" /\ svrSock = "open"
    /\ svrSock' = "dead"
    /\ lpc' = "shutdown"
    /\ UNCHANGED <<poolVars, caught, isRunning, stopping, asked, connVars>>

SeeStopped ==
    /\ lpc = "accept" /\ svrSock = "stop"
    /\ lpc' = "shutdown"
    /\ UNCHANGED <<poolVars, caught, svrSock, isRunning, stopping, asked,
                   connVars>>

Enqueue ==
    /\ lpc = "enqueue"
    /\ PushJob(caught)
    /\ caught' = NoConnection
    /\ lpc' = "notify"
    /\ UNCHANGED <<svrSock, isRunning, stopping, asked, connVars>>

CloseRefused ==
    /\ lpc = "enqueue" /\ ~MayQueue
    /\ sock' = [sock EXCEPT ![caught] = "closed"]
    /\ caught' = NoConnection
    /\ lpc' = "accept"
    /\ UNCHANGED <<poolVars, svrSock, isRunning, stopping, asked, left, untold>>

\* Slip: the notification is forgotten.
NotifyNobody ==
    /\ lpc = "notify"
    /\ lpc' = "accept"
    /\ UNCHANGED <<poolVars, caught, svrSock, isRunning, stopping, asked,
                   connVars>>

Notify ==
    /\ lpc = "notify"
    /\ NotifyOne
    /\ lpc' = "accept"
    /\ UNCHANGED <<caught, svrSock, isRunning, stopping, asked, connVars>>

Shutdown ==
    /\ \/ lpc = "shutdown" /\ RaiseShutdown /\ lpc' = "notifyAll"
       \/ lpc = "notifyAll" /\ NotifyAll /\ lpc' = "join"
    /\ UNCHANGED <<caught, svrSock, isRunning, stopping, asked, connVars>>

Return ==
    /\ lpc = "join"
    /\ JoinAll
    /\ isRunning' = FALSE
    /\ lpc' = "returned"
    /\ UNCHANGED <<caught, svrSock, stopping, asked, connVars>>

ListenStep ==
    \/ \E c \in Connections : Accept(c)
    \/ AcceptFails \/ SeeStopped \/ Enqueue \/ CloseRefused \/ Notify
    \/ Shutdown \/ Return

-----------------------------------------------------------------------------
(* HttpServer::stop and Server::stop, in any other thread.                 *)

CallStop ==
    /\ isRunning /\ ~stopping
    /\ stopping' = TRUE
    /\ UNCHANGED <<poolVars, lpc, caught, svrSock, isRunning, asked, connVars>>

\* The exchange that takes the server socket away, and its close. The assert
\* before it is compiled out of the engine's Release build.
CloseServerSocket ==
    /\ stopping
    /\ svrSock' = "stop"
    /\ asked' = TRUE
    /\ stopping' = FALSE
    /\ UNCHANGED <<poolVars, lpc, caught, isRunning, connVars>>

-----------------------------------------------------------------------------
(* process_and_close_socket, in a worker.                                  *)

TakeConnection(w) ==
    /\ TakeJob(w)
    /\ left' = [left EXCEPT ![w] = KeepAliveMax]
    /\ UNCHANGED <<serverVars, sock, untold>>

\* keep_alive sees a request before it looks at the server socket, and
\* RingBuffer::enqueue returns a slot. The answer is yet to be written.
RingTakes(w) ==
    /\ at[w] = "run" /\ left[w] > 0
    /\ untold' = [untold EXCEPT ![hand[w]] = @ + 1]
    /\ at' = [at EXCEPT ![w] = "answer"]
    /\ UNCHANGED <<jobs, idle, shutdown, hand, serverVars, sock, left>>

\* Slip: the loop goes on although the answer could not be written.
GoOnUntold(w) ==
    /\ at[w] = "answer"
    /\ left' = [left EXCEPT ![w] = @ - 1]
    /\ at' = [at EXCEPT ![w] = "run"]
    /\ untold' \in {untold, [untold EXCEPT ![hand[w]] = @ - 1]}
    /\ UNCHANGED <<jobs, idle, shutdown, hand, serverVars, sock>>

\* 202 has been written: on to the next request, or to the end of the
\* connection if client or server said so.
Tell202(w) ==
    /\ at[w] = "answer"
    /\ untold' = [untold EXCEPT ![hand[w]] = @ - 1]
    /\ \/ left' = [left EXCEPT ![w] = @ - 1] /\ at' = [at EXCEPT ![w] = "run"]
       \/ left' = left /\ at' = [at EXCEPT ![w] = "close"]
    /\ UNCHANGED <<jobs, idle, shutdown, hand, serverVars, sock>>

\* The 202 could not be written: the connection ends here.
FailToTell(w) ==
    /\ at[w] = "answer"
    /\ at' = [at EXCEPT ![w] = "close"]
    /\ UNCHANGED <<jobs, idle, shutdown, hand, serverVars, connVars>>

\* Any other request: a full ring (429), a GET, no route (404), a bad line.
ServeOther(w) ==
    /\ at[w] = "run" /\ left[w] > 0
    /\ left' = [left EXCEPT ![w] = @ - 1]
    /\ UNCHANGED <<poolVars, serverVars, sock, untold>>

\* Slip: only a stop ends a connection that nothing comes on.
EndServingLate(w) ==
    /\ at[w] = "run" /\ svrSock = "stop"
    /\ at' = [at EXCEPT ![w] = "close"]
    /\ UNCHANGED <<jobs, idle, shutdown, hand, serverVars, connVars>>

\* The client closed, nothing came in time, the server socket is gone, an
\* answer failed, the connection was to be closed, or all requests are used.
EndServing(w) ==
    /\ at[w] = "run"
    /\ at' = [at EXCEPT ![w] = "close"]
    /\ UNCHANGED <<jobs, idle, shutdown, hand, serverVars, connVars>>

CloseConnection(w) ==
    /\ at[w] = "close"
    /\ FinishJob(w)
    /\ sock' = [sock EXCEPT ![hand[w]] = "closed"]
    /\ left' = [left EXCEPT ![w] = 0]
    /\ UNCHANGED <<serverVars, untold>>

Pooled(w) ==
    /\ Wait(w) \/ Leave(w)
    /\ UNCHANGED <<serverVars, connVars>>

WorkerStep(w) ==
    \/ Pooled(w) \/ TakeConnection(w)
    \/ RingTakes(w) \/ Tell202(w) \/ FailToTell(w) \/ ServeOther(w)
    \/ EndServing(w) \/ CloseConnection(w)

\* Time and the system wake workers up.
Disturb(w) ==
    /\ TimeOut(w) \/ WakeUp(w)
    /\ UNCHANGED <<serverVars, connVars>>

-----------------------------------------------------------------------------
Next ==
    \/ StartListening \/ ListenStep
    \/ CallStop \/ CloseServerSocket
    \/ \E w \in Workers : WorkerStep(w) \/ Disturb(w)

\* Threads run; a request ends (its reads and writes have time limits), and a
\* begun stop() goes on. Nobody need connect, and accept need not return.
Fairness ==
    /\ WF_hvars(SeeStopped \/ Enqueue \/ CloseRefused \/ Notify \/ Shutdown
                \/ Return)
    /\ WF_hvars(CloseServerSocket)
    /\ \A w \in Workers : WF_hvars(WorkerStep(w))

Spec     == Init /\ [][Next]_hvars
FairSpec == Spec /\ Fairness

-----------------------------------------------------------------------------
(* Properties.                                                             *)

Places == {"unborn", "lock", "wait", "woken", "run", "answer", "close",
           "finished", "exited"}
Serving == {"run", "answer", "close"}

\* A worker has a connection exactly while it serves one, and listen has one
\* exactly between accept and enqueue.
TypeOK ==
    /\ jobs \in Seq(Connections)
    /\ idle \in Nat
    /\ shutdown \in BOOLEAN
    /\ at \in [Workers -> Places]
    /\ hand \in [Workers -> Connections \cup {NoConnection}]
    /\ \A w \in Workers : hand[w] # NoConnection <=> at[w] \in Serving
    /\ \A w \in Base : at[w] \notin {"unborn", "finished"}
    /\ lpc \in {"bound", "accept", "enqueue", "notify", "shutdown",
                "notifyAll", "join", "returned"}
    /\ caught \in Connections \cup {NoConnection}
    /\ caught # NoConnection <=> lpc = "enqueue"
    /\ svrSock \in {"open", "stop", "dead"}
    /\ isRunning \in BOOLEAN /\ stopping \in BOOLEAN /\ asked \in BOOLEAN
    /\ sock \in [Connections -> {"none", "open", "closed"}]
    /\ left \in [Workers -> 0..KeepAliveMax]
    /\ untold \in [Connections -> Int]

\* idle_thread_count_, kept in four places of worker, is the number of threads
\* in the wait or on their way out of it: enqueue starts threads by it.
IdleIsExact == idle = Cardinality({w \in Workers : at[w] \in {"wait", "woken"}})

\* A job in the queue is never left to threads that all sleep: one of them is
\* up and will look at the queue, or enqueue has still to notify.
NoJobStranded ==
    jobs # <<>> =>
        \/ lpc = "notify"
        \/ \E w \in Workers : at[w] \in {"lock", "woken"} \cup Serving

\* Threads that timed out are joined before another is started: there are
\* never more than max_thread_count_ of them alive or waiting to be joined.
ThreadsBounded == Cardinality({w \in Workers : at[w] # "unborn"}) <= MaxThreads

\* A client that is never told about a request the ring took finds its
\* connection closed: such requests do not add up on a connection.
UntoldEndsConnection ==
    \A c \in Connections :
        /\ untold[c] \in {0, 1}
        /\ untold[c] = 1 =>
               \/ sock[c] = "closed"
               \/ \E w \in Workers : hand[w] = c /\ at[w] \in {"answer", "close"}

\* What the pool, its queue and its hand-overs amount to for a connection.
Phase(c) ==
    IF sock[c] # "open" THEN sock[c]
    ELSE IF \E w \in Workers : hand[w] = c THEN "served" ELSE "waiting"

Listening ==
    IF lpc = "bound" THEN "before"
    ELSE IF lpc = "returned" THEN "after" ELSE "during"

Service == INSTANCE ConnectionService WITH
               Connections <- Connections,
               phase       <- [c \in Connections |-> Phase(c)],
               listening   <- Listening

\* Every accepted connection is served at most once, by one worker, and closed
\* once, and listen does not return while one is open, wherever a stop falls.
ServerImplementsService == Service!Spec

\* Every connection that is accepted is closed in the end, by whom ever.
AcceptedIsClosed ==
    \A c \in Connections : sock[c] = "open" ~> sock[c] = "closed"

\* A stop that took the server socket away ends listen: with all its workers
\* joined, whatever they were doing and however late they were started.
StopEndsListen == asked ~> lpc = "returned"

=============================================================================
