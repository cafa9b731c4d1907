--------------------------- MODULE HttpServerProofs ---------------------------
(***************************************************************************)
(* Proofs about HttpServer for every set of connections, every pool, any   *)
(* queue limit and any number of requests on a connection.                 *)
(***************************************************************************)
EXTENDS HttpServer, TLAPS, FiniteSetTheorems, SequenceTheorems

Sleepers == {w \in Workers : at[w] \in {"wait", "woken"}}

LEMMA WorkersFinite == IsFiniteSet(Workers) /\ \A S \in SUBSET Workers : IsFiniteSet(S)
  BY PoolAssumption, FS_Union, FS_Subset DEF Workers

-----------------------------------------------------------------------------
(* The number of idle threads and the types.                               *)

\* A worker that writes an answer has a request left, and only a shutdown lets
\* a worker leave the loop for good.
PoolOrder ==
    /\ \A w \in Workers : at[w] = "answer" => left[w] > 0
    /\ \A w \in Workers : at[w] = "exited" => shutdown
    /\ shutdown <=> lpc \in {"notifyAll", "join", "returned"}
    /\ \A w \in Base : at[w] = "exited" => jobs = <<>>

TypeInv == TypeOK /\ IdleIsExact /\ PoolOrder

\* A worker that goes to sleep, wakes up for good or times out changes the
\* number of sleepers by one.
LEMMA SleepersCount ==
  ASSUME NEW w \in Workers, NEW S \in SUBSET Workers
  PROVE  /\ Cardinality(S) \in Nat
         /\ w \notin S => Cardinality(S \cup {w}) = Cardinality(S) + 1
         /\ w \in S => Cardinality(S \ {w}) = Cardinality(S) - 1
                       /\ Cardinality(S) \in Nat \ {0}
  <1>1. IsFiniteSet(S)
    BY WorkersFinite
  <1>2. Cardinality(S) \in Nat /\ Cardinality(S \ {w}) \in Nat
    BY <1>1, FS_CardinalityType, FS_RemoveElement
  <1>3. w \notin S => Cardinality(S \cup {w}) = Cardinality(S) + 1
    BY <1>1, FS_AddElement
  <1>4. w \in S => Cardinality(S \ {w}) = Cardinality(S) - 1
    BY <1>1, FS_RemoveElement
  <1>5. w \in S => Cardinality(S) # 0
    BY <1>1, FS_EmptySet
  <1> QED
    BY <1>2, <1>3, <1>4, <1>5

\* What the steps that leave the sleepers alone have in common.
LEMMA IdleSame ==
  ASSUME IdleIsExact, idle' = idle, Sleepers' = Sleepers
  PROVE  IdleIsExact'
  BY DEF IdleIsExact, Sleepers

LEMMA SpawnSleepers ==
  ASSUME TypeOK, Spawn
  PROVE  Sleepers' = Sleepers
  <1>1. PICK d \in Dynamic :
            /\ at[d] \in {"unborn", "finished"}
            /\ at' = [w \in Workers |->
                         IF w = d THEN "lock"
                         ELSE IF at[w] = "finished" THEN "unborn" ELSE at[w]]
    BY DEF Spawn
  <1> QED
    BY <1>1 DEF Sleepers, TypeOK, Places

LEMMA IdleStep ==
  ASSUME TypeInv, NEW w \in Workers
  PROVE  /\ Wait(w) => IdleIsExact'
         /\ TakeJob(w) \/ Leave(w) => IdleIsExact'
         /\ TimeOut(w) => IdleIsExact'
  <1> USE DEF TypeInv
  <1>1. idle = Cardinality(Sleepers)
    BY DEF IdleIsExact, Sleepers
  <1>2. Sleepers \in SUBSET Workers
    BY DEF Sleepers
  <1>3. ASSUME Wait(w) PROVE IdleIsExact'
    <2>1. CASE at[w] = "lock"
      <3>1. w \notin Sleepers /\ Sleepers' = Sleepers \cup {w}
        BY <1>3, <2>1 DEF Wait, Sleepers, TypeOK
      <3>2. idle' = idle + 1
        BY <1>3, <2>1 DEF Wait, Counted, TypeOK
      <3>3. idle' = Cardinality(Sleepers')
        BY <1>1, <1>2, <3>1, <3>2, SleepersCount
      <3> QED
        BY <3>3 DEF IdleIsExact, Sleepers
    <2>2. CASE at[w] = "woken"
      <3>1. Sleepers' = Sleepers
        BY <1>3, <2>2 DEF Wait, Sleepers, TypeOK
      <3>2. idle' = idle
        BY <1>3, <2>2 DEF Wait, Counted, TypeOK
      <3> QED
        BY <3>1, <3>2, IdleSame
    <2> QED
      BY <1>3, <2>1, <2>2 DEF Wait, InLoop
  <1>4. ASSUME TakeJob(w) \/ Leave(w) PROVE IdleIsExact'
    <2>1. CASE at[w] = "lock"
      <3>1. Sleepers' = Sleepers
        BY <1>4, <2>1 DEF TakeJob, Leave, Sleepers, TypeOK
      <3>2. idle' = idle
        BY <1>4, <2>1 DEF TakeJob, Leave, Counted, TypeOK
      <3> QED
        BY <3>1, <3>2, IdleSame
    <2>2. CASE at[w] = "woken"
      <3>1. w \in Sleepers /\ Sleepers' = Sleepers \ {w}
        BY <1>4, <2>2 DEF TakeJob, Leave, Sleepers, TypeOK
      <3>2. idle' = idle - 1
        BY <1>4, <2>2 DEF TakeJob, Leave, Counted, TypeOK
      <3>3. idle' = Cardinality(Sleepers')
        BY <1>1, <1>2, <3>1, <3>2, SleepersCount
      <3> QED
        BY <3>3 DEF IdleIsExact, Sleepers
    <2> QED
      BY <1>4, <2>1, <2>2 DEF TakeJob, Leave, InLoop
  <1>5. ASSUME TimeOut(w) PROVE IdleIsExact'
    <2>1. w \in Sleepers /\ Sleepers' = Sleepers \ {w} /\ idle' = idle - 1
      BY <1>5 DEF TimeOut, Sleepers, TypeOK
    <2>2. idle' = Cardinality(Sleepers')
      BY <1>1, <1>2, <2>1, SleepersCount
    <2> QED
      BY <2>2 DEF IdleIsExact, Sleepers
  <1> QED
    BY <1>3, <1>4, <1>5

LEMMA IdleNext == TypeInv /\ [Next]_hvars => IdleIsExact'
  <1> SUFFICES ASSUME TypeInv, [Next]_hvars PROVE IdleIsExact'
    OBVIOUS
  <1> USE DEF TypeInv
  <1>1. ASSUME UNCHANGED <<idle, at>> PROVE IdleIsExact'
    BY <1>1 DEF IdleIsExact
  <1>2. CASE StartListening \/ AcceptFails \/ SeeStopped \/ CloseRefused
             \/ Return \/ CallStop \/ CloseServerSocket
             \/ \E c \in Connections : Accept(c)
    BY <1>1, <1>2
    DEF StartListening, AcceptFails, SeeStopped, CloseRefused, Return, JoinAll,
        CallStop, CloseServerSocket, Accept, poolVars
  <1>3. CASE Enqueue
    <2>1. idle' = idle /\ (Spawn \/ at' = at)
      BY <1>3 DEF Enqueue, PushJob
    <2>2. Sleepers' = Sleepers
      BY <2>1, SpawnSleepers DEF Sleepers
    <2> QED
      BY <2>1, <2>2, IdleSame
  <1>4. CASE Notify \/ Shutdown
    <2>1. idle' = idle
      BY <1>4 DEF Notify, NotifyOne, Shutdown, RaiseShutdown, NotifyAll
    <2>2. Sleepers' = Sleepers
      BY <1>4 DEF Notify, NotifyOne, Shutdown, RaiseShutdown, NotifyAll,
                  Sleepers, TypeOK
    <2> QED
      BY <2>1, <2>2, IdleSame
  <1>5. ASSUME NEW w \in Workers,
               Pooled(w) \/ TakeConnection(w) \/ TimeOut(w)
        PROVE  IdleIsExact'
    BY <1>5, IdleStep DEF Pooled, TakeConnection
  <1>6. ASSUME NEW w \in Workers,
               RingTakes(w) \/ Tell202(w) \/ FailToTell(w) \/ EndServing(w)
                   \/ CloseConnection(w) \/ ServeOther(w) \/ WakeUp(w)
        PROVE  IdleIsExact'
    <2>1. idle' = idle
      BY <1>6 DEF RingTakes, Tell202, FailToTell, EndServing, CloseConnection,
                  FinishJob, ServeOther, WakeUp, poolVars
    <2>2. Sleepers' = Sleepers
      BY <1>6 DEF RingTakes, Tell202, FailToTell, EndServing, CloseConnection,
                  FinishJob, ServeOther, WakeUp, poolVars, Sleepers, TypeOK
    <2> QED
      BY <2>1, <2>2, IdleSame
  <1>7. CASE UNCHANGED hvars
    BY <1>1, <1>7 DEF hvars, poolVars
  <1> QED
    BY <1>2, <1>3, <1>4, <1>5, <1>6, <1>7
    DEF Next, ListenStep, WorkerStep, Disturb

\* The lists of httplib are sequences here: what push and pop do to them.
LEMMA JobsMove ==
  ASSUME TypeOK
  PROVE  /\ Len(jobs) \in Nat
         /\ jobs # <<>> => /\ Head(jobs) \in Connections
                          /\ Head(jobs) = jobs[1]
                          /\ Len(jobs) > 0
                          /\ Tail(jobs) \in Seq(Connections)
                          /\ Len(Tail(jobs)) = Len(jobs) - 1
                          /\ \A i \in 1..Len(Tail(jobs)) : Tail(jobs)[i] = jobs[i + 1]
         /\ \A c \in Connections :
                /\ Append(jobs, c) \in Seq(Connections)
                /\ Append(jobs, c) # <<>>
                /\ Len(Append(jobs, c)) = Len(jobs) + 1
                /\ \A i \in 1..Len(jobs) : Append(jobs, c)[i] = jobs[i]
                /\ Append(jobs, c)[Len(jobs) + 1] = c
  <1>1. jobs \in Seq(Connections)
    BY DEF TypeOK
  <1>2. Len(jobs) \in Nat /\ (jobs # <<>> => Len(jobs) > 0)
    BY <1>1, LenProperties, EmptySeq
  <1>3. jobs # <<>> => Head(jobs) = jobs[1]
    BY <1>1
  <1> QED
    BY <1>1, <1>2, <1>3, HeadTailProperties, AppendProperties

LEMMA TypeInit == Init => TypeInv
  <1> SUFFICES ASSUME Init PROVE TypeInv
    OBVIOUS
  <1>1. TypeOK
    <2>1. jobs \in Seq(Connections)
      BY EmptySeq DEF Init, PoolInit
    <2>2. left \in [Workers -> 0..KeepAliveMax]
      BY KeepAliveAssumption DEF Init
    <2>3. /\ at \in [Workers -> Places]
          /\ \A w \in Workers : at[w] \notin Serving
          /\ \A w \in Base : at[w] \notin {"unborn", "finished"}
      BY DEF Init, PoolInit, Places, Serving, Workers
    <2>4. untold \in [Connections -> Int]
      BY DEF Init
    <2> QED
      BY <2>1, <2>2, <2>3, <2>4 DEF Init, PoolInit, TypeOK
  <1>2. {w \in Workers : at[w] \in {"wait", "woken"}} = {}
    BY DEF Init, PoolInit
  <1>3. IdleIsExact
    BY <1>2, FS_EmptySet DEF Init, PoolInit, IdleIsExact
  <1>4. PoolOrder
    BY DEF Init, PoolInit, PoolOrder, Workers
  <1> QED
    BY <1>1, <1>3, <1>4 DEF TypeInv

LEMMA ListenTypes ==
  ASSUME TypeInv, idle' \in Nat, StartListening \/ ListenStep
  PROVE  TypeOK' /\ PoolOrder'
  <1> USE DEF TypeInv
  <1>1. CASE StartListening \/ AcceptFails \/ SeeStopped
    <2>1. /\ lpc \in {"bound", "accept"}
          /\ lpc' \in {"accept", "shutdown"}
          /\ svrSock' \in {"open", "stop", "dead"} /\ isRunning' \in BOOLEAN
          /\ UNCHANGED <<poolVars, caught, stopping, asked, connVars>>
      BY <1>1 DEF StartListening, AcceptFails, SeeStopped, TypeOK
    <2>2. TypeOK'
      BY <2>1 DEF TypeOK, poolVars, connVars
    <2>3. PoolOrder'
      BY <2>1 DEF PoolOrder, poolVars, connVars
    <2> QED
      BY <2>2, <2>3
  <1>2. ASSUME NEW c \in Connections, Accept(c) PROVE TypeOK' /\ PoolOrder'
    <2>1. TypeOK'
      BY <1>2, PoolAssumption DEF Accept, TypeOK, poolVars
    <2>2. PoolOrder'
      BY <1>2 DEF Accept, PoolOrder, poolVars
    <2> QED
      BY <2>1, <2>2
  <1>3. CASE Enqueue
    <2>1. caught \in Connections
      BY <1>3 DEF Enqueue, TypeOK
    <2>2. jobs' \in Seq(Connections)
      BY <1>3, <2>1, JobsMove DEF Enqueue, PushJob
    <2>3. /\ at' \in [Workers -> Places]
          /\ \A w \in Workers : at'[w] \in Serving <=> at[w] \in Serving
          /\ \A w \in Workers : at'[w] = "answer" => at[w] = "answer"
          /\ \A w \in Workers : at'[w] = "exited" => at[w] = "exited"
          /\ \A w \in Base : at'[w] = at[w]
      <3>1. CASE at' = at
        BY <3>1 DEF TypeOK
      <3>2. CASE Spawn
        <4>1. PICK d \in Dynamic :
                  /\ at[d] \in {"unborn", "finished"}
                  /\ at' = [w \in Workers |->
                               IF w = d THEN "lock"
                               ELSE IF at[w] = "finished" THEN "unborn"
                               ELSE at[w]]
          BY <3>2 DEF Spawn
        <4>2. d \notin Base /\ \A w \in Base : w \in Workers
          BY PoolAssumption DEF Workers
        <4> QED
          BY <4>1, <4>2 DEF TypeOK, Places, Serving
      <3> QED
        BY <1>3, <3>1, <3>2 DEF Enqueue, PushJob
    <2>4. ~shutdown /\ \A w \in Workers : at'[w] # "exited"
      BY <1>3, <2>3 DEF Enqueue, PushJob, MayQueue, PoolOrder
    <2>5. lpc = "enqueue" /\ lpc' = "notify" /\ caught' = NoConnection
      BY <1>3 DEF Enqueue
    <2>6. UNCHANGED <<shutdown, hand, svrSock, isRunning, stopping, asked,
                      sock, left, untold>>
      BY <1>3 DEF Enqueue, PushJob, connVars
    <2>7. TypeOK'
      BY <2>2, <2>3, <2>5, <2>6 DEF TypeOK
    <2>8. PoolOrder'
      BY <2>3, <2>4, <2>5, <2>6 DEF PoolOrder, Workers
    <2> QED
      BY <2>7, <2>8
  <1>4. CASE CloseRefused
    BY <1>4, PoolAssumption
    DEF CloseRefused, TypeOK, PoolOrder, poolVars
  <1>5. CASE Notify
    <2>1. lpc = "notify" /\ lpc' = "accept"
      BY <1>5 DEF Notify
    <2>2. /\ at' \in [Workers -> Places]
          /\ \A w \in Workers :
                 at'[w] = at[w] \/ (at'[w] = "woken" /\ at[w] = "wait")
      BY <1>5 DEF Notify, NotifyOne, TypeOK, Places
    <2>3. UNCHANGED <<jobs, shutdown, hand, caught, svrSock, isRunning,
                      stopping, asked, sock, left, untold>>
      BY <1>5 DEF Notify, NotifyOne, connVars
    <2>4. TypeOK'
      BY <2>1, <2>2, <2>3 DEF TypeOK, Serving, Workers
    <2>5. PoolOrder'
      BY <2>1, <2>2, <2>3 DEF PoolOrder, Workers
    <2> QED
      BY <2>4, <2>5
  <1>6. CASE Shutdown
    <2>1. CASE lpc = "shutdown" /\ RaiseShutdown /\ lpc' = "notifyAll"
      BY <1>6, <2>1 DEF Shutdown, RaiseShutdown, TypeOK, PoolOrder, connVars
    <2>2. CASE lpc = "notifyAll" /\ NotifyAll /\ lpc' = "join"
      <3>1. /\ at' \in [Workers -> Places]
            /\ \A w \in Workers :
                   at'[w] = at[w] \/ (at'[w] = "woken" /\ at[w] = "wait")
        BY <2>2 DEF NotifyAll, TypeOK, Places
      <3>2. UNCHANGED <<jobs, shutdown, hand, caught, svrSock, isRunning,
                        stopping, asked, sock, left, untold>>
        BY <1>6, <2>2 DEF Shutdown, NotifyAll, connVars
      <3>3. TypeOK'
        BY <2>2, <3>1, <3>2 DEF TypeOK, Serving, Workers
      <3>4. PoolOrder'
        BY <2>2, <3>1, <3>2 DEF PoolOrder, Workers
      <3> QED
        BY <3>3, <3>4
    <2> QED
      BY <1>6, <2>1, <2>2 DEF Shutdown
  <1>7. CASE Return
    BY <1>7 DEF Return, JoinAll, TypeOK, PoolOrder, poolVars, connVars
  <1> QED
    BY <1>1, <1>2, <1>3, <1>4, <1>5, <1>6, <1>7 DEF ListenStep

LEMMA WorkerTypes ==
  ASSUME TypeInv, idle' \in Nat, NEW w \in Workers, WorkerStep(w) \/ Disturb(w)
  PROVE  TypeOK' /\ PoolOrder'
  <1> USE DEF TypeInv
  <1>1. CASE Pooled(w)
    <2>1. UNCHANGED <<jobs, shutdown, hand, serverVars, connVars>>
      BY <1>1 DEF Pooled, Wait, Leave
    <2>2. /\ at[w] \in {"lock", "woken"} /\ jobs = <<>>
          /\ \/ at' = [at EXCEPT ![w] = "wait"]
             \/ shutdown /\ at' = [at EXCEPT ![w] = "exited"]
      BY <1>1 DEF Pooled, Wait, Leave, InLoop
    <2>3. /\ \A v \in Workers : at'[v] \in Serving <=> at[v] \in Serving
          /\ \A v \in Base : at'[v] \notin {"unborn", "finished"}
      BY <2>2 DEF TypeOK, Serving, Workers
    <2>4. at' \in [Workers -> Places]
      BY <2>2 DEF TypeOK, Places
    <2>5. TypeOK'
      BY <2>1, <2>3, <2>4 DEF TypeOK, serverVars, connVars
    <2>6. PoolOrder'
      BY <2>1, <2>2 DEF TypeOK, PoolOrder, serverVars, connVars, Workers
    <2> QED
      BY <2>5, <2>6
  <1>2. CASE TakeConnection(w)
    <2>1. jobs # <<>> /\ Head(jobs) \in Connections
      BY <1>2, JobsMove DEF TakeConnection, TakeJob
    <2>2. jobs' \in Seq(Connections)
      BY <1>2, <2>1, JobsMove DEF TakeConnection, TakeJob
    <2>3. /\ at[w] \in {"lock", "woken"}
          /\ at' = [at EXCEPT ![w] = "run"]
          /\ hand' = [hand EXCEPT ![w] = Head(jobs)]
          /\ left' = [left EXCEPT ![w] = KeepAliveMax]
          /\ UNCHANGED <<shutdown, serverVars, sock, untold>>
      BY <1>2 DEF TakeConnection, TakeJob, InLoop
    <2>4. \A v \in Base : at[v] # "exited"
      BY <2>1 DEF PoolOrder
    <2>5. TypeOK'
      BY <2>1, <2>2, <2>3, KeepAliveAssumption, PoolAssumption
      DEF TypeOK, Places, Serving, serverVars, Workers
    <2>6. PoolOrder'
      BY <2>3, <2>4 DEF TypeOK, PoolOrder, serverVars, Workers
    <2> QED
      BY <2>5, <2>6
  <1>3. CASE RingTakes(w)
    <2>1. hand[w] \in Connections
      BY <1>3 DEF RingTakes, TypeOK, Serving
    <2> QED
      BY <1>3, <2>1 DEF RingTakes, TypeOK, PoolOrder, Places, Serving,
                        serverVars, Workers
  <1>4. CASE FailToTell(w) \/ EndServing(w)
    <2>1. /\ at[w] \in {"run", "answer"}
          /\ at' = [at EXCEPT ![w] = "close"]
          /\ UNCHANGED <<jobs, shutdown, hand, serverVars, connVars>>
      BY <1>4 DEF FailToTell, EndServing
    <2>2. TypeOK'
      BY <2>1 DEF TypeOK, Places, Serving, serverVars, connVars, Workers
    <2>3. PoolOrder'
      BY <2>1 DEF TypeOK, PoolOrder, serverVars, connVars, Workers
    <2> QED
      BY <2>2, <2>3
  <1>5. CASE ServeOther(w)
    <2>1. /\ at[w] = "run" /\ left[w] > 0
          /\ left' = [left EXCEPT ![w] = @ - 1]
          /\ UNCHANGED <<poolVars, serverVars, sock, untold>>
      BY <1>5 DEF ServeOther
    <2>2. left' \in [Workers -> 0..KeepAliveMax]
      BY <2>1, KeepAliveAssumption DEF TypeOK
    <2>3. TypeOK'
      BY <2>1, <2>2 DEF TypeOK, poolVars, serverVars
    <2>4. PoolOrder'
      BY <2>1 DEF TypeOK, PoolOrder, poolVars, serverVars
    <2> QED
      BY <2>3, <2>4
  <1>6. CASE CloseConnection(w)
    <2>1. hand[w] \in Connections
      BY <1>6 DEF CloseConnection, TypeOK, Serving
    <2>2. /\ at[w] = "close"
          /\ at' = [at EXCEPT ![w] = "lock"]
          /\ hand' = [hand EXCEPT ![w] = NoConnection]
          /\ left' = [left EXCEPT ![w] = 0]
          /\ sock' = [sock EXCEPT ![hand[w]] = "closed"]
          /\ UNCHANGED <<jobs, shutdown, serverVars, untold>>
      BY <1>6 DEF CloseConnection, FinishJob
    <2>3. /\ at' \in [Workers -> Places]
          /\ left' \in [Workers -> 0..KeepAliveMax]
      BY <2>2, KeepAliveAssumption DEF TypeOK, Places
    <2>4. TypeOK'
      BY <2>1, <2>2, <2>3 DEF TypeOK, Serving, serverVars
    <2>5. PoolOrder'
      BY <2>2 DEF TypeOK, PoolOrder, serverVars, Workers
    <2> QED
      BY <2>4, <2>5
  <1>7. CASE Disturb(w)
    <2>1. /\ at[w] = "wait"
          /\ \/ w \notin Base /\ at' = [at EXCEPT ![w] = "finished"]
             \/ at' = [at EXCEPT ![w] = "woken"]
          /\ UNCHANGED <<jobs, shutdown, hand, serverVars, connVars>>
      BY <1>7, PoolAssumption DEF Disturb, TimeOut, WakeUp
    <2>2. /\ at' \in [Workers -> Places]
          /\ \A v \in Workers : at'[v] \in Serving <=> at[v] \in Serving
          /\ \A v \in Base : at'[v] \notin {"unborn", "finished"}
      BY <2>1 DEF TypeOK, Places, Serving, Workers
    <2>3. TypeOK'
      BY <2>1, <2>2 DEF TypeOK, serverVars, connVars
    <2>4. PoolOrder'
      BY <2>1 DEF TypeOK, PoolOrder, serverVars, connVars, Workers
    <2> QED
      BY <2>3, <2>4
  <1>8. CASE Tell202(w)
    <2>1. hand[w] \in Connections
      BY <1>8 DEF Tell202, TypeOK, Serving
    <2>2. left[w] > 0
      BY <1>8 DEF Tell202, PoolOrder
    <2>3. /\ at[w] = "answer"
          /\ untold' = [untold EXCEPT ![hand[w]] = @ - 1]
          /\ \/ /\ left' = [left EXCEPT ![w] = @ - 1]
                /\ at' = [at EXCEPT ![w] = "run"]
             \/ left' = left /\ at' = [at EXCEPT ![w] = "close"]
          /\ UNCHANGED <<jobs, shutdown, hand, serverVars, sock>>
      BY <1>8 DEF Tell202
    <2>4. left' \in [Workers -> 0..KeepAliveMax]
      <3>1. left \in [Workers -> 0..KeepAliveMax] /\ KeepAliveMax \in Nat
        BY KeepAliveAssumption DEF TypeOK
      <3>2. left[w] - 1 \in 0..KeepAliveMax
        BY <2>2, <3>1
      <3> QED
        BY <2>3, <3>1, <3>2
    <2>5. untold' \in [Connections -> Int]
      BY <2>1, <2>3 DEF TypeOK
    <2>6. /\ at' \in [Workers -> Places]
          /\ \A v \in Workers : at'[v] \in Serving <=> at[v] \in Serving
          /\ \A v \in Base : at'[v] \notin {"unborn", "finished"}
      BY <2>3 DEF TypeOK, Places, Serving, Workers
    <2>7. TypeOK'
      BY <2>3, <2>4, <2>5, <2>6 DEF TypeOK, serverVars
    <2>8. PoolOrder'
      BY <2>3 DEF TypeOK, PoolOrder, serverVars, Workers
    <2> QED
      BY <2>7, <2>8
  <1> QED
    BY <1>1, <1>2, <1>3, <1>4, <1>5, <1>6, <1>7, <1>8 DEF WorkerStep

LEMMA TypeNext == TypeInv /\ [Next]_hvars => TypeInv'
  <1> SUFFICES ASSUME TypeInv, [Next]_hvars PROVE TypeInv'
    OBVIOUS
  <1>1. IdleIsExact'
    BY IdleNext
  <1>2. idle' \in Nat
    <2>1. {w \in Workers : at'[w] \in {"wait", "woken"}} \in SUBSET Workers
      OBVIOUS
    <2> QED
      BY <1>1, <2>1, WorkersFinite, FS_CardinalityType DEF IdleIsExact
  <1>3. CASE StartListening \/ ListenStep
    BY <1>1, <1>2, <1>3, ListenTypes DEF TypeInv
  <1>4. CASE CallStop \/ CloseServerSocket
    <2>1. /\ UNCHANGED <<poolVars, lpc, caught, isRunning, connVars>>
          /\ svrSock' \in {"open", "stop", "dead"}
          /\ stopping' \in BOOLEAN /\ asked' \in BOOLEAN
      BY <1>4 DEF CallStop, CloseServerSocket, TypeInv, TypeOK
    <2>2. TypeOK'
      BY <1>2, <2>1 DEF TypeInv, TypeOK, poolVars, connVars
    <2>3. PoolOrder'
      BY <2>1 DEF TypeInv, PoolOrder, poolVars, connVars
    <2> QED
      BY <1>1, <2>2, <2>3 DEF TypeInv
  <1>5. ASSUME NEW w \in Workers, WorkerStep(w) \/ Disturb(w) PROVE TypeInv'
    BY <1>1, <1>2, <1>5, WorkerTypes DEF TypeInv
  <1>6. CASE UNCHANGED hvars
    BY <1>1, <1>6
    DEF hvars, poolVars, serverVars, connVars, TypeInv, TypeOK, PoolOrder
  <1> QED
    BY <1>3, <1>4, <1>5, <1>6 DEF Next

\* The types of the server hold in every state.
THEOREM ServerTyped == Spec => []TypeOK
  BY TypeInit, TypeNext, PTL DEF Spec, TypeInv

\* idle_thread_count_ is exact, for any number of threads and time-outs.
THEOREM IdleCountIsExact == Spec => []IdleIsExact
  BY TypeInit, TypeNext, PTL DEF Spec, TypeInv

-----------------------------------------------------------------------------
(* Wake-ups and threads.                                                   *)

Up == {w \in Workers : at[w] \in {"lock", "woken"} \cup Serving}

\* Some base worker is up, or sleeps, or has left after a shutdown.
LEMMA SomebodyThere ==
  ASSUME TypeInv, ~shutdown, ~\E w \in Workers : at[w] = "wait"
  PROVE  Up # {}
  <1>1. PICK b \in Base : b \in Workers
    BY PoolAssumption DEF Workers
  <1>2. at[b] \in Places \ {"unborn", "finished", "exited", "wait"}
    BY <1>1 DEF TypeInv, TypeOK, PoolOrder
  <1> QED
    BY <1>1, <1>2 DEF Up, Places, Serving

LEMMA StrandedNext == TypeInv /\ NoJobStranded /\ [Next]_hvars => NoJobStranded'
  <1> SUFFICES ASSUME TypeInv, NoJobStranded, [Next]_hvars,
                      jobs' # <<>>, lpc' # "notify"
               PROVE  Up' # {}
    BY DEF NoJobStranded, Up
  <1> USE DEF TypeInv
  <1>1. ASSUME UNCHANGED <<jobs, at>>, lpc # "notify" PROVE Up' # {}
    BY <1>1 DEF NoJobStranded, Up
  <1>2. CASE StartListening \/ AcceptFails \/ SeeStopped \/ CloseRefused
             \/ Return \/ \E c \in Connections : Accept(c)
    <2>1. UNCHANGED <<jobs, at>> /\ lpc # "notify"
      BY <1>2 DEF StartListening, AcceptFails, SeeStopped, CloseRefused,
                  Return, JoinAll, Accept, poolVars
    <2> QED
      BY <1>1, <2>1
  <1>3. CASE CallStop \/ CloseServerSocket
    <2>1. UNCHANGED <<jobs, at, lpc>>
      BY <1>3 DEF CallStop, CloseServerSocket, poolVars
    <2> QED
      BY <1>1, <2>1
  <1>4. CASE Enqueue
    BY <1>4 DEF Enqueue
  <1>5. CASE Notify
    <2>1. ~shutdown /\ jobs' = jobs /\ at \in [Workers -> Places]
      BY <1>5 DEF Notify, NotifyOne, PoolOrder, TypeOK
    <2>2. CASE \E w \in Workers : at[w] = "wait"
      <3>1. PICK w \in Workers : at' = [at EXCEPT ![w] = "woken"]
        BY <1>5, <2>2 DEF Notify, NotifyOne
      <3>2. w \in Up'
        BY <2>1, <3>1 DEF Up
      <3> QED
        BY <3>2
    <2>3. CASE ~\E w \in Workers : at[w] = "wait"
      <3>1. at' = at /\ Up # {}
        BY <1>5, <2>1, <2>3, SomebodyThere DEF Notify, NotifyOne
      <3> QED
        BY <3>1 DEF Up
    <2> QED
      BY <2>2, <2>3
  <1>6. CASE Shutdown
    <2>1. jobs' = jobs /\ lpc # "notify"
      BY <1>6 DEF Shutdown, RaiseShutdown, NotifyAll
    <2>2. PICK w \in Workers : at[w] \in {"lock", "woken"} \cup Serving
      BY <2>1 DEF NoJobStranded
    <2>3. at'[w] = at[w]
      BY <1>6, <2>2 DEF Shutdown, RaiseShutdown, NotifyAll, TypeOK, Serving
    <2> QED
      BY <2>2, <2>3 DEF Up
  <1>7. ASSUME NEW w \in Workers, Pooled(w) \/ Disturb(w) PROVE Up' # {}
    <2>1. CASE jobs = <<>>
      BY <1>7, <2>1 DEF Pooled, Wait, Leave, Disturb, TimeOut, WakeUp
    <2>2. CASE jobs # <<>>
      <3>1. at' = [at EXCEPT ![w] = "woken"]
        BY <1>7, <2>2 DEF Pooled, Wait, Leave, Disturb, TimeOut, WakeUp
      <3>2. w \in Up'
        BY <3>1 DEF Up, TypeOK
      <3> QED
        BY <3>2
    <2> QED
      BY <2>1, <2>2
  <1>8. ASSUME NEW w \in Workers,
               TakeConnection(w) \/ RingTakes(w) \/ Tell202(w)
                   \/ FailToTell(w) \/ ServeOther(w) \/ EndServing(w)
                   \/ CloseConnection(w)
        PROVE  Up' # {}
    <2>1. at'[w] \in {"lock", "woken"} \cup Serving
      BY <1>8 DEF TakeConnection, TakeJob, RingTakes, Tell202, FailToTell,
                  ServeOther, EndServing, CloseConnection, FinishJob,
                  poolVars, TypeOK, Serving
    <2> QED
      BY <2>1 DEF Up
  <1>9. CASE UNCHANGED hvars
    <2>1. UNCHANGED <<jobs, at, lpc>>
      BY <1>9 DEF hvars, poolVars, serverVars
    <2> QED
      BY <1>1, <2>1
  <1> QED
    BY <1>2, <1>3, <1>4, <1>5, <1>6, <1>7, <1>8, <1>9
    DEF Next, ListenStep, WorkerStep

\* No wake-up of the pool is lost, although enqueue notifies after it has let
\* go of the mutex and any thread may wake up by itself.
THEOREM NoWakeUpLost == Spec => []NoJobStranded
  <1>1. Init => NoJobStranded
    BY DEF Init, PoolInit, NoJobStranded
  <1> QED
    BY <1>1, TypeInit, TypeNext, StrandedNext, PTL DEF Spec

Threads == {w \in Workers : at[w] # "unborn"}

\* A worker moves, and neither starts nor is joined.
LEMMA ThreadsSame ==
  ASSUME ThreadsBounded, Threads' = Threads
  PROVE  ThreadsBounded'
  BY DEF ThreadsBounded, Threads

\* A finite set grows by at most one.
LEMMA AddOne ==
  ASSUME NEW S, IsFiniteSet(S), NEW e
  PROVE  /\ Cardinality(S) \in Nat
         /\ Cardinality(S \cup {e}) \in Nat
         /\ Cardinality(S \cup {e}) <= Cardinality(S) + 1
  <1> DEFINE before == Cardinality(S)
             after  == Cardinality(S \cup {e})
  <1>1. before \in Nat
    BY FS_CardinalityType
  <1>2. after = before \/ after = before + 1
    <2>1. CASE e \in S
      <3>1. S \cup {e} = S
        BY <2>1
      <3> QED
        BY <3>1
    <2>2. CASE e \notin S
      BY <2>2, FS_AddElement
    <2> QED
      BY <2>1, <2>2
  <1> HIDE DEF before, after
  <1>3. after \in Nat /\ after <= before + 1
    BY <1>1, <1>2
  <1> QED
    BY <1>1, <1>3 DEF before, after

LEMMA ThreadsNext ==
  TypeInv /\ ThreadsBounded /\ [Next]_hvars => ThreadsBounded'
  <1> SUFFICES ASSUME TypeInv, ThreadsBounded, [Next]_hvars
               PROVE  ThreadsBounded'
    OBVIOUS
  <1> USE DEF TypeInv
  <1>1. ASSUME Spawn, NeedsThread PROVE ThreadsBounded'
    <2>1. PICK d \in Dynamic :
              /\ at[d] \in {"unborn", "finished"}
              /\ at' = [w \in Workers |->
                           IF w = d THEN "lock"
                           ELSE IF at[w] = "finished" THEN "unborn" ELSE at[w]]
      BY <1>1 DEF Spawn
    <2> DEFINE Old == Base \cup DynamicThreads
    <2>2. Threads' = Old \cup {d}
      BY <2>1, PoolAssumption
      DEF Threads, Workers, DynamicThreads, TypeOK, Places
    <2>3. DynamicThreads \in SUBSET Dynamic /\ Base \cap DynamicThreads = {}
      BY PoolAssumption DEF DynamicThreads
    <2>4. IsFiniteSet(DynamicThreads) /\ IsFiniteSet(Base)
      BY <2>3, PoolAssumption, FS_Subset
    <2>5. /\ IsFiniteSet(Old)
          /\ Cardinality(Old) = Cardinality(Base) + Cardinality(DynamicThreads)
      <3>1. Cardinality(Base \cap DynamicThreads) = 0
        BY <2>3, FS_EmptySet
      <3>2. /\ IsFiniteSet(Old)
            /\ Cardinality(Old) = Cardinality(Base) + Cardinality(DynamicThreads)
                                  - Cardinality(Base \cap DynamicThreads)
        BY <2>4, FS_Union
      <3>3. Cardinality(Base) \in Nat /\ Cardinality(DynamicThreads) \in Nat
        BY <2>4, FS_CardinalityType
      <3> HIDE DEF Old
      <3> QED
        BY <3>1, <3>2, <3>3
    <2>6. /\ Cardinality(Old) \in Nat
          /\ Cardinality(Old \cup {d}) \in Nat
          /\ Cardinality(Old \cup {d}) <= Cardinality(Old) + 1
      BY <2>5, AddOne
    <2>7. Cardinality(Old) < MaxThreads
      BY <1>1, <2>5 DEF NeedsThread
    <2>8. MaxThreads \in Int
      BY PoolAssumption, FS_CardinalityType
    <2>9. Cardinality(Old \cup {d}) <= MaxThreads
      BY <2>6, <2>7, <2>8
    <2> QED
      BY <2>2, <2>9 DEF ThreadsBounded, Threads
  <1>2. ASSUME at' = at PROVE ThreadsBounded'
    BY <1>2, ThreadsSame DEF Threads
  <1>3. CASE StartListening \/ AcceptFails \/ SeeStopped \/ CloseRefused
             \/ Return \/ CallStop \/ CloseServerSocket
             \/ \E c \in Connections : Accept(c)
    BY <1>2, <1>3
    DEF StartListening, AcceptFails, SeeStopped, CloseRefused, Return, JoinAll,
        CallStop, CloseServerSocket, Accept, poolVars
  <1>4. CASE Enqueue
    BY <1>1, <1>2, <1>4 DEF Enqueue, PushJob
  <1>5. CASE Notify \/ Shutdown
    <2>1. Threads' = Threads
      BY <1>5 DEF Notify, NotifyOne, Shutdown, RaiseShutdown, NotifyAll,
                  Threads, TypeOK
    <2> QED
      BY <2>1, ThreadsSame
  <1>6. ASSUME NEW w \in Workers, WorkerStep(w) \/ Disturb(w)
        PROVE  ThreadsBounded'
    <2>1. /\ at[w] # "unborn" /\ at'[w] # "unborn"
          /\ \A v \in Workers : v # w => at'[v] = at[v]
      BY <1>6 DEF WorkerStep, Disturb, Pooled, Wait, Leave, InLoop, TimeOut,
                  WakeUp, TakeConnection, TakeJob, RingTakes, Tell202,
                  FailToTell, ServeOther, EndServing, CloseConnection,
                  FinishJob, poolVars, TypeOK
    <2>2. Threads' = Threads
      BY <2>1 DEF Threads
    <2> QED
      BY <2>2, ThreadsSame
  <1>7. CASE UNCHANGED hvars
    BY <1>2, <1>7 DEF hvars, poolVars
  <1> QED
    BY <1>3, <1>4, <1>5, <1>6, <1>7 DEF Next, ListenStep

\* Alive or waiting to be joined, there are never more threads than allowed.
THEOREM PoolStaysBounded == Spec => []ThreadsBounded
  <1>1. ASSUME Init PROVE ThreadsBounded
    <2>1. Threads = Base
      BY <1>1, PoolAssumption DEF Init, PoolInit, Threads, Workers
    <2>2. Cardinality(Base) <= MaxThreads
      BY PoolAssumption, FS_CardinalityType
    <2> QED
      BY <2>1, <2>2 DEF ThreadsBounded, Threads
  <1> QED
    BY <1>1, TypeInit, TypeNext, ThreadsNext, PTL DEF Spec

-----------------------------------------------------------------------------
(* Who holds a connection.                                                 *)

Queued(c) == \E i \in 1..Len(jobs) : jobs[i] = c
Held(c)   == \E w \in Workers : hand[w] = c

\* An open connection is in exactly one place: with listen, in the queue or
\* with one worker.
OneOwner ==
    /\ \A v, w \in Workers : hand[v] = hand[w] /\ hand[v] # NoConnection => v = w
    /\ \A i, j \in 1..Len(jobs) : jobs[i] = jobs[j] => i = j
    /\ \A c \in Connections : Queued(c) => ~Held(c)
    /\ \A c \in Connections : caught = c => ~Queued(c) /\ ~Held(c)
    /\ \A c \in Connections :
           sock[c] = "open" <=> caught = c \/ Queued(c) \/ Held(c)

OwnerInv == TypeInv /\ OneOwner

LEMMA OwnerSame ==
  ASSUME OneOwner, UNCHANGED <<jobs, hand, caught, sock>>
  PROVE  OneOwner'
  BY DEF OneOwner, Queued, Held

\* What the steps that move a connection do to the places it may be in.
LEMMA EnqueueMoves ==
  ASSUME TypeInv, Enqueue
  PROVE  /\ caught \in Connections
         /\ \A c \in Connections : Queued(c)' <=> Queued(c) \/ c = caught
         /\ \A c \in Connections : Held(c)' <=> Held(c)
         /\ OneOwner => \A i, j \in 1..Len(jobs') : jobs'[i] = jobs'[j] => i = j
  <1>1. caught \in Connections
    BY DEF Enqueue, TypeInv, TypeOK
  <1>2. /\ jobs' = Append(jobs, caught) /\ hand' = hand
    BY DEF Enqueue, PushJob
  <1>3. /\ Len(jobs) \in Nat /\ Len(jobs') = Len(jobs) + 1
        /\ \A i \in 1..Len(jobs) : jobs'[i] = jobs[i]
        /\ jobs'[Len(jobs) + 1] = caught
    BY <1>1, <1>2, JobsMove DEF TypeInv
  <1>4. \A i \in 1..Len(jobs') : i \in 1..Len(jobs) \/ i = Len(jobs) + 1
    BY <1>3
  <1>5. \A c \in Connections : Queued(c)' <=> Queued(c) \/ c = caught
    <2>1. ASSUME NEW c \in Connections, Queued(c)' PROVE Queued(c) \/ c = caught
      BY <2>1, <1>3, <1>4 DEF Queued
    <2>2. ASSUME NEW c \in Connections, Queued(c) PROVE Queued(c)'
      BY <2>2, <1>3 DEF Queued
    <2>3. ASSUME NEW c \in Connections, c = caught PROVE Queued(c)'
      <3>1. Len(jobs) + 1 \in 1..Len(jobs')
        BY <1>3
      <3>2. jobs'[Len(jobs) + 1] = c
        BY <2>3, <1>3
      <3> QED
        BY <3>1, <3>2 DEF Queued
    <2> QED
      BY <2>1, <2>2, <2>3
  <1>6. ASSUME OneOwner, NEW i \in 1..Len(jobs'), NEW j \in 1..Len(jobs'),
               jobs'[i] = jobs'[j]
        PROVE  i = j
    <2>1. ~\E k \in 1..Len(jobs) : jobs[k] = caught
      BY <1>1, <1>6 DEF OneOwner, Queued
    <2> QED
      BY <1>3, <1>4, <1>6, <2>1 DEF OneOwner
  <1> QED
    BY <1>1, <1>2, <1>5, <1>6 DEF Held

LEMMA TakeMoves ==
  ASSUME OwnerInv, NEW w \in Workers, TakeConnection(w)
  PROVE  \E d \in Connections :
         /\ Queued(d) /\ ~Held(d)
         /\ hand' = [hand EXCEPT ![w] = d] /\ hand[w] = NoConnection
         /\ at' = [at EXCEPT ![w] = "run"] /\ at[w] \in {"lock", "woken"}
         /\ \A c \in Connections : Queued(c)' <=> Queued(c) /\ c # d
         /\ \A c \in Connections : Held(c)' <=> Held(c) \/ c = d
         /\ \A i, j \in 1..Len(jobs') : jobs'[i] = jobs'[j] => i = j
         /\ UNCHANGED <<serverVars, sock, untold>>
  <1> DEFINE d == jobs[1]
  <1> USE DEF OwnerInv
  <1>1. jobs # <<>> /\ jobs' = Tail(jobs) /\ d \in Connections
        /\ hand' = [hand EXCEPT ![w] = d] /\ at' = [at EXCEPT ![w] = "run"]
        /\ at[w] \in {"lock", "woken"}
    BY JobsMove DEF TakeConnection, TakeJob, InLoop, TypeInv
  <1>2. /\ Len(jobs) \in Nat /\ Len(jobs) > 0 /\ Len(jobs') = Len(jobs) - 1
        /\ \A i \in 1..Len(jobs') : jobs'[i] = jobs[i + 1]
    BY <1>1, JobsMove DEF TypeInv
  <1>3. Queued(d) /\ ~Held(d)
    BY <1>1, <1>2 DEF OneOwner, Queued
  <1>4. hand[w] = NoConnection
    BY <1>1 DEF TypeInv, TypeOK, Serving
  <1>5. \A i \in 1..Len(jobs') : i + 1 \in 1..Len(jobs) /\ i + 1 # 1
    BY <1>2
  <1>6. \A i \in 1..Len(jobs) : i # 1 => i - 1 \in 1..Len(jobs') /\ (i - 1) + 1 = i
    BY <1>2
  <1>7. \A i, j \in 1..Len(jobs') : jobs'[i] = jobs'[j] => i = j
    <2>1. ASSUME NEW i \in 1..Len(jobs'), NEW j \in 1..Len(jobs'),
                 jobs'[i] = jobs'[j]
          PROVE  i = j
      <3>1. jobs[i + 1] = jobs[j + 1]
        BY <2>1, <1>2
      <3>2. i + 1 = j + 1
        BY <3>1, <1>5 DEF OneOwner
      <3> QED
        BY <3>2
    <2> QED
      BY <2>1
  <1>8. ASSUME NEW c \in Connections PROVE Queued(c)' <=> Queued(c) /\ c # d
    <2>1. ASSUME Queued(c)' PROVE Queued(c) /\ c # d
      <3>1. PICK i \in 1..Len(jobs') : jobs'[i] = c
        BY <2>1 DEF Queued
      <3>2. jobs[i + 1] = c /\ i + 1 \in 1..Len(jobs) /\ i + 1 # 1
        BY <3>1, <1>2, <1>5
      <3>3. 1 \in 1..Len(jobs)
        BY <1>2
      <3> QED
        BY <3>2, <3>3 DEF Queued, OneOwner
    <2>2. ASSUME Queued(c), c # d PROVE Queued(c)'
      <3>1. PICK i \in 1..Len(jobs) : jobs[i] = c
        BY <2>2 DEF Queued
      <3>2. i # 1
        BY <2>2, <3>1
      <3>3. i - 1 \in 1..Len(jobs') /\ jobs'[i - 1] = c
        BY <3>1, <3>2, <1>2, <1>6
      <3> QED
        BY <3>3 DEF Queued
    <2> QED
      BY <2>1, <2>2
  <1>9. ASSUME NEW c \in Connections PROVE Held(c)' <=> Held(c) \/ c = d
    BY <1>1, <1>4, PoolAssumption DEF Held, TypeInv, TypeOK
  <1>10. UNCHANGED <<serverVars, sock, untold>>
    BY DEF TakeConnection
  <1> HIDE DEF d
  <1> QED
    BY <1>1, <1>3, <1>4, <1>7, <1>8, <1>9, <1>10

LEMMA OwnerNext == OwnerInv /\ [Next]_hvars => OneOwner'
  <1> SUFFICES ASSUME OwnerInv, [Next]_hvars PROVE OneOwner'
    OBVIOUS
  <1> USE DEF OwnerInv
  <1>1. ASSUME NEW c \in Connections, Accept(c) PROVE OneOwner'
    <2>1. /\ caught = NoConnection /\ caught' = c /\ c # NoConnection
          /\ sock' = [sock EXCEPT ![c] = "open"] /\ sock[c] = "none"
          /\ UNCHANGED <<jobs, hand>>
      BY <1>1, PoolAssumption DEF Accept, TypeInv, TypeOK, poolVars
    <2>2. ~Queued(c) /\ ~Held(c)
      BY <2>1 DEF OneOwner
    <2>3. \A d \in Connections :
              sock'[d] = "open" <=> caught' = d \/ Queued(d) \/ Held(d)
      BY <2>1, PoolAssumption DEF OneOwner, TypeInv, TypeOK
    <2> QED
      BY <2>1, <2>2, <2>3 DEF OneOwner, Queued, Held
  <1>2. CASE Enqueue
    <2>1. /\ caught' = NoConnection /\ UNCHANGED <<hand, sock>>
      BY <1>2 DEF Enqueue, PushJob, connVars
    <2>2. \A c \in Connections : Held(c)' <=> Held(c)
      BY <1>2, EnqueueMoves
    <2>3. \A c \in Connections : Queued(c)' <=> Queued(c) \/ c = caught
      BY <1>2, EnqueueMoves
    <2>4. \A i, j \in 1..Len(jobs') : jobs'[i] = jobs'[j] => i = j
      BY <1>2, EnqueueMoves
    <2>5. \A c \in Connections : caught' # c
      BY <2>1, PoolAssumption
    <2>6. \A c \in Connections : Queued(c)' => ~Held(c)'
      BY <2>2, <2>3 DEF OneOwner
    <2>7. \A c \in Connections :
              sock'[c] = "open" <=> caught' = c \/ Queued(c)' \/ Held(c)'
      BY <2>1, <2>2, <2>3, <2>5 DEF OneOwner
    <2>8. \A v, w \in Workers :
              hand'[v] = hand'[w] /\ hand'[v] # NoConnection => v = w
      BY <2>1 DEF OneOwner
    <2> QED
      BY <2>4, <2>5, <2>6, <2>7, <2>8 DEF OneOwner
  <1>3. CASE CloseRefused
    <2>1. /\ caught \in Connections /\ caught' = NoConnection
          /\ sock' = [sock EXCEPT ![caught] = "closed"]
          /\ UNCHANGED <<jobs, hand>>
      BY <1>3 DEF CloseRefused, TypeInv, TypeOK, poolVars
    <2>2. \A d \in Connections :
              sock'[d] = "open" <=> caught' = d \/ Queued(d) \/ Held(d)
      BY <2>1, PoolAssumption DEF OneOwner, TypeInv, TypeOK
    <2> QED
      BY <2>1, <2>2, PoolAssumption DEF OneOwner, Queued, Held
  <1>4. CASE StartListening \/ AcceptFails \/ SeeStopped \/ Notify \/ Shutdown
             \/ Return \/ CallStop \/ CloseServerSocket
    <2>1. UNCHANGED <<jobs, hand, caught, sock>>
      BY <1>4 DEF StartListening, AcceptFails, SeeStopped, Notify, NotifyOne,
                  Shutdown, RaiseShutdown, NotifyAll, Return, JoinAll,
                  CallStop, CloseServerSocket, poolVars, connVars
    <2> QED
      BY <2>1, OwnerSame
  <1>5. ASSUME NEW w \in Workers, TakeConnection(w) PROVE OneOwner'
    <2>1. PICK d \in Connections :
             /\ Queued(d) /\ ~Held(d)
             /\ hand' = [hand EXCEPT ![w] = d] /\ hand[w] = NoConnection
             /\ \A c \in Connections : Queued(c)' <=> Queued(c) /\ c # d
             /\ \A c \in Connections : Held(c)' <=> Held(c) \/ c = d
             /\ \A i, j \in 1..Len(jobs') : jobs'[i] = jobs'[j] => i = j
             /\ UNCHANGED <<serverVars, sock, untold>>
      BY <1>5, TakeMoves
    <2>2. \A v, u \in Workers :
              hand'[v] = hand'[u] /\ hand'[v] # NoConnection => v = u
      BY <2>1 DEF OneOwner, Held, TypeInv, TypeOK
    <2>3. UNCHANGED <<caught, sock>>
      BY <2>1 DEF serverVars
    <2>4. \A c \in Connections : Queued(c)' => ~Held(c)'
      BY <2>1 DEF OneOwner
    <2>5. \A c \in Connections : caught' = c => ~Queued(c)' /\ ~Held(c)'
      BY <2>1, <2>3 DEF OneOwner
    <2>6. \A c \in Connections :
              sock'[c] = "open" <=> caught' = c \/ Queued(c)' \/ Held(c)'
      BY <2>1, <2>3 DEF OneOwner
    <2> QED
      BY <2>1, <2>2, <2>4, <2>5, <2>6 DEF OneOwner
  <1>6. ASSUME NEW w \in Workers, CloseConnection(w) PROVE OneOwner'
    <2>1. /\ hand[w] \in Connections
          /\ hand' = [hand EXCEPT ![w] = NoConnection]
          /\ sock' = [sock EXCEPT ![hand[w]] = "closed"]
          /\ UNCHANGED <<jobs, caught>>
      BY <1>6 DEF CloseConnection, FinishJob, TypeInv, TypeOK, Serving,
                  serverVars
    <2>2. \A c \in Connections : Held(c)' <=> Held(c) /\ c # hand[w]
      BY <2>1, PoolAssumption DEF Held, OneOwner, TypeInv, TypeOK
    <2>3. Held(hand[w])
      BY DEF Held
    <2>4. ~Queued(hand[w]) /\ caught # hand[w]
      BY <2>1, <2>3 DEF OneOwner
    <2>5. \A c \in Connections : Queued(c)' <=> Queued(c)
      BY <2>1 DEF Queued
    <2>6. \A c \in Connections :
              sock'[c] = "open" <=> caught' = c \/ Queued(c)' \/ Held(c)'
      BY <2>1, <2>2, <2>4, <2>5 DEF OneOwner, TypeInv, TypeOK
    <2>7. \A v, u \in Workers :
              hand'[v] = hand'[u] /\ hand'[v] # NoConnection => v = u
      BY <2>1 DEF OneOwner, TypeInv, TypeOK
    <2> QED
      BY <2>1, <2>2, <2>5, <2>6, <2>7 DEF OneOwner
  <1>7. ASSUME NEW w \in Workers,
               Pooled(w) \/ RingTakes(w) \/ Tell202(w) \/ FailToTell(w)
                   \/ ServeOther(w) \/ EndServing(w) \/ Disturb(w)
        PROVE  OneOwner'
    <2>1. UNCHANGED <<jobs, hand, caught, sock>>
      BY <1>7 DEF Pooled, Wait, Leave, RingTakes, Tell202, FailToTell,
                  ServeOther, EndServing, Disturb, TimeOut, WakeUp, poolVars,
                  serverVars, connVars
    <2> QED
      BY <2>1, OwnerSame
  <1>8. CASE UNCHANGED hvars
    BY <1>8, OwnerSame DEF hvars, poolVars, serverVars, connVars
  <1> QED
    BY <1>1, <1>2, <1>3, <1>4, <1>5, <1>6, <1>7, <1>8
    DEF Next, ListenStep, WorkerStep

LEMMA OwnerInit == Init => OwnerInv
  <1> SUFFICES ASSUME Init PROVE OneOwner
    BY TypeInit DEF OwnerInv
  <1>1. Len(jobs) = 0
    BY EmptySeq DEF Init, PoolInit
  <1> QED
    BY <1>1, PoolAssumption DEF Init, PoolInit, OneOwner, Queued, Held

LEMMA OwnerInvariant == Spec => []OwnerInv
  BY OwnerInit, OwnerNext, TypeNext, PTL DEF Spec, OwnerInv

-----------------------------------------------------------------------------
(* Requests the ring took and the client does not know of.                 *)

Answering(c) == \E w \in Workers : hand[w] = c /\ at[w] = "answer"
Ending(c)    == \E w \in Workers : hand[w] = c /\ at[w] = "close"

\* While an answer is written exactly one request is untold; afterwards one
\* may stay so only if the worker has given the connection up.
UntoldInv ==
    \A c \in Connections :
        /\ untold[c] \in {0, 1}
        /\ Answering(c) => untold[c] = 1
        /\ untold[c] = 1 => Answering(c) \/ Ending(c) \/ sock[c] = "closed"

LEMMA UntoldSame ==
  ASSUME UntoldInv, UNCHANGED <<at, hand, sock, untold>>
  PROVE  UntoldInv'
  BY DEF UntoldInv, Answering, Ending

LEMMA UntoldNext == OwnerInv /\ UntoldInv /\ [Next]_hvars => UntoldInv'
  <1> SUFFICES ASSUME OwnerInv, UntoldInv, [Next]_hvars PROVE UntoldInv'
    OBVIOUS
  <1> USE DEF OwnerInv, TypeInv
  \* Workers outside "answer" and "close" may move as they like.
  <1>1. ASSUME hand' = hand, UNCHANGED untold,
               \A c \in Connections : sock[c] = "closed" => sock'[c] = "closed",
               \A w \in Workers : /\ at'[w] = "answer" <=> at[w] = "answer"
                                  /\ at[w] = "close" => at'[w] = "close"
        PROVE  UntoldInv'
    BY <1>1 DEF UntoldInv, Answering, Ending
  <1>2. CASE StartListening \/ AcceptFails \/ SeeStopped \/ Return \/ CallStop
             \/ CloseServerSocket
    BY <1>2, UntoldSame
    DEF StartListening, AcceptFails, SeeStopped, Return, JoinAll, CallStop,
        CloseServerSocket, poolVars, connVars
  <1>3. ASSUME NEW c \in Connections, Accept(c) PROVE UntoldInv'
    <2>1. UNCHANGED <<hand, at, untold>> /\ sock[c] = "none"
          /\ sock' = [sock EXCEPT ![c] = "open"]
      BY <1>3 DEF Accept, poolVars
    <2> QED
      BY <1>1, <2>1 DEF TypeOK
  <1>4. CASE CloseRefused
    <2>1. UNCHANGED <<hand, at, untold>> /\ caught \in Connections
          /\ sock' = [sock EXCEPT ![caught] = "closed"]
      BY <1>4 DEF CloseRefused, poolVars, TypeOK
    <2> QED
      BY <1>1, <2>1 DEF TypeOK
  <1>5. CASE Enqueue \/ Notify \/ Shutdown
    <2>1. UNCHANGED <<hand, untold, sock>>
      BY <1>5 DEF Enqueue, PushJob, Notify, NotifyOne, Shutdown, RaiseShutdown,
                  NotifyAll, connVars
    <2>2. \A w \in Workers : /\ at'[w] = "answer" <=> at[w] = "answer"
                             /\ at[w] = "close" => at'[w] = "close"
      BY <1>5 DEF Enqueue, PushJob, Spawn, Notify, NotifyOne, Shutdown,
                  RaiseShutdown, NotifyAll, TypeOK
    <2> QED
      BY <1>1, <2>1, <2>2
  <1>6. ASSUME NEW w \in Workers, Pooled(w) \/ Disturb(w) \/ ServeOther(w)
                                     \/ EndServing(w)
        PROVE  UntoldInv'
    <2>1. UNCHANGED <<hand, untold, sock>>
      BY <1>6 DEF Pooled, Wait, Leave, Disturb, TimeOut, WakeUp, ServeOther,
                  EndServing, poolVars, connVars
    <2>2. \A v \in Workers : /\ at'[v] = "answer" <=> at[v] = "answer"
                             /\ at[v] = "close" => at'[v] = "close"
      BY <1>6 DEF Pooled, Wait, Leave, InLoop, Disturb, TimeOut, WakeUp,
                  ServeOther, EndServing, poolVars, TypeOK
    <2> QED
      BY <1>1, <2>1, <2>2
  <1>7. ASSUME NEW w \in Workers, TakeConnection(w) PROVE UntoldInv'
    <2>1. PICK d \in Connections :
             /\ hand' = [hand EXCEPT ![w] = d] /\ hand[w] = NoConnection
             /\ at' = [at EXCEPT ![w] = "run"] /\ at[w] \in {"lock", "woken"}
             /\ UNCHANGED <<serverVars, sock, untold>>
      BY <1>7, TakeMoves
    <2>2. \A c \in Connections : /\ Answering(c)' <=> Answering(c)
                                 /\ Ending(c)' <=> Ending(c)
      BY <2>1, PoolAssumption DEF Answering, Ending, TypeOK
    <2> QED
      BY <2>1, <2>2 DEF UntoldInv
  <1>8. ASSUME NEW w \in Workers,
               RingTakes(w) \/ Tell202(w) \/ FailToTell(w) \/ CloseConnection(w)
        PROVE  UntoldInv'
    <2>0. PICK c \in Connections : c = hand[w]
      BY <1>8
      DEF RingTakes, Tell202, FailToTell, CloseConnection, TypeOK, Serving
    <2>1. c = hand[w] /\ \A v \in Workers : hand[v] = c => v = w
      BY <2>0, PoolAssumption DEF OneOwner
    <2>2. \A v \in Workers : v # w => at'[v] = at[v] /\ hand'[v] = hand[v]
      BY <1>8 DEF RingTakes, Tell202, FailToTell, CloseConnection, FinishJob,
                  TypeOK
    <2>3. hand'[w] \in {c, NoConnection}
      BY <1>8, <2>1 DEF RingTakes, Tell202, FailToTell, CloseConnection, FinishJob,
                  TypeOK
    <2>4. \A d \in Connections \ {c} :
              /\ Answering(d)' <=> Answering(d)
              /\ Ending(d)' <=> Ending(d)
      BY <2>1, <2>2, <2>3, PoolAssumption DEF Answering, Ending
    <2>5. \A d \in Connections \ {c} :
              untold'[d] = untold[d] /\ sock'[d] = sock[d]
      BY <1>8, <2>1 DEF RingTakes, Tell202, FailToTell, CloseConnection,
                        connVars, TypeOK
    <2>6. ASSUME RingTakes(w)
          PROVE  untold'[c] = 1 /\ Answering(c)'
      <3>1. at[w] = "run" /\ ~Answering(c) /\ ~Ending(c) /\ sock[c] # "closed"
        <4>1. sock[c] = "open"
          BY <2>1 DEF OneOwner, Held
        <4> QED
          BY <2>6, <2>1, <4>1 DEF RingTakes, Answering, Ending
      <3>2. untold[c] = 0
        BY <2>1, <3>1 DEF UntoldInv
      <3> QED
        BY <2>6, <2>1, <3>2 DEF RingTakes, Answering, TypeOK
    <2>7. ASSUME Tell202(w) PROVE untold'[c] = 0 /\ ~Answering(c)'
      <3>1. untold[c] = 1
        BY <2>7, <2>1 DEF Tell202, UntoldInv, Answering
      <3>2. hand' = hand /\ at'[w] # "answer"
        BY <2>7 DEF Tell202, TypeOK
      <3> QED
        BY <2>7, <2>1, <3>1, <3>2 DEF Tell202, Answering, TypeOK
    <2>8. ASSUME FailToTell(w)
          PROVE  untold'[c] = untold[c] /\ Ending(c)' /\ ~Answering(c)'
      BY <2>8, <2>1 DEF FailToTell, connVars, Ending, Answering, TypeOK
    <2>9. ASSUME CloseConnection(w)
          PROVE  untold'[c] = untold[c] /\ sock'[c] = "closed" /\ ~Answering(c)'
      <3>1. untold'[c] = untold[c]
        BY <2>9 DEF CloseConnection
      <3>2. sock'[c] = "closed"
        BY <2>9, <2>1 DEF CloseConnection, TypeOK
      <3>3. at'[w] = "lock"
        BY <2>9 DEF CloseConnection, FinishJob, TypeOK
      <3>4. ~Answering(c)'
        BY <2>1, <2>2, <3>3 DEF Answering
      <3> QED
        BY <3>1, <3>2, <3>4
    <2>10. /\ untold'[c] \in {0, 1}
           /\ Answering(c)' => untold'[c] = 1
           /\ untold'[c] = 1 => Answering(c)' \/ Ending(c)' \/ sock'[c] = "closed"
      BY <1>8, <2>1, <2>6, <2>7, <2>8, <2>9 DEF UntoldInv
    <2>11. ASSUME NEW d \in Connections
           PROVE  /\ untold'[d] \in {0, 1}
                  /\ Answering(d)' => untold'[d] = 1
                  /\ untold'[d] = 1 =>
                        Answering(d)' \/ Ending(d)' \/ sock'[d] = "closed"
      <3>1. CASE d = c
        BY <2>10, <3>1
      <3>2. CASE d # c
        <4>1. untold'[d] = untold[d] /\ sock'[d] = sock[d]
          BY <2>5, <3>2
        <4>2. /\ Answering(d)' <=> Answering(d)
              /\ Ending(d)' <=> Ending(d)
          BY <2>4, <3>2
        <4>3. /\ untold[d] \in {0, 1}
              /\ Answering(d) => untold[d] = 1
              /\ untold[d] = 1 => Answering(d) \/ Ending(d) \/ sock[d] = "closed"
          BY DEF UntoldInv
        <4>4. untold'[d] \in {0, 1}
          BY <4>1, <4>3
        <4>5. ASSUME Answering(d)' PROVE untold'[d] = 1
          BY <4>1, <4>2, <4>3, <4>5
        <4>6. ASSUME untold'[d] = 1
              PROVE  Answering(d)' \/ Ending(d)' \/ sock'[d] = "closed"
          BY <4>1, <4>2, <4>3, <4>6
        <4> QED
          BY <4>4, <4>5, <4>6
      <3> QED
        BY <3>1, <3>2
    <2> QED
      BY <2>11 DEF UntoldInv
  <1>9. CASE UNCHANGED hvars
    BY <1>9, UntoldSame DEF hvars, poolVars, connVars
  <1> QED
    BY <1>2, <1>3, <1>4, <1>5, <1>6, <1>7, <1>8, <1>9
    DEF Next, ListenStep, WorkerStep

\* On no connection does a client miss the answers to two requests that the
\* ring took: the first it misses ends the connection.
THEOREM UntoldIsTheLast == Spec => []UntoldEndsConnection
  <1>1. ASSUME Init PROVE UntoldInv
    <2>1. \A w \in Workers : at[w] # "answer"
      BY <1>1 DEF Init, PoolInit
    <2>2. \A c \in Connections : untold[c] = 0 /\ ~Answering(c)
      BY <1>1, <2>1 DEF Init, Answering
    <2> QED
      BY <2>2 DEF UntoldInv
  <1>2. UntoldInv => UntoldEndsConnection
    BY DEF UntoldInv, UntoldEndsConnection, Answering, Ending
  <1> QED
    BY <1>1, <1>2, OwnerInit, OwnerNext, TypeNext, UntoldNext, PTL
    DEF Spec, OwnerInv

-----------------------------------------------------------------------------
(* The service.                                                            *)

LEMMA PhaseOf ==
  ASSUME OwnerInv, NEW c \in Connections
  PROVE  /\ Phase(c) \in {"none", "waiting", "served", "closed"}
         /\ Phase(c) = "served" <=> Held(c)
         /\ Phase(c) = "waiting" <=> caught = c \/ Queued(c)
         /\ Phase(c) = "none" <=> sock[c] = "none"
         /\ Phase(c) = "closed" <=> sock[c] = "closed"
  BY DEF OwnerInv, TypeInv, TypeOK, OneOwner, Phase, Held

\* A step of the service for one connection.
LEMMA OneConnection ==
  ASSUME NEW c \in Connections, Listening' = Listening,
         \A d \in Connections \ {c} : Phase(d)' = Phase(d),
         \/ Phase(c)' = Phase(c)
         \/ Phase(c) = "none" /\ Phase(c)' = "waiting" /\ Listening = "during"
         \/ Phase(c) = "waiting" /\ Phase(c)' \in {"served", "closed"}
         \/ Phase(c) = "served" /\ Phase(c)' = "closed"
  PROVE  [Service!Next]_(Service!cvars)
  <1> DEFINE ph  == [d \in Connections |-> Phase(d)]
             ph2 == [d \in Connections |-> Phase(d)']
  <1>1. ph2 = [ph EXCEPT ![c] = Phase(c)']
    OBVIOUS
  <1>2. ph[c] = Phase(c)
    OBVIOUS
  <1>3. CASE Phase(c)' = Phase(c)
    <2>1. ph2 = ph
      BY <1>3
    <2> QED
      BY <2>1 DEF Service!cvars
  <1>4. CASE Phase(c) = "none" /\ Phase(c)' = "waiting" /\ Listening = "during"
    <2>1. Service!Accept(c)
      BY <1>1, <1>2, <1>4 DEF Service!Accept
    <2> QED
      BY <2>1 DEF Service!Next
  <1>5. CASE Phase(c) = "waiting" /\ Phase(c)' = "served"
    <2>1. Service!Serve(c)
      BY <1>1, <1>2, <1>5 DEF Service!Serve
    <2> QED
      BY <2>1 DEF Service!Next
  <1>6. CASE Phase(c) \in {"waiting", "served"} /\ Phase(c)' = "closed"
    <2>1. Service!Close(c)
      BY <1>1, <1>2, <1>6 DEF Service!Close
    <2> QED
      BY <2>1 DEF Service!Next
  <1> QED
    BY <1>3, <1>4, <1>5, <1>6

LEMMA NoPhaseMoves ==
  ASSUME Listening' = Listening, UNCHANGED <<hand, sock>>
  PROVE  UNCHANGED Service!cvars
  BY DEF Service!cvars, Phase

LEMMA ServiceStep ==
  OwnerInv /\ OwnerInv' /\ [Next]_hvars => [Service!Next]_(Service!cvars)
  <1> SUFFICES ASSUME OwnerInv, OwnerInv', [Next]_hvars
               PROVE  [Service!Next]_(Service!cvars)
    OBVIOUS
  <1>1. CASE StartListening
    <2>1. Listening = "before" /\ Listening' = "during" /\ UNCHANGED <<hand, sock>>
      BY <1>1 DEF StartListening, Listening, poolVars, connVars
    <2>2. Service!Listen
      BY <2>1 DEF Service!Listen, Phase
    <2> QED
      BY <2>2 DEF Service!Next
  <1>2. ASSUME NEW c \in Connections, Accept(c)
        PROVE  [Service!Next]_(Service!cvars)
    <2>1. /\ Listening = "during" /\ Listening' = "during"
          /\ sock[c] = "none" /\ sock' = [sock EXCEPT ![c] = "open"]
          /\ caught' = c /\ hand' = hand
      BY <1>2 DEF Accept, Listening, poolVars
    <2>2. Phase(c) = "none"
      BY <2>1, PhaseOf
    <2>3. Phase(c)' = "waiting"
      <3>1. ~Held(c)'
        BY <2>1 DEF OwnerInv, OneOwner
      <3> QED
        BY <2>1, <3>1 DEF Phase, Held, OwnerInv, TypeInv, TypeOK
    <2>4. \A d \in Connections \ {c} : Phase(d)' = Phase(d)
      BY <2>1 DEF Phase, OwnerInv, TypeInv, TypeOK
    <2> QED
      BY <2>1, <2>2, <2>3, <2>4, OneConnection
  <1>3. CASE CloseRefused
    <2>1. /\ caught \in Connections /\ sock' = [sock EXCEPT ![caught] = "closed"]
          /\ hand' = hand /\ Listening' = Listening
      BY <1>3 DEF CloseRefused, OwnerInv, TypeInv, TypeOK, Listening, poolVars
    <2>2. PICK c \in Connections : c = caught
      BY <2>1
    <2>3. Phase(c) = "waiting" /\ Phase(c)' = "closed"
      <3>1. Phase(c) = "waiting"
        BY <2>2, PhaseOf
      <3>2. sock'[c] = "closed"
        BY <2>1, <2>2 DEF OwnerInv, TypeInv, TypeOK
      <3> QED
        BY <3>1, <3>2 DEF Phase
    <2>4. \A d \in Connections \ {c} : Phase(d)' = Phase(d)
      BY <2>1, <2>2 DEF Phase, OwnerInv, TypeInv, TypeOK
    <2> QED
      BY <2>1, <2>3, <2>4, OneConnection
  <1>4. CASE Return
    <2>1. lpc = "join" /\ JoinAll /\ Listening = "during" /\ Listening' = "after"
          /\ UNCHANGED <<hand, sock>>
      BY <1>4 DEF Return, JoinAll, Listening, poolVars, connVars
    <2>2. \A w \in Workers : hand[w] = NoConnection
      BY <2>1, <1>4 DEF JoinAll, Workers, OwnerInv, TypeInv, TypeOK, Serving
    <2>3. jobs = <<>>
      BY <2>1, PoolAssumption DEF JoinAll, OwnerInv, TypeInv, PoolOrder
    <2>4. Len(jobs) = 0
      BY <2>3, EmptySeq
    <2>5. caught = NoConnection
      BY <2>1 DEF OwnerInv, TypeInv, TypeOK
    <2>6. \A c \in Connections : Phase(c) \in {"none", "closed"}
      <3>1. \A c \in Connections : ~Held(c) /\ ~Queued(c) /\ caught # c
        BY <2>2, <2>4, <2>5, PoolAssumption DEF Held, Queued
      <3> QED
        BY <3>1, PhaseOf
    <2>7. Service!Return
      BY <2>1, <2>6 DEF Service!Return, Phase
    <2> QED
      BY <2>7 DEF Service!Next
  <1>5. CASE AcceptFails \/ SeeStopped \/ Enqueue \/ Notify \/ Shutdown
             \/ CallStop \/ CloseServerSocket
    <2>1. UNCHANGED <<hand, sock>> /\ Listening' = Listening
      BY <1>5 DEF AcceptFails, SeeStopped, Enqueue, PushJob, Notify, NotifyOne,
                  Shutdown, RaiseShutdown, NotifyAll, CallStop,
                  CloseServerSocket, Listening, poolVars, connVars
    <2> QED
      BY <2>1, NoPhaseMoves
  <1>6. ASSUME NEW w \in Workers, TakeConnection(w)
        PROVE  [Service!Next]_(Service!cvars)
    <2>1. PICK c \in Connections :
             /\ Queued(c) /\ ~Held(c)
             /\ \A d \in Connections : Held(d)' <=> Held(d) \/ d = c
             /\ UNCHANGED <<serverVars, sock, untold>>
      BY <1>6, TakeMoves
    <2>2. Listening' = Listening
      BY <2>1 DEF serverVars, Listening
    <2>3. Phase(c) = "waiting" /\ sock[c] = "open"
      BY <2>1, PhaseOf DEF OwnerInv, OneOwner
    <2>4. Phase(c)' = "served"
      BY <2>1, <2>3 DEF Phase, Held
    <2>5. \A d \in Connections \ {c} : Phase(d)' = Phase(d)
      BY <2>1 DEF Phase, Held
    <2> QED
      BY <2>2, <2>3, <2>4, <2>5, OneConnection
  <1>7. ASSUME NEW w \in Workers, CloseConnection(w)
        PROVE  [Service!Next]_(Service!cvars)
    <2>1. PICK c \in Connections : c = hand[w]
      BY <1>7 DEF CloseConnection, OwnerInv, TypeInv, TypeOK, Serving
    <2>2. /\ hand' = [hand EXCEPT ![w] = NoConnection]
          /\ sock' = [sock EXCEPT ![c] = "closed"]
          /\ UNCHANGED lpc
      BY <1>7, <2>1 DEF CloseConnection, FinishJob, serverVars
    <2>3. Listening' = Listening
      BY <2>2 DEF Listening
    <2>4. Phase(c) = "served"
      BY <2>1, PhaseOf DEF Held
    <2>5. Phase(c)' = "closed"
      BY <2>2 DEF Phase, OwnerInv, TypeInv, TypeOK
    <2>6. ASSUME NEW d \in Connections \ {c} PROVE Phase(d)' = Phase(d)
      <3>1. Held(d)' <=> Held(d)
        BY <2>1, <2>2, PoolAssumption DEF Held, OwnerInv, TypeInv, TypeOK
      <3>2. sock'[d] = sock[d]
        BY <2>2 DEF OwnerInv, TypeInv, TypeOK
      <3> QED
        BY <3>1, <3>2 DEF Phase, Held
    <2> QED
      BY <2>3, <2>4, <2>5, <2>6, OneConnection
  <1>8. ASSUME NEW w \in Workers,
               Pooled(w) \/ RingTakes(w) \/ Tell202(w) \/ FailToTell(w)
                   \/ ServeOther(w) \/ EndServing(w) \/ Disturb(w)
        PROVE  [Service!Next]_(Service!cvars)
    <2>1. UNCHANGED <<hand, sock>> /\ lpc' = lpc
      BY <1>8 DEF Pooled, Wait, Leave, RingTakes, Tell202, FailToTell,
                  ServeOther, EndServing, Disturb, TimeOut, WakeUp, poolVars,
                  serverVars, connVars
    <2>2. Listening' = Listening
      BY <2>1 DEF Listening
    <2> QED
      BY <2>1, <2>2, NoPhaseMoves
  <1>9. CASE UNCHANGED hvars
    <2>1. UNCHANGED <<hand, sock>> /\ Listening' = Listening
      BY <1>9 DEF hvars, poolVars, serverVars, connVars, Listening
    <2> QED
      BY <2>1, NoPhaseMoves
  <1> QED
    BY <1>1, <1>2, <1>3, <1>4, <1>5, <1>6, <1>7, <1>8, <1>9
    DEF Next, ListenStep, WorkerStep

\* Server, pool, queue and hand-overs implement the service: one server per
\* connection, one close, and nothing left open when listen returns.
THEOREM ServerIsService == Spec => ServerImplementsService
  <1>1. Init => Service!Init
    BY DEF Init, PoolInit, Service!Init, Phase, Listening
  <1> QED
    BY <1>1, OwnerInvariant, ServiceStep, PTL
    DEF Spec, ServerImplementsService, Service!Spec

-----------------------------------------------------------------------------
(* The end of listen. Why a stop ends it is a matter of fairness; what is   *)
(* proved is that the join waits for nobody who sleeps, and that what it    *)
(* waits for gets less with every step of a worker.                         *)

Ended == {"unborn", "finished", "exited"}

\* From notify_all on no worker waits, and listen returns when all have ended.
JoinInv ==
    /\ lpc \in {"join", "returned"} => \A w \in Workers : at[w] # "wait"
    /\ lpc = "returned" => \A w \in Workers : at[w] \in Ended

\* Only notify_all leads to the join, and only the join to the return.
LEMMA ListenEnds ==
  ASSUME TypeInv, [Next]_hvars
  PROVE  /\ lpc' = "join" => lpc = "join" \/ \A w \in Workers : at'[w] # "wait"
         /\ lpc' = "returned" =>
                lpc = "returned" \/ (at' = at /\ \A w \in Workers : at[w] \in Ended)
  <1>1. CASE StartListening \/ ListenStep
    <2>1. CASE Return
      BY <2>1 DEF Return, JoinAll, poolVars, Ended, Workers
    <2>2. CASE Shutdown
      <3>1. CASE lpc = "notifyAll" /\ NotifyAll /\ lpc' = "join"
        BY <3>1 DEF NotifyAll
      <3> QED
        BY <2>2, <3>1 DEF Shutdown
    <2>3. CASE StartListening \/ (\E c \in Connections : Accept(c)) \/ AcceptFails
               \/ SeeStopped \/ Enqueue \/ CloseRefused \/ Notify
      BY <2>3 DEF StartListening, Accept, AcceptFails, SeeStopped, Enqueue,
                  CloseRefused, Notify
    <2> QED
      BY <1>1, <2>1, <2>2, <2>3 DEF ListenStep
  <1>2. CASE CallStop \/ CloseServerSocket
    BY <1>2 DEF CallStop, CloseServerSocket
  <1>3. ASSUME NEW w \in Workers, WorkerStep(w) \/ Disturb(w) PROVE lpc' = lpc
    BY <1>3 DEF WorkerStep, Pooled, TakeConnection, RingTakes, Tell202, FailToTell,
                ServeOther, EndServing, CloseConnection, Disturb, serverVars
  <1>4. CASE UNCHANGED hvars
    BY <1>4 DEF hvars, serverVars
  <1> QED
    BY <1>1, <1>2, <1>3, <1>4 DEF Next

\* After shutdown_ is raised a worker that wakes up never waits again, and one
\* that has ended does nothing.
LEMMA NoNewSleep ==
  ASSUME TypeInv, [Next]_hvars, lpc \in {"join", "returned"}
  PROVE  /\ \A w \in Workers : at'[w] = "wait" => at[w] = "wait"
         /\ (\A w \in Workers : at[w] \in Ended) => at' = at
  <1>1. shutdown /\ at \in [Workers -> Places]
    BY DEF TypeInv, TypeOK, PoolOrder
  <1>2. CASE StartListening \/ ListenStep
    <2>1. at' = at
      BY <1>2 DEF StartListening, ListenStep, Accept, AcceptFails, SeeStopped,
                  Enqueue, CloseRefused, Notify, Shutdown, Return, JoinAll, poolVars
    <2> QED
      BY <2>1
  <1>3. CASE CallStop \/ CloseServerSocket
    BY <1>3 DEF CallStop, CloseServerSocket, poolVars
  <1>4. ASSUME NEW v \in Workers, WorkerStep(v) \/ Disturb(v)
        PROVE  /\ at[v] \notin Ended
               /\ at' = at \/ \E q \in Places \ {"wait"} : at' = [at EXCEPT ![v] = q]
    <2>1. CASE Disturb(v)
      BY <1>1, <2>1 DEF Disturb, TimeOut, WakeUp, Places, Ended
    <2>2. CASE Pooled(v)
      BY <1>1, <2>2 DEF Pooled, Wait, Leave, InLoop, Places, Ended
    <2>3. CASE TakeConnection(v)
      BY <1>1, <2>3 DEF TakeConnection, TakeJob, InLoop, Places, Ended
    <2>4. CASE RingTakes(v) \/ Tell202(v) \/ FailToTell(v)
      BY <1>1, <2>4 DEF RingTakes, Tell202, FailToTell, Places, Ended
    <2>5. CASE ServeOther(v) \/ EndServing(v) \/ CloseConnection(v)
      BY <1>1, <2>5 DEF ServeOther, EndServing, CloseConnection, FinishJob, poolVars,
                        Places, Ended
    <2> QED
      BY <1>4, <2>1, <2>2, <2>3, <2>4, <2>5 DEF WorkerStep
  <1>5. CASE UNCHANGED hvars
    BY <1>5 DEF hvars, poolVars
  <1> QED
    BY <1>1, <1>2, <1>3, <1>4, <1>5 DEF Next

LEMMA JoinNext == TypeInv /\ JoinInv /\ [Next]_hvars => JoinInv'
  <1> SUFFICES ASSUME TypeInv, JoinInv, [Next]_hvars PROVE JoinInv'
    OBVIOUS
  <1>1. CASE lpc \in {"join", "returned"}
    BY <1>1, ListenEnds, NoNewSleep DEF JoinInv, Ended
  <1>2. CASE lpc \notin {"join", "returned"}
    BY <1>2, ListenEnds DEF JoinInv, Ended
  <1> QED
    BY <1>1, <1>2

\* The joins of shutdown never wait for a thread that sleeps in the pool's wait:
\* whenever the stop came, and whoever was started late or was about to wait.
NobodySleepsThroughJoin ==
    lpc \in {"join", "returned"} => \A w \in Workers : at[w] # "wait"

\* listen leaves no thread and no queued connection behind.
ReturnsDrained ==
    lpc = "returned" => jobs = <<>> /\ \A w \in Workers : at[w] \in Ended

LEMMA JoinInvariant == Spec => [](TypeInv /\ JoinInv)
  <1>1. Init => JoinInv
    BY DEF Init, JoinInv
  <1> QED
    BY <1>1, TypeInit, TypeNext, JoinNext, PTL DEF Spec

\* Once ThreadPool::shutdown has notified, no worker is in the wait: the joins
\* that follow in listen wait only for threads that are up.
THEOREM JoinWaitsForNoSleeper == Spec => []NobodySleepsThroughJoin
  <1>1. JoinInv => NobodySleepsThroughJoin
    BY DEF JoinInv, NobodySleepsThroughJoin
  <1> QED
    BY <1>1, JoinInvariant, PTL

\* When listen has returned every thread of the pool has ended and every queued
\* connection was taken: the shutdown drains the queue before it lets go.
THEOREM ListenReturnsDrained == Spec => []ReturnsDrained
  <1>1. TypeInv /\ JoinInv => ReturnsDrained
    <2> SUFFICES ASSUME TypeInv, JoinInv, lpc = "returned"
                 PROVE  jobs = <<>> /\ \A w \in Workers : at[w] \in Ended
      BY DEF ReturnsDrained
    <2>1. PICK b \in Base : b \in Workers
      BY PoolAssumption DEF Workers
    <2>2. at[b] = "exited"
      BY <2>1 DEF JoinInv, TypeInv, TypeOK, Ended
    <2> QED
      BY <2>1, <2>2 DEF JoinInv, TypeInv, PoolOrder
  <1> QED
    BY <1>1, JoinInvariant, PTL

\* What a worker has still to do for the connection it has, at most.
Ahead(w) ==
    CASE at[w] = "run"                -> 3 + 2 * left[w]
      [] at[w] = "answer"             -> 2 + 2 * left[w]
      [] at[w] = "close"              -> 2
      [] at[w] \in {"lock", "woken"}  -> 1
      [] OTHER                        -> 0

\* During the joins nobody queues or starts anything any more: the queue gets
\* shorter, or one worker gets on and the rest stay where they are.
JoinGetsOn ==
    lpc = "join" =>
        /\ \A w \in Workers : Ahead(w) \in Nat
        /\ \/ UNCHANGED <<jobs, at, left>>
           \/ Len(jobs') < Len(jobs)
           \/ /\ jobs' = jobs
              /\ \E w \in Workers :
                     /\ Ahead(w)' < Ahead(w)
                     /\ \A v \in Workers \ {w} : Ahead(v)' = Ahead(v)

\* A step of one worker leaves the others as they are.
OthersStay(w) ==
    \A v \in Workers \ {w} :
        at'[v] = at[v] /\ left'[v] = left[v] /\ Ahead(v)' = Ahead(v)

\* A worker that moves to a place with less ahead of it leaves the others alone.
LEMMA OneGetsOn ==
  ASSUME TypeInv, NEW w \in Workers, NEW q, NEW n,
         at' = [at EXCEPT ![w] = q], left' = [left EXCEPT ![w] = n]
  PROVE  /\ at'[w] = q /\ left'[w] = n
         /\ OthersStay(w)
  BY DEF TypeInv, TypeOK, Ahead, OthersStay

\* Each thing a worker does about its connection leaves less ahead of it.
LEMMA ServingGetsOn ==
  ASSUME TypeInv, NEW w \in Workers,
         RingTakes(w) \/ Tell202(w) \/ FailToTell(w) \/ ServeOther(w)
           \/ EndServing(w) \/ CloseConnection(w)
  PROVE  /\ jobs' = jobs
         /\ Ahead(w)' < Ahead(w)
         /\ OthersStay(w)
  <1>1. /\ left[w] \in Nat /\ at[w] \in Places
        /\ at[w] = "answer" => left[w] > 0
        /\ left = [left EXCEPT ![w] = left[w]]
    BY KeepAliveAssumption DEF TypeInv, TypeOK, PoolOrder
  <1>2. CASE RingTakes(w)
    <2>1. /\ at[w] = "run" /\ jobs' = jobs /\ left' = left
          /\ at' = [at EXCEPT ![w] = "answer"]
      BY <1>2 DEF RingTakes
    <2>2. at'[w] = "answer" /\ OthersStay(w)
      BY <1>1, <2>1, OneGetsOn
    <2> QED
      BY <1>1, <2>1, <2>2 DEF Ahead
  <1>3. CASE Tell202(w) \/ FailToTell(w)
    <2>1. /\ at[w] = "answer" /\ jobs' = jobs
          /\ \/ left' = [left EXCEPT ![w] = left[w] - 1] /\ at' = [at EXCEPT ![w] = "run"]
             \/ left' = left /\ at' = [at EXCEPT ![w] = "close"]
      BY <1>3 DEF Tell202, FailToTell, connVars
    <2>2. CASE left' = [left EXCEPT ![w] = left[w] - 1] /\ at' = [at EXCEPT ![w] = "run"]
      <3>1. /\ at'[w] = "run" /\ left'[w] = left[w] - 1
            /\ OthersStay(w)
        BY <2>2, OneGetsOn
      <3> QED
        BY <1>1, <2>1, <3>1 DEF Ahead
    <2>3. CASE left' = left /\ at' = [at EXCEPT ![w] = "close"]
      <3>1. at'[w] = "close" /\ OthersStay(w)
        BY <1>1, <2>3, OneGetsOn
      <3> QED
        BY <1>1, <2>1, <3>1 DEF Ahead
    <2> QED
      BY <2>1, <2>2, <2>3
  <1>4. CASE ServeOther(w)
    <2>1. /\ at[w] = "run" /\ left[w] > 0 /\ jobs' = jobs /\ at' = at
          /\ left' = [left EXCEPT ![w] = left[w] - 1]
      BY <1>4 DEF ServeOther, poolVars
    <2>2. at' = [at EXCEPT ![w] = "run"]
      BY <2>1 DEF TypeInv, TypeOK
    <2>3. /\ at'[w] = "run" /\ left'[w] = left[w] - 1
          /\ OthersStay(w)
      BY <2>1, <2>2, OneGetsOn
    <2> QED
      BY <1>1, <2>1, <2>3 DEF Ahead
  <1>5. CASE EndServing(w)
    <2>1. /\ at[w] = "run" /\ jobs' = jobs /\ left' = left
          /\ at' = [at EXCEPT ![w] = "close"]
      BY <1>5 DEF EndServing, connVars
    <2>2. at'[w] = "close" /\ OthersStay(w)
      BY <1>1, <2>1, OneGetsOn
    <2> QED
      BY <1>1, <2>1, <2>2 DEF Ahead
  <1>6. CASE CloseConnection(w)
    <2>1. /\ at[w] = "close" /\ jobs' = jobs
          /\ at' = [at EXCEPT ![w] = "lock"] /\ left' = [left EXCEPT ![w] = 0]
      BY <1>6 DEF CloseConnection, FinishJob
    <2>2. at'[w] = "lock" /\ OthersStay(w)
      BY <2>1, OneGetsOn
    <2> QED
      BY <2>1, <2>2 DEF Ahead
  <1> QED
    BY <1>2, <1>3, <1>4, <1>5, <1>6

LEMMA WorkerGetsOn ==
  ASSUME TypeInv, shutdown, NEW w \in Workers, at[w] # "wait",
         WorkerStep(w) \/ Disturb(w)
  PROVE  \/ Len(jobs') < Len(jobs)
         \/ /\ jobs' = jobs
            /\ Ahead(w)' < Ahead(w)
            /\ \A v \in Workers \ {w} : Ahead(v)' = Ahead(v)
  <1>1. /\ jobs \in Seq(Connections) /\ left[w] \in Nat /\ at[w] \in Places
        /\ at[w] = "answer" => left[w] > 0
        /\ left = [left EXCEPT ![w] = left[w]]
    BY KeepAliveAssumption DEF TypeInv, TypeOK, PoolOrder
  <1>2. CASE TakeConnection(w)
    <2>1. jobs # <<>> /\ jobs' = Tail(jobs)
      BY <1>2 DEF TakeConnection, TakeJob
    <2> QED
      BY <1>1, <2>1, EmptySeq, HeadTailProperties
  <1>3. CASE Disturb(w)
    BY <1>3 DEF Disturb, TimeOut, WakeUp
  <1>4. CASE Pooled(w)
    <2>1. /\ at[w] \in {"lock", "woken"} /\ jobs' = jobs /\ left' = left
          /\ at' = [at EXCEPT ![w] = "exited"]
      BY <1>4 DEF Pooled, Wait, Leave, InLoop, connVars
    <2>2. at'[w] = "exited" /\ OthersStay(w)
      BY <1>1, <2>1, OneGetsOn
    <2> QED
      BY <2>1, <2>2 DEF Ahead, OthersStay
  <1>5. CASE RingTakes(w) \/ Tell202(w) \/ FailToTell(w) \/ ServeOther(w)
                \/ EndServing(w) \/ CloseConnection(w)
    BY <1>5, ServingGetsOn DEF OthersStay
  <1> QED
    BY <1>2, <1>3, <1>4, <1>5 DEF WorkerStep

\* The joins come to an end if the workers that are up go on: each step of one
\* lowers what is ahead of it or takes a job off the queue, and nothing is put
\* back. A stop cannot be kept waiting by work that renews itself.
THEOREM JoinAlwaysGetsOn == Spec => [][JoinGetsOn]_hvars
  <1>1. TypeInv /\ JoinInv /\ [Next]_hvars => [JoinGetsOn]_hvars
    <2> SUFFICES ASSUME TypeInv, JoinInv, Next, lpc = "join" PROVE JoinGetsOn
      BY DEF JoinGetsOn
    <2>1. shutdown /\ \A w \in Workers : at[w] # "wait"
      BY DEF TypeInv, PoolOrder, JoinInv
    <2>2. \A w \in Workers : Ahead(w) \in Nat
      BY KeepAliveAssumption DEF TypeInv, TypeOK, Ahead
    <2>3. CASE StartListening \/ ListenStep
      BY <2>2, <2>3
      DEF StartListening, ListenStep, Accept, AcceptFails, SeeStopped, Enqueue,
          CloseRefused, Notify, Shutdown, Return, JoinAll, poolVars, connVars, JoinGetsOn
    <2>4. CASE CallStop \/ CloseServerSocket
      BY <2>2, <2>4 DEF CallStop, CloseServerSocket, poolVars, connVars, JoinGetsOn
    <2>5. ASSUME NEW w \in Workers, WorkerStep(w) \/ Disturb(w) PROVE JoinGetsOn
      BY <2>1, <2>2, <2>5, WorkerGetsOn DEF JoinGetsOn
    <2> QED
      BY <2>3, <2>4, <2>5 DEF Next
  <1> QED
    BY <1>1, JoinInvariant, PTL DEF Spec

\* Those that wait are served in the order they were accepted in: a step keeps
\* a connection's place in the queue, moves it up by one, or gives the first to
\* a worker that has none.
NobodyOvertakes ==
    \A i \in 1..Len(jobs) :
        \/ i \in 1..Len(jobs') /\ jobs'[i] = jobs[i]
        \/ i > 1 /\ i - 1 \in 1..Len(jobs') /\ jobs'[i - 1] = jobs[i]
        \/ i = 1 /\ \E w \in Workers :
                        hand[w] = NoConnection /\ hand'[w] = jobs[1]

\* A worker with a connection keeps it and has less and less ahead of it, until
\* it closes it.
ServingRunsOut ==
    \A w \in Workers :
        at[w] \in Serving =>
            \/ UNCHANGED <<hand[w], at[w], left[w]>>
            \/ hand'[w] = hand[w] /\ Ahead(w)' < Ahead(w)
            \/ hand'[w] = NoConnection /\ sock'[hand[w]] = "closed"

ConnectionGetsOn == [][NobodyOvertakes /\ ServingRunsOut]_hvars

LEMMA ListenLetsServe ==
  ASSUME TypeInv, StartListening \/ ListenStep \/ CallStop \/ CloseServerSocket
  PROVE  /\ \A i \in 1..Len(jobs) : i \in 1..Len(jobs') /\ jobs'[i] = jobs[i]
         /\ hand' = hand /\ left' = left
         /\ \A w \in Workers : at[w] \in Serving => at'[w] = at[w]
  <1>1. CASE Enqueue
    <2>1. /\ caught \in Connections /\ jobs' = Append(jobs, caught)
          /\ hand' = hand /\ left' = left
          /\ at' = at \/ Spawn
      BY <1>1 DEF Enqueue, PushJob, connVars, TypeInv, TypeOK
    <2>2. \A i \in 1..Len(jobs) : i \in 1..Len(jobs') /\ jobs'[i] = jobs[i]
      BY <2>1, JobsMove DEF TypeInv
    <2>3. \A w \in Workers : at[w] \in Serving => at'[w] = at[w]
      BY <2>1 DEF Spawn, Serving
    <2> QED
      BY <2>1, <2>2, <2>3
  <1>2. CASE Notify
    <2>1. /\ jobs' = jobs /\ hand' = hand /\ left' = left
          /\ at' = at \/ \E w \in Workers : at[w] = "wait" /\ at' = [at EXCEPT ![w] = "woken"]
      BY <1>2 DEF Notify, NotifyOne, connVars
    <2>2. \A w \in Workers : at[w] \in Serving => at'[w] = at[w]
      BY <2>1 DEF Serving, TypeInv, TypeOK
    <2> QED
      BY <2>1, <2>2
  <1>3. CASE Shutdown
    <2>1. /\ jobs' = jobs /\ hand' = hand /\ left' = left
          /\ \/ at' = at
             \/ at' = [w \in Workers |-> IF at[w] = "wait" THEN "woken" ELSE at[w]]
      BY <1>3 DEF Shutdown, RaiseShutdown, NotifyAll, connVars
    <2> QED
      BY <2>1 DEF Serving
  <1>4. CASE StartListening \/ (\E c \in Connections : Accept(c)) \/ AcceptFails
               \/ SeeStopped \/ CloseRefused \/ Return \/ CallStop \/ CloseServerSocket
    BY <1>4 DEF StartListening, Accept, AcceptFails, SeeStopped, CloseRefused, Return,
                JoinAll, CallStop, CloseServerSocket, poolVars, connVars
  <1> QED
    BY <1>1, <1>2, <1>3, <1>4 DEF ListenStep

\* What AcceptedIsClosed says will come about has only so far to go: no later
\* connection, no new thread and no stop puts an accepted one back. enqueue,
\* worker, process_and_close_socket.
THEOREM NoConnectionIsPutBack == Spec => ConnectionGetsOn
  <1>1. TypeInv /\ [Next]_hvars => [NobodyOvertakes /\ ServingRunsOut]_hvars
    <2> SUFFICES ASSUME TypeInv, Next PROVE NobodyOvertakes /\ ServingRunsOut
      OBVIOUS
    <2>1. CASE StartListening \/ ListenStep \/ CallStop \/ CloseServerSocket
      BY <2>1, ListenLetsServe DEF NobodyOvertakes, ServingRunsOut
    <2>2. ASSUME NEW w \in Workers, TakeConnection(w)
          PROVE  NobodyOvertakes /\ ServingRunsOut
      <3>1. /\ jobs # <<>> /\ jobs' = Tail(jobs) /\ Head(jobs) = jobs[1]
            /\ hand' = [hand EXCEPT ![w] = Head(jobs)]
            /\ at' = [at EXCEPT ![w] = "run"] /\ at[w] \in {"lock", "woken"}
            /\ left' = [left EXCEPT ![w] = KeepAliveMax]
        BY <2>2, JobsMove DEF TakeConnection, TakeJob, InLoop, TypeInv
      <3>2. hand[w] = NoConnection /\ hand'[w] = jobs[1]
        BY <3>1 DEF TypeInv, TypeOK, Serving
      <3>3. \A i \in 1..Len(jobs) :
                i > 1 => i - 1 \in 1..Len(jobs') /\ jobs'[i - 1] = jobs[i]
        <4>1. /\ Len(jobs) \in Nat /\ Len(jobs') = Len(jobs) - 1
              /\ \A k \in 1..Len(jobs') : jobs'[k] = jobs[k + 1]
          BY <3>1, JobsMove DEF TypeInv
        <4>2. ASSUME NEW i \in 1..Len(jobs), i > 1
              PROVE  i - 1 \in 1..Len(jobs') /\ (i - 1) + 1 = i
          BY <4>1, <4>2
        <4> QED
          BY <4>1, <4>2
      <3>4. NobodyOvertakes
        <4>1. \A i \in 1..Len(jobs) : i > 1 \/ i = 1
          BY JobsMove DEF TypeInv
        <4> QED
          BY <3>2, <3>3, <4>1 DEF NobodyOvertakes
      <3>5. ServingRunsOut
        BY <3>1 DEF ServingRunsOut, Serving, TypeInv, TypeOK
      <3> QED
        BY <3>4, <3>5
    <2>3. ASSUME NEW w \in Workers, Pooled(w) \/ Disturb(w)
          PROVE  NobodyOvertakes /\ ServingRunsOut
      <3>1. /\ jobs' = jobs /\ hand' = hand /\ left' = left
            /\ at[w] \in {"lock", "woken", "wait"}
            /\ \E q \in Places : at' = [at EXCEPT ![w] = q]
        BY <2>3 DEF Pooled, Wait, Leave, InLoop, Disturb, TimeOut, WakeUp, connVars, Places
      <3>2. \A v \in Workers : at[v] \in Serving => at'[v] = at[v]
        BY <3>1 DEF Serving, TypeInv, TypeOK
      <3> QED
        BY <3>1, <3>2 DEF NobodyOvertakes, ServingRunsOut
    <2>4. ASSUME NEW w \in Workers,
                 RingTakes(w) \/ Tell202(w) \/ FailToTell(w) \/ ServeOther(w)
                   \/ EndServing(w) \/ CloseConnection(w)
          PROVE  NobodyOvertakes /\ ServingRunsOut
      <3>1. /\ jobs' = jobs /\ Ahead(w)' < Ahead(w)
            /\ \A v \in Workers \ {w} : at'[v] = at[v] /\ left'[v] = left[v]
        BY <2>4, ServingGetsOn DEF OthersStay
      <3>2. \/ hand' = hand
            \/ /\ hand' = [hand EXCEPT ![w] = NoConnection] /\ at[w] = "close"
               /\ sock' = [sock EXCEPT ![hand[w]] = "closed"]
        BY <2>4 DEF RingTakes, Tell202, FailToTell, ServeOther, EndServing,
                    CloseConnection, FinishJob, poolVars
      <3>3. \A v \in Workers \ {w} : hand'[v] = hand[v]
        BY <3>2 DEF TypeInv, TypeOK
      <3>4. \/ hand'[w] = hand[w]
            \/ hand'[w] = NoConnection /\ sock'[hand[w]] = "closed"
        BY <3>2 DEF TypeInv, TypeOK, Serving
      <3> QED
        BY <3>1, <3>3, <3>4 DEF NobodyOvertakes, ServingRunsOut
    <2> QED
      BY <2>1, <2>2, <2>3, <2>4 DEF Next, WorkerStep
  <1> QED
    BY <1>1, JoinInvariant, PTL DEF Spec, ConnectionGetsOn

=============================================================================
