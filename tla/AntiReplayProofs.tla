--------------------------- MODULE AntiReplayProofs ---------------------------
(***************************************************************************)
(* With one thread, whatever the window, the hashes, the evictions and the *)
(* length of the run, the ledger's table answers like the full history.    *)
(* With two threads it may not: the time is read before the lock is taken. *)
(***************************************************************************)
EXTENDS AntiReplay, TLAPS

\* What a call was given, from the type invariant.
LEMMA CheckArg ==
    ASSUME TypeOK, NEW t \in Threads, pc[t] = "check"
    PROVE  arg[t] \in Hashes
  BY DEF TypeOK

LEMMA EvictArg ==
    ASSUME TypeOK, NEW t \in Threads, pc[t] = "evict"
    PROVE  arg[t] \in Nat /\ arg[t] >= TTL
  <1>1. arg[t] \in EvictTTLs
    BY DEF TypeOK
  <1> QED
    BY <1>1, EvictAssumption

LEMMA TypeInit == Init => TypeOK
  BY MaxTimeAssumption DEF Init, TypeOK, Times, Absent, NoArg

LEMMA TypeNext == TypeOK /\ [Next]_vars => TypeOK'
  <1> SUFFICES ASSUME TypeOK, [Next]_vars PROVE TypeOK'
    OBVIOUS
  <1> USE DEF TypeOK, Absent, NoArg
  <1>1. CASE Tick
    BY <1>1, MaxTimeAssumption DEF Tick, Times
  <1>2. ASSUME NEW t \in Threads, BeginCheck(t) PROVE TypeOK'
    BY <1>2 DEF BeginCheck, Begin
  <1>3. ASSUME NEW t \in Threads, BeginEvict(t) PROVE TypeOK'
    BY <1>3 DEF BeginEvict, Begin
  <1>4. ASSUME NEW t \in Threads, Reject(t) PROVE TypeOK'
    BY <1>4, MaxTimeAssumption DEF Reject, Return, Times
  <1>5. ASSUME NEW t \in Threads, Accept(t) PROVE TypeOK'
    <2>1. arg[t] \in Hashes /\ stamp[t] \in Times /\ 0 \in Times
      BY <1>5, MaxTimeAssumption, CheckArg DEF Accept, Times
    <2>2. <<arg[t], stamp[t]>> \in Hashes \X Times
      BY <2>1
    <2> QED
      BY <1>5, <2>1, <2>2 DEF Accept, Return
  <1>6. ASSUME NEW t \in Threads, Evict(t) PROVE TypeOK'
    BY <1>6, MaxTimeAssumption DEF Evict, Return, Times
  <1>7. ASSUME NEW t \in Threads, Clear(t) PROVE TypeOK'
    BY <1>7 DEF Clear
  <1>8. CASE UNCHANGED vars
    BY <1>8 DEF vars
  <1> QED
    BY <1>1, <1>2, <1>3, <1>4, <1>5, <1>6, <1>7, <1>8 DEF Next

-----------------------------------------------------------------------------
(* The table and the history.                                              *)

\* A call that gets the mutex read the clock no later than those that wait.
InOrder ==
    \A t \in Threads : pc[t] # "idle" /\ pc'[t] = "idle" =>
        \A u \in Threads : pc[u] # "idle" => stamp[t] <= stamp[u]

\* The times a coming decision may be taken at: the clock's, or the time a
\* call under way has read from it.
Now(time) ==
    time = clock \/ \E t \in Threads : pc[t] # "idle" /\ time = stamp[t]

\* Nothing was accepted later than a coming decision; what the table holds is
\* the last acceptance; what it does not hold is too old to matter.
TableInv ==
    /\ \A t \in Threads : stamp[t] <= clock
    /\ \A time \in Times : Now(time) =>
           \A a \in accepts :
               /\ a[2] <= time
               /\ seen[a[1]] = Absent => time - a[2] >= TTL
    /\ \A a \in accepts : seen[a[1]] # Absent => a[2] <= seen[a[1]]
    /\ \A h \in Hashes : seen[h] # Absent => <<h, seen[h]>> \in accepts

\* The decision the table leads to is the one the history calls for.
LEMMA TableDecides ==
    ASSUME TypeOK, TableInv, NEW t \in Threads, pc[t] = "check"
    PROVE  IsReplay(t) <=> Window!Replayed(arg[t], stamp[t])
  <1> USE TTLAssumption DEF TypeOK, Times, Absent
  <1>1. arg[t] \in Hashes /\ stamp[t] \in Times /\ Now(stamp[t])
    BY CheckArg DEF Now
  <1>2. ASSUME IsReplay(t) PROVE Window!Replayed(arg[t], stamp[t])
    <2>1. <<arg[t], seen[arg[t]]>> \in accepts
      BY <1>1, <1>2 DEF IsReplay, TableInv
    <2> QED
      BY <1>1, <1>2, <2>1 DEF IsReplay, YoungerThan, Window!Replayed
  <1>3. ASSUME Window!Replayed(arg[t], stamp[t]) PROVE IsReplay(t)
    <2>1. PICK a \in accepts :
              a[1] = arg[t] /\ a[2] <= stamp[t] /\ stamp[t] - a[2] < TTL
      BY <1>3 DEF Window!Replayed
    <2>2. a[2] \in 0..MaxTime
      BY DEF TypeOK
    <2>3. seen[arg[t]] # Absent
      BY <1>1, <2>1, <2>2 DEF TableInv
    <2>4. seen[arg[t]] \in 0..MaxTime /\ a[2] <= seen[arg[t]]
      BY <1>1, <2>1, <2>3 DEF TableInv
    <2>5. <<arg[t], seen[arg[t]]>> \in accepts
      BY <1>1, <2>3 DEF TableInv
    <2>6. seen[arg[t]] <= stamp[t]
      BY <1>1, <2>5 DEF TableInv
    <2> QED
      BY <1>1, <2>1, <2>2, <2>3, <2>4, <2>6, MaxTimeAssumption
      DEF IsReplay, YoungerThan
  <1> QED
    BY <1>2, <1>3

\* A decision yet to come is taken at a time that was open before, and not
\* before the time of the call that returns.
LEMMA NowMovesOn ==
    ASSUME TypeOK, TableInv, NEW t \in Threads, pc[t] # "idle", Return(t),
           [InOrder]_vars, clock' = clock
    PROVE  /\ \A time : Now(time)' => Now(time) /\ stamp[t] <= time
           /\ stamp' = [stamp EXCEPT ![t] = 0]
           /\ \A s \in Threads : stamp'[s] <= clock'
  <1> USE DEF TypeOK, Times
  <1>1. /\ pc' = [pc EXCEPT ![t] = "idle"] /\ pc'[t] = "idle"
        /\ stamp' = [stamp EXCEPT ![t] = 0]
    BY DEF Return
  <1>2. \A u \in Threads : pc[u] # "idle" => stamp[t] <= stamp[u]
    BY <1>1 DEF InOrder, vars
  <1>3. ASSUME NEW time, Now(time)' PROVE Now(time) /\ stamp[t] <= time
    <2>1. CASE time = clock
      BY <2>1 DEF TableInv, Now
    <2>2. ASSUME NEW u \in Threads, pc'[u] # "idle", time = stamp'[u]
          PROVE  Now(time) /\ stamp[t] <= time
      <3>1. pc[u] # "idle" /\ stamp'[u] = stamp[u]
        BY <1>1, <2>2
      <3> QED
        BY <1>2, <2>2, <3>1 DEF Now
    <2> QED
      BY <1>3, <2>1, <2>2 DEF Now
  <1>4. \A s \in Threads : stamp'[s] <= clock'
    BY <1>1 DEF TableInv
  <1> QED
    BY <1>1, <1>3, <1>4

LEMMA TableNext == TypeOK /\ TableInv /\ [Next]_vars /\ [InOrder]_vars => TableInv'
  <1> SUFFICES ASSUME TypeOK, TableInv, [Next]_vars, [InOrder]_vars
               PROVE  TableInv'
    OBVIOUS
  <1>0. TypeOK'
    BY TypeNext
  <1> USE TTLAssumption, MaxTimeAssumption DEF TypeOK, TableInv, Now, Times,
          Absent
  <1>1. CASE Tick
    BY <1>1 DEF Tick
  <1>2. ASSUME NEW t \in Threads, BeginCheck(t) \/ BeginEvict(t)
        PROVE  TableInv'
    BY <1>2 DEF BeginCheck, BeginEvict, Begin
  <1>3. ASSUME NEW t \in Threads, Reject(t) PROVE TableInv'
    BY <1>3 DEF Reject, Return
  <1>4. ASSUME NEW t \in Threads, Accept(t) PROVE TableInv'
    <2> DEFINE h == arg[t]
               now == stamp[t]
    <2>1. /\ h \in Hashes /\ now \in 0..MaxTime /\ Now(now)
          /\ clock' = clock /\ clock \in 0..MaxTime /\ now <= clock
          /\ seen' = [seen EXCEPT ![h] = now]
          /\ accepts' = accepts \cup {<<h, now>>}
      BY <1>4, CheckArg DEF Accept
    <2>2. /\ \A time : Now(time)' => Now(time) /\ now <= time
          /\ stamp' = [stamp EXCEPT ![t] = 0]
          /\ \A s \in Threads : stamp'[s] <= clock'
      BY <1>4, <2>1, NowMovesOn DEF Accept
    <2>3. \A a \in accepts : a[2] <= now
      BY <2>1
    <2>4. \A s \in Threads : stamp'[s] <= clock'
      BY <2>2
    <2>5. ASSUME NEW time \in Times, Now(time)', NEW a \in accepts'
          PROVE  a[2] <= time /\ (seen'[a[1]] = Absent => time - a[2] >= TTL)
      <3>1. Now(time) /\ now <= time
        BY <2>2, <2>5
      <3>2. CASE a = <<h, now>>
        BY <2>1, <3>1, <3>2
      <3>3. CASE a \in accepts
        <4>1. a[1] \in Hashes /\ seen'[a[1]] = Absent => seen[a[1]] = Absent
          BY <2>1, <3>3
        <4> QED
          BY <3>1, <3>3, <4>1
      <3> QED
        BY <2>1, <3>2, <3>3
    <2>6. ASSUME NEW a \in accepts', seen'[a[1]] # Absent
          PROVE  a[2] <= seen'[a[1]]
      BY <2>1, <2>3, <2>6
    <2>7. ASSUME NEW g \in Hashes, seen'[g] # Absent
          PROVE  <<g, seen'[g]>> \in accepts'
      BY <2>1, <2>7
    <2> QED
      BY <2>4, <2>5, <2>6, <2>7
  <1>5. ASSUME NEW t \in Threads, Evict(t) PROVE TableInv'
    <2> DEFINE now == stamp[t]
    <2>1. /\ now \in 0..MaxTime /\ Now(now)
          /\ clock' = clock /\ clock \in 0..MaxTime /\ now <= clock
          /\ accepts' = accepts
      BY <1>5 DEF Evict
    <2>2. arg[t] \in Nat /\ arg[t] >= TTL
      BY <1>5, EvictArg DEF Evict
    <2>3. /\ \A time : Now(time)' => Now(time) /\ now <= time
          /\ stamp' = [stamp EXCEPT ![t] = 0]
          /\ \A s \in Threads : stamp'[s] <= clock'
      BY <1>5, <2>1, NowMovesOn DEF Evict
    <2>4. \A g \in Hashes :
              \/ seen'[g] = seen[g]
              \/ /\ seen'[g] = Absent /\ seen[g] # Absent
                 /\ ~YoungerThan(seen[g], now, arg[t])
      BY <1>5 DEF Evict
    <2>5. ASSUME NEW time \in Times, Now(time)', NEW a \in accepts'
          PROVE  a[2] <= time /\ (seen'[a[1]] = Absent => time - a[2] >= TTL)
      <3>1. /\ Now(time) /\ now <= time /\ a \in accepts /\ a[1] \in Hashes
            /\ a[2] \in 0..MaxTime
        BY <2>1, <2>3, <2>5
      <3>2. CASE seen'[a[1]] = seen[a[1]]
        BY <2>1, <3>1, <3>2
      <3>3. CASE /\ seen[a[1]] # Absent
                 /\ ~YoungerThan(seen[a[1]], now, arg[t])
        <4>1. /\ seen[a[1]] \in 0..MaxTime /\ a[2] <= seen[a[1]]
              /\ <<a[1], seen[a[1]]>> \in accepts
          BY <3>1, <3>3
        <4>2. seen[a[1]] <= now
          BY <2>1, <4>1
        <4>3. now - seen[a[1]] >= arg[t]
          BY <2>1, <2>2, <3>3, <4>1, <4>2 DEF YoungerThan
        <4> QED
          BY <2>1, <2>2, <3>1, <4>1, <4>2, <4>3
      <3> QED
        BY <2>4, <3>1, <3>2, <3>3
    <2>6. \A s \in Threads : stamp'[s] <= clock'
      BY <2>3
    <2> QED
      BY <2>1, <2>4, <2>5, <2>6
  <1>6. ASSUME NEW t \in Threads, Clear(t) PROVE TableInv'
    BY <1>6 DEF Clear
  <1>7. CASE UNCHANGED vars
    BY <1>7 DEF vars
  <1> QED
    BY <1>1, <1>2, <1>3, <1>4, <1>5, <1>6, <1>7 DEF Next

LEMMA TableInit == Init => TableInv
  BY MaxTimeAssumption DEF Init, TableInv, Now, Times, Absent

-----------------------------------------------------------------------------
(* Refinement.                                                             *)

\* Every step of the ledger is a check or a clear of the abstract window, or
\* leaves its history and its answers alone.
LEMMA StepRefines ==
    ASSUME TypeOK, TableInv, [Next]_vars
    PROVE  [Window!Next]_<<accepts, answer>>
  <1>1. ASSUME NEW t \in Threads, Reject(t) PROVE Window!Next
    <2>1. arg[t] \in Hashes /\ stamp[t] \in Times
      BY <1>1, CheckArg DEF Reject, TypeOK
    <2>2. Window!Replayed(arg[t], stamp[t])
      BY <1>1, TableDecides DEF Reject
    <2>3. Window!Check(arg[t], stamp[t])
      BY <1>1, <2>2 DEF Reject, Answer, Window!Check
    <2> QED
      BY <2>1, <2>3 DEF Window!Next
  <1>2. ASSUME NEW t \in Threads, Accept(t) PROVE Window!Next
    <2>1. arg[t] \in Hashes /\ stamp[t] \in Times
      BY <1>2, CheckArg DEF Accept, TypeOK
    <2>2. ~Window!Replayed(arg[t], stamp[t])
      BY <1>2, TableDecides DEF Accept
    <2>3. Window!Check(arg[t], stamp[t])
      BY <1>2, <2>2 DEF Accept, Answer, Window!Check
    <2> QED
      BY <2>1, <2>3 DEF Window!Next
  <1>3. ASSUME NEW t \in Threads, Clear(t) PROVE Window!Next
    BY <1>3 DEF Clear, Window!Clear, Window!Next
  <1>4. ASSUME NEW t \in Threads, BeginCheck(t) \/ BeginEvict(t) \/ Evict(t)
        PROVE  UNCHANGED <<accepts, answer>>
    BY <1>4 DEF BeginCheck, BeginEvict, Begin, Evict
  <1>5. ASSUME Tick \/ UNCHANGED vars PROVE UNCHANGED <<accepts, answer>>
    BY <1>5 DEF Tick, vars
  <1> QED
    BY <1>1, <1>2, <1>3, <1>4, <1>5 DEF Next

\* Every call is given the hash or age it works with and holds it until the
\* lock lets it in, whatever the number of threads: insert_and_check and
\* evict_expired.
THEOREM LedgerTyped == Spec => []TypeOK
  BY TypeInit, TypeNext, PTL DEF Spec

\* However many threads call it: as long as they get the mutex in the order in
\* which they read the clock, the ledger answers every check as one would that
\* forgets nothing, however the entries are overwritten and evicted. The order
\* is all it takes; insert_and_check reads the clock too early to ensure it.
THEOREM OrderedLedgerImplementsWindow ==
    Spec /\ [][InOrder]_vars => ImplementsWindow
  <1>1. Init => Window!Init
    BY DEF Init, Window!Init
  <1>2. TypeOK /\ TableInv /\ [Next]_vars /\ [InOrder]_vars => TableInv'
    BY TableNext
  <1>3. TypeOK /\ TableInv /\ [Next]_vars => [Window!Next]_<<accepts, answer>>
    BY StepRefines
  <1> QED
    BY <1>1, <1>2, <1>3, TypeInit, TypeNext, TableInit, PTL
    DEF Spec, ImplementsWindow, Window!Spec

\* In that order no two acceptances of a hash are less than the window apart,
\* whichever threads they were made by.
THEOREM OrderedAcceptancesApart == Spec /\ [][InOrder]_vars => AcceptancesApart
  <1> DEFINE Apart ==
        \A t \in Threads : Accepts(t) =>
            \A a \in accepts : a[1] = arg[t] =>
                \/ stamp[t] - a[2] >= TTL
                \/ a[2] - stamp[t] >= TTL
  <1>1. TypeOK /\ TableInv /\ [Next]_vars /\ [InOrder]_vars => TableInv'
    BY TableNext
  <1>2. ASSUME TypeOK, TableInv, [Next]_vars PROVE [Apart]_vars
    <2> SUFFICES ASSUME NEW t \in Threads, Accepts(t), NEW a \in accepts,
                        a[1] = arg[t]
                 PROVE  stamp[t] - a[2] >= TTL
      OBVIOUS
    <2>1. Accept(t)
      <3>0. pc[t] = "check" /\ pc'[t] = "idle" /\ pc \in [Threads -> {"idle", "check", "evict"}]
        BY <1>2 DEF Accepts, TypeOK
      <3>1. ASSUME NEW u \in Threads, Accept(u) \/ Reject(u) \/ Evict(u) PROVE u = t
        <4>1. pc' = [pc EXCEPT ![u] = "idle"]
          BY <3>1 DEF Accept, Reject, Evict, Return
        <4> QED
          BY <3>0, <4>1
      <3>2. ~(Reject(t) \/ Evict(t))
        BY DEF Accepts, Reject, Evict, Answer
      <3>3. ASSUME NEW u \in Threads, BeginCheck(u) \/ BeginEvict(u) \/ Clear(u)
            PROVE  FALSE
        <4>1. \/ pc' = pc
              \/ pc[u] = "idle" /\ \E what \in {"check", "evict"} :
                                     pc' = [pc EXCEPT ![u] = what]
          BY <3>3 DEF BeginCheck, BeginEvict, Begin, Clear
        <4> QED
          BY <3>0, <4>1
      <3>4. ASSUME Tick \/ UNCHANGED vars PROVE FALSE
        BY <3>4 DEF Accepts, Tick, vars
      <3> QED
        BY <1>2, <3>1, <3>2, <3>3, <3>4 DEF Next
    <2>2. ~Window!Replayed(arg[t], stamp[t])
      BY <1>2, <2>1, TableDecides DEF Accept
    <2>3. a[2] \in 0..MaxTime /\ stamp[t] \in 0..MaxTime /\ a[2] <= stamp[t]
      BY <1>2, <2>1 DEF TypeOK, TableInv, Now, Times, Accept
    <2> QED
      BY <2>2, <2>3, TTLAssumption, MaxTimeAssumption DEF Window!Replayed
  <1> QED
    BY <1>1, <1>2, TypeInit, TypeNext, TableInit, PTL
    DEF Spec, AcceptancesApart

\* The engine starts one crypto worker, and one thread is always in order.
OneThread == \A s, t \in Threads : s = t

LEMMA OneThreadInOrder == OneThread /\ TypeOK => InOrder
  <1> SUFFICES ASSUME OneThread, TypeOK,
                      NEW t \in Threads, NEW u \in Threads
               PROVE  stamp[t] <= stamp[u]
    BY DEF InOrder
  <1>1. t = u /\ stamp[t] \in Int
    BY MaxTimeAssumption DEF OneThread, TypeOK, Times
  <1> QED
    BY <1>1

\* Run by one thread, the ledger implements the abstract window.
THEOREM SerialLedgerImplementsWindow == OneThread => (Spec => ImplementsWindow)
  <1> SUFFICES ASSUME OneThread PROVE Spec => ImplementsWindow
    OBVIOUS
  <1>1. TypeOK => [InOrder]_vars
    BY OneThreadInOrder
  <1> QED
    BY <1>1, LedgerTyped, OrderedLedgerImplementsWindow, PTL

\* Run by one thread, the ledger never accepts a hash twice within the window.
THEOREM SerialAcceptancesApart == OneThread => (Spec => AcceptancesApart)
  <1> SUFFICES ASSUME OneThread PROVE Spec => AcceptancesApart
    OBVIOUS
  <1>1. TypeOK => [InOrder]_vars
    BY OneThreadInOrder
  <1> QED
    BY <1>1, LedgerTyped, OrderedAcceptancesApart, PTL

=============================================================================
