------------------------------ MODULE AntiReplay ------------------------------
(***************************************************************************)
(* AntiReplayLedger: the table of payload hashes seen by the crypto        *)
(* workers. insert_and_check and evict_expired read the clock BEFORE they  *)
(* take the mutex, so the time a call compares with may be older than the  *)
(* entries it finds; the comparison is unsigned.                           *)
(***************************************************************************)
EXTENDS Integers

CONSTANTS
    Hashes,     \* payload hashes
    TTL,        \* TTL_US
    Threads,    \* threads that call the ledger
    EvictTTLs,  \* ttl_us values evict_expired is called with
    MaxTime     \* bound on the clock

ASSUME TTLAssumption == TTL \in Nat \ {0}

\* A caller that evicts entries younger than TTL asks to forget them early.
ASSUME EvictAssumption == EvictTTLs \subseteq Nat /\ \A e \in EvictTTLs : e >= TTL

ASSUME MaxTimeAssumption == MaxTime \in Nat

VARIABLES
    clock,    \* system clock in units of TTL_US / TTL
    seen,     \* seen_hashes_: time of each hash, Absent if not in the map
    pc,       \* what each thread is doing
    stamp,    \* now_microseconds() as read by the thread's call
    arg,      \* hash of its check or ttl_us of its eviction
    accepts,  \* history: every acceptance since the last clear
    answer    \* history: the last answer

vars == <<clock, seen, pc, stamp, arg, accepts, answer>>

Absent == -1
NoArg  == -1

Times == 0..MaxTime

Window == INSTANCE ReplayWindow

Init ==
    /\ clock = 0
    /\ seen = [h \in Hashes |-> Absent]
    /\ pc = [t \in Threads |-> "idle"]
    /\ stamp = [t \in Threads |-> 0]
    /\ arg = [t \in Threads |-> NoArg]
    /\ accepts = {}
    /\ answer = Window!NoAnswer

\* Slip: the window includes its end.
YoungerOrAsOld(entry, timestamp, ttl) ==
    entry <= timestamp /\ timestamp - entry <= ttl

\* timestamp - entry < ttl on unsigned integers: an entry ahead of the
\* timestamp makes the difference wrap round to more than any ttl.
YoungerThan(entry, timestamp, ttl) ==
    entry <= timestamp /\ timestamp - entry < ttl

Tick ==
    /\ clock < MaxTime
    /\ clock' = clock + 1
    /\ UNCHANGED <<seen, pc, stamp, arg, accepts, answer>>

\* A call begins: it reads the clock and then waits for the mutex. (The form
\* of insert_and_check that is given its time has no caller in the program.)
Begin(t, what, a) ==
    /\ pc[t] = "idle"
    /\ pc' = [pc EXCEPT ![t] = what]
    /\ stamp' = [stamp EXCEPT ![t] = clock]
    /\ arg' = [arg EXCEPT ![t] = a]
    /\ UNCHANGED <<clock, seen, accepts, answer>>

BeginCheck(t) == \E h \in Hashes : Begin(t, "check", h)

\* Slip: the caller rounds its ttl_us down.
BeginEvictEarly(t) == \E e \in EvictTTLs : Begin(t, "evict", e - 1)

BeginEvict(t) == \E e \in EvictTTLs : Begin(t, "evict", e)

Return(t) ==
    /\ pc' = [pc EXCEPT ![t] = "idle"]
    /\ stamp' = [stamp EXCEPT ![t] = 0]
    /\ arg' = [arg EXCEPT ![t] = NoArg]

IsReplay(t) ==
    /\ seen[arg[t]] # Absent
    /\ YoungerThan(seen[arg[t]], stamp[t], TTL)

Answer(t, ok) ==
    answer' = [hash |-> arg[t], time |-> stamp[t], accepted |-> ok]

\* The rest of insert_and_check, under the mutex.
Reject(t) ==
    /\ pc[t] = "check" /\ IsReplay(t)
    /\ Answer(t, FALSE)
    /\ Return(t)
    /\ UNCHANGED <<clock, seen, accepts>>

\* Slip: an expired entry is accepted again without a new time.
AcceptUnrefreshed(t) ==
    /\ pc[t] = "check" /\ ~IsReplay(t)
    /\ seen' = [seen EXCEPT ![arg[t]] = IF @ = Absent THEN stamp[t] ELSE @]
    /\ accepts' = accepts \cup {<<arg[t], stamp[t]>>}
    /\ Answer(t, TRUE)
    /\ Return(t)
    /\ UNCHANGED clock

Accept(t) ==
    /\ pc[t] = "check" /\ ~IsReplay(t)
    /\ seen' = [seen EXCEPT ![arg[t]] = stamp[t]]
    /\ accepts' = accepts \cup {<<arg[t], stamp[t]>>}
    /\ Answer(t, TRUE)
    /\ Return(t)
    /\ UNCHANGED clock

\* The rest of evict_expired, under the mutex.
Evict(t) ==
    /\ pc[t] = "evict"
    /\ seen' = [h \in Hashes |->
                   IF seen[h] # Absent /\ YoungerThan(seen[h], stamp[t], arg[t])
                   THEN seen[h] ELSE Absent]
    /\ Return(t)
    /\ UNCHANGED <<clock, accepts, answer>>

Clear(t) ==
    /\ pc[t] = "idle"
    /\ seen' = [h \in Hashes |-> Absent]
    /\ accepts' = {}
    /\ UNCHANGED <<clock, pc, stamp, arg, answer>>

Next ==
    \/ Tick
    \/ \E t \in Threads :
           \/ BeginCheck(t) \/ Reject(t) \/ Accept(t)
           \/ BeginEvict(t) \/ Evict(t) \/ Clear(t)

Spec == Init /\ [][Next]_vars

-----------------------------------------------------------------------------
\* The table and the calls in progress only hold times the clock has shown,
\* and a call keeps the argument it was made with until it returns.
TypeOK ==
    /\ clock \in Times
    /\ seen \in [Hashes -> Times \cup {Absent}]
    /\ pc \in [Threads -> {"idle", "check", "evict"}]
    /\ stamp \in [Threads -> Times]
    /\ arg \in [Threads -> Hashes \cup EvictTTLs \cup {NoArg}]
    /\ \A t \in Threads :
           /\ pc[t] = "check" => arg[t] \in Hashes
           /\ pc[t] = "evict" => arg[t] \in EvictTTLs
    /\ accepts \subseteq Hashes \X Times

\* The call of thread t returns and says that its hash is new.
Accepts(t) == pc[t] = "check" /\ pc'[t] = "idle" /\ answer'.accepted

\* crypto_worker.cpp: the check is to "reject duplicate payloads within TTL
\* window": two acceptances of one hash are never less than TTL apart.
AcceptancesApart ==
    [][\A t \in Threads : Accepts(t) =>
          \A a \in accepts : a[1] = arg[t] =>
              \/ stamp[t] - a[2] >= TTL
              \/ a[2] - stamp[t] >= TTL]_vars

\* The ledger answers as one that remembers everything would, although it
\* keeps one time per hash and forgets what it evicts.
ImplementsWindow == Window!Spec

=============================================================================
