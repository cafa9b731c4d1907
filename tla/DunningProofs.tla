---------------------------- MODULE DunningProofs ----------------------------
(***************************************************************************)
(* Proofs about DunningEngine: the typing of its state, that no charge is  *)
(* lost or doubled, that no retry is early, that the worker does not sleep *)
(* over a charge, and what is left to do of a stop and of a charge.        *)
(***************************************************************************)
EXTENDS DunningEngine, TLAPS

-----------------------------------------------------------------------------
(* Delays and ageing.                                                      *)

\* BackoffStrategy has a longest delay, and no delay exceeds it.
LEMMA MaxDelayIsMax ==
    MaxDelay \in Nat /\ \A n \in Nat : NextDelay(n) \in Nat /\ NextDelay(n) <= MaxDelay
<1> DEFINE D == {Backoff[i] : i \in 1..4}
           IsMax(d) == \A i \in 1..4 : Backoff[i] <= d
<1>1. Backoff[1] \in Nat /\ Backoff[2] \in Nat /\ Backoff[3] \in Nat /\ Backoff[4] \in Nat
  BY BackoffAssumption
<1>2. \A i \in 1..4 : i = 1 \/ i = 2 \/ i = 3 \/ i = 4
  OBVIOUS
<1>3. \E d \in D : IsMax(d)
  <2>1. Backoff[1] \in D /\ Backoff[2] \in D /\ Backoff[3] \in D /\ Backoff[4] \in D
    OBVIOUS
  <2>2. \E d \in D : /\ Backoff[1] <= d /\ Backoff[2] <= d
                     /\ Backoff[3] <= d /\ Backoff[4] <= d
    <3> HIDE DEF D
    <3> QED BY <1>1, <2>1
  <2> QED BY <2>2, <1>2
<1>4. MaxDelay \in D /\ IsMax(MaxDelay)
  BY <1>3 DEF MaxDelay
<1>5. MaxDelay \in Nat
  BY <1>4, <1>1, <1>2
<1>6. ASSUME NEW n \in Nat PROVE NextDelay(n) \in Nat /\ NextDelay(n) <= MaxDelay
  <2>1. \/ NextDelay(n) = Backoff[1] \/ NextDelay(n) = Backoff[2]
        \/ NextDelay(n) = Backoff[3] \/ NextDelay(n) = Backoff[4]
    BY DEF NextDelay
  <2>2. /\ Backoff[1] <= MaxDelay /\ Backoff[2] <= MaxDelay
        /\ Backoff[3] <= MaxDelay /\ Backoff[4] <= MaxDelay
    BY <1>4
  <2> QED BY <1>1, <2>1, <2>2
<1> QED BY <1>5, <1>6

\* A fresh charge is a charge.
LEMMA ChargeIsCharge ==
    ASSUME NEW tx \in Txs, NEW n \in Nat
    PROVE  /\ Charge(tx, n) \in Charges
           /\ Charge(tx, n).tx = tx /\ Charge(tx, n).attempt = n
           /\ Charge(tx, n).left = NextDelay(n)
BY MaxDelayIsMax DEF Charge, Charges

LEMMA SoonerIsInt == \A l \in Int : Sooner(l) \in Int /\ Sooner(l) <= l /\ l - 1 <= Sooner(l)
BY MaxLateAssumption DEF Sooner

\* Age lowers the time left of each charge and leaves the rest of it alone.
LEMMA AgeFacts ==
    ASSUME NEW S, S \subseteq Charges
    PROVE  /\ Age(S) \subseteq Charges
           /\ \A c \in Age(S) : \E d \in S :
                 c.tx = d.tx /\ c.attempt = d.attempt /\ c.left = Sooner(d.left)
                 /\ c = [d EXCEPT !.left = Sooner(d.left)]
           /\ \A d \in S : \E c \in Age(S) : c.tx = d.tx
           /\ (Age(S) = {}) = (S = {})
<1>1. ASSUME NEW d \in S
      PROVE  LET c == [d EXCEPT !.left = Sooner(d.left)]
             IN c \in Charges /\ c.tx = d.tx /\ c.attempt = d.attempt /\ c.left = Sooner(d.left)
  BY SoonerIsInt DEF Charges
<1>2. ASSUME NEW c \in Age(S)
      PROVE  \E d \in S :
                /\ c.tx = d.tx /\ c.attempt = d.attempt /\ c.left = Sooner(d.left)
                /\ c = [d EXCEPT !.left = Sooner(d.left)] /\ c \in Charges
  <2>1. PICK d \in S : c = [d EXCEPT !.left = Sooner(d.left)]
    BY DEF Age
  <2> QED BY <1>1, <2>1
<1>3. ASSUME NEW d \in S PROVE \E c \in Age(S) : c.tx = d.tx
  BY <1>1 DEF Age
<1> QED BY <1>2, <1>3

-----------------------------------------------------------------------------
(* Typing and conservation, which hold one another up.                     *)

OneInHand == \A c, d \in hand : c = d

Inv == TypeOK /\ ChargesConserved /\ OneInHand

LEMMA InitInv == Init => Inv
<1> SUFFICES ASSUME Init PROVE Inv
  OBVIOUS
<1>1. since \in [Txs -> 0..MaxDelay]
  BY MaxDelayIsMax DEF Init
<1>2. TypeOK
  <2>1. /\ running \in BOOLEAN /\ (running <=> spc = "idle")
        /\ hand # {} <=> wpc \in {"retry", "requeue"}
    BY DEF Init
  <2>2. queue \subseteq Charges /\ hand \subseteq Charges /\ calls \subseteq Charges
    BY DEF Init
  <2> QED BY <1>1, <2>1, <2>2 DEF Init, TypeOK
<1>3. Pending = {}
  BY DEF Init, Pending
<1>4. ChargesConserved
  BY <1>3 DEF Init, ChargesConserved
<1> QED BY <1>2, <1>4 DEF Init, Inv, OneInHand

\* A step that leaves the charges where they are.
LEMMA ChargesUntouched ==
    ASSUME Inv, UNCHANGED <<queue, hand, calls, scheduled, recovered>>
    PROVE  ChargesConserved' /\ OneInHand'
BY DEF Inv, ChargesConserved, OneInHand, Pending

LEMMA TickKeepsInv == ASSUME Inv, Tick PROVE Inv'
<1> USE DEF Inv
<1>1. queue \subseteq Charges /\ hand \subseteq Charges /\ calls \subseteq Charges
  BY DEF TypeOK
<1>2. /\ queue' = Age(queue) /\ hand' = Age(hand) /\ calls' = Age(calls)
      /\ scheduled' = scheduled /\ recovered' = recovered
  BY DEF Tick
<1>3. since' \in [Txs -> 0..MaxDelay]
  BY MaxDelayIsMax DEF Tick, TypeOK
<1>4. deadline' \in Int
  BY SoonerIsInt DEF Tick, TypeOK
<1>5. TypeOK'
  <2>1. /\ Age(queue) \subseteq Charges /\ Age(hand) \subseteq Charges
        /\ Age(calls) \subseteq Charges /\ (Age(hand) = {}) = (hand = {})
    BY <1>1, AgeFacts
  <2> QED BY <1>2, <1>3, <1>4, <2>1 DEF Tick, TypeOK, stopVars
<1>6. \A c \in Pending' : \E d \in Pending :
          c.tx = d.tx /\ c = [d EXCEPT !.left = Sooner(d.left)]
  BY <1>1, <1>2, AgeFacts DEF Pending
<1>7. \A d \in Pending : \E c \in Pending' : c.tx = d.tx
  BY <1>1, <1>2, AgeFacts DEF Pending
<1>8. \A c, d \in Pending' : c.tx = d.tx => c = d
  BY <1>6 DEF ChargesConserved
<1>9. /\ \A c \in queue' : \E d \in queue : c.tx = d.tx
      /\ \A c \in hand' : \E d \in hand : c.tx = d.tx
      /\ \A c \in calls' : \E d \in calls : c.tx = d.tx
  BY <1>1, <1>2, AgeFacts
<1>10. /\ \A c \in queue, d \in hand : c.tx # d.tx
       /\ \A c \in queue, d \in calls : c.tx # d.tx
       /\ \A c \in hand, d \in calls : c.tx # d.tx
  BY DEF ChargesConserved, Pending
<1>11. queue' \cap hand' = {} /\ queue' \cap calls' = {} /\ hand' \cap calls' = {}
  BY <1>9, <1>10
<1>12. {c.tx : c \in Pending'} = {c.tx : c \in Pending}
  BY <1>6, <1>7
<1>13. ChargesConserved'
  BY <1>2, <1>6, <1>8, <1>11, <1>12 DEF ChargesConserved
<1>14. OneInHand'
  BY <1>2, <1>1, AgeFacts, <1>8 DEF OneInHand, Pending
<1> QED BY <1>5, <1>13, <1>14

LEMMA ScheduleKeepsInv ==
    ASSUME Inv, NEW tx \in Txs, NEW n \in Attempts, ScheduleRetry(tx, n)
    PROVE  Inv'
<1> DEFINE new == Charge(tx, n)
<1>1. new \in Charges /\ new.tx = tx
  BY ChargeIsCharge, AttemptsAssumption
<1>2. /\ queue' = queue /\ hand' = hand /\ calls' = calls \cup {new}
      /\ scheduled' = scheduled \cup {tx} /\ recovered' = recovered
      /\ tx \notin scheduled
  BY DEF ScheduleRetry, workerVars
<1> HIDE DEF new
<1>3. Pending' = Pending \cup {new}
  BY <1>2 DEF Pending
<1>4. \A c \in Pending : c.tx # tx
  BY <1>2 DEF Inv, ChargesConserved
<1>5. TypeOK'
  BY <1>1, <1>2, MaxDelayIsMax DEF Inv, TypeOK, ScheduleRetry, workerVars, stopVars
<1>6. ChargesConserved'
  <2>1. scheduled' = recovered' \cup {c.tx : c \in Pending'}
    BY <1>1, <1>2, <1>3 DEF Inv, ChargesConserved
  <2>2. \A c \in Pending' : c.tx \notin recovered'
    BY <1>1, <1>2, <1>3 DEF Inv, ChargesConserved, TypeOK
  <2>3. \A c, d \in Pending' : c.tx = d.tx => c = d
    BY <1>1, <1>3, <1>4 DEF Inv, ChargesConserved
  <2>4. queue' \cap hand' = {} /\ queue' \cap calls' = {} /\ hand' \cap calls' = {}
    BY <1>1, <1>2, <1>4 DEF Inv, ChargesConserved, Pending
  <2> QED BY <2>1, <2>2, <2>3, <2>4 DEF ChargesConserved
<1>7. OneInHand'
  BY <1>2 DEF Inv, OneInHand
<1> QED BY <1>5, <1>6, <1>7 DEF Inv

LEMMA PushKeepsInv == ASSUME Inv, NEW c \in calls, Push(c) PROVE Inv'
<1>1. /\ queue' = queue \cup {c} /\ calls' = calls \ {c} /\ hand' = hand
      /\ scheduled' = scheduled /\ recovered' = recovered
      /\ notifying' = notifying \cup {c.tx}
  BY DEF Push, workerVars, history
<1>2. Pending' = Pending
  BY <1>1 DEF Pending
<1>3. c.tx \in scheduled
  BY DEF Inv, ChargesConserved, Pending
<1>4. TypeOK'
  BY <1>1, <1>3 DEF Inv, TypeOK, Push, workerVars, stopVars, history
<1>5. ChargesConserved'
  BY <1>1, <1>2 DEF Inv, ChargesConserved
<1>6. OneInHand'
  BY <1>1 DEF Inv, OneInHand
<1> QED BY <1>4, <1>5, <1>6 DEF Inv

LEMMA TakeDueKeepsInv == ASSUME Inv, TakeDue PROVE Inv'
<1>1. PICK c \in queue : queue' = queue \ {c} /\ hand' = {c}
  BY DEF TakeDue
<1>2. /\ calls' = calls /\ scheduled' = scheduled /\ recovered' = recovered
      /\ hand = {}
  BY DEF TakeDue, callerVars, history, Inv, TypeOK
<1>3. Pending' = Pending
  BY <1>1, <1>2 DEF Pending
<1>4. TypeOK'
  BY <1>1 DEF Inv, TypeOK, TakeDue, callerVars, stopVars, history
<1>5. ChargesConserved'
  BY <1>1, <1>2, <1>3 DEF Inv, ChargesConserved
<1>6. OneInHand'
  BY <1>1 DEF OneInHand
<1> QED BY <1>4, <1>5, <1>6 DEF Inv

LEMMA SucceedKeepsInv == ASSUME Inv, Succeed PROVE Inv'
<1>1. PICK c \in hand : recovered' = recovered \cup {c.tx}
  BY DEF Succeed
<1>2. hand = {c}
  BY DEF Inv, OneInHand
<1>3. /\ queue' = queue /\ calls' = calls /\ hand' = {} /\ scheduled' = scheduled
  BY DEF Succeed, callerVars
<1>4. c.tx \in scheduled
  BY DEF Inv, ChargesConserved, Pending
<1>5. Pending = Pending' \cup {c} /\ Pending' = queue \cup calls
  BY <1>2, <1>3 DEF Pending
<1>6. \A d \in Pending' : d.tx # c.tx
  BY <1>2, <1>5 DEF Inv, ChargesConserved
<1>7. TypeOK'
  BY <1>1, <1>3, <1>4 DEF Inv, TypeOK, Succeed, callerVars, stopVars
<1>8. ChargesConserved'
  <2>1. scheduled' = recovered' \cup {d.tx : d \in Pending'}
    BY <1>1, <1>3, <1>5 DEF Inv, ChargesConserved
  <2>2. \A d \in Pending' : d.tx \notin recovered'
    BY <1>1, <1>5, <1>6 DEF Inv, ChargesConserved
  <2> QED BY <1>3, <1>5, <2>1, <2>2 DEF Inv, ChargesConserved
<1>9. OneInHand'
  BY <1>3 DEF OneInHand
<1> QED BY <1>7, <1>8, <1>9 DEF Inv

LEMMA FailKeepsInv == ASSUME Inv, Fail PROVE Inv'
<1>1. PICK c \in hand : /\ hand' = {Charge(c.tx, c.attempt + 1)}
                        /\ since' = [since EXCEPT ![c.tx] = 0]
  BY DEF Fail
<1> DEFINE new == Charge(c.tx, c.attempt + 1)
<1>2. hand = {c} /\ c \in Charges
  BY DEF Inv, OneInHand, TypeOK
<1>3. new \in Charges /\ new.tx = c.tx
  <2>1. c.tx \in Txs /\ c.attempt + 1 \in Nat
    BY <1>2 DEF Charges
  <2> QED BY <2>1, ChargeIsCharge
<1>4. hand' = {new}
  BY <1>1
<1> HIDE DEF new
<1>5. /\ queue' = queue /\ calls' = calls /\ scheduled' = scheduled
      /\ recovered' = recovered
  BY DEF Fail, callerVars
<1>6. \A d \in queue \cup calls : d.tx # c.tx
  BY <1>2 DEF Inv, ChargesConserved, Pending
<1>7. TypeOK'
  <2>1. since' \in [Txs -> 0..MaxDelay]
    <3>1. since' = [since EXCEPT ![c.tx] = 0]
      BY <1>1
    <3>2. since \in [Txs -> 0..MaxDelay] /\ 0 \in 0..MaxDelay
      BY MaxDelayIsMax DEF Inv, TypeOK
    <3> QED BY <3>1, <3>2
  <2>2. hand' \subseteq Charges /\ hand' # {}
    BY <1>3, <1>4
  <2>3. /\ wpc' = "requeue" /\ deadline' = deadline /\ notifying' = notifying
        /\ running' = running /\ spc' = spc
    BY DEF Fail, callerVars, stopVars
  <2>4. hand' # {} <=> wpc' \in {"retry", "requeue"}
    BY <2>2, <2>3
  <2> QED BY <1>5, <2>1, <2>2, <2>3, <2>4 DEF Inv, TypeOK
<1>8. {d.tx : d \in Pending'} = {d.tx : d \in Pending}
  BY <1>2, <1>3, <1>4, <1>5 DEF Pending
<1>9. ChargesConserved'
  <2>1. Pending' = queue \cup calls \cup {new} /\ Pending = queue \cup calls \cup {c}
    BY <1>2, <1>4, <1>5 DEF Pending
  <2>2. \A d \in Pending' : d.tx \notin recovered'
    BY <1>3, <1>5, <2>1 DEF Inv, ChargesConserved
  <2>3. \A d, e \in Pending' : d.tx = e.tx => d = e
    BY <1>3, <1>6, <2>1 DEF Inv, ChargesConserved
  <2>4. queue' \cap hand' = {} /\ queue' \cap calls' = {} /\ hand' \cap calls' = {}
    BY <1>3, <1>4, <1>5, <1>6 DEF Inv, ChargesConserved
  <2> QED BY <1>5, <1>8, <2>2, <2>3, <2>4 DEF Inv, ChargesConserved
<1>10. OneInHand'
  BY <1>4 DEF OneInHand
<1> QED BY <1>7, <1>9, <1>10 DEF Inv

LEMMA RequeueKeepsInv == ASSUME Inv, Requeue PROVE Inv'
<1>1. /\ queue' = queue \cup hand /\ hand' = {} /\ calls' = calls
      /\ scheduled' = scheduled /\ recovered' = recovered
  BY DEF Requeue, callerVars, history
<1>2. Pending' = Pending
  BY <1>1 DEF Pending
<1>3. TypeOK'
  BY <1>1 DEF Inv, TypeOK, Requeue, callerVars, stopVars, history
<1>4. ChargesConserved'
  BY <1>1, <1>2 DEF Inv, ChargesConserved
<1> QED BY <1>1, <1>3, <1>4 DEF Inv, OneInHand

\* The remaining steps move no charge.
LEMMA NextKeepsInv == ASSUME Inv, [Next]_vars PROVE Inv'
<1> USE DEF workerVars, callerVars, stopVars, history
<1>1. CASE Tick BY <1>1, TickKeepsInv
<1>2. ASSUME NEW tx \in Txs, NEW n \in Attempts, ScheduleRetry(tx, n) PROVE Inv'
  BY <1>2, ScheduleKeepsInv
<1>3. ASSUME NEW c \in calls, Push(c) PROVE Inv'
  BY <1>3, PushKeepsInv
<1>4. ASSUME NEW tx \in notifying, NotifyOne(tx) PROVE Inv'
  <2>1. ChargesConserved' /\ OneInHand' BY <1>4, ChargesUntouched DEF NotifyOne
  <2> QED BY <1>4, <2>1 DEF Inv, TypeOK, NotifyOne, Notify
<1>5. CASE TestRunning \/ FindNothing \/ Block \/ TimeOut \/ Awake
  <2>1. ChargesConserved' /\ OneInHand'
    BY <1>5, ChargesUntouched DEF TestRunning, FindNothing, Block, TimeOut, Awake
  <2>2. CASE TestRunning BY <2>2, <2>1 DEF Inv, TypeOK, TestRunning
  <2>3. CASE FindNothing BY <2>3, <2>1 DEF Inv, TypeOK, FindNothing
  <2>4. CASE Block BY <2>4, <2>1 DEF Inv, TypeOK, Block, Locked
  <2>5. CASE TimeOut BY <2>5, <2>1 DEF Inv, TypeOK, TimeOut
  <2>6. CASE Awake BY <2>6, <2>1 DEF Inv, TypeOK, Awake
  <2> QED BY <1>5, <2>2, <2>3, <2>4, <2>5, <2>6
<1>6. CASE TakeDue BY <1>6, TakeDueKeepsInv
<1>7. CASE FindEarly
  <2>1. ChargesConserved' /\ OneInHand' BY <1>7, ChargesUntouched DEF FindEarly
  <2>2. PICK c \in queue : deadline' = c.left BY <1>7 DEF FindEarly, Earliest
  <2>3. deadline' \in Int BY <2>2 DEF Inv, TypeOK, Charges
  <2> QED BY <1>7, <2>1, <2>3 DEF Inv, TypeOK, FindEarly
<1>8. CASE Succeed BY <1>8, SucceedKeepsInv
<1>9. CASE Fail BY <1>9, FailKeepsInv
<1>10. CASE Requeue BY <1>10, RequeueKeepsInv
<1>11. CASE WakeSpuriously
  <2>1. ChargesConserved' /\ OneInHand' BY <1>11, ChargesUntouched DEF WakeSpuriously
  <2> QED BY <1>11, <2>1 DEF Inv, TypeOK, WakeSpuriously, Notify
<1>12. CASE Exchange
  <2>1. ChargesConserved' /\ OneInHand' BY <1>12, ChargesUntouched DEF Exchange
  <2> QED BY <1>12, <2>1 DEF Inv, TypeOK, Exchange
<1>13. CASE NotifyAll
  <2>1. ChargesConserved' /\ OneInHand' BY <1>13, ChargesUntouched DEF NotifyAll
  <2> QED BY <1>13, <2>1 DEF Inv, TypeOK, NotifyAll, Notify
<1>14. CASE Join
  <2>1. ChargesConserved' /\ OneInHand' BY <1>14, ChargesUntouched DEF Join
  <2> QED BY <1>14, <2>1 DEF Inv, TypeOK, Join
<1>15. CASE UNCHANGED vars
  <2>1. ChargesConserved' /\ OneInHand' BY <1>15, ChargesUntouched DEF vars
  <2> QED BY <1>15, <2>1 DEF Inv, TypeOK, vars
<1> QED BY <1>1, <1>2, <1>3, <1>4, <1>5, <1>6, <1>7, <1>8, <1>9, <1>10, <1>11,
           <1>12, <1>13, <1>14, <1>15 DEF Next, CallerStep, WorkerStep

LEMMA InvHolds == Spec => []Inv
<1>1. Inv /\ [Next]_vars => Inv'
  BY NextKeepsInv
<1> QED BY InitInv, <1>1, PTL DEF Spec

\* The state of the engine keeps its types for every set of charges, every
\* attempt_count it is called with and every table of delays.
THEOREM DunningTyped == Spec => []TypeOK
<1>1. Inv => TypeOK BY DEF Inv
<1> QED BY InvHolds, <1>1, PTL

\* worker_loop and schedule_retry never lose a charge and never double one.
THEOREM NoChargeIsLost == Spec => []ChargesConserved
<1>1. Inv => ChargesConserved BY DEF Inv
<1> QED BY InvHolds, <1>1, PTL

-----------------------------------------------------------------------------
(* No retry is early.                                                      *)

\* What a charge has waited and has yet to wait make up the delay of its
\* attempt; what it has waited is enough by itself once the history is full.
DelayInv ==
    \A c \in Pending :
        \/ since[c.tx] >= NextDelay(c.attempt)
        \/ since[c.tx] + c.left >= NextDelay(c.attempt)

LEMMA PendingTypes ==
    ASSUME Inv
    PROVE  /\ since \in [Txs -> Nat]
           /\ \A c \in Pending : /\ c.tx \in Txs /\ c.attempt \in Nat /\ c.left \in Int
                                  /\ since[c.tx] \in Nat
                                  /\ NextDelay(c.attempt) \in Nat
                                  /\ NextDelay(c.attempt) <= MaxDelay
                                  /\ since[c.tx] <= MaxDelay
<1>1. Pending \subseteq Charges
  BY DEF Inv, TypeOK, Pending
<1>2. since \in [Txs -> 0..MaxDelay]
  BY DEF Inv, TypeOK
<1>3. \A c \in Pending : c.tx \in Txs /\ c.attempt \in Nat /\ c.left \in Int
  BY <1>1 DEF Charges
<1> QED BY <1>2, <1>3, MaxDelayIsMax

\* A step that puts no new charge and no new history there.
LEMMA DelayUntouched ==
    ASSUME DelayInv, Pending' \subseteq Pending, since' = since
    PROVE  DelayInv'
BY DEF DelayInv

LEMMA TickKeepsDelay ==
    ASSUME Inv, DelayInv, NotEarly, Tick
    PROVE  DelayInv' /\ NotEarly'
<1>1. \A c \in Pending' : \E d \in Pending :
          c.tx = d.tx /\ c.attempt = d.attempt /\ c.left = Sooner(d.left)
  BY AgeFacts DEF Inv, TypeOK, Tick, Pending
<1>2. \A c \in hand' : \E d \in hand : c.tx = d.tx /\ c.attempt = d.attempt
  BY AgeFacts DEF Inv, TypeOK, Tick
<1>3. \A tx \in Txs : since'[tx] = IF since[tx] < MaxDelay THEN since[tx] + 1
                                                            ELSE since[tx]
  BY DEF Tick
<1>4. ASSUME NEW c \in Pending'
      PROVE  \/ since'[c.tx] >= NextDelay(c.attempt)
             \/ since'[c.tx] + c.left >= NextDelay(c.attempt)
  <2>1. PICK d \in Pending :
            c.tx = d.tx /\ c.attempt = d.attempt /\ c.left = Sooner(d.left)
    BY <1>1
  <2> DEFINE was == since[d.tx]
             now == since'[d.tx]
             delay == NextDelay(d.attempt)
  <2>2. /\ was \in Nat /\ was <= MaxDelay /\ delay \in Nat /\ delay <= MaxDelay
        /\ d.left \in Int /\ d.tx \in Txs /\ MaxDelay \in Nat
    BY PendingTypes, MaxDelayIsMax
  <2>3. now = IF was < MaxDelay THEN was + 1 ELSE was
    BY <1>3, <2>2
  <2>4. c.left \in Int /\ d.left - 1 <= c.left
    BY <2>1, <2>2, SoonerIsInt
  <2>5. was >= delay \/ was + d.left >= delay
    BY DEF DelayInv
  <2>6. now >= delay \/ now + c.left >= delay
    <3> HIDE DEF was, now, delay
    <3> QED BY <2>2, <2>3, <2>4, <2>5
  <2> QED BY <2>1, <2>6
<1>5. ASSUME NEW c \in hand', wpc' = "retry"
      PROVE  since'[c.tx] >= NextDelay(c.attempt)
  <2>1. PICK d \in hand : c.tx = d.tx /\ c.attempt = d.attempt
    BY <1>2
  <2>2. since[d.tx] >= NextDelay(d.attempt)
    BY <1>5 DEF NotEarly, Tick
  <2>3. d \in Pending
    BY DEF Pending
  <2>4. /\ since[d.tx] \in Nat /\ NextDelay(d.attempt) \in Nat /\ d.tx \in Txs
        /\ MaxDelay \in Nat
    BY <2>3, PendingTypes, MaxDelayIsMax
  <2>5. since'[d.tx] = since[d.tx] \/ since'[d.tx] = since[d.tx] + 1
    BY <1>3, <2>4
  <2>6. since'[d.tx] >= NextDelay(d.attempt)
    BY <2>2, <2>4, <2>5
  <2> QED BY <2>1, <2>6
<1>6. DelayInv'
  BY <1>4 DEF DelayInv
<1>7. NotEarly'
  BY <1>5 DEF NotEarly
<1> QED BY <1>6, <1>7

\* A charge scheduled now has its whole delay to wait, and no other charge
\* bears its name.
LEMMA FreshKeepsDelay ==
    ASSUME Inv, DelayInv, NEW tx \in Txs, NEW n \in Nat,
           NEW Old, Old \subseteq Pending, \A d \in Old : d.tx # tx,
           Pending' = Old \cup {Charge(tx, n)},
           since' = [since EXCEPT ![tx] = 0]
    PROVE  DelayInv'
<1>1. ASSUME NEW c \in Old
      PROVE  \/ since'[c.tx] >= NextDelay(c.attempt)
             \/ since'[c.tx] + c.left >= NextDelay(c.attempt)
  <2>1. since'[c.tx] = since[c.tx]
    BY PendingTypes
  <2> QED BY <2>1 DEF DelayInv
<1>2. since'[tx] = 0
  BY PendingTypes
<1>3. 0 + Charge(tx, n).left >= NextDelay(n)
  BY ChargeIsCharge, MaxDelayIsMax
<1> QED BY <1>1, <1>2, <1>3, ChargeIsCharge DEF DelayInv

LEMMA NextKeepsDelay ==
    ASSUME Inv, DelayInv, NotEarly, [Next]_vars
    PROVE  DelayInv' /\ NotEarly'
<1> USE DEF workerVars, callerVars, stopVars, history
<1>1. CASE Tick BY <1>1, TickKeepsDelay
<1>2. ASSUME NEW tx \in Txs, NEW n \in Attempts, ScheduleRetry(tx, n)
      PROVE  DelayInv' /\ NotEarly'
  <2>1. /\ Pending' = Pending \cup {Charge(tx, n)}
        /\ since' = [since EXCEPT ![tx] = 0]
        /\ hand' = hand /\ wpc' = wpc
    BY <1>2 DEF ScheduleRetry, Pending
  <2>2. \A d \in Pending : d.tx # tx
    BY <1>2 DEF ScheduleRetry, Inv, ChargesConserved
  <2>3. DelayInv'
    BY <2>1, <2>2, AttemptsAssumption, FreshKeepsDelay
  <2>4. \A c \in hand : since'[c.tx] = since[c.tx]
    BY <2>1, <2>2, PendingTypes DEF Pending
  <2> QED BY <2>1, <2>3, <2>4 DEF NotEarly
<1>3. ASSUME NEW c \in calls, Push(c) PROVE DelayInv' /\ NotEarly'
  <2>1. Pending' \subseteq Pending /\ since' = since /\ hand' = hand /\ wpc' = wpc
    BY <1>3 DEF Push, Pending
  <2> QED BY <2>1, DelayUntouched DEF NotEarly
<1>4. CASE TakeDue
  <2>1. PICK c \in queue : c.left <= 0 /\ queue' = queue \ {c} /\ hand' = {c}
    BY <1>4 DEF TakeDue
  <2>2. Pending' \subseteq Pending /\ since' = since
    BY <1>4, <2>1 DEF TakeDue, Pending
  <2>3. /\ since[c.tx] \in Nat /\ c.left \in Int /\ NextDelay(c.attempt) \in Nat
        /\ \/ since[c.tx] >= NextDelay(c.attempt)
           \/ since[c.tx] + c.left >= NextDelay(c.attempt)
    BY PendingTypes DEF Pending, DelayInv
  <2>4. since[c.tx] >= NextDelay(c.attempt)
    BY <2>1, <2>3
  <2> QED BY <2>1, <2>2, <2>4, DelayUntouched DEF NotEarly
<1>5. CASE Fail
  <2>1. PICK c \in hand : /\ hand' = {Charge(c.tx, c.attempt + 1)}
                          /\ since' = [since EXCEPT ![c.tx] = 0]
    BY <1>5 DEF Fail
  <2>2. hand = {c}
    BY DEF Inv, OneInHand
  <2>3. c.tx \in Txs /\ c.attempt + 1 \in Nat
    BY PendingTypes DEF Pending
  <2>4. Pending' = (queue \cup calls) \cup {Charge(c.tx, c.attempt + 1)}
    BY <1>5, <2>1 DEF Fail, Pending
  <2>5. \A d \in queue \cup calls : d.tx # c.tx
    BY <2>2 DEF Inv, ChargesConserved, Pending
  <2>6. queue \cup calls \subseteq Pending
    BY DEF Pending
  <2>7. DelayInv'
    BY <2>1, <2>3, <2>4, <2>5, <2>6, FreshKeepsDelay
  <2> QED BY <1>5, <2>7 DEF Fail, NotEarly
<1>6. CASE Succeed
  <2>1. Pending' \subseteq Pending /\ since' = since /\ hand' = {}
    BY <1>6 DEF Succeed, Pending
  <2> QED BY <2>1, DelayUntouched DEF NotEarly
<1>7. CASE Requeue
  <2>1. Pending' \subseteq Pending /\ since' = since /\ hand' = {}
    BY <1>7 DEF Requeue, Pending
  <2> QED BY <2>1, DelayUntouched DEF NotEarly
<1>8. CASE \/ TestRunning \/ FindNothing \/ FindEarly \/ Block \/ TimeOut \/ Awake
           \/ WakeSpuriously \/ NotifyAll \/ \E tx \in notifying : NotifyOne(tx)
  <2>1. Pending' \subseteq Pending /\ since' = since /\ hand' = hand
    BY <1>8 DEF TestRunning, FindNothing, FindEarly, Block, TimeOut, Awake,
                WakeSpuriously, NotifyAll, NotifyOne, Pending
  <2>2. wpc' = "retry" => wpc = "retry"
    BY <1>8 DEF TestRunning, FindNothing, FindEarly, Block, TimeOut, Awake,
                WakeSpuriously, NotifyAll, NotifyOne, Notify, Locked
  <2> QED BY <2>1, <2>2, DelayUntouched DEF NotEarly
<1>9. CASE Exchange \/ Join \/ UNCHANGED vars
  <2>1. Pending' \subseteq Pending /\ since' = since /\ hand' = hand /\ wpc' = wpc
    BY <1>9 DEF Exchange, Join, vars, Pending
  <2> QED BY <2>1, DelayUntouched DEF NotEarly
<1> QED BY <1>1, <1>2, <1>3, <1>4, <1>5, <1>6, <1>7, <1>8, <1>9
        DEF Next, CallerStep, WorkerStep

\* The worker retries no charge before its delay has passed, for every table of
\* delays: waking early, for whatever reason, costs a round of the loop only.
THEOREM NoRetryIsEarly == Spec => []NotEarly
<1>1. Init => DelayInv /\ NotEarly
  BY DEF Init, DelayInv, NotEarly, Pending
<1>2. Inv /\ DelayInv /\ NotEarly /\ [Next]_vars => DelayInv' /\ NotEarly'
  BY NextKeepsDelay
<1> QED BY InvHolds, <1>1, <1>2, PTL DEF Spec

-----------------------------------------------------------------------------
(* The worker does not sleep over a charge.                                *)

Sleeping == {"sleep", "asleep"}
Dozing   == {"doze", "dozing"}

\* While it holds the mutex the worker has seen all there is, and who notifies
\* then has pushed before.
SeesAll ==
    /\ wpc = "sleep" => queue = {}
    /\ wpc = "doze" => \A c \in queue : c.left >= deadline

Watch == NoSleepOverWork /\ SeesAll

LEMMA TickKeepsWatch == ASSUME Inv, Watch, Tick PROVE Watch'
<1>1. /\ queue' = Age(queue) /\ deadline' = Sooner(deadline)
      /\ wpc' = wpc /\ notifying' = notifying
  BY DEF Tick
<1>2. queue \subseteq Charges /\ deadline \in Int
  BY DEF Inv, TypeOK
<1>3. queue = {} => queue' = {}
  BY <1>1, <1>2, AgeFacts
<1>4. ASSUME \A c \in queue : c.left >= deadline
      PROVE  \A c \in queue' : c.left >= deadline'
  <2>1. ASSUME NEW c \in queue' PROVE c.left >= deadline'
    <3>1. PICK d \in queue : c.left = Sooner(d.left)
      BY <1>1, <1>2, AgeFacts
    <3>2. d.left \in Int /\ d.left >= deadline
      BY <1>2, <1>4 DEF Charges
    <3>3. Sooner(d.left) >= Sooner(deadline)
      BY <1>2, <3>2, MaxLateAssumption DEF Sooner
    <3> QED BY <1>1, <3>1, <3>3
  <2> QED BY <2>1
<1> QED BY <1>1, <1>3, <1>4 DEF Watch, SeesAll, NoSleepOverWork

LEMMA NextKeepsWatch ==
    ASSUME Inv, Watch, [Next]_vars PROVE Watch'
<1> USE DEF workerVars, callerVars, stopVars, history
<1>1. CASE Tick BY <1>1, TickKeepsWatch
<1>2. ASSUME NEW tx \in Txs, NEW n \in Attempts, ScheduleRetry(tx, n)
      PROVE  Watch'
  BY <1>2 DEF ScheduleRetry, Watch, SeesAll, NoSleepOverWork
<1>3. ASSUME NEW c \in calls, Push(c) PROVE Watch'
  BY <1>3 DEF Push, Locked, Watch, SeesAll, NoSleepOverWork
<1>4. CASE WakeSpuriously \/ NotifyAll \/ \E tx \in notifying : NotifyOne(tx)
  <2>1. /\ queue' = queue /\ deadline' = deadline
        /\ \/ notifying' = notifying /\ wpc' = wpc
           \/ wpc' \in {"sleep", "doze"} /\ wpc' = wpc
           \/ wpc' \notin Sleeping \cup Dozing
    BY <1>4 DEF WakeSpuriously, NotifyAll, NotifyOne, Notify, Inv, TypeOK,
                Sleeping, Dozing
  <2>2. CASE notifying' = notifying /\ wpc' = wpc
    BY <2>1, <2>2 DEF Watch, SeesAll, NoSleepOverWork
  <2>3. CASE wpc' \in {"sleep", "doze"} /\ wpc' = wpc
    BY <2>1, <2>3 DEF Watch, SeesAll, NoSleepOverWork
  <2>4. CASE wpc' \notin Sleeping \cup Dozing
    BY <2>4 DEF Watch, SeesAll, NoSleepOverWork, Sleeping, Dozing
  <2> QED BY <2>1, <2>2, <2>3, <2>4
<1>5. CASE FindEarly
  <2>1. PICK c \in queue : Earliest(c) /\ deadline' = c.left
    BY <1>5 DEF FindEarly
  <2>2. \A d \in queue : d.left >= c.left
    <3>1. c.left \in Int /\ \A d \in queue : d.left \in Int /\ c.left <= d.left
      BY <2>1 DEF Earliest, Inv, TypeOK, Charges
    <3> QED BY <3>1
  <2>3. queue' = queue /\ wpc' = "doze"
    BY <1>5 DEF FindEarly
  <2> QED BY <2>1, <2>2, <2>3 DEF Watch, SeesAll, NoSleepOverWork
<1>6. CASE FindNothing
  BY <1>6 DEF FindNothing, Watch, SeesAll, NoSleepOverWork
<1>7. CASE Awake
  BY <1>7 DEF Awake, Watch, SeesAll, NoSleepOverWork
<1>8. CASE Block
  BY <1>8 DEF Block, Locked, Watch, SeesAll, NoSleepOverWork
<1>9. CASE TestRunning \/ TimeOut \/ TakeDue \/ Succeed \/ Fail \/ Requeue
  <2>1. wpc' \notin Sleeping \cup Dozing
    BY <1>9 DEF TestRunning, TimeOut, TakeDue, Succeed, Fail, Requeue, Sleeping, Dozing
  <2> QED BY <2>1 DEF Watch, SeesAll, NoSleepOverWork, Sleeping, Dozing
<1>10. CASE Exchange \/ Join \/ UNCHANGED vars
  BY <1>10 DEF Exchange, Join, vars, Watch, SeesAll, NoSleepOverWork
<1> QED BY <1>1, <1>2, <1>3, <1>4, <1>5, <1>6, <1>7, <1>8, <1>9, <1>10
        DEF Next, CallerStep, WorkerStep

LEMMA WatchHolds == Spec => []Watch
<1>1. Init => Watch
  BY DEF Init, Watch, SeesAll, NoSleepOverWork
<1>2. Inv /\ Watch /\ [Next]_vars => Watch'
  BY NextKeepsWatch
<1> QED BY InvHolds, <1>1, <1>2, PTL DEF Spec

\* Between the push and the notification of schedule_retry on one side and the
\* predicate and the blocking of the worker on the other, no wake-up is lost.
THEOREM NoWakeUpIsLost == Spec => []NoSleepOverWork
<1>1. Watch => NoSleepOverWork
  BY DEF Watch
<1> QED BY WatchHolds, <1>1, PTL

-----------------------------------------------------------------------------
(* The worker comes to its end once stop() has begun.                      *)

\* How many more moves the worker can make at most, once running_ is false.
MovesLeft(w) ==
    CASE w = "done" -> 0
      [] w = "test" -> 1
      [] w \in {"requeue", "awake", "dozing"} -> 2
      [] w \in {"retry", "asleep", "doze"} -> 3
      [] w \in {"lock", "sleep"} -> 4

\* running_ is never set again, and each move of the worker is one fewer to
\* its end: it retries at most the charge it has or is about to take.
WorkerRunsOut ==
    [][~running => /\ ~running'
                   /\ \/ wpc' = wpc
                      \/ MovesLeft(wpc') < MovesLeft(wpc)]_vars

\* With stop() begun the loop of the worker has at most one more round, whatever
\* callers push, notify or are late with: the safety half of StopsWithWorkLeft.
THEOREM StoppingRunsOut == Spec => WorkerRunsOut
<1>1. ASSUME Inv, [Next]_vars, ~running
      PROVE  /\ ~running'
             /\ wpc' = wpc \/ MovesLeft(wpc') < MovesLeft(wpc)
  <2> USE <1>1 DEF workerVars, callerVars, stopVars, history
  <2>1. ASSUME Tick \/ (\E tx \in Txs, n \in Attempts : ScheduleRetry(tx, n))
                 \/ (\E c \in calls : Push(c)) \/ Exchange \/ Join \/ UNCHANGED vars
        PROVE  ~running' /\ wpc' = wpc
    BY <2>1 DEF Tick, ScheduleRetry, Push, Exchange, Join, vars
  <2>2. ASSUME NotifyAll \/ WakeSpuriously \/ \E tx \in notifying : NotifyOne(tx)
        PROVE  /\ ~running'
               /\ wpc' = wpc \/ MovesLeft(wpc') < MovesLeft(wpc)
    BY <2>2 DEF NotifyAll, WakeSpuriously, NotifyOne, Notify, MovesLeft
  <2>3. ASSUME WorkerStep
        PROVE  ~running' /\ MovesLeft(wpc') < MovesLeft(wpc)
    <3>1. ~running'
      BY <2>3 DEF WorkerStep, TestRunning, FindNothing, TakeDue, FindEarly, Block,
                  TimeOut, Awake, Succeed, Fail, Requeue
    <3>2. ASSUME TestRunning \/ TimeOut \/ Awake PROVE MovesLeft(wpc') < MovesLeft(wpc)
      BY <3>2 DEF TestRunning, TimeOut, Awake, MovesLeft
    <3>3. ASSUME FindNothing \/ TakeDue \/ FindEarly
          PROVE  MovesLeft(wpc') < MovesLeft(wpc)
      BY <3>3 DEF FindNothing, TakeDue, FindEarly, MovesLeft
    <3>4. ASSUME Block PROVE MovesLeft(wpc') < MovesLeft(wpc)
      BY <3>4 DEF Block, Locked, MovesLeft
    <3>5. ASSUME Succeed \/ Fail \/ Requeue PROVE MovesLeft(wpc') < MovesLeft(wpc)
      BY <3>5 DEF Succeed, Fail, Requeue, MovesLeft
    <3> QED BY <2>3, <3>1, <3>2, <3>3, <3>4, <3>5 DEF WorkerStep
  <2> QED BY <2>1, <2>2, <2>3 DEF Next, CallerStep
<1> QED BY InvHolds, <1>1, PTL DEF Spec, WorkerRunsOut

\* stop() waits for a worker that no notification is left for: there is no
\* charge that could wake it either.
StopForgotten ==
    /\ spc = "join" /\ wpc = "asleep"
    /\ notifying = {} /\ calls = {}

\* A call that begins now, or a wake-up without a cause, is all that can end it.
OnlyAnotherCallHelps ==
    [][StopForgotten =>
          \/ StopForgotten' /\ queue' = {}
          \/ \E tx \in Txs, n \in Attempts : ScheduleRetry(tx, n)
          \/ WakeSpuriously]_vars

\* stop() stores running_ and notifies without the mutex the worker tests its
\* predicate under. When the notification falls between the two, nothing the
\* engine does by itself, and no time that passes, ends the join.
THEOREM ForgottenStopWaits == Spec => OnlyAnotherCallHelps
<1>1. ASSUME Inv, Watch, [Next]_vars, StopForgotten
      PROVE  \/ StopForgotten' /\ queue' = {}
             \/ \E tx \in Txs, n \in Attempts : ScheduleRetry(tx, n)
             \/ WakeSpuriously
  <2> USE <1>1 DEF StopForgotten, workerVars, callerVars, stopVars, history
  <2>1. queue = {}
    BY DEF Watch, NoSleepOverWork
  <2>2. ASSUME Tick PROVE StopForgotten' /\ queue' = {}
    BY <2>1, <2>2 DEF Tick, Age
  <2>3. ~CallerStep /\ ~Exchange /\ ~NotifyAll /\ ~Join
    BY DEF CallerStep, Exchange, NotifyAll, Join
  <2>4. ~WorkerStep
    BY DEF WorkerStep, TestRunning, FindNothing, TakeDue, FindEarly, Block, Locked,
           TimeOut, Awake, Succeed, Fail, Requeue
  <2>5. ASSUME UNCHANGED vars PROVE StopForgotten' /\ queue' = {}
    BY <2>1, <2>5 DEF vars
  <2> QED BY <2>2, <2>3, <2>4, <2>5 DEF Next
<1> QED BY InvHolds, WatchHolds, <1>1, PTL DEF Spec, OnlyAnotherCallHelps

-----------------------------------------------------------------------------
(* A charge only gets on.                                                  *)

\* Stages a pending charge has yet to go through: for each failure before it
\* one call, one wait and one retry, and what is left of the present attempt.
StagesLeft(c) ==
    LET failures == IF c.attempt < 2 THEN 2 - c.attempt ELSE 0
    IN  3 * failures + (IF c \in queue THEN 1
                        ELSE IF c \in hand /\ wpc = "retry" THEN 0 ELSE 2)

EachOn ==
    \A c \in Pending :
        \/ c.tx \in recovered'
        \/ \E d \in Pending' :
              /\ d.tx = c.tx
              /\ \/ d.attempt = c.attempt /\ StagesLeft(d)' = StagesLeft(c)
                 \/ StagesLeft(d)' < StagesLeft(c)

ChargeGetsOn == [][EachOn]_vars

\* Whatever step is taken, a charge is where it was or has one stage fewer to
\* go: it is not retried twice for one attempt and fails at most twice. This is
\* the safety half of EveryChargeRecovered.
THEOREM ChargesGetOn == Spec => ChargeGetsOn
<1> DEFINE On(c) == \/ c.tx \in recovered'
                    \/ \E d \in Pending' :
                          /\ d.tx = c.tx
                          /\ \/ d.attempt = c.attempt /\ StagesLeft(d)' = StagesLeft(c)
                             \/ StagesLeft(d)' < StagesLeft(c)
<1>1. ASSUME Inv, [Next]_vars, NEW c \in Pending
      PROVE  On(c)
  <2> USE <1>1 DEF workerVars, callerVars, stopVars, history
  <2>1. c.attempt \in Nat /\ c.left \in Int /\ c.tx \in Txs
    BY PendingTypes
  <2>2. /\ c \in queue => c \notin hand /\ c \notin calls
        /\ c \in hand => c \notin queue /\ c \notin calls
        /\ c \in calls => c \notin hand /\ c \notin queue
        /\ c \in queue \/ c \in hand \/ c \in calls
    BY DEF Inv, ChargesConserved, Pending
  <2>3. ASSUME queue' = queue, hand' = hand, calls' = calls,
               hand = {} \/ wpc' = wpc
        PROVE  On(c)
    <3>1. c \in Pending'
      BY <2>3 DEF Pending
    <3>2. StagesLeft(c)' = StagesLeft(c)
      BY <2>3 DEF StagesLeft
    <3> QED BY <3>1, <3>2
  <2>4. ASSUME Tick PROVE On(c)
    <3>1. /\ queue' = Age(queue) /\ hand' = Age(hand) /\ calls' = Age(calls)
          /\ wpc' = wpc
      BY <2>4 DEF Tick
    <3> DEFINE d == [c EXCEPT !.left = Sooner(c.left)]
    <3>2. d.tx = c.tx /\ d.attempt = c.attempt
      BY DEF Inv, TypeOK, Pending, Charges
    <3>3. /\ c \in queue => d \in queue' /\ d \notin hand' /\ d \notin calls'
          /\ c \in hand => d \in hand' /\ d \notin queue' /\ d \notin calls'
          /\ c \in calls => d \in calls' /\ d \notin hand' /\ d \notin queue'
      <4>1. /\ c \in queue => d \in queue'
            /\ c \in hand => d \in hand'
            /\ c \in calls => d \in calls'
        BY <3>1 DEF Age
      <4>2. Inv'
        BY NextKeepsInv
      <4>3. queue' \cap hand' = {} /\ queue' \cap calls' = {} /\ hand' \cap calls' = {}
        BY <4>2 DEF Inv, ChargesConserved
      <4> HIDE DEF d
      <4> QED BY <4>1, <4>3
    <3> HIDE DEF d
    <3>4. d \in Pending'
      BY <2>2, <3>3 DEF Pending
    <3>5. StagesLeft(d)' = StagesLeft(c)
      BY <2>2, <3>1, <3>2, <3>3 DEF StagesLeft
    <3> QED BY <3>2, <3>4, <3>5
  <2>5. ASSUME NEW tx \in Txs, NEW n \in Attempts, ScheduleRetry(tx, n) PROVE On(c)
    <3>1. c \in Pending' /\ queue' = queue /\ hand' = hand /\ wpc' = wpc
      BY <2>5 DEF ScheduleRetry, Pending
    <3>2. StagesLeft(c)' = StagesLeft(c)
      BY <3>1 DEF StagesLeft
    <3> QED BY <3>1, <3>2
  <2>6. ASSUME NEW e \in calls, Push(e) PROVE On(c)
    <3>1. queue' = queue \cup {e} /\ hand' = hand /\ wpc' = wpc /\ c \in Pending'
      BY <2>6 DEF Push, Pending
    <3>2. c # e => StagesLeft(c)' = StagesLeft(c)
      BY <3>1 DEF StagesLeft
    <3>3. c = e => StagesLeft(c)' < StagesLeft(c)
      BY <3>1, <2>1, <2>2 DEF StagesLeft
    <3> QED BY <3>1, <3>2, <3>3
  <2>7. ASSUME TakeDue PROVE On(c)
    <3>1. PICK e \in queue : queue' = queue \ {e} /\ hand' = {e}
      BY <2>7 DEF TakeDue
    <3>2. hand = {} /\ calls' = calls /\ wpc' = "retry"
      BY <2>7 DEF TakeDue, Inv, TypeOK
    <3>3. c \in Pending'
      BY <2>2, <3>1, <3>2 DEF Pending
    <3>4. c # e => StagesLeft(c)' = StagesLeft(c)
      BY <2>2, <3>1, <3>2 DEF StagesLeft
    <3>5. c = e => StagesLeft(c)' < StagesLeft(c)
      BY <2>1, <2>2, <3>1, <3>2 DEF StagesLeft
    <3> QED BY <3>3, <3>4, <3>5
  <2>8. ASSUME Succeed PROVE On(c)
    <3>1. PICK e \in hand : recovered' = recovered \cup {e.tx}
      BY <2>8 DEF Succeed
    <3>2. hand = {e}
      BY DEF Inv, OneInHand
    <3>3. queue' = queue /\ calls' = calls /\ hand' = {}
      BY <2>8 DEF Succeed
    <3>4. c # e => c \in Pending' /\ StagesLeft(c)' = StagesLeft(c)
      BY <2>2, <3>2, <3>3 DEF StagesLeft, Pending
    <3> QED BY <3>1, <3>4
  <2>9. ASSUME Fail PROVE On(c)
    <3>1. PICK e \in hand : e.attempt < 2 /\ hand' = {Charge(e.tx, e.attempt + 1)}
      BY <2>9 DEF Fail
    <3> DEFINE d == Charge(e.tx, e.attempt + 1)
    <3>2. hand = {e} /\ e \in Pending
      BY DEF Inv, OneInHand, Pending
    <3>3. queue' = queue /\ calls' = calls /\ wpc' = "requeue" /\ wpc = "retry"
      BY <2>9 DEF Fail
    <3>4. c # e => c \in Pending' /\ StagesLeft(c)' = StagesLeft(c)
      <4>1. ASSUME c # e PROVE c \in Pending' /\ c \notin hand /\ (c \in queue \/ c \in calls)
        BY <4>1, <2>2, <3>2, <3>3 DEF Pending
      <4>2. ASSUME c # e PROVE StagesLeft(c)' = StagesLeft(c)
        BY <4>1, <4>2, <3>3 DEF StagesLeft
      <4> QED BY <4>1, <4>2
    <3>5. e.tx \in Txs /\ e.attempt \in Nat
      BY <3>2, PendingTypes
    <3>6. d.tx = e.tx /\ d.attempt = e.attempt + 1
      BY <3>5, ChargeIsCharge
    <3> HIDE DEF d
    <3>7. d \in Pending' /\ hand' = {d}
      BY <3>1 DEF Pending, d
    <3>8. d \notin queue'
      <4>1. Inv'
        BY NextKeepsInv
      <4> QED BY <3>7, <4>1 DEF Inv, ChargesConserved
    <3>9. StagesLeft(e) = 3 * (2 - e.attempt)
      <4>1. e \notin queue
        BY <3>2 DEF Inv, ChargesConserved
      <4> QED BY <3>1, <3>2, <3>3, <3>5, <4>1 DEF StagesLeft
    <3>10. StagesLeft(d)' = 3 * (2 - (e.attempt + 1)) + 2
      BY <3>1, <3>3, <3>5, <3>6, <3>8 DEF StagesLeft
    <3>11. StagesLeft(d)' < StagesLeft(e)
      BY <3>5, <3>9, <3>10
    <3>12. c = e => On(c)
      BY <3>6, <3>7, <3>11
    <3> QED BY <3>4, <3>12
  <2>10. ASSUME Requeue PROVE On(c)
    <3>1. queue' = queue \cup hand /\ hand' = {} /\ calls' = calls /\ wpc = "requeue"
      BY <2>10 DEF Requeue
    <3>2. c \in Pending'
      BY <2>2, <3>1 DEF Pending
    <3>3. c \notin hand => StagesLeft(c)' = StagesLeft(c)
      BY <2>2, <3>1 DEF StagesLeft
    <3>4. c \in hand => StagesLeft(c)' < StagesLeft(c)
      BY <2>1, <2>2, <3>1 DEF StagesLeft
    <3> QED BY <3>2, <3>3, <3>4
  <2>11. ASSUME \/ TestRunning \/ FindNothing \/ FindEarly \/ Block \/ TimeOut \/ Awake
                \/ WakeSpuriously \/ NotifyAll \/ \E tx \in notifying : NotifyOne(tx)
         PROVE  On(c)
    <3>1. queue' = queue /\ hand' = hand /\ calls' = calls
      BY <2>11 DEF TestRunning, FindNothing, FindEarly, Block, TimeOut, Awake,
                   WakeSpuriously, NotifyAll, NotifyOne
    <3>2. hand = {} \/ wpc' = wpc
      BY <2>11 DEF TestRunning, FindNothing, FindEarly, Block, TimeOut, Awake, Locked,
                   WakeSpuriously, NotifyAll, NotifyOne, Notify, Inv, TypeOK
    <3> QED BY <2>3, <3>1, <3>2
  <2>12. ASSUME Exchange \/ Join \/ UNCHANGED vars PROVE On(c)
    <3>1. queue' = queue /\ hand' = hand /\ calls' = calls /\ wpc' = wpc
      BY <2>12 DEF Exchange, Join, vars
    <3> QED BY <2>3, <3>1
  <2> QED BY <2>4, <2>5, <2>6, <2>7, <2>8, <2>9, <2>10, <2>11, <2>12
          DEF Next, CallerStep, WorkerStep
<1>2. Inv /\ [Next]_vars => EachOn
  BY <1>1 DEF EachOn
<1> QED BY InvHolds, <1>2, PTL DEF Spec, ChargeGetsOn

=============================================================================
