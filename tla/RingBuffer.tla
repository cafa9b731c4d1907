------------------------------ MODULE RingBuffer ------------------------------
(***************************************************************************)
(* The transaction ring of the backend engine and the three kinds of       *)
(* threads that share it without a lock:                                   *)
(*                                                                         *)
(*  - producers, the worker threads of the HTTP server, each running       *)
(*    RingBuffer::enqueue for the POST /api/accounts request it serves;    *)
(*  - verifiers, running the CryptoWorker loop (main.cpp starts one);      *)
(*  - the dispatcher, the thread of main.cpp that frees approved slots.    *)
(*                                                                         *)
(* Every shared atomic (head_, tail_, a slot's state, the totals) and the  *)
(* non-atomic slot_id is read or written by one step of one thread, in     *)
(* program order, so that every interleaving of enqueue,                   *)
(* dequeue_for_crypto_verification and mark_dispatched is a behaviour.     *)
(* Payloads are left out: a verdict is a nondeterministic choice here and  *)
(* module Pipeline says how it is reached.                                 *)
(***************************************************************************)
EXTENDS Integers, FiniteSets

CONSTANTS
    Capacity,       \* capacity_ of the ring
    Producers,      \* threads of the HTTP server
    Verifiers,      \* threads running CryptoWorker::operator()
    MaxRequests     \* bound: POST requests that ever arrive

ASSUME CapacityAssumption == Capacity \in Nat \ {0}

\* "Capacity must be a power of 2": then index & (capacity - 1) is Idx below.
ASSUME PowerOfTwoAssumption == \E k \in 0..Capacity : Capacity = 2^k

ASSUME ProducersAssumption == IsFiniteSet(Producers) /\ Producers # {}

ASSUME VerifiersAssumption == IsFiniteSet(Verifiers)

ASSUME MaxRequestsAssumption == MaxRequests \in Nat

VARIABLES
    head,        \* head_: next position to claim
    tail,        \* tail_: next position to dispatch
    state,       \* state of each slot
    slotId,      \* slot_id of each slot
    enqueued,    \* total_enqueued_
    dispatched,  \* total_dispatched_
    verified,    \* stat_verified_, over all verifiers
    arrived,     \* requests that arrived so far
    pc,          \* where each producer is in enqueue
    snapHead,    \* its load of head_ in the full check, None before it
    snapTail,    \* its load of tail_ in the full check, None before it
    pos,         \* current_head, the position it claimed, None before it
    vpc,         \* where each verifier is in its loop
    scanPos,     \* pos of its scan
    scanEnd,     \* current_head of its scan
    dpc,         \* where the dispatcher is in its loop
    freeIdx      \* index computed by mark_dispatched, None outside it

ringVars       == <<head, tail, state, slotId>>
countVars      == <<enqueued, dispatched, verified>>
producerVars   == <<arrived, pc, snapHead, snapTail, pos>>
verifierVars   == <<vpc, scanPos, scanEnd>>
dispatcherVars == <<dpc, freeIdx>>
vars == <<ringVars, countVars, producerVars, verifierVars, dispatcherVars>>

None  == -1
Slots == 0..(Capacity - 1)
Idx(i) == i % Capacity

\* Slip: the check lets one more in than the ring has room for.
FullOffByOne(h, t) == h < t \/ h - t > Capacity

\* Slip: one place is kept free, as in a ring that cannot tell full from empty.
FullEarly(h, t) == h < t \/ h - t >= Capacity - 1

\* The full check. The difference is unsigned: when tail_ was loaded ahead of
\* an older head_ it wraps to a huge number, and the ring counts as full.
Full(h, t) == h < t \/ h - t >= Capacity

InWindow(i) == \E s \in tail..(head - 1) : Idx(s) = i

Init ==
    /\ head = 0 /\ tail = 0
    /\ state = [i \in Slots |-> "EMPTY"]
    /\ slotId = [i \in Slots |-> 0]
    /\ enqueued = 0 /\ dispatched = 0 /\ verified = 0
    /\ arrived = 0
    /\ pc = [p \in Producers |-> "idle"]
    /\ snapHead = [p \in Producers |-> None]
    /\ snapTail = [p \in Producers |-> None]
    /\ pos = [p \in Producers |-> None]
    /\ vpc = [v \in Verifiers |-> "tail"]
    /\ scanPos = [v \in Verifiers |-> None]
    /\ scanEnd = [v \in Verifiers |-> None]
    /\ dpc = "dequeue"
    /\ freeIdx = None

-----------------------------------------------------------------------------
(* RingBuffer::enqueue, called by a thread of the HTTP server.             *)

Goto(p, label) == pc' = [pc EXCEPT ![p] = label]

\* A request reaches the POST /api/accounts handler of an idle thread.
Arrive(p) ==
    /\ pc[p] = "idle" /\ arrived < MaxRequests
    /\ arrived' = arrived + 1
    /\ Goto(p, "check")
    /\ UNCHANGED <<ringVars, countVars, verifierVars, dispatcherVars,
                   snapHead, snapTail, pos>>

\* The two relaxed loads of the check are unsequenced: either may come first.
LoadHead(p) ==
    /\ pc[p] = "check" /\ snapHead[p] = None
    /\ snapHead' = [snapHead EXCEPT ![p] = head]
    /\ UNCHANGED <<ringVars, countVars, verifierVars, dispatcherVars,
                   arrived, pc, snapTail, pos>>

LoadTail(p) ==
    /\ pc[p] = "check" /\ snapTail[p] = None
    /\ snapTail' = [snapTail EXCEPT ![p] = tail]
    /\ UNCHANGED <<ringVars, countVars, verifierVars, dispatcherVars,
                   arrived, pc, snapHead, pos>>

Loaded(p) == pc[p] = "check" /\ snapHead[p] # None /\ snapTail[p] # None

ForgetLoads(p) ==
    /\ snapHead' = [snapHead EXCEPT ![p] = None]
    /\ snapTail' = [snapTail EXCEPT ![p] = None]

\* enqueue returns -1 and the handler answers 429.
Refuse(p) ==
    /\ Loaded(p) /\ Full(snapHead[p], snapTail[p])
    /\ ForgetLoads(p)
    /\ Goto(p, "idle")
    /\ UNCHANGED <<ringVars, countVars, verifierVars, dispatcherVars,
                   arrived, pos>>

\* Slip: a store of the loaded head_ plus one in place of the fetch_add.
ClaimByStore(p) ==
    /\ Loaded(p) /\ ~Full(snapHead[p], snapTail[p])
    /\ ForgetLoads(p)
    /\ pos' = [pos EXCEPT ![p] = snapHead[p]]
    /\ head' = snapHead[p] + 1
    /\ Goto(p, "lock")
    /\ UNCHANGED <<tail, state, slotId, countVars, verifierVars,
                   dispatcherVars, arrived>>

\* head_.fetch_add(1): the claim is atomic, but the check above is not part of it.
ClaimPosition(p) ==
    /\ Loaded(p) /\ ~Full(snapHead[p], snapTail[p])
    /\ ForgetLoads(p)
    /\ pos' = [pos EXCEPT ![p] = head]
    /\ head' = head + 1
    /\ Goto(p, "lock")
    /\ UNCHANGED <<tail, state, slotId, countVars, verifierVars,
                   dispatcherVars, arrived>>

\* The compare-exchange that ends the spin: it stores WRITTEN before any data.
LockSlot(p) ==
    /\ pc[p] = "lock" /\ state[Idx(pos[p])] = "EMPTY"
    /\ state' = [state EXCEPT ![Idx(pos[p])] = "WRITTEN"]
    /\ Goto(p, "write")
    /\ UNCHANGED <<head, tail, slotId, countVars, verifierVars,
                   dispatcherVars, arrived, snapHead, snapTail, pos>>

\* Payload, signature, length and slot_id; only slot_id steers the ring.
WriteSlot(p) ==
    /\ pc[p] = "write"
    /\ slotId' = [slotId EXCEPT ![Idx(pos[p])] = pos[p]]
    /\ Goto(p, "publish")
    /\ UNCHANGED <<head, tail, state, countVars, verifierVars,
                   dispatcherVars, arrived, snapHead, snapTail, pos>>

\* An unconditional store of WRITTEN, whatever became of the slot meanwhile.
Publish(p) ==
    /\ pc[p] = "publish"
    /\ state' = [state EXCEPT ![Idx(pos[p])] = "WRITTEN"]
    /\ Goto(p, "count")
    /\ UNCHANGED <<head, tail, slotId, countVars, verifierVars,
                   dispatcherVars, arrived, snapHead, snapTail, pos>>

\* total_enqueued_.fetch_add(1); enqueue returns and the handler answers 202.
CountEnqueued(p) ==
    /\ pc[p] = "count"
    /\ enqueued' = enqueued + 1
    /\ pos' = [pos EXCEPT ![p] = None]
    /\ Goto(p, "idle")
    /\ UNCHANGED <<ringVars, dispatched, verified, verifierVars,
                   dispatcherVars, arrived, snapHead, snapTail>>

ProducerStep(p) ==
    \/ LoadHead(p) \/ LoadTail(p) \/ Refuse(p) \/ ClaimPosition(p)
    \/ LockSlot(p) \/ WriteSlot(p) \/ Publish(p) \/ CountEnqueued(p)

-----------------------------------------------------------------------------
(* CryptoWorker::operator() and the scan it calls.                         *)

\* Slip: the scan starts behind the slot at tail_.
ScanBehindTail(v) ==
    /\ vpc[v] = "tail"
    /\ scanPos' = [scanPos EXCEPT ![v] = tail + 1]
    /\ vpc' = [vpc EXCEPT ![v] = "head"]
    /\ UNCHANGED <<ringVars, countVars, producerVars, dispatcherVars, scanEnd>>

ScanTail(v) ==
    /\ vpc[v] = "tail"
    /\ scanPos' = [scanPos EXCEPT ![v] = tail]
    /\ vpc' = [vpc EXCEPT ![v] = "head"]
    /\ UNCHANGED <<ringVars, countVars, producerVars, dispatcherVars, scanEnd>>

ScanHead(v) ==
    /\ vpc[v] = "head"
    /\ scanEnd' = [scanEnd EXCEPT ![v] = head]
    /\ vpc' = [vpc EXCEPT ![v] = "scan"]
    /\ UNCHANGED <<ringVars, countVars, producerVars, dispatcherVars, scanPos>>

ScanSkip(v) ==
    /\ vpc[v] = "scan" /\ scanPos[v] < scanEnd[v]
    /\ state[Idx(scanPos[v])] # "WRITTEN"
    /\ scanPos' = [scanPos EXCEPT ![v] = @ + 1]
    /\ UNCHANGED <<ringVars, countVars, producerVars, dispatcherVars, vpc,
                   scanEnd>>

\* The compare-exchange from WRITTEN to WRITTEN succeeds and changes nothing.
ScanClaim(v) ==
    /\ vpc[v] = "scan" /\ scanPos[v] < scanEnd[v]
    /\ state[Idx(scanPos[v])] = "WRITTEN"
    /\ vpc' = [vpc EXCEPT ![v] = "verify"]
    /\ UNCHANGED <<ringVars, countVars, producerVars, dispatcherVars, scanPos,
                   scanEnd>>

EndScan(v) ==
    /\ vpc' = [vpc EXCEPT ![v] = "tail"]
    /\ scanPos' = [scanPos EXCEPT ![v] = None]
    /\ scanEnd' = [scanEnd EXCEPT ![v] = None]

ScanNothing(v) ==
    /\ vpc[v] = "scan" /\ scanPos[v] >= scanEnd[v]
    /\ EndScan(v)
    /\ UNCHANGED <<ringVars, countVars, producerVars, dispatcherVars>>

\* verify_slot returned true, or the shield is off.
Approve(v) ==
    /\ vpc[v] = "verify"
    /\ state' = [state EXCEPT ![Idx(scanPos[v])] = "PROCESSING"]
    /\ vpc' = [vpc EXCEPT ![v] = "count"]
    /\ UNCHANGED <<head, tail, slotId, countVars, producerVars,
                   dispatcherVars, scanPos, scanEnd>>

CountVerified(v) ==
    /\ vpc[v] = "count"
    /\ verified' = verified + 1
    /\ EndScan(v)
    /\ UNCHANGED <<ringVars, enqueued, dispatched, producerVars,
                   dispatcherVars>>

\* verify_slot returned false: the slot is dropped, tail_ stays where it is.
Reject(v) ==
    /\ vpc[v] = "verify"
    /\ state' = [state EXCEPT ![Idx(scanPos[v])] = "EMPTY"]
    /\ EndScan(v)
    /\ UNCHANGED <<head, tail, slotId, countVars, producerVars,
                   dispatcherVars>>

VerifierStep(v) ==
    \/ ScanTail(v) \/ ScanHead(v) \/ ScanSkip(v) \/ ScanClaim(v)
    \/ ScanNothing(v) \/ Approve(v) \/ CountVerified(v) \/ Reject(v)

-----------------------------------------------------------------------------
(* dispatcher_thread of main.cpp and RingBuffer::mark_dispatched.          *)

\* Slip: the test for an empty ring is missing.
DequeueAlways ==
    /\ dpc = "dequeue"
    /\ state[Idx(tail)] = "PROCESSING"
    /\ dpc' = "mark"
    /\ UNCHANGED <<ringVars, countVars, producerVars, verifierVars, freeIdx>>

\* dequeue_for_processing returns the slot at tail_. Only this thread moves
\* tail_ and head_ only grows, so its three loads act as one.
Dequeue ==
    /\ dpc = "dequeue" /\ tail # head
    /\ state[Idx(tail)] = "PROCESSING"
    /\ dpc' = "mark"
    /\ UNCHANGED <<ringVars, countVars, producerVars, verifierVars, freeIdx>>

\* Slip: the slot_id is not wrapped back into the ring.
MarkUnwrapped ==
    /\ dpc = "mark"
    /\ freeIdx' = slotId[Idx(tail)]
    /\ dpc' = "free"
    /\ UNCHANGED <<ringVars, countVars, producerVars, verifierVars>>

\* mark_dispatched(slot->slot_id): the slot to free is found from the slot_id
\* stored in the slot at this moment, not from tail_.
MarkDispatched ==
    /\ dpc = "mark"
    /\ freeIdx' = Idx(slotId[Idx(tail)])
    /\ dpc' = "free"
    /\ UNCHANGED <<ringVars, countVars, producerVars, verifierVars>>

\* Slip: the slot is not wiped clean.
FreeNothing ==
    /\ dpc = "free"
    /\ freeIdx' = None
    /\ dpc' = "advance"
    /\ UNCHANGED <<ringVars, countVars, producerVars, verifierVars>>

FreeSlot ==
    /\ dpc = "free"
    /\ state' = [state EXCEPT ![freeIdx] = "EMPTY"]
    /\ freeIdx' = None
    /\ dpc' = "advance"
    /\ UNCHANGED <<head, tail, slotId, countVars, producerVars, verifierVars>>

AdvanceTail ==
    /\ dpc = "advance"
    /\ tail' = tail + 1
    /\ dpc' = "count"
    /\ UNCHANGED <<head, state, slotId, countVars, producerVars, verifierVars,
                   freeIdx>>

CountDispatched ==
    /\ dpc = "count"
    /\ dispatched' = dispatched + 1
    /\ dpc' = "dequeue"
    /\ UNCHANGED <<ringVars, enqueued, verified, producerVars, verifierVars,
                   freeIdx>>

DispatcherStep ==
    \/ Dequeue \/ MarkDispatched \/ FreeSlot \/ AdvanceTail \/ CountDispatched

-----------------------------------------------------------------------------
Next ==
    \/ \E p \in Producers : Arrive(p) \/ ProducerStep(p)
    \/ \E v \in Verifiers : VerifierStep(v)
    \/ DispatcherStep

\* The operating system keeps running every thread; requests need not arrive.
Fairness ==
    /\ \A p \in Producers : WF_vars(ProducerStep(p))
    /\ \A v \in Verifiers : WF_vars(VerifierStep(v))
    /\ WF_vars(DispatcherStep)

Spec     == Init /\ [][Next]_vars
FairSpec == Spec /\ Fairness

-----------------------------------------------------------------------------
(* Properties.                                                             *)

States == {"EMPTY", "WRITTEN", "PROCESSING"}

\* Every index a thread has computed lies in the ring, wherever the thread is,
\* and every slot is in one of the three states the code ever stores.
TypeOK ==
    /\ head \in Nat /\ tail \in Nat
    /\ state \in [Slots -> States]
    /\ slotId \in [Slots -> Nat]
    /\ enqueued \in Nat /\ dispatched \in Nat /\ verified \in Nat
    /\ arrived \in Nat
    /\ pc \in [Producers -> {"idle", "check", "lock", "write", "publish",
                             "count"}]
    /\ snapHead \in [Producers -> Nat \cup {None}]
    /\ snapTail \in [Producers -> Nat \cup {None}]
    /\ pos \in [Producers -> Nat \cup {None}]
    /\ vpc \in [Verifiers -> {"tail", "head", "scan", "verify", "count"}]
    /\ scanPos \in [Verifiers -> Nat \cup {None}]
    /\ scanEnd \in [Verifiers -> Nat \cup {None}]
    /\ dpc \in {"dequeue", "mark", "free", "advance", "count"}
    /\ freeIdx \in Slots \cup {None}

Claimed == {p \in Producers : pc[p] \in {"lock", "write", "publish", "count"}}

\* The full check of enqueue and its fetch_add are two steps, so the ring can
\* be claimed beyond its capacity, but only by the threads that passed the
\* check before the others claimed: never by as many as there are threads.
OccupancyBound == head - tail <= Capacity + Cardinality(Producers) - 1

\* mark_dispatched never moves tail_ past head_, so the unsigned occupancy
\* that get_telemetry computes from head_ and tail_ of one moment is no wrap.
TailBehindHead == tail <= head

\* The check reads head_ and tail_ at two moments and compares them unsigned.
\* It turns a request away from a ring that has room for it only if the
\* dispatcher freed a place while the check was under way.
RefusedOnlyIfFull ==
    [][\A p \in Producers :
          pc[p] = "check" /\ pc'[p] = "idle" =>
              \/ head - tail >= Capacity
              \/ snapTail[p] < tail
              \/ snapHead[p] < tail]_vars

\* No two enqueue calls in progress own the same position, although the check
\* before the claim may have read the same head_ in both.
PositionsDistinct ==
    \A p, q \in Claimed : p # q => pos[p] # pos[q]

\* The verifier's scan cannot overlook a slot for ever: a WRITTEN slot between
\* tail_ and head_ is judged, whatever is claimed or rejected around it.
WrittenGetsVerdict ==
    \A i \in Slots :
        (state[i] = "WRITTEN" /\ InWindow(i))
            ~> (state[i] # "WRITTEN" \/ ~InWindow(i))

-----------------------------------------------------------------------------
(* What comments of the repository say and the code does not do.           *)

\* main.cpp: a slot marked as dispatched "passed all security checks". Each
\* dispatch is then paid for by a verification of its own.
DispatchedWasVerified ==
    dispatched <= verified + Cardinality({v \in Verifiers : vpc[v] = "count"})

\* main.cpp: the dispatcher "drains PROCESSING slots after CryptoWorker
\* approves them".
ApprovedIsDrained ==
    \A i \in Slots : state[i] = "PROCESSING" ~> state[i] # "PROCESSING"

=============================================================================
