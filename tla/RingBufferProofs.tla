--------------------------- MODULE RingBufferProofs ---------------------------
(***************************************************************************)
(* Proofs about RingBuffer for every capacity, every finite set of HTTP    *)
(* threads, any number of verifiers and any number of requests.            *)
(***************************************************************************)
EXTENDS RingBuffer, TLAPS, FiniteSetTheorems

\* The slot of a position is a slot, whatever the position.
LEMMA IdxInSlots == \A n \in Nat : Idx(n) \in Slots
  BY CapacityAssumption DEF Idx, Slots

-----------------------------------------------------------------------------
(* Type correctness.                                                       *)

\* A producer past its claim owns a position below head_, a verifier past its
\* load of tail_ scans from a position, and the dispatcher frees a slot.
LocalsSet ==
    /\ \A p \in Claimed : pos[p] \in Nat /\ pos[p] < head
    /\ \A v \in Verifiers : vpc[v] # "tail" => scanPos[v] \in Nat
    /\ dpc = "free" => freeIdx \in Slots

TypeInv == TypeOK /\ LocalsSet

LEMMA TypeInit == Init => TypeInv
  BY CapacityAssumption
  DEF Init, TypeInv, TypeOK, LocalsSet, Claimed, States, None, Slots

LEMMA TypeNext == TypeInv /\ [Next]_vars => TypeInv'
  <1> SUFFICES ASSUME TypeInv, [Next]_vars PROVE TypeInv'
    OBVIOUS
  <1> USE DEF TypeInv, TypeOK, LocalsSet, Claimed, None, ringVars, countVars,
              producerVars, verifierVars, dispatcherVars, Goto
  <1>1. ASSUME NEW p \in Producers, Arrive(p) PROVE TypeInv'
    BY <1>1 DEF Arrive
  <1>2. ASSUME NEW p \in Producers, LoadHead(p) PROVE TypeInv'
    BY <1>2 DEF LoadHead
  <1>3. ASSUME NEW p \in Producers, LoadTail(p) PROVE TypeInv'
    BY <1>3 DEF LoadTail
  <1>4. ASSUME NEW p \in Producers, Refuse(p) PROVE TypeInv'
    BY <1>4 DEF Refuse, ForgetLoads, Loaded
  <1>5. ASSUME NEW p \in Producers, ClaimPosition(p) PROVE TypeInv'
    BY <1>5 DEF ClaimPosition, ForgetLoads, Loaded
  <1>6. ASSUME NEW p \in Producers, LockSlot(p) PROVE TypeInv'
    BY <1>6 DEF LockSlot, States
  <1>7. ASSUME NEW p \in Producers, WriteSlot(p) PROVE TypeInv'
    BY <1>7 DEF WriteSlot
  <1>8. ASSUME NEW p \in Producers, Publish(p) PROVE TypeInv'
    BY <1>8 DEF Publish, States
  <1>9. ASSUME NEW p \in Producers, CountEnqueued(p) PROVE TypeInv'
    BY <1>9 DEF CountEnqueued
  <1>10. ASSUME NEW v \in Verifiers, VerifierStep(v) PROVE TypeInv'
    <2>1. CASE ScanTail(v)
      BY <2>1 DEF ScanTail
    <2>2. CASE ScanHead(v)
      BY <2>2 DEF ScanHead
    <2>3. CASE ScanSkip(v)
      BY <2>3 DEF ScanSkip
    <2>4. CASE ScanClaim(v)
      BY <2>4 DEF ScanClaim
    <2>5. CASE ScanNothing(v)
      BY <2>5 DEF ScanNothing, EndScan
    <2>6. CASE Approve(v)
      BY <2>6 DEF Approve, States
    <2>7. CASE CountVerified(v)
      BY <2>7 DEF CountVerified, EndScan
    <2>8. CASE Reject(v)
      BY <2>8 DEF Reject, EndScan, States
    <2> QED
      BY <1>10, <2>1, <2>2, <2>3, <2>4, <2>5, <2>6, <2>7, <2>8
      DEF VerifierStep
  <1>11. ASSUME DispatcherStep PROVE TypeInv'
    <2>1. CASE Dequeue
      BY <2>1 DEF Dequeue
    <2>2. CASE MarkDispatched
      <3>1. slotId[Idx(tail)] \in Nat
        BY IdxInSlots
      <3>2. freeIdx' \in Slots
        BY <2>2, <3>1, IdxInSlots DEF MarkDispatched
      <3> QED
        BY <2>2, <3>2 DEF MarkDispatched
    <2>3. CASE FreeSlot
      BY <2>3 DEF FreeSlot, States
    <2>4. CASE AdvanceTail
      BY <2>4 DEF AdvanceTail
    <2>5. CASE CountDispatched
      BY <2>5 DEF CountDispatched
    <2> QED
      BY <1>11, <2>1, <2>2, <2>3, <2>4, <2>5 DEF DispatcherStep
  <1>12. CASE UNCHANGED vars
    BY <1>12 DEF vars
  <1> QED
    BY <1>1, <1>2, <1>3, <1>4, <1>5, <1>6, <1>7, <1>8, <1>9, <1>10, <1>11,
       <1>12
    DEF Next, ProducerStep

\* Every variable keeps its type: in particular no thread uses a position, a
\* scan bound or a slot index before it has set it.
THEOREM TypeCorrect == Spec => []TypeOK
  <1>1. Spec => []TypeInv
    BY TypeInit, TypeNext, PTL DEF Spec
  <1>2. TypeInv => TypeOK
    BY DEF TypeInv
  <1> QED
    BY <1>1, <1>2, PTL

-----------------------------------------------------------------------------
(* The dispatcher never overtakes the producers.                           *)

\* Between its check of the tail slot and the advance, the slot is occupied.
TailInv ==
    /\ tail <= head
    /\ dpc \in {"mark", "free", "advance"} => tail < head

LEMMA TailNext == TypeInv /\ TailInv /\ [Next]_vars => TailInv'
  <1> SUFFICES ASSUME TypeInv, TailInv, [Next]_vars PROVE TailInv'
    OBVIOUS
  <1> USE DEF TypeInv, TypeOK, TailInv
  <1>1. ASSUME NEW p \in Producers, Arrive(p) \/ ProducerStep(p)
        PROVE  TailInv'
    BY <1>1 DEF Arrive, ProducerStep, LoadHead, LoadTail, Refuse,
                ClaimPosition, LockSlot, WriteSlot, Publish, CountEnqueued,
                ringVars, dispatcherVars
  <1>2. ASSUME NEW v \in Verifiers, VerifierStep(v) PROVE TailInv'
    BY <1>2 DEF VerifierStep, ScanTail, ScanHead, ScanSkip, ScanClaim,
                ScanNothing, Approve, CountVerified, Reject,
                ringVars, dispatcherVars
  <1>3. ASSUME DispatcherStep PROVE TailInv'
    BY <1>3 DEF DispatcherStep, Dequeue, MarkDispatched, FreeSlot,
                AdvanceTail, CountDispatched, ringVars
  <1>4. CASE UNCHANGED vars
    BY <1>4 DEF vars, ringVars, dispatcherVars
  <1> QED
    BY <1>1, <1>2, <1>3, <1>4 DEF Next

\* tail_ never passes head_: the occupancy of one moment is no unsigned wrap.
THEOREM TailNeverOvertakes == Spec => []TailBehindHead
  <1>1. Init => TailInv
    BY DEF Init, TailInv
  <1>2. TailInv => TailBehindHead
    BY DEF TailInv, TailBehindHead
  <1> QED
    BY <1>1, <1>2, TypeInit, TypeNext, TailNext, PTL DEF Spec

-----------------------------------------------------------------------------
(* The bounded overshoot of the full check.                                *)

\* The producers that hold a load of head_ no newer than x. One that goes on
\* to claim holds a load below tail_ + Capacity, for tail_ only grows.
LoadedUpTo(x) ==
    {p \in Producers : snapHead[p] # None /\ snapHead[p] <= x}

SnapInv ==
    \A p \in Producers :
        /\ snapHead[p] # None => snapHead[p] <= head
        /\ snapTail[p] # None => snapTail[p] <= tail

\* Each position claimed beyond x, where x is the last the ring has room for
\* or later, has used up a thread that could still claim on a load up to x.
OvershootInv ==
    \A x \in Nat :
        tail <= x - Capacity + 1 /\ x < head
            => head - x + Cardinality(LoadedUpTo(x)) <= Cardinality(Producers)

BoundInv == SnapInv /\ OvershootInv

LEMMA LoadedFinite ==
    \A x \in Nat :
        /\ IsFiniteSet(LoadedUpTo(x))
        /\ Cardinality(LoadedUpTo(x)) \in Nat
        /\ Cardinality(LoadedUpTo(x)) <= Cardinality(Producers)
        /\ Cardinality(Producers) \in Nat
  <1> TAKE x \in Nat
  <1>1. LoadedUpTo(x) \subseteq Producers
    BY DEF LoadedUpTo
  <1> QED
    BY <1>1, ProducersAssumption, FS_Subset, FS_CardinalityType

\* No thread holds a load of an older head_ than it held before.
NoOlderLoads ==
    \A y \in Nat : y < head => LoadedUpTo(y)' \subseteq LoadedUpTo(y)

\* Fewer loads up to x, no later head_ and no earlier tail_ keep the bound.
LEMMA OvershootStable ==
    ASSUME TypeOK, TypeOK', OvershootInv, head' = head, tail' >= tail,
           NoOlderLoads
    PROVE  OvershootInv'
  <1> SUFFICES ASSUME NEW x \in Nat, tail' <= x - Capacity + 1, x < head'
               PROVE  head' - x + Cardinality(LoadedUpTo(x)')
                          <= Cardinality(Producers)
    BY DEF OvershootInv
  <1>0. head \in Nat /\ tail \in Nat /\ tail' \in Nat
    BY DEF TypeOK
  <1>1. tail <= x - Capacity + 1 /\ x < head
    BY <1>0, CapacityAssumption
  <1>2. head - x + Cardinality(LoadedUpTo(x)) <= Cardinality(Producers)
    BY <1>1 DEF OvershootInv
  <1>3. Cardinality(LoadedUpTo(x)') <= Cardinality(LoadedUpTo(x))
    BY <1>1, LoadedFinite, FS_Subset DEF NoOlderLoads
  <1>4. Cardinality(LoadedUpTo(x)') \in Nat
    BY <1>1, LoadedFinite, FS_Subset, FS_CardinalityType DEF NoOlderLoads
  <1> QED
    BY <1>0, <1>2, <1>3, <1>4, LoadedFinite

\* A claim moves head_ by one and takes the claiming thread out of every set
\* that counts: a thread is used up per position beyond the capacity.
LEMMA ClaimKeepsBound ==
    ASSUME TypeInv, TypeInv', BoundInv, NEW p \in Producers, ClaimPosition(p)
    PROVE  OvershootInv'
  <1> SUFFICES ASSUME NEW x \in Nat, tail' <= x - Capacity + 1, x < head'
               PROVE  head' - x + Cardinality(LoadedUpTo(x)')
                          <= Cardinality(Producers)
    BY DEF OvershootInv
  <1> USE DEF TypeInv, TypeOK
  <1>1. /\ snapHead[p] \in Nat /\ snapHead[p] < tail + Capacity
        /\ tail' = tail /\ head' = head + 1
        /\ snapHead' = [snapHead EXCEPT ![p] = None]
    BY CapacityAssumption
    DEF ClaimPosition, Loaded, Full, ForgetLoads, BoundInv, SnapInv, None
  <1>2. p \notin LoadedUpTo(x)'
    BY <1>1 DEF LoadedUpTo, None
  <1>3. CASE x < head
    <2>1. head - x + Cardinality(LoadedUpTo(x)) <= Cardinality(Producers)
      BY <1>1, <1>3 DEF BoundInv, OvershootInv
    <2>2. p \in LoadedUpTo(x)
      BY <1>1, CapacityAssumption DEF LoadedUpTo, None
    <2>3. LoadedUpTo(x)' = LoadedUpTo(x) \ {p}
      BY <1>1 DEF LoadedUpTo, None
    <2>4. Cardinality(LoadedUpTo(x) \ {p}) = Cardinality(LoadedUpTo(x)) - 1
      <3>1. IsFiniteSet(LoadedUpTo(x))
        BY LoadedFinite
      <3> QED
        BY <2>2, <3>1, FS_RemoveElement
    <2> QED
      BY <1>1, <2>1, <2>3, <2>4, LoadedFinite
  <1>4. CASE x = head
    <2>1. LoadedUpTo(x)' \subseteq Producers \ {p}
      BY <1>2 DEF LoadedUpTo
    <2>2. /\ IsFiniteSet(Producers \ {p})
          /\ Cardinality(Producers \ {p}) = Cardinality(Producers) - 1
      BY ProducersAssumption, FS_RemoveElement
    <2>3. /\ IsFiniteSet(LoadedUpTo(x)')
          /\ Cardinality(LoadedUpTo(x)') <= Cardinality(Producers \ {p})
      BY <2>1, <2>2, FS_Subset
    <2>4. Cardinality(LoadedUpTo(x)') \in Nat
      BY <2>3, FS_CardinalityType
    <2> QED
      BY <1>1, <1>4, <2>2, <2>3, <2>4, LoadedFinite
  <1> QED
    BY <1>1, <1>3, <1>4

LEMMA BoundNext == TypeInv /\ BoundInv /\ [Next]_vars => BoundInv'
  <1> SUFFICES ASSUME TypeInv, BoundInv, [Next]_vars PROVE BoundInv'
    OBVIOUS
  <1>0. TypeInv'
    BY TypeNext
  <1> USE DEF TypeInv, TypeOK
  <1>1. ASSUME NEW p \in Producers, LoadHead(p) PROVE BoundInv'
    <2>1. SnapInv'
      BY <1>1 DEF LoadHead, SnapInv, BoundInv, ringVars
    <2>2. head' = head /\ tail' = tail
      BY <1>1 DEF LoadHead, ringVars
    <2>3. \A x \in Nat : x < head => LoadedUpTo(x)' \subseteq LoadedUpTo(x)
      BY <1>1 DEF LoadHead, LoadedUpTo, None
    <2> QED
      BY <1>0, <2>1, <2>2, <2>3, OvershootStable DEF BoundInv, NoOlderLoads
  <1>2. ASSUME NEW p \in Producers, LoadTail(p) PROVE BoundInv'
    <2>1. SnapInv'
      BY <1>2 DEF LoadTail, SnapInv, BoundInv, ringVars
    <2>2. head' = head /\ tail' = tail /\ snapHead' = snapHead
      BY <1>2 DEF LoadTail, ringVars
    <2> QED
      BY <1>0, <2>1, <2>2, OvershootStable DEF BoundInv, LoadedUpTo,
         NoOlderLoads
  <1>3. ASSUME NEW p \in Producers, Refuse(p) PROVE BoundInv'
    <2>1. SnapInv'
      BY <1>3 DEF Refuse, ForgetLoads, SnapInv, BoundInv, ringVars
    <2>2. head' = head /\ tail' = tail
      BY <1>3 DEF Refuse, ringVars
    <2>3. \A x \in Nat : LoadedUpTo(x)' \subseteq LoadedUpTo(x)
      BY <1>3 DEF Refuse, ForgetLoads, LoadedUpTo, None
    <2> QED
      BY <1>0, <2>1, <2>2, <2>3, OvershootStable DEF BoundInv, NoOlderLoads
  <1>4. ASSUME NEW p \in Producers, ClaimPosition(p) PROVE BoundInv'
    <2>1. SnapInv'
      BY <1>4 DEF ClaimPosition, ForgetLoads, SnapInv, BoundInv
    <2> QED
      BY <1>0, <1>4, <2>1, ClaimKeepsBound DEF BoundInv
  <1>5. ASSUME NEW p \in Producers,
               Arrive(p) \/ LockSlot(p) \/ WriteSlot(p) \/ Publish(p)
                   \/ CountEnqueued(p)
        PROVE  UNCHANGED <<head, tail, snapHead, snapTail>>
    BY <1>5 DEF Arrive, LockSlot, WriteSlot, Publish, CountEnqueued, ringVars
  <1>6. ASSUME NEW v \in Verifiers, VerifierStep(v)
        PROVE  UNCHANGED <<head, tail, snapHead, snapTail>>
    BY <1>6 DEF VerifierStep, ScanTail, ScanHead, ScanSkip, ScanClaim,
                ScanNothing, Approve, CountVerified, Reject, ringVars,
                producerVars
  <1>7. ASSUME DispatcherStep
        PROVE  /\ head' = head /\ tail' >= tail
               /\ UNCHANGED <<snapHead, snapTail>>
    BY <1>7 DEF DispatcherStep, Dequeue, MarkDispatched, FreeSlot,
                AdvanceTail, CountDispatched, ringVars, producerVars
  <1>8. ASSUME UNCHANGED vars
        PROVE  UNCHANGED <<head, tail, snapHead, snapTail>>
    BY <1>8 DEF vars, ringVars, producerVars
  <1>9. ASSUME head' = head, tail' >= tail, UNCHANGED <<snapHead, snapTail>>
        PROVE  BoundInv'
    <2>1. SnapInv'
      BY <1>0, <1>9 DEF SnapInv, BoundInv, None
    <2>2. \A x \in Nat : LoadedUpTo(x)' = LoadedUpTo(x)
      BY <1>9 DEF LoadedUpTo
    <2> QED
      BY <1>0, <1>9, <2>1, <2>2, OvershootStable DEF BoundInv, NoOlderLoads
  <1> QED
    BY <1>1, <1>2, <1>3, <1>4, <1>5, <1>6, <1>7, <1>8, <1>9
    DEF Next, ProducerStep

\* The ring never holds Capacity plus as many positions as there are HTTP
\* threads, although the full check is not part of the claim.
THEOREM OvershootIsBounded == Spec => []OccupancyBound
  <1>1. Init => BoundInv
    BY CapacityAssumption DEF Init, BoundInv, SnapInv, OvershootInv, None
  <1>2. TypeInv /\ BoundInv => OccupancyBound
    <2> SUFFICES ASSUME TypeInv, BoundInv PROVE OccupancyBound
      OBVIOUS
    <2>1. PICK x \in Nat : x = tail + Capacity - 1
      BY CapacityAssumption DEF TypeInv, TypeOK
    <2>2. Cardinality(Producers) \in Nat \ {0}
      BY ProducersAssumption, FS_CardinalityType, FS_EmptySet
    <2>3. CASE x < head
      <3>1. head - x + Cardinality(LoadedUpTo(x)) <= Cardinality(Producers)
        BY <2>1, <2>3, CapacityAssumption
        DEF BoundInv, OvershootInv, TypeInv, TypeOK
      <3> QED
        BY <2>1, <2>2, <3>1, LoadedFinite, CapacityAssumption
        DEF OccupancyBound, TypeInv, TypeOK
    <2>4. CASE ~(x < head)
      BY <2>1, <2>2, <2>4, CapacityAssumption
      DEF OccupancyBound, TypeInv, TypeOK
    <2> QED
      BY <2>3, <2>4
  <1> QED
    BY <1>1, <1>2, TypeInit, TypeNext, BoundNext, PTL DEF Spec

-----------------------------------------------------------------------------
(* The refusals.                                                           *)

\* The only step from the check back to idle is the refusal.
LEMMA OnlyRefuseTurnsAway ==
  ASSUME TypeInv, Next, NEW p \in Producers, pc[p] = "check", pc'[p] = "idle"
  PROVE  Refuse(p)
  <1> USE DEF TypeInv, TypeOK, Goto
  <1>1. ASSUME NEW q \in Producers, Arrive(q) \/ ProducerStep(q), ~Refuse(p)
        PROVE  FALSE
    <2>1. /\ pc \in [Producers -> {"idle", "check", "lock", "write", "publish",
                                   "count"}]
          /\ pc[p] = "check" /\ pc'[p] = "idle"
      OBVIOUS
    <2>2. CASE q # p
      BY <1>1, <2>1, <2>2
      DEF Arrive, ProducerStep, LoadHead, LoadTail, Refuse, ClaimPosition, LockSlot,
          WriteSlot, Publish, CountEnqueued
    <2>3. CASE q = p
      BY <1>1, <2>1, <2>3
      DEF Arrive, ProducerStep, LoadHead, LoadTail, ClaimPosition, LockSlot,
          WriteSlot, Publish, CountEnqueued
    <2> QED
      BY <2>2, <2>3
  <1>2. ASSUME NEW v \in Verifiers, VerifierStep(v) PROVE pc' = pc
    BY <1>2 DEF VerifierStep, ScanTail, ScanHead, ScanSkip, ScanClaim,
                ScanNothing, Approve, CountVerified, Reject, producerVars
  <1>3. ASSUME DispatcherStep PROVE pc' = pc
    BY <1>3 DEF DispatcherStep, Dequeue, MarkDispatched, FreeSlot,
                AdvanceTail, CountDispatched, producerVars
  <1> QED
    BY <1>1, <1>2, <1>3 DEF Next

\* However the two loads of the full check fall among the claims and the
\* dispatches, and although their difference may wrap: no request is turned
\* away for want of room unless room was wanting during its check.
THEOREM RefusalsAreForWantOfRoom == Spec => RefusedOnlyIfFull
  <1>1. ASSUME TypeInv, BoundInv, Next, NEW p \in Producers,
               pc[p] = "check", pc'[p] = "idle"
        PROVE  \/ head - tail >= Capacity
               \/ snapTail[p] < tail
               \/ snapHead[p] < tail
    <2>1. Refuse(p)
      BY <1>1, OnlyRefuseTurnsAway
    <2>2. /\ snapHead[p] \in Nat /\ snapTail[p] \in Nat
          /\ head \in Nat /\ tail \in Nat /\ Capacity \in Nat
      BY <1>1, <2>1, CapacityAssumption
      DEF Refuse, Loaded, TypeInv, TypeOK, None
    <2>3. snapHead[p] <= head /\ snapTail[p] <= tail
      BY <1>1, <2>2 DEF BoundInv, SnapInv, None
    <2>4. \/ snapHead[p] < snapTail[p]
          \/ snapHead[p] - snapTail[p] >= Capacity
      BY <2>1 DEF Refuse, Full
    <2> QED
      BY <2>2, <2>3, <2>4
  <1>2. Init => BoundInv
    BY CapacityAssumption DEF Init, BoundInv, SnapInv, OvershootInv, None
  <1>3. TypeInv /\ BoundInv /\ [Next]_vars
            => [\A p \in Producers :
                   pc[p] = "check" /\ pc'[p] = "idle" =>
                       \/ head - tail >= Capacity
                       \/ snapTail[p] < tail
                       \/ snapHead[p] < tail]_vars
    BY <1>1
  <1> QED
    BY <1>2, <1>3, TypeInit, TypeNext, BoundNext, PTL DEF Spec, RefusedOnlyIfFull

-----------------------------------------------------------------------------
(* Positions and counters.                                                 *)

LEMMA DistinctNext == TypeInv /\ PositionsDistinct /\ [Next]_vars
                          => PositionsDistinct'
  <1> SUFFICES ASSUME TypeInv, PositionsDistinct, [Next]_vars
               PROVE  PositionsDistinct'
    OBVIOUS
  <1> USE DEF TypeInv, TypeOK, PositionsDistinct, Claimed, Goto
  <1>1. ASSUME NEW p \in Producers, ClaimPosition(p) PROVE PositionsDistinct'
    <2>1. \A q \in Claimed : pos[q] < head /\ pos[q] \in Nat
      BY DEF LocalsSet
    <2>2. /\ pos' = [pos EXCEPT ![p] = head]
          /\ Claimed' = Claimed \cup {p}
          /\ p \notin Claimed
      BY <1>1 DEF ClaimPosition, Loaded
    <2>3. \A q \in Claimed : pos'[q] = pos[q] /\ pos'[q] # pos'[p]
      BY <2>1, <2>2
    <2> QED
      BY <2>2, <2>3
  <1>2. ASSUME NEW p \in Producers,
               Arrive(p) \/ LoadHead(p) \/ LoadTail(p) \/ Refuse(p)
        PROVE  PositionsDistinct'
    BY <1>2 DEF Arrive, LoadHead, LoadTail, Refuse, Loaded
  <1>3. ASSUME NEW p \in Producers, LockSlot(p) \/ WriteSlot(p) \/ Publish(p)
        PROVE  PositionsDistinct'
    BY <1>3 DEF LockSlot, WriteSlot, Publish
  <1>4. ASSUME NEW p \in Producers, CountEnqueued(p) PROVE PositionsDistinct'
    BY <1>4 DEF CountEnqueued
  <1>5. ASSUME NEW v \in Verifiers, VerifierStep(v)
        PROVE  UNCHANGED producerVars
    BY <1>5 DEF VerifierStep, ScanTail, ScanHead, ScanSkip, ScanClaim,
                ScanNothing, Approve, CountVerified, Reject
  <1>6. ASSUME DispatcherStep PROVE UNCHANGED producerVars
    BY <1>6 DEF DispatcherStep, Dequeue, MarkDispatched, FreeSlot,
                AdvanceTail, CountDispatched
  <1>7. ASSUME UNCHANGED producerVars PROVE PositionsDistinct'
    BY <1>7 DEF producerVars
  <1> QED
    BY <1>1, <1>2, <1>3, <1>4, <1>5, <1>6, <1>7 DEF Next, ProducerStep, vars

\* No two enqueue calls in progress ever own the same position.
THEOREM PositionsAreDistinct == Spec => []PositionsDistinct
  <1>1. Init => PositionsDistinct
    BY DEF Init, PositionsDistinct, Claimed
  <1> QED
    BY <1>1, TypeInit, TypeNext, DistinctNext, PTL DEF Spec

LEMMA ClaimedFinite == IsFiniteSet(Claimed) /\ Cardinality(Claimed) \in Nat
  <1>1. Claimed \subseteq Producers
    BY DEF Claimed
  <1> QED
    BY <1>1, ProducersAssumption, FS_Subset, FS_CardinalityType

\* enqueue claims and counts in two steps and mark_dispatched advances and
\* counts in two: the totals differ from head_ and tail_ by the calls between.
CountersAgree ==
    /\ head = enqueued + Cardinality(Claimed)
    /\ tail = dispatched + (IF dpc = "count" THEN 1 ELSE 0)

LEMMA CountersNext == TypeInv /\ CountersAgree /\ [Next]_vars
                          => CountersAgree'
  <1> SUFFICES ASSUME TypeInv, CountersAgree, [Next]_vars
               PROVE  CountersAgree'
    OBVIOUS
  <1> USE DEF TypeInv, TypeOK, CountersAgree
  <1>1. ASSUME NEW p \in Producers, ClaimPosition(p) PROVE CountersAgree'
    <2>1. Claimed' = Claimed \cup {p} /\ p \notin Claimed
      BY <1>1 DEF ClaimPosition, Loaded, Goto, Claimed
    <2>2. Cardinality(Claimed') = Cardinality(Claimed) + 1
      BY <2>1, ClaimedFinite, FS_AddElement
    <2> QED
      BY <1>1, <2>2, ClaimedFinite
      DEF ClaimPosition, countVars, dispatcherVars
  <1>2. ASSUME NEW p \in Producers, CountEnqueued(p) PROVE CountersAgree'
    <2>1. Claimed' = Claimed \ {p} /\ p \in Claimed
      BY <1>2 DEF CountEnqueued, Goto, Claimed
    <2>2. Cardinality(Claimed') = Cardinality(Claimed) - 1
      BY <2>1, ClaimedFinite, FS_RemoveElement
    <2> QED
      BY <1>2, <2>2, ClaimedFinite
      DEF CountEnqueued, ringVars, dispatcherVars
  <1>3. ASSUME NEW p \in Producers,
               Arrive(p) \/ LoadHead(p) \/ LoadTail(p) \/ Refuse(p)
                   \/ LockSlot(p) \/ WriteSlot(p) \/ Publish(p)
        PROVE  CountersAgree'
    <2>1. Claimed' = Claimed
      BY <1>3 DEF Arrive, LoadHead, LoadTail, Refuse, Loaded, LockSlot,
                  WriteSlot, Publish, Goto, Claimed
    <2>2. UNCHANGED <<head, tail, countVars, dispatcherVars>>
      BY <1>3 DEF Arrive, LoadHead, LoadTail, Refuse, LockSlot, WriteSlot,
                  Publish, ringVars
    <2> QED
      BY <2>1, <2>2 DEF countVars, dispatcherVars
  <1>4. ASSUME NEW v \in Verifiers, VerifierStep(v)
        PROVE  UNCHANGED <<head, tail, enqueued, dispatched, pc, dpc>>
    BY <1>4 DEF VerifierStep, ScanTail, ScanHead, ScanSkip, ScanClaim,
                ScanNothing, Approve, CountVerified, Reject, ringVars,
                countVars, producerVars, dispatcherVars
  <1>5. ASSUME DispatcherStep PROVE CountersAgree'
    <2>1. Claimed' = Claimed
      BY <1>5 DEF DispatcherStep, Dequeue, MarkDispatched, FreeSlot,
                  AdvanceTail, CountDispatched, producerVars, Claimed
    <2> QED
      BY <1>5, <2>1
      DEF DispatcherStep, Dequeue, MarkDispatched, FreeSlot, AdvanceTail,
          CountDispatched, ringVars, countVars
  <1>6. CASE UNCHANGED vars
    BY <1>6 DEF vars, ringVars, countVars, producerVars, dispatcherVars,
                Claimed
  <1> QED
    BY <1>1, <1>2, <1>3, <1>4, <1>5, <1>6
    DEF Next, ProducerStep, Claimed

\* The totals shown by the telemetry differ from head_ and tail_ only by the
\* calls that are between their claim or advance and their count.
THEOREM CountersAreExact == Spec => []CountersAgree
  <1>1. Init => CountersAgree
    <2>1. ASSUME Init PROVE Claimed = {}
      BY <2>1 DEF Init, Claimed
    <2> QED
      BY <2>1, FS_EmptySet DEF Init, CountersAgree
  <1> QED
    BY <1>1, TypeInit, TypeNext, CountersNext, PTL DEF Spec

-----------------------------------------------------------------------------
(* The slot_id that steers mark_dispatched.                                *)

\* Two positions of one window share no slot.
LEMMA IdxInjective ==
  ASSUME NEW a \in Nat, NEW b \in Nat, Idx(a) = Idx(b), b <= a, a < b + Capacity
  PROVE  a = b
  <1>1. PICK n \in Nat : n = Capacity /\ n > 0
    BY CapacityAssumption
  <1>2. PICK d \in Nat : a = b + d /\ d < n
    BY <1>1
  <1>3. /\ a = n * (a \div n) + (a % n) /\ a \div n \in Nat
        /\ b = n * (b \div n) + (b % n) /\ b \div n \in Nat
    BY <1>1
  <1>4. a % n = b % n
    BY <1>1 DEF Idx
  <1>5. PICK x \in Nat, y \in Nat : a \div n = x /\ b \div n = y
    BY <1>3
  <1>6. d = n * (x - y)
    BY <1>2, <1>3, <1>4, <1>5
  <1>7. x - y < 1
    <2>1. SUFFICES ASSUME x - y >= 1 PROVE FALSE
      OBVIOUS
    <2>2. PICK z \in Nat : x - y = z + 1
      BY <2>1
    <2>3. n * (x - y) = n * z + n /\ n * z \in Nat
      BY <1>1, <2>2
    <2> QED
      BY <1>1, <1>2, <1>6, <2>3
  <1>8. x - y > -1
    <2>1. SUFFICES ASSUME x - y <= -1 PROVE FALSE
      OBVIOUS
    <2>2. PICK z \in Nat : x - y = -(z + 1)
      BY <2>1
    <2>3. n * (x - y) = -(n * z + n) /\ n * z \in Nat
      BY <1>1, <2>2
    <2> QED
      BY <1>1, <1>2, <1>6, <2>3
  <1>9. x - y = 0
    BY <1>7, <1>8
  <1> QED
    BY <1>1, <1>2, <1>6, <1>9

\* A position lies whole laps behind or ahead of the first one of its slot.
LEMMA LapsOf ==
  ASSUME NEW x \in Nat
  PROVE  /\ x = Capacity * (x \div Capacity) + Idx(x)
         /\ x \div Capacity \in Nat /\ Idx(x) \in Nat /\ Idx(x) < Capacity
  BY CapacityAssumption DEF Idx

LEMMA SlotOfLap ==
  ASSUME NEW j \in Nat, NEW i \in Slots
  PROVE  Capacity * j + i \in Nat /\ Idx(Capacity * j + i) = i
  <1>1. PICK c \in Nat : c = Capacity /\ c > 0
    BY CapacityAssumption
  <1>2. i \in Nat /\ i < c
    BY <1>1 DEF Slots
  <1>3. c * j + i \in Nat
    BY <1>1, <1>2
  <1>4. (c * j + i) % c = i
    BY <1>1, <1>2
  <1> QED
    BY <1>1, <1>3, <1>4 DEF Idx

\* More laps are more positions.
LEMMA LapsGrow ==
  ASSUME NEW j \in Nat, NEW k \in Nat, j <= k
  PROVE  Capacity * j \in Nat /\ Capacity * j <= Capacity * k
  <1>1. PICK c \in Nat : c = Capacity
    BY CapacityAssumption
  <1>2. PICK d \in Nat : k = j + d
    <2>1. k - j \in Nat /\ k = j + (k - j)
      OBVIOUS
    <2> QED
      BY <2>1
  <1>3. c * k = c * j + c * d /\ c * j \in Nat /\ c * d \in Nat
    BY <1>1, <1>2
  <1> QED
    BY <1>1, <1>3

Holding(p) == pc[p] \in {"lock", "write", "publish"}

\* No producer has written its slot_id into this slot yet.
Unwritten(i) == Idx(slotId[i]) # i

\* No producer has published a request in this slot yet: each of its positions
\* is still held by the producer that claimed it.
Fresh(i) ==
    \A x \in Nat : x < head /\ Idx(x) = i =>
        \E p \in Producers : Holding(p) /\ pos[p] = x

\* The slot_id of a slot is its own, or the initial 0 and then the slot is fresh.
SlotIdInv ==
    /\ \A i \in Slots : Unwritten(i) => slotId[i] = 0 /\ Fresh(i)
    /\ \A p \in Producers :
           pc[p] \in {"publish", "count"} => ~Unwritten(Idx(pos[p]))

\* Only publishing a request ends the freshness of a slot.
LEMMA FreshStays ==
  ASSUME TypeInv, [Next]_vars, NEW i \in Slots, Fresh(i),
         \A p \in Producers : Publish(p) => Idx(pos[p]) # i
  PROVE  Fresh(i)'
  <1> SUFFICES ASSUME NEW x \in Nat, x < head', Idx(x) = i
               PROVE  \E p \in Producers : Holding(p)' /\ pos'[p] = x
    BY DEF Fresh
  <1> USE DEF TypeInv, TypeOK, Holding
  <1>1. ASSUME NEW p \in Producers, ClaimPosition(p)
        PROVE  \E q \in Producers : Holding(q)' /\ pos'[q] = x
    <2>1. /\ pc[p] = "check" /\ pc' = [pc EXCEPT ![p] = "lock"]
          /\ pos' = [pos EXCEPT ![p] = head] /\ head' = head + 1
      BY <1>1 DEF ClaimPosition, Loaded, Goto
    <2>2. CASE x = head
      BY <2>1, <2>2
    <2>3. CASE x < head
      <3>1. PICK q \in Producers : Holding(q) /\ pos[q] = x
        BY <2>3 DEF Fresh
      <3> QED
        BY <2>1, <3>1
    <2> QED
      BY <2>1, <2>2, <2>3
  <1>2. ASSUME head' = head,
               \A q \in Producers :
                   Holding(q) /\ Idx(pos[q]) = i => Holding(q)' /\ pos'[q] = pos[q]
        PROVE  \E q \in Producers : Holding(q)' /\ pos'[q] = x
    <2>1. PICK q \in Producers : Holding(q) /\ pos[q] = x
      BY <1>2 DEF Fresh
    <2> QED
      BY <1>2, <2>1
  <1>3. ASSUME NEW p \in Producers,
               Arrive(p) \/ LoadHead(p) \/ LoadTail(p) \/ Refuse(p) \/ LockSlot(p)
               \/ WriteSlot(p) \/ Publish(p) \/ CountEnqueued(p)
        PROVE  /\ head' = head
               /\ \A q \in Producers :
                    Holding(q) /\ Idx(pos[q]) = i => Holding(q)' /\ pos'[q] = pos[q]
    BY <1>3 DEF Arrive, LoadHead, LoadTail, Refuse, LockSlot, WriteSlot, Publish,
                CountEnqueued, Loaded, Goto, ringVars
  <1>4. ASSUME NEW v \in Verifiers, VerifierStep(v)
        PROVE  UNCHANGED <<head, pc, pos>>
    BY <1>4 DEF VerifierStep, ScanTail, ScanHead, ScanSkip, ScanClaim,
                ScanNothing, Approve, CountVerified, Reject, ringVars,
                producerVars
  <1>5. ASSUME DispatcherStep PROVE UNCHANGED <<head, pc, pos>>
    BY <1>5 DEF DispatcherStep, Dequeue, MarkDispatched, FreeSlot, AdvanceTail,
                CountDispatched, ringVars, producerVars
  <1>6. CASE UNCHANGED vars
    BY <1>2, <1>6 DEF vars, ringVars, producerVars
  <1> QED
    BY <1>1, <1>2, <1>3, <1>4, <1>5, <1>6 DEF Next, ProducerStep

\* Only copying a request sets a slot_id, and it sets one of the slot's own.
LEMMA SlotIdStep ==
  ASSUME TypeInv, [Next]_vars
  PROVE  \/ slotId' = slotId
         \/ \E p \in Producers :
               /\ WriteSlot(p)
               /\ Idx(pos[p]) \in Slots
               /\ slotId' = [slotId EXCEPT ![Idx(pos[p])] = pos[p]]
  <1>1. ASSUME NEW p \in Producers, WriteSlot(p)
        PROVE  /\ Idx(pos[p]) \in Slots
               /\ slotId' = [slotId EXCEPT ![Idx(pos[p])] = pos[p]]
    <2>1. pos[p] \in Nat
      BY <1>1 DEF WriteSlot, TypeInv, LocalsSet, Claimed
    <2> QED
      BY <1>1, <2>1, IdxInSlots DEF WriteSlot
  <1>2. ASSUME NEW p \in Producers, Arrive(p) \/ ProducerStep(p), ~WriteSlot(p)
        PROVE  slotId' = slotId
    BY <1>2 DEF ProducerStep, Arrive, LoadHead, LoadTail, Refuse, ClaimPosition,
                LockSlot, Publish, CountEnqueued, ringVars
  <1>3. ASSUME NEW v \in Verifiers, VerifierStep(v) PROVE slotId' = slotId
    BY <1>3 DEF VerifierStep, ScanTail, ScanHead, ScanSkip, ScanClaim,
                ScanNothing, Approve, CountVerified, Reject, ringVars
  <1>4. ASSUME DispatcherStep PROVE slotId' = slotId
    BY <1>4 DEF DispatcherStep, Dequeue, MarkDispatched, FreeSlot, AdvanceTail,
                CountDispatched, ringVars
  <1>5. CASE UNCHANGED vars
    BY <1>5 DEF vars, ringVars
  <1> QED
    BY <1>1, <1>2, <1>3, <1>4, <1>5 DEF Next

\* Once a slot has a slot_id of its own it never loses it.
LEMMA WrittenStays ==
  ASSUME TypeInv, [Next]_vars, NEW i \in Slots
  PROVE  Unwritten(i)' => Unwritten(i) /\ slotId'[i] = slotId[i]
  BY SlotIdStep DEF Unwritten, TypeInv, TypeOK

\* A producer past its copy has just made it, or was past it before.
LEMMA CopiedBefore ==
  ASSUME TypeInv, [Next]_vars, NEW p \in Producers, pc'[p] \in {"publish", "count"}
  PROVE  /\ pos'[p] = pos[p] /\ pos[p] \in Nat
         /\ WriteSlot(p) \/ pc[p] \in {"publish", "count"}
  <1> USE DEF TypeInv, TypeOK, LocalsSet, Claimed
  <1>1. ASSUME NEW q \in Producers, Arrive(q) \/ ProducerStep(q)
        PROVE  /\ pos'[p] = pos[p]
               /\ WriteSlot(p) \/ pc[p] \in {"publish", "count"}
    BY <1>1 DEF ProducerStep, Arrive, LoadHead, LoadTail, Refuse, ClaimPosition,
                LockSlot, WriteSlot, Publish, CountEnqueued, Loaded, Goto
  <1>2. ASSUME NEW v \in Verifiers, VerifierStep(v) PROVE UNCHANGED <<pc, pos>>
    BY <1>2 DEF VerifierStep, ScanTail, ScanHead, ScanSkip, ScanClaim,
                ScanNothing, Approve, CountVerified, Reject, producerVars
  <1>3. ASSUME DispatcherStep PROVE UNCHANGED <<pc, pos>>
    BY <1>3 DEF DispatcherStep, Dequeue, MarkDispatched, FreeSlot, AdvanceTail,
                CountDispatched, producerVars
  <1>4. CASE UNCHANGED vars
    BY <1>4 DEF vars, producerVars
  <1>5. pos'[p] = pos[p] /\ (WriteSlot(p) \/ pc[p] \in {"publish", "count"})
    BY <1>1, <1>2, <1>3, <1>4 DEF Next
  <1> QED
    BY <1>5 DEF WriteSlot

LEMMA SlotIdNext == TypeInv /\ SlotIdInv /\ [Next]_vars => SlotIdInv'
  <1> SUFFICES ASSUME TypeInv, SlotIdInv, [Next]_vars PROVE SlotIdInv'
    OBVIOUS
  <1>1. ASSUME NEW i \in Slots, Unwritten(i)' PROVE slotId'[i] = 0 /\ Fresh(i)'
    <2>1. Unwritten(i) /\ slotId'[i] = slotId[i]
      BY <1>1, WrittenStays
    <2>2. slotId[i] = 0 /\ Fresh(i)
      BY <2>1 DEF SlotIdInv
    <2>3. ASSUME NEW p \in Producers, Publish(p) PROVE Idx(pos[p]) # i
      BY <2>1, <2>3 DEF Publish, SlotIdInv
    <2> QED
      BY <2>1, <2>2, <2>3, FreshStays
  <1>2. ASSUME NEW p \in Producers, pc'[p] \in {"publish", "count"}
        PROVE  ~Unwritten(Idx(pos[p]))'
    <2>1. /\ pos'[p] = pos[p] /\ pos[p] \in Nat
          /\ WriteSlot(p) \/ pc[p] \in {"publish", "count"}
      BY <1>2, CopiedBefore
    <2>2. Idx(pos[p]) \in Slots
      BY <2>1, IdxInSlots
    <2>3. CASE WriteSlot(p)
      <3>1. slotId'[Idx(pos[p])] = pos[p]
        BY <2>2, <2>3 DEF WriteSlot, TypeInv, TypeOK
      <3> QED
        BY <2>1, <3>1 DEF Unwritten
    <2>4. CASE pc[p] \in {"publish", "count"}
      <3>1. ~Unwritten(Idx(pos[p]))
        BY <2>4 DEF SlotIdInv
      <3>2. PICK i \in Slots : i = Idx(pos[p]) /\ i = Idx(pos'[p])
        BY <2>1, <2>2
      <3>3. ~Unwritten(i)'
        BY <3>1, <3>2, WrittenStays
      <3> QED
        BY <3>2, <3>3 DEF Unwritten
    <2> QED
      BY <2>1, <2>3, <2>4
  <1> QED
    BY <1>1, <1>2 DEF SlotIdInv

\* A slot can be fresh only in the first laps of the ring, one for each producer:
\* every position of it so far is held by a producer of its own.
LEMMA FreshIsEarly ==
  ASSUME TypeInv, NEW x \in Nat, x < head, Fresh(Idx(x))
  PROVE  x < Capacity * Cardinality(Producers)
  <1> DEFINE i    == Idx(x)
             laps == x \div Capacity
             At(j) == Capacity * j + i
             holder == [j \in 0..laps |->
                           CHOOSE p \in Producers : Holding(p) /\ pos[p] = At(j)]
  <1>1. /\ x = Capacity * laps + i /\ laps \in Nat
        /\ i \in Nat /\ i < Capacity /\ i \in Slots
    BY LapsOf, IdxInSlots
  <1>2. Cardinality(Producers) \in Nat
    BY ProducersAssumption, FS_CardinalityType
  <1> HIDE DEF i, laps
  <1>3. ASSUME NEW j \in 0..laps
        PROVE  At(j) \in Nat /\ At(j) <= x /\ Idx(At(j)) = i
    <2>1. j \in Nat /\ j <= laps
      BY <1>1
    <2>2. Capacity * j \in Nat /\ Capacity * j <= Capacity * laps
      BY <1>1, <2>1, LapsGrow
    <2>3. At(j) <= Capacity * laps + i
      <3>1. PICK a \in Nat, b \in Int : a = Capacity * j /\ b = Capacity * laps /\ a <= b
        BY <1>1, <2>2, CapacityAssumption
      <3> QED
        BY <1>1, <3>1
    <2> QED
      BY <1>1, <2>1, <2>3, SlotOfLap
  <1>4. ASSUME NEW j \in 0..laps
        PROVE  holder[j] \in Producers /\ pos[holder[j]] = At(j)
    <2>1. At(j) < head
      BY <1>3 DEF TypeInv, TypeOK
    <2>2. \E p \in Producers : Holding(p) /\ pos[p] = At(j)
      BY <1>3, <2>1 DEF Fresh, i
    <2> QED
      BY <2>2
  <1> HIDE DEF holder
  <1>5. ASSUME NEW j \in 0..laps, NEW k \in 0..laps, At(j) = At(k) PROVE j = k
    <2>1. PICK c \in Nat : c = Capacity /\ c > 0
      BY CapacityAssumption
    <2>2. j \in Nat /\ k \in Nat
      BY <1>1
    <2>3. c * j = c * k
      BY <1>1, <1>5, <2>1, <2>2
    <2>4. (c * j) \div c = j /\ (c * k) \div c = k
      BY <2>1, <2>2
    <2> QED
      BY <2>3, <2>4
  <1>6. holder \in [0..laps -> Producers]
    BY <1>4 DEF holder
  <1>7. \A j, k \in 0..laps : holder[j] = holder[k] => j = k
    BY <1>4, <1>5
  <1>8. holder \in Injection(0..laps, Producers)
    BY <1>6, <1>7 DEF Injection, IsInjective
  <1>9. laps + 1 <= Cardinality(Producers)
    <2>1. Cardinality(0..laps) <= Cardinality(Producers)
      BY <1>8, ProducersAssumption, FS_Injection
    <2>2. Cardinality(0..laps) = laps + 1
      BY <1>1, FS_Interval
    <2> QED
      BY <2>1, <2>2
  <1>10. Capacity * (laps + 1) <= Capacity * Cardinality(Producers)
    BY <1>1, <1>2, <1>9, LapsGrow
  <1>11. x < Capacity * (laps + 1)
    <2>1. PICK c \in Nat : c = Capacity
      BY CapacityAssumption
    <2>2. c * (laps + 1) = c * laps + c
      BY <1>1, <2>1
    <2>3. PICK m \in Nat : m = c * laps
      BY <1>1, <2>1
    <2> QED
      BY <1>1, <2>1, <2>2, <2>3
  <1>12. /\ Capacity * (laps + 1) \in Nat
         /\ Capacity * Cardinality(Producers) \in Nat
    <2>1. laps + 1 \in Nat /\ laps + 1 <= laps + 1
      BY <1>1
    <2> QED
      BY <1>2, <2>1, LapsGrow
  <1>13. PICK u \in Nat, w \in Nat :
            u = Capacity * (laps + 1) /\ w = Capacity * Cardinality(Producers)
    BY <1>12
  <1> QED
    BY <1>10, <1>11, <1>13

\* mark_dispatched frees the slot it was given, except that in the first laps of
\* the ring it may free slot 0: that is what an unset slot_id names.
FreeInv ==
    dpc = "free" /\ freeIdx # Idx(tail) =>
        freeIdx = 0 /\ tail < Capacity * Cardinality(Producers)

LEMMA FreeNext == TypeInv /\ TailInv /\ SlotIdInv /\ FreeInv /\ [Next]_vars => FreeInv'
  <1> SUFFICES ASSUME TypeInv, TailInv, SlotIdInv, FreeInv, [Next]_vars
               PROVE  FreeInv'
    OBVIOUS
  <1>1. CASE MarkDispatched
    <2>1. /\ dpc = "mark" /\ freeIdx' = Idx(slotId[Idx(tail)])
          /\ tail' = tail
      BY <1>1 DEF MarkDispatched, ringVars
    <2>2. tail \in Nat /\ tail < head /\ Idx(tail) \in Slots
      BY <2>1, IdxInSlots DEF TypeInv, TypeOK, TailInv
    <2>3. CASE Unwritten(Idx(tail))
      <3>1. slotId[Idx(tail)] = 0 /\ Fresh(Idx(tail))
        BY <2>2, <2>3 DEF SlotIdInv
      <3>2. tail < Capacity * Cardinality(Producers)
        BY <2>2, <3>1, FreshIsEarly
      <3>3. Idx(0) = 0
        BY CapacityAssumption DEF Idx
      <3> QED
        BY <2>1, <3>1, <3>2, <3>3 DEF FreeInv
    <2>4. CASE ~Unwritten(Idx(tail))
      BY <2>1, <2>4 DEF FreeInv, Unwritten
    <2> QED
      BY <2>3, <2>4
  <1>2. ASSUME UNCHANGED <<tail, freeIdx>>, dpc' = "free" => dpc = "free"
        PROVE  FreeInv'
    BY <1>2 DEF FreeInv
  <1>3. CASE Dequeue \/ FreeSlot \/ AdvanceTail \/ CountDispatched
    BY <1>3 DEF Dequeue, FreeSlot, AdvanceTail, CountDispatched, FreeInv
  <1>4. ASSUME NEW p \in Producers, Arrive(p) \/ ProducerStep(p)
        PROVE  UNCHANGED <<tail, freeIdx, dpc>>
    BY <1>4 DEF ProducerStep, Arrive, LoadHead, LoadTail, Refuse, ClaimPosition,
                LockSlot, WriteSlot, Publish, CountEnqueued, ringVars,
                dispatcherVars
  <1>5. ASSUME NEW v \in Verifiers, VerifierStep(v)
        PROVE  UNCHANGED <<tail, freeIdx, dpc>>
    BY <1>5 DEF VerifierStep, ScanTail, ScanHead, ScanSkip, ScanClaim,
                ScanNothing, Approve, CountVerified, Reject, ringVars,
                dispatcherVars
  <1>6. CASE UNCHANGED vars
    BY <1>2, <1>6 DEF vars, ringVars, dispatcherVars
  <1> QED
    BY <1>1, <1>2, <1>3, <1>4, <1>5, <1>6 DEF Next, DispatcherStep

LEMMA SlotIdInit == Init => SlotIdInv /\ FreeInv
  BY DEF Init, SlotIdInv, Fresh, FreeInv

FreesWhatItDispatched ==
    dpc = "free" /\ tail >= Capacity * Cardinality(Producers) =>
        freeIdx = Idx(tail)

\* mark_dispatched trusts a slot_id that a producer may not have copied yet. It
\* frees another slot than the one dispatched only in the first laps of the
\* ring, one for each thread of the HTTP server, and never afterwards.
THEOREM DispatchFreesItsSlot == Spec => []FreesWhatItDispatched
  <1> DEFINE Inv == TypeInv /\ TailInv /\ SlotIdInv /\ FreeInv
  <1>1. Init => Inv
    BY TypeInit, SlotIdInit DEF Init, TailInv
  <1>2. Inv /\ [Next]_vars => Inv'
    BY TypeNext, TailNext, SlotIdNext, FreeNext
  <1>3. Inv => FreesWhatItDispatched
    <2> SUFFICES ASSUME Inv PROVE FreesWhatItDispatched
      OBVIOUS
    <2>1. /\ tail \in Nat
          /\ Capacity * Cardinality(Producers) \in Nat
      BY ProducersAssumption, FS_CardinalityType, LapsGrow DEF TypeInv, TypeOK
    <2> QED
      BY <2>1 DEF FreeInv, FreesWhatItDispatched
  <1> HIDE DEF Inv
  <1> QED
    BY <1>1, <1>2, <1>3, PTL DEF Spec

-----------------------------------------------------------------------------
(* What the dispatcher owes to the verifiers.                              *)

\* Positions taken for dispatch, whether already counted or not.
Taken == IF dpc = "dequeue" \/ dpc = "count" THEN tail ELSE tail + 1

\* Approvals given, whether already counted or not.
Counting == {v \in Verifiers : vpc[v] = "count"}
Approved == verified + Cardinality(Counting)

\* A slot whose approval counts no more: the dispatcher is about to empty it,
\* or has gone past it while its first requests are still being copied.
Spent(i) ==
    \/ dpc = "mark" /\ i = Idx(tail) /\ ~Unwritten(i)
    \/ dpc = "free" /\ i = freeIdx
    \/ Fresh(i) /\ Taken > i

Due == {i \in Slots : state[i] = "PROCESSING" /\ ~Spent(i)}

\* The laps in which a fresh slot can come round again.
Warmup == Capacity * (Cardinality(Producers) - 1)

\* Of the first n positions taken, how many may have come without an approval.
Excess(n) ==
    IF n <= Capacity THEN 0
    ELSE IF n - Capacity <= Warmup THEN n - Capacity ELSE Warmup

\* Every approval is spent once, on a position taken or on a slot waiting for
\* it, but for the positions of the warm-up.
PaidInv == Taken + Cardinality(Due) <= Approved + Excess(Taken)

LEMMA WarmupSize ==
    /\ Warmup \in Nat
    /\ Capacity * Cardinality(Producers) = Warmup + Capacity
  <1>1. PICK c \in Nat, n \in Nat : c = Capacity /\ n = Cardinality(Producers) - 1
    BY CapacityAssumption, ProducersAssumption, FS_CardinalityType, FS_EmptySet
  <1>2. Cardinality(Producers) = n + 1
    BY <1>1, ProducersAssumption, FS_CardinalityType
  <1>3. c * n \in Nat /\ c * (n + 1) = c * n + c
    BY <1>1
  <1> QED
    BY <1>1, <1>2, <1>3 DEF Warmup

LEMMA ExcessGrows ==
  ASSUME NEW n \in Nat
  PROVE  /\ Excess(n) \in Nat /\ Excess(n) <= Warmup
         /\ Excess(n + 1) \in Nat /\ Excess(n + 1) >= Excess(n)
         /\ Capacity <= n /\ n < Capacity * Cardinality(Producers)
                => Excess(n + 1) >= Excess(n) + 1
  <1>1. PICK c \in Nat, w \in Nat :
            c = Capacity /\ w = Warmup /\ Capacity * Cardinality(Producers) = w + c
    BY WarmupSize, CapacityAssumption
  <1> QED
    BY <1>1 DEF Excess

LEMMA CountsFinite ==
    /\ IsFiniteSet(Slots)
    /\ \A S : S \subseteq Slots \/ S \subseteq Verifiers =>
           IsFiniteSet(S) /\ Cardinality(S) \in Nat
  <1>1. IsFiniteSet(Slots)
    <2>1. 0 \in Int /\ Capacity - 1 \in Int
      BY CapacityAssumption
    <2> QED
      BY <2>1, FS_Interval DEF Slots
  <1> QED
    BY <1>1, VerifiersAssumption, FS_Subset, FS_CardinalityType

\* How the size of a set of slots or of verifiers changes in a step.
LEMMA SizeChange ==
  ASSUME NEW S, NEW T, S \subseteq Slots \/ S \subseteq Verifiers,
         T \subseteq Slots \/ T \subseteq Verifiers
  PROVE  /\ S \subseteq T => Cardinality(S) <= Cardinality(T)
         /\ \A x : S \subseteq T \cup {x} => Cardinality(S) <= Cardinality(T) + 1
         /\ \A x : x \in T /\ S \subseteq T \ {x} =>
                      Cardinality(S) <= Cardinality(T) - 1
  <1>1. /\ IsFiniteSet(S) /\ Cardinality(S) \in Nat
        /\ IsFiniteSet(T) /\ Cardinality(T) \in Nat
    BY CountsFinite
  <1>2. ASSUME S \subseteq T PROVE Cardinality(S) <= Cardinality(T)
    BY <1>1, <1>2, FS_Subset
  <1>3. ASSUME NEW x, S \subseteq T \cup {x}
        PROVE  Cardinality(S) <= Cardinality(T) + 1
    <2>1. CASE x \in T
      <3>1. S \subseteq T
        BY <1>3, <2>1
      <3> QED
        BY <1>1, <1>2, <3>1
    <2>2. CASE x \notin T
      <3>1. /\ IsFiniteSet(T \cup {x})
            /\ Cardinality(T \cup {x}) = Cardinality(T) + 1
        BY <1>1, <2>2, FS_AddElement
      <3>2. Cardinality(S) <= Cardinality(T \cup {x})
        BY <1>3, <3>1, FS_Subset
      <3> QED
        BY <3>1, <3>2
    <2> QED
      BY <2>1, <2>2
  <1>4. ASSUME NEW x, x \in T, S \subseteq T \ {x}
        PROVE  Cardinality(S) <= Cardinality(T) - 1
    <2>1. /\ IsFiniteSet(T \ {x})
          /\ Cardinality(T \ {x}) = Cardinality(T) - 1
      BY <1>1, <1>4, FS_RemoveElement
    <2>2. Cardinality(S) <= Cardinality(T \ {x})
      BY <1>4, <2>1, FS_Subset
    <2> QED
      BY <2>1, <2>2
  <1> QED
    BY <1>2, <1>3, <1>4

LEMMA AccountsAreNumbers ==
  ASSUME TypeInv
  PROVE  /\ Due \subseteq Slots /\ Counting \subseteq Verifiers
         /\ Cardinality(Due) \in Nat /\ Cardinality(Counting) \in Nat
         /\ verified \in Nat /\ Approved \in Nat /\ Taken \in Nat
         /\ Excess(Taken) \in Nat
  <1>1. Due \subseteq Slots /\ Counting \subseteq Verifiers
    BY DEF Due, Counting
  <1>2. Cardinality(Due) \in Nat /\ Cardinality(Counting) \in Nat
    BY <1>1, CountsFinite
  <1>3. verified \in Nat /\ Approved \in Nat /\ Taken \in Nat
    BY <1>2 DEF TypeInv, TypeOK, Approved, Taken
  <1> QED
    BY <1>1, <1>2, <1>3, ExcessGrows

LEMMA AccountsStayNumbers ==
  ASSUME TypeInv'
  PROVE  /\ Cardinality(Due') \in Nat /\ Approved' \in Nat /\ Taken' \in Nat
         /\ Excess(Taken)' \in Nat
  <1>1. Due' \subseteq Slots /\ Counting' \subseteq Verifiers
    BY DEF Due, Counting
  <1>2. Cardinality(Due') \in Nat /\ Cardinality(Counting') \in Nat
    BY <1>1, CountsFinite
  <1>3. verified' \in Nat /\ tail' \in Nat
    BY DEF TypeInv, TypeOK
  <1>4. Approved' \in Nat
    BY <1>2, <1>3 DEF Approved
  <1>5. Taken' \in Nat
    <2>1. PICK n \in Nat : n = tail'
      BY <1>3
    <2>2. Taken' = n \/ Taken' = n + 1
      BY <2>1 DEF Taken
    <2> QED
      BY <2>2
  <1>6. Excess(Taken)' = Excess(Taken')
    BY DEF Excess, Warmup
  <1> QED
    BY <1>2, <1>4, <1>5, <1>6, ExcessGrows

\* What one of the four accounts gives, another may take.
LEMMA PaidMoves ==
  ASSUME TypeInv, TypeInv', PaidInv,
         NEW t \in Int, NEW d \in Int, NEW a \in Int, NEW e \in Int,
         Taken' <= Taken + t, Cardinality(Due') <= Cardinality(Due) + d,
         Approved' >= Approved + a, Excess(Taken)' >= Excess(Taken) + e,
         t + d <= a + e
  PROVE  PaidInv'
  <1>1. PICK t0 \in Nat, d0 \in Nat, a0 \in Nat, e0 \in Nat :
            /\ t0 = Taken /\ d0 = Cardinality(Due)
            /\ a0 = Approved /\ e0 = Excess(Taken)
    BY AccountsAreNumbers
  <1>2. PICK t1 \in Nat, d1 \in Nat, a1 \in Nat, e1 \in Nat :
            /\ t1 = Taken' /\ d1 = Cardinality(Due')
            /\ a1 = Approved' /\ e1 = Excess(Taken)'
    BY AccountsStayNumbers
  <1>3. t0 + d0 <= a0 + e0
    BY <1>1 DEF PaidInv
  <1>4. t1 <= t0 + t /\ d1 <= d0 + d /\ a1 >= a0 + a /\ e1 >= e0 + e
    BY <1>1, <1>2
  <1>5. t1 + d1 <= a1 + e1
    BY <1>3, <1>4
  <1> QED
    BY <1>2, <1>5 DEF PaidInv

\* A step that takes nothing and leaves no more to pay for than before.
LEMMA PaidStable ==
  ASSUME TypeInv, TypeInv', PaidInv, Taken' = Taken, Due' \subseteq Due,
         UNCHANGED <<verified, vpc>>
  PROVE  PaidInv'
  <1>1. Approved' = Approved /\ Excess(Taken)' = Excess(Taken)
    <2>1. Excess(Taken)' = Excess(Taken')
      BY DEF Excess, Warmup
    <2> QED
      BY <2>1 DEF Approved, Counting
  <1>2. Cardinality(Due') <= Cardinality(Due)
    <2>1. Due \subseteq Slots /\ Due' \subseteq Slots
      BY DEF Due
    <2> QED
      BY <2>1, SizeChange
  <1>3. /\ Taken' <= Taken + 0 /\ Cardinality(Due') <= Cardinality(Due) + 0
        /\ Approved' >= Approved + 0 /\ Excess(Taken)' >= Excess(Taken) + 0
    BY <1>1, <1>2, AccountsAreNumbers
  <1> QED
    BY <1>3, PaidMoves

\* A producer's step leaves no more approvals to count on: when it makes a slot
\* fresh no longer, it makes it WRITTEN.
LEMMA ProducerPays ==
  ASSUME TypeInv, TypeInv', PaidInv, [Next]_vars, NEW p \in Producers,
         Arrive(p) \/ ProducerStep(p)
  PROVE  PaidInv'
  <1>1. UNCHANGED <<tail, dpc, freeIdx, verified, vpc>>
    BY DEF ProducerStep, Arrive, LoadHead, LoadTail, Refuse, ClaimPosition,
           LockSlot, WriteSlot, Publish, CountEnqueued, ringVars, countVars,
           verifierVars, dispatcherVars
  <1>2. ASSUME NEW i \in Slots, state'[i] = "PROCESSING"
        PROVE  /\ state[i] = "PROCESSING"
               /\ \A q \in Producers : Publish(q) => Idx(pos[q]) # i
    <2>1. CASE LockSlot(p) \/ Publish(p)
      <3>1. /\ state' = [state EXCEPT ![Idx(pos[p])] = "WRITTEN"]
            /\ \A q \in Producers : Publish(q) => q = p
        BY <2>1 DEF LockSlot, Publish, Goto, TypeInv, TypeOK
      <3> QED
        BY <1>2, <3>1 DEF TypeInv, TypeOK
    <2>2. CASE ~(LockSlot(p) \/ Publish(p))
      <3>1. /\ state' = state
            /\ \A q \in Producers : pc[q] = "publish" => pc'[q] = "publish"
        BY <2>2 DEF ProducerStep, Arrive, LoadHead, LoadTail, Refuse, Loaded,
                    ClaimPosition, WriteSlot, CountEnqueued, ringVars, Goto,
                    TypeInv, TypeOK
      <3>2. \A q \in Producers : ~Publish(q)
        BY <3>1 DEF Publish, Goto, TypeInv, TypeOK
      <3> QED
        BY <1>2, <3>1, <3>2
    <2> QED
      BY <2>1, <2>2
  <1>3. ASSUME NEW i \in Slots, state'[i] = "PROCESSING", Spent(i)
        PROVE  Spent(i)'
    <2>1. Unwritten(i)' => Unwritten(i)
      BY WrittenStays
    <2>2. Fresh(i) => Fresh(i)'
      BY <1>2, <1>3, FreshStays
    <2>3. Taken' = Taken
      BY <1>1 DEF Taken
    <2> QED
      BY <1>1, <1>3, <2>1, <2>2, <2>3 DEF Spent
  <1>4. Due' \subseteq Due
    BY <1>2, <1>3 DEF Due
  <1>5. Taken' = Taken
    BY <1>1 DEF Taken
  <1> QED
    BY <1>1, <1>4, <1>5, PaidStable

\* A verifier gives one approval for each slot it makes PROCESSING, first on the
\* way and then in the total.
LEMMA VerifierPays ==
  ASSUME TypeInv, TypeInv', PaidInv, NEW v \in Verifiers, VerifierStep(v)
  PROVE  PaidInv'
  <1>f. UNCHANGED <<head, tail, slotId, pc, pos, dpc, freeIdx>>
    BY DEF VerifierStep, ScanTail, ScanHead, ScanSkip, ScanClaim, ScanNothing,
           Approve, CountVerified, Reject, ringVars, producerVars, dispatcherVars
  <1>s. /\ \A i \in Slots : Spent(i)' = Spent(i)
        /\ Taken' = Taken
    BY <1>f DEF Spent, Taken, Unwritten, Fresh, Holding
  <1>e. Excess(Taken)' = Excess(Taken)
    BY <1>s DEF Excess, Warmup
  <1>n. /\ Due \subseteq Slots /\ Due' \subseteq Slots
        /\ Counting \subseteq Verifiers /\ Counting' \subseteq Verifiers
    BY DEF Due, Counting
  <1>t. /\ state \in [Slots -> States] /\ verified \in Nat
        /\ vpc \in [Verifiers -> {"tail", "head", "scan", "verify", "count"}]
    BY DEF TypeInv, TypeOK
  <1>1. ASSUME Approved' >= Approved, Due' \subseteq Due PROVE PaidInv'
    <2>1. Cardinality(Due') <= Cardinality(Due)
      BY <1>1, <1>n, SizeChange
    <2>2. /\ Taken' <= Taken + 0 /\ Cardinality(Due') <= Cardinality(Due) + 0
          /\ Approved' >= Approved + 0 /\ Excess(Taken)' >= Excess(Taken) + 0
      BY <1>1, <1>s, <1>e, <2>1, AccountsAreNumbers
    <2> QED
      BY <2>2, PaidMoves
  <1>2. CASE ScanTail(v) \/ ScanHead(v) \/ ScanSkip(v) \/ ScanClaim(v)
             \/ ScanNothing(v)
    <2>1. /\ UNCHANGED <<state, verified>> /\ Counting' = Counting
      BY <1>2, <1>t DEF ScanTail, ScanHead, ScanSkip, ScanClaim, ScanNothing,
                        EndScan, ringVars, countVars, Counting
    <2>2. Due' \subseteq Due /\ Approved' = Approved
      BY <1>s, <2>1 DEF Due, Approved
    <2> QED
      BY <1>1, <2>2, AccountsAreNumbers
  <1>3. CASE Reject(v)
    <2>1. /\ state' = [state EXCEPT ![Idx(scanPos[v])] = "EMPTY"]
          /\ verified' = verified
      BY <1>3 DEF Reject, countVars
    <2>2. Counting' = Counting
      BY <1>3, <1>t DEF Reject, EndScan, Counting
    <2>3. Due' \subseteq Due
      BY <1>s, <1>t, <2>1 DEF Due
    <2>4. Approved' = Approved
      BY <2>1, <2>2 DEF Approved
    <2> QED
      BY <1>1, <2>3, <2>4, AccountsAreNumbers
  <1>4. CASE Approve(v)
    <2>1. /\ vpc[v] = "verify" /\ vpc' = [vpc EXCEPT ![v] = "count"]
          /\ state' = [state EXCEPT ![Idx(scanPos[v])] = "PROCESSING"]
          /\ verified' = verified
      BY <1>4 DEF Approve, countVars
    <2>2. Due' \subseteq Due \cup {Idx(scanPos[v])}
      BY <1>s, <1>t, <2>1 DEF Due
    <2>3. v \in Counting' /\ Counting \subseteq Counting' \ {v}
      BY <1>t, <2>1 DEF Counting
    <2>4. Cardinality(Due') <= Cardinality(Due) + 1
      BY <1>n, <2>2, SizeChange
    <2>5. Cardinality(Counting) <= Cardinality(Counting') - 1
      BY <1>n, <2>3, SizeChange
    <2>6. Approved' >= Approved + 1
      <3>1. Cardinality(Counting) \in Nat /\ Cardinality(Counting') \in Nat
        BY <1>n, CountsFinite
      <3> QED
        BY <1>t, <2>1, <2>5, <3>1 DEF Approved
    <2>7. Taken' <= Taken + 0 /\ Excess(Taken)' >= Excess(Taken) + 0
      BY <1>s, <1>e, AccountsAreNumbers
    <2> QED
      BY <2>4, <2>6, <2>7, PaidMoves
  <1>5. CASE CountVerified(v)
    <2>1. /\ vpc[v] = "count" /\ vpc' = [vpc EXCEPT ![v] = "tail"]
          /\ state' = state /\ verified' = verified + 1
      BY <1>5 DEF CountVerified, EndScan, ringVars
    <2>2. Counting \subseteq Counting' \cup {v}
      BY <1>t, <2>1 DEF Counting
    <2>3. Cardinality(Counting) <= Cardinality(Counting') + 1
      BY <1>n, <2>2, SizeChange
    <2>4. Approved' >= Approved
      <3>1. Cardinality(Counting) \in Nat /\ Cardinality(Counting') \in Nat
        BY <1>n, CountsFinite
      <3> QED
        BY <1>t, <2>1, <2>3, <3>1 DEF Approved
    <2>5. Due' \subseteq Due
      BY <1>s, <2>1 DEF Due
    <2> QED
      BY <1>1, <2>4, <2>5
  <1> QED
    BY <1>2, <1>3, <1>4, <1>5 DEF VerifierStep

\* The dispatcher takes an approval out of those that count before it frees the
\* slot, even where an unset slot_id makes it free another one; where there is
\* none to take, the position is one of the warm-up.
LEMMA DispatcherPays ==
  ASSUME TypeInv, TypeInv', TailInv, SlotIdInv, PaidInv, DispatcherStep
  PROVE  PaidInv'
  <1>f. UNCHANGED <<head, slotId, pc, pos, verified, vpc>>
    BY DEF DispatcherStep, Dequeue, MarkDispatched, FreeSlot, AdvanceTail,
           CountDispatched, ringVars, countVars, producerVars, verifierVars
  <1>i. /\ head \in Nat /\ tail \in Nat
        /\ state \in [Slots -> States]
    BY DEF TypeInv, TypeOK
  <1>t. /\ head \in Nat /\ tail \in Nat /\ Idx(tail) \in Slots
        /\ state \in [Slots -> States]
        /\ \A i \in Slots : i \in Nat
    BY <1>i, IdxInSlots, CapacityAssumption DEF Slots
  <1>u. \A i \in Slots : Unwritten(i)' = Unwritten(i) /\ Fresh(i)' = Fresh(i)
    BY <1>f DEF Unwritten, Fresh, Holding
  <1>a. Approved' = Approved
    BY <1>f DEF Approved, Counting
  <1>1. CASE Dequeue
    <2>1. /\ dpc = "dequeue" /\ dpc' = "mark" /\ tail < head
          /\ state[Idx(tail)] = "PROCESSING"
          /\ UNCHANGED <<tail, state>>
      BY <1>1, <1>t DEF Dequeue, TailInv, ringVars
    <2>2. Taken = tail /\ Taken' = tail + 1
      BY <1>t, <2>1 DEF Taken
    <2>3. \A i \in Slots : Spent(i) => Spent(i)'
      BY <1>t, <1>u, <2>1, <2>2 DEF Spent
    <2>4. Due' \subseteq Due
      BY <2>1, <2>3 DEF Due
    <2>e. Excess(Taken)' = Excess(tail + 1) /\ Excess(Taken) = Excess(tail)
      BY <2>2 DEF Excess, Warmup
    <2>n. Due \subseteq Slots /\ Due' \subseteq Slots
      BY DEF Due
    <2>5. CASE Spent(Idx(tail))
      <3>1. Fresh(Idx(tail)) /\ tail > Idx(tail)
        BY <2>1, <2>2, <2>5 DEF Spent
      <3>2. tail < Capacity * Cardinality(Producers)
        BY <1>t, <2>1, <3>1, FreshIsEarly
      <3>3. Capacity <= tail
        BY <1>t, <3>1, CapacityAssumption DEF Idx
      <3>4. Excess(tail + 1) >= Excess(tail) + 1
        BY <1>t, <3>2, <3>3, ExcessGrows
      <3>5. Cardinality(Due') <= Cardinality(Due)
        BY <2>4, <2>n, SizeChange
      <3>6. /\ Taken' <= Taken + 1 /\ Cardinality(Due') <= Cardinality(Due) + 0
            /\ Approved' >= Approved + 0
            /\ Excess(Taken)' >= Excess(Taken) + 1
        BY <1>t, <1>a, <2>2, <2>e, <3>4, <3>5, AccountsAreNumbers
      <3> QED
        BY <3>6, PaidMoves
    <2>6. CASE ~Spent(Idx(tail))
      <3>1. Idx(tail) \in Due
        BY <1>t, <2>1, <2>6 DEF Due
      <3>2. Spent(Idx(tail))'
        <4>1. PICK i \in Slots : i = Idx(tail) /\ i = Idx(tail')
          BY <1>t, <2>1
        <4>2. CASE Unwritten(i)
          <5>1. Fresh(i)'
            BY <1>u, <4>2 DEF SlotIdInv
          <5>2. Taken' > i
            BY <1>t, <2>2, <4>1, CapacityAssumption DEF Idx
          <5> QED
            BY <4>1, <5>1, <5>2 DEF Spent
        <4>3. CASE ~Unwritten(i)
          <5>1. ~Unwritten(i)'
            BY <1>u, <4>3
          <5> QED
            BY <2>1, <4>1, <5>1 DEF Spent
        <4> QED
          BY <4>2, <4>3
      <3>3. Due' \subseteq Due \ {Idx(tail)}
        BY <2>1, <2>4, <3>2 DEF Due
      <3>4. Cardinality(Due') <= Cardinality(Due) - 1
        BY <2>n, <3>1, <3>3, SizeChange
      <3>5. Excess(tail + 1) >= Excess(tail)
        BY <1>t, ExcessGrows
      <3>6. /\ Taken' <= Taken + 1
            /\ Cardinality(Due') <= Cardinality(Due) + (-1)
            /\ Approved' >= Approved + 0
            /\ Excess(Taken)' >= Excess(Taken) + 0
        BY <1>t, <1>a, <2>2, <2>e, <3>4, <3>5, AccountsAreNumbers
      <3> QED
        BY <3>6, PaidMoves
    <2> QED
      BY <2>5, <2>6
  <1>2. ASSUME Taken' = Taken, Due' \subseteq Due PROVE PaidInv'
    BY <1>2, <1>f, PaidStable
  <1>3. CASE MarkDispatched
    <2>1. /\ dpc = "mark" /\ dpc' = "free" /\ freeIdx' = Idx(slotId[Idx(tail)])
          /\ UNCHANGED <<tail, state>>
      BY <1>3 DEF MarkDispatched, ringVars
    <2>2. Taken' = Taken
      BY <2>1 DEF Taken
    <2>3. \A i \in Slots : Spent(i) => Spent(i)'
      BY <1>u, <2>1, <2>2 DEF Spent, Unwritten
    <2> QED
      BY <1>2, <2>1, <2>2, <2>3 DEF Due
  <1>4. CASE FreeSlot
    <2>1. /\ dpc = "free" /\ dpc' = "advance"
          /\ state' = [state EXCEPT ![freeIdx] = "EMPTY"]
          /\ tail' = tail
      BY <1>4 DEF FreeSlot
    <2>2. Taken' = Taken
      BY <2>1 DEF Taken
    <2>3. \A i \in Slots : i # freeIdx /\ Spent(i) => Spent(i)'
      BY <1>u, <2>1, <2>2 DEF Spent
    <2>4. \A i \in Slots : state'[i] = "PROCESSING" =>
              i # freeIdx /\ state[i] = "PROCESSING"
      BY <1>t, <2>1
    <2> QED
      BY <1>2, <2>2, <2>3, <2>4 DEF Due
  <1>5. CASE AdvanceTail \/ CountDispatched
    <2>1. /\ dpc \notin {"mark", "free"} /\ dpc' \notin {"mark", "free"}
          /\ state' = state /\ Taken' = Taken
      BY <1>5, <1>t DEF AdvanceTail, CountDispatched, ringVars, Taken
    <2>2. \A i \in Slots : Spent(i) => Spent(i)'
      BY <1>u, <2>1 DEF Spent
    <2> QED
      BY <1>2, <2>1, <2>2 DEF Due
  <1> QED
    BY <1>1, <1>3, <1>4, <1>5 DEF DispatcherStep

PaidParts == TypeInv /\ TailInv /\ SlotIdInv /\ PaidInv

LEMMA PaidInit == Init => PaidParts
  <1> SUFFICES ASSUME Init PROVE PaidParts
    OBVIOUS
  <1>1. TypeInv /\ TailInv /\ SlotIdInv
    BY TypeInit, SlotIdInit DEF Init, TailInv
  <1>2. Due = {} /\ Taken = 0
    BY DEF Init, Due, Taken
  <1>3. Cardinality(Due) = 0
    BY <1>2, FS_EmptySet
  <1> QED
    BY <1>1, <1>2, <1>3, AccountsAreNumbers DEF PaidParts, PaidInv

LEMMA PaidNext == PaidParts /\ [Next]_vars => PaidParts'
  <1> SUFFICES ASSUME PaidParts, [Next]_vars PROVE PaidParts'
    OBVIOUS
  <1>1. TypeInv /\ TailInv /\ SlotIdInv /\ PaidInv
    BY DEF PaidParts
  <1>2. TypeInv' /\ TailInv' /\ SlotIdInv'
    BY <1>1, TypeNext, TailNext, SlotIdNext
  <1>3. ASSUME NEW p \in Producers, Arrive(p) \/ ProducerStep(p) PROVE PaidInv'
    BY <1>1, <1>2, <1>3, ProducerPays
  <1>4. ASSUME NEW v \in Verifiers, VerifierStep(v) PROVE PaidInv'
    BY <1>1, <1>2, <1>4, VerifierPays
  <1>5. ASSUME DispatcherStep PROVE PaidInv'
    BY <1>1, <1>2, <1>5, DispatcherPays
  <1>6. ASSUME UNCHANGED vars PROVE PaidInv'
    <2>1. UNCHANGED <<head, tail, state, slotId, pc, pos, dpc, freeIdx, verified, vpc>>
      BY <1>6 DEF vars, ringVars, countVars, producerVars, verifierVars,
                  dispatcherVars
    <2>2. Due' = Due /\ Taken' = Taken
      BY <2>1 DEF Due, Spent, Unwritten, Fresh, Holding, Taken
    <2> QED
      BY <1>1, <1>2, <2>1, <2>2, PaidStable
  <1> QED
    BY <1>2, <1>3, <1>4, <1>5, <1>6 DEF Next, PaidParts

\* The dispatches that may lack an approval of their own are bounded for the
\* life of the program.
UnverifiedBounded == dispatched <= Approved + Warmup

\* A slot may be dispatched again on the approval it already had, while the
\* producer of its very first request is still copying it. However many
\* requests arrive and however the threads interleave, that happens less often
\* than the ring has slots times HTTP threads: only in the first laps.
THEOREM UnverifiedDispatchesAreBounded == Spec => []UnverifiedBounded
  <1>1. PaidParts /\ CountersAgree => UnverifiedBounded
    <2> SUFFICES ASSUME PaidParts, CountersAgree PROVE UnverifiedBounded
      OBVIOUS
    <2>1. TypeInv /\ PaidInv
      BY DEF PaidParts
    <2>2. dispatched <= Taken
      BY <2>1 DEF CountersAgree, Taken, TypeInv, TypeOK
    <2>3. /\ Cardinality(Due) \in Nat /\ Approved \in Nat /\ Taken \in Nat
          /\ Excess(Taken) \in Nat /\ Excess(Taken) <= Warmup /\ Warmup \in Nat
          /\ dispatched \in Nat
      BY <2>1, AccountsAreNumbers, ExcessGrows, WarmupSize DEF TypeInv, TypeOK
    <2>4. Taken + Cardinality(Due) <= Approved + Excess(Taken)
      BY <2>1 DEF PaidInv
    <2>5. PICK d \in Nat, a \in Nat, t \in Nat, e \in Nat :
              /\ d = Cardinality(Due) /\ a = Approved
              /\ t = Taken /\ e = Excess(Taken)
      BY <2>3
    <2>6. dispatched <= a + Warmup
      BY <2>2, <2>3, <2>4, <2>5
    <2> QED
      BY <2>5, <2>6 DEF UnverifiedBounded
  <1> QED
    BY <1>1, PaidInit, PaidNext, CountersAreExact, PTL DEF Spec

OneProducer == Cardinality(Producers) = 1

\* With a single HTTP thread there is no such dispatch, whatever the capacity
\* and the number of verifiers: the run that finds one needs two.
THEOREM OneProducerIsVerified ==
  ASSUME OneProducer
  PROVE  Spec => []DispatchedWasVerified
  <1>1. UnverifiedBounded /\ TypeInv => DispatchedWasVerified
    <2> SUFFICES ASSUME UnverifiedBounded, TypeInv PROVE DispatchedWasVerified
      OBVIOUS
    <2>1. Warmup = 0
      BY CapacityAssumption DEF Warmup, OneProducer
    <2>2. Approved \in Nat
      BY AccountsAreNumbers
    <2>3. dispatched <= Approved
      BY <2>1, <2>2 DEF UnverifiedBounded
    <2> QED
      BY <2>3 DEF DispatchedWasVerified, Approved, Counting
  <1> QED
    BY <1>1, UnverifiedDispatchesAreBounded, TypeInit, TypeNext, PTL DEF Spec

-----------------------------------------------------------------------------
(* The dispatcher that waits for ever.                                     *)

\* The slot at tail_ has been rejected and nobody is about to fill or judge it.
Wedged ==
    /\ dpc = "dequeue" /\ tail < head /\ state[Idx(tail)] = "EMPTY"
    /\ \A p \in Producers : Holding(p) => Idx(pos[p]) # Idx(tail)
    /\ \A v \in Verifiers : vpc[v] = "verify" => Idx(scanPos[v]) # Idx(tail)

\* A claim within the capacity is not of the slot at tail_.
LEMMA ClaimMissesTail ==
  ASSUME TypeInv, tail < head, head + 1 <= tail + Capacity
  PROVE  Idx(head) # Idx(tail)
  <1>1. head \in Nat /\ tail \in Nat
    BY DEF TypeInv, TypeOK
  <1> QED
    BY <1>1, IdxInjective, CapacityAssumption

LEMMA WedgeStays ==
  ASSUME TypeInv, [Next]_vars, Wedged, head' <= tail + Capacity
  PROVE  Wedged' /\ tail' = tail
  <1>t. /\ head \in Nat /\ tail \in Nat /\ Idx(tail) \in Slots
        /\ state \in [Slots -> States]
    <2>1. tail \in Nat /\ head \in Nat /\ state \in [Slots -> States]
      BY DEF TypeInv, TypeOK
    <2> QED
      BY <2>1, IdxInSlots
  <1> USE DEF Wedged, Holding
  <1>1. ASSUME NEW p \in Producers, ClaimPosition(p)
        PROVE  Wedged' /\ tail' = tail
    <2>1. /\ pc' = [pc EXCEPT ![p] = "lock"] /\ pos' = [pos EXCEPT ![p] = head]
          /\ head' = head + 1
          /\ UNCHANGED <<tail, state, dpc, vpc, scanPos>>
      BY <1>1 DEF ClaimPosition, Goto, verifierVars, dispatcherVars
    <2>2. Idx(head) # Idx(tail)
      BY <2>1, ClaimMissesTail
    <2> QED
      BY <1>t, <2>1, <2>2 DEF TypeInv, TypeOK
  <1>2. ASSUME NEW p \in Producers,
               Arrive(p) \/ LoadHead(p) \/ LoadTail(p) \/ Refuse(p) \/ LockSlot(p)
               \/ WriteSlot(p) \/ Publish(p) \/ CountEnqueued(p)
        PROVE  Wedged' /\ tail' = tail
    <2>1. /\ UNCHANGED <<head, tail, dpc, vpc, scanPos>>
          /\ \A q \in Producers :
                 Holding(q)' => Holding(q) /\ pos'[q] = pos[q]
      BY <1>2 DEF Arrive, LoadHead, LoadTail, Refuse, LockSlot, WriteSlot, Publish,
                  CountEnqueued, Loaded, Goto, ringVars, verifierVars,
                  dispatcherVars, TypeInv, TypeOK
    <2>2. \/ state' = state
          \/ Holding(p) /\ state' = [state EXCEPT ![Idx(pos[p])] = "WRITTEN"]
      BY <1>2 DEF Arrive, LoadHead, LoadTail, Refuse, LockSlot, WriteSlot, Publish,
                  CountEnqueued, ringVars
    <2>3. state'[Idx(tail)] = "EMPTY"
      BY <1>t, <2>2
    <2> QED
      BY <2>1, <2>3
  <1>3. ASSUME NEW v \in Verifiers, VerifierStep(v)
        PROVE  Wedged' /\ tail' = tail
    <2>1. UNCHANGED <<head, tail, dpc, pc, pos>>
      BY <1>3 DEF VerifierStep, ScanTail, ScanHead, ScanSkip, ScanClaim,
                  ScanNothing, Approve, CountVerified, Reject, ringVars,
                  producerVars, dispatcherVars
    <2>2. \A w \in Verifiers : vpc'[w] = "verify" => Idx(scanPos'[w]) # Idx(tail)
      <3>1. CASE ScanClaim(v)
        <4>1. /\ vpc' = [vpc EXCEPT ![v] = "verify"] /\ scanPos' = scanPos
              /\ state[Idx(scanPos[v])] = "WRITTEN"
          BY <3>1 DEF ScanClaim
        <4> QED
          BY <4>1 DEF TypeInv, TypeOK
      <3>2. CASE ~ScanClaim(v)
        <4>1. \A w \in Verifiers :
                  vpc'[w] = "verify" => vpc[w] = "verify" /\ scanPos'[w] = scanPos[w]
          BY <1>3, <3>2 DEF VerifierStep, ScanTail, ScanHead, ScanSkip,
                ScanNothing, Approve, CountVerified, Reject, EndScan,
                TypeInv, TypeOK
        <4> QED
          BY <4>1
      <3> QED
        BY <3>1, <3>2
    <2>3. state'[Idx(tail)] = "EMPTY"
      <3>1. \/ state' = state
            \/ /\ vpc[v] = "verify"
               /\ \E s \in States : state' = [state EXCEPT ![Idx(scanPos[v])] = s]
        BY <1>3 DEF VerifierStep, ScanTail, ScanHead, ScanSkip, ScanClaim,
                    ScanNothing, Approve, CountVerified, Reject, ringVars, States
      <3> QED
        BY <1>t, <3>1
    <2> QED
      BY <2>1, <2>2, <2>3
  <1>4. ASSUME DispatcherStep PROVE FALSE
    BY <1>4 DEF DispatcherStep, Dequeue, MarkDispatched, FreeSlot, AdvanceTail,
                CountDispatched
  <1>5. CASE UNCHANGED vars
    BY <1>5 DEF vars, ringVars, producerVars, verifierVars, dispatcherVars
  <1> QED
    BY <1>1, <1>2, <1>3, <1>4, <1>5 DEF Next, ProducerStep

\* A rejected slot at tail_ is never passed: dequeue_for_processing keeps
\* reading EMPTY there until a producer claims beyond the capacity of the ring.
THEOREM WedgeLastsWithinCapacity ==
    Spec => [][Wedged /\ head' <= tail + Capacity => Wedged' /\ tail' = tail]_vars
  <1>1. TypeInv /\ [Next]_vars
            => [Wedged /\ head' <= tail + Capacity => Wedged' /\ tail' = tail]_vars
    BY WedgeStays
  <1> QED
    BY <1>1, TypeInit, TypeNext, PTL DEF Spec

\* With one HTTP thread nobody ever claims beyond the capacity, so one rejected
\* request at tail_ ends all dispatching for good.
THEOREM WedgeIsForever ==
  ASSUME OneProducer
  PROVE  Spec => [][Wedged => Wedged' /\ tail' = tail]_vars
  <1>1. TypeInv /\ OccupancyBound' /\ TypeInv' /\ [Next]_vars
            => [Wedged => Wedged' /\ tail' = tail]_vars
    <2> SUFFICES ASSUME TypeInv, OccupancyBound', TypeInv', [Next]_vars, Wedged
                 PROVE  Wedged' /\ tail' = tail
      OBVIOUS
    <2>1. tail' = tail
      <3>1. ASSUME DispatcherStep PROVE FALSE
        BY <3>1 DEF DispatcherStep, Dequeue, MarkDispatched, FreeSlot, AdvanceTail,
                    CountDispatched, Wedged
      <3> QED
        BY <3>1 DEF Next, ProducerStep, VerifierStep, Arrive, LoadHead, LoadTail,
              Refuse, ClaimPosition, LockSlot, WriteSlot, Publish, CountEnqueued,
              ScanTail, ScanHead, ScanSkip, ScanClaim, ScanNothing, Approve,
              CountVerified, Reject, ringVars, vars
    <2>2. PICK h \in Nat, t \in Nat, c \in Nat :
              h = head' /\ t = tail /\ c = Capacity
      BY CapacityAssumption DEF TypeInv, TypeOK
    <2>3. h - t <= c + 1 - 1
      BY <2>1, <2>2 DEF OccupancyBound, OneProducer
    <2>4. h <= t + c
      BY <2>3
    <2>5. head' <= tail + Capacity
      BY <2>2, <2>4
    <2> QED
      BY <2>5, WedgeStays
  <1> QED
    BY <1>1, OvershootIsBounded, TypeInit, TypeNext, PTL DEF Spec

=============================================================================
