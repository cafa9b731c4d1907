-------------------------- MODULE SubscriptionsProofs --------------------------
(***************************************************************************)
(* The subscription lifecycle for every number of subscriptions, every     *)
(* total, number of installments and tolerance, and any sequence of calls. *)
(***************************************************************************)
EXTENDS Subscriptions, TLAPS

\* One subscription's state and plan agree.
Agrees(s) ==
    /\ s.paid = s.planPaid /\ s.paid <= s.n
    /\ s.state = "SETTLED" <=> s.planState = "COMPLETED"
    /\ s.planState = "COMPLETED" <=> s.paid = s.n
    /\ s.state = "PENDING" => s.paid = 0
    /\ s.state = "PARTIALLY_PAID" => s.paid > 0
    /\ s.due = IF s.planState = "COMPLETED" THEN 0 ELSE s.paid + 1

\* The money c taken for one subscription is what was due, up to a tolerance
\* per installment; the installments divide the total.
Balanced(s, c) ==
    /\ s.total = s.each * s.n
    /\ c - s.each * s.paid <= Tolerance * s.paid
    /\ s.each * s.paid - c <= Tolerance * s.paid

Good(s, c) == s \in SubType /\ Agrees(s) /\ Balanced(s, c)

\* Subscriptions exist below next_id_ and are good; no money was taken for
\* any other.
GoodInv ==
    /\ enabled \in BOOLEAN
    /\ nextId \in 1..(MaxSubs + 1)
    /\ subs \in [Ids -> SubType \cup {NoSub}]
    /\ collected \in [Ids -> Int]
    /\ \A id \in Ids :
           /\ id >= nextId => ~Exists(id)
           /\ Exists(id) => Good(subs[id], collected[id])
           /\ ~Exists(id) => collected[id] = 0

LEMMA ExistsType ==
    ASSUME GoodInv, NEW id \in Ids, Exists(id)
    PROVE  subs[id] \in SubType /\ Good(subs[id], collected[id])
  BY DEF GoodInv, Good

LEMMA OneMore == \A a, b \in Int : a * (b + 1) = a * b + a
  OBVIOUS

\* An accepted payment keeps a subscription good.
LEMMA PaymentKeepsGood ==
    ASSUME NEW s, NEW c \in Int, NEW amount \in Int, Good(s, c), Payable(s),
           s.planState = "ACTIVE", s.planPaid < s.n,
           Within(amount, NextPayment(s))
    PROVE  Good(Settle(MarkReceived(s)), c + amount)
  <1> DEFINE r == Settle(MarkReceived(s))
  <1>1. s \in SubType
    BY DEF Good
  <1>2. /\ r.total = s.total /\ r.n = s.n /\ r.each = s.each
        /\ r.paid = s.planPaid + 1 /\ r.planPaid = s.planPaid + 1
        /\ r.planState = IF s.planPaid + 1 >= s.n THEN "COMPLETED" ELSE "ACTIVE"
        /\ r.state = IF s.planPaid + 1 >= s.n THEN "SETTLED"
                                              ELSE "PARTIALLY_PAID"
        /\ r.due = IF s.planPaid + 1 >= s.n THEN 0 ELSE s.due + 1
        /\ r \in SubType
    <2> DEFINE m == MarkReceived(s)
               last == s.planPaid + 1 >= s.n
               planState == IF last THEN "COMPLETED" ELSE "ACTIVE"
               due == IF last THEN 0 ELSE s.due + 1
    <2>1. m = [s EXCEPT !.planPaid = s.planPaid + 1,
                        !.planState = planState, !.due = due]
      BY DEF MarkReceived
    <2>0. /\ s.planPaid + 1 \in Nat /\ due \in Nat
          /\ planState \in {"ACTIVE", "COMPLETED"}
      BY <1>1 DEF SubType
    <2> HIDE DEF planState, due
    <2>2. /\ m \in SubType
          /\ m.total = s.total /\ m.n = s.n /\ m.each = s.each
          /\ m.planPaid = s.planPaid + 1
          /\ m.planState = planState /\ m.due = due
      BY <1>1, <2>0, <2>1 DEF SubType
    <2>3. r = [m EXCEPT !.paid = m.planPaid,
                        !.state = IF m.planState = "COMPLETED" THEN "SETTLED"
                                  ELSE "PARTIALLY_PAID"]
      BY DEF Settle
    <2> HIDE DEF m, r
    <2> QED
      BY <2>2, <2>3 DEF SubType, planState, due
  <1>3. Agrees(r)
    BY <1>1, <1>2 DEF Good, Agrees, SubType
  <1>4. NextPayment(s) = s.each
    <2>1. CASE s.planPaid = s.n - 1
      <3>1. s.total = s.each * s.planPaid + s.each
        BY <1>1, <2>1, OneMore DEF Good, Balanced, SubType
      <3>2. s.each * s.planPaid \in Int
        BY <1>1 DEF SubType
      <3> QED
        BY <1>1, <2>1, <3>1, <3>2 DEF NextPayment, SubType
    <2>2. CASE s.planPaid # s.n - 1
      BY <1>1, <2>2 DEF NextPayment, SubType
    <2> QED
      BY <2>1, <2>2
  <1>5. Balanced(r, c + amount)
    <2>1. /\ s.each * (s.paid + 1) = s.each * s.paid + s.each
          /\ Tolerance * (s.paid + 1) = Tolerance * s.paid + Tolerance
          /\ s.each * s.paid \in Int /\ Tolerance * s.paid \in Int
      BY <1>1, OneMore, MoneyAssumption DEF SubType
    <2>2. amount - s.each <= Tolerance /\ s.each - amount <= Tolerance
      BY <1>4 DEF Within
    <2>3. r.paid = s.paid + 1
      BY <1>2 DEF Good, Agrees
    <2>4. /\ c - s.each * s.paid <= Tolerance * s.paid
          /\ s.each * s.paid - c <= Tolerance * s.paid
      BY DEF Good, Balanced
    <2>5. /\ (c + amount) - (s.each * s.paid + s.each)
                 <= Tolerance * s.paid + Tolerance
          /\ (s.each * s.paid + s.each) - (c + amount)
                 <= Tolerance * s.paid + Tolerance
      BY <1>1, <2>1, <2>2, <2>4, MoneyAssumption DEF SubType
    <2> QED
      BY <1>2, <2>1, <2>3, <2>5 DEF Good, Balanced
  <1> QED
    BY <1>2, <1>3, <1>5 DEF Good

\* A new subscription is good.
LEMMA NewIsGood ==
    ASSUME NEW total \in Totals, NEW n \in Counts, total > 0, n > 0
    PROVE  Good([state |-> "PENDING", total |-> total, n |-> n, paid |-> 0,
                 planState |-> "ACTIVE", planPaid |-> 0,
                 each |-> Each(total, n), due |-> 1], 0)
  <1>1. Each(total, n) \in Nat /\ total = Each(total, n) * n
    <2>1. \E each \in 0..total : total = each * n
      BY MoneyAssumption
    <2>2. Each(total, n) \in 0..total /\ total = Each(total, n) * n
      BY <2>1 DEF Each
    <2> QED
      BY <2>2, MoneyAssumption
  <1>2. Each(total, n) * 0 = 0 /\ Tolerance * 0 = 0
    BY <1>1, MoneyAssumption
  <1> QED
    BY <1>1, <1>2, MoneyAssumption DEF Good, SubType, Agrees, Balanced

LEMMA GoodInit == Init => GoodInv
  <1> SUFFICES ASSUME Init PROVE GoodInv
    OBVIOUS
  <1>1. /\ enabled \in BOOLEAN /\ nextId \in 1..(MaxSubs + 1)
        /\ collected \in [Ids -> Int]
    <2>1. enabled \in BOOLEAN
      BY DEF Init
    <2>2. nextId \in 1..(MaxSubs + 1)
      BY MaxSubsAssumption DEF Init
    <2>3. collected \in [Ids -> Int]
      BY DEF Init
    <2> QED
      BY <2>1, <2>2, <2>3
  <1>2. subs \in [Ids -> SubType \cup {NoSub}]
    BY DEF Init
  <1>3. \A id \in Ids : ~Exists(id) /\ collected[id] = 0
    BY DEF Init, Exists, NoSub
  <1> QED
    BY <1>1, <1>2, <1>3 DEF GoodInv

LEMMA GoodNext == GoodInv /\ [Next]_vars => GoodInv'
  <1> SUFFICES ASSUME GoodInv, [Next]_vars PROVE GoodInv'
    OBVIOUS
  <1>1. ASSUME NEW e \in BOOLEAN, SetEnabled(e) PROVE GoodInv'
    BY <1>1 DEF SetEnabled, GoodInv, Exists
  <1>2. ASSUME NEW total \in Totals, NEW n \in Counts, Create(total, n)
        PROVE  GoodInv'
    <2> DEFINE s == [state |-> "PENDING", total |-> total, n |-> n, paid |-> 0,
                     planState |-> "ACTIVE", planPaid |-> 0,
                     each |-> Each(total, n), due |-> 1]
    <2>1. Good(s, 0) /\ s.state # "NONE"
      BY <1>2, NewIsGood DEF Create
    <2>2. /\ subs' = [subs EXCEPT ![nextId] = s]
          /\ nextId \in Ids /\ nextId' = nextId + 1
          /\ collected' = collected /\ enabled' = enabled
          /\ collected[nextId] = 0
      BY <1>2 DEF Create, GoodInv, Ids
    <2>3. nextId' \in 1..(MaxSubs + 1)
      BY <2>2, MaxSubsAssumption DEF Ids
    <2> HIDE DEF s
    <2>4. subs' \in [Ids -> SubType \cup {NoSub}]
      BY <2>1, <2>2 DEF GoodInv, Good
    <2>5. ASSUME NEW id \in Ids
          PROVE  /\ id >= nextId' => ~Exists(id)'
                 /\ Exists(id)' => Good(subs'[id], collected'[id])
                 /\ ~Exists(id)' => collected'[id] = 0
      <3>1. CASE id = nextId
        BY <2>1, <2>2, <3>1 DEF GoodInv, Exists, Ids
      <3>2. CASE id # nextId
        BY <2>2, <3>2 DEF GoodInv, Exists, Ids
      <3> QED
        BY <3>1, <3>2
    <2> QED
      BY <2>2, <2>3, <2>4, <2>5 DEF GoodInv, Good, Agrees, Balanced
  <1>3. ASSUME NEW id \in Ids, NEW amount \in Amounts,
               ProcessPayment(id, amount)
        PROVE  GoodInv'
    <2> DEFINE r == Settle(MarkReceived(subs[id]))
    <2>1. amount \in Int /\ collected[id] \in Int
      BY MoneyAssumption DEF GoodInv
    <2>2. Good(r, collected[id] + amount)
      BY <1>3, <2>1, ExistsType, PaymentKeepsGood DEF ProcessPayment
    <2>3. r \in SubType /\ r.state # "NONE"
      BY <2>2 DEF Good, SubType
    <2>4. /\ subs' = [subs EXCEPT ![id] = r]
          /\ collected' = [collected EXCEPT ![id] = @ + amount]
          /\ enabled' = enabled /\ nextId' = nextId
      BY <1>3 DEF ProcessPayment
    <2>5. id < nextId
      BY <1>3 DEF ProcessPayment, GoodInv, Ids
    <2> HIDE DEF r
    <2>6. collected' \in [Ids -> Int] /\ subs' \in [Ids -> SubType \cup {NoSub}]
      BY <2>1, <2>3, <2>4 DEF GoodInv
    <2>7. ASSUME NEW i \in Ids
          PROVE  /\ i >= nextId' => ~Exists(i)'
                 /\ Exists(i)' => Good(subs'[i], collected'[i])
                 /\ ~Exists(i)' => collected'[i] = 0
      <3>1. CASE i = id
        BY <2>2, <2>3, <2>4, <2>5, <3>1 DEF GoodInv, Exists, Ids
      <3>2. CASE i # id
        BY <2>4, <3>2 DEF GoodInv, Exists
      <3> QED
        BY <3>1, <3>2
    <2> QED
      BY <2>4, <2>6, <2>7 DEF GoodInv, Good, Agrees, Balanced
  <1>4. ASSUME NEW id \in Ids, Cancel(id) PROVE GoodInv'
    <2> DEFINE r == [subs[id] EXCEPT !.state = "CANCELLED"]
    <2>1. Good(subs[id], collected[id]) /\ subs[id] \in SubType
      BY <1>4, ExistsType DEF Cancel
    <2>2. r \in SubType /\ r.state # "NONE"
      BY <2>1 DEF SubType
    <2>3. Good(r, collected[id])
      BY <1>4, <2>1, <2>2 DEF Good, Agrees, Balanced, SubType, Cancel, Payable
    <2>4. /\ subs' = [subs EXCEPT ![id] = r]
          /\ UNCHANGED <<enabled, nextId, collected>>
      BY <1>4 DEF Cancel
    <2>5. id < nextId
      BY <1>4 DEF Cancel, GoodInv, Ids
    <2> HIDE DEF r
    <2>6. subs' \in [Ids -> SubType \cup {NoSub}]
      BY <2>2, <2>4 DEF GoodInv
    <2>7. ASSUME NEW i \in Ids
          PROVE  /\ i >= nextId' => ~Exists(i)'
                 /\ Exists(i)' => Good(subs'[i], collected'[i])
                 /\ ~Exists(i)' => collected'[i] = 0
      <3>1. CASE i = id
        BY <2>2, <2>3, <2>4, <2>5, <3>1 DEF GoodInv, Exists, Ids
      <3>2. CASE i # id
        BY <2>4, <3>2 DEF GoodInv, Exists
      <3> QED
        BY <3>1, <3>2
    <2> QED
      BY <2>4, <2>6, <2>7 DEF GoodInv, Good, Agrees, Balanced
  <1>5. CASE UNCHANGED vars
    BY <1>5 DEF vars, GoodInv, Exists
  <1> QED
    BY <1>1, <1>2, <1>3, <1>4, <1>5 DEF Next

-----------------------------------------------------------------------------
\* Subscriptions and plans keep their types through every sequence of calls.
THEOREM SubscriptionsTyped == Spec => []TypeOK
  <1>1. GoodInv => TypeOK
    BY DEF GoodInv, TypeOK
  <1> QED
    BY <1>1, GoodInit, GoodNext, PTL DEF Spec

\* A subscription and its installment plan never disagree.
THEOREM PlanAlwaysAgrees == Spec => []PlanAgrees
  <1>1. GoodInv => PlanAgrees
    BY DEF GoodInv, Good, Agrees, PlanAgrees
  <1> QED
    BY <1>1, GoodInit, GoodNext, PTL DEF Spec

\* The money taken never drifts from what was due by more than a tolerance per
\* installment, whatever amounts within tolerance are paid.
THEOREM CollectedStaysNearDue == Spec => []CollectedNearDue
  <1>1. GoodInv => CollectedNearDue
    BY DEF GoodInv, Good, Agrees, Balanced, CollectedNearDue
  <1> QED
    BY <1>1, GoodInit, GoodNext, PTL DEF Spec

\* A settled or cancelled subscription is never charged or changed again.
THEOREM TerminalSubscriptionsStay == Spec => TerminalStays
  <1> DEFINE Stays ==
        \A id \in Ids : subs[id].state \in {"SETTLED", "CANCELLED"} =>
            UNCHANGED <<subs[id], collected[id]>>
  <1>1. ASSUME GoodInv, [Next]_vars PROVE [Stays]_vars
    <2> SUFFICES ASSUME Next, NEW id \in Ids,
                        subs[id].state \in {"SETTLED", "CANCELLED"}
                 PROVE  UNCHANGED <<subs[id], collected[id]>>
      BY <1>1
    <2>1. ASSUME NEW e \in BOOLEAN, SetEnabled(e)
          PROVE  UNCHANGED <<subs[id], collected[id]>>
      BY <2>1 DEF SetEnabled
    <2>2. ASSUME NEW total \in Totals, NEW n \in Counts, Create(total, n)
          PROVE  UNCHANGED <<subs[id], collected[id]>>
      BY <1>1, <2>2 DEF Create, GoodInv, Exists, Ids
    <2>3. ASSUME NEW i \in Ids, NEW amount \in Amounts,
                 ProcessPayment(i, amount)
          PROVE  UNCHANGED <<subs[id], collected[id]>>
      BY <1>1, <2>3 DEF ProcessPayment, Payable, GoodInv
    <2>4. ASSUME NEW i \in Ids, Cancel(i)
          PROVE  UNCHANGED <<subs[id], collected[id]>>
      BY <1>1, <2>4 DEF Cancel, Payable, GoodInv
    <2> QED
      BY <2>1, <2>2, <2>3, <2>4 DEF Next
  <1> QED
    BY <1>1, GoodInit, GoodNext, PTL DEF Spec, TerminalStays

=============================================================================
