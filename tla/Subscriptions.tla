----------------------------- MODULE Subscriptions -----------------------------
(***************************************************************************)
(* SubscriptionManager and the InstallmentPlan each subscription carries.  *)
(* Every operation holds the manager's mutex from its first test to its    *)
(* last write, so it is one action. Money is an integer number of a unit   *)
(* fine enough to divide every total by every number of installments; the  *)
(* rounding of double is far below the tolerance and left out. Due dates   *)
(* count the 30-day intervals since the subscription was created.          *)
(***************************************************************************)
EXTENDS Integers

CONSTANTS
    MaxSubs,    \* bound: subscriptions ever created
    Totals,     \* total_amount values callers ask for, invalid ones included
    Counts,     \* installments values callers ask for, 0 included
    Amounts,    \* amounts callers pay
    Tolerance   \* the accepted difference, 0.01 in the code

ASSUME MaxSubsAssumption == MaxSubs \in Nat

ASSUME MoneyAssumption ==
    /\ Totals \subseteq Nat /\ Amounts \subseteq Int /\ Counts \subseteq Nat
    /\ Tolerance \in Nat
    /\ \A total \in Totals, n \in Counts :
           n > 0 => \E each \in 0..total : total = each * n

VARIABLES
    enabled,    \* enabled_, Toggle #5
    nextId,     \* next_id_
    subs,       \* subscriptions_
    collected   \* history: the money taken for each subscription

vars == <<enabled, nextId, subs, collected>>

Ids == 1..MaxSubs

NoSub == [state |-> "NONE"]

Exists(id) == subs[id].state # "NONE"

Init ==
    /\ enabled = FALSE
    /\ nextId = 1
    /\ subs = [id \in Ids |-> NoSub]
    /\ collected = [id \in Ids |-> 0]

SetEnabled(e) == enabled' = e /\ UNCHANGED <<nextId, subs, collected>>

\* total / installments.
Each(total, n) == CHOOSE each \in 0..total : total = each * n

\* create_subscription and InstallmentPlan::create, when every test passes.
Create(total, n) ==
    /\ enabled /\ total > 0 /\ n > 0
    /\ nextId \in Ids
    /\ subs' = [subs EXCEPT ![nextId] =
                   [state |-> "PENDING", total |-> total, n |-> n, paid |-> 0,
                    planState |-> "ACTIVE", planPaid |-> 0,
                    each |-> Each(total, n), due |-> 1]]
    /\ nextId' = nextId + 1
    /\ UNCHANGED <<enabled, collected>>

\* InstallmentPlan::calculate_next_payment: the last installment is the rest
\* of the total after what the earlier ones should have brought.
NextPayment(s) ==
    IF s.planState # "ACTIVE" \/ s.planPaid >= s.n THEN 0
    ELSE IF s.planPaid = s.n - 1 THEN s.total - s.each * s.planPaid
    ELSE s.each

\* Slip: the difference is tested without its absolute value.
NotAbove(amount, expected) == amount - expected <= Tolerance

Within(amount, expected) ==
    amount - expected <= Tolerance /\ expected - amount <= Tolerance

\* Slip: only the settled state is tested.
NotSettled(s) == s.state # "SETTLED"

Payable(s) == s.state \in {"PENDING", "PARTIALLY_PAID"}

\* Slip: the plan completes one payment too late.
MarkReceivedLate(s) ==
    LET completed == s.planPaid + 1 > s.n
    IN  [s EXCEPT !.planPaid = @ + 1,
                  !.planState = IF completed THEN "COMPLETED" ELSE @,
                  !.due = IF completed THEN 0 ELSE @ + 1]

\* InstallmentPlan::mark_payment_received on a plan that takes the payment.
MarkReceived(s) ==
    LET completed == s.planPaid + 1 >= s.n
    IN  [s EXCEPT !.planPaid = @ + 1,
                  !.planState = IF completed THEN "COMPLETED" ELSE @,
                  !.due = IF completed THEN 0 ELSE @ + 1]

\* The state the subscription takes from its plan after a payment.
Settle(s) ==
    [s EXCEPT !.paid = s.planPaid,
              !.state = IF s.planState = "COMPLETED" THEN "SETTLED"
                        ELSE "PARTIALLY_PAID"]

\* process_payment, when every test passes.
ProcessPayment(id, amount) ==
    /\ enabled /\ Exists(id)
    /\ Payable(subs[id])
    /\ Within(amount, NextPayment(subs[id]))
    /\ subs[id].planState = "ACTIVE" /\ subs[id].planPaid < subs[id].n
    /\ subs' = [subs EXCEPT ![id] = Settle(MarkReceived(@))]
    /\ collected' = [collected EXCEPT ![id] = @ + amount]
    /\ UNCHANGED <<enabled, nextId>>

\* Slip: cancel does not look at what it cancels.
CancelAnything(id) ==
    /\ subs' = [subs EXCEPT ![id].state = "CANCELLED"]
    /\ UNCHANGED <<enabled, nextId, collected>>

\* cancel works with the module disabled too, and leaves the plan ACTIVE.
Cancel(id) ==
    /\ Exists(id) /\ Payable(subs[id])
    /\ subs' = [subs EXCEPT ![id].state = "CANCELLED"]
    /\ UNCHANGED <<enabled, nextId, collected>>

Next ==
    \/ \E e \in BOOLEAN : SetEnabled(e)
    \/ \E total \in Totals, n \in Counts : Create(total, n)
    \/ \E id \in Ids :
           \/ \E amount \in Amounts : ProcessPayment(id, amount)
           \/ Cancel(id)

Spec == Init /\ [][Next]_vars

-----------------------------------------------------------------------------
SubType ==
    [state : {"PENDING", "PARTIALLY_PAID", "SETTLED", "CANCELLED"},
     total : Nat, n : Nat, paid : Nat, planState : {"ACTIVE", "COMPLETED"},
     planPaid : Nat, each : Nat, due : Nat]

\* Whatever is called in whatever order, a subscription is absent or a whole
\* record in one of the four states, with a plan that is never DEFAULTED.
TypeOK ==
    /\ enabled \in BOOLEAN
    /\ nextId \in 1..(MaxSubs + 1)
    /\ subs \in [Ids -> SubType \cup {NoSub}]
    /\ collected \in [Ids -> Int]

\* The manager's view of a subscription and its plan's own never disagree:
\* settled is completed is every installment paid, pending is none paid, and
\* the plan is due again exactly while it is not completed.
PlanAgrees ==
    \A id \in Ids : Exists(id) =>
        LET s == subs[id] IN
        /\ s.paid = s.planPaid /\ s.paid <= s.n
        /\ s.state = "SETTLED" <=> s.planState = "COMPLETED"
        /\ s.planState = "COMPLETED" <=> s.paid = s.n
        /\ s.state = "PENDING" => s.paid = 0
        /\ s.state = "PARTIALLY_PAID" => s.paid > 0
        /\ s.due = IF s.planState = "COMPLETED" THEN 0 ELSE s.paid + 1

\* However the tolerance is used, the money taken differs from what was due
\* by at most one tolerance per installment, and a settled subscription's
\* last installment has made up the total.
CollectedNearDue ==
    \A id \in Ids : Exists(id) =>
        LET s == subs[id]
            owed == s.each * s.paid
            slack == Tolerance * s.paid
        IN  /\ collected[id] - owed <= slack /\ owed - collected[id] <= slack
            /\ s.state = "SETTLED" => owed = s.total

\* Nothing is taken for a subscription that is settled or cancelled, and it
\* stays what it is whatever calls come after, in whatever order.
TerminalStays ==
    [][\A id \in Ids : subs[id].state \in {"SETTLED", "CANCELLED"} =>
           UNCHANGED <<subs[id], collected[id]>>]_vars

=============================================================================
