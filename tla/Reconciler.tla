------------------------------ MODULE Reconciler ------------------------------
(***************************************************************************)
(* Reconciler: the payments expected under each account reference, and the *)
(* cycles that match deposits against them. Each call holds the mutex from *)
(* beginning to end, but for the fetch of the deposits, which the bundled  *)
(* transactions API answers with the same three every time.                *)
(***************************************************************************)
EXTENDS Callers, Sequences, FiniteSets

CONSTANTS
    Refs,       \* account references payments are expected under
    MaxExpected \* bound on the payments expected under one reference

ASSUME ReconcilerAssumption == MaxExpected \in Nat

VARIABLES
    book,       \* internal_ledger_
    cycles,     \* history: cycles since the book was cleared
    matched     \* history: matches they have reported

bookVars == <<book, cycles, matched>>

\* fetch_recent_deposits, in thousands of naira.
Deposits == <<[ref |-> "STUDENT-12345", amount |-> 50],
              [ref |-> "STUDENT-99999", amount |-> 15],
              [ref |-> "STUDENT-12345", amount |-> 5]>>

Payments ==
    [amount : {Deposits[i].amount : i \in DOMAIN Deposits},
     status : {"PENDING", "SETTLED"}]

BookInit == book = [r \in Refs |-> <<>>] /\ cycles = 0 /\ matched = 0

Register(t, r, a) ==
    /\ Len(book[r]) < MaxExpected
    /\ CallAtOnce(t)
    /\ book' = [book EXCEPT ![r] =
                    Append(@, [amount |-> a, status |-> "PENDING"])]
    /\ UNCHANGED <<cycles, matched>>

-----------------------------------------------------------------------------
(* run_reconciliation_cycle.                                               *)

\* The payments a deposit could settle.
Open(b, d) ==
    IF d.ref \in Refs
      THEN {i \in DOMAIN b[d.ref] :
              b[d.ref][i] = [amount |-> d.amount, status |-> "PENDING"]}
      ELSE {}

\* Slip: the loop does not end at the first match.
MatchAll(b, d) ==
    IF Open(b, d) = {} THEN b
    ELSE [b EXCEPT ![d.ref] =
             [i \in DOMAIN @ |-> IF i \in Open(b, d)
                                   THEN [@[i] EXCEPT !.status = "SETTLED"]
                                   ELSE @[i]]]

\* A deposit settles the oldest pending payment of just its amount, if any.
Match(b, d) ==
    IF Open(b, d) = {} THEN b
    ELSE LET first == CHOOSE i \in Open(b, d) : \A j \in Open(b, d) : i <= j
         IN  [b EXCEPT ![d.ref][first].status = "SETTLED"]

Cycle(t) ==
    /\ CallAtOnce(t)
    /\ LET b1 == Match(book, Deposits[1])
           b2 == Match(b1, Deposits[2])
           b3 == Match(b2, Deposits[3])
           seen == <<book, b1, b2>>
       IN  /\ book' = b3
           /\ matched' = matched
                + Cardinality({i \in 1..3 : Open(seen[i], Deposits[i]) # {}})
    /\ cycles' = cycles + 1

ClearLedger(t) ==
    /\ CallAtOnce(t)
    /\ book' = [r \in Refs |-> <<>>]
    /\ cycles' = 0 /\ matched' = 0

BookStep(t) ==
    \/ \E r \in Refs, i \in DOMAIN Deposits : Register(t, r, Deposits[i].amount)
    \/ Cycle(t) \/ ClearLedger(t)

=============================================================================
