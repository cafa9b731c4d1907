--------------------------- MODULE NubanProvisioner ---------------------------
(***************************************************************************)
(* NubanProvisioner and NubanCache: the account of each student. The cache *)
(* is read and written under its own mutex, in two sections; between them  *)
(* provision_account holds nothing.                                        *)
(***************************************************************************)
EXTENDS Callers, EventLedger

CONSTANTS
    Students,
    Accounts,   \* the numbers generate_random_nuban may draw
    NoAccount   \* the empty string get_account returns

ASSUME ProvisionerAssumption == NoAccount \notin Accounts

VARIABLES
    account,    \* map_
    given       \* history: the accounts made for each student

nubanVars == <<account, given>>

NubanInit ==
    /\ account = [s \in Students |-> NoAccount]
    /\ given = [s \in Students |-> {}]

Provisioned(s, a) == [event |-> "NUBAN_PROVISION", id |-> s, about |-> a]

\* The student has an account: that one is returned.
FindAccount(t, s) ==
    /\ account[s] # NoAccount
    /\ CallAtOnce(t)
    /\ UNCHANGED <<nubanVars, recent>>

\* Slip: the cache is not asked.
MakeAccountAnyway(t, s) ==
    /\ \E a \in Accounts : Begin(t, [op |-> "cache", student |-> s, number |-> a])
    /\ UNCHANGED <<nubanVars, recent>>

\* The student has none yet: a number is drawn.
MakeAccount(t, s) ==
    /\ account[s] = NoAccount
    /\ \E a \in Accounts : Begin(t, [op |-> "cache", student |-> s, number |-> a])
    /\ UNCHANGED <<nubanVars, recent>>

CacheAccount(t) ==
    /\ at[t].op = "cache"
    /\ LET s == at[t].student
           a == at[t].number
       IN  /\ account' = [account EXCEPT ![s] = a]
           /\ given' = [given EXCEPT ![s] = @ \cup {a}]
           /\ GoOn(t, [op |-> "report", student |-> s, number |-> a])
    /\ UNCHANGED recent

ReportAccount(t) ==
    /\ at[t].op = "report"
    /\ LogEvent(Provisioned(at[t].student, at[t].number))
    /\ GoOn(t, Idle)
    /\ UNCHANGED nubanVars

NubanStep(t) ==
    \/ \E s \in Students : FindAccount(t, s) \/ MakeAccount(t, s)
    \/ CacheAccount(t) \/ ReportAccount(t)

=============================================================================
