------------------------------- MODULE Services -------------------------------
(***************************************************************************)
(* The services of the engine that any thread may call at any time, with   *)
(* the event ledger two of them write to.                                  *)
(***************************************************************************)
EXTENDS DownstreamForwarder, NubanProvisioner, Reconciler

vars == <<callVars, recent, forwarderVars, nubanVars, bookVars>>

Init ==
    CallersInit /\ LedgerInit /\ ForwarderInit /\ NubanInit /\ BookInit

Next ==
    \E t \in Threads :
        \/ ForwarderStep(t) /\ UNCHANGED <<nubanVars, bookVars>>
        \/ NubanStep(t) /\ UNCHANGED <<forwarderVars, bookVars>>
        \/ BookStep(t) /\ UNCHANGED <<recent, forwarderVars, nubanVars>>

Spec == Init /\ [][Next]_vars

-----------------------------------------------------------------------------
(* Properties.                                                             *)

Events ==
    [event : {"DOWNSTREAM_FORWARD"}, id : Txs, about : TargetIds \cup {"REJECTED"}]
    \cup [event : {"NUBAN_PROVISION"}, id : Students, about : Accounts]

TypeOK ==
    /\ calls \in 0..MaxCalls
    /\ recent \in Seq(Events) /\ Len(recent) <= Kept
    /\ enabled \in BOOLEAN
    /\ targets \in [TargetIds -> {"absent", "on", "off"}]
    /\ answer \in [Txs -> {"none", "true", "false", "threw"}]
    /\ sends \in [Txs -> [TargetIds -> Nat]]
    /\ account \in [Students -> Accounts \cup {NoAccount}]
    /\ given \in [Students -> SUBSET Accounts]
    /\ book \in [Refs -> Seq(Payments)]
    /\ cycles \in Nat /\ matched \in Nat

\* A transaction goes to a target only while forwarding is enabled and the
\* target is registered and on: removing or disabling takes effect before the
\* call returns, whatever is being forwarded. And it goes there once.
SentWhileOn ==
    [][\A x \in Txs, g \in TargetIds :
          sends'[x][g] # sends[x][g] =>
              /\ enabled /\ targets[g] = "on"
              /\ sends[x][g] = 0]_vars

\* What forward answers is whether the transaction has gone anywhere.
AnswerTells ==
    \A x \in Txs :
        answer[x] # "none" =>
            (answer[x] = "true" <=> \E g \in TargetIds : sends[x][g] > 0)

Fit   == [d \in Documents |-> Acceptable(d.fields)]
Clean == [d \in Documents |-> Render(Cleaned(d.fields))]

\* Of a whole document exactly the sensitive values are replaced before it
\* leaves; it is held back exactly if it lacks a field, has an injection
\* pattern or is too long; and redaction throws only on a text that was cut.
CleanedExactly ==
    \A t \in Threads :
        at[t].op \in {"send", "reject", "throw"} /\ at[t].doc.lost = 0 =>
            IF Fit[at[t].doc]
              THEN at[t].op = "send" /\ at[t].text = Clean[at[t].doc]
              ELSE at[t].op = "reject"

\* However often accounts are asked for, a student is given no more of them than
\* there are threads that could have looked before the first was cached.
AccountsPerStudent ==
    \A s \in Students : Cardinality(given[s]) <= Cardinality(Threads)

\* A cycle lets each deposit settle one payment: of the payments of one reference
\* and amount no more are settled than cycles and deposits allow, and the cycles
\* report as many matches as there are settled payments.
SettledByDeposits ==
    LET settled(r, a) ==
            {i \in DOMAIN book[r] : book[r][i] = [amount |-> a, status |-> "SETTLED"]}
        deposits(r, a) ==
            {i \in DOMAIN Deposits : Deposits[i] = [ref |-> r, amount |-> a]}
    IN  /\ \A r \in Refs, p \in Payments :
              Cardinality(settled(r, p.amount))
                  <= cycles * Cardinality(deposits(r, p.amount))
        /\ matched = Cardinality({ri \in Refs \X (1..MaxExpected) :
              ri[2] \in DOMAIN book[ri[1]] /\ book[ri[1]][ri[2]].status = "SETTLED"})

=============================================================================
