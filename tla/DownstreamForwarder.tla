------------------------- MODULE DownstreamForwarder -------------------------
(***************************************************************************)
(* DownstreamForwarder. forward holds the forwarder's mutex over the check *)
(* of the text and the loop over the targets; each dispatch is an event    *)
(* logged under the ledger's own mutex, between the events of others. A    *)
(* thread holds the mutex exactly while it is at "send", "reject", "throw". *)
(***************************************************************************)
EXTENDS Callers, EventLedger, PayloadSanitizer

CONSTANTS
    TargetIds,  \* ids of the webhook targets
    Documents,  \* what is forwarded, each with how many tokens its end lost
    Txs         \* ids of the transactions, each forwarded once

ASSUME DocumentsAssumption ==
    \A d \in Documents : IsFlat(d.fields) /\ d.lost \in Nat

VARIABLES
    enabled,    \* enabled_
    targets,    \* targets_: each id "absent", "on" or "off"
    answer,     \* history: what forward has answered for each transaction
    sends       \* history: how often each went to each target

forwarderVars == <<enabled, targets, answer, sends>>

ForwarderInit ==
    /\ enabled = TRUE
    /\ targets = [g \in TargetIds |-> "absent"]
    /\ answer = [x \in Txs |-> "none"]
    /\ sends = [x \in Txs |-> [g \in TargetIds |-> 0]]

\* The text forward is given: the document in blanks and a stray control
\* character, or the beginning of it.
Text(d) ==
    LET whole == Render(d.fields)
    IN  <<"space", "control">> \o SubSeq(whole, 1, Len(whole) - d.lost)
            \o <<"space">>

Sanitized == [d \in Documents |-> Sanitize(Text(d))]

MutexFree == \A t \in Threads : at[t].op \notin {"send", "reject", "throw"}

Sent(x, g)   == [event |-> "DOWNSTREAM_FORWARD", id |-> x, about |-> g]
Rejected(x)  == [event |-> "DOWNSTREAM_FORWARD", id |-> x, about |-> "REJECTED"]

\* add_target: a target of the same id is replaced.
AddTarget(t, g) ==
    /\ MutexFree
    /\ CallAtOnce(t)
    /\ \E s \in {"on", "off"} : targets' = [targets EXCEPT ![g] = s]
    /\ UNCHANGED <<enabled, answer, sends, recent>>

RemoveTarget(t, g) ==
    /\ MutexFree
    /\ CallAtOnce(t)
    /\ targets' = [targets EXCEPT ![g] = "absent"]
    /\ UNCHANGED <<enabled, answer, sends, recent>>

\* Slip: the switch is set without the mutex.
SetEnabledUnlocked(t, b) ==
    /\ CallAtOnce(t)
    /\ enabled' = b
    /\ UNCHANGED <<targets, answer, sends, recent>>

SetEnabled(t, b) ==
    /\ MutexFree
    /\ CallAtOnce(t)
    /\ enabled' = b
    /\ UNCHANGED <<targets, answer, sends, recent>>

-----------------------------------------------------------------------------
(* forward.                                                                *)

NoTargets == \A g \in TargetIds : targets[g] = "absent"

ForwardNothing(t, x) ==
    /\ MutexFree /\ answer[x] = "none"
    /\ ~enabled \/ NoTargets
    /\ CallAtOnce(t)
    /\ answer' = [answer EXCEPT ![x] = "false"]
    /\ UNCHANGED <<enabled, targets, sends, recent>>

\* The text is sanitized: it is refused, redaction throws, or the targets are
\* gone through.
ForwardBegin(t, x, d) ==
    /\ MutexFree /\ answer[x] = "none"
    /\ enabled /\ ~NoTargets
    /\ LET text == Sanitized[d]
           registered == {g \in TargetIds : targets[g] # "absent"}
       IN  Begin(t, [op |-> IF text = Refused THEN "reject"
                            ELSE IF text = OutOfRange THEN "throw" ELSE "send",
                     tx |-> x, doc |-> d, text |-> text,
                     todo |-> registered, count |-> 0])
    /\ UNCHANGED <<forwarderVars, recent>>

\* The exception leaves forward.
Throw(t) ==
    /\ at[t].op = "throw"
    /\ answer' = [answer EXCEPT ![at[t].tx] = "threw"]
    /\ GoOn(t, Idle)
    /\ UNCHANGED <<enabled, targets, sends, recent>>

Reject(t) ==
    /\ at[t].op = "reject"
    /\ LogEvent(Rejected(at[t].tx))
    /\ answer' = [answer EXCEPT ![at[t].tx] = "false"]
    /\ GoOn(t, Idle)
    /\ UNCHANGED <<enabled, targets, sends>>

\* A target that is disabled is passed over; for another the text is signed and
\* dispatched, which always succeeds and logs it.
Dispatch(t, g) ==
    /\ at[t].op = "send" /\ g \in at[t].todo
    /\ LET rest == [at[t] EXCEPT !.todo = @ \ {g}]
       IN  IF targets[g] = "on"
             THEN /\ LogEvent(Sent(at[t].tx, g))
                  /\ sends' = [sends EXCEPT ![at[t].tx][g] = @ + 1]
                  /\ GoOn(t, [rest EXCEPT !.count = @ + 1])
             ELSE GoOn(t, rest) /\ UNCHANGED <<recent, sends>>
    /\ UNCHANGED <<enabled, targets, answer>>

\* Slip: a forward that reached the end of the loop answers true.
AnswerTrue(t) ==
    /\ at[t].op = "send" /\ at[t].todo = {}
    /\ answer' = [answer EXCEPT ![at[t].tx] = "true"]
    /\ GoOn(t, Idle)
    /\ UNCHANGED <<enabled, targets, sends, recent>>

ForwardEnd(t) ==
    /\ at[t].op = "send" /\ at[t].todo = {}
    /\ answer' = [answer EXCEPT ![at[t].tx] =
                      IF at[t].count > 0 THEN "true" ELSE "false"]
    /\ GoOn(t, Idle)
    /\ UNCHANGED <<enabled, targets, sends, recent>>

ForwarderStep(t) ==
    \/ \E g \in TargetIds : AddTarget(t, g) \/ RemoveTarget(t, g) \/ Dispatch(t, g)
    \/ \E b \in BOOLEAN : SetEnabled(t, b)
    \/ \E x \in Txs : ForwardNothing(t, x) \/ \E d \in Documents : ForwardBegin(t, x, d)
    \/ Reject(t) \/ Throw(t) \/ ForwardEnd(t)

=============================================================================
