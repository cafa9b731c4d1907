------------------------------ MODULE EventLedger ------------------------------
(***************************************************************************)
(* EventLedger: the events kept for GET /api/events, newest first.         *)
(* log_event writes, keeps and forgets under one mutex. The file it also   *)
(* writes is read by nobody, and nobody registers a telemetry callback.    *)
(***************************************************************************)
EXTENDS Naturals, Sequences

CONSTANT Kept   \* 50, the events that are kept

ASSUME LedgerAssumption == Kept \in Nat \ {0}

VARIABLE recent \* recent_events_

LedgerInit == recent = <<>>

\* Slip: nothing is forgotten.
LogAndKeep(e) == recent' = <<e>> \o recent

LogEvent(e) ==
    LET longer == <<e>> \o recent
    IN  recent' = IF Len(longer) > Kept THEN SubSeq(longer, 1, Len(longer) - 1)
                                        ELSE longer

=============================================================================
