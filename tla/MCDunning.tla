------------------------------ MODULE MCDunning ------------------------------
(* The delays 5, 15, 60 and 300 of BackoffStrategy, in their order. *)
EXTENDS DunningEngine

MCBackoff == <<1, 2, 3, 4>>

=============================================================================
