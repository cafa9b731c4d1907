------------------------------ MODULE MCPipeline ------------------------------
(* Requests and updates for TLC: one request signed with the key of the     *)
(* environment, one with the key that an update gives to channel B, and one *)
(* that replaces the primary key and names nothing else.                    *)
EXTENDS Pipeline, TLC

MCRequests ==
    {[payload |-> "a", sig |-> Hmac("a", "k0")],
     [payload |-> "b", sig |-> Hmac("b", "k1")]}

MCUpdates ==
    {[keys |-> 0 :> NoKey @@ 1 :> "k1" @@ 2 :> NoKey, mode |-> "on"],
     [keys |-> 0 :> "k1" @@ 1 :> NoKey @@ 2 :> NoKey, mode |-> "absent"]}

=============================================================================
