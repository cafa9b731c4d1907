--------------------------------- MODULE Config ---------------------------------
(***************************************************************************)
(* The part of nombacrypt::Config that verify_slot reads, the private keys *)
(* of the channels and multi_api_mode, and POST /api/config, which sets    *)
(* one field after the other, each under the mutex for itself. Addresses   *)
(* and account names, which nothing reads back, are left out.              *)
(***************************************************************************)
EXTENDS Naturals

CONSTANTS
    Configurers,    \* HTTP threads that serve POST /api/config
    EnvKey,         \* NOMBA_TEST_PRIVATE_KEY, NoKey when it is not set
    Updates,        \* bodies: keys by channel, NoKey where absent, and a mode
    MaxUpdates      \* bound on the number of POSTs

VARIABLES
    key,        \* private key of channel 0 (primary), 1 (B) and 2 (C)
    multiApi,   \* multi_api_mode_
    update,     \* what each configurer sets
    field,      \* the field it sets next: a channel, or 3 for the mode
    updates     \* number of POSTs so far

configVars == <<key, multiApi, update, field, updates>>

NoKey    == ""
Channels == 0..2
Mode     == 3
Done     == 4

Keys     == {NoKey, EnvKey} \cup {u.keys[c] : u \in Updates, c \in Channels}
NoUpdate == [keys |-> [c \in Channels |-> NoKey], mode |-> "absent"]

ASSUME ConfigAssumption ==
    /\ Updates \subseteq [keys : [Channels -> Keys],
                          mode : {"on", "off", "absent"}]
    /\ MaxUpdates \in Nat

\* load_from_env, before any thread has started.
ConfigInit ==
    /\ key = [c \in Channels |-> IF c = 0 THEN EnvKey ELSE NoKey]
    /\ multiApi = FALSE
    /\ update = [q \in Configurers |-> NoUpdate]
    /\ field = [q \in Configurers |-> Done]
    /\ updates = 0

PostConfig(q, u) ==
    /\ field[q] = Done /\ updates < MaxUpdates
    /\ update' = [update EXCEPT ![q] = u]
    /\ field' = [field EXCEPT ![q] = 0]
    /\ updates' = updates + 1
    /\ UNCHANGED <<key, multiApi>>

NextField(q) == field' = [field EXCEPT ![q] = @ + 1]

\* Slip: what the body does not name is set to nothing.
SetKeyAnyway(q) ==
    /\ field[q] \in Channels
    /\ key' = [key EXCEPT ![field[q]] = update[q].keys[field[q]]]
    /\ NextField(q)
    /\ UNCHANGED <<multiApi, update, updates>>

\* if (!key.empty()) config.set_..._private_key(key)
SetKey(q) ==
    /\ field[q] \in Channels
    /\ key' = [key EXCEPT ![field[q]] =
                  IF update[q].keys[field[q]] = NoKey
                  THEN @ ELSE update[q].keys[field[q]]]
    /\ NextField(q)
    /\ UNCHANGED <<multiApi, update, updates>>

\* The last field, and the answer.
SetMode(q) ==
    /\ field[q] = Mode
    /\ multiApi' = IF update[q].mode = "absent" THEN multiApi
                   ELSE update[q].mode = "on"
    /\ NextField(q)
    /\ update' = [update EXCEPT ![q] = NoUpdate]
    /\ UNCHANGED <<key, updates>>

ConfigStep ==
    \E q \in Configurers :
        (\E u \in Updates : PostConfig(q, u)) \/ SetKey(q) \/ SetMode(q)

ConfigTypeOK ==
    /\ key \in [Channels -> Keys]
    /\ multiApi \in BOOLEAN
    /\ update \in [Configurers -> Updates \cup {NoUpdate}]
    /\ field \in [Configurers -> 0..Done]
    /\ updates \in Nat

=============================================================================
