------------------------------- MODULE Pipeline -------------------------------
(***************************************************************************)
(* The ring with its contents: what the producers copy into a slot, what   *)
(* CryptoWorker::verify_slot reads back from it, and how the verdict that  *)
(* RingBuffer leaves open is reached, with the hashes the AntiReplayLedger *)
(* has seen and the keys of the configuration.                             *)
(*                                                                         *)
(* The payload and the signature of a slot are plain memory: verify_slot   *)
(* may read them while enqueue still writes them. What memory holds is     *)
(* what would be read: nothing while payload_len is still 0, Torn where a  *)
(* payload is partly copied or read with the length of another. Payloads   *)
(* are no longer than MAX_PAYLOAD_SIZE. Where two producers copy into one  *)
(* slot at once the last store is what is read. The runs are far shorter   *)
(* than the five minutes of the anti-replay window. The keys are read one  *)
(* by one while POST /api/config may change them.                          *)
(***************************************************************************)
EXTENDS RingBuffer, Config

CONSTANT
    Requests    \* what clients POST: records of a payload and a signature

VARIABLES
    item,       \* request each producer serves, NoRequest when idle
    stage,      \* how far each producer's copy into its slot has come
    memory,     \* payload and signature of each slot
    shield,     \* enabled_ of the crypto worker
    step,       \* where each verifier is in its inspection
    copy,       \* the payload it copied
    seen,       \* hashes in the AntiReplayLedger
    rr,         \* rr_counter, modulo 3
    picked,     \* private_key of each verification
    armed,      \* history: whether there was a primary key when it began
    held,       \* history: the keys channels have had since
    licences    \* history: hashes the ledger took, and slots approved unseen

keyVars     == <<rr, picked, armed, held>>
workVars    == <<shield, step, copy, seen, keyVars>>
pipeVars    == <<item, stage, memory, workVars, licences, configVars>>
pvars       == <<vars, pipeVars>>

Payloads == {r.payload : r \in Requests}

ASSUME RequestsAssumption ==
    Requests \subseteq [payload : Payloads, sig : {r.sig : r \in Requests}]

Torn == "torn"

\* compute_hmac_hex, taken to be injective; the empty signature is of nothing.
Hmac(payload, secret) == <<payload, secret>>

\* A signature that is partly copied, equal to none made with a key.
TornSig == Hmac(Torn, NoKey)

NoRequest == [payload |-> "", sig |-> Hmac("", NoKey)]

PInit ==
    /\ Init
    /\ item = [p \in Producers |-> NoRequest]
    /\ stage = [p \in Producers |-> "none"]
    /\ memory = [i \in Slots |-> NoRequest]
    /\ shield = TRUE
    /\ step = [v \in Verifiers |-> "none"]
    /\ copy = [v \in Verifiers |-> ""]
    /\ seen = {}
    /\ rr = 0
    /\ picked = [v \in Verifiers |-> NoKey]
    /\ armed = [v \in Verifiers |-> FALSE]
    /\ held = [v \in Verifiers |-> {}]
    /\ licences = 0
    /\ ConfigInit

-----------------------------------------------------------------------------
(* RingBuffer::enqueue, with what it copies.                               *)

ArriveWith(p, r) ==
    /\ Arrive(p)
    /\ item' = [item EXCEPT ![p] = r]
    /\ UNCHANGED <<stage, memory, workVars, licences, configVars>>

\* The copy comes to the next of its steps, and the slot reads as content.
CopyTo(p, place, content) ==
    /\ memory' = [memory EXCEPT ![Idx(pos[p])] = content]
    /\ stage' = [stage EXCEPT ![p] = place]
    /\ UNCHANGED <<vars, item, workVars, licences, configVars>>

Written(p) == memory[Idx(pos[p])]

\* memcpy has begun: the old payload is gone and the new one not yet there,
\* unless they are the same, or the length is still that of no payload.
BeginCopy(p) ==
    /\ pc[p] = "write" /\ stage[p] = "none"
    /\ CopyTo(p, "payload",
              [Written(p) EXCEPT !.payload = IF @ \in {"", item[p].payload}
                                             THEN @ ELSE Torn])

\* memcpy is done: with the length of the last payload the new one reads as
\* itself only when the two are equally long. strncpy has begun.
BeginSignature(p) ==
    /\ pc[p] = "write" /\ stage[p] = "payload"
    /\ \E visible \in {Torn, item[p].payload} :
           CopyTo(p, "signature",
                  [payload |-> IF Written(p).payload = Torn
                               THEN visible ELSE Written(p).payload,
                   sig     |-> IF Written(p).sig = item[p].sig
                               THEN item[p].sig ELSE TornSig])

CopySignature(p) ==
    /\ pc[p] = "write" /\ stage[p] = "signature"
    /\ CopyTo(p, "signed", [Written(p) EXCEPT !.sig = item[p].sig])

\* payload_len: from here on the slot reads as the request.
CopyLength(p) ==
    /\ pc[p] = "write" /\ stage[p] = "signed"
    /\ CopyTo(p, "length", [Written(p) EXCEPT !.payload = item[p].payload])

\* The steps of the copy that the ring does not see.
CopyStep(p) ==
    BeginCopy(p) \/ BeginSignature(p) \/ CopySignature(p) \/ CopyLength(p)

\* slot_id, the last store before the slot is published.
FinishCopy(p) ==
    /\ stage[p] = "length"
    /\ WriteSlot(p)
    /\ stage' = [stage EXCEPT ![p] = "none"]
    /\ UNCHANGED <<item, memory, workVars, licences, configVars>>

\* The request leaves the thread that served it.
Answered(p) ==
    /\ Refuse(p) \/ CountEnqueued(p)
    /\ item' = [item EXCEPT ![p] = NoRequest]
    /\ UNCHANGED <<stage, memory, workVars, licences, configVars>>

EnqueueStep(p) ==
    /\ LoadHead(p) \/ LoadTail(p) \/ ClaimPosition(p) \/ LockSlot(p) \/ Publish(p)
    /\ UNCHANGED pipeVars

-----------------------------------------------------------------------------
(* CryptoWorker: the scan, verify_slot and the verdict.                    *)

SetShield(e) ==
    /\ shield' = e
    /\ UNCHANGED <<vars, item, stage, memory, step, copy, seen, keyVars, licences,
                   configVars>>

ScanStep(v) ==
    /\ ScanTail(v) \/ ScanHead(v) \/ ScanSkip(v) \/ ScanNothing(v) \/ CountVerified(v)
    /\ UNCHANGED pipeVars

\* With the slot in hand the worker looks at enabled_ and begins to verify,
\* or approves it unseen.
TakeSlot(v) ==
    /\ ScanClaim(v)
    /\ step' = [step EXCEPT ![v] = IF shield THEN "copy" ELSE "bypass"]
    /\ armed' = [armed EXCEPT ![v] = key[0] # NoKey]
    /\ held' = [held EXCEPT ![v] = {key[c] : c \in Channels}]
    /\ UNCHANGED <<item, stage, memory, shield, copy, seen, rr, picked, licences,
                   configVars>>

InHand(v) == memory[Idx(scanPos[v])]

CopyPayload(v) ==
    /\ step[v] = "copy"
    /\ copy' = [copy EXCEPT ![v] = InHand(v).payload]
    /\ step' = [step EXCEPT ![v] = "hash"]
    /\ UNCHANGED <<vars, item, stage, memory, shield, seen, keyVars, licences,
                   configVars>>

\* fnv1a_hash reads the payload again, and insert_and_check takes its hash.
\* Torn payloads differ from each other, so that another one may be new.
HashIsNew(v) ==
    /\ step[v] = "hash"
    /\ InHand(v).payload = Torn \/ InHand(v).payload \notin seen
    /\ seen' = seen \cup {InHand(v).payload}
    /\ licences' = licences + 1
    /\ step' = [step EXCEPT ![v] = "key"]
    /\ UNCHANGED <<vars, item, stage, memory, shield, copy, keyVars, configVars>>

HashIsReplay(v) ==
    /\ step[v] = "hash"
    /\ InHand(v).payload \in seen
    /\ step' = [step EXCEPT ![v] = "replay"]
    /\ UNCHANGED <<vars, item, stage, memory, shield, copy, seen, keyVars,
                   licences, configVars>>

\* get_nomba_private_key
ReadPrimaryKey(v) ==
    /\ step[v] = "key"
    /\ picked' = [picked EXCEPT ![v] = key[0]]
    /\ step' = [step EXCEPT ![v] = "mode"]
    /\ UNCHANGED <<vars, item, stage, memory, shield, copy, seen, rr, armed,
                   held, licences, configVars>>

\* get_multi_api_mode, and the turn of this verification.
ReadMode(v) ==
    /\ step[v] = "mode"
    /\ step' = [step EXCEPT ![v] =
                   IF ~multiApi \/ rr = 0 THEN "sign"
                   ELSE IF rr = 1 THEN "keyB" ELSE "keyC"]
    /\ rr' = IF multiApi THEN (rr + 1) % 3 ELSE rr
    /\ UNCHANGED <<vars, item, stage, memory, shield, copy, seen, picked, armed,
                   held, licences, configVars>>

Channel(v) == IF step[v] = "keyB" THEN 1 ELSE 2

\* The key of the channel whose turn it is, if it has one.
ReadChannelKey(v) ==
    /\ step[v] \in {"keyB", "keyC"}
    /\ picked' = [picked EXCEPT ![v] =
                     IF key[Channel(v)] = NoKey THEN @ ELSE key[Channel(v)]]
    /\ step' = [step EXCEPT ![v] = "sign"]
    /\ UNCHANGED <<vars, item, stage, memory, shield, copy, seen, rr, armed,
                   held, licences, configVars>>

\* Without a key there is nothing to compare. The signature is the slot's, the
\* payload the copy.
SignatureHolds(v) ==
    picked[v] = NoKey \/ InHand(v).sig = Hmac(copy[v], picked[v])

\* Slip: a forged slot is emptied here already, and by the caller again.
CheckSignatureAndEmpty(v) ==
    /\ step[v] = "sign"
    /\ IF SignatureHolds(v)
       THEN step' = [step EXCEPT ![v] = "pass"] /\ state' = state
       ELSE /\ step' = [step EXCEPT ![v] = "forged"]
            /\ state' = [state EXCEPT ![Idx(scanPos[v])] = "EMPTY"]
    /\ UNCHANGED <<head, tail, slotId, countVars, producerVars, verifierVars,
                   dispatcherVars, item, stage, memory, shield, copy, seen,
                   keyVars, licences, configVars>>

CheckSignature(v) ==
    /\ step[v] = "sign"
    /\ step' = [step EXCEPT ![v] = IF SignatureHolds(v) THEN "pass" ELSE "forged"]
    /\ UNCHANGED <<vars, item, stage, memory, shield, copy, seen, keyVars,
                   licences, configVars>>

EndInspection(v) ==
    /\ step' = [step EXCEPT ![v] = "none"]
    /\ copy' = [copy EXCEPT ![v] = ""]
    /\ picked' = [picked EXCEPT ![v] = NoKey]
    /\ armed' = [armed EXCEPT ![v] = FALSE]
    /\ held' = [held EXCEPT ![v] = {}]

Pass(v) ==
    /\ step[v] = "pass"
    /\ Approve(v)
    /\ EndInspection(v)
    /\ UNCHANGED <<item, stage, memory, shield, seen, rr, licences, configVars>>

WaveThrough(v) ==
    /\ step[v] = "bypass"
    /\ Approve(v)
    /\ EndInspection(v)
    /\ licences' = licences + 1
    /\ UNCHANGED <<item, stage, memory, shield, seen, rr, configVars>>

\* Slip: the inspection is not closed.
DropUnfinished(v) ==
    /\ step[v] \in {"replay", "forged"}
    /\ Reject(v)
    /\ UNCHANGED pipeVars

Drop(v) ==
    /\ step[v] \in {"replay", "forged"}
    /\ Reject(v)
    /\ EndInspection(v)
    /\ UNCHANGED <<item, stage, memory, shield, seen, rr, licences, configVars>>

InspectStep(v) ==
    \/ CopyPayload(v) \/ HashIsNew(v) \/ HashIsReplay(v)
    \/ ReadPrimaryKey(v) \/ ReadMode(v) \/ ReadChannelKey(v) \/ CheckSignature(v)

\* A POST of the configuration goes on; what it sets has been in force in every
\* verification under way.
Configure ==
    /\ ConfigStep
    /\ held' = [v \in Verifiers |->
                   IF step[v] = "none" THEN {}
                   ELSE held[v] \cup {key'[c] : c \in Channels}]
    /\ UNCHANGED <<vars, item, stage, memory, shield, step, copy, seen, rr, picked,
                   armed, licences>>

-----------------------------------------------------------------------------
PNext ==
    \/ \E p \in Producers :
           \/ \E r \in Requests : ArriveWith(p, r)
           \/ EnqueueStep(p) \/ CopyStep(p) \/ FinishCopy(p)
           \/ Answered(p)
    \/ \E v \in Verifiers :
           \/ ScanStep(v) \/ TakeSlot(v) \/ InspectStep(v)
           \/ Pass(v) \/ WaveThrough(v) \/ Drop(v)
    \/ \E e \in BOOLEAN : SetShield(e)
    \/ Configure
    \/ DispatcherStep /\ UNCHANGED pipeVars

PSpec == PInit /\ [][PNext]_pvars

-----------------------------------------------------------------------------
(* Properties.                                                             *)

CopyStages == {"none", "payload", "signature", "signed", "length"}

\* What may lie in a slot: nothing yet, a payload, or a part of one.
Contents   == Payloads \cup {"", Torn}
Signatures == {r.sig : r \in Requests} \cup {NoRequest.sig, TornSig}

\* An inspection is under way exactly while the worker holds a slot, and a
\* copy exactly while a producer writes one.
PTypeOK ==
    /\ item \in [Producers -> Requests \cup {NoRequest}]
    /\ stage \in [Producers -> CopyStages]
    /\ \A p \in Producers : stage[p] # "none" => pc[p] = "write"
    /\ memory \in [Slots -> [payload : Contents, sig : Signatures]]
    /\ shield \in BOOLEAN
    /\ step \in [Verifiers -> {"none", "copy", "hash", "key", "mode", "keyB",
                              "keyC", "sign", "pass", "replay", "forged",
                              "bypass"}]
    /\ \A v \in Verifiers : step[v] # "none" <=> vpc[v] = "verify"
    /\ copy \in [Verifiers -> Contents]
    /\ seen \subseteq Contents
    /\ rr \in 0..2
    /\ picked \in [Verifiers -> Keys]
    /\ armed \in [Verifiers -> BOOLEAN]
    /\ held \in [Verifiers -> SUBSET Keys]
    /\ licences \in Nat
    /\ ConfigTypeOK

\* verify_slot and the copying behind it are a way of reaching the verdicts of
\* RingBuffer and nothing more: with its contents the ring still behaves as
\* the ring, so what holds of RingBuffer holds of it.
PipelineImplementsRing == Spec

\* With one producer the whole pipeline dispatches no more often than the
\* ledger accepted a hash, unless the shield was off: whatever repeats in the
\* requests, and whatever is read half-written, does not multiply.
DispatchedWasNew == dispatched <= licences

\* However the updates of the configuration fall between the getters: a slot
\* whose verification began with a primary key passes the check only with a
\* signature by a key that some channel has had since.
PassedWasSigned ==
    [][\A v \in Verifiers :
          step[v] = "sign" /\ step'[v] = "pass" /\ armed[v] =>
              \E k \in held[v] \ {NoKey} :
                  InHand(v).sig = Hmac(copy[v], k)]_pvars

-----------------------------------------------------------------------------
(* What comments of the repository say and the code does not do.           *)

\* crypto_worker.cpp: the anti-replay check is to "reject duplicate payloads":
\* none is blocked as a replay before a second request has arrived.
BlockedWasRepeated ==
    \A v \in Verifiers :
        step[v] = "replay" /\ copy[v] \in Payloads => arrived > 1

=============================================================================
