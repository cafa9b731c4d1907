---------------------------- MODULE PipelineProofs ----------------------------
(***************************************************************************)
(* Proofs about Pipeline: with the contents of its slots the ring is still *)
(* the ring, so that the theorems of RingBufferProofs hold of it, and its  *)
(* own variables keep their types; a slot passes the signature check only  *)
(* with a key that was in force, whatever the configuration does; and with *)
(* one producer every dispatch is paid for by a licence of the ledger.     *)
(***************************************************************************)
EXTENDS Pipeline, RingBufferProofs

-----------------------------------------------------------------------------
(* The pipeline implements the ring.                                       *)

LEMMA InitIsRingInit == PInit => Init
  BY DEF PInit

\* Copying touches the slot and nothing else.
LEMMA CopyOnlyCopies ==
  ASSUME NEW p \in Producers, CopyStep(p)
  PROVE  UNCHANGED <<vars, item, workVars, licences, configVars>>
  BY DEF CopyStep, BeginCopy, BeginSignature, CopySignature, CopyLength, CopyTo

LEMMA StepIsRingStep == [PNext]_pvars => [Next]_vars
  <1> SUFFICES ASSUME [PNext]_pvars PROVE [Next]_vars
    OBVIOUS
  <1>1. ASSUME NEW p \in Producers, NEW r \in Requests, ArriveWith(p, r)
        PROVE  Next
    BY <1>1 DEF ArriveWith, Next
  <1>2. ASSUME NEW p \in Producers, EnqueueStep(p) PROVE Next
    BY <1>2 DEF EnqueueStep, Next, ProducerStep
  <1>3. ASSUME NEW p \in Producers, CopyStep(p) PROVE UNCHANGED vars
    BY <1>3, CopyOnlyCopies
  <1>4. ASSUME NEW p \in Producers, FinishCopy(p) PROVE Next
    BY <1>4 DEF FinishCopy, Next, ProducerStep
  <1>5. ASSUME NEW p \in Producers, Answered(p) PROVE Next
    BY <1>5 DEF Answered, Next, ProducerStep
  <1>6. ASSUME NEW v \in Verifiers, ScanStep(v) PROVE Next
    BY <1>6 DEF ScanStep, Next, VerifierStep
  <1>7. ASSUME NEW v \in Verifiers, TakeSlot(v) PROVE Next
    BY <1>7 DEF TakeSlot, Next, VerifierStep
  <1>8. ASSUME NEW v \in Verifiers, InspectStep(v) PROVE UNCHANGED vars
    BY <1>8 DEF InspectStep, CopyPayload, HashIsNew, HashIsReplay,
                ReadPrimaryKey, ReadMode, ReadChannelKey, CheckSignature
  <1>9. ASSUME NEW v \in Verifiers, Pass(v) \/ WaveThrough(v) \/ Drop(v)
        PROVE  Next
    BY <1>9 DEF Pass, WaveThrough, Drop, Next, VerifierStep
  <1>10. ASSUME NEW e \in BOOLEAN, SetShield(e) PROVE UNCHANGED vars
    BY <1>10 DEF SetShield
  <1>11. CASE DispatcherStep /\ UNCHANGED pipeVars
    BY <1>11 DEF Next
  <1>12. CASE UNCHANGED pvars
    BY <1>12 DEF pvars
  <1>13. CASE Configure
    BY <1>13 DEF Configure
  <1> QED
    BY <1>1, <1>2, <1>3, <1>4, <1>5, <1>6, <1>7, <1>8, <1>9, <1>10, <1>11,
       <1>12, <1>13
    DEF PNext

\* However the payloads are copied, read half-written, hashed and signed, the
\* slots and positions move as RingBuffer says they may.
THEOREM PipelineIsRing == PSpec => PipelineImplementsRing
  BY InitIsRingInit, StepIsRingStep, PTL DEF PSpec, Spec, PipelineImplementsRing

\* The full check bounds the occupancy of the whole pipeline.
THEOREM PipelineOccupancyIsBounded == PSpec => []OccupancyBound
  BY PipelineIsRing, OvershootIsBounded, PTL DEF PipelineImplementsRing

-----------------------------------------------------------------------------
(* Type correctness.                                                       *)

\* A request, or the lack of one, is something a slot may hold.
LEMMA RequestIsContents ==
  \A r \in Requests \cup {NoRequest} : r \in [payload : Contents, sig : Signatures]
  <1>1. NoRequest \in [payload : Contents, sig : Signatures]
    BY DEF NoRequest, Contents, Signatures
  <1>2. ASSUME NEW r \in Requests
        PROVE  r \in [payload : Contents, sig : Signatures]
    BY RequestsAssumption DEF Contents, Signatures
  <1> QED
    BY <1>1, <1>2

\* Every step of the copy leaves in its slot what a slot may hold.
LEMMA CopyIsContents ==
  ASSUME TypeInv, PTypeOK, NEW p \in Producers, CopyStep(p)
  PROVE  /\ pc[p] = "write"
         /\ \E place \in CopyStages,
              content \in [payload : Contents, sig : Signatures] :
              CopyTo(p, place, content)
  <1> DEFINE Whole == [payload : Contents, sig : Signatures]
  <1>1. pc[p] = "write"
    BY DEF CopyStep, BeginCopy, BeginSignature, CopySignature, CopyLength
  <1>2. Written(p) \in Whole
    <2>1. pos[p] \in Nat
      BY <1>1 DEF TypeInv, LocalsSet, Claimed
    <2>2. memory \in [Slots -> Whole]
      BY DEF PTypeOK
    <2> QED
      BY <2>1, <2>2, IdxInSlots DEF Written
  <1>3. item[p] \in Whole
    BY RequestIsContents DEF PTypeOK
  <1>4. Torn \in Contents /\ TornSig \in Signatures
    BY DEF Contents, Signatures
  <1>5. CASE BeginCopy(p)
    <2>1. PICK a \in Contents :
             CopyTo(p, "payload", [Written(p) EXCEPT !.payload = a])
      BY <1>2, <1>4, <1>5 DEF BeginCopy
    <2>2. [Written(p) EXCEPT !.payload = a] \in Whole
      BY <1>2
    <2> QED
      BY <1>1, <2>1, <2>2 DEF CopyStages
  <1>6. CASE BeginSignature(p)
    <2>1. PICK a \in Contents, g \in Signatures :
             CopyTo(p, "signature", [payload |-> a, sig |-> g])
      BY <1>2, <1>3, <1>4, <1>6 DEF BeginSignature
    <2> QED
      BY <1>1, <2>1 DEF CopyStages
  <1>7. CASE CopySignature(p)
    <2>1. [Written(p) EXCEPT !.sig = item[p].sig] \in Whole
      BY <1>2, <1>3
    <2> QED
      BY <1>1, <1>7, <2>1 DEF CopySignature, CopyStages
  <1>8. CASE CopyLength(p)
    <2>1. [Written(p) EXCEPT !.payload = item[p].payload] \in Whole
      BY <1>2, <1>3
    <2> QED
      BY <1>1, <1>8, <2>1 DEF CopyLength, CopyStages
  <1> QED
    BY <1>5, <1>6, <1>7, <1>8 DEF CopyStep

LEMMA KeysHasNone == NoKey \in Keys /\ EnvKey \in Keys
  BY DEF Keys

LEMMA ConfigTypeInit == ConfigInit => ConfigTypeOK
  <1> SUFFICES ASSUME ConfigInit PROVE ConfigTypeOK
    OBVIOUS
  <1>1. key \in [Channels -> Keys]
    BY KeysHasNone DEF ConfigInit
  <1>2. field \in [Configurers -> 0..Done]
    <2>1. Done \in 0..Done
      BY DEF Done
    <2> QED
      BY <2>1 DEF ConfigInit
  <1>3. updates \in Nat /\ multiApi \in BOOLEAN
    BY DEF ConfigInit
  <1>4. update \in [Configurers -> Updates \cup {NoUpdate}]
    BY DEF ConfigInit
  <1> QED
    BY <1>1, <1>2, <1>3, <1>4 DEF ConfigTypeOK

\* Every step of a POST sets what the update holds, or nothing.
LEMMA ConfigTypeNext ==
  ASSUME ConfigTypeOK, ConfigStep
  PROVE  ConfigTypeOK'
  <1> USE DEF ConfigTypeOK
  <1>1. ASSUME NEW q \in Configurers, NEW u \in Updates, PostConfig(q, u)
        PROVE  ConfigTypeOK'
    BY <1>1 DEF PostConfig, Done
  <1>2. ASSUME NEW q \in Configurers, SetKey(q) PROVE ConfigTypeOK'
    <2>1. update[q].keys \in [Channels -> Keys]
      BY ConfigAssumption DEF NoUpdate, Keys
    <2>2. field[q] \in Channels /\ field[q] + 1 \in 0..Done
      BY <1>2 DEF SetKey, Channels, Done
    <2>3. key' \in [Channels -> Keys]
      BY <1>2, <2>1, <2>2 DEF SetKey
    <2> QED
      BY <1>2, <2>2, <2>3 DEF SetKey, NextField
  <1>3. ASSUME NEW q \in Configurers, SetMode(q) PROVE ConfigTypeOK'
    <2>1. field' \in [Configurers -> 0..Done]
      BY <1>3 DEF SetMode, NextField, Mode, Done
    <2>2. multiApi' \in BOOLEAN
      BY <1>3 DEF SetMode
    <2> QED
      BY <1>3, <2>1, <2>2 DEF SetMode
  <1> QED
    BY <1>1, <1>2, <1>3 DEF ConfigStep

LEMMA PTypeInit == PInit => PTypeOK
  <1> SUFFICES ASSUME PInit PROVE PTypeOK
    OBVIOUS
  <1>1. memory \in [Slots -> [payload : Contents, sig : Signatures]]
    BY RequestIsContents DEF PInit
  <1>2. copy \in [Verifiers -> Contents] /\ seen \subseteq Contents
    BY DEF PInit, Contents
  <1>3. \A v \in Verifiers : step[v] # "none" <=> vpc[v] = "verify"
    BY DEF PInit, Init
  <1>4. rr \in 0..2 /\ licences \in Nat
    <2>1. rr = 0 /\ licences = 0
      BY DEF PInit
    <2> QED
      BY <2>1
  <1>8. shield \in BOOLEAN
    BY DEF PInit
  <1>5. item \in [Producers -> Requests \cup {NoRequest}]
    BY DEF PInit
  <1>6. stage \in [Producers -> CopyStages]
        /\ \A p \in Producers : stage[p] # "none" => pc[p] = "write"
    BY DEF PInit, CopyStages
  <1>7. step \in [Verifiers -> {"none", "copy", "hash", "key", "mode", "keyB",
                               "keyC", "sign", "pass", "replay", "forged",
                               "bypass"}]
    BY DEF PInit
  <1>9. picked \in [Verifiers -> Keys]
    BY KeysHasNone DEF PInit
  <1>11. armed \in [Verifiers -> BOOLEAN]
    BY DEF PInit
  <1>12. held \in [Verifiers -> SUBSET Keys]
    BY DEF PInit
  <1>10. ConfigTypeOK
    BY ConfigTypeInit DEF PInit
  <1> QED
    BY <1>1, <1>2, <1>3, <1>4, <1>5, <1>6, <1>7, <1>8, <1>9, <1>10,
       <1>11, <1>12, Zenon
    DEF PTypeOK

LEMMA PTypeNext ==
  ASSUME TypeInv, PTypeOK, [PNext]_pvars
  PROVE  PTypeOK'
  <1> USE DEF PTypeOK, TypeInv, TypeOK, LocalsSet, keyVars, configVars, ConfigTypeOK
  <1>1. ASSUME NEW p \in Producers, NEW r \in Requests, ArriveWith(p, r)
        PROVE  PTypeOK'
    BY <1>1 DEF ArriveWith, Arrive, workVars, verifierVars, Goto
  <1>2. ASSUME NEW p \in Producers, EnqueueStep(p) PROVE PTypeOK'
    BY <1>2 DEF EnqueueStep, pipeVars, workVars, verifierVars, LoadHead,
                LoadTail, ClaimPosition, LockSlot, Publish, Goto, Loaded
  <1>3. ASSUME NEW p \in Producers, CopyStep(p) PROVE PTypeOK'
    <2>1. pc[p] = "write"
          /\ \E place \in CopyStages,
                content \in [payload : Contents, sig : Signatures] :
                CopyTo(p, place, content)
      BY <1>3, CopyIsContents
    <2>2. memory' \in [Slots -> [payload : Contents, sig : Signatures]]
      BY <2>1 DEF CopyTo
    <2>3. /\ stage' \in [Producers -> CopyStages]
          /\ \A q \in Producers : stage'[q] # "none" => pc[q] = "write"
      BY <2>1 DEF CopyTo
    <2> QED
      BY <1>3, <2>2, <2>3, CopyOnlyCopies DEF vars, producerVars, verifierVars,
         workVars
  <1>4. ASSUME NEW p \in Producers, FinishCopy(p) PROVE PTypeOK'
    BY <1>4 DEF FinishCopy, WriteSlot, Goto, verifierVars, workVars, CopyStages
  <1>6. ASSUME NEW p \in Producers, Answered(p) PROVE PTypeOK'
    BY <1>6 DEF Answered, Refuse, CountEnqueued, Goto, Loaded, verifierVars, workVars
  <1>7. ASSUME NEW v \in Verifiers, ScanStep(v) PROVE PTypeOK'
    BY <1>7 DEF ScanStep, ScanTail, ScanHead, ScanSkip, ScanNothing,
                CountVerified, EndScan, pipeVars, workVars, producerVars
  <1>8. ASSUME NEW v \in Verifiers, TakeSlot(v) PROVE PTypeOK'
    BY <1>8 DEF TakeSlot, ScanClaim, producerVars
  <1>9. ASSUME NEW v \in Verifiers, InspectStep(v) PROVE PTypeOK'
    <2>1. step[v] # "none" => InHand(v).payload \in Contents
      BY IdxInSlots DEF InHand
    <2>2. CASE CopyPayload(v)
      BY <2>1, <2>2 DEF CopyPayload, vars, producerVars, verifierVars
    <2>3. CASE HashIsNew(v)
      BY <2>1, <2>3 DEF HashIsNew, vars, producerVars, verifierVars
    <2>4. CASE HashIsReplay(v)
      BY <2>4 DEF HashIsReplay, vars, producerVars, verifierVars
    <2>5. CASE CheckSignature(v)
      BY <2>5 DEF CheckSignature, vars, producerVars, verifierVars
    <2>6. CASE ReadPrimaryKey(v)
      BY <2>6 DEF ReadPrimaryKey, vars, producerVars, verifierVars, ConfigTypeOK,
                  Channels
    <2>7. CASE ReadMode(v)
      <3>1. rr' \in 0..2
        BY <2>7 DEF ReadMode
      <3> QED
        BY <2>7, <3>1 DEF ReadMode, vars, producerVars, verifierVars
    <2>8. CASE ReadChannelKey(v)
      <3>1. picked' \in [Verifiers -> Keys]
        BY <2>8 DEF ReadChannelKey, Channel, ConfigTypeOK, Channels
      <3> QED
        BY <2>8, <3>1 DEF ReadChannelKey, vars, producerVars, verifierVars
    <2> QED
      BY <1>9, <2>2, <2>3, <2>4, <2>5, <2>6, <2>7, <2>8 DEF InspectStep
  <1>10. ASSUME NEW v \in Verifiers, Pass(v) \/ WaveThrough(v) \/ Drop(v)
         PROVE  PTypeOK'
    <2>e. /\ EndInspection(v) /\ UNCHANGED configVars
          /\ UNCHANGED <<item, stage, memory, shield, seen, rr>>
      BY <1>10 DEF Pass, WaveThrough, Drop
    <2>a. /\ picked' \in [Verifiers -> Keys]
          /\ held' \in [Verifiers -> SUBSET Keys]
      BY <2>e, KeysHasNone DEF EndInspection
    <2>b. armed' \in [Verifiers -> BOOLEAN]
      BY <2>e DEF EndInspection
    <2>c. copy' \in [Verifiers -> Contents]
      BY <2>e DEF EndInspection, Contents
    <2>d. ConfigTypeOK'
      BY <2>e
    <2>f. step' \in [Verifiers -> {"none", "copy", "hash", "key", "mode",
                                  "keyB", "keyC", "sign", "pass", "replay",
                                  "forged", "bypass"}]
      BY <2>e DEF EndInspection
    <2>k. PICK place : place # "verify" /\ vpc' = [vpc EXCEPT ![v] = place]
      BY <1>10 DEF Pass, WaveThrough, Drop, Approve, Reject, EndScan
    <2>l. \A x \in Verifiers : step'[x] # "none" <=> vpc'[x] = "verify"
      <3>1. /\ vpc \in [Verifiers -> {"tail", "head", "scan", "verify", "count"}]
            /\ step' = [step EXCEPT ![v] = "none"]
        BY <2>e DEF EndInspection
      <3> QED
        BY <2>k, <3>1
    <2>g. /\ UNCHANGED producerVars
          /\ licences' = licences \/ licences' = licences + 1
      BY <1>10 DEF Pass, WaveThrough, Drop, Approve, Reject, EndScan
    <2>h. licences' \in Nat
      <3>1. licences \in Nat
        OBVIOUS
      <3> HIDE DEF PTypeOK, TypeInv, TypeOK, LocalsSet
      <3> QED
        BY <2>g, <3>1
    <2>i. shield' \in BOOLEAN
      BY <2>e
    <2>j. /\ item' \in [Producers -> Requests \cup {NoRequest}]
          /\ stage' \in [Producers -> CopyStages]
          /\ \A p \in Producers : stage'[p] # "none" => pc'[p] = "write"
          /\ memory' \in [Slots -> [payload : Contents, sig : Signatures]]
          /\ seen' \subseteq Contents
          /\ rr' \in 0..2
      BY <2>e, <2>g DEF producerVars
    <2> HIDE DEF PTypeOK, TypeInv, TypeOK, LocalsSet, ConfigTypeOK
    <2> QED
      BY <2>a, <2>b, <2>c, <2>d, <2>f, <2>l, <2>h, <2>i, <2>j, Zenon DEF PTypeOK
  <1>11. ASSUME NEW e \in BOOLEAN, SetShield(e) PROVE PTypeOK'
    BY <1>11 DEF SetShield, vars, producerVars, verifierVars
  <1>12. CASE DispatcherStep /\ UNCHANGED pipeVars
    BY <1>12 DEF DispatcherStep, Dequeue, MarkDispatched, FreeSlot, AdvanceTail,
                 CountDispatched, pipeVars, workVars, producerVars, verifierVars
  <1>13. CASE UNCHANGED pvars
    BY <1>13 DEF pvars, vars, pipeVars, workVars, producerVars, verifierVars
  <1>14. CASE Configure
    <2>1. ConfigTypeOK'
      BY <1>14, ConfigTypeNext DEF Configure
    <2>2. held' \in [Verifiers -> SUBSET Keys]
      <3>1. \A c \in Channels : key'[c] \in Keys
        BY <2>1 DEF ConfigTypeOK
      <3> QED
        BY <1>14, <3>1 DEF Configure
    <2> QED
      BY <1>14, <2>1, <2>2 DEF Configure, vars, producerVars, verifierVars
  <1> QED
    BY <1>1, <1>2, <1>3, <1>4, <1>6, <1>7, <1>8, <1>9, <1>10, <1>11,
       <1>12, <1>13, <1>14
    DEF PNext

-----------------------------------------------------------------------------
(* The keys.                                                               *)

\* A key that is set stays set, and what a verification has read is among the
\* keys channels have had since it began; with a primary key at its beginning
\* it has read one.
KeyInv ==
    \A v \in Verifiers :
        /\ armed[v] => key[0] # NoKey
        /\ step[v] # "none" => \A c \in Channels : key[c] \in held[v]
        /\ step[v] \in {"mode", "keyB", "keyC", "sign"} =>
               /\ picked[v] \in held[v]
               /\ armed[v] => picked[v] # NoKey

LEMMA KeyInit == PInit => KeyInv
  BY DEF PInit, KeyInv

\* No update takes a key away.
LEMMA KeysStay ==
  ASSUME ConfigTypeOK, ConfigStep, NEW c \in Channels, key[c] # NoKey
  PROVE  key'[c] # NoKey
  <1>1. ASSUME NEW q \in Configurers, SetKey(q) PROVE key'[c] # NoKey
    BY <1>1 DEF SetKey, ConfigTypeOK
  <1> QED
    BY <1>1 DEF ConfigStep, PostConfig, SetMode

\* A slot only ever holds nothing, a request, or a part of one, and a verifier
\* inspects a slot exactly while RingBuffer has it verifying.
THEOREM PipelineTyped == PSpec => []PTypeOK
  <1>1. PInit => TypeInv /\ PTypeOK
    BY InitIsRingInit, TypeInit, PTypeInit
  <1>2. TypeInv /\ PTypeOK /\ [PNext]_pvars => (TypeInv /\ PTypeOK)'
    BY StepIsRingStep, TypeNext, PTypeNext
  <1> QED
    BY <1>1, <1>2, PTL DEF PSpec

\* What an action does to the keys that were read and offered.
LEMMA KeyNext ==
  ASSUME TypeInv, PTypeOK, KeyInv, [PNext]_pvars
  PROVE  KeyInv'
  <1> USE DEF KeyInv
  <1>t. /\ step \in [Verifiers -> {"none", "copy", "hash", "key", "mode", "keyB",
                                  "keyC", "sign", "pass", "replay", "forged",
                                  "bypass"}]
        /\ picked \in [Verifiers -> Keys]
        /\ armed \in [Verifiers -> BOOLEAN]
        /\ held \in [Verifiers -> SUBSET Keys]
        /\ ConfigTypeOK
    BY DEF PTypeOK
  <1>1. ASSUME UNCHANGED <<step, keyVars, configVars>> PROVE KeyInv'
    BY <1>1 DEF keyVars, configVars
  <1>2. ASSUME NEW v \in Verifiers, TakeSlot(v) PROVE KeyInv'
    BY <1>2, <1>t DEF TakeSlot, configVars
  <1>3. ASSUME NEW v \in Verifiers, CopyPayload(v) \/ HashIsNew(v) \/ HashIsReplay(v)
        PROVE  KeyInv'
    BY <1>3, <1>t DEF CopyPayload, HashIsNew, HashIsReplay, keyVars, configVars
  <1>4. ASSUME NEW v \in Verifiers, ReadPrimaryKey(v) PROVE KeyInv'
    BY <1>4, <1>t DEF ReadPrimaryKey, configVars, Channels
  <1>5. ASSUME NEW v \in Verifiers, ReadMode(v) PROVE KeyInv'
    BY <1>5, <1>t DEF ReadMode, configVars
  <1>6. ASSUME NEW v \in Verifiers, ReadChannelKey(v) PROVE KeyInv'
    <2>1. Channel(v) \in Channels
      BY DEF Channel, Channels
    <2> QED
      BY <1>6, <1>t, <2>1 DEF ReadChannelKey, configVars
  <1>7. ASSUME NEW v \in Verifiers, CheckSignature(v) PROVE KeyInv'
    BY <1>7, <1>t DEF CheckSignature, keyVars, configVars
  <1>8. ASSUME NEW v \in Verifiers, Pass(v) \/ WaveThrough(v) \/ Drop(v)
        PROVE  KeyInv'
    <2>1. EndInspection(v) /\ UNCHANGED configVars
      BY <1>8 DEF Pass, WaveThrough, Drop
    <2> QED
      BY <2>1, <1>t DEF EndInspection, configVars
  <1>9. CASE Configure
    <2>1. 0 \in Channels
      BY DEF Channels
    <2>2. key[0] # NoKey => key'[0] # NoKey
      BY <1>9, <1>t, <2>1, KeysStay DEF Configure
    <2>3. /\ UNCHANGED <<step, picked, armed>>
          /\ \A v \in Verifiers : step[v] # "none" =>
                 held'[v] = held[v] \cup {key'[c] : c \in Channels}
      BY <1>9 DEF Configure
    <2> QED
      BY <1>t, <2>2, <2>3
  <1>10. ASSUME NEW v \in Verifiers, InspectStep(v) PROVE KeyInv'
    BY <1>10, <1>3, <1>4, <1>5, <1>6, <1>7 DEF InspectStep
  <1>11. ASSUME NEW p \in Producers, NEW r \in Requests, ArriveWith(p, r)
         PROVE  KeyInv'
    BY <1>11, <1>1 DEF ArriveWith, workVars
  <1>12. ASSUME NEW p \in Producers,
                EnqueueStep(p) \/ CopyStep(p) \/ FinishCopy(p) \/ Answered(p)
         PROVE  KeyInv'
    BY <1>12, <1>1, CopyOnlyCopies
    DEF EnqueueStep, FinishCopy, Answered, pipeVars, workVars
  <1>13. ASSUME NEW v \in Verifiers, ScanStep(v) PROVE KeyInv'
    BY <1>13, <1>1 DEF ScanStep, pipeVars, workVars
  <1>14. ASSUME NEW e \in BOOLEAN, SetShield(e) PROVE KeyInv'
    BY <1>14, <1>1 DEF SetShield
  <1>15. CASE DispatcherStep /\ UNCHANGED pipeVars
    BY <1>15, <1>1 DEF pipeVars, workVars
  <1>16. CASE UNCHANGED pvars
    BY <1>16, <1>1 DEF pvars, pipeVars, workVars
  <1> QED
    BY <1>2, <1>8, <1>9, <1>10, <1>11, <1>12, <1>13, <1>14, <1>15, <1>16 DEF PNext

\* Only the comparison leads from "sign" to "pass".
LEMMA OnlyCheckPasses ==
  ASSUME PTypeOK, [PNext]_pvars, NEW v \in Verifiers,
         step[v] = "sign", step'[v] = "pass"
  PROVE  SignatureHolds(v)
  <1>t. step \in [Verifiers -> {"none", "copy", "hash", "key", "mode", "keyB",
                               "keyC", "sign", "pass", "replay", "forged",
                               "bypass"}]
    BY DEF PTypeOK
  <1>1. ASSUME UNCHANGED step PROVE FALSE
    BY <1>1
  <1>2. ASSUME NEW w \in Verifiers, CheckSignature(w) PROVE SignatureHolds(v)
    BY <1>2, <1>t DEF CheckSignature
  <1>3. ASSUME NEW w \in Verifiers, NEW place,
               step' = [step EXCEPT ![w] = place], place # "pass"
        PROVE  FALSE
    BY <1>3, <1>t
  <1>4. ASSUME NEW w \in Verifiers,
               CopyPayload(w) \/ HashIsNew(w) \/ HashIsReplay(w)
               \/ ReadPrimaryKey(w) \/ ReadMode(w) \/ ReadChannelKey(w)
               \/ TakeSlot(w) \/ Pass(w) \/ WaveThrough(w) \/ Drop(w)
        PROVE  FALSE
    <2>1. \E place : place # "pass" /\ step' = [step EXCEPT ![w] = place]
      BY <1>4 DEF CopyPayload, HashIsNew, HashIsReplay, ReadPrimaryKey, ReadMode,
                  ReadChannelKey, TakeSlot, Pass, WaveThrough, Drop, EndInspection
    <2> QED
      BY <2>1, <1>3
  <1>5. ASSUME NEW w \in Verifiers, InspectStep(w) PROVE SignatureHolds(v)
    BY <1>5, <1>2, <1>4 DEF InspectStep
  <1>6. ASSUME NEW p \in Producers,
               (\E r \in Requests : ArriveWith(p, r)) \/ EnqueueStep(p)
               \/ CopyStep(p) \/ FinishCopy(p) \/ Answered(p)
        PROVE  FALSE
    BY <1>6, <1>1, CopyOnlyCopies
    DEF ArriveWith, EnqueueStep, FinishCopy, Answered, pipeVars, workVars
  <1>7. ASSUME NEW w \in Verifiers, ScanStep(w) PROVE FALSE
    BY <1>7, <1>1 DEF ScanStep, pipeVars, workVars
  <1>8. ASSUME NEW e \in BOOLEAN, SetShield(e) PROVE FALSE
    BY <1>8, <1>1 DEF SetShield
  <1>9. CASE DispatcherStep /\ UNCHANGED pipeVars
    BY <1>9, <1>1 DEF pipeVars, workVars
  <1>10. CASE Configure
    BY <1>10, <1>1 DEF Configure
  <1>11. CASE UNCHANGED pvars
    BY <1>11, <1>1 DEF pvars, pipeVars, workVars
  <1> QED
    BY <1>4, <1>5, <1>6, <1>7, <1>8, <1>9, <1>10, <1>11 DEF PNext

\* Whatever POST /api/config sets between two getters, a verification that
\* began with a primary key lets nothing pass that is not signed with a key
\* some channel has had since.
THEOREM PassedIsSigned == PSpec => PassedWasSigned
  <1>1. PInit => TypeInv /\ PTypeOK /\ KeyInv
    BY InitIsRingInit, TypeInit, PTypeInit, KeyInit
  <1>2. TypeInv /\ PTypeOK /\ KeyInv /\ [PNext]_pvars
        => (TypeInv /\ PTypeOK /\ KeyInv)'
    BY StepIsRingStep, TypeNext, PTypeNext, KeyNext
  <1>3. PTypeOK /\ KeyInv /\ [PNext]_pvars =>
          \A v \in Verifiers :
             step[v] = "sign" /\ step'[v] = "pass" /\ armed[v] =>
                \E k \in held[v] \ {NoKey} : InHand(v).sig = Hmac(copy[v], k)
    <2> SUFFICES ASSUME PTypeOK, KeyInv, [PNext]_pvars, NEW v \in Verifiers,
                        step[v] = "sign", step'[v] = "pass", armed[v]
                 PROVE  \E k \in held[v] \ {NoKey} :
                           InHand(v).sig = Hmac(copy[v], k)
      OBVIOUS
    <2>1. SignatureHolds(v)
      BY OnlyCheckPasses
    <2>2. picked[v] \in held[v] \ {NoKey}
      BY DEF KeyInv
    <2> QED
      BY <2>1, <2>2 DEF SignatureHolds
  <1> QED
    BY <1>1, <1>2, <1>3, PTL DEF PSpec, PassedWasSigned

-----------------------------------------------------------------------------
(* No approval goes without a licence, and hardly a dispatch.              *)

\* The verifications that took a licence and may still approve their slot.
Licensed == {v \in Verifiers :
                step[v] \in {"key", "mode", "keyB", "keyC", "sign", "pass"}}

\* Every licence is spent at most once, on an approval already given or on a
\* verification that may still give one.
LicenceInv == Approved + Cardinality(Licensed) <= licences

\* What is taken from one account may be added to the other.
LEMMA LicenceMoves ==
  ASSUME TypeInv, TypeInv', PTypeOK, LicenceInv,
         NEW a \in Int, NEW l \in Int, NEW n \in Int,
         Approved' <= Approved + a,
         Cardinality(Licensed') <= Cardinality(Licensed) + l,
         licences' = licences + n, a + l <= n
  PROVE  LicenceInv'
  <1>1. Licensed \subseteq Verifiers /\ Licensed' \subseteq Verifiers
    BY DEF Licensed
  <1>2. Cardinality(Licensed) \in Nat /\ Cardinality(Licensed') \in Nat
    BY <1>1, CountsFinite
  <1>3. Approved \in Nat /\ Approved' \in Nat /\ licences \in Nat
    BY AccountsAreNumbers, AccountsStayNumbers DEF PTypeOK
  <1>4. PICK a0 \in Nat, l0 \in Nat, a1 \in Nat, l1 \in Nat, n0 \in Nat :
            /\ a0 = Approved /\ l0 = Cardinality(Licensed) /\ n0 = licences
            /\ a1 = Approved' /\ l1 = Cardinality(Licensed')
    BY <1>2, <1>3
  <1>5. a0 + l0 <= n0
    BY <1>4 DEF LicenceInv
  <1>6. a1 <= a0 + a /\ l1 <= l0 + l
    BY <1>4
  <1>7. a1 + l1 <= n0 + n
    BY <1>5, <1>6
  <1> QED
    BY <1>4, <1>7 DEF LicenceInv

\* A step that gives no approval and takes no licence.
LEMMA LicenceStable ==
  ASSUME TypeInv, TypeInv', PTypeOK, LicenceInv, Approved' <= Approved,
         Licensed' \subseteq Licensed, licences' = licences
  PROVE  LicenceInv'
  <1>1. Licensed \subseteq Verifiers /\ Licensed' \subseteq Verifiers
    BY DEF Licensed
  <1>2. Cardinality(Licensed') <= Cardinality(Licensed)
    BY <1>1, SizeChange
  <1>3. /\ Cardinality(Licensed) \in Nat /\ Approved \in Nat /\ licences \in Nat
    BY <1>1, CountsFinite, AccountsAreNumbers DEF PTypeOK
  <1>4. /\ Approved' <= Approved + 0
        /\ Cardinality(Licensed') <= Cardinality(Licensed) + 0
        /\ licences' = licences + 0
    BY <1>2, <1>3
  <1> QED
    BY <1>4, LicenceMoves

\* An approval raises the count by one, whoever else is on the way.
LEMMA ApproveCounts ==
  ASSUME TypeInv, NEW v \in Verifiers, Approve(v)
  PROVE  Approved' <= Approved + 1
  <1>1. /\ verified' = verified /\ vpc' = [vpc EXCEPT ![v] = "count"]
        /\ vpc \in [Verifiers -> {"tail", "head", "scan", "verify", "count"}]
    BY DEF Approve, countVars, TypeInv, TypeOK
  <1>2. /\ Counting' \subseteq Counting \cup {v}
        /\ Counting \subseteq Verifiers /\ Counting' \subseteq Verifiers
    BY <1>1 DEF Counting
  <1>3. /\ Cardinality(Counting') <= Cardinality(Counting) + 1
        /\ Cardinality(Counting) \in Nat /\ Cardinality(Counting') \in Nat
    BY <1>2, SizeChange, CountsFinite
  <1>4. verified \in Nat
    BY DEF TypeInv, TypeOK
  <1> QED
    BY <1>1, <1>3, <1>4 DEF Approved

\* The other steps of the scan raise it by nothing.
LEMMA ScanCounts ==
  ASSUME TypeInv, NEW v \in Verifiers,
         \/ ScanTail(v) \/ ScanHead(v) \/ ScanSkip(v) \/ ScanClaim(v)
         \/ ScanNothing(v) \/ CountVerified(v) \/ Reject(v)
  PROVE  Approved' <= Approved
  <1>t. /\ vpc \in [Verifiers -> {"tail", "head", "scan", "verify", "count"}]
        /\ verified \in Nat /\ Approved \in Nat
    BY AccountsAreNumbers DEF TypeInv, TypeOK
  <1>1. CASE CountVerified(v)
    <2>1. /\ verified' = verified + 1 /\ vpc[v] = "count"
          /\ vpc' = [vpc EXCEPT ![v] = "tail"]
      BY <1>1 DEF CountVerified, EndScan
    <2>2. /\ v \in Counting /\ Counting' \subseteq Counting \ {v}
          /\ Counting \subseteq Verifiers /\ Counting' \subseteq Verifiers
      BY <1>t, <2>1 DEF Counting
    <2>3. /\ Cardinality(Counting') <= Cardinality(Counting) - 1
          /\ Cardinality(Counting) \in Nat /\ Cardinality(Counting') \in Nat
      BY <2>2, SizeChange, CountsFinite
    <2> QED
      BY <1>t, <2>1, <2>3 DEF Approved
  <1>2. CASE ~CountVerified(v)
    <2>1. verified' = verified /\ Counting' = Counting
      BY <1>t, <1>2 DEF ScanTail, ScanHead, ScanSkip, ScanClaim, ScanNothing,
                        Reject, EndScan, countVars, Counting
    <2> QED
      BY <1>t, <2>1 DEF Approved
  <1> QED
    BY <1>1, <1>2

\* A licence is taken with the hash and spent with the approval; a slot that
\* is approved unseen takes one at that moment.
LEMMA VerifierTakesLicence ==
  ASSUME TypeInv, TypeInv', PTypeOK, LicenceInv, NEW v \in Verifiers,
         ScanStep(v) \/ TakeSlot(v) \/ InspectStep(v)
         \/ Pass(v) \/ WaveThrough(v) \/ Drop(v)
  PROVE  LicenceInv'
  <1>n. Licensed \subseteq Verifiers /\ Licensed' \subseteq Verifiers
    BY DEF Licensed
  <1>t. /\ licences \in Nat /\ Approved \in Nat
        /\ Cardinality(Licensed) \in Nat
        /\ step \in [Verifiers -> {"none", "copy", "hash", "key", "mode", "keyB",
                                  "keyC", "sign", "pass", "replay", "forged",
                                  "bypass"}]
    BY <1>n, CountsFinite, AccountsAreNumbers DEF PTypeOK
  <1>1. CASE ScanStep(v)
    <2>1. UNCHANGED <<step, licences>> /\ Approved' <= Approved
      BY <1>1, ScanCounts DEF ScanStep, pipeVars, workVars
    <2> QED
      BY <2>1, LicenceStable DEF Licensed
  <1>2. CASE TakeSlot(v)
    <2>1. /\ licences' = licences /\ Approved' <= Approved
          /\ step' = [step EXCEPT ![v] = IF shield THEN "copy" ELSE "bypass"]
      BY <1>2, ScanCounts DEF TakeSlot
    <2>2. Licensed' \subseteq Licensed
      BY <1>t, <2>1 DEF Licensed
    <2> QED
      BY <2>1, <2>2, LicenceStable
  <1>3. CASE CopyPayload(v) \/ HashIsReplay(v) \/ ReadPrimaryKey(v)
             \/ ReadMode(v) \/ ReadChannelKey(v) \/ CheckSignature(v)
    <2>1. /\ UNCHANGED <<verified, vpc, licences>>
          /\ \E place :
                /\ step' = [step EXCEPT ![v] = place]
                /\ place \in {"key", "mode", "keyB", "keyC", "sign", "pass"} =>
                       step[v] \in {"key", "mode", "keyB", "keyC", "sign"}
      BY <1>3 DEF CopyPayload, HashIsReplay, ReadPrimaryKey, ReadMode,
                  ReadChannelKey, CheckSignature, vars, countVars, verifierVars
    <2>2. Licensed' \subseteq Licensed
      BY <1>t, <2>1 DEF Licensed
    <2>3. Approved' = Approved
      BY <2>1 DEF Approved, Counting
    <2>4. Approved' <= Approved
      BY <1>t, <2>3
    <2> QED
      BY <2>1, <2>2, <2>4, LicenceStable
  <1>4. CASE HashIsNew(v)
    <2>1. /\ UNCHANGED <<verified, vpc>> /\ licences' = licences + 1
          /\ step' = [step EXCEPT ![v] = "key"]
      BY <1>4 DEF HashIsNew, vars, countVars, verifierVars
    <2>2. Licensed' \subseteq Licensed \cup {v}
      BY <1>t, <2>1 DEF Licensed
    <2>3. Cardinality(Licensed') <= Cardinality(Licensed) + 1
      BY <1>n, <2>2, SizeChange
    <2>4. Approved' = Approved
      BY <2>1 DEF Approved, Counting
    <2>5. Approved' <= Approved + 0
      BY <1>t, <2>4
    <2> QED
      BY <2>1, <2>3, <2>5, LicenceMoves
  <1>5. CASE Pass(v)
    <2>1. Approved' <= Approved + 1
      BY <1>5, ApproveCounts DEF Pass
    <2>2. step' = [step EXCEPT ![v] = "none"]
      BY <1>5, Zenon DEF Pass, EndInspection
    <2>3. v \in Licensed /\ licences' = licences
      BY <1>5 DEF Pass, Licensed
    <2>4. Licensed' \subseteq Licensed \ {v}
      BY <1>t, <2>2 DEF Licensed
    <2>5. Cardinality(Licensed') <= Cardinality(Licensed) - 1
      BY <1>n, <2>3, <2>4, SizeChange
    <2>6. /\ Cardinality(Licensed') <= Cardinality(Licensed) + (-1)
          /\ licences' = licences + 0
      BY <1>t, <2>3, <2>5
    <2> QED
      BY <2>1, <2>6, LicenceMoves
  <1>6. CASE WaveThrough(v)
    <2>1. Approved' <= Approved + 1
      BY <1>6, ApproveCounts DEF WaveThrough
    <2>2. step' = [step EXCEPT ![v] = "none"]
      BY <1>6, Zenon DEF WaveThrough, EndInspection
    <2>3. licences' = licences + 1
      BY <1>6 DEF WaveThrough
    <2>4. Licensed' \subseteq Licensed
      BY <1>t, <2>2 DEF Licensed
    <2>5. Cardinality(Licensed') <= Cardinality(Licensed)
      BY <1>n, <2>4, SizeChange
    <2>6. Cardinality(Licensed') <= Cardinality(Licensed) + 0
      BY <1>t, <2>5
    <2> QED
      BY <2>1, <2>3, <2>6, LicenceMoves
  <1>7. CASE Drop(v)
    <2>1. Approved' <= Approved /\ licences' = licences
      BY <1>7, ScanCounts DEF Drop
    <2>2. step' = [step EXCEPT ![v] = "none"]
      BY <1>7, Zenon DEF Drop, EndInspection
    <2>3. Licensed' \subseteq Licensed
      BY <1>t, <2>2 DEF Licensed
    <2> QED
      BY <2>1, <2>3, LicenceStable
  <1> QED
    BY <1>1, <1>2, <1>3, <1>4, <1>5, <1>6, <1>7 DEF InspectStep

LEMMA LicenceNext ==
  ASSUME TypeInv, TypeInv', PTypeOK, LicenceInv, [PNext]_pvars
  PROVE  LicenceInv'
  <1>1. ASSUME UNCHANGED <<verified, vpc, step, licences>> PROVE LicenceInv'
    <2>1. Approved' = Approved /\ Licensed' = Licensed
      BY <1>1 DEF Approved, Counting, Licensed
    <2>2. Approved' <= Approved
      BY <2>1, AccountsAreNumbers
    <2> QED
      BY <1>1, <2>1, <2>2, LicenceStable
  <1>2. ASSUME NEW p \in Producers,
               \/ \E r \in Requests : ArriveWith(p, r)
               \/ EnqueueStep(p) \/ FinishCopy(p) \/ Answered(p)
        PROVE  UNCHANGED <<verified, vpc, step, licences>>
    BY <1>2 DEF ArriveWith, EnqueueStep, FinishCopy, Answered, Arrive, LoadHead,
                LoadTail, Refuse, ClaimPosition, LockSlot, WriteSlot, Publish,
                CountEnqueued, pipeVars, workVars, countVars, verifierVars
  <1>3. ASSUME NEW p \in Producers, CopyStep(p)
        PROVE  UNCHANGED <<verified, vpc, step, licences>>
    BY <1>3, CopyOnlyCopies DEF workVars, vars, countVars, verifierVars
  <1>4. ASSUME NEW e \in BOOLEAN, SetShield(e) \/ Configure
        PROVE  UNCHANGED <<verified, vpc, step, licences>>
    BY <1>4 DEF SetShield, Configure, vars, countVars, verifierVars
  <1>5. ASSUME DispatcherStep, UNCHANGED pipeVars
        PROVE  UNCHANGED <<verified, vpc, step, licences>>
    BY <1>5 DEF DispatcherStep, Dequeue, MarkDispatched, FreeSlot, AdvanceTail,
                CountDispatched, pipeVars, workVars, countVars, verifierVars
  <1>6. ASSUME UNCHANGED pvars
        PROVE  UNCHANGED <<verified, vpc, step, licences>>
    BY <1>6 DEF pvars, pipeVars, workVars, vars, countVars, verifierVars
  <1> QED
    BY <1>1, <1>2, <1>3, <1>4, <1>5, <1>6, VerifierTakesLicence DEF PNext

LEMMA LicenceInit == PInit => LicenceInv
  <1> SUFFICES ASSUME PInit PROVE LicenceInv
    OBVIOUS
  <1>1. Init /\ licences = 0 /\ step = [v \in Verifiers |-> "none"]
    BY Zenon DEF PInit
  <1>2. Licensed = {} /\ Counting = {} /\ verified = 0
    BY <1>1 DEF Init, Licensed, Counting
  <1>3. Cardinality(Licensed) = 0 /\ Cardinality(Counting) = 0
    BY <1>2, FS_EmptySet
  <1> QED
    BY <1>1, <1>2, <1>3 DEF LicenceInv, Approved

ApprovedWasNew == Approved <= licences

\* However many verifiers share the scan, and whatever they read half-written
\* from a slot: no slot is approved without a hash the ledger took as new for
\* that approval alone, unless the shield was off.
THEOREM ApprovalsAreLicensed == PSpec => []ApprovedWasNew
  <1> DEFINE Inv == TypeInv /\ PTypeOK /\ LicenceInv
  <1>1. PInit => Inv
    BY InitIsRingInit, TypeInit, PTypeInit, LicenceInit
  <1>2. Inv /\ [PNext]_pvars => Inv'
    BY StepIsRingStep, TypeNext, PTypeNext, LicenceNext
  <1>3. Inv => ApprovedWasNew
    <2> SUFFICES ASSUME Inv PROVE ApprovedWasNew
      OBVIOUS
    <2>1. Licensed \subseteq Verifiers
      BY DEF Licensed
    <2>2. /\ Cardinality(Licensed) \in Nat /\ Approved \in Nat
          /\ licences \in Nat
      BY <2>1, CountsFinite, AccountsAreNumbers DEF PTypeOK
    <2> QED
      BY <2>2 DEF LicenceInv, ApprovedWasNew
  <1> HIDE DEF Inv
  <1> QED
    BY <1>1, <1>2, <1>3, PTL DEF PSpec

\* With any number of HTTP threads, what is dispatched without a licence of its
\* own is bounded by the first laps of the ring, for the life of the program.
THEOREM UnlicensedIsBounded == PSpec => [](dispatched <= licences + Warmup)
  <1>1. ApprovedWasNew /\ UnverifiedBounded /\ TypeInv /\ PTypeOK
            => dispatched <= licences + Warmup
    <2> SUFFICES ASSUME ApprovedWasNew, UnverifiedBounded, TypeInv, PTypeOK
                 PROVE  dispatched <= licences + Warmup
      OBVIOUS
    <2>1. /\ Approved \in Nat /\ licences \in Nat /\ dispatched \in Nat
          /\ Warmup \in Nat
      BY AccountsAreNumbers, WarmupSize DEF PTypeOK, TypeInv, TypeOK
    <2> QED
      BY <2>1 DEF ApprovedWasNew, UnverifiedBounded
  <1>2. PSpec => [](TypeInv /\ PTypeOK)
    BY InitIsRingInit, StepIsRingStep, TypeInit, TypeNext, PipelineTyped, PTL
    DEF PSpec
  <1> QED
    BY <1>1, <1>2, ApprovalsAreLicensed, PipelineIsRing,
       UnverifiedDispatchesAreBounded, PTL DEF PipelineImplementsRing

\* However the dispatcher, the verifiers and the one producer interleave, and
\* whatever is read half-written, approved twice or freed by a wrong slot_id:
\* no dispatch goes without a hash the ledger took as new, or a slot approved
\* with the shield off. The capacity and the number of verifiers are free.
THEOREM DispatchesAreLicensed ==
  ASSUME OneProducer
  PROVE  PSpec => []DispatchedWasNew
  <1>1. (dispatched <= licences + Warmup) /\ PTypeOK => DispatchedWasNew
    <2> SUFFICES ASSUME dispatched <= licences + Warmup, PTypeOK
                 PROVE  DispatchedWasNew
      OBVIOUS
    <2>1. Warmup = 0
      BY CapacityAssumption DEF Warmup, OneProducer
    <2> QED
      BY <2>1 DEF DispatchedWasNew, PTypeOK
  <1> QED
    BY <1>1, UnlicensedIsBounded, PipelineTyped, PTL

=============================================================================
