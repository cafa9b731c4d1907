----------------------------- MODULE ServicesProofs -----------------------------
(***************************************************************************)
(* Proofs about Services. The forwarder's argument is that one thread at   *)
(* most is inside forward, and that its place tells what has been sent;    *)
(* the sanitizer's, that in the text of a document every field stands      *)
(* where the fields before it end, so that what a pass finds there is that *)
(* field, its value and the end of its value, and nothing in between; the  *)
(* provisioner's, that the accounts given and the ones about to be cached  *)
(* are together no more than the threads.                                  *)
(***************************************************************************)
EXTENDS Services, FiniteSetTheorems, SequenceTheorems, WellFoundedInduction,
        TLAPS

-----------------------------------------------------------------------------
(* Types.                                                                  *)

SanitizedTexts == {Sanitized[d] : d \in Documents}

ForwardPlaces ==
    [op : {"send", "reject", "throw"}, tx : Txs, doc : Documents, text : SanitizedTexts,
     todo : SUBSET TargetIds, count : Nat]

NubanPlaces ==
    [op : {"cache", "report"}, student : Students, number : Accounts]

ThreadPlaces == {Idle} \cup ForwardPlaces \cup NubanPlaces

Typed == TypeOK /\ at \in [Threads -> ThreadPlaces]

Forwards(p) == p.op \in {"send", "reject", "throw"}

LEMMA PlaceKinds ==
    ASSUME NEW p \in ThreadPlaces
    PROVE  /\ Forwards(p) => p \in ForwardPlaces
           /\ p.op \in {"cache", "report"} => p \in NubanPlaces
           /\ p = Idle <=> p.op = "idle"
<1>1. CASE p = Idle
  BY <1>1 DEF Idle, Forwards
<1>2. CASE p \in ForwardPlaces
  BY <1>2 DEF ForwardPlaces, Forwards, Idle
<1>3. CASE p \in NubanPlaces
  BY <1>3 DEF NubanPlaces, Forwards, Idle
<1> QED BY <1>1, <1>2, <1>3 DEF ThreadPlaces

LEMMA IdleIsPlace == Idle \in ThreadPlaces /\ ~Forwards(Idle) /\ Idle.op = "idle"
BY DEF ThreadPlaces, Idle, Forwards

LEMMA LogTyped ==
    ASSUME NEW e \in Events, recent \in Seq(Events), Len(recent) <= Kept,
           LogEvent(e)
    PROVE  recent' \in Seq(Events) /\ Len(recent') <= Kept
<1> DEFINE longer == <<e>> \o recent
<1>1. Kept \in Nat \ {0}
  BY LedgerAssumption
<1>2. longer \in Seq(Events) /\ Len(longer) = Len(recent) + 1 /\ Len(recent) \in Nat
  OBVIOUS
<1>3. recent' = IF Len(longer) > Kept THEN SubSeq(longer, 1, Len(longer) - 1)
                                      ELSE longer
  BY DEF LogEvent
<1> HIDE DEF longer
<1>4. SubSeq(longer, 1, Len(longer) - 1) \in Seq(Events)
      /\ Len(SubSeq(longer, 1, Len(longer) - 1)) = Len(longer) - 1
  BY <1>2
<1> QED BY <1>1, <1>2, <1>3, <1>4

LEMMA ThreeFinite == IsFiniteSet(1..3)
<1>1. 1 \in Int /\ 3 \in Int
  OBVIOUS
<1> QED BY <1>1, FS_Interval, Zenon

LEMMA LeastExists ==
    ASSUME NEW T \in SUBSET Nat, T # {}
    PROVE  \E i \in T : \A j \in T : i <= j
<1> DEFINE R == OpToRel(<, Nat)
<1>1. IsWellFoundedOn(R, Nat)
  BY NatLessThanWellFounded
<1>2. \A i, j \in Nat : <<j, i>> \in R <=> j < i
  BY DEF OpToRel
<1> HIDE DEF R
<1>3. PICK i \in T : \A j \in T : ~(<<j, i>> \in R)
  BY <1>1, WFMin
<1>4. ASSUME NEW j \in T
      PROVE  i <= j
  <2>1. i \in Nat /\ j \in Nat /\ ~(j < i)
    BY <1>2, <1>3, <1>4
  <2> QED BY <2>1
<1> QED BY <1>4

\* The payment a deposit settles is the oldest of those it could settle.
LEMMA FirstIsOpen ==
    ASSUME NEW b \in [Refs -> Seq(Payments)], NEW d, Open(b, d) # {}
    PROVE  LET first == CHOOSE i \in Open(b, d) : \A j \in Open(b, d) : i <= j
           IN  first \in Open(b, d) /\ first \in DOMAIN b[d.ref] /\ d.ref \in Refs
<1>1. d.ref \in Refs /\ Open(b, d) \subseteq DOMAIN b[d.ref]
  BY DEF Open
<1>2. Open(b, d) \subseteq Nat
  BY <1>1
<1>3. \E i \in Open(b, d) : \A j \in Open(b, d) : i <= j
  BY <1>2, LeastExists
<1> QED BY <1>1, <1>3

LEMMA SettleTyped ==
    ASSUME NEW s \in Seq(Payments), NEW i \in DOMAIN s
    PROVE  [s EXCEPT ![i].status = "SETTLED"] \in Seq(Payments)
<1>1. i \in 1..Len(s) /\ s[i] \in Payments
  OBVIOUS
<1>2. [s[i] EXCEPT !.status = "SETTLED"] \in Payments
  BY <1>1 DEF Payments
<1> QED BY <1>1, <1>2, ExceptSeq

LEMMA MatchTyped ==
    ASSUME NEW b \in [Refs -> Seq(Payments)], NEW d
    PROVE  Match(b, d) \in [Refs -> Seq(Payments)]
<1>1. CASE Open(b, d) = {}
  BY <1>1 DEF Match
<1>2. CASE Open(b, d) # {}
  <2>1. PICK first : /\ first = CHOOSE i \in Open(b, d) : \A j \in Open(b, d) : i <= j
                     /\ first \in DOMAIN b[d.ref] /\ d.ref \in Refs
    BY <1>2, FirstIsOpen
  <2>2. b[d.ref] \in Seq(Payments)
    BY <2>1
  <2>3. [b[d.ref] EXCEPT ![first].status = "SETTLED"] \in Seq(Payments)
    BY <2>1, <2>2, SettleTyped
  <2>4. Match(b, d) = [b EXCEPT ![d.ref] = [b[d.ref] EXCEPT ![first].status = "SETTLED"]]
    BY <1>2, <2>1 DEF Match
  <2> QED BY <2>1, <2>3, <2>4
<1> QED BY <1>1, <1>2

-----------------------------------------------------------------------------
(* Every step keeps the types.                                             *)

LEMMA ForwarderTyped ==
    ASSUME Typed, NEW t \in Threads, ForwarderStep(t), UNCHANGED <<nubanVars, bookVars>>
    PROVE  Typed'
<1> USE DEF Typed
<1>0. /\ at \in [Threads -> ThreadPlaces] /\ calls \in 0..MaxCalls /\ MaxCalls \in Nat
      /\ recent \in Seq(Events) /\ Len(recent) <= Kept
      /\ targets \in [TargetIds -> {"absent", "on", "off"}] /\ enabled \in BOOLEAN
      /\ answer \in [Txs -> {"none", "true", "false", "threw"}]
      /\ sends \in [Txs -> [TargetIds -> Nat]]
  BY CallersAssumption DEF TypeOK
<1>1. SUFFICES /\ at' \in [Threads -> ThreadPlaces] /\ calls' \in 0..MaxCalls
               /\ recent' \in Seq(Events) /\ Len(recent') <= Kept
               /\ targets' \in [TargetIds -> {"absent", "on", "off"}] /\ enabled' \in BOOLEAN
               /\ answer' \in [Txs -> {"none", "true", "false", "threw"}]
               /\ sends' \in [Txs -> [TargetIds -> Nat]]
  BY DEF TypeOK, nubanVars, bookVars
<1>2. CASE \E g \in TargetIds : AddTarget(t, g) \/ RemoveTarget(t, g)
  <2>1. PICK g \in TargetIds : AddTarget(t, g) \/ RemoveTarget(t, g)
    BY <1>2
  <2>2. /\ at[t] = Idle /\ calls < MaxCalls /\ calls' = calls + 1
        /\ at' = [at EXCEPT ![t] = Idle]
        /\ UNCHANGED <<enabled, answer, sends, recent>>
    BY <2>1 DEF AddTarget, RemoveTarget, CallAtOnce, Begin
  <2>3. PICK s \in {"absent", "on", "off"} : targets' = [targets EXCEPT ![g] = s]
    BY <2>1 DEF AddTarget, RemoveTarget
  <2>4. targets' \in [TargetIds -> {"absent", "on", "off"}]
    BY <1>0, <2>3
  <2> QED BY <1>0, <2>2, <2>4, IdleIsPlace
<1>3. CASE \E b \in BOOLEAN : SetEnabled(t, b)
  BY <1>0, <1>3, IdleIsPlace DEF SetEnabled, CallAtOnce, Begin
<1>4. CASE \E x \in Txs : ForwardNothing(t, x)
  BY <1>0, <1>4, IdleIsPlace DEF ForwardNothing, CallAtOnce, Begin
<1>5. CASE \E x \in Txs, d \in Documents : ForwardBegin(t, x, d)
  <2>1. PICK x \in Txs, d \in Documents : ForwardBegin(t, x, d)
    BY <1>5
  <2>2. PICK p \in ForwardPlaces : Begin(t, p)
    BY <2>1 DEF ForwardBegin, ForwardPlaces, SanitizedTexts
  <2>3. calls < MaxCalls /\ calls' = calls + 1 /\ at' = [at EXCEPT ![t] = p]
    BY <2>2 DEF Begin
  <2>4. at' \in [Threads -> ThreadPlaces]
    BY <1>0, <2>3 DEF ThreadPlaces
  <2>5. UNCHANGED <<enabled, targets, answer, sends, recent>>
    BY <2>1 DEF ForwardBegin, forwarderVars
  <2> QED BY <1>0, <2>3, <2>4, <2>5
<1>6. CASE Reject(t)
  <2>1. at[t] \in ForwardPlaces
    BY <1>0, <1>6, PlaceKinds DEF Reject, Forwards
  <2>2. at[t].tx \in Txs
    BY <2>1 DEF ForwardPlaces
  <2>3. Rejected(at[t].tx) \in Events
    BY <2>2 DEF Rejected, Events
  <2>4. recent' \in Seq(Events) /\ Len(recent') <= Kept
    BY <1>0, <1>6, <2>3, LogTyped DEF Reject
  <2> QED BY <1>0, <1>6, <2>2, <2>4, IdleIsPlace DEF Reject, GoOn
<1>7. CASE Throw(t)
  <2>1. at[t] \in ForwardPlaces
    BY <1>0, <1>7, PlaceKinds DEF Throw, Forwards
  <2>2. at[t].tx \in Txs
    BY <2>1 DEF ForwardPlaces
  <2> QED BY <1>0, <1>7, <2>2, IdleIsPlace DEF Throw, GoOn
<1>8. CASE \E g \in TargetIds : Dispatch(t, g)
  <2>1. PICK g \in TargetIds : Dispatch(t, g)
    BY <1>8
  <2>2. at[t] \in ForwardPlaces
    BY <1>0, <2>1, PlaceKinds DEF Dispatch, Forwards
  <2>3. at[t].tx \in Txs
    BY <2>2 DEF ForwardPlaces
  <2>4. PICK p \in ForwardPlaces : GoOn(t, p)
    <3>1. [at[t] EXCEPT !.todo = @ \ {g}] \in ForwardPlaces
      BY <2>2 DEF ForwardPlaces
    <3>2. PICK q \in ForwardPlaces : q = [at[t] EXCEPT !.todo = @ \ {g}]
      BY <3>1
    <3>3. [q EXCEPT !.count = @ + 1] \in ForwardPlaces
      BY DEF ForwardPlaces
    <3> QED BY <2>1, <3>2, <3>3 DEF Dispatch
  <2>5. at' \in [Threads -> ThreadPlaces] /\ calls' \in 0..MaxCalls
    BY <1>0, <2>4 DEF GoOn, ThreadPlaces
  <2>6. CASE targets[g] = "on"
    <3>1. Sent(at[t].tx, g) \in Events
      BY <2>3 DEF Sent, Events
    <3>2. LogEvent(Sent(at[t].tx, g))
      BY <2>1, <2>6 DEF Dispatch
    <3>3. recent' \in Seq(Events) /\ Len(recent') <= Kept
      BY <1>0, <3>1, <3>2, LogTyped
    <3>4. sends' \in [Txs -> [TargetIds -> Nat]]
      <4>1. sends' = [sends EXCEPT ![at[t].tx][g] = sends[at[t].tx][g] + 1]
        BY <2>1, <2>6 DEF Dispatch
      <4>2. sends[at[t].tx] \in [TargetIds -> Nat]
        BY <1>0, <2>3
      <4>3. [sends[at[t].tx] EXCEPT ![g] = sends[at[t].tx][g] + 1] \in [TargetIds -> Nat]
        BY <4>2
      <4> QED BY <1>0, <2>3, <4>1, <4>3
    <3> QED BY <1>0, <2>1, <2>5, <3>3, <3>4 DEF Dispatch
  <2>7. CASE targets[g] # "on"
    BY <1>0, <2>1, <2>5, <2>7 DEF Dispatch
  <2> QED BY <2>6, <2>7
<1>9. CASE ForwardEnd(t)
  <2>1. at[t] \in ForwardPlaces
    BY <1>0, <1>9, PlaceKinds DEF ForwardEnd, Forwards
  <2>2. at[t].tx \in Txs
    BY <2>1 DEF ForwardPlaces
  <2> QED BY <1>0, <1>9, <2>2, IdleIsPlace DEF ForwardEnd, GoOn
<1> QED BY <1>2, <1>3, <1>4, <1>5, <1>6, <1>7, <1>8, <1>9 DEF ForwarderStep

LEMMA NubanTyped ==
    ASSUME Typed, NEW t \in Threads, NubanStep(t), UNCHANGED <<forwarderVars, bookVars>>
    PROVE  Typed'
<1> USE DEF Typed
<1>0. /\ at \in [Threads -> ThreadPlaces] /\ calls \in 0..MaxCalls /\ MaxCalls \in Nat
      /\ recent \in Seq(Events) /\ Len(recent) <= Kept
      /\ account \in [Students -> Accounts \cup {NoAccount}]
      /\ given \in [Students -> SUBSET Accounts]
  BY CallersAssumption DEF TypeOK
<1>1. SUFFICES /\ at' \in [Threads -> ThreadPlaces] /\ calls' \in 0..MaxCalls
               /\ recent' \in Seq(Events) /\ Len(recent') <= Kept
               /\ account' \in [Students -> Accounts \cup {NoAccount}]
               /\ given' \in [Students -> SUBSET Accounts]
  BY DEF TypeOK, forwarderVars, bookVars
<1>2. CASE \E s \in Students : FindAccount(t, s)
  BY <1>0, <1>2, IdleIsPlace DEF FindAccount, CallAtOnce, Begin, nubanVars
<1>3. CASE \E s \in Students : MakeAccount(t, s)
  <2>1. PICK s \in Students, a \in Accounts :
            Begin(t, [op |-> "cache", student |-> s, number |-> a])
    BY <1>3 DEF MakeAccount
  <2>2. [op |-> "cache", student |-> s, number |-> a] \in ThreadPlaces
    BY DEF ThreadPlaces, NubanPlaces
  <2> QED BY <1>0, <1>3, <2>1, <2>2 DEF MakeAccount, Begin, nubanVars
<1>4. CASE CacheAccount(t)
  <2>1. at[t] \in NubanPlaces
    BY <1>0, <1>4, PlaceKinds DEF CacheAccount
  <2>2. at[t].student \in Students /\ at[t].number \in Accounts
    BY <2>1 DEF NubanPlaces
  <2>3. [op |-> "report", student |-> at[t].student, number |-> at[t].number]
            \in ThreadPlaces
    BY <2>2 DEF ThreadPlaces, NubanPlaces
  <2> QED BY <1>0, <1>4, <2>2, <2>3 DEF CacheAccount, GoOn
<1>5. CASE ReportAccount(t)
  <2>1. at[t] \in NubanPlaces
    BY <1>0, <1>5, PlaceKinds DEF ReportAccount
  <2>2. at[t].student \in Students /\ at[t].number \in Accounts
    BY <2>1 DEF NubanPlaces
  <2>3. Provisioned(at[t].student, at[t].number) \in Events
    BY <2>2 DEF Provisioned, Events
  <2>4. recent' \in Seq(Events) /\ Len(recent') <= Kept
    BY <1>0, <1>5, <2>3, LogTyped DEF ReportAccount
  <2> QED BY <1>0, <1>5, <2>4, IdleIsPlace DEF ReportAccount, GoOn, nubanVars
<1> QED BY <1>2, <1>3, <1>4, <1>5 DEF NubanStep

LEMMA BookTyped ==
    ASSUME Typed, NEW t \in Threads, BookStep(t),
           UNCHANGED <<recent, forwarderVars, nubanVars>>
    PROVE  Typed'
<1> USE DEF Typed
<1>0. /\ at \in [Threads -> ThreadPlaces] /\ calls \in 0..MaxCalls /\ MaxCalls \in Nat
      /\ book \in [Refs -> Seq(Payments)] /\ cycles \in Nat /\ matched \in Nat
  BY CallersAssumption DEF TypeOK
<1>1. SUFFICES /\ at' \in [Threads -> ThreadPlaces] /\ calls' \in 0..MaxCalls
               /\ book' \in [Refs -> Seq(Payments)] /\ cycles' \in Nat /\ matched' \in Nat
  BY DEF TypeOK, forwarderVars, nubanVars
<1>2. ASSUME NEW r \in Refs, NEW i \in DOMAIN Deposits,
             Register(t, r, Deposits[i].amount)
      PROVE  /\ at' \in [Threads -> ThreadPlaces] /\ calls' \in 0..MaxCalls
             /\ book' \in [Refs -> Seq(Payments)] /\ cycles' \in Nat /\ matched' \in Nat
  <2>1. [amount |-> Deposits[i].amount, status |-> "PENDING"] \in Payments
    BY DEF Payments
  <2>2. Append(book[r], [amount |-> Deposits[i].amount, status |-> "PENDING"])
            \in Seq(Payments)
    BY <1>0, <2>1
  <2> QED BY <1>0, <1>2, <2>2, IdleIsPlace DEF Register, CallAtOnce, Begin
<1>3. CASE Cycle(t)
  <2> DEFINE b1 == Match(book, Deposits[1])
             b2 == Match(b1, Deposits[2])
             b3 == Match(b2, Deposits[3])
             seen == <<book, b1, b2>>
             hits == {i \in 1..3 : Open(seen[i], Deposits[i]) # {}}
  <2>1. /\ book' = b3 /\ matched' = matched + Cardinality(hits) /\ cycles' = cycles + 1
    BY <1>3 DEF Cycle
  <2>2. Cardinality(hits) \in Nat
    <3>1. IsFiniteSet(1..3)
      BY ThreeFinite
    <3>2. hits \in SUBSET (1..3)
      OBVIOUS
    <3> HIDE DEF hits
    <3>3. IsFiniteSet(hits)
      BY <3>1, <3>2, FS_Subset
    <3> QED BY <3>3, FS_CardinalityType
  <2>3. b3 \in [Refs -> Seq(Payments)]
    <3>1. b1 \in [Refs -> Seq(Payments)]
      BY <1>0, MatchTyped
    <3>2. b2 \in [Refs -> Seq(Payments)]
      BY <3>1, MatchTyped
    <3> QED BY <3>2, MatchTyped
  <2> HIDE DEF b3, hits
  <2>4. at' \in [Threads -> ThreadPlaces] /\ calls' \in 0..MaxCalls
    BY <1>0, <1>3, IdleIsPlace DEF Cycle, CallAtOnce, Begin
  <2> QED BY <1>0, <2>1, <2>2, <2>3, <2>4
<1>4. CASE ClearLedger(t)
  BY <1>0, <1>4, IdleIsPlace DEF ClearLedger, CallAtOnce, Begin
<1> QED BY <1>2, <1>3, <1>4 DEF BookStep

LEMMA NextTyped == Typed /\ [Next]_vars => Typed'
<1> SUFFICES ASSUME Typed, [Next]_vars PROVE Typed'
  OBVIOUS
<1>1. CASE UNCHANGED vars
  BY <1>1 DEF Typed, TypeOK, vars, callVars, forwarderVars, nubanVars, bookVars
<1>2. CASE Next
  BY <1>2, ForwarderTyped, NubanTyped, BookTyped DEF Next
<1> QED BY <1>1, <1>2

LEMMA InitTyped == Init => Typed
BY CallersAssumption, LedgerAssumption, IdleIsPlace
   DEF Init, CallersInit, LedgerInit, ForwarderInit, NubanInit, BookInit, Typed, TypeOK

\* Every variable keeps its type and the ledger keeps to its bound, for any number
\* of threads, targets, transactions, students and references.
THEOREM ServicesTyped == Spec => []TypeOK
<1>1. Spec => []Typed
  BY InitTyped, NextTyped, PTL DEF Spec
<1>2. Typed => TypeOK
  BY DEF Typed
<1> QED BY <1>1, <1>2, PTL

-----------------------------------------------------------------------------
(* The forwarder.                                                          *)

\* One thread at most is inside forward.
Alone ==
    \A t, u \in Threads : Forwards(at[t]) /\ Forwards(at[u]) => t = u

\* What a place inside forward tells of its transaction.
Whereabouts ==
    \A t \in Threads : Forwards(at[t]) =>
        /\ enabled /\ answer[at[t].tx] = "none"
        /\ at[t].op # "send" => \A g \in TargetIds : sends[at[t].tx][g] = 0
        /\ at[t].op = "send" =>
              /\ \A g \in at[t].todo : sends[at[t].tx][g] = 0
              /\ at[t].count > 0 <=> \E g \in TargetIds : sends[at[t].tx][g] > 0

\* A transaction that nobody forwards and that has no answer was not sent.
Untouched ==
    \A x \in Txs :
        answer[x] = "none" /\ (\A t \in Threads : Forwards(at[t]) => at[t].tx # x)
            => \A g \in TargetIds : sends[x][g] = 0

FInv == Alone /\ Whereabouts /\ Untouched /\ AnswerTells

\* A step of a thread that is outside of forward and stays there.
LEMMA QuietStep ==
    ASSUME Typed, FInv, NEW t \in Threads, NEW p, ~Forwards(at[t]), ~Forwards(p),
           at' = [at EXCEPT ![t] = p],
           UNCHANGED <<enabled, answer, sends>>
    PROVE  FInv'
<1>1. /\ at'[t] = p /\ ~Forwards(at'[t])
      /\ \A u \in Threads : u # t => at'[u] = at[u]
  BY DEF Typed
<1>2. \A u \in Threads : Forwards(at'[u]) => at'[u] = at[u] /\ Forwards(at[u])
  BY <1>1
<1>3. \A u \in Threads : Forwards(at[u]) => at'[u] = at[u]
  BY <1>1
<1>4. Alone'
  BY <1>2 DEF FInv, Alone
<1>5. Whereabouts'
  BY <1>2 DEF FInv, Whereabouts
<1>6. Untouched'
  BY <1>3 DEF FInv, Untouched
<1>7. AnswerTells'
  BY DEF FInv, AnswerTells
<1> QED BY <1>4, <1>5, <1>6, <1>7 DEF FInv

\* What is known of a thread inside forward.
LEMMA InsideFacts ==
    ASSUME Typed, FInv, NEW t \in Threads, Forwards(at[t])
    PROVE  /\ at[t] \in ForwardPlaces /\ at[t].tx \in Txs
           /\ at[t].todo \subseteq TargetIds /\ at[t].count \in Nat
           /\ \A u \in Threads : u # t => ~Forwards(at[u])
<1>1. at[t] \in ForwardPlaces
  BY PlaceKinds DEF Typed
<1>2. at[t].tx \in Txs /\ at[t].todo \subseteq TargetIds /\ at[t].count \in Nat
  BY <1>1 DEF ForwardPlaces
<1>3. \A u \in Threads : u # t => ~Forwards(at[u])
  BY DEF FInv, Alone
<1> QED BY <1>1, <1>2, <1>3

\* forward ends with an answer that tells.
LEMMA EndStep ==
    ASSUME Typed, FInv, NEW t \in Threads, Forwards(at[t]), NEW v,
           v # "none",
           v = "true" <=> \E g \in TargetIds : sends[at[t].tx][g] > 0,
           answer' = [answer EXCEPT ![at[t].tx] = v],
           at' = [at EXCEPT ![t] = Idle],
           UNCHANGED <<enabled, sends>>
    PROVE  FInv'
<1>1. PICK x \in Txs : x = at[t].tx
  BY InsideFacts
<1>2. \A u \in Threads : ~Forwards(at'[u])
  BY InsideFacts, IdleIsPlace DEF Typed
<1>3. answer \in [Txs -> {"none", "true", "false", "threw"}]
  BY DEF Typed, TypeOK
<1>4. \A y \in Txs : answer'[y] = IF y = x THEN v ELSE answer[y]
  BY <1>1, <1>3
<1>5. Alone' /\ Whereabouts'
  BY <1>2 DEF Alone, Whereabouts
<1>6. Untouched'
  <2> SUFFICES ASSUME NEW y \in Txs, answer'[y] = "none", NEW g \in TargetIds
               PROVE  sends'[y][g] = 0
    BY DEF Untouched
  <2>1. y # x /\ answer[y] = "none"
    BY <1>4
  <2>2. \A u \in Threads : Forwards(at[u]) => at[u].tx # y
    BY <2>1, <1>1, InsideFacts
  <2> QED BY <2>1, <2>2 DEF FInv, Untouched
<1>7. AnswerTells'
  BY <1>1, <1>4 DEF FInv, AnswerTells
<1> QED BY <1>5, <1>6, <1>7 DEF FInv

LEMMA NoneInside ==
    ASSUME Typed, FInv, MutexFree
    PROVE  /\ \A t \in Threads : ~Forwards(at[t])
           /\ \A x \in Txs : answer[x] = "none" => \A g \in TargetIds : sends[x][g] = 0
<1>1. \A t \in Threads : ~Forwards(at[t])
  BY DEF MutexFree, Forwards
<1> QED BY <1>1 DEF FInv, Untouched

LEMMA BeginStep ==
    ASSUME Typed, FInv, NEW t \in Threads, NEW x \in Txs, NEW d \in Documents,
           ForwardBegin(t, x, d)
    PROVE  FInv'
<1>1. PICK p : /\ at' = [at EXCEPT ![t] = p]
               /\ p.op \in {"send", "reject", "throw"} /\ p.tx = x
               /\ p.count = 0 /\ p.todo \subseteq TargetIds
  <2> DEFINE place ==
          [op |-> IF Sanitized[d] = Refused THEN "reject"
                  ELSE IF Sanitized[d] = OutOfRange THEN "throw" ELSE "send",
           tx |-> x, doc |-> d, text |-> Sanitized[d],
           todo |-> {g \in TargetIds : targets[g] # "absent"}, count |-> 0]
  <2>1. at' = [at EXCEPT ![t] = place]
    BY DEF ForwardBegin, Begin
  <2>2. /\ place.op \in {"send", "reject", "throw"} /\ place.tx = x
        /\ place.count = 0 /\ place.todo \subseteq TargetIds
    OBVIOUS
  <2> QED BY <2>1, <2>2
<1>2. /\ UNCHANGED <<enabled, answer, sends>> /\ enabled /\ answer[x] = "none"
      /\ MutexFree
  BY DEF ForwardBegin, forwarderVars
<1>3. \A u \in Threads : ~Forwards(at[u])
  BY <1>2, NoneInside
<1>4. \A g \in TargetIds : sends[x][g] = 0
  BY <1>2, NoneInside
<1>5. /\ at'[t] = p /\ \A u \in Threads : u # t => ~Forwards(at'[u])
  BY <1>1, <1>3 DEF Typed
<1>6. Alone'
  BY <1>5 DEF Alone
<1>7. Whereabouts'
  BY <1>1, <1>2, <1>4, <1>5 DEF Whereabouts
<1>8. Untouched'
  BY <1>2, <1>3 DEF FInv, Untouched
<1>9. AnswerTells'
  BY <1>2 DEF FInv, AnswerTells
<1> QED BY <1>6, <1>7, <1>8, <1>9 DEF FInv

\* A dispatch goes to a target the transaction has not gone to.
LEMMA DispatchFacts ==
    ASSUME Typed, FInv, NEW t \in Threads, NEW g \in TargetIds, Dispatch(t, g)
    PROVE  /\ Forwards(at[t]) /\ enabled /\ at[t].tx \in Txs
           /\ answer[at[t].tx] = "none" /\ sends[at[t].tx][g] = 0
<1>1. Forwards(at[t]) /\ at[t].op = "send" /\ g \in at[t].todo
  BY DEF Dispatch, Forwards
<1> QED BY <1>1, InsideFacts DEF FInv, Whereabouts

LEMMA DispatchStep ==
    ASSUME Typed, FInv, NEW t \in Threads, NEW g \in TargetIds, Dispatch(t, g)
    PROVE  FInv'
<1>1. /\ Forwards(at[t]) /\ enabled /\ answer[at[t].tx] = "none"
      /\ sends[at[t].tx][g] = 0 /\ at[t].op = "send" /\ g \in at[t].todo
  BY DispatchFacts DEF Dispatch
<1>2. PICK x \in Txs : x = at[t].tx
  BY DispatchFacts
<1>3. /\ at[t] \in ForwardPlaces /\ at[t].count \in Nat /\ at[t].todo \subseteq TargetIds
      /\ \A u \in Threads : u # t => ~Forwards(at[u])
  BY <1>1, InsideFacts
<1>4. sends \in [Txs -> [TargetIds -> Nat]]
  BY DEF Typed, TypeOK
<1>5. UNCHANGED <<enabled, answer>>
  BY DEF Dispatch
<1>6. PICK p, k :
         /\ k \in {0, 1}
         /\ at' = [at EXCEPT ![t] = p]
         /\ p.op = "send" /\ p.tx = x /\ p.todo = at[t].todo \ {g}
         /\ p.count = at[t].count + k
         /\ \A y \in Txs, h \in TargetIds :
               sends'[y][h] = IF y = x /\ h = g THEN k ELSE sends[y][h]
  <2>1. PICK q : /\ q = [at[t] EXCEPT !.todo = @ \ {g}]
                 /\ q.op = "send" /\ q.tx = x /\ q.todo = at[t].todo \ {g}
                 /\ q.count = at[t].count /\ q \in ForwardPlaces
    <3> DEFINE rest == [at[t] EXCEPT !.todo = @ \ {g}]
    <3>1. rest \in ForwardPlaces
      BY <1>3 DEF ForwardPlaces
    <3>2. /\ rest.op = at[t].op /\ rest.tx = at[t].tx /\ rest.count = at[t].count
          /\ rest.todo = at[t].todo \ {g}
      BY <1>3 DEF ForwardPlaces
    <3> HIDE DEF rest
    <3>3. rest.op = "send" /\ rest.tx = x
      BY <1>1, <1>2, <3>2
    <3> QED BY <3>1, <3>2, <3>3 DEF rest
  <2>2. CASE targets[g] = "on"
    <3>1. PICK r : /\ r = [q EXCEPT !.count = @ + 1]
                   /\ r.op = "send" /\ r.tx = x /\ r.todo = at[t].todo \ {g}
                   /\ r.count = at[t].count + 1
      <4> DEFINE more == [q EXCEPT !.count = @ + 1]
      <4>1. /\ more.op = q.op /\ more.tx = q.tx /\ more.todo = q.todo
            /\ more.count = q.count + 1
        BY <2>1 DEF ForwardPlaces
      <4> HIDE DEF more
      <4>2. /\ more.op = "send" /\ more.tx = x /\ more.todo = at[t].todo \ {g}
            /\ more.count = at[t].count + 1
        BY <2>1, <4>1
      <4> QED BY <4>2 DEF more
    <3>2. at' = [at EXCEPT ![t] = r]
      BY <2>1, <2>2, <3>1 DEF Dispatch, GoOn
    <3>3. sends' = [sends EXCEPT ![x][g] = sends[x][g] + 1]
      BY <1>2, <2>2 DEF Dispatch
    <3>4. sends[x][g] + 1 = 1
      BY <1>1, <1>2
    <3>5. \A y \in Txs, h \in TargetIds :
             sends'[y][h] = IF y = x /\ h = g THEN 1 ELSE sends[y][h]
      BY <1>4, <3>3, <3>4
    <3> QED BY <3>1, <3>2, <3>5
  <2>3. CASE targets[g] # "on"
    <3>1. at' = [at EXCEPT ![t] = q] /\ sends' = sends
      BY <2>1, <2>3 DEF Dispatch, GoOn
    <3>2. q.count = at[t].count + 0
      BY <1>3, <2>1
    <3>3. \A y \in Txs, h \in TargetIds :
             sends'[y][h] = IF y = x /\ h = g THEN 0 ELSE sends[y][h]
      BY <1>1, <1>2, <3>1
    <3> QED BY <2>1, <3>1, <3>2, <3>3
  <2> QED BY <2>2, <2>3
<1>7. at'[t] = p /\ \A u \in Threads : u # t => ~Forwards(at'[u])
  BY <1>3, <1>6 DEF Typed
<1>8. Alone'
  BY <1>7 DEF Alone
<1>9. p.count > 0 <=> \E h \in TargetIds : sends'[x][h] > 0
  <2>1. at[t].count > 0 <=> \E h \in TargetIds : sends[x][h] > 0
    BY <1>1, <1>2 DEF FInv, Whereabouts
  <2>2. \A h \in TargetIds : h # g => sends'[x][h] = sends[x][h]
    BY <1>6
  <2>3. sends'[x][g] = k /\ sends[x][g] = 0
    BY <1>1, <1>2, <1>6
  <2> QED BY <1>3, <1>6, <2>1, <2>2, <2>3
<1>10. Whereabouts'
  <2>1. \A h \in p.todo : sends'[x][h] = 0
    BY <1>1, <1>2, <1>3, <1>6 DEF FInv, Whereabouts
  <2> QED BY <1>1, <1>2, <1>5, <1>6, <1>7, <1>9, <2>1 DEF Whereabouts
<1>11. Untouched'
  <2> SUFFICES ASSUME NEW y \in Txs, answer'[y] = "none", NEW h \in TargetIds,
                      \A u \in Threads : Forwards(at'[u]) => at'[u].tx # y
               PROVE  sends'[y][h] = 0
    BY DEF Untouched
  <2>1. Forwards(p)
    BY <1>6 DEF Forwards
  <2>2. y # x
    BY <1>6, <1>7, <2>1
  <2>3. \A u \in Threads : Forwards(at[u]) => at[u].tx # y
    BY <1>2, <1>3, <2>2
  <2>4. sends[y][h] = 0
    BY <1>5, <2>3 DEF FInv, Untouched
  <2> QED BY <1>6, <2>2, <2>4
<1>12. AnswerTells'
  <2> SUFFICES ASSUME NEW y \in Txs, answer'[y] # "none"
               PROVE  answer'[y] = "true" <=> \E h \in TargetIds : sends'[y][h] > 0
    BY DEF AnswerTells
  <2>1. y # x /\ answer'[y] = answer[y]
    BY <1>1, <1>2, <1>5
  <2>2. \A h \in TargetIds : sends'[y][h] = sends[y][h]
    BY <1>6, <2>1
  <2>3. answer[y] = "true" <=> \E h \in TargetIds : sends[y][h] > 0
    BY <2>1 DEF FInv, AnswerTells
  <2>4. (\E h \in TargetIds : sends'[y][h] > 0) <=> \E h \in TargetIds : sends[y][h] > 0
    BY <2>2
  <2> QED BY <2>1, <2>3, <2>4
<1> QED BY <1>8, <1>10, <1>11, <1>12 DEF FInv

LEMMA NothingStep ==
    ASSUME Typed, FInv, NEW t \in Threads, NEW x \in Txs, ForwardNothing(t, x)
    PROVE  FInv'
<1>1. /\ \A u \in Threads : ~Forwards(at[u])
      /\ \A g \in TargetIds : sends[x][g] = 0
      /\ answer[x] = "none"
  BY NoneInside DEF ForwardNothing
<1>2. /\ at' = [at EXCEPT ![t] = Idle]
      /\ answer' = [answer EXCEPT ![x] = "false"]
      /\ UNCHANGED <<enabled, sends>>
  BY DEF ForwardNothing, CallAtOnce, Begin
<1>3. \A u \in Threads : ~Forwards(at'[u])
  BY <1>1, <1>2, IdleIsPlace DEF Typed
<1>4. \A y \in Txs : answer'[y] = IF y = x THEN "false" ELSE answer[y]
  BY <1>2 DEF Typed, TypeOK
<1>5. Alone' /\ Whereabouts'
  BY <1>3 DEF Alone, Whereabouts
<1>6. Untouched'
  BY <1>1, <1>2, <1>4 DEF FInv, Untouched
<1>7. AnswerTells'
  <2> SUFFICES ASSUME NEW y \in Txs, answer'[y] # "none"
               PROVE  answer'[y] = "true" <=> \E g \in TargetIds : sends'[y][g] > 0
    BY DEF AnswerTells
  <2>1. CASE y = x
    BY <1>1, <1>2, <1>4, <2>1
  <2>2. CASE y # x
    BY <1>2, <1>4, <2>2 DEF FInv, AnswerTells
  <2> QED BY <2>1, <2>2
<1> QED BY <1>5, <1>6, <1>7 DEF FInv

LEMMA EnableStep ==
    ASSUME Typed, FInv, NEW t \in Threads, NEW b \in BOOLEAN, SetEnabled(t, b)
    PROVE  FInv'
<1>1. \A u \in Threads : ~Forwards(at[u])
  BY NoneInside DEF SetEnabled
<1>2. at' = [at EXCEPT ![t] = Idle] /\ UNCHANGED <<answer, sends>>
  BY DEF SetEnabled, CallAtOnce, Begin
<1>3. \A u \in Threads : ~Forwards(at'[u])
  BY <1>1, <1>2, IdleIsPlace DEF Typed
<1>4. Alone' /\ Whereabouts'
  BY <1>3 DEF Alone, Whereabouts
<1>5. Untouched' /\ AnswerTells'
  BY <1>1, <1>2 DEF FInv, Untouched, AnswerTells
<1> QED BY <1>4, <1>5 DEF FInv

LEMMA ForwarderKeepsFInv ==
    ASSUME Typed, FInv, NEW t \in Threads, ForwarderStep(t)
    PROVE  FInv'
<1>1. CASE \E g \in TargetIds : AddTarget(t, g) \/ RemoveTarget(t, g)
  <2>1. /\ at[t] = Idle /\ at' = [at EXCEPT ![t] = Idle]
        /\ UNCHANGED <<enabled, answer, sends>>
    BY <1>1 DEF AddTarget, RemoveTarget, CallAtOnce, Begin
  <2> QED BY <2>1, IdleIsPlace, QuietStep
<1>2. CASE \E g \in TargetIds : Dispatch(t, g)
  BY <1>2, DispatchStep
<1>3. CASE \E b \in BOOLEAN : SetEnabled(t, b)
  BY <1>3, EnableStep
<1>4. CASE \E x \in Txs : ForwardNothing(t, x)
  BY <1>4, NothingStep
<1>5. CASE \E x \in Txs, d \in Documents : ForwardBegin(t, x, d)
  BY <1>5, BeginStep
<1>6. CASE Reject(t) \/ Throw(t) \/ ForwardEnd(t)
  <2>1. Forwards(at[t])
    BY <1>6 DEF Reject, Throw, ForwardEnd, Forwards
  <2>2. PICK v : /\ answer' = [answer EXCEPT ![at[t].tx] = v]
                 /\ v \in {"true", "false", "threw"}
                 /\ v = "true" <=> at[t].op = "send" /\ at[t].count > 0
    BY <1>6 DEF Reject, Throw, ForwardEnd
  <2>3. v = "true" <=> \E g \in TargetIds : sends[at[t].tx][g] > 0
    <3>1. CASE at[t].op = "send"
      BY <2>1, <2>2, <3>1 DEF FInv, Whereabouts
    <3>2. CASE at[t].op # "send"
      BY <2>1, <2>2, <3>2 DEF FInv, Whereabouts
    <3> QED BY <3>1, <3>2
  <2>4. at' = [at EXCEPT ![t] = Idle] /\ UNCHANGED <<enabled, sends>>
    BY <1>6 DEF Reject, Throw, ForwardEnd, GoOn
  <2>5. v # "none"
    BY <2>2
  <2> QED BY <2>1, <2>2, <2>3, <2>4, <2>5, EndStep
<1> QED BY <1>1, <1>2, <1>3, <1>4, <1>5, <1>6 DEF ForwarderStep

LEMMA NextKeepsFInv == Typed /\ FInv /\ [Next]_vars => FInv'
<1> SUFFICES ASSUME Typed, FInv, [Next]_vars PROVE FInv'
  OBVIOUS
<1>1. CASE UNCHANGED vars
  BY <1>1 DEF FInv, Alone, Whereabouts, Untouched, AnswerTells, vars, callVars, forwarderVars
<1>2. CASE Next
  <2>1. PICK t \in Threads :
           \/ ForwarderStep(t)
           \/ NubanStep(t) /\ UNCHANGED forwarderVars
           \/ BookStep(t) /\ UNCHANGED forwarderVars
    BY <1>2 DEF Next
  <2>2. CASE ForwarderStep(t)
    BY <2>2, ForwarderKeepsFInv
  <2>3. CASE NubanStep(t) /\ UNCHANGED forwarderVars
    <3>1. ~Forwards(at[t])
      BY <2>3 DEF NubanStep, FindAccount, MakeAccount, CacheAccount, ReportAccount,
                  CallAtOnce, Begin, Forwards, Idle
    <3>2. PICK p : at' = [at EXCEPT ![t] = p] /\ ~Forwards(p)
      BY <2>3, IdleIsPlace
         DEF NubanStep, FindAccount, MakeAccount, CacheAccount, ReportAccount,
             CallAtOnce, Begin, GoOn, Forwards
    <3> QED BY <2>3, <3>1, <3>2, QuietStep DEF forwarderVars
  <2>4. CASE BookStep(t) /\ UNCHANGED forwarderVars
    <3>1. at[t] = Idle /\ at' = [at EXCEPT ![t] = Idle]
      BY <2>4 DEF BookStep, Register, Cycle, ClearLedger, CallAtOnce, Begin
    <3> QED BY <2>4, <3>1, IdleIsPlace, QuietStep DEF forwarderVars
  <2> QED BY <2>1, <2>2, <2>3, <2>4
<1> QED BY <1>1, <1>2

LEMMA InitFInv == Init => FInv
<1> SUFFICES ASSUME Init PROVE FInv
  OBVIOUS
<1>1. \A t \in Threads : ~Forwards(at[t])
  BY IdleIsPlace DEF Init, CallersInit
<1>2. /\ \A x \in Txs : answer[x] = "none"
      /\ \A x \in Txs, g \in TargetIds : sends[x][g] = 0
  BY DEF Init, ForwarderInit
<1> QED BY <1>1, <1>2 DEF FInv, Alone, Whereabouts, Untouched, AnswerTells

LEMMA ForwarderInv == Spec => [](Typed /\ FInv)
<1>1. Init => Typed /\ FInv
  BY InitTyped, InitFInv
<1>2. Typed /\ FInv /\ [Next]_vars => (Typed /\ FInv)'
  BY NextTyped, NextKeepsFInv
<1> QED BY <1>1, <1>2, PTL DEF Spec

\* forward answers true exactly if the transaction has gone to some target.
\* DownstreamForwarder::forward.
THEOREM ForwardAnswersTruly == Spec => []AnswerTells
<1>1. Typed /\ FInv => AnswerTells
  BY DEF FInv
<1> QED BY <1>1, ForwarderInv, PTL

\* A transaction goes to a target once, and only while forwarding is enabled and
\* the target is on, whoever switches and removes targets meanwhile.
\* dispatch_to_target, set_enabled, remove_target.
THEOREM ForwardsWhileOn == Spec => SentWhileOn
<1> DEFINE WhileOn ==
        \A x \in Txs, g \in TargetIds :
            sends'[x][g] # sends[x][g] =>
                /\ enabled /\ targets[g] = "on"
                /\ sends[x][g] = 0
<1>1. Typed /\ FInv /\ [Next]_vars => [WhileOn]_vars
  <2> SUFFICES ASSUME Typed, FInv, [Next]_vars, NEW x \in Txs, NEW g \in TargetIds,
                      sends'[x][g] # sends[x][g]
               PROVE  enabled /\ targets[g] = "on" /\ sends[x][g] = 0
    OBVIOUS
  <2>1. \E t \in Threads, h \in TargetIds : Dispatch(t, h) /\ targets[h] = "on"
    <3>1. sends' # sends
      OBVIOUS
    <3>2. PICK t \in Threads : ForwarderStep(t)
      BY <3>1 DEF Next, vars, forwarderVars
    <3>3. \E h \in TargetIds : Dispatch(t, h)
      BY <3>1, <3>2 DEF ForwarderStep, AddTarget, RemoveTarget, SetEnabled,
                        ForwardNothing, ForwardBegin, Reject, Throw, ForwardEnd, forwarderVars
    <3>4. ASSUME NEW h \in TargetIds, Dispatch(t, h)
          PROVE  targets[h] = "on"
      BY <3>1, <3>4 DEF Dispatch
    <3> QED BY <3>3, <3>4
  <2>2. PICK t \in Threads, h \in TargetIds : Dispatch(t, h) /\ targets[h] = "on"
    BY <2>1
  <2>3. /\ enabled /\ at[t].tx \in Txs /\ sends[at[t].tx][h] = 0
    BY <2>2, DispatchFacts
  <2>4. sends' = [sends EXCEPT ![at[t].tx][h] = sends[at[t].tx][h] + 1]
    BY <2>2 DEF Dispatch
  <2>5. sends \in [Txs -> [TargetIds -> Nat]]
    BY DEF Typed, TypeOK
  <2>6. x = at[t].tx /\ g = h
    BY <2>3, <2>4, <2>5
  <2> QED BY <2>2, <2>3, <2>6
<1>2. Spec => [][WhileOn]_vars
  BY <1>1, ForwarderInv, PTL DEF Spec
<1> QED BY <1>2 DEF SentWhileOn

-----------------------------------------------------------------------------
(* Induction over places, told of the set of the places it has reached.    *)

LEMMA Downward ==
    ASSUME NEW n \in Nat, NEW T,
           \A i \in 1..n : (\A j \in i + 1..n : j \in T) => i \in T
    PROVE  \A i \in 1..n : i \in T
<1> DEFINE Bad == {k \in 0..n - 1 : n - k \notin T}
<1>1. Bad = {}
  <2> SUFFICES ASSUME Bad # {} PROVE FALSE
    OBVIOUS
  <2>1. PICK k \in Bad : \A j \in Bad : k <= j
    <3>1. Bad \in SUBSET Nat
      OBVIOUS
    <3> HIDE DEF Bad
    <3> QED BY <3>1, LeastExists
  <2>2. n - k \in 1..n /\ k \in Nat
    OBVIOUS
  <2>3. ASSUME NEW j \in n - k + 1..n PROVE j \in T
    <3>1. n - j \in 0..n - 1 /\ ~(k <= n - j) /\ n - (n - j) = j
      BY <2>2
    <3> QED BY <2>1, <3>1
  <2> QED BY <2>1, <2>2, <2>3
<1>2. ASSUME NEW i \in 1..n PROVE i \in T
  <2>1. n - i \in 0..n - 1 /\ n - (n - i) = i
    OBVIOUS
  <2> QED BY <1>1, <2>1
<1> QED BY <1>2

LEMMA Upward ==
    ASSUME NEW n \in Nat, NEW T, 0 \in T,
           \A i \in 0..n - 1 : i \in T => i + 1 \in T
    PROVE  \A i \in 0..n : i \in T
<1> DEFINE Bad == {k \in 0..n : k \notin T}
<1> SUFFICES ASSUME Bad # {} PROVE FALSE
  OBVIOUS
<1>1. PICK k \in Bad : \A j \in Bad : k <= j
  <2>1. Bad \in SUBSET Nat
    OBVIOUS
  <2> HIDE DEF Bad
  <2> QED BY <2>1, LeastExists
<1>2. k # 0
  OBVIOUS
<1>3. k - 1 \in 0..n - 1 /\ k - 1 \in 0..n /\ ~(k <= k - 1) /\ k - 1 + 1 = k
  BY <1>2
<1>4. k - 1 \in T
  BY <1>1, <1>3
<1> QED BY <1>3, <1>4

-----------------------------------------------------------------------------
(* The scan for the end of a quoted value.                                 *)

\* One step of the scan, which goes on by what g says of the later places.
ScanFrom(s, g, i) ==
    IF i > Len(s) THEN i
    ELSE IF s[i] = "backslash" THEN g[i + 2]
    ELSE IF s[i] = "quote" THEN i + 1
    ELSE g[i + 1]

LEMMA ScanExists ==
    ASSUME NEW Alphabet, NEW s \in Seq(Alphabet)
    PROVE  \E g : g = [i \in 1..Len(s) + 2 |-> ScanFrom(s, g, i)]
<1> DEFINE N == Len(s) + 2
           Reached == {a \in 1..N : \E g : g = [i \in a..N |-> ScanFrom(s, g, i)]}
<1>1. N \in Nat /\ Len(s) \in Nat /\ N = Len(s) + 2
  OBVIOUS
<1>2. ASSUME NEW a \in 1..N, \A b \in a + 1..N : b \in Reached
      PROVE  a \in Reached
  <2>1. \E g : g = [i \in a + 1..N |-> ScanFrom(s, g, i)]
    <3>1. CASE a < N
      <4>1. a + 1 \in a + 1..N
        BY <3>1, <1>1
      <4> QED BY <1>2, <4>1
    <3>2. CASE a >= N
      <4>1. a + 1..N = {}
        BY <3>2, <1>1
      <4>2. [i \in a + 1..N |-> i] = [i \in a + 1..N |-> ScanFrom(s, [m \in a + 1..N |-> m], i)]
        BY <4>1
      <4> QED BY <4>2
    <3> QED BY <3>1, <3>2, <1>1
  <2>2. PICK g : g = [i \in a + 1..N |-> ScanFrom(s, g, i)]
    BY <2>1
  <2> DEFINE h == [i \in a..N |-> IF i = a THEN ScanFrom(s, g, a) ELSE g[i]]
  <2> HIDE DEF N
  <2>3. ASSUME NEW i \in a..N
        PROVE  h[i] = ScanFrom(s, h, i)
    <3>0. i \in Nat /\ a \in Nat /\ a <= i /\ i <= N
      BY <1>1
    <3>1. \A j \in a + 1..N : h[j] = g[j]
      <4>1. \A j \in a + 1..N : j \in a..N /\ j # a
        BY <1>1
      <4> QED BY <4>1
    <3>2. i <= Len(s) => i + 1 \in a + 1..N /\ i + 2 \in a + 1..N
      BY <1>1, <3>0
    <3>3. ScanFrom(s, h, i) = ScanFrom(s, g, i)
      <4> HIDE DEF h
      <4> QED BY <3>0, <3>1, <3>2, <1>1 DEF ScanFrom
    <3>4. i # a => h[i] = ScanFrom(s, g, i)
      <4>1. i # a => i \in a + 1..N
        BY <3>0, <1>1
      <4>2. i # a => g[i] = ScanFrom(s, g, i)
        BY <2>2, <4>1
      <4> QED BY <4>2
    <3> QED BY <3>3, <3>4
  <2>4. h = [i \in a..N |-> h[i]]
    OBVIOUS
  <2> HIDE DEF h
  <2>5. h = [i \in a..N |-> ScanFrom(s, h, i)]
    BY <2>3, <2>4
  <2> QED BY <2>5
<1> HIDE DEF N
<1>3. \A a \in 1..N : a \in Reached
  <2> HIDE DEF Reached
  <2> QED BY <1>1, <1>2, Downward
<1>4. 1 \in 1..N
  BY <1>1
<1> QED BY <1>3, <1>4 DEF N

\* ClosedAt is that scan.
LEMMA ClosedAtScans ==
    ASSUME NEW Alphabet, NEW s \in Seq(Alphabet)
    PROVE  \A i \in 1..Len(s) + 2 : ClosedAt(s)[i] = ScanFrom(s, ClosedAt(s), i)
<1>1. ClosedAt(s) = CHOOSE g : g = [i \in 1..Len(s) + 2 |-> ScanFrom(s, g, i)]
  BY DEF ClosedAt, ScanFrom
<1>2. ClosedAt(s) = [i \in 1..Len(s) + 2 |-> ScanFrom(s, ClosedAt(s), i)]
  BY <1>1, ScanExists
<1> QED BY <1>2

\* What the scan has to find from i on.
EndsAt(s, i, e) ==
    IF \E j \in i..Len(s) : Closes(s, i, j)
      THEN /\ e - 1 \in i..Len(s) /\ Closes(s, i, e - 1)
           /\ \A j \in i..e - 2 : ~Closes(s, i, j)
      ELSE e > Len(s) /\ (i <= Len(s) => e = Len(s) + 1 \/ s[Len(s)] = "backslash")

\* Past an escaped character, and past any other, the quotes that close are the
\* same.
LEMMA ClosesPastEscape ==
    ASSUME NEW Alphabet, NEW s \in Seq(Alphabet), NEW i \in 1..Len(s), s[i] = "backslash"
    PROVE  /\ ~Closes(s, i, i) /\ ~Closes(s, i, i + 1)
           /\ \A j \in i + 2..Len(s) : Closes(s, i, j) <=> Closes(s, i + 2, j)
<1>1. ~Closes(s, i, i)
  BY DEF Closes
<1>2. ~Closes(s, i, i + 1)
  <2> SUFFICES ASSUME NEW k \in i..i + 1, (i + 1 - k) % 2 = 0,
                      k = i \/ s[k - 1] # "backslash"
               PROVE  FALSE
    BY DEF Closes
  <2>1. k = i \/ k = i + 1
    OBVIOUS
  <2>2. i + 1 - i = 1 /\ 1 % 2 = 1 /\ i + 1 - 1 = i
    OBVIOUS
  <2> QED BY <2>1, <2>2
<1>3. ASSUME NEW j \in i + 2..Len(s), Closes(s, i, j) PROVE Closes(s, i + 2, j)
  <2>1. PICK k \in i..j : /\ (j - k) % 2 = 0
                          /\ \A m \in k..j - 1 : s[m] = "backslash"
                          /\ k = i \/ s[k - 1] # "backslash"
    BY <1>3 DEF Closes
  <2>2. CASE k = i
    <3>1. i + 2 \in i + 2..j /\ (j - (i + 2)) % 2 = 0
      BY <2>1, <2>2
    <3>2. \A m \in i + 2..j - 1 : s[m] = "backslash"
      BY <2>1, <2>2
    <3> QED BY <1>3, <3>1, <3>2 DEF Closes
  <2>3. CASE k # i
    <3>1. k - 1 # i
      BY <2>1, <2>3
    <3>2. k \in i + 2..j
      BY <2>3, <3>1
    <3> QED BY <1>3, <2>1, <2>3, <3>2 DEF Closes
  <2> QED BY <2>2, <2>3
<1>4. ASSUME NEW j \in i + 2..Len(s), Closes(s, i + 2, j) PROVE Closes(s, i, j)
  <2>1. PICK k \in i + 2..j : /\ (j - k) % 2 = 0
                              /\ \A m \in k..j - 1 : s[m] = "backslash"
                              /\ k = i + 2 \/ s[k - 1] # "backslash"
    BY <1>4 DEF Closes
  <2>2. k \in i..j
    OBVIOUS
  <2>3. CASE s[k - 1] # "backslash"
    BY <1>4, <2>1, <2>2, <2>3 DEF Closes
  <2>4. CASE s[k - 1] = "backslash"
    <3>1. k = i + 2 /\ k - 1 = i + 1
      BY <2>1, <2>4
    <3>2. (j - i) % 2 = 0 /\ i \in i..j
      BY <2>1, <3>1
    <3>3. \A m \in i..j - 1 : m = i \/ m = i + 1 \/ m \in k..j - 1
      BY <3>1
    <3>4. \A m \in i..j - 1 : s[m] = "backslash"
      BY <2>1, <2>4, <3>1, <3>3
    <3> QED BY <1>4, <3>2, <3>4 DEF Closes
  <2> QED BY <2>3, <2>4
<1> QED BY <1>1, <1>2, <1>3, <1>4

LEMMA ClosesPastOther ==
    ASSUME NEW Alphabet, NEW s \in Seq(Alphabet), NEW i \in 1..Len(s),
           s[i] # "backslash", s[i] # "quote"
    PROVE  /\ ~Closes(s, i, i)
           /\ \A j \in i + 1..Len(s) : Closes(s, i, j) <=> Closes(s, i + 1, j)
<1>1. ~Closes(s, i, i)
  BY DEF Closes
<1>2. ASSUME NEW j \in i + 1..Len(s), Closes(s, i, j) PROVE Closes(s, i + 1, j)
  <2>1. PICK k \in i..j : /\ (j - k) % 2 = 0
                          /\ \A m \in k..j - 1 : s[m] = "backslash"
                          /\ k = i \/ s[k - 1] # "backslash"
    BY <1>2 DEF Closes
  <2>2. k # i
    <3>1. i \in i..j - 1
      OBVIOUS
    <3> QED BY <2>1, <3>1
  <2>3. k \in i + 1..j
    BY <2>2
  <2> QED BY <1>2, <2>1, <2>2, <2>3 DEF Closes
<1>3. ASSUME NEW j \in i + 1..Len(s), Closes(s, i + 1, j) PROVE Closes(s, i, j)
  <2>1. PICK k \in i + 1..j : /\ (j - k) % 2 = 0
                              /\ \A m \in k..j - 1 : s[m] = "backslash"
                              /\ k = i + 1 \/ s[k - 1] # "backslash"
    BY <1>3 DEF Closes
  <2>2. k \in i..j /\ (k = i + 1 => k - 1 = i)
    OBVIOUS
  <2> QED BY <1>3, <2>1, <2>2 DEF Closes
<1> QED BY <1>1, <1>2, <1>3

\* From one place to a later one the end is the same, if no quote between closes.
LEMMA EndsAtLater ==
    ASSUME NEW Alphabet, NEW s \in Seq(Alphabet), NEW i \in 1..Len(s), NEW b \in {1, 2}, NEW e \in Nat,
           \A j \in i..i + b - 1 : ~Closes(s, i, j),
           \A j \in i + b..Len(s) : Closes(s, i, j) <=> Closes(s, i + b, j),
           i + b > Len(s) => e = Len(s) + 1 \/ s[Len(s)] = "backslash",
           EndsAt(s, i + b, e)
    PROVE  EndsAt(s, i, e)
<1>0. i + b \in Nat /\ i < i + b /\ Len(s) \in Nat /\ i \in Nat
  OBVIOUS
<1>1. \A j \in Nat : i <= j => j <= i + b - 1 \/ i + b <= j
  OBVIOUS
<1>2. CASE \E j \in i + b..Len(s) : Closes(s, i + b, j)
  <2>1. PICK j \in i + b..Len(s) : Closes(s, i + b, j)
    BY <1>2
  <2>2. j \in i..Len(s) /\ Closes(s, i, j)
    BY <2>1, <1>0
  <2>3. /\ e - 1 \in i + b..Len(s) /\ Closes(s, i + b, e - 1)
        /\ \A m \in i + b..e - 2 : ~Closes(s, i + b, m)
    BY <1>2 DEF EndsAt
  <2>4. e - 1 \in i..Len(s) /\ Closes(s, i, e - 1)
    BY <2>3, <1>0
  <2>5. ASSUME NEW m \in i..e - 2 PROVE ~Closes(s, i, m)
    <3>1. m \in i..i + b - 1 \/ m \in i + b..e - 2
      BY <1>0
    <3>2. m \in i + b..e - 2 => m \in i + b..Len(s)
      BY <2>3, <1>0
    <3> QED BY <2>3, <3>1, <3>2
  <2> QED BY <2>2, <2>4, <2>5 DEF EndsAt
<1>3. CASE \A j \in i + b..Len(s) : ~Closes(s, i + b, j)
  <2>1. ASSUME NEW j \in i..Len(s) PROVE ~Closes(s, i, j)
    <3>1. j \in i..i + b - 1 \/ j \in i + b..Len(s)
      BY <1>0
    <3> QED BY <1>3, <3>1
  <2>2. e > Len(s) /\ (i + b <= Len(s) => e = Len(s) + 1 \/ s[Len(s)] = "backslash")
    BY <1>3 DEF EndsAt
  <2>3. e = Len(s) + 1 \/ s[Len(s)] = "backslash"
    BY <2>2, <1>0
  <2> QED BY <2>1, <2>2, <2>3 DEF EndsAt
<1> QED BY <1>2, <1>3

\* redact_field_value skips two characters at a backslash and stops behind a
\* quote: that finds exactly the first quote that no backslash escapes, in every
\* text and from every place; without one it stops behind the text.
THEOREM ScanFindsClosingQuote ==
    ASSUME NEW Alphabet, NEW s \in Seq(Alphabet), NEW i \in 1..Len(s) + 2
    PROVE  /\ EndsAt(s, i, ClosedAt(s)[i])
           /\ ClosedAt(s)[i] \in i..Len(s) + 2
           /\ i <= Len(s) => ClosedAt(s)[i] > i
<1> DEFINE N == Len(s) + 2
           c(j) == ClosedAt(s)[j]
           Right(j) == /\ EndsAt(s, j, c(j)) /\ c(j) \in j..N
                       /\ j <= Len(s) => c(j) > j
           Reached == {j \in 1..N : Right(j)}
<1>0. N \in Nat /\ Len(s) \in Nat /\ N = Len(s) + 2
  OBVIOUS
<1>1. ASSUME NEW j \in 1..N, \A m \in j + 1..N : Right(m)
      PROVE  Right(j)
  <2>1. c(j) = ScanFrom(s, ClosedAt(s), j)
    BY ClosedAtScans
  <2> HIDE DEF c, N
  <2>2. CASE j > Len(s)
    <3>1. c(j) = j
      BY <2>1, <2>2 DEF ScanFrom
    <3>2. \A m \in j..Len(s) : FALSE
      BY <2>2, <1>0
    <3> QED BY <2>2, <3>1, <3>2, <1>0 DEF EndsAt
  <2>3. CASE j <= Len(s) /\ s[j] = "backslash"
    <3>1. c(j) = c(j + 2)
      BY <2>1, <2>3, <1>0 DEF ScanFrom, c
    <3>2. Right(j + 2) /\ j \in 1..Len(s) /\ j + 2 \in j + 1..N
      BY <1>1, <2>3, <1>0
    <3>3. j + 2 > Len(s) => s[Len(s)] = "backslash" \/ c(j) = Len(s) + 1
      <4>1. ASSUME j + 2 > Len(s), j # Len(s) PROVE c(j + 2) = Len(s) + 1
        <5>1. j + 2 = Len(s) + 1 /\ j + 2 > Len(s) /\ j + 2 \in 1..Len(s) + 2
          BY <4>1, <3>2, <1>0
        <5>2. c(j + 2) = ScanFrom(s, ClosedAt(s), j + 2)
          BY <5>1, ClosedAtScans DEF c
        <5> QED BY <5>1, <5>2 DEF ScanFrom
      <4> QED BY <2>3, <3>1, <4>1
    <3>4. /\ \A m \in j..j + 2 - 1 : ~Closes(s, j, m)
          /\ \A m \in j + 2..Len(s) : Closes(s, j, m) <=> Closes(s, j + 2, m)
      <4>1. \A m \in j..j + 2 - 1 : m = j \/ m = j + 1
        BY <1>0
      <4> QED BY <2>3, <3>2, <4>1, ClosesPastEscape
    <3>5. c(j + 2) \in Nat /\ c(j + 2) >= j + 2 /\ c(j + 2) <= N
      BY <3>2, <1>0
    <3>6. EndsAt(s, j, c(j))
      BY <3>1, <3>2, <3>3, <3>4, <3>5, EndsAtLater
    <3> QED BY <3>1, <3>5, <3>6, <1>0
  <2>4. CASE j <= Len(s) /\ s[j] = "quote"
    <3>1. c(j) = j + 1
      BY <2>1, <2>4, <1>0 DEF ScanFrom
    <3>2. Closes(s, j, j)
      <4>1. j \in j..j /\ (j - j) % 2 = 0 /\ \A m \in j..j - 1 : FALSE
        BY <1>0
      <4> QED BY <2>4, <4>1 DEF Closes
    <3>3. j \in j..Len(s) /\ j + 1 - 1 = j /\ \A m \in j..j + 1 - 2 : FALSE
      BY <2>4, <1>0
    <3>4. EndsAt(s, j, c(j))
      BY <3>1, <3>2, <3>3 DEF EndsAt
    <3> QED BY <2>4, <3>1, <3>4, <1>0
  <2>5. CASE j <= Len(s) /\ s[j] # "backslash" /\ s[j] # "quote"
    <3>1. c(j) = c(j + 1)
      BY <2>1, <2>5, <1>0 DEF ScanFrom, c
    <3>2. Right(j + 1) /\ j \in 1..Len(s) /\ j + 1 \in j + 1..N
      BY <1>1, <2>5, <1>0
    <3>3. j + 1 > Len(s) => c(j) = Len(s) + 1
      <4>1. ASSUME j + 1 > Len(s) PROVE c(j + 1) = Len(s) + 1
        <5>1. j + 1 = Len(s) + 1 /\ j + 1 \in 1..Len(s) + 2
          BY <4>1, <3>2, <1>0
        <5>2. c(j + 1) = ScanFrom(s, ClosedAt(s), j + 1)
          BY <5>1, ClosedAtScans DEF c
        <5> QED BY <4>1, <5>1, <5>2 DEF ScanFrom
      <4> QED BY <3>1, <4>1
    <3>4. /\ \A m \in j..j + 1 - 1 : ~Closes(s, j, m)
          /\ \A m \in j + 1..Len(s) : Closes(s, j, m) <=> Closes(s, j + 1, m)
      <4>1. \A m \in j..j + 1 - 1 : m = j
        BY <1>0
      <4> QED BY <2>5, <3>2, <4>1, ClosesPastOther
    <3>5. c(j + 1) \in Nat /\ c(j + 1) >= j + 1 /\ c(j + 1) <= N
      BY <3>2, <1>0
    <3>6. EndsAt(s, j, c(j))
      BY <3>1, <3>2, <3>3, <3>4, <3>5, EndsAtLater
    <3> QED BY <3>1, <3>5, <3>6, <1>0
  <2> QED BY <2>2, <2>3, <2>4, <2>5, <1>0
<1> HIDE DEF N
<1>2. \A j \in 1..N : (\A m \in j + 1..N : m \in Reached) => j \in Reached
  <2> HIDE DEF Right
  <2> QED BY <1>1
<1>3. \A j \in 1..N : j \in Reached
  <2> HIDE DEF Reached
  <2> QED BY <1>0, <1>2, Downward
<1>4. Right(i)
  BY <1>3 DEF N
<1> QED BY <1>4 DEF N

-----------------------------------------------------------------------------
(* Texts. The provers are given the length and the tokens of a text under  *)
(* names of their own, and a text that is two others one after the other,  *)
(* or a part of another, as a relation.                                    *)

LEMMA TokenFacts ==
    /\ Marks \subseteq Tokens /\ Required \subseteq Tokens /\ Words \subseteq Tokens
    /\ "quote" \in Tokens /\ "colon" \in Tokens /\ "comma" \in Tokens
    /\ "lbrace" \in Tokens /\ "rbrace" \in Tokens /\ "space" \in Tokens
    /\ "control" \in Tokens /\ "REDACTED" \in Tokens
BY DEF Tokens, Marks

Texts == Seq(Tokens)
Size(s) == Len(s)
TokenAt(s, k) == s[k]
Joins(u, a, b) == a \in Texts /\ b \in Texts /\ u = a \o b
Cuts(u, s, i, j) ==
    /\ s \in Texts /\ i \in 1..Size(s) + 1 /\ j \in i - 1..Size(s)
    /\ u = SubSeq(s, i, j)

LEMMA JoinFacts ==
    ASSUME NEW u, NEW a, NEW b, Joins(u, a, b)
    PROVE  /\ u \in Texts /\ a \in Texts /\ b \in Texts
           /\ Size(a) \in Nat /\ Size(b) \in Nat /\ Size(u) = Size(a) + Size(b)
           /\ \A k \in 1..Size(a) : TokenAt(u, k) = TokenAt(a, k)
           /\ \A k \in 1..Size(b) : TokenAt(u, Size(a) + k) = TokenAt(b, k)
BY DEF Joins, Texts, Size, TokenAt

LEMMA CutFacts ==
    ASSUME NEW u, NEW s, NEW i, NEW j, Cuts(u, s, i, j)
    PROVE  /\ u \in Texts /\ s \in Texts /\ Size(s) \in Nat /\ Size(u) = j - i + 1
           /\ i \in Nat /\ i >= 1 /\ i <= j + 1 /\ j \in Nat /\ j <= Size(s)
           /\ \A k \in 1..j - i + 1 : TokenAt(u, k) = TokenAt(s, i + k - 1)
BY DEF Cuts, Texts, Size, TokenAt

LEMMA SameText ==
    ASSUME NEW a \in Texts, NEW b \in Texts, Size(a) = Size(b),
           \A k \in 1..Size(a) : TokenAt(a, k) = TokenAt(b, k)
    PROVE  a = b
BY DEF Texts, Size, TokenAt

LEMMA TextFacts ==
    ASSUME NEW s \in Texts
    PROVE  Size(s) \in Nat /\ \A k \in 1..Size(s) : TokenAt(s, k) \in Tokens
BY DEF Texts, Size, TokenAt

LEMMA ShortTexts ==
    ASSUME NEW x \in Tokens
    PROVE  /\ <<x>> \in Texts /\ Size(<<x>>) = 1 /\ TokenAt(<<x>>, 1) = x
           /\ Quoted(x) \in Texts /\ Size(Quoted(x)) = 3
           /\ TokenAt(Quoted(x), 1) = "quote" /\ TokenAt(Quoted(x), 2) = x
           /\ TokenAt(Quoted(x), 3) = "quote"
BY TokenFacts DEF Texts, Quoted, Size, TokenAt

LEMMA JoinAssociates ==
    ASSUME NEW ab, NEW bc, NEW a, NEW b, NEW c, NEW abc,
           Joins(ab, a, b), Joins(bc, b, c)
    PROVE  Joins(abc, ab, c) <=> Joins(abc, a, bc)
<1>1. a \in Texts /\ b \in Texts /\ c \in Texts /\ ab \in Texts /\ bc \in Texts
  BY JoinFacts
<1>2. ASSUME Joins(abc, ab, c) PROVE Joins(abc, a, bc)
  BY <1>1, <1>2, SMTT(30) DEF Joins, Texts
<1>3. ASSUME Joins(abc, a, bc) PROVE Joins(abc, ab, c)
  BY <1>1, <1>3, SMTT(30) DEF Joins, Texts
<1> QED BY <1>2, <1>3

\* A part and the part right behind it.
LEMMA CutsJoin ==
    ASSUME NEW u, NEW v, NEW w, NEW s, NEW i, NEW j, NEW k,
           Cuts(u, s, i, j), Cuts(v, s, j + 1, k), Cuts(w, s, i, k)
    PROVE  Joins(w, u, v)
<1>1. PICK x : Joins(x, u, v)
  BY CutFacts DEF Joins
<1>2. \A m \in 1..Size(x) : TokenAt(x, m) = TokenAt(w, m)
  <2> SUFFICES ASSUME NEW m \in 1..Size(x) PROVE TokenAt(x, m) = TokenAt(w, m)
    OBVIOUS
  <2>0. /\ i \in Nat /\ j \in Nat /\ k \in Nat /\ i <= j + 1 /\ j + 1 <= k + 1 /\ i <= k + 1
        /\ Size(u) = j - i + 1 /\ Size(v) = k - j /\ Size(w) = k - i + 1
        /\ Size(x) = k - i + 1
    BY <1>1, CutFacts, JoinFacts
  <2>1. CASE m <= j - i + 1
    <3>1. m \in 1..Size(u) /\ m \in 1..j - i + 1 /\ m \in 1..k - i + 1
      BY <2>0, <2>1
    <3> QED BY <3>1, <1>1, CutFacts, JoinFacts
  <2>2. CASE m > j - i + 1
    <3>1. PICK n \in Nat : n = m - (j - i + 1)
      BY <2>0, <2>2
    <3>2. /\ n \in 1..Size(v) /\ n \in 1..k - (j + 1) + 1 /\ m \in 1..k - i + 1
          /\ Size(u) + n = m /\ (j + 1) + n - 1 = i + m - 1
      BY <2>0, <2>2, <3>1
    <3>3. TokenAt(x, Size(u) + n) = TokenAt(v, n)
      BY <1>1, <3>2, JoinFacts
    <3>4. TokenAt(v, n) = TokenAt(s, (j + 1) + n - 1)
      BY <3>2, CutFacts
    <3>5. TokenAt(w, m) = TokenAt(s, i + m - 1)
      BY <3>2, CutFacts
    <3> QED BY <3>2, <3>3, <3>4, <3>5
  <2> QED BY <2>0, <2>1, <2>2
<1>3. x \in Texts /\ w \in Texts /\ Size(x) = Size(w)
  <2>1. /\ i \in Nat /\ j \in Nat /\ k \in Nat
        /\ Size(u) = j - i + 1 /\ Size(v) = k - (j + 1) + 1 /\ Size(w) = k - i + 1
        /\ Size(x) = Size(u) + Size(v)
    BY <1>1, CutFacts, JoinFacts
  <2> QED BY <1>1, <2>1, CutFacts, JoinFacts
<1>4. x = w
  BY <1>2, <1>3, SameText
<1> QED BY <1>1, <1>4

\* A part in which another text stands is that text.
LEMMA CutIs ==
    ASSUME NEW u, NEW s, NEW i, NEW j, NEW a \in Texts, Cuts(u, s, i, j),
           Size(a) = j - i + 1,
           \A k \in 1..Size(a) : TokenAt(s, i + k - 1) = TokenAt(a, k)
    PROVE  u = a
<1>1. u \in Texts /\ Size(u) = Size(a) /\ \A k \in 1..Size(u) : TokenAt(u, k) = TokenAt(a, k)
  BY CutFacts
<1> QED BY <1>1, SameText

-----------------------------------------------------------------------------
(* The text of a document, and what stands where in it.                    *)

Fields == [key : Tokens, gap : Seq({"space"}), value : Seq(Tokens)]

\* What follows the value of field i, by what g says of the fields behind it.
Behind(doc, g, i) == IF i = Len(doc) THEN <<"rbrace">> ELSE <<"comma">> \o g[i + 1]

\* The text of the fields from one on, and the brace that ends them.
FieldsFrom(doc) ==
    CHOOSE g : g = [i \in 1..Len(doc) |-> FieldText(doc[i]) \o Behind(doc, g, i)]

LEMMA FieldsExist ==
    ASSUME NEW doc \in Seq(Fields)
    PROVE  \E g : g = [i \in 1..Len(doc) |-> FieldText(doc[i]) \o Behind(doc, g, i)]
<1> DEFINE N == Len(doc)
           Body(g, i) == FieldText(doc[i]) \o Behind(doc, g, i)
           Reached == {a \in 1..N : \E g : g = [i \in a..N |-> Body(g, i)]}
<1>1. N \in Nat
  OBVIOUS
<1>2. ASSUME NEW a \in 1..N, \A b \in a + 1..N : b \in Reached
      PROVE  a \in Reached
  <2>1. \E g : g = [i \in a + 1..N |-> Body(g, i)]
    <3>1. CASE a < N
      <4>1. a + 1 \in a + 1..N
        BY <3>1, <1>1
      <4> QED BY <1>2, <4>1
    <3>2. CASE a >= N
      <4>1. a + 1..N = {}
        BY <3>2, <1>1
      <4>2. [i \in a + 1..N |-> i] = [i \in a + 1..N |-> Body([m \in a + 1..N |-> m], i)]
        BY <4>1
      <4> QED BY <4>2
    <3> QED BY <3>1, <3>2, <1>1
  <2>2. PICK g : g = [i \in a + 1..N |-> Body(g, i)]
    BY <2>1
  <2> DEFINE h == [i \in a..N |-> IF i = a THEN Body(g, a) ELSE g[i]]
  <2>3. ASSUME NEW i \in a..N
        PROVE  h[i] = Body(h, i)
    <3>0. i \in Nat /\ a \in Nat /\ a <= i /\ i <= N
      BY <1>1
    <3>1. i # N => h[i + 1] = g[i + 1]
      <4>1. i # N => i + 1 \in a..N /\ i + 1 # a
        BY <3>0, <1>1
      <4> QED BY <4>1
    <3>2. Body(h, i) = Body(g, i)
      <4> HIDE DEF h
      <4> QED BY <3>1 DEF Behind
    <3>3. i # a => h[i] = Body(g, i)
      <4>1. i # a => i \in a + 1..N
        BY <3>0, <1>1
      <4>2. i # a => g[i] = Body(g, i)
        BY <2>2, <4>1
      <4> QED BY <4>2
    <3> HIDE DEF Body
    <3> QED BY <3>2, <3>3
  <2>4. h = [i \in a..N |-> h[i]]
    OBVIOUS
  <2> HIDE DEF h
  <2>5. h = [i \in a..N |-> Body(h, i)]
    <3> HIDE DEF Body
    <3> QED BY <2>3, <2>4
  <2> QED BY <2>5
<1>3. \A a \in 1..N : a \in Reached
  <2> HIDE DEF Reached
  <2> QED BY <1>1, <1>2, Downward
<1>4. CASE N = 0
  <2> DEFINE g == [i \in 1..N |-> i]
  <2>1. 1..N = {}
    BY <1>4
  <2>2. g = [i \in 1..N |-> Body(g, i)]
    BY <2>1
  <2> QED BY <2>2
<1>5. CASE N # 0
  <2>1. 1 \in 1..N
    BY <1>1, <1>5
  <2> QED BY <1>3, <2>1
<1> QED BY <1>4, <1>5

LEMMA FieldsRender ==
    ASSUME NEW doc \in Seq(Fields)
    PROVE  /\ Render(doc) = <<"lbrace">> \o FieldsFrom(doc)[1]
           /\ FieldsFrom(doc) = [i \in 1..Len(doc) |->
                                  FieldText(doc[i]) \o Behind(doc, FieldsFrom(doc), i)]
<1>1. Render(doc) = <<"lbrace">> \o FieldsFrom(doc)[1]
  BY DEF Render, FieldsFrom, Behind
<1>2. FieldsFrom(doc) = [i \in 1..Len(doc) |->
                           FieldText(doc[i]) \o Behind(doc, FieldsFrom(doc), i)]
  BY FieldsExist DEF FieldsFrom
<1> QED BY <1>1, <1>2

LEMMA FieldFacts ==
    ASSUME NEW doc \in Seq(Fields), NEW i \in 1..Len(doc)
    PROVE  /\ doc[i] \in Fields
           /\ doc[i].key \in Tokens /\ doc[i].gap \in Texts /\ doc[i].value \in Texts
           /\ \A k \in 1..Size(doc[i].gap) : TokenAt(doc[i].gap, k) = "space"
<1>1. doc[i] \in Fields
  OBVIOUS
<1>2. /\ doc[i].key \in Tokens /\ doc[i].gap \in Seq({"space"})
      /\ doc[i].value \in Seq(Tokens)
  BY <1>1 DEF Fields
<1>3. ASSUME NEW g \in Seq({"space"})
      PROVE  g \in Texts /\ \A k \in 1..Size(g) : TokenAt(g, k) = "space"
  BY TokenFacts DEF Texts, Size, TokenAt
<1> QED BY <1>1, <1>2, <1>3 DEF Texts

\* The text of a field, token by token.
Spells(t, key, gap, value) ==
    /\ t \in Texts /\ gap \in Texts /\ value \in Texts
    /\ Size(t) = 4 + Size(gap) + Size(value)
    /\ TokenAt(t, 1) = "quote" /\ TokenAt(t, 2) = key
    /\ TokenAt(t, 3) = "quote" /\ TokenAt(t, 4) = "colon"
    /\ \A k \in 1..Size(gap) : TokenAt(t, 4 + k) = TokenAt(gap, k)
    /\ \A k \in 1..Size(value) : TokenAt(t, 4 + Size(gap) + k) = TokenAt(value, k)

LEMMA FieldSpelled ==
    ASSUME NEW key \in Tokens, NEW gap \in Texts, NEW value \in Texts,
           NEW t, t = Quoted(key) \o <<"colon">> \o gap \o value
    PROVE  Spells(t, key, gap, value)
<1>1. Quoted(key) \in Texts /\ <<"colon">> \in Texts
  BY ShortTexts, TokenFacts
<1>2. PICK a : a = Quoted(key) \o <<"colon">>
  OBVIOUS
<1>3. PICK b : b = a \o gap
  OBVIOUS
<1>4. Joins(a, Quoted(key), <<"colon">>)
  BY <1>1, <1>2 DEF Joins
<1>5. Joins(b, a, gap)
  BY <1>3, <1>4, JoinFacts DEF Joins
<1>6. Joins(t, b, value)
  BY <1>2, <1>3, <1>5, JoinFacts DEF Joins
<1>7. /\ a \in Texts /\ Size(a) = 4
      /\ TokenAt(a, 1) = "quote" /\ TokenAt(a, 2) = key
      /\ TokenAt(a, 3) = "quote" /\ TokenAt(a, 4) = "colon"
  <2>1. /\ Size(Quoted(key)) = 3 /\ Size(<<"colon">>) = 1
        /\ TokenAt(Quoted(key), 1) = "quote" /\ TokenAt(Quoted(key), 2) = key
        /\ TokenAt(Quoted(key), 3) = "quote" /\ TokenAt(<<"colon">>, 1) = "colon"
    BY ShortTexts, TokenFacts
  <2> QED BY <1>4, <2>1, JoinFacts
<1>8. /\ b \in Texts /\ Size(b) = 4 + Size(gap)
      /\ TokenAt(b, 1) = "quote" /\ TokenAt(b, 2) = key
      /\ TokenAt(b, 3) = "quote" /\ TokenAt(b, 4) = "colon"
      /\ \A k \in 1..Size(gap) : TokenAt(b, 4 + k) = TokenAt(gap, k)
  BY <1>5, <1>7, JoinFacts
<1>9. /\ t \in Texts /\ Size(t) = 4 + Size(gap) + Size(value)
      /\ \A k \in 1..Size(b) : TokenAt(t, k) = TokenAt(b, k)
      /\ \A k \in 1..Size(value) : TokenAt(t, 4 + Size(gap) + k) = TokenAt(value, k)
  BY <1>6, <1>8, JoinFacts
<1>10. Size(gap) \in Nat
  BY TextFacts
<1>11. /\ TokenAt(t, 1) = "quote" /\ TokenAt(t, 2) = key
       /\ TokenAt(t, 3) = "quote" /\ TokenAt(t, 4) = "colon"
  <2>1. 1 \in 1..Size(b) /\ 2 \in 1..Size(b) /\ 3 \in 1..Size(b) /\ 4 \in 1..Size(b)
    BY <1>8, <1>10
  <2> QED BY <1>8, <1>9, <2>1
<1>12. ASSUME NEW k \in 1..Size(gap) PROVE TokenAt(t, 4 + k) = TokenAt(gap, k)
  <2>1. 4 + k \in 1..Size(b)
    BY <1>8, <1>10
  <2> QED BY <1>8, <1>9, <2>1
<1> QED BY <1>9, <1>11, <1>12 DEF Spells

\* The token before field i + 1 of a document, or behind its last one, and the text
\* from there on.
Mark(doc, i) == IF i = 0 THEN "lbrace" ELSE IF i = Len(doc) THEN "rbrace" ELSE "comma"

Rest(doc, i) == IF i = 0 THEN Render(doc) ELSE Behind(doc, FieldsFrom(doc), i)

LEMMA RestTyped ==
    ASSUME NEW doc \in Seq(Fields), NEW i \in 1..Len(doc)
    PROVE  FieldsFrom(doc)[i] \in Texts /\ Behind(doc, FieldsFrom(doc), i) \in Texts
           /\ FieldText(doc[i]) \in Texts
           /\ Spells(FieldText(doc[i]), doc[i].key, doc[i].gap, doc[i].value)
<1> DEFINE N == Len(doc)
           F == FieldsFrom(doc)
           Reached == {a \in 1..N : F[a] \in Texts /\ Behind(doc, F, a) \in Texts}
<1>1. N \in Nat
  OBVIOUS
<1>2. ASSUME NEW a \in 1..N
      PROVE  /\ Spells(FieldText(doc[a]), doc[a].key, doc[a].gap, doc[a].value)
             /\ FieldText(doc[a]) \in Texts
  <2>1. Spells(FieldText(doc[a]), doc[a].key, doc[a].gap, doc[a].value)
    BY FieldFacts, FieldSpelled DEF FieldText
  <2> QED BY <2>1 DEF Spells
<1>3. ASSUME NEW a \in 1..N, \A b \in a + 1..N : b \in Reached
      PROVE  a \in Reached
  <2>1. Behind(doc, F, a) \in Texts
    <3>1. CASE a = N
      <4>1. <<"rbrace">> \in Texts
        BY ShortTexts, TokenFacts
      <4> QED BY <3>1, <4>1 DEF Behind
    <3>2. CASE a # N
      <4>1. a + 1 \in a + 1..N
        BY <3>2
      <4>2. F[a + 1] \in Texts /\ <<"comma">> \in Texts
        BY <1>3, <4>1, ShortTexts, TokenFacts
      <4> HIDE DEF F
      <4>3. PICK x : x = <<"comma">> \o F[a + 1]
        OBVIOUS
      <4>4. Joins(x, <<"comma">>, F[a + 1])
        BY <4>2, <4>3 DEF Joins
      <4> QED BY <3>2, <4>3, <4>4, JoinFacts DEF Behind
    <3> QED BY <3>1, <3>2
  <2>2. F[a] = FieldText(doc[a]) \o Behind(doc, F, a)
    BY FieldsRender
  <2>3. Joins(F[a], FieldText(doc[a]), Behind(doc, F, a))
    BY <1>2, <2>1, <2>2 DEF Joins
  <2> QED BY <2>1, <2>3, JoinFacts
<1>4. \A a \in 1..N : a \in Reached
  <2> HIDE DEF Reached
  <2> QED BY <1>1, <1>3, Downward
<1> QED BY <1>2, <1>4

\* The text of a document, one field at a time.
LEMMA RestFacts ==
    ASSUME NEW doc \in Seq(Fields), doc # <<>>
    PROVE  /\ Rest(doc, 0) = Render(doc) /\ Rest(doc, Len(doc)) = <<"rbrace">>
           /\ \A i \in 0..Len(doc) : Rest(doc, i) \in Texts
           /\ \A i \in 0..Len(doc) - 1 :
                 /\ Spells(FieldText(doc[i + 1]), doc[i + 1].key, doc[i + 1].gap,
                           doc[i + 1].value)
                 /\ Joins(FieldsFrom(doc)[i + 1], FieldText(doc[i + 1]), Rest(doc, i + 1))
                 /\ Joins(Rest(doc, i), <<Mark(doc, i)>>, FieldsFrom(doc)[i + 1])
<1> DEFINE N == Len(doc)
<1>1. N \in Nat /\ N >= 1
  OBVIOUS
<1>2. Rest(doc, 0) = Render(doc) /\ Rest(doc, N) = <<"rbrace">>
  BY <1>1 DEF Rest, Behind
<1>3. ASSUME NEW i \in 0..N - 1
      PROVE  /\ Spells(FieldText(doc[i + 1]), doc[i + 1].key, doc[i + 1].gap,
                       doc[i + 1].value)
             /\ Joins(FieldsFrom(doc)[i + 1], FieldText(doc[i + 1]), Rest(doc, i + 1))
             /\ Joins(Rest(doc, i), <<Mark(doc, i)>>, FieldsFrom(doc)[i + 1])
  <2>1. i + 1 \in 1..N /\ i + 1 # 0 /\ i # N
    BY <1>1
  <2>2. /\ FieldsFrom(doc)[i + 1] \in Texts /\ FieldText(doc[i + 1]) \in Texts
        /\ Behind(doc, FieldsFrom(doc), i + 1) \in Texts
        /\ Spells(FieldText(doc[i + 1]), doc[i + 1].key, doc[i + 1].gap, doc[i + 1].value)
    BY <2>1, RestTyped
  <2>3. FieldsFrom(doc)[i + 1] = FieldText(doc[i + 1]) \o Behind(doc, FieldsFrom(doc), i + 1)
    BY <2>1, FieldsRender
  <2>4. Rest(doc, i + 1) = Behind(doc, FieldsFrom(doc), i + 1)
    BY <2>1 DEF Rest
  <2>5. Rest(doc, i) = <<Mark(doc, i)>> \o FieldsFrom(doc)[i + 1]
    <3>1. CASE i = 0
      BY <3>1, FieldsRender DEF Rest, Mark
    <3>2. CASE i # 0
      BY <2>1, <3>2 DEF Rest, Mark, Behind
    <3> QED BY <3>1, <3>2
  <2>6. <<Mark(doc, i)>> \in Texts
    BY ShortTexts, TokenFacts DEF Mark
  <2> QED BY <2>2, <2>3, <2>4, <2>5, <2>6 DEF Joins
<1>4. ASSUME NEW i \in 0..N PROVE Rest(doc, i) \in Texts
  <2>1. CASE i = N
    BY <1>2, <2>1, ShortTexts, TokenFacts
  <2>2. CASE i # N
    <3>1. i \in 0..N - 1
      BY <1>1, <2>2
    <3> QED BY <1>3, <3>1, JoinFacts
  <2> QED BY <2>1, <2>2
<1> QED BY <1>2, <1>3, <1>4

LEMMA RestBegins ==
    ASSUME NEW doc \in Seq(Fields), doc # <<>>, NEW i \in 0..Len(doc)
    PROVE  /\ Mark(doc, i) \in {"lbrace", "comma", "rbrace"}
           /\ Size(Rest(doc, i)) \in Nat /\ Size(Rest(doc, i)) >= 1
           /\ TokenAt(Rest(doc, i), 1) = Mark(doc, i)
<1>1. Mark(doc, i) \in {"lbrace", "comma", "rbrace"} /\ Mark(doc, i) \in Tokens
  BY TokenFacts DEF Mark
<1>2. CASE i = Len(doc)
  <2>1. Mark(doc, i) = "rbrace" /\ Rest(doc, i) = <<"rbrace">>
    BY <1>2, RestFacts DEF Mark
  <2>2. Size(<<"rbrace">>) = 1 /\ TokenAt(<<"rbrace">>, 1) = "rbrace"
    BY ShortTexts, TokenFacts
  <2> QED BY <1>1, <2>1, <2>2
<1>3. CASE i # Len(doc)
  <2>1. i \in 0..Len(doc) - 1
    BY <1>3
  <2>2. Joins(Rest(doc, i), <<Mark(doc, i)>>, FieldsFrom(doc)[i + 1])
    BY <2>1, RestFacts
  <2>3. /\ Size(<<Mark(doc, i)>>) = 1
        /\ TokenAt(<<Mark(doc, i)>>, 1) = Mark(doc, i)
    BY <1>1, ShortTexts
  <2> QED BY <1>1, <2>2, <2>3, JoinFacts
<1> QED BY <1>2, <1>3

\* Behind its first o tokens the text s is u.
Ends(s, o, u) ==
    /\ s \in Texts /\ u \in Texts /\ o \in Nat /\ Size(s) = o + Size(u)
    /\ \A k \in 1..Size(u) : TokenAt(s, o + k) = TokenAt(u, k)

LEMMA EndsJoin ==
    ASSUME NEW s, NEW o, NEW u, NEW a, NEW b, NEW p,
           Ends(s, o, u), Joins(u, a, b), p = o + Size(a)
    PROVE  /\ Ends(s, p, b)
           /\ \A k \in 1..Size(a) : TokenAt(s, o + k) = TokenAt(a, k)
<1>1. /\ s \in Texts /\ b \in Texts /\ Size(s) \in Nat /\ Size(a) \in Nat /\ Size(b) \in Nat
      /\ o \in Nat /\ Size(u) = Size(a) + Size(b) /\ Size(s) = o + Size(u)
  BY JoinFacts, TextFacts DEF Ends
<1>2. ASSUME NEW k \in 1..Size(a)
      PROVE  TokenAt(s, o + k) = TokenAt(a, k)
  <2>1. k \in 1..Size(u)
    BY <1>1
  <2> QED BY <2>1, JoinFacts DEF Ends
<1>3. ASSUME NEW k \in 1..Size(b)
      PROVE  TokenAt(s, o + Size(a) + k) = TokenAt(b, k)
  <2>1. /\ Size(a) + k \in 1..Size(u)
        /\ o + (Size(a) + k) = o + Size(a) + k
    BY <1>1
  <2>2. TokenAt(s, o + (Size(a) + k)) = TokenAt(u, Size(a) + k)
    BY <2>1 DEF Ends
  <2>3. TokenAt(u, Size(a) + k) = TokenAt(b, k)
    BY JoinFacts
  <2> QED BY <2>1, <2>2, <2>3
<1>4. o + Size(a) \in Nat /\ Size(s) = o + Size(a) + Size(b)
  BY <1>1
<1> QED BY <1>1, <1>2, <1>3, <1>4 DEF Ends

\* A field between the tokens at b and at e of the text s.
FieldAt(s, b, e, key, gap, value) ==
    /\ s \in Texts /\ gap \in Texts /\ value \in Texts /\ key \in Tokens
    /\ b \in Nat /\ b >= 1 /\ e \in Nat /\ e <= Size(s)
    /\ e = b + 5 + Size(gap) + Size(value)
    /\ TokenAt(s, b) \in {"lbrace", "comma", "rbrace"}
    /\ TokenAt(s, e) \in {"comma", "rbrace"}
    /\ TokenAt(s, b + 1) = "quote" /\ TokenAt(s, b + 2) = key
    /\ TokenAt(s, b + 3) = "quote" /\ TokenAt(s, b + 4) = "colon"
    /\ \A k \in 1..Size(gap) : TokenAt(gap, k) = "space"
    /\ \A k \in 1..Size(gap) : TokenAt(s, b + 4 + k) = "space"
    /\ \A k \in 1..Size(value) : TokenAt(s, b + 4 + Size(gap) + k) = TokenAt(value, k)

LEMMA OneField ==
    ASSUME NEW s, NEW o, NEW u, NEW m \in Tokens, NEW t, NEW x, NEW r,
           NEW key \in Tokens, NEW gap, NEW value,
           Ends(s, o, u), Joins(u, <<m>>, x), Joins(x, t, r), Spells(t, key, gap, value),
           m \in {"lbrace", "comma", "rbrace"}, Size(r) >= 1,
           TokenAt(r, 1) \in {"comma", "rbrace"},
           \A k \in 1..Size(gap) : TokenAt(gap, k) = "space",
           NEW p, p = o + 1, NEW e, e = p + 5 + Size(gap) + Size(value)
    PROVE  FieldAt(s, p, e, key, gap, value) /\ Ends(s, e - 1, r)
<1>1. Ends(s, p, x) /\ TokenAt(s, p) = m
  <2>1. Size(<<m>>) = 1 /\ TokenAt(<<m>>, 1) = m
    BY ShortTexts
  <2>2. /\ Ends(s, p, x)
        /\ \A k \in 1..Size(<<m>>) : TokenAt(s, o + k) = TokenAt(<<m>>, k)
    BY <2>1, EndsJoin
  <2>3. 1 \in 1..Size(<<m>>)
    BY <2>1
  <2> QED BY <2>1, <2>2, <2>3
<1>12. PICK q : q = p + Size(t)
  OBVIOUS
<1>2. /\ Ends(s, q, r)
      /\ \A k \in 1..Size(t) : TokenAt(s, p + k) = TokenAt(t, k)
  BY <1>1, <1>12, EndsJoin
<1>3. o \in Nat /\ p \in Nat /\ p = o + 1
  BY DEF Ends
<1>4. /\ s \in Texts /\ Size(s) \in Nat /\ Size(r) \in Nat
      /\ gap \in Texts /\ value \in Texts /\ Size(gap) \in Nat /\ Size(value) \in Nat
      /\ Size(t) = 4 + Size(gap) + Size(value)
      /\ Size(s) = q + Size(r) /\ q \in Nat
  BY <1>2, TextFacts DEF Ends, Spells
<1>5. q = p + 4 + Size(gap) + Size(value)
  BY <1>3, <1>4, <1>12
<1>7. TokenAt(s, p + 5 + Size(gap) + Size(value)) \in {"comma", "rbrace"}
  <2>1. 1 \in 1..Size(r) /\ q + 1 = p + 5 + Size(gap) + Size(value)
    BY <1>3, <1>4, <1>5
  <2>2. TokenAt(s, q + 1) = TokenAt(r, 1)
    BY <1>2, <2>1 DEF Ends
  <2> QED BY <2>1, <2>2
<1>8. ASSUME NEW k \in 1..4 + Size(gap) + Size(value)
      PROVE  TokenAt(s, p + k) = TokenAt(t, k)
  BY <1>2, <1>4
<1>9. /\ TokenAt(s, p + 1) = "quote" /\ TokenAt(s, p + 2) = key
      /\ TokenAt(s, p + 3) = "quote" /\ TokenAt(s, p + 4) = "colon"
  <2>1. /\ 1 \in 1..4 + Size(gap) + Size(value) /\ 2 \in 1..4 + Size(gap) + Size(value)
        /\ 3 \in 1..4 + Size(gap) + Size(value) /\ 4 \in 1..4 + Size(gap) + Size(value)
    BY <1>4
  <2> QED BY <1>8, <2>1 DEF Spells
<1>10. ASSUME NEW k \in 1..Size(gap) PROVE TokenAt(s, p + 4 + k) = "space"
  <2>1. 4 + k \in 1..4 + Size(gap) + Size(value) /\ p + (4 + k) = p + 4 + k
    BY <1>3, <1>4
  <2>2. TokenAt(s, p + (4 + k)) = TokenAt(t, 4 + k)
    BY <1>8, <2>1
  <2>3. TokenAt(t, 4 + k) = TokenAt(gap, k)
    BY DEF Spells
  <2> QED BY <2>1, <2>2, <2>3
<1>11. ASSUME NEW k \in 1..Size(value)
       PROVE  TokenAt(s, p + 4 + Size(gap) + k) = TokenAt(value, k)
  <2>1. /\ 4 + Size(gap) + k \in 1..4 + Size(gap) + Size(value)
        /\ p + (4 + Size(gap) + k) = p + 4 + Size(gap) + k
    BY <1>3, <1>4
  <2>2. TokenAt(s, p + (4 + Size(gap) + k)) = TokenAt(t, 4 + Size(gap) + k)
    BY <1>8, <2>1
  <2>3. TokenAt(t, 4 + Size(gap) + k) = TokenAt(value, k)
    BY DEF Spells
  <2> QED BY <2>1, <2>2, <2>3
<1>14. /\ p \in Nat /\ p >= 1 /\ e \in Nat
       /\ e <= Size(s)
       /\ e - 1 = q
  BY <1>3, <1>4, <1>5
<1>13. FieldAt(s, p, e, key, gap, value)
  BY <1>1, <1>4, <1>7, <1>9, <1>10, <1>11, <1>14 DEF FieldAt
<1> QED BY <1>2, <1>3, <1>13, <1>14

\* Where the token before field i + 1 stands.
Start(doc, i) == Size(Render(doc)) - Size(Rest(doc, i)) + 1

LEMMA Layout ==
    ASSUME NEW doc \in Seq(Fields), doc # <<>>
    PROVE  /\ Render(doc) \in Texts /\ Size(Render(doc)) \in Nat
           /\ Start(doc, 0) = 1 /\ Start(doc, Len(doc)) = Size(Render(doc))
           /\ \A i \in 0..Len(doc) :
                 /\ Start(doc, i) \in Nat /\ Start(doc, i) >= 1
                 /\ Start(doc, i) <= Size(Render(doc))
                 /\ TokenAt(Render(doc), Start(doc, i)) = Mark(doc, i)
           /\ \A i \in 0..Len(doc) - 1 :
                 FieldAt(Render(doc), Start(doc, i), Start(doc, i + 1), doc[i + 1].key,
                         doc[i + 1].gap, doc[i + 1].value)
<1> DEFINE N == Len(doc)
           s == Render(doc)
           o(i) == Size(s) - Size(Rest(doc, i))
           Reached == {i \in 0..N : Ends(s, o(i), Rest(doc, i))}
<1>1. N \in Nat /\ N >= 1
  OBVIOUS
<1>2. s \in Texts /\ Size(s) \in Nat /\ Rest(doc, 0) = s
  BY <1>1, RestFacts, TextFacts
<1> HIDE DEF s
<1>3. Ends(s, o(0), Rest(doc, 0))
  <2>1. o(0) = 0
    BY <1>2
  <2> HIDE DEF o
  <2> QED BY <1>2, <2>1, TextFacts DEF Ends
<1>4. ASSUME NEW i \in 0..N - 1, Ends(s, o(i), Rest(doc, i))
      PROVE  /\ Ends(s, o(i + 1), Rest(doc, i + 1))
             /\ FieldAt(s, o(i) + 1, o(i + 1) + 1, doc[i + 1].key,
                        doc[i + 1].gap, doc[i + 1].value)
  <2>1. i \in 0..N /\ i + 1 \in 0..N /\ i + 1 \in 1..N
    BY <1>1
  <2>2. /\ doc[i + 1].key \in Tokens
        /\ \A k \in 1..Size(doc[i + 1].gap) : TokenAt(doc[i + 1].gap, k) = "space"
    BY <2>1, FieldFacts
  <2>3. Mark(doc, i) \in {"lbrace", "comma", "rbrace"} /\ Mark(doc, i) \in Tokens
    BY <2>1, RestBegins, TokenFacts
  <2>4. Size(Rest(doc, i + 1)) >= 1 /\ TokenAt(Rest(doc, i + 1), 1) \in {"comma", "rbrace"}
    <3>1. Mark(doc, i + 1) \in {"comma", "rbrace"}
      BY <2>1 DEF Mark
    <3> QED BY <2>1, <3>1, RestBegins
  <2>5. /\ Spells(FieldText(doc[i + 1]), doc[i + 1].key, doc[i + 1].gap, doc[i + 1].value)
        /\ Joins(FieldsFrom(doc)[i + 1], FieldText(doc[i + 1]), Rest(doc, i + 1))
        /\ Joins(Rest(doc, i), <<Mark(doc, i)>>, FieldsFrom(doc)[i + 1])
    BY RestFacts
  <2>6. PICK p, e : /\ p = o(i) + 1
                    /\ e = p + 5 + Size(doc[i + 1].gap) + Size(doc[i + 1].value)
    OBVIOUS
  <2>7. /\ FieldAt(s, p, e, doc[i + 1].key, doc[i + 1].gap, doc[i + 1].value)
        /\ Ends(s, e - 1, Rest(doc, i + 1))
    <3> HIDE DEF o
    <3> QED BY <1>4, <2>2, <2>3, <2>4, <2>5, <2>6, OneField
  <2>8. /\ e \in Nat /\ e - 1 \in Nat /\ Size(s) = e - 1 + Size(Rest(doc, i + 1))
        /\ Size(Rest(doc, i + 1)) \in Nat
    BY <2>1, <2>7, RestBegins DEF Ends, FieldAt
  <2>9. e = o(i + 1) + 1 /\ e - 1 = o(i + 1)
    BY <1>2, <2>8
  <2> HIDE DEF o
  <2> QED BY <2>6, <2>7, <2>9
<1>5. \A i \in 0..N : i \in Reached
  <2>1. 0 \in Reached
    BY <1>1, <1>3
  <2>2. \A i \in 0..N - 1 : i \in Reached => i + 1 \in Reached
    BY <1>1, <1>4
  <2> HIDE DEF Reached
  <2> QED BY <1>1, <2>1, <2>2, Upward
<1>6. ASSUME NEW i \in 0..N
      PROVE  /\ Start(doc, i) \in Nat /\ Start(doc, i) >= 1 /\ Start(doc, i) <= Size(s)
             /\ TokenAt(s, Start(doc, i)) = Mark(doc, i)
  <2>1. Ends(s, o(i), Rest(doc, i))
    BY <1>5
  <2>2. /\ Size(Rest(doc, i)) \in Nat /\ Size(Rest(doc, i)) >= 1
        /\ TokenAt(Rest(doc, i), 1) = Mark(doc, i)
    BY RestBegins
  <2>3. Start(doc, i) = o(i) + 1
    BY DEF Start, s
  <2>4. 1 \in 1..Size(Rest(doc, i))
    BY <2>2
  <2> HIDE DEF o
  <2> QED BY <1>2, <2>1, <2>2, <2>3, <2>4 DEF Ends
<1>7. ASSUME NEW i \in 0..N - 1
      PROVE  FieldAt(s, Start(doc, i), Start(doc, i + 1), doc[i + 1].key,
                     doc[i + 1].gap, doc[i + 1].value)
  <2>1. i \in 0..N
    BY <1>1
  <2> QED BY <1>4, <1>5, <2>1 DEF Start, s
<1>8. Start(doc, 0) = 1 /\ Start(doc, N) = Size(s)
  <2>1. Size(Rest(doc, N)) = 1
    BY RestFacts, ShortTexts, TokenFacts
  <2> QED BY <1>2, <2>1 DEF Start, s
<1> QED BY <1>2, <1>6, <1>7, <1>8 DEF s

-----------------------------------------------------------------------------
(* What the sanitizer finds at a field.                                    *)

LEMMA MinIs ==
    ASSUME NEW S \in SUBSET Nat, NEW m \in S, \A x \in S : m <= x
    PROVE  Min(S) = m
<1>1. Min(S) \in S /\ \A x \in S : Min(S) <= x
  BY DEF Min
<1>2. Min(S) <= m /\ m <= Min(S) /\ Min(S) \in Nat /\ m \in Nat
  BY <1>1
<1> QED BY <1>2

LEMMA FirstIs ==
    ASSUME NEW s \in Texts, NEW from \in Nat, NEW toks, NEW j \in from..Size(s),
           TokenAt(s, j) \in toks, \A i \in from..j - 1 : TokenAt(s, i) \notin toks
    PROVE  FirstOf(s, from, toks) = j
<1> DEFINE S == {i \in from..Size(s) : TokenAt(s, i) \in toks} \cup {Size(s) + 1}
<1>1. Size(s) \in Nat /\ j \in Nat
  BY TextFacts
<1>2. FirstOf(s, from, toks) = Min(S)
  BY DEF FirstOf, Size, TokenAt
<1>3. S \in SUBSET Nat /\ j \in S
  BY <1>1
<1>4. ASSUME NEW x \in S PROVE j <= x
  <2>1. CASE x = Size(s) + 1
    BY <1>1, <2>1
  <2>2. CASE x # Size(s) + 1
    <3>1. x \in from..Size(s) /\ x \notin from..j - 1
      BY <2>2
    <3> QED BY <1>1, <3>1
  <2> QED BY <2>1, <2>2
<1> HIDE DEF S
<1> QED BY <1>2, <1>3, <1>4, MinIs

\* The places of P that are not before pos, and the one behind a text of length n.
From(P, n, pos) == {i \in P : i >= pos} \cup {n + 1}

LEMMA FirstWhere ==
    ASSUME NEW n \in Nat, NEW pos \in Nat, NEW P \in SUBSET (1..n),
           NEW f, f = Min(From(P, n, pos))
    PROVE  /\ f \in Nat /\ f <= n + 1
           /\ f = n + 1 \/ (f \in P /\ f >= pos)
           /\ \A i \in P : i >= pos => f <= i
<1> DEFINE S == From(P, n, pos)
<1>1. S \in SUBSET Nat /\ n + 1 \in S
  <2>1. \A x \in P : x \in Nat
    OBVIOUS
  <2>2. n + 1 \in S /\ \A x \in S : x = n + 1 \/ x \in P
    BY DEF From
  <2>3. ASSUME NEW x \in S PROVE x \in Nat
    <3>1. CASE x = n + 1
      BY <3>1
    <3>2. CASE x \in P
      BY <2>1, <3>2
    <3> QED BY <2>2, <3>1, <3>2
  <2> QED BY <2>2, <2>3
<1>2. PICK m \in S : \A x \in S : m <= x
  <2> HIDE DEF S
  <2> QED BY <1>1, LeastExists
<1>3. f = m
  <2> HIDE DEF S
  <2>1. Min(S) = m
    BY <1>1, <1>2, MinIs
  <2> QED BY <2>1 DEF S
<1>4. m <= n + 1 /\ m \in Nat
  <2> HIDE DEF S
  <2> QED BY <1>1, <1>2
<1>5. m = n + 1 \/ (m \in P /\ m >= pos)
  BY DEF From
<1>6. \A i \in P : i >= pos => m <= i
  BY <1>2 DEF From
<1> QED BY <1>3, <1>4, <1>5, <1>6

LEMMA PlaceMeans ==
    ASSUME NEW s \in Texts, NEW w, NEW p
    PROVE  p \in Places(s, w) <=>
              /\ p \in Nat /\ p >= 1 /\ p + 2 <= Size(s)
              /\ TokenAt(s, p) = "quote" /\ TokenAt(s, p + 1) = w
              /\ TokenAt(s, p + 2) = "quote"
<1>1. Size(s) \in Nat
  BY TextFacts
<1>2. ASSUME NEW q \in Nat, q >= 1, q + 2 <= Size(s), NEW u, u = SubSeq(s, q, q + 2)
      PROVE  u = Quoted(w) <=> /\ TokenAt(s, q) = "quote" /\ TokenAt(s, q + 1) = w
                               /\ TokenAt(s, q + 2) = "quote"
  <2>1. Len(u) = 3 /\ u[1] = s[q] /\ u[2] = s[q + 1] /\ u[3] = s[q + 2] /\ u \in Texts
    BY <1>1, <1>2 DEF Texts, Size
  <2>2. u = <<s[q], s[q + 1], s[q + 2]>>
    BY <2>1 DEF Texts
  <2> QED BY <2>2 DEF Quoted, TokenAt
<1>3. p \in Places(s, w) <=>
        p \in Nat /\ p >= 1 /\ p + 2 <= Size(s) /\ SubSeq(s, p, p + 2) = Quoted(w)
  <2>1. p \in 1..Size(s) - 2 <=> p \in Nat /\ p >= 1 /\ p + 2 <= Size(s)
    BY <1>1
  <2> QED BY <2>1 DEF Places, Size
<1>4. ASSUME p \in Nat, p >= 1, p + 2 <= Size(s)
      PROVE  SubSeq(s, p, p + 2) = Quoted(w)
               <=> /\ TokenAt(s, p) = "quote" /\ TokenAt(s, p + 1) = w
                   /\ TokenAt(s, p + 2) = "quote"
  <2>1. PICK u : u = SubSeq(s, p, p + 2)
    OBVIOUS
  <2> QED BY <1>2, <1>4, <2>1
<1> QED BY <1>3, <1>4

LEMMA NameFacts ==
    ASSUME NEW w \in Names
    PROVE  /\ w \in Tokens /\ w \notin Marks /\ w # "REDACTED"
           /\ w # "quote" /\ w # "colon" /\ w # "comma" /\ w # "lbrace"
           /\ w # "rbrace" /\ w # "space" /\ w # "control"
<1>1. CASE w \in Required
  BY <1>1 DEF Required, Marks, Tokens
<1>2. CASE w \in Range(SensitiveFields)
  <2>1. w \in Words
    BY <1>2, SanitizerAssumption DEF Range
  <2> QED BY <2>1, SanitizerAssumption DEF Marks, Tokens
<1> QED BY <1>1, <1>2 DEF Names

\* What IsFlat asks of a field.
Plain(key, value) ==
    /\ key \notin Marks \cup {"injection"}
    /\ IsString(value) \/ IsScalar(value)
    /\ \A k \in 1..Size(value) : TokenAt(value, k) \notin Names \cup {"control"}

\* In a field the name w stands only where it names the field.
LEMMA FieldPlaces ==
    ASSUME NEW s, NEW b, NEW e, NEW key, NEW gap, NEW value, NEW w \in Names,
           FieldAt(s, b, e, key, gap, value), Plain(key, value), NEW p \in b..e - 1
    PROVE  p \in Places(s, w) <=> p = b + 1 /\ key = w
<1>1. /\ s \in Texts /\ b \in Nat /\ e \in Nat /\ b >= 1 /\ e <= Size(s)
      /\ Size(s) \in Nat /\ Size(gap) \in Nat /\ Size(value) \in Nat
      /\ e = b + 5 + Size(gap) + Size(value)
  BY TextFacts DEF FieldAt
<1>2. w # "quote" /\ w # "colon" /\ w # "comma" /\ w # "rbrace" /\ w # "space"
  BY NameFacts
<1>3. ASSUME p = b + 1, key = w PROVE p \in Places(s, w)
  <2>1. /\ p \in Nat /\ p >= 1 /\ p + 2 <= Size(s) /\ p + 1 = b + 2 /\ p + 2 = b + 3
    BY <1>1, <1>3
  <2> QED BY <1>1, <1>3, <2>1, PlaceMeans DEF FieldAt
<1>4. ASSUME TokenAt(s, p + 1) = w PROVE p = b + 1 /\ key = w
  <2>1. CASE p = b
    BY <1>2, <1>4, <2>1 DEF FieldAt
  <2>2. CASE p = b + 1
    <3>1. p + 1 = b + 2
      BY <1>1, <2>2
    <3> QED BY <1>4, <2>2, <3>1 DEF FieldAt
  <2>3. CASE p = b + 2
    <3>1. p + 1 = b + 3
      BY <1>1, <2>3
    <3> QED BY <1>2, <1>4, <3>1 DEF FieldAt
  <2>4. CASE p = b + 3
    <3>1. p + 1 = b + 4
      BY <1>1, <2>4
    <3> QED BY <1>2, <1>4, <3>1 DEF FieldAt
  <2>5. CASE p >= b + 4 /\ p < b + 4 + Size(gap)
    <3>1. PICK k \in 1..Size(gap) : p + 1 = b + 4 + k
      <4>1. p - b - 3 \in 1..Size(gap) /\ p + 1 = b + 4 + (p - b - 3)
        BY <1>1, <2>5
      <4> QED BY <4>1
    <3> QED BY <1>2, <1>4, <3>1 DEF FieldAt
  <2>6. CASE p >= b + 4 + Size(gap) /\ p < b + 4 + Size(gap) + Size(value)
    <3>1. PICK k \in 1..Size(value) : p + 1 = b + 4 + Size(gap) + k
      <4>1. /\ p - b - 3 - Size(gap) \in 1..Size(value)
            /\ p + 1 = b + 4 + Size(gap) + (p - b - 3 - Size(gap))
        BY <1>1, <2>6
      <4> QED BY <4>1
    <3>2. TokenAt(s, p + 1) = TokenAt(value, k)
      BY <3>1 DEF FieldAt
    <3> QED BY <1>4, <3>2 DEF Plain
  <2>7. CASE p = e - 1
    <3>1. p + 1 = e
      BY <1>1, <2>7
    <3> QED BY <1>2, <1>4, <3>1 DEF FieldAt
  <2>8. \/ p = b \/ p = b + 1 \/ p = b + 2 \/ p = b + 3
        \/ p >= b + 4 /\ p < b + 4 + Size(gap)
        \/ p >= b + 4 + Size(gap) /\ p < b + 4 + Size(gap) + Size(value)
        \/ p = e - 1
    BY <1>1
  <2> QED BY <2>1, <2>2, <2>3, <2>4, <2>5, <2>6, <2>7, <2>8
<1> QED BY <1>1, <1>3, <1>4, PlaceMeans

LEMMA ClosesMeans ==
    ASSUME NEW s, NEW i, NEW j
    PROVE  Closes(s, i, j) <=>
              /\ TokenAt(s, j) = "quote"
              /\ \E k \in i..j :
                    /\ (j - k) % 2 = 0
                    /\ \A m \in k..j - 1 : TokenAt(s, m) = "backslash"
                    /\ k = i \/ TokenAt(s, k - 1) # "backslash"
BY DEF Closes, TokenAt

\* The same quotes close a text wherever it stands.
LEMMA ClosesShifted ==
    ASSUME NEW s \in Texts, NEW v \in Texts, NEW o \in Nat,
           \A k \in 1..Size(v) : TokenAt(s, o + k) = TokenAt(v, k),
           NEW j \in 2..Size(v)
    PROVE  Closes(s, o + 2, o + j) <=> Closes(v, 2, j)
<1>1. Size(v) \in Nat
  BY TextFacts
<1>2. TokenAt(s, o + j) = TokenAt(v, j)
  <2>1. j \in 1..Size(v)
    BY <1>1
  <2> QED BY <2>1
<1>3. ASSUME NEW k \in 2..j
      PROVE  (\A m \in k..j - 1 : TokenAt(v, m) = "backslash")
               <=> \A m \in o + k..o + j - 1 : TokenAt(s, m) = "backslash"
  <2>1. ASSUME \A m \in o + k..o + j - 1 : TokenAt(s, m) = "backslash", NEW m \in k..j - 1
        PROVE  TokenAt(v, m) = "backslash"
    <3>1. o + m \in o + k..o + j - 1 /\ m \in 1..Size(v)
      BY <1>1
    <3> QED BY <2>1, <3>1
  <2>2. ASSUME \A m \in k..j - 1 : TokenAt(v, m) = "backslash", NEW m \in o + k..o + j - 1
        PROVE  TokenAt(s, m) = "backslash"
    <3>1. PICK n \in k..j - 1 : m = o + n
      <4>1. m - o \in k..j - 1 /\ m = o + (m - o)
        BY <1>1
      <4> QED BY <4>1
    <3>2. n \in 1..Size(v)
      BY <1>1
    <3> QED BY <2>2, <3>1, <3>2
  <2> QED BY <2>1, <2>2
<1>4. ASSUME NEW k \in 2..j
      PROVE  /\ o + k \in o + 2..o + j /\ o + j - (o + k) = j - k
             /\ o + k = o + 2 <=> k = 2
             /\ k # 2 => TokenAt(s, o + k - 1) = TokenAt(v, k - 1)
  <2>1. /\ o + k \in o + 2..o + j /\ o + j - (o + k) = j - k
        /\ o + k = o + 2 <=> k = 2
    OBVIOUS
  <2>2. ASSUME k # 2 PROVE TokenAt(s, o + k - 1) = TokenAt(v, k - 1)
    <3>1. k - 1 \in 1..Size(v) /\ o + k - 1 = o + (k - 1)
      BY <1>1, <2>2
    <3> QED BY <3>1
  <2> QED BY <2>1, <2>2
<1>5. ASSUME Closes(v, 2, j) PROVE Closes(s, o + 2, o + j)
  <2>1. PICK k \in 2..j : /\ (j - k) % 2 = 0
                          /\ \A m \in k..j - 1 : TokenAt(v, m) = "backslash"
                          /\ k = 2 \/ TokenAt(v, k - 1) # "backslash"
    BY <1>5, ClosesMeans
  <2>2. /\ o + k \in o + 2..o + j /\ (o + j - (o + k)) % 2 = 0
        /\ \A m \in o + k..o + j - 1 : TokenAt(s, m) = "backslash"
        /\ o + k = o + 2 \/ TokenAt(s, o + k - 1) # "backslash"
    BY <1>3, <1>4, <2>1
  <2>3. TokenAt(s, o + j) = "quote"
    BY <1>2, <1>5, ClosesMeans
  <2>4. PICK n, l : n = o + k /\ l = o + j
    OBVIOUS
  <2>5. \E h \in o + 2..l : /\ (l - h) % 2 = 0
                            /\ \A m \in h..l - 1 : TokenAt(s, m) = "backslash"
                            /\ h = o + 2 \/ TokenAt(s, h - 1) # "backslash"
    BY <2>2, <2>4
  <2>6. Closes(s, o + 2, l)
    BY <2>3, <2>4, <2>5, ClosesMeans
  <2> QED BY <2>4, <2>6
<1>6. ASSUME Closes(s, o + 2, o + j) PROVE Closes(v, 2, j)
  <2>1. PICK n \in o + 2..o + j :
               /\ (o + j - n) % 2 = 0
               /\ \A m \in n..o + j - 1 : TokenAt(s, m) = "backslash"
               /\ n = o + 2 \/ TokenAt(s, n - 1) # "backslash"
    BY <1>6, ClosesMeans
  <2>2. PICK k \in 2..j : n = o + k
    <3>1. n - o \in 2..j /\ n = o + (n - o)
      OBVIOUS
    <3> QED BY <3>1
  <2>3. /\ (j - k) % 2 = 0
        /\ \A m \in k..j - 1 : TokenAt(v, m) = "backslash"
        /\ k = 2 \/ TokenAt(v, k - 1) # "backslash"
    BY <1>3, <1>4, <2>1, <2>2
  <2>4. TokenAt(v, j) = "quote"
    BY <1>2, <1>6, ClosesMeans
  <2> QED BY <2>3, <2>4, ClosesMeans
<1> QED BY <1>5, <1>6

\* Where the value of a field ends.
LEMMA FieldEnds ==
    ASSUME NEW s, NEW b, NEW e, NEW key, NEW gap, NEW value,
           FieldAt(s, b, e, key, gap, value), Plain(key, value),
           NEW start, start = b + 5 + Size(gap)
    PROVE  /\ Size(value) >= 1 /\ start <= e - 1
           /\ TokenAt(s, start) # "space" /\ ValueEnd(s, start) = e
<1>1. /\ s \in Texts /\ b \in Nat /\ e \in Nat /\ b >= 1 /\ e <= Size(s)
      /\ value \in Texts
      /\ Size(s) \in Nat /\ Size(gap) \in Nat /\ Size(value) \in Nat
      /\ e = b + 5 + Size(gap) + Size(value)
  BY TextFacts DEF FieldAt
<1>2. PICK o \in Nat : o = b + 4 + Size(gap)
  BY <1>1
<1>3. \A k \in 1..Size(value) : TokenAt(s, o + k) = TokenAt(value, k)
  BY <1>2 DEF FieldAt
<1>4. TokenAt(s, e) \in {"comma", "rbrace"} /\ e = o + 1 + Size(value)
      /\ start = o + 1 /\ start \in Nat
  BY <1>1, <1>2 DEF FieldAt
<1>5. CASE IsString(value)
  <2>1. /\ Size(value) >= 2 /\ TokenAt(value, 1) = "quote"
        /\ Closes(value, 2, Size(value))
        /\ \A j \in 2..Size(value) - 1 : ~Closes(value, 2, j)
    BY <1>5 DEF IsString, Size, TokenAt
  <2>2. TokenAt(s, start) = "quote"
    <3>1. 1 \in 1..Size(value)
      BY <1>1, <2>1
    <3> QED BY <1>3, <1>4, <2>1, <3>1
  <2>3. ValueEnd(s, start) = ClosedAt(s)[o + 2]
    <3>1. start + 1 = o + 2
      BY <1>4
    <3> QED BY <2>2, <3>1 DEF ValueEnd, TokenAt
  <2>4. PICK c : c = ClosedAt(s)[o + 2]
    OBVIOUS
  <2>5. EndsAt(s, o + 2, c)
    <3>1. o + 2 \in 1..Len(s) + 2
      BY <1>1, <1>4 DEF Size
    <3> QED BY <1>1, <2>4, <3>1, ScanFindsClosingQuote DEF Texts
  <2>6. Closes(s, o + 2, o + Size(value)) /\ o + Size(value) \in o + 2..Size(s)
    BY <1>1, <1>3, <1>4, <2>1, ClosesShifted
  <2>7. /\ c - 1 \in o + 2..Size(s) /\ Closes(s, o + 2, c - 1)
        /\ \A j \in o + 2..c - 2 : ~Closes(s, o + 2, j)
    BY <2>5, <2>6 DEF EndsAt, Size
  <2>8. ASSUME NEW j \in o + 2..o + Size(value) - 1 PROVE ~Closes(s, o + 2, j)
    <3>1. PICK k \in 2..Size(value) - 1 : j = o + k
      <4>1. j - o \in 2..Size(value) - 1 /\ j = o + (j - o)
        BY <1>1
      <4> QED BY <4>1
    <3>2. k \in 2..Size(value)
      BY <1>1
    <3> QED BY <1>1, <1>3, <2>1, <3>1, <3>2, ClosesShifted
  <2>9. c = e
    <3>1. c \in Int
      <4>1. ClosedAt(s)[o + 2] \in o + 2..Len(s) + 2
        <5>1. o + 2 \in 1..Len(s) + 2
          BY <1>1, <1>4 DEF Size
        <5> QED BY <1>1, <5>1, ScanFindsClosingQuote DEF Texts
      <4> QED BY <2>4, <4>1
    <3>2. ~(c - 1 < o + Size(value))
      <4>1. c - 1 < o + Size(value) => c - 1 \in o + 2..o + Size(value) - 1
        BY <1>1, <2>7, <3>1
      <4> QED BY <2>7, <2>8, <4>1
    <3>3. ~(o + Size(value) < c - 1)
      <4>1. o + Size(value) < c - 1 => o + Size(value) \in o + 2..c - 2
        BY <1>1, <2>6, <3>1
      <4> QED BY <2>6, <2>7, <4>1
    <3> QED BY <1>1, <1>4, <3>1, <3>2, <3>3
  <2>10. start <= e - 1
    BY <1>1, <1>4, <2>1
  <2>11. ValueEnd(s, start) = e
    BY <2>3, <2>4, <2>9
  <2>12. Size(value) >= 1
    BY <1>1, <2>1
  <2> QED BY <2>2, <2>10, <2>11, <2>12
<1>6. CASE IsScalar(value)
  <2>1. /\ Size(value) >= 1
        /\ \A k \in 1..Size(value) :
              TokenAt(value, k) \notin {"quote", "comma", "rbrace", "rbracket", "space"}
    <3>1. value # <<>>
      BY <1>6 DEF IsScalar
    <3> QED BY <1>1, <1>6, <3>1 DEF IsScalar, Size, TokenAt, Texts
  <2>2. ASSUME NEW i \in start..e - 1
        PROVE  TokenAt(s, i) \notin {"quote", "comma", "rbrace", "rbracket", "space"}
    <3>1. PICK k \in 1..Size(value) : i = o + k
      <4>1. i - o \in 1..Size(value) /\ i = o + (i - o)
        BY <1>1, <1>4
      <4> QED BY <4>1
    <3> QED BY <1>3, <2>1, <3>1
  <2>3. start \in start..e - 1 /\ e \in start..Size(s)
    BY <1>1, <1>4, <2>1
  <2>4. TokenAt(s, start) \notin {"quote", "space"}
    BY <2>2, <2>3
  <2>5. FirstOf(s, start, {"comma", "rbrace", "rbracket", "space"}) = e
    BY <1>1, <1>4, <2>2, <2>3, FirstIs
  <2>6. ValueEnd(s, start) = e
    BY <2>4, <2>5 DEF ValueEnd, TokenAt
  <2> QED BY <1>4, <2>1, <2>3, <2>4, <2>6
<1> QED BY <1>5, <1>6 DEF Plain

-----------------------------------------------------------------------------
(* redact_field_value.                                                     *)

LEMMA FirstRange ==
    ASSUME NEW s \in Texts, NEW from \in Nat, from >= 1, NEW toks,
           NEW f, f = FirstOf(s, from, toks)
    PROVE  f \in Nat /\ f <= Size(s) + 1 /\ (f = Size(s) + 1 \/ f >= from)
<1>1. Size(s) \in Nat
  BY TextFacts
<1> DEFINE P == {i \in from..Size(s) : TokenAt(s, i) \in toks}
<1>2. P \in SUBSET (1..Size(s)) /\ \A i \in P : i >= from
  BY <1>1
<1>3. From(P, Size(s), from) = {i \in from..Size(s) : TokenAt(s, i) \in toks} \cup {Size(s) + 1}
  BY <1>2 DEF From
<1> HIDE DEF P
<1>4. f = Min(From(P, Size(s), from))
  BY <1>3 DEF FirstOf, Size, TokenAt, P
<1> QED BY <1>1, <1>2, <1>4, FirstWhere

KeyFrom(s, field, pos) == Min({i \in Places(s, field) : i >= pos} \cup {Len(s) + 1})
ColonBehind(s, key) == FirstOf(s, key + 3, {"colon"})
ValueBehind(s, key) ==
    Min({i \in ColonBehind(s, key) + 1..Len(s) : s[i] # "space"} \cup {Len(s) + 1})

LEMMA KeyFacts ==
    ASSUME NEW s \in Texts, NEW field, NEW pos \in 1..Size(s) + 1,
           NEW key, key = KeyFrom(s, field, pos)
    PROVE  /\ key \in Nat /\ key >= pos /\ key <= Size(s) + 1
           /\ key <= Size(s) => key \in Places(s, field)
           /\ \A i \in Places(s, field) : i >= pos => key <= i
<1>1. Size(s) \in Nat
  BY TextFacts
<1>2. PICK P : P = Places(s, field)
  OBVIOUS
<1>3. P \in SUBSET (1..Size(s))
  <2>1. \A i \in P : i \in 1..Size(s)
    BY <1>1, <1>2, PlaceMeans
  <2> QED BY <2>1
<1>4. key = Min(From(P, Size(s), pos))
  BY <1>2 DEF KeyFrom, Size, From
<1>5. pos \in Nat
  BY <1>1
<1>6. /\ key \in Nat /\ key <= Size(s) + 1
      /\ key = Size(s) + 1 \/ (key \in P /\ key >= pos)
      /\ \A i \in P : i >= pos => key <= i
  BY <1>1, <1>3, <1>4, <1>5, FirstWhere
<1> QED BY <1>1, <1>2, <1>6

LEMMA ValueFacts ==
    ASSUME NEW s \in Texts, NEW key \in Nat, NEW colon, colon = ColonBehind(s, key),
           NEW start, start = ValueBehind(s, key)
    PROVE  /\ colon \in Nat /\ colon <= Size(s) + 1
           /\ colon = Size(s) + 1 \/ colon >= key + 3
           /\ start \in Nat /\ start <= Size(s) + 1
           /\ start = Size(s) + 1 \/ start > colon
<1>1. Size(s) \in Nat
  BY TextFacts
<1>2. /\ colon \in Nat /\ colon <= Size(s) + 1
      /\ colon = Size(s) + 1 \/ colon >= key + 3
  <2>1. PICK from \in Nat : from = key + 3 /\ from >= 1
    OBVIOUS
  <2>2. colon = FirstOf(s, from, {"colon"})
    BY <2>1 DEF ColonBehind
  <2>3. colon \in Nat /\ colon <= Size(s) + 1 /\ (colon = Size(s) + 1 \/ colon >= from)
    BY <2>1, <2>2, FirstRange
  <2> QED BY <2>1, <2>3
<1>3. PICK from \in Nat : from = colon + 1 /\ from >= 1
  BY <1>2
<1>4. PICK P : P = {i \in from..Size(s) : TokenAt(s, i) # "space"}
  OBVIOUS
<1>5. P \in SUBSET (1..Size(s)) /\ \A i \in P : i >= from
  BY <1>1, <1>3, <1>4
<1>6. start = Min(From(P, Size(s), from))
  <2>1. From(P, Size(s), from)
          = {i \in from..Size(s) : TokenAt(s, i) # "space"} \cup {Size(s) + 1}
    BY <1>4, <1>5 DEF From
  <2> QED BY <1>3, <2>1 DEF ValueBehind, Size, TokenAt
<1>7. /\ start \in Nat /\ start <= Size(s) + 1
      /\ start = Size(s) + 1 \/ (start \in P /\ start >= from)
  BY <1>1, <1>5, <1>6, FirstWhere
<1> QED BY <1>2, <1>3, <1>5, <1>7

LEMMA EndFacts ==
    ASSUME NEW s \in Texts, NEW start \in 1..Size(s), NEW end, end = ValueEnd(s, start)
    PROVE  /\ end \in Nat /\ end >= start
           /\ end > Size(s) + 1 => TokenAt(s, Size(s)) = "backslash"
<1>1. Size(s) \in Nat
  BY TextFacts
<1>2. CASE TokenAt(s, start) = "quote"
  <2>1. end = ClosedAt(s)[start + 1]
    BY <1>2 DEF ValueEnd, TokenAt
  <2>2. PICK i \in 1..Len(s) + 2 : i = start + 1
    BY <1>1 DEF Size
  <2>3. /\ EndsAt(s, i, end) /\ end \in i..Len(s) + 2
    BY <2>1, <2>2, ScanFindsClosingQuote DEF Texts
  <2>4. ASSUME end > Size(s) + 1, i <= Size(s) PROVE TokenAt(s, Size(s)) = "backslash"
    BY <1>1, <2>3, <2>4 DEF EndsAt, Size, TokenAt
  <2>5. ASSUME i > Size(s) PROVE end = Size(s) + 1
    <3>1. i = Size(s) + 1
      BY <1>1, <2>2, <2>5
    <3>2. end = ScanFrom(s, ClosedAt(s), i)
      BY <2>1, <2>2, ClosedAtScans DEF Texts
    <3> QED BY <1>1, <2>5, <3>1, <3>2 DEF ScanFrom, Size
  <2>6. end \in Nat /\ end >= i
    BY <2>2, <2>3
  <2> QED BY <1>1, <2>2, <2>4, <2>5, <2>6
<1>3. CASE TokenAt(s, start) # "quote"
  <2>1. end = FirstOf(s, start, {"comma", "rbrace", "rbracket", "space"})
    BY <1>3 DEF ValueEnd, TokenAt
  <2>2. end \in Nat /\ end <= Size(s) + 1 /\ (end = Size(s) + 1 \/ end >= start)
    BY <1>1, <2>1, FirstRange
  <2> QED BY <1>1, <2>2
<1> QED BY <1>2, <1>3

\* The text behind pos, by what g says of the later places.
Redacted(s, field, g, pos) ==
    LET key   == KeyFrom(s, field, pos)
        colon == ColonBehind(s, key)
        start == ValueBehind(s, key)
        end   == ValueEnd(s, start)
    IN  IF key > Len(s) \/ colon > Len(s) \/ start > Len(s)
          THEN SubSeq(s, pos, Len(s))
        ELSE IF end > Len(s) + 1 \/ g[end] = OutOfRange
          THEN OutOfRange
        ELSE SubSeq(s, pos, start - 1) \o Quoted("REDACTED") \o g[end]

RedactedAt(s, field) ==
    CHOOSE g : g = [pos \in 1..Len(s) + 1 |-> Redacted(s, field, g, pos)]

\* Where redaction stands: there is no value from pos on, or the next one is from
\* start to end.
NoValue(s, field, pos) ==
    LET key == KeyFrom(s, field, pos)
    IN  key > Size(s) \/ ColonBehind(s, key) > Size(s) \/ ValueBehind(s, key) > Size(s)

NextStart(s, field, pos) == ValueBehind(s, KeyFrom(s, field, pos))
NextEnd(s, field, pos) == ValueEnd(s, NextStart(s, field, pos))

LEMMA NextFacts ==
    ASSUME NEW s \in Texts, NEW field, NEW pos \in 1..Size(s) + 1, ~NoValue(s, field, pos),
           NEW start, start = NextStart(s, field, pos),
           NEW end, end = NextEnd(s, field, pos)
    PROVE  /\ Size(s) \in Nat /\ start \in Nat /\ end \in Nat
           /\ start > pos /\ start > KeyFrom(s, field, pos) /\ start <= Size(s)
           /\ end >= start
           /\ end > Size(s) + 1 => TokenAt(s, Size(s)) = "backslash"
<1>1. Size(s) \in Nat
  BY TextFacts
<1>2. PICK key : key = KeyFrom(s, field, pos)
  OBVIOUS
<1>3. key \in Nat /\ key >= pos
  BY <1>2, KeyFacts
<1>4. PICK colon : colon = ColonBehind(s, key)
  OBVIOUS
<1>5. start = ValueBehind(s, key)
  BY <1>2 DEF NextStart
<1>6. /\ colon \in Nat /\ (colon = Size(s) + 1 \/ colon >= key + 3)
      /\ start \in Nat /\ start <= Size(s) + 1 /\ (start = Size(s) + 1 \/ start > colon)
  BY <1>3, <1>4, <1>5, ValueFacts
<1>7. ~(key > Size(s)) /\ ~(colon > Size(s)) /\ ~(start > Size(s))
  BY <1>2, <1>4, <1>5 DEF NoValue
<1>8. start \in Nat /\ start <= Size(s) /\ start > key /\ start > pos /\ start \in 1..Size(s)
  BY <1>1, <1>3, <1>6, <1>7
<1>9. end = ValueEnd(s, start)
  BY DEF NextEnd
<1>10. end \in Nat /\ end >= start /\ (end > Size(s) + 1 => TokenAt(s, Size(s)) = "backslash")
  BY <1>8, <1>9, EndFacts
<1> QED BY <1>1, <1>2, <1>8, <1>10

LEMMA RedactedMeans ==
    ASSUME NEW s, NEW field, NEW g, NEW pos
    PROVE  Redacted(s, field, g, pos) =
             IF NoValue(s, field, pos) THEN SubSeq(s, pos, Size(s))
             ELSE IF NextEnd(s, field, pos) > Size(s) + 1 \/ g[NextEnd(s, field, pos)] = OutOfRange
               THEN OutOfRange
             ELSE SubSeq(s, pos, NextStart(s, field, pos) - 1) \o Quoted("REDACTED")
                    \o g[NextEnd(s, field, pos)]
BY DEF Redacted, NoValue, NextStart, NextEnd, Size

LEMMA RedactedExists ==
    ASSUME NEW s \in Texts, NEW field
    PROVE  \E g : g = [pos \in 1..Len(s) + 1 |-> Redacted(s, field, g, pos)]
<1> DEFINE N == Size(s) + 1
           Reached == {a \in 1..N : \E g : g = [pos \in a..N |-> Redacted(s, field, g, pos)]}
<1>1. N \in Nat /\ Size(s) \in Nat /\ N = Size(s) + 1
  BY TextFacts
<1> HIDE DEF N
<1>2. ASSUME NEW a \in 1..N, \A b \in a + 1..N : b \in Reached
      PROVE  a \in Reached
  <2>1. \E g : g = [i \in a + 1..N |-> Redacted(s, field, g, i)]
    <3>1. CASE a < N
      <4>1. a + 1 \in a + 1..N
        BY <3>1, <1>1
      <4> QED BY <1>2, <4>1
    <3>2. CASE a >= N
      <4>1. a + 1..N = {}
        BY <3>2, <1>1
      <4>2. [i \in a + 1..N |-> i] = [i \in a + 1..N |-> Redacted(s, field, [m \in a + 1..N |-> m], i)]
        BY <4>1
      <4> QED BY <4>2
    <3> QED BY <3>1, <3>2, <1>1
  <2>2. PICK g : g = [i \in a + 1..N |-> Redacted(s, field, g, i)]
    BY <2>1
  <2> DEFINE h == [i \in a..N |-> IF i = a THEN Redacted(s, field, g, a) ELSE g[i]]
  <2>3. ASSUME NEW i \in a..N
        PROVE  h[i] = Redacted(s, field, h, i)
    <3>0. i \in Nat /\ a \in Nat /\ a <= i /\ i <= N /\ i \in 1..N
      BY <1>1
    <3>1. \A j \in a + 1..N : h[j] = g[j]
      <4>1. \A j \in a + 1..N : j \in a..N /\ j # a
        BY <1>1
      <4> QED BY <4>1
    <3>2. Redacted(s, field, h, i) = Redacted(s, field, g, i)
      <4> HIDE DEF h
      <4>1. PICK end : end = NextEnd(s, field, i)
        OBVIOUS
      <4>2. \/ NoValue(s, field, i) \/ end > Size(s) + 1
            \/ end \in a + 1..N
        <5>1. CASE NoValue(s, field, i)
          BY <5>1
        <5>2. CASE ~NoValue(s, field, i)
          <6>1. PICK start : start = NextStart(s, field, i)
            OBVIOUS
          <6>2. i \in 1..Size(s) + 1
            BY <3>0, <1>1
          <6>3. end \in Nat /\ start \in Nat /\ start > i /\ end >= start
            BY <4>1, <5>2, <6>1, <6>2, NextFacts
          <6> QED BY <1>1, <3>0, <6>3
        <5> QED BY <5>1, <5>2
      <4>3. \/ NoValue(s, field, i) \/ end > Size(s) + 1
            \/ h[end] = g[end]
        BY <3>1, <4>2
      <4> QED BY <4>1, <4>3, RedactedMeans
    <3>3. i # a => h[i] = Redacted(s, field, g, i)
      <4>1. i # a => i \in a + 1..N
        BY <3>0, <1>1
      <4>2. i # a => g[i] = Redacted(s, field, g, i)
        BY <2>2, <4>1
      <4> QED BY <4>2
    <3> QED BY <3>2, <3>3
  <2>4. h = [i \in a..N |-> h[i]]
    OBVIOUS
  <2> HIDE DEF h
  <2>5. h = [i \in a..N |-> Redacted(s, field, h, i)]
    BY <2>3, <2>4
  <2> QED BY <2>5
<1>3. \A a \in 1..N : a \in Reached
  <2> HIDE DEF Reached
  <2> QED BY <1>1, <1>2, Downward
<1>4. 1 \in 1..N
  BY <1>1
<1> QED BY <1>3, <1>4 DEF N, Size

LEMMA RedactedAtFacts ==
    ASSUME NEW s \in Texts, NEW field
    PROVE  /\ RedactField(s, field) = RedactedAt(s, field)[1]
           /\ \A pos \in 1..Size(s) + 1 :
                 RedactedAt(s, field)[pos] = Redacted(s, field, RedactedAt(s, field), pos)
<1>1. RedactField(s, field) = RedactedAt(s, field)[1]
  BY DEF RedactField, RedactedAt, Redacted, KeyFrom, ColonBehind, ValueBehind
<1>2. RedactedAt(s, field) = [pos \in 1..Len(s) + 1 |->
                                Redacted(s, field, RedactedAt(s, field), pos)]
  BY RedactedExists DEF RedactedAt
<1> QED BY <1>1, <1>2 DEF Size

\* What redaction leaves behind a place where a value follows, one text at a time.
LEMMA RedactedParts ==
    ASSUME NEW s \in Texts, NEW field, NEW pos \in 1..Size(s) + 1, ~NoValue(s, field, pos),
           NEW g, NEW end, end = NextEnd(s, field, pos), NEW r \in Texts, r = g[end],
           end <= Size(s) + 1, g[end] # OutOfRange,
           NEW red, red = Redacted(s, field, g, pos)
    PROVE  \E u, w : /\ Cuts(u, s, pos, NextStart(s, field, pos) - 1)
                     /\ Joins(w, u, Quoted("REDACTED")) /\ Joins(red, w, r)
<1>1. PICK start : start = NextStart(s, field, pos)
  OBVIOUS
<1>2. /\ Size(s) \in Nat /\ start \in Nat /\ start > pos /\ start <= Size(s) /\ end \in Nat
  BY <1>1, NextFacts
<1>3. PICK u : u = SubSeq(s, pos, start - 1)
  OBVIOUS
<1>4. Cuts(u, s, pos, start - 1)
  BY <1>2, <1>3 DEF Cuts
<1>5. PICK w : w = u \o Quoted("REDACTED")
  OBVIOUS
<1>6. Joins(w, u, Quoted("REDACTED"))
  BY <1>4, <1>5, CutFacts, ShortTexts, TokenFacts DEF Joins
<1>7. red = w \o r
  <2>1. ~(end > Size(s) + 1)
    BY <1>2
  <2> QED BY <1>1, <1>3, <1>5, <2>1, RedactedMeans
<1>8. Joins(red, w, r)
  BY <1>6, <1>7, JoinFacts DEF Joins
<1> QED BY <1>1, <1>4, <1>6, <1>8

\* From every place on redaction leaves a text, or the text it is given ends in a
\* backslash.
LEMMA RedactedTyped ==
    ASSUME NEW s \in Texts, NEW field, NEW pos \in 1..Size(s) + 1
    PROVE  LET red == RedactedAt(s, field)[pos]
           IN  \/ red \in Texts
               \/ red = OutOfRange /\ Size(s) >= 1 /\ TokenAt(s, Size(s)) = "backslash"
<1> DEFINE g == RedactedAt(s, field)
           Right(p) == \/ g[p] \in Texts
                       \/ g[p] = OutOfRange /\ Size(s) >= 1 /\ TokenAt(s, Size(s)) = "backslash"
           Reached == {p \in 1..Size(s) + 1 : Right(p)}
<1>1. Size(s) \in Nat
  BY TextFacts
<1>2. ASSUME NEW p \in 1..Size(s) + 1, \A q \in p + 1..Size(s) + 1 : Right(q)
      PROVE  Right(p)
  <2>1. g[p] = Redacted(s, field, g, p)
    BY RedactedAtFacts
  <2>2. CASE NoValue(s, field, p)
    <3>1. PICK u : u = SubSeq(s, p, Size(s))
      OBVIOUS
    <3>2. Cuts(u, s, p, Size(s))
      BY <1>1, <3>1 DEF Cuts
    <3>3. g[p] = u
      BY <2>1, <2>2, <3>1, RedactedMeans
    <3> QED BY <3>2, <3>3, CutFacts
  <2>3. CASE ~NoValue(s, field, p)
    <3>1. PICK end : end = NextEnd(s, field, p)
      OBVIOUS
    <3>2. PICK start : start = NextStart(s, field, p)
      OBVIOUS
    <3>3. /\ start \in Nat /\ end \in Nat /\ start > p /\ start <= Size(s) /\ end >= start
          /\ end > Size(s) + 1 => TokenAt(s, Size(s)) = "backslash"
      BY <2>3, <3>1, <3>2, NextFacts
    <3>4. Size(s) >= 1
      BY <1>1, <3>3
    <3>5. CASE end > Size(s) + 1
      <4>1. g[p] = OutOfRange
        BY <2>1, <2>3, <3>1, <3>5, RedactedMeans
      <4> QED BY <3>3, <3>4, <3>5, <4>1
    <3>6. CASE end <= Size(s) + 1
      <4>1. end \in p + 1..Size(s) + 1
        BY <1>1, <3>3, <3>6
      <4>2. Right(end)
        BY <1>2, <4>1
      <4>3. CASE g[end] = OutOfRange
        <5>1. g[p] = OutOfRange
          BY <2>1, <2>3, <3>1, <4>3, RedactedMeans
        <5>2. TokenAt(s, Size(s)) = "backslash" \/ g[p] \in Texts
          <6>1. OutOfRange \in Texts => g[p] \in Texts
            BY <5>1
          <6> QED BY <4>2, <4>3, <6>1
        <5> QED BY <3>4, <5>1, <5>2
      <4>4. CASE g[end] # OutOfRange
        <5>1. g[end] \in Texts
          BY <4>2, <4>4
        <5> HIDE DEF g
        <5>2. PICK r \in Texts : r = g[end]
          BY <5>1
        <5>3. PICK red : red = Redacted(s, field, g, p)
          OBVIOUS
        <5>4. PICK w : Joins(red, w, r)
          BY <2>3, <3>1, <3>6, <4>4, <5>2, <5>3, RedactedParts
        <5>5. g[p] \in Texts
          BY <2>1, <5>3, <5>4, JoinFacts
        <5> QED BY <5>5
      <4> QED BY <4>3, <4>4
    <3> QED BY <1>1, <3>3, <3>5, <3>6
  <2> QED BY <2>2, <2>3
<1>3. \A p \in 1..Size(s) + 1 : p \in Reached
  <2>1. \A p \in 1..Size(s) + 1 :
           (\A q \in p + 1..Size(s) + 1 : q \in Reached) => p \in Reached
    <3> HIDE DEF Right
    <3> QED BY <1>2
  <2>2. Size(s) + 1 \in Nat
    BY <1>1
  <2> HIDE DEF Reached
  <2> QED BY <2>1, <2>2, Downward
<1> QED BY <1>3

\* Up to a place before which no name of the field begins the text stays as it is.
LEMMA RedactedSkips ==
    ASSUME NEW s \in Texts, NEW field, NEW b \in 1..Size(s), NEW e \in b..Size(s),
           \A p \in b..e - 1 : p \notin Places(s, field),
           NEW r \in Texts, r = RedactedAt(s, field)[e], r # OutOfRange,
           NEW red, red = RedactedAt(s, field)[b], NEW u, Cuts(u, s, b, e - 1)
    PROVE  Joins(red, u, r)
<1>1. Size(s) \in Nat /\ b \in 1..Size(s) + 1 /\ e \in 1..Size(s) + 1 /\ b \in Nat /\ e \in Nat
  BY TextFacts
<1>2. PICK g : g = RedactedAt(s, field)
  OBVIOUS
<1>3. red = Redacted(s, field, g, b) /\ r = Redacted(s, field, g, e)
  BY <1>1, <1>2, RedactedAtFacts
<1>4. KeyFrom(s, field, b) = KeyFrom(s, field, e)
  <2>1. {i \in Places(s, field) : i >= b} = {i \in Places(s, field) : i >= e}
    <3>1. \A i \in Places(s, field) : i \in Nat
      BY PlaceMeans
    <3>2. \A i \in Places(s, field) : i >= b <=> i >= e
      BY <1>1, <3>1
    <3> QED BY <3>2
  <2> QED BY <2>1 DEF KeyFrom
<1>5. /\ NoValue(s, field, b) <=> NoValue(s, field, e)
      /\ NextStart(s, field, b) = NextStart(s, field, e)
      /\ NextEnd(s, field, b) = NextEnd(s, field, e)
  BY <1>4 DEF NoValue, NextStart, NextEnd
<1>6. CASE NoValue(s, field, b)
  <2>1. red = SubSeq(s, b, Size(s)) /\ r = SubSeq(s, e, Size(s))
    BY <1>3, <1>5, <1>6, RedactedMeans
  <2>2. Cuts(red, s, b, Size(s))
    BY <1>1, <2>1 DEF Cuts
  <2>3. e \in 1..Size(s) + 1 /\ Size(s) \in e - 1..Size(s) /\ e - 1 + 1 = e
    BY <1>1
  <2>4. Cuts(r, s, e - 1 + 1, Size(s))
    BY <2>1, <2>3 DEF Cuts
  <2> QED BY <2>2, <2>4, CutsJoin
<1>7. CASE ~NoValue(s, field, b)
  <2>1. PICK start, end : start = NextStart(s, field, e) /\ end = NextEnd(s, field, e)
    OBVIOUS
  <2>2. /\ start \in Nat /\ end \in Nat /\ start > e /\ start <= Size(s) /\ end >= start
    BY <1>1, <1>5, <1>7, <2>1, NextFacts
  <2>3. ~(end > Size(s) + 1) /\ g[end] # OutOfRange
    BY <1>3, <1>5, <1>7, <2>1, RedactedMeans
  <2>4. PICK x \in Texts : x = g[end]
    <3>1. end \in 1..Size(s) + 1
      BY <1>1, <2>2, <2>3
    <3> QED BY <1>2, <2>3, <3>1, RedactedTyped
  <2>5. end <= Size(s) + 1
    BY <1>1, <2>2, <2>3
  <2>6. PICK u1, w1 : /\ Cuts(u1, s, b, start - 1)
                      /\ Joins(w1, u1, Quoted("REDACTED")) /\ Joins(red, w1, x)
    BY <1>1, <1>3, <1>5, <1>7, <2>1, <2>3, <2>4, <2>5, RedactedParts
  <2>7. PICK u2, w2 : /\ Cuts(u2, s, e, start - 1)
                      /\ Joins(w2, u2, Quoted("REDACTED")) /\ Joins(r, w2, x)
    BY <1>1, <1>3, <1>5, <1>7, <2>1, <2>3, <2>4, <2>5, RedactedParts
  <2>8. Joins(u1, u, u2)
    <3>1. e - 1 + 1 = e
      BY <1>1
    <3>2. Cuts(u2, s, e - 1 + 1, start - 1)
      BY <2>7, <3>1
    <3> QED BY <2>6, <3>2, CutsJoin
  <2>9. Joins(w1, u, w2)
    BY <2>6, <2>7, <2>8, JoinAssociates
  <2> QED BY <2>6, <2>7, <2>9, JoinAssociates
<1> QED BY <1>6, <1>7

\* The text from the token before a field to the end of its gap, and a value.
LEMMA FieldHead ==
    ASSUME NEW s, NEW b, NEW e, NEW key, NEW gap, NEW value, NEW v, NEW t, NEW u, NEW w,
           NEW m \in Tokens, NEW mt, NEW j,
           FieldAt(s, b, e, key, gap, value), m = TokenAt(s, b), Spells(t, key, gap, v),
           j = b + 4 + Size(gap), Cuts(u, s, b, j), Joins(w, u, v), Joins(mt, <<m>>, t)
    PROVE  w = mt
<1>1. /\ Size(gap) \in Nat /\ Size(v) \in Nat /\ b \in Nat /\ j = b + 4 + Size(gap)
      /\ Size(u) = 5 + Size(gap)
      /\ Size(w) = 5 + Size(gap) + Size(v)
      /\ Size(t) = 4 + Size(gap) + Size(v)
  <2>1. Size(u) = j - b + 1
    BY CutFacts
  <2>2. Size(gap) \in Nat /\ b \in Nat /\ Size(v) \in Nat
    BY TextFacts DEF FieldAt, Spells
  <2>3. Size(w) = Size(u) + Size(v)
    BY JoinFacts
  <2> QED BY <2>1, <2>2, <2>3 DEF Spells
<1>2. Size(<<m>>) = 1 /\ TokenAt(<<m>>, 1) = m
  BY ShortTexts
<1>3. /\ Size(mt) = 1 + Size(t) /\ mt \in Texts /\ w \in Texts
      /\ TokenAt(mt, 1) = m
      /\ \A k \in 1..Size(t) : TokenAt(mt, 1 + k) = TokenAt(t, k)
  BY <1>2, JoinFacts
<1>4. \A k \in 1..5 + Size(gap) : TokenAt(w, k) = TokenAt(s, b + k - 1)
  <2>1. ASSUME NEW k \in 1..5 + Size(gap) PROVE TokenAt(w, k) = TokenAt(s, b + k - 1)
    <3>1. k \in 1..Size(u) /\ k \in 1..j - b + 1
      BY <1>1
    <3> QED BY <3>1, CutFacts, JoinFacts
  <2> QED BY <2>1
<1>5. \A k \in 1..Size(v) : TokenAt(w, 5 + Size(gap) + k) = TokenAt(v, k)
  BY <1>1, JoinFacts
<1>6. ASSUME NEW k \in 1..Size(w) PROVE TokenAt(w, k) = TokenAt(mt, k)
  <2>1. CASE k = 1
    <3>1. 1 \in 1..5 + Size(gap) /\ b + 1 - 1 = b
      BY <1>1
    <3>2. TokenAt(w, 1) = TokenAt(s, b + 1 - 1)
      BY <1>4, <3>1
    <3> QED BY <1>3, <2>1, <3>1, <3>2
  <2>2. ASSUME NEW i \in 1..4, k = 1 + i PROVE TokenAt(w, k) = TokenAt(mt, k)
    <3>1. k \in 1..5 + Size(gap) /\ b + k - 1 = b + i /\ i \in 1..Size(t)
      BY <1>1, <2>2
    <3>2. TokenAt(w, k) = TokenAt(s, b + i)
      BY <1>4, <3>1
    <3>3. TokenAt(mt, k) = TokenAt(t, i)
      BY <1>3, <2>2, <3>1
    <3>4. i = 1 \/ i = 2 \/ i = 3 \/ i = 4
      OBVIOUS
    <3>5. TokenAt(s, b + i) = TokenAt(t, i)
      BY <3>4 DEF FieldAt, Spells
    <3> QED BY <3>2, <3>3, <3>5
  <2>3. ASSUME NEW i \in 1..Size(gap), k = 5 + i PROVE TokenAt(w, k) = TokenAt(mt, k)
    <3>1. k \in 1..5 + Size(gap) /\ b + k - 1 = b + 4 + i /\ 4 + i \in 1..Size(t) /\ k = 1 + (4 + i)
      BY <1>1, <2>3
    <3>2. TokenAt(w, k) = TokenAt(s, b + 4 + i)
      BY <1>4, <3>1
    <3>3. TokenAt(mt, k) = TokenAt(t, 4 + i)
      BY <1>3, <3>1
    <3>4. TokenAt(s, b + 4 + i) = "space" /\ TokenAt(t, 4 + i) = TokenAt(gap, i)
          /\ TokenAt(gap, i) = "space"
      BY DEF FieldAt, Spells
    <3> QED BY <3>2, <3>3, <3>4
  <2>4. ASSUME NEW i \in 1..Size(v), k = 5 + Size(gap) + i PROVE TokenAt(w, k) = TokenAt(mt, k)
    <3>1. 4 + Size(gap) + i \in 1..Size(t) /\ k = 1 + (4 + Size(gap) + i)
      BY <1>1, <2>4
    <3>2. TokenAt(mt, k) = TokenAt(t, 4 + Size(gap) + i)
      BY <1>3, <3>1
    <3>3. TokenAt(t, 4 + Size(gap) + i) = TokenAt(v, i)
      BY DEF Spells
    <3> QED BY <1>5, <2>4, <3>2, <3>3
  <2>5. \/ k = 1 \/ (\E i \in 1..4 : k = 1 + i) \/ (\E i \in 1..Size(gap) : k = 5 + i)
        \/ (\E i \in 1..Size(v) : k = 5 + Size(gap) + i)
    <3>1. CASE k > 1 /\ k <= 5
      <4>1. k - 1 \in 1..4 /\ k = 1 + (k - 1)
        BY <3>1
      <4> QED BY <4>1
    <3>2. CASE k > 5 /\ k <= 5 + Size(gap)
      <4>1. k - 5 \in 1..Size(gap) /\ k = 5 + (k - 5)
        BY <1>1, <3>2
      <4> QED BY <4>1
    <3>3. CASE k > 5 + Size(gap)
      <4>1. k - 5 - Size(gap) \in 1..Size(v) /\ k = 5 + Size(gap) + (k - 5 - Size(gap))
        BY <1>1, <3>3
      <4> QED BY <4>1
    <3> QED BY <1>1, <3>1, <3>2, <3>3
  <2> QED BY <2>1, <2>2, <2>3, <2>4, <2>5
<1>7. Size(w) = Size(mt)
  BY <1>1, <1>3
<1> QED BY <1>3, <1>6, <1>7, SameText

\* A field of another name is left as it is.
LEMMA FieldKept ==
    ASSUME NEW s, NEW b, NEW e, NEW key, NEW gap, NEW value, NEW t, NEW x, NEW r,
           NEW m \in Tokens, NEW field \in Names,
           FieldAt(s, b, e, key, gap, value), Plain(key, value), key # field,
           m = TokenAt(s, b), Spells(t, key, gap, value), Joins(x, t, r),
           r = RedactedAt(s, field)[e], r # OutOfRange
    PROVE  Joins(RedactedAt(s, field)[b], <<m>>, x)
<1>1. /\ s \in Texts /\ b \in Nat /\ e \in Nat /\ b >= 1 /\ e <= Size(s)
      /\ Size(s) \in Nat /\ Size(gap) \in Nat /\ Size(value) \in Nat /\ value \in Texts
      /\ e = b + 5 + Size(gap) + Size(value)
  BY TextFacts DEF FieldAt
<1>2. PICK j \in Nat, f \in Nat, h \in Nat :
            j = b + 4 + Size(gap) /\ f = j + 1 /\ h = e - 1
  <2>1. b + 4 + Size(gap) \in Nat /\ b + 4 + Size(gap) + 1 \in Nat /\ e - 1 \in Nat
    BY <1>1
  <2> QED BY <2>1
<1>3. PICK u, u1, u2 : /\ u = SubSeq(s, b, h) /\ u1 = SubSeq(s, b, j)
                       /\ u2 = SubSeq(s, f, h)
  OBVIOUS
<1>4. Cuts(u, s, b, h) /\ Cuts(u1, s, b, j) /\ Cuts(u2, s, f, h)
  <2>1. /\ b \in 1..Size(s) + 1 /\ h \in b - 1..Size(s) /\ j \in b - 1..Size(s)
        /\ f \in 1..Size(s) + 1 /\ h \in f - 1..Size(s)
    BY <1>1, <1>2
  <2> QED BY <1>1, <1>3, <2>1 DEF Cuts
<1>5. u2 = value
  <2>1. Size(value) = h - f + 1
    BY <1>1, <1>2
  <2>2. ASSUME NEW k \in 1..Size(value) PROVE TokenAt(s, f + k - 1) = TokenAt(value, k)
    <3>1. f + k - 1 = b + 4 + Size(gap) + k
      BY <1>1, <1>2
    <3> QED BY <3>1 DEF FieldAt
  <2> QED BY <1>1, <1>4, <2>1, <2>2, CutIs
<1>6. Joins(u, u1, value)
  BY <1>2, <1>4, <1>5, CutsJoin
<1>7. PICK mt : mt = <<m>> \o t
  OBVIOUS
<1>8. Joins(mt, <<m>>, t)
  BY <1>7, JoinFacts, ShortTexts DEF Joins
<1>9. u = mt
  BY <1>2, <1>4, <1>6, <1>8, FieldHead
<1>10. Joins(RedactedAt(s, field)[b], u, r)
  <2>1. \A p \in b..e - 1 : p \notin Places(s, field)
    BY FieldPlaces
  <2>2. b \in 1..Size(s) /\ e \in b..Size(s)
    BY <1>1
  <2>3. r \in Texts
    BY JoinFacts
  <2> QED BY <1>1, <1>2, <1>4, <2>1, <2>2, <2>3, RedactedSkips
<1> QED BY <1>8, <1>9, <1>10, JoinAssociates

\* Of a field of that name the value is replaced.
LEMMA FieldRedacted ==
    ASSUME NEW s, NEW b, NEW e, NEW key \in Names, NEW gap, NEW value, NEW t, NEW x, NEW r,
           NEW m \in Tokens,
           FieldAt(s, b, e, key, gap, value), Plain(key, value),
           m = TokenAt(s, b), Spells(t, key, gap, Quoted("REDACTED")), Joins(x, t, r),
           r = RedactedAt(s, key)[e], r # OutOfRange
    PROVE  Joins(RedactedAt(s, key)[b], <<m>>, x)
<1>1. /\ s \in Texts /\ b \in Nat /\ e \in Nat /\ b >= 1 /\ e <= Size(s)
      /\ Size(s) \in Nat /\ Size(gap) \in Nat /\ Size(value) \in Nat /\ value \in Texts
      /\ e = b + 5 + Size(gap) + Size(value)
  BY TextFacts DEF FieldAt
<1>2. PICK start \in Nat : start = b + 5 + Size(gap)
  BY <1>1
<1>3. Size(value) >= 1 /\ start <= e - 1 /\ TokenAt(s, start) # "space" /\ ValueEnd(s, start) = e
  BY <1>2, FieldEnds
<1>4. KeyFrom(s, key, b) = b + 1
  <2>1. b \in 1..Size(s) + 1
    BY <1>1
  <2>2. PICK k : k = KeyFrom(s, key, b)
    OBVIOUS
  <2>3. /\ k \in Nat /\ k >= b /\ (k <= Size(s) => k \in Places(s, key))
        /\ \A i \in Places(s, key) : i >= b => k <= i
    BY <1>1, <2>1, <2>2, KeyFacts
  <2>4. \A p \in b..e - 1 : p \in Places(s, key) <=> p = b + 1
    BY FieldPlaces
  <2>5. b + 1 \in b..e - 1 /\ b + 1 >= b
    BY <1>1
  <2>6. k <= b + 1
    BY <2>3, <2>4, <2>5
  <2>7. k \in b..e - 1 /\ k <= Size(s)
    BY <1>1, <2>3, <2>6
  <2> QED BY <2>2, <2>3, <2>4, <2>7
<1>5. ColonBehind(s, b + 1) = b + 4
  <2>1. PICK from \in Nat : from = b + 4
    BY <1>1
  <2>2. TokenAt(s, from) \in {"colon"} /\ from \in from..Size(s)
        /\ \A i \in from..from - 1 : TokenAt(s, i) \notin {"colon"}
    BY <1>1, <2>1 DEF FieldAt
  <2>3. FirstOf(s, from, {"colon"}) = from
    BY <1>1, <2>1, <2>2, FirstIs
  <2>4. b + 1 + 3 = from
    BY <1>1, <2>1
  <2> QED BY <2>1, <2>3, <2>4 DEF ColonBehind
<1>6. ValueBehind(s, b + 1) = start
  <2> DEFINE S == {i \in b + 4 + 1..Size(s) : TokenAt(s, i) # "space"} \cup {Size(s) + 1}
  <2>1. S \in SUBSET Nat
    BY <1>1
  <2>2. start \in S
    BY <1>1, <1>2, <1>3
  <2>3. ASSUME NEW i \in S PROVE start <= i
    <3>1. CASE i = Size(s) + 1
      BY <1>1, <1>2, <3>1
    <3>2. CASE i # Size(s) + 1
      <4>1. i \in b + 4 + 1..Size(s) /\ TokenAt(s, i) # "space" /\ i \in Nat
        BY <3>2, <1>1
      <4>2. ASSUME i < start PROVE FALSE
        <5>1. i - (b + 4) \in 1..Size(gap) /\ i = b + 4 + (i - (b + 4))
          BY <1>1, <1>2, <4>1, <4>2
        <5>2. PICK k \in 1..Size(gap) : i = b + 4 + k
          BY <5>1
        <5>3. TokenAt(s, b + 4 + k) = "space"
          BY DEF FieldAt
        <5> QED BY <4>1, <5>2, <5>3
      <4> QED BY <1>2, <4>1, <4>2
    <3> QED BY <3>1, <3>2
  <2>4. ValueBehind(s, b + 1) = Min(S)
    BY <1>5 DEF ValueBehind, Size, TokenAt
  <2> HIDE DEF S
  <2> QED BY <2>1, <2>2, <2>3, <2>4, MinIs
<1>7. /\ ~NoValue(s, key, b) /\ NextStart(s, key, b) = start /\ NextEnd(s, key, b) = e
  <2>1. ~(b + 1 > Size(s)) /\ ~(b + 4 > Size(s)) /\ ~(start > Size(s))
    BY <1>1, <1>2, <1>3
  <2> QED BY <1>3, <1>4, <1>5, <1>6, <2>1 DEF NoValue, NextStart, NextEnd
<1>8. PICK red : red = RedactedAt(s, key)[b]
  OBVIOUS
<1>9. PICK u, w : /\ Cuts(u, s, b, start - 1)
                  /\ Joins(w, u, Quoted("REDACTED")) /\ Joins(red, w, r)
  <2>1. b \in 1..Size(s) + 1 /\ e <= Size(s) + 1
    BY <1>1
  <2>2. r \in Texts
    BY JoinFacts
  <2>3. red = Redacted(s, key, RedactedAt(s, key), b)
    BY <1>1, <1>8, <2>1, RedactedAtFacts
  <2>4. PICK g : g = RedactedAt(s, key)
    OBVIOUS
  <2> QED BY <1>1, <1>7, <2>1, <2>2, <2>3, <2>4, RedactedParts
<1>10. PICK mt : mt = <<m>> \o t
  OBVIOUS
<1>11. Joins(mt, <<m>>, t)
  BY <1>10, JoinFacts, ShortTexts DEF Joins
<1>12. w = mt
  <2>1. start - 1 = b + 4 + Size(gap)
    BY <1>1, <1>2
  <2>2. PICK j : j = b + 4 + Size(gap)
    OBVIOUS
  <2>3. Cuts(u, s, b, j)
    BY <1>9, <2>1, <2>2
  <2> QED BY <1>9, <1>11, <2>2, <2>3, FieldHead
<1> QED BY <1>8, <1>9, <1>11, <1>12, JoinAssociates

-----------------------------------------------------------------------------
(* Redaction of a document.                                                *)

LEMMA FlatFacts ==
    ASSUME NEW doc, IsFlat(doc)
    PROVE  /\ doc \in Seq(Fields) /\ doc # <<>> /\ Len(doc) \in Nat /\ Len(doc) >= 1
           /\ DOMAIN doc = 1..Len(doc)
           /\ \A i \in 1..Len(doc) : doc[i] \in Fields /\ Plain(doc[i].key, doc[i].value)
<1>1. doc \in Seq(Fields) /\ doc # <<>>
  BY DEF IsFlat, Fields
<1>2. /\ Len(doc) \in Nat /\ Len(doc) >= 1 /\ DOMAIN doc = 1..Len(doc)
      /\ \A i \in 1..Len(doc) : doc[i] \in Fields
  BY <1>1
<1>3. ASSUME NEW i \in 1..Len(doc) PROVE Plain(doc[i].key, doc[i].value)
  <2>1. i \in DOMAIN doc
    BY <1>2
  <2>2. /\ doc[i].key \notin Marks \cup {"injection"}
        /\ IsString(doc[i].value) \/ IsScalar(doc[i].value)
        /\ \A k \in DOMAIN doc[i].value :
              doc[i].value[k] \notin Names \cup {"control"}
    BY <2>1 DEF IsFlat
  <2>3. doc[i].value \in Texts
    BY <1>1, FieldFacts
  <2>4. ASSUME NEW v \in Texts PROVE DOMAIN v = 1..Size(v) /\ \A k \in 1..Size(v) : TokenAt(v, k) = v[k]
    BY DEF Texts, Size, TokenAt
  <2>5. PICK v \in Texts : v = doc[i].value
    BY <2>3
  <2>6. \A k \in 1..Size(v) : TokenAt(v, k) \notin Names \cup {"control"}
    BY <2>2, <2>4, <2>5
  <2> QED BY <2>2, <2>5, <2>6 DEF Plain
<1> QED BY <1>1, <1>2, <1>3

CleanField(f) == [f EXCEPT !.value = Quoted("REDACTED")]

\* The document whose fields with a name of K say "REDACTED".
CleanOf(doc, K) ==
    [i \in DOMAIN doc |-> IF doc[i].key \in K THEN CleanField(doc[i]) ELSE doc[i]]

LEMMA CleanFieldFacts ==
    ASSUME NEW f \in Fields
    PROVE  /\ CleanField(f) \in Fields /\ CleanField(f).key = f.key
           /\ CleanField(f).gap = f.gap /\ CleanField(f).value = Quoted("REDACTED")
           /\ CleanField(CleanField(f)) = CleanField(f)
<1>1. Quoted("REDACTED") \in Seq(Tokens)
  BY ShortTexts, TokenFacts DEF Texts
<1>2. PICK q : q = Quoted("REDACTED")
  OBVIOUS
<1> QED BY <1>1, <1>2 DEF CleanField, Fields

LEMMA RedactedIsPlain ==
    ASSUME NEW key, key \notin Marks \cup {"injection"}
    PROVE  Plain(key, Quoted("REDACTED"))
<1>1. PICK q \in Texts : q = Quoted("REDACTED")
  BY ShortTexts, TokenFacts
<1>2. /\ Size(q) = 3 /\ TokenAt(q, 1) = "quote" /\ TokenAt(q, 2) = "REDACTED"
      /\ TokenAt(q, 3) = "quote"
  BY <1>1, ShortTexts, TokenFacts
<1>3. Closes(q, 2, 3)
  <2>1. 3 \in 2..3 /\ (3 - 3) % 2 = 0 /\ (\A m \in 3..3 - 1 : FALSE) /\ 3 - 1 = 2
    OBVIOUS
  <2>2. TokenAt(q, 3 - 1) # "backslash"
    BY <1>2, <2>1
  <2> QED BY <1>2, <2>1, <2>2, ClosesMeans
<1>4. ~Closes(q, 2, 2)
  BY <1>2, ClosesMeans
<1>5. IsString(q)
  <2>1. \A j \in 2..3 - 1 : j = 2
    OBVIOUS
  <2>2. Len(q) = Size(q) /\ q[1] = TokenAt(q, 1)
    BY DEF Size, TokenAt
  <2>3. PICK n : n = Len(q)
    OBVIOUS
  <2>4. n = 3
    BY <1>2, <2>2, <2>3
  <2>5. n >= 2 /\ Closes(q, 2, n) /\ \A j \in 2..n - 1 : ~Closes(q, 2, j)
    BY <1>3, <1>4, <2>1, <2>4
  <2> QED BY <1>2, <2>2, <2>3, <2>5 DEF IsString
<1>6. ASSUME NEW k \in 1..Size(q) PROVE TokenAt(q, k) \notin Names \cup {"control"}
  <2>1. k = 1 \/ k = 2 \/ k = 3
    BY <1>2
  <2>2. "quote" \notin Names /\ "REDACTED" \notin Names
    BY NameFacts
  <2> QED BY <1>2, <2>1, <2>2
<1> QED BY <1>1, <1>5, <1>6 DEF Plain

LEMMA FlatMeans ==
    ASSUME NEW doc \in Seq(Fields), doc # <<>>,
           \A i \in 1..Len(doc) : Plain(doc[i].key, doc[i].value)
    PROVE  IsFlat(doc)
<1>1. doc \in Seq([key : Tokens, gap : Seq({"space"}), value : Seq(Tokens)])
  BY DEF Fields
<1>2. ASSUME NEW i \in DOMAIN doc
      PROVE  /\ doc[i].key \notin Marks \cup {"injection"}
             /\ IsString(doc[i].value) \/ IsScalar(doc[i].value)
             /\ \A k \in DOMAIN doc[i].value :
                   doc[i].value[k] \notin Names \cup {"control"}
  <2>1. i \in 1..Len(doc)
    OBVIOUS
  <2>2. doc[i].value \in Texts /\ Plain(doc[i].key, doc[i].value)
    BY <2>1, FieldFacts
  <2>3. ASSUME NEW v \in Texts PROVE DOMAIN v = 1..Size(v) /\ \A k \in 1..Size(v) : TokenAt(v, k) = v[k]
    BY DEF Texts, Size, TokenAt
  <2>4. PICK v \in Texts : v = doc[i].value
    BY <2>2
  <2>5. \A k \in DOMAIN v : v[k] \notin Names \cup {"control"}
    BY <2>2, <2>3, <2>4 DEF Plain
  <2> QED BY <2>2, <2>4, <2>5 DEF Plain
<1> QED BY <1>1, <1>2 DEF IsFlat

LEMMA CleanFacts ==
    ASSUME NEW doc, IsFlat(doc), NEW K, NEW c, c = CleanOf(doc, K)
    PROVE  /\ IsFlat(c) /\ Len(c) = Len(doc)
           /\ \A i \in 1..Len(doc) :
                 /\ c[i].key = doc[i].key /\ c[i].gap = doc[i].gap
                 /\ c[i].value = IF doc[i].key \in K THEN Quoted("REDACTED") ELSE doc[i].value
                 /\ c[i] = IF doc[i].key \in K THEN CleanField(doc[i]) ELSE doc[i]
<1>1. /\ doc \in Seq(Fields) /\ doc # <<>> /\ Len(doc) \in Nat /\ Len(doc) >= 1
      /\ DOMAIN doc = 1..Len(doc)
      /\ \A i \in 1..Len(doc) : doc[i] \in Fields /\ Plain(doc[i].key, doc[i].value)
  BY FlatFacts
<1>2. c = [i \in 1..Len(doc) |-> IF doc[i].key \in K THEN CleanField(doc[i]) ELSE doc[i]]
  BY <1>1 DEF CleanOf
<1>3. ASSUME NEW i \in 1..Len(doc)
      PROVE  /\ c[i] \in Fields /\ Plain(c[i].key, c[i].value)
             /\ c[i].key = doc[i].key /\ c[i].gap = doc[i].gap
             /\ c[i].value = IF doc[i].key \in K THEN Quoted("REDACTED") ELSE doc[i].value
             /\ c[i] = IF doc[i].key \in K THEN CleanField(doc[i]) ELSE doc[i]
  <2>1. c[i] = IF doc[i].key \in K THEN CleanField(doc[i]) ELSE doc[i]
    BY <1>2
  <2>2. doc[i] \in Fields /\ Plain(doc[i].key, doc[i].value)
    BY <1>1
  <2>3. CASE doc[i].key \in K
    <3>1. c[i] = CleanField(doc[i])
      BY <2>1, <2>3
    <3>2. /\ c[i] \in Fields /\ c[i].key = doc[i].key /\ c[i].gap = doc[i].gap
          /\ c[i].value = Quoted("REDACTED")
      BY <2>2, <3>1, CleanFieldFacts
    <3>3. Plain(c[i].key, c[i].value)
      <4>1. Plain(doc[i].key, Quoted("REDACTED"))
        BY <2>2, RedactedIsPlain DEF Plain
      <4> QED BY <3>2, <4>1
    <3> QED BY <2>1, <2>3, <3>2, <3>3
  <2>4. CASE doc[i].key \notin K
    <3>1. c[i] = doc[i]
      BY <2>1, <2>4
    <3> QED BY <2>1, <2>2, <2>4, <3>1
  <2> QED BY <2>3, <2>4
<1>4. c \in Seq(Fields) /\ Len(c) = Len(doc) /\ c # <<>>
  <2>1. c \in [1..Len(doc) -> Fields]
    <3>1. \A i \in 1..Len(doc) : c[i] \in Fields
      BY <1>3
    <3> HIDE DEF CleanField
    <3> QED BY <1>2, <3>1
  <2> QED BY <1>1, <2>1
<1>5. IsFlat(c)
  BY <1>3, <1>4, FlatMeans
<1> QED BY <1>3, <1>4, <1>5

LEMMA JoinsOne ==
    ASSUME NEW a, NEW b, NEW u, NEW v, Joins(u, a, b), Joins(v, a, b)
    PROVE  u = v
BY DEF Joins

\* redact_field_value, on a document: exactly the values of that field are
\* replaced, whatever is in them and around them.
THEOREM RedactsField ==
    ASSUME NEW doc, IsFlat(doc), NEW field \in Names
    PROVE  RedactField(Render(doc), field) = Render(CleanOf(doc, {field}))
<1>1. PICK c : c = CleanOf(doc, {field})
  OBVIOUS
<1>2. PICK s : s = Render(doc)
  OBVIOUS
<1>3. PICK N \in Nat : N = Len(doc) /\ N >= 1
  BY FlatFacts
<1>4. /\ doc \in Seq(Fields) /\ doc # <<>>
      /\ \A i \in 1..N : doc[i] \in Fields /\ Plain(doc[i].key, doc[i].value)
  BY <1>3, FlatFacts
<1>5. /\ IsFlat(c) /\ Len(c) = N
      /\ \A i \in 1..N :
            /\ c[i].key = doc[i].key /\ c[i].gap = doc[i].gap
            /\ c[i].value = IF doc[i].key \in {field} THEN Quoted("REDACTED") ELSE doc[i].value
  BY <1>1, <1>3, CleanFacts
<1>6. c \in Seq(Fields) /\ c # <<>>
  BY <1>5, FlatFacts
<1>7. /\ s \in Texts /\ Size(s) \in Nat /\ Start(doc, 0) = 1 /\ Start(doc, N) = Size(s)
      /\ \A i \in 0..N : /\ Start(doc, i) \in Nat /\ Start(doc, i) >= 1
                         /\ Start(doc, i) <= Size(s)
                         /\ TokenAt(s, Start(doc, i)) = Mark(doc, i)
      /\ \A i \in 0..N - 1 :
            FieldAt(s, Start(doc, i), Start(doc, i + 1), doc[i + 1].key,
                    doc[i + 1].gap, doc[i + 1].value)
  BY <1>2, <1>3, <1>4, Layout
<1> DEFINE red == RedactedAt(s, field)
           Reached == {m \in 1..N + 1 : red[Start(doc, m - 1)] = Rest(c, m - 1)}
<1>8. red[Start(doc, N)] = Rest(c, N)
  <2>1. PICK n \in 1..Size(s) + 1 : n = Size(s) /\ n \in Nat /\ n >= 1
    BY <1>7
  <2>2. PICK key : key = KeyFrom(s, field, n)
    OBVIOUS
  <2>3. key \in Nat /\ key >= n /\ (key <= Size(s) => key \in Places(s, field))
    BY <1>7, <2>1, <2>2, KeyFacts
  <2>4. key > Size(s)
    <3>1. key \in Places(s, field) => key + 2 <= Size(s)
      BY <1>7, PlaceMeans
    <3> QED BY <1>7, <2>1, <2>3, <3>1
  <2>5. NoValue(s, field, n)
    BY <2>2, <2>4 DEF NoValue
  <2>6. red[n] = SubSeq(s, n, n)
    BY <1>7, <2>1, <2>5, RedactedAtFacts, RedactedMeans
  <2>7. PICK u : u = SubSeq(s, n, n)
    OBVIOUS
  <2>8. Cuts(u, s, n, n)
    BY <1>7, <2>1, <2>7 DEF Cuts
  <2>9. TokenAt(s, n) = "rbrace"
    BY <1>3, <1>7, <2>1 DEF Mark
  <2>10. u = <<"rbrace">>
    <3>1. /\ <<"rbrace">> \in Texts /\ Size(<<"rbrace">>) = 1
          /\ TokenAt(<<"rbrace">>, 1) = "rbrace"
      BY ShortTexts, TokenFacts
    <3>2. PICK a \in Texts : a = <<"rbrace">> /\ Size(a) = 1 /\ TokenAt(a, 1) = "rbrace"
      BY <3>1
    <3>3. Size(a) = n - n + 1
      BY <2>1, <3>2
    <3>4. ASSUME NEW k \in 1..Size(a) PROVE TokenAt(s, n + k - 1) = TokenAt(a, k)
      <4>1. k = 1 /\ n + k - 1 = n
        BY <2>1, <3>2
      <4> QED BY <2>9, <3>2, <4>1
    <3>5. u = a
      BY <2>8, <3>3, <3>4, CutIs
    <3> QED BY <3>2, <3>5
  <2>11. Rest(c, N) = <<"rbrace">>
    BY <1>5, <1>6, RestFacts
  <2> QED BY <1>7, <2>1, <2>6, <2>7, <2>10, <2>11
<1>9. ASSUME NEW i \in 0..N - 1, red[Start(doc, i + 1)] = Rest(c, i + 1)
      PROVE  red[Start(doc, i)] = Rest(c, i)
  <2>1. i \in 0..N /\ i + 1 \in 0..N /\ i + 1 \in 1..N
    BY <1>3
  <2>2. PICK r : r = Rest(c, i + 1)
    OBVIOUS
  <2>3. r # OutOfRange
    <3>1. TokenAt(r, 1) = Mark(c, i + 1) /\ Mark(c, i + 1) \in {"lbrace", "comma", "rbrace"}
      BY <1>5, <1>6, <2>1, <2>2, RestBegins
    <3>2. TokenAt(OutOfRange, 1) = "out_of_range"
      BY DEF OutOfRange, TokenAt
    <3> QED BY <3>1, <3>2
  <2>4. PICK t, x : t = FieldText(c[i + 1]) /\ x = FieldsFrom(c)[i + 1]
    OBVIOUS
  <2>5. /\ Spells(t, c[i + 1].key, c[i + 1].gap, c[i + 1].value)
        /\ Joins(x, t, r) /\ Joins(Rest(c, i), <<Mark(c, i)>>, x)
    BY <1>5, <1>6, <2>2, <2>4, RestFacts
  <2>6. PICK key, gap, value :
          key = doc[i + 1].key /\ gap = doc[i + 1].gap /\ value = doc[i + 1].value
    OBVIOUS
  <2>7. PICK b, e : b = Start(doc, i) /\ e = Start(doc, i + 1)
    OBVIOUS
  <2>8. FieldAt(s, b, e, key, gap, value) /\ Plain(key, value)
    BY <1>4, <1>7, <2>1, <2>6, <2>7
  <2>9. PICK m \in Tokens : m = Mark(c, i) /\ m = TokenAt(s, b)
    <3>1. Mark(c, i) = Mark(doc, i)
      BY <1>3, <1>5 DEF Mark
    <3>2. Mark(doc, i) \in Tokens
      BY TokenFacts DEF Mark
    <3> QED BY <1>7, <2>1, <2>7, <3>1, <3>2
  <2>10. Joins(red[b], <<m>>, x)
    <3>1. CASE key = field
      <4>1. Spells(t, key, gap, Quoted("REDACTED"))
        BY <1>5, <2>1, <2>5, <2>6, <3>1
      <4> QED BY <1>9, <2>2, <2>3, <2>5, <2>7, <2>8, <2>9, <3>1, <4>1, FieldRedacted
    <3>2. CASE key # field
      <4>1. Spells(t, key, gap, value)
        BY <1>5, <2>1, <2>5, <2>6, <3>2
      <4> QED BY <1>9, <2>2, <2>3, <2>5, <2>7, <2>8, <2>9, <3>2, <4>1, FieldKept
    <3> QED BY <3>1, <3>2
  <2> QED BY <2>5, <2>7, <2>9, <2>10, JoinsOne
<1> HIDE DEF red
<1>10. \A m \in 1..N + 1 : m \in Reached
  <2>1. ASSUME NEW m \in 1..N + 1, \A j \in m + 1..N + 1 : j \in Reached
        PROVE  m \in Reached
    <3>1. CASE m = N + 1
      <4>1. m - 1 = N
        BY <3>1
      <4> QED BY <1>8, <4>1
    <3>2. CASE m # N + 1
      <4>1. m + 1 \in m + 1..N + 1 /\ m - 1 \in 0..N - 1 /\ m + 1 - 1 = m - 1 + 1
        BY <3>2
      <4>2. red[Start(doc, m - 1 + 1)] = Rest(c, m - 1 + 1)
        BY <2>1, <4>1
      <4> QED BY <1>9, <4>1, <4>2
    <3> QED BY <3>1, <3>2
  <2> HIDE DEF Reached
  <2> QED BY <2>1, Downward
<1>11. red[Start(doc, 0)] = Rest(c, 0)
  <2>1. 1 \in 1..N + 1 /\ 1 - 1 = 0
    OBVIOUS
  <2> QED BY <1>10, <2>1
<1>12. Rest(c, 0) = Render(c)
  BY <1>6, RestFacts
<1>13. RedactField(s, field) = red[1]
  BY <1>7, RedactedAtFacts DEF red
<1> QED BY <1>1, <1>2, <1>7, <1>11, <1>12, <1>13

-----------------------------------------------------------------------------
(* Both passes over a text are folds: strip_sensitive_fields over the names *)
(* of the fields, strip_control_chars over the characters of the text.     *)

FoldStep(pass, s, y, i) ==
    IF pass = "fields" THEN RedactField(y, SensitiveFields[i]) ELSE KeepCharacter(y, s[i])

FoldBody(pass, s, base, g, t) ==
    IF t = {} THEN base ELSE FoldStep(pass, s, g[t \ {Max(t)}], Max(t))

Folded(pass, s, base, n) ==
    CHOOSE g : g = [t \in SUBSET (1..n) |-> FoldBody(pass, s, base, g, t)]

LEMMA MaxIs ==
    ASSUME NEW S \in SUBSET Nat, NEW m \in S, \A x \in S : x <= m
    PROVE  Max(S) = m
<1>1. Max(S) \in S /\ \A x \in S : Max(S) >= x
  <2>1. \E x \in S : \A y \in S : x >= y
    OBVIOUS
  <2> QED BY <2>1 DEF Max
<1>2. Max(S) <= m /\ m <= Max(S) /\ Max(S) \in Nat /\ m \in Nat
  BY <1>1
<1> QED BY <1>2

LEMMA FoldExists ==
    ASSUME NEW pass, NEW s, NEW base, NEW n \in Nat
    PROVE  \E g : g = [t \in SUBSET (1..n) |-> FoldBody(pass, s, base, g, t)]
<1> DEFINE Reached == {k \in 0..n : \E g : g = [t \in SUBSET (1..k) |->
                                                 FoldBody(pass, s, base, g, t)]}
<1>1. 0 \in Reached
  <2> DEFINE g == [t \in SUBSET (1..0) |-> base]
  <2>1. ASSUME NEW t \in SUBSET (1..0) PROVE FoldBody(pass, s, base, g, t) = base
    <3>1. t = {}
      OBVIOUS
    <3> QED BY <3>1 DEF FoldBody
  <2>2. g = [t \in SUBSET (1..0) |-> FoldBody(pass, s, base, g, t)]
    BY <2>1
  <2> HIDE DEF g
  <2>3. \E f : f = [t \in SUBSET (1..0) |-> FoldBody(pass, s, base, f, t)]
    BY <2>2
  <2>4. 0 \in 0..n
    OBVIOUS
  <2> QED BY <2>3, <2>4
<1>2. ASSUME NEW k \in 0..n - 1, k \in Reached PROVE k + 1 \in Reached
  <2>1. PICK g : g = [t \in SUBSET (1..k) |-> FoldBody(pass, s, base, g, t)]
    BY <1>2
  <2> DEFINE h == [t \in SUBSET (1..k + 1) |->
                     IF t \in SUBSET (1..k) THEN g[t] ELSE FoldBody(pass, s, base, g, t)]
  <2>2. \A t \in SUBSET (1..k) : t \in SUBSET (1..k + 1) /\ h[t] = g[t]
    <3>1. 1..k \subseteq 1..k + 1
      OBVIOUS
    <3> QED BY <3>1
  <2>3. ASSUME NEW t \in SUBSET (1..k + 1)
        PROVE  t = {} \/ t \ {Max(t)} \in SUBSET (1..k)
    <3>1. CASE k + 1 \in t
      <4>1. t \in SUBSET Nat /\ \A x \in t : x <= k + 1
        OBVIOUS
      <4>2. Max(t) = k + 1
        BY <3>1, <4>1, MaxIs
      <4>3. t \ {k + 1} \in SUBSET (1..k)
        OBVIOUS
      <4> QED BY <4>2, <4>3
    <3>2. CASE k + 1 \notin t
      <4>1. t \in SUBSET (1..k)
        BY <3>2
      <4> QED BY <4>1
    <3> QED BY <3>1, <3>2
  <2>4. ASSUME NEW t \in SUBSET (1..k + 1)
        PROVE  h[t] = FoldBody(pass, s, base, h, t)
    <3>1. FoldBody(pass, s, base, h, t) = FoldBody(pass, s, base, g, t)
      <4> HIDE DEF h
      <4> QED BY <2>2, <2>3 DEF FoldBody
    <3>2. t \in SUBSET (1..k) => g[t] = FoldBody(pass, s, base, g, t)
      BY <2>1
    <3> QED BY <3>1, <3>2
  <2>5. h = [t \in SUBSET (1..k + 1) |-> h[t]]
    OBVIOUS
  <2> HIDE DEF h
  <2>6. h = [t \in SUBSET (1..k + 1) |-> FoldBody(pass, s, base, h, t)]
    BY <2>4, <2>5
  <2> QED BY <2>6
<1>3. \A k \in 0..n : k \in Reached
  <2> HIDE DEF Reached
  <2> QED BY <1>1, <1>2, Upward
<1>4. n \in 0..n
  OBVIOUS
<1> QED BY <1>3, <1>4

LEMMA FoldFacts ==
    ASSUME NEW pass, NEW s, NEW base, NEW n \in Nat
    PROVE  LET g == Folded(pass, s, base, n)
           IN  /\ g[1..0] = base
               /\ \A k \in 0..n - 1 : g[1..k + 1] = FoldStep(pass, s, g[1..k], k + 1)
<1> DEFINE g == Folded(pass, s, base, n)
<1>1. g = [t \in SUBSET (1..n) |-> FoldBody(pass, s, base, g, t)]
  BY FoldExists DEF Folded
<1> HIDE DEF g
<1>2. g[1..0] = base
  <2>1. 1..0 = {} /\ 1..0 \in SUBSET (1..n)
    OBVIOUS
  <2>2. g[1..0] = FoldBody(pass, s, base, g, 1..0)
    BY <1>1, <2>1
  <2> QED BY <2>1, <2>2 DEF FoldBody
<1>3. ASSUME NEW k \in 0..n - 1 PROVE g[1..k + 1] = FoldStep(pass, s, g[1..k], k + 1)
  <2>1. PICK t : t = 1..k + 1
    OBVIOUS
  <2>2. t \in SUBSET (1..n) /\ k + 1 \in t
    BY <2>1
  <2>3. Max(t) = k + 1
    <3>1. t \in SUBSET Nat /\ \A x \in t : x <= k + 1
      BY <2>1
    <3> QED BY <2>2, <3>1, MaxIs
  <2>4. t \ {k + 1} = 1..k
    BY <2>1
  <2>5. g[t] = FoldBody(pass, s, base, g, t)
    BY <1>1, <2>2
  <2>6. t # {}
    BY <2>2
  <2>7. g[t] = FoldStep(pass, s, g[t \ {Max(t)}], Max(t))
    BY <2>5, <2>6 DEF FoldBody
  <2> QED BY <2>1, <2>3, <2>4, <2>7
<1> QED BY <1>2, <1>3 DEF g

LEMMA StripsAreFolds ==
    ASSUME NEW s \in Texts
    PROVE  /\ Len(SensitiveFields) \in Nat
           /\ StripSensitive(s)
                = Folded("fields", s, s, Len(SensitiveFields))[1..Len(SensitiveFields)]
           /\ StripControl(s) = Folded("control", s, <<>>, Size(s))[1..Size(s)]
<1>1. /\ Len(SensitiveFields) \in Nat
      /\ DOMAIN SensitiveFields = 1..Len(SensitiveFields)
  BY SanitizerAssumption
<1>2. DOMAIN s = 1..Size(s)
  BY DEF Texts, Size
<1>3. StripSensitive(s)
        = (CHOOSE g : g = [t \in SUBSET DOMAIN SensitiveFields |->
              IF t = {} THEN s
                ELSE RedactField(g[t \ {Max(t)}], SensitiveFields[Max(t)])])
            [DOMAIN SensitiveFields]
  BY DEF StripSensitive, FoldLeft, MapThenFoldSet
<1>4. StripControl(s)
        = (CHOOSE g : g = [t \in SUBSET DOMAIN s |->
              IF t = {} THEN <<>>
                ELSE KeepCharacter(g[t \ {Max(t)}], s[Max(t)])])[DOMAIN s]
  BY DEF StripControl, FoldLeft, MapThenFoldSet
<1>5. StripSensitive(s)
        = Folded("fields", s, s, Len(SensitiveFields))[1..Len(SensitiveFields)]
  BY <1>1, <1>3 DEF Folded, FoldBody, FoldStep
<1>6. StripControl(s) = Folded("control", s, <<>>, Size(s))[1..Size(s)]
  BY <1>2, <1>4 DEF Folded, FoldBody, FoldStep
<1> QED BY <1>1, <1>5, <1>6

-----------------------------------------------------------------------------
(* strip_sensitive_fields.                                                 *)

CleanedBy(c, doc, K) == c = CleanOf(doc, K)

LEMMA CleanOfMore ==
    ASSUME NEW doc, IsFlat(doc), NEW K, NEW field, NEW M, NEW c, NEW d, NEW e,
           CleanedBy(c, doc, K), CleanedBy(d, c, {field}), CleanedBy(e, doc, M),
           \A x : x \in M <=> x \in K \/ x = field
    PROVE  d = e
<1>1. PICK n \in Nat : n = Len(doc)
  BY FlatFacts
<1>2. /\ IsFlat(c) /\ Len(c) = n
      /\ \A i \in 1..n :
            /\ c[i].key = doc[i].key
            /\ c[i] = IF doc[i].key \in K THEN CleanField(doc[i]) ELSE doc[i]
  BY <1>1, CleanFacts DEF CleanedBy
<1>3. /\ IsFlat(d) /\ Len(d) = n
      /\ \A i \in 1..n : d[i] = IF c[i].key = field THEN CleanField(c[i]) ELSE c[i]
  <2>1. PICK F : F = {field}
    OBVIOUS
  <2>2. /\ IsFlat(d) /\ Len(d) = n
        /\ \A i \in 1..n : d[i] = IF c[i].key \in F THEN CleanField(c[i]) ELSE c[i]
    BY <1>2, <2>1, CleanFacts DEF CleanedBy
  <2> QED BY <2>1, <2>2
<1>4. /\ IsFlat(e) /\ Len(e) = n
      /\ \A i \in 1..n :
            e[i] = IF doc[i].key \in M THEN CleanField(doc[i]) ELSE doc[i]
  BY <1>1, CleanFacts DEF CleanedBy
<1>5. ASSUME NEW i \in 1..n PROVE d[i] = e[i]
  <2>1. CleanField(CleanField(doc[i])) = CleanField(doc[i])
    BY <1>1, FlatFacts, CleanFieldFacts
  <2> QED BY <1>2, <1>3, <1>4, <2>1
<1>6. d \in Seq(Fields) /\ e \in Seq(Fields)
  BY <1>3, <1>4, FlatFacts
<1> QED BY <1>3, <1>4, <1>5, <1>6

\* strip_sensitive_fields, on a document: exactly the values of the sensitive fields
\* are replaced.
LEMMA StripsSensitive ==
    ASSUME NEW doc, IsFlat(doc)
    PROVE  /\ StripSensitive(Render(doc)) = Render(Cleaned(doc))
           /\ IsFlat(Cleaned(doc))
<1>1. PICK n \in Nat : n = Len(SensitiveFields)
  BY SanitizerAssumption
<1>2. PICK s \in Texts : s = Render(doc)
  BY FlatFacts, RestFacts
<1>3. PICK g : g = Folded("fields", s, s, n)
  OBVIOUS
<1>4. /\ g[1..0] = s
      /\ \A k \in 0..n - 1 : g[1..k + 1] = RedactField(g[1..k], SensitiveFields[k + 1])
  <2>1. /\ g[1..0] = s
        /\ \A k \in 0..n - 1 : g[1..k + 1] = FoldStep("fields", s, g[1..k], k + 1)
    BY <1>3, FoldFacts
  <2> QED BY <2>1 DEF FoldStep
<1> DEFINE K(k) == {SensitiveFields[m] : m \in 1..k}
           Reached == {k \in 0..n : g[1..k] = Render(CleanOf(doc, K(k)))}
<1>5. ASSUME NEW c, NEW S, c = CleanOf(doc, S), \A i \in 1..Len(doc) : doc[i].key \notin S
      PROVE  c = doc
  <2>1. /\ IsFlat(c) /\ Len(c) = Len(doc)
        /\ \A i \in 1..Len(doc) : c[i] = doc[i]
    BY <1>5, CleanFacts
  <2> QED BY <2>1, FlatFacts
<1>6. 0 \in Reached
  <2>1. K(0) = {}
    OBVIOUS
  <2> HIDE DEF K
  <2>2. CleanOf(doc, {}) = doc
    BY <1>5
  <2>3. g[1..0] = Render(CleanOf(doc, K(0)))
    BY <1>2, <1>4, <2>1, <2>2
  <2>4. 0 \in 0..n
    OBVIOUS
  <2> QED BY <2>3, <2>4
<1>7. ASSUME NEW k \in 0..n - 1, k \in Reached PROVE k + 1 \in Reached
  <2>1. PICK field : field = SensitiveFields[k + 1]
    OBVIOUS
  <2>2. k + 1 \in 1..n /\ field \in Names
    <3>1. k + 1 \in DOMAIN SensitiveFields
      BY <1>1, SanitizerAssumption
    <3> QED BY <2>1, <3>1 DEF Names, Range
  <2>3. K(k + 1) = K(k) \cup {field}
    <3>1. 1..k + 1 = 1..k \cup {k + 1}
      OBVIOUS
    <3> QED BY <2>1, <3>1
  <2>4. PICK c : c = CleanOf(doc, K(k))
    OBVIOUS
  <2> HIDE DEF K
  <2>5. IsFlat(c)
    BY <2>4, CleanFacts
  <2>6. RedactField(Render(c), field) = Render(CleanOf(c, {field}))
    BY <2>2, <2>5, RedactsField
  <2>7. CleanOf(c, {field}) = CleanOf(doc, K(k + 1))
    <3>1. PICK S, M, d, e : /\ S = K(k) /\ M = K(k + 1)
                            /\ d = CleanOf(c, {field}) /\ e = CleanOf(doc, M)
      OBVIOUS
    <3>2. \A x : x \in M <=> x \in S \/ x = field
      BY <2>3, <3>1
    <3>3. CleanedBy(c, doc, S) /\ CleanedBy(d, c, {field}) /\ CleanedBy(e, doc, M)
      BY <2>4, <3>1 DEF CleanedBy
    <3>4. d = e
      BY <3>2, <3>3, CleanOfMore
    <3> QED BY <3>1, <3>4
  <2>8. g[1..k + 1] = RedactField(g[1..k], field)
    BY <1>4, <2>1
  <2> QED BY <1>7, <2>4, <2>6, <2>7, <2>8
<1>8. g[1..n] = Render(CleanOf(doc, K(n)))
  <2>1. \A k \in 0..n : k \in Reached
    <3> HIDE DEF Reached
    <3> QED BY <1>6, <1>7, Upward
  <2>2. n \in 0..n
    OBVIOUS
  <2> QED BY <2>1, <2>2
<1>9. Cleaned(doc) = CleanOf(doc, K(n))
  <2>1. \A x : Contains(SensitiveFields, x) <=> x \in K(n)
    BY <1>1 DEF Contains
  <2> HIDE DEF K
  <2> QED BY <2>1 DEF Cleaned, CleanOf, CleanField
<1>10. IsFlat(Cleaned(doc))
  BY <1>9, CleanFacts
<1>11. StripSensitive(s) = g[1..n]
  BY <1>1, <1>3, StripsAreFolds
<1> QED BY <1>2, <1>8, <1>9, <1>10, <1>11

-----------------------------------------------------------------------------
(* What stands in a document's text.                                       *)

LEMMA FieldToken ==
    ASSUME NEW s, NEW b, NEW e, NEW key, NEW gap, NEW value,
           FieldAt(s, b, e, key, gap, value), NEW p \in b..e - 1
    PROVE  \/ TokenAt(s, p) \in {"lbrace", "comma", "rbrace", "quote", "colon", "space"}
           \/ TokenAt(s, p) = key
           \/ \E k \in 1..Size(value) : TokenAt(s, p) = TokenAt(value, k)
<1>1. /\ b \in Nat /\ e \in Nat /\ Size(gap) \in Nat /\ Size(value) \in Nat
      /\ e = b + 5 + Size(gap) + Size(value)
  BY TextFacts DEF FieldAt
<1>2. CASE p = b \/ p = b + 1 \/ p = b + 2 \/ p = b + 3 \/ p = b + 4
  BY <1>2 DEF FieldAt
<1>3. CASE p > b + 4 /\ p <= b + 4 + Size(gap)
  <2>1. PICK k \in 1..Size(gap) : p = b + 4 + k
    <3>1. p - b - 4 \in 1..Size(gap) /\ p = b + 4 + (p - b - 4)
      BY <1>1, <1>3
    <3> QED BY <3>1
  <2> QED BY <2>1 DEF FieldAt
<1>4. CASE p > b + 4 + Size(gap)
  <2>1. PICK k \in 1..Size(value) : p = b + 4 + Size(gap) + k
    <3>1. /\ p - b - 4 - Size(gap) \in 1..Size(value)
          /\ p = b + 4 + Size(gap) + (p - b - 4 - Size(gap))
      BY <1>1, <1>4
    <3> QED BY <3>1
  <2> QED BY <2>1 DEF FieldAt
<1> QED BY <1>1, <1>2, <1>3, <1>4

\* Every token but the last stands in a field or right before it.
LEMMA Covered ==
    ASSUME NEW doc \in Seq(Fields), doc # <<>>, NEW N \in Nat, N = Len(doc),
           NEW p \in 1..Size(Render(doc)) - 1
    PROVE  \E i \in 0..N - 1 : p \in Start(doc, i)..Start(doc, i + 1) - 1
<1> DEFINE Found == \E j \in 0..N - 1 : p \in Start(doc, j)..Start(doc, j + 1) - 1
           Reached == {i \in 0..N : p < Start(doc, i) => Found}
<1>1. /\ Size(Render(doc)) \in Nat /\ Start(doc, 0) = 1
      /\ Start(doc, N) = Size(Render(doc))
      /\ \A i \in 0..N : Start(doc, i) \in Nat
  BY Layout
<1>2. 0 \in Reached
  BY <1>1
<1>3. ASSUME NEW i \in 0..N - 1, i \in Reached PROVE i + 1 \in Reached
  <2>1. i \in 0..N /\ i + 1 \in 0..N
    OBVIOUS
  <2>2. CASE p < Start(doc, i)
    BY <1>3, <2>1, <2>2
  <2>3. CASE p >= Start(doc, i)
    <3>1. p < Start(doc, i + 1) => p \in Start(doc, i)..Start(doc, i + 1) - 1
      BY <1>1, <2>1, <2>3
    <3>2. p < Start(doc, i + 1) => Found
      BY <3>1
    <3> HIDE DEF Found
    <3> QED BY <2>1, <3>2
  <2>4. Start(doc, i) \in Nat
    BY <1>1, <2>1
  <2> HIDE DEF Reached
  <2> QED BY <2>2, <2>3, <2>4
<1>4. N \in Reached
  <2>1. \A i \in 0..N : i \in Reached
    <3> HIDE DEF Reached
    <3> QED BY <1>2, <1>3, Upward
  <2>2. N \in 0..N
    OBVIOUS
  <2> HIDE DEF Reached
  <2> QED BY <2>1, <2>2
<1>5. p < Start(doc, N)
  BY <1>1
<1> HIDE DEF Found
<1>6. Found
  BY <1>4, <1>5
<1> QED BY <1>6 DEF Found

LEMMA DocumentTokens ==
    ASSUME NEW doc, IsFlat(doc), NEW s, s = Render(doc)
    PROVE  /\ s \in Texts /\ Size(s) \in Nat /\ Size(s) >= 2
           /\ TokenAt(s, 1) = "lbrace" /\ TokenAt(s, Size(s)) = "rbrace"
           /\ \A p \in 1..Size(s) : TokenAt(s, p) # "control"
           /\ (\E p \in 1..Size(s) : TokenAt(s, p) = "injection")
                <=> \E i \in 1..Len(doc) : \E k \in 1..Size(doc[i].value) :
                       TokenAt(doc[i].value, k) = "injection"
           /\ \A w \in Names : Places(s, w) # {} <=> \E i \in 1..Len(doc) : doc[i].key = w
<1>1. PICK N \in Nat : N = Len(doc) /\ N >= 1
  BY FlatFacts
<1>2. /\ doc \in Seq(Fields) /\ doc # <<>>
      /\ \A i \in 1..N : doc[i] \in Fields /\ Plain(doc[i].key, doc[i].value)
  BY <1>1, FlatFacts
<1>3. /\ s \in Texts /\ Size(s) \in Nat /\ Start(doc, 0) = 1 /\ Start(doc, N) = Size(s)
      /\ \A i \in 0..N : /\ Start(doc, i) \in Nat /\ Start(doc, i) >= 1
                         /\ Start(doc, i) <= Size(s)
                         /\ TokenAt(s, Start(doc, i)) = Mark(doc, i)
      /\ \A i \in 0..N - 1 :
            FieldAt(s, Start(doc, i), Start(doc, i + 1), doc[i + 1].key,
                    doc[i + 1].gap, doc[i + 1].value)
  BY <1>1, <1>2, Layout
<1>4. ASSUME NEW p \in 1..Size(s) - 1
      PROVE  \E i \in 0..N - 1 : p \in Start(doc, i)..Start(doc, i + 1) - 1
  BY <1>1, <1>2, Covered
<1>5. TokenAt(s, 1) = "lbrace" /\ TokenAt(s, Size(s)) = "rbrace"
  <2>1. 0 \in 0..N /\ N \in 0..N /\ Mark(doc, 0) = "lbrace" /\ Mark(doc, N) = "rbrace"
    BY <1>1 DEF Mark
  <2> QED BY <1>3, <2>1
<1>6. Size(s) >= 2
  <2>1. Size(s) # 1 /\ Size(s) # 0
    <3>1. 0 \in 0..N - 1 /\ 0 \in 0..N
      BY <1>1
    <3>2. FieldAt(s, Start(doc, 0), Start(doc, 0 + 1), doc[0 + 1].key,
                  doc[0 + 1].gap, doc[0 + 1].value)
      BY <1>3, <3>1
    <3>3. Start(doc, 0) >= 1 /\ Start(doc, 0) <= Size(s)
      BY <1>3, <3>1
    <3> QED BY <1>3, <1>5, <3>3
  <2> QED BY <1>3, <2>1
<1>7. ASSUME NEW p \in 1..Size(s)
      PROVE  \/ TokenAt(s, p) \in {"lbrace", "comma", "rbrace", "quote", "colon", "space"}
             \/ \E i \in 1..N :
                   \/ TokenAt(s, p) = doc[i].key
                   \/ \E k \in 1..Size(doc[i].value) : TokenAt(s, p) = TokenAt(doc[i].value, k)
  <2>1. CASE p = Size(s)
    BY <1>5, <2>1
  <2>2. CASE p # Size(s)
    <3>1. p \in 1..Size(s) - 1
      BY <1>3, <2>2
    <3>2. PICK i \in 0..N - 1 : p \in Start(doc, i)..Start(doc, i + 1) - 1
      BY <1>4, <3>1
    <3>3. PICK j \in 1..N : j = i + 1
      BY <1>1
    <3>4. FieldAt(s, Start(doc, i), Start(doc, i + 1), doc[j].key, doc[j].gap, doc[j].value)
      BY <1>3, <3>3
    <3>5. \/ TokenAt(s, p) \in {"lbrace", "comma", "rbrace", "quote", "colon", "space"}
          \/ TokenAt(s, p) = doc[j].key
          \/ \E k \in 1..Size(doc[j].value) : TokenAt(s, p) = TokenAt(doc[j].value, k)
      BY <3>2, <3>4, FieldToken
    <3> QED BY <3>5
  <2> QED BY <2>1, <2>2
<1>8. ASSUME NEW p \in 1..Size(s) PROVE TokenAt(s, p) # "control"
  <2>1. "control" \in Marks
    BY DEF Marks
  <2> QED BY <1>2, <1>7, <2>1 DEF Plain
<1>9. ASSUME NEW p \in 1..Size(s), TokenAt(s, p) = "injection"
      PROVE  \E i \in 1..N : \E k \in 1..Size(doc[i].value) :
                TokenAt(doc[i].value, k) = "injection"
  BY <1>2, <1>7, <1>9 DEF Plain
<1>10. ASSUME NEW i \in 1..N, NEW k \in 1..Size(doc[i].value),
              TokenAt(doc[i].value, k) = "injection"
       PROVE  \E p \in 1..Size(s) : TokenAt(s, p) = "injection"
  <2>1. PICK h \in 0..N - 1 : i = h + 1
    <3>1. i - 1 \in 0..N - 1 /\ i = i - 1 + 1
      BY <1>1
    <3> QED BY <3>1
  <2>2. PICK b, e, gap, value : /\ b = Start(doc, h) /\ e = Start(doc, h + 1)
                                /\ gap = doc[i].gap /\ value = doc[i].value
    OBVIOUS
  <2>3. FieldAt(s, b, e, doc[i].key, gap, value)
    BY <1>3, <2>1, <2>2
  <2>4. TokenAt(s, b + 4 + Size(gap) + k) = "injection"
    BY <1>10, <2>2, <2>3 DEF FieldAt
  <2>5. b + 4 + Size(gap) + k \in 1..Size(s)
    <3>1. /\ b \in Nat /\ e <= Size(s) /\ e = b + 5 + Size(gap) + Size(value)
          /\ Size(gap) \in Nat /\ Size(value) \in Nat /\ k \in 1..Size(value)
      BY <2>2, <2>3, TextFacts DEF FieldAt
    <3> QED BY <1>3, <3>1
  <2> QED BY <2>4, <2>5
<1>11. ASSUME NEW w \in Names, NEW i \in 1..N, doc[i].key = w PROVE Places(s, w) # {}
  <2>1. PICK h \in 0..N - 1 : i = h + 1
    <3>1. i - 1 \in 0..N - 1 /\ i = i - 1 + 1
      BY <1>1
    <3> QED BY <3>1
  <2>2. PICK b, e, gap, value : /\ b = Start(doc, h) /\ e = Start(doc, h + 1)
                                /\ gap = doc[i].gap /\ value = doc[i].value
    OBVIOUS
  <2>3. FieldAt(s, b, e, w, gap, value)
    BY <1>3, <1>11, <2>1, <2>2
  <2>4. Plain(w, value)
    BY <1>2, <1>11, <2>2
  <2>5. PICK p \in b..e - 1 : p = b + 1
    <3>1. /\ b \in Nat /\ e \in Nat /\ e = b + 5 + Size(gap) + Size(value)
          /\ Size(gap) \in Nat /\ Size(value) \in Nat
      BY <2>3, TextFacts DEF FieldAt
    <3>2. b + 1 \in b..e - 1
      BY <3>1
    <3> QED BY <3>2
  <2>6. p \in Places(s, w)
    BY <2>3, <2>4, <2>5, FieldPlaces
  <2> QED BY <2>6
<1>12. ASSUME NEW w \in Names, NEW p \in Places(s, w)
       PROVE  \E i \in 1..N : doc[i].key = w
  <2>1. p \in 1..Size(s) - 1
    <3>1. p \in Nat /\ p >= 1 /\ p + 2 <= Size(s)
      BY <1>3, PlaceMeans
    <3> QED BY <1>3, <3>1
  <2>2. PICK i \in 0..N - 1 : p \in Start(doc, i)..Start(doc, i + 1) - 1
    BY <1>4, <2>1
  <2>3. PICK j \in 1..N : j = i + 1
    BY <1>1
  <2>4. /\ FieldAt(s, Start(doc, i), Start(doc, i + 1), doc[j].key, doc[j].gap, doc[j].value)
        /\ Plain(doc[j].key, doc[j].value)
    BY <1>2, <1>3, <2>3
  <2>5. doc[j].key = w
    BY <2>2, <2>4, FieldPlaces
  <2> QED BY <2>5
<1>13. \A w \in Names : Places(s, w) # {} <=> \E i \in 1..Len(doc) : doc[i].key = w
  BY <1>1, <1>11, <1>12
<1>14. (\E p \in 1..Size(s) : TokenAt(s, p) = "injection")
          <=> \E i \in 1..Len(doc) : \E k \in 1..Size(doc[i].value) :
                 TokenAt(doc[i].value, k) = "injection"
  BY <1>1, <1>9, <1>10
<1> QED BY <1>3, <1>5, <1>6, <1>8, <1>13, <1>14

\* validate_payload, on a document.
LEMMA ValidatesDocument ==
    ASSUME NEW doc, IsFlat(doc)
    PROVE  Valid(Render(doc)) <=> Acceptable(doc)
<1>1. PICK s : s = Render(doc)
  OBVIOUS
<1>2. /\ s \in Texts /\ Size(s) \in Nat /\ Size(s) >= 2 /\ TokenAt(s, 1) = "lbrace"
      /\ (\E p \in 1..Size(s) : TokenAt(s, p) = "injection")
           <=> \E i \in 1..Len(doc) : \E k \in 1..Size(doc[i].value) :
                  TokenAt(doc[i].value, k) = "injection"
      /\ \A w \in Names : Places(s, w) # {} <=> \E i \in 1..Len(doc) : doc[i].key = w
  BY <1>1, DocumentTokens
<1>3. DOMAIN doc = 1..Len(doc)
  BY FlatFacts
<1>4. LooksLikeJson(s)
  <2> DEFINE S == {i \in 1..Size(s) : TokenAt(s, i) # "space"} \cup {Size(s) + 1}
  <2>1. 1 \in S /\ S \in SUBSET Nat /\ \A x \in S : 1 <= x
    BY <1>2
  <2>2. Min(S) = 1
    <3> HIDE DEF S
    <3> QED BY <2>1, MinIs
  <2>3. Min({i \in 1..Len(s) : s[i] # "space"} \cup {Len(s) + 1}) = 1
    BY <2>2 DEF Size, TokenAt
  <2>4. 1 <= Len(s) /\ s[1] = "lbrace"
    BY <1>2 DEF Size, TokenAt
  <2> QED BY <2>3, <2>4 DEF LooksLikeJson
<1>5. s # <<>>
  BY <1>2 DEF Size
<1>6. (\A word \in Required : Places(s, word) # {}) <=> Required \subseteq Keys(doc)
  <2>1. \A word \in Required : word \in Names
    BY DEF Names
  <2>2. \A w : w \in Keys(doc) <=> \E i \in 1..Len(doc) : doc[i].key = w
    BY <1>3 DEF Keys
  <2>3. \A word \in Required : Places(s, word) # {} <=> word \in Keys(doc)
    BY <1>2, <2>1, <2>2
  <2> QED BY <2>3
<1>7. Contains(s, "injection") <=> \E p \in 1..Size(s) : TokenAt(s, p) = "injection"
  BY DEF Contains, Size, TokenAt
<1>8. (\A i \in DOMAIN doc : ~Contains(doc[i].value, "injection"))
        <=> ~ \E i \in 1..Len(doc) : \E k \in 1..Size(doc[i].value) :
                 TokenAt(doc[i].value, k) = "injection"
  BY <1>3 DEF Contains, Size, TokenAt
<1>9. Valid(s) <=> Len(s) <= MaxLength /\ Required \subseteq Keys(doc)
                     /\ \A i \in DOMAIN doc : ~Contains(doc[i].value, "injection")
  BY <1>2, <1>4, <1>5, <1>6, <1>7, <1>8 DEF Valid
<1> QED BY <1>1, <1>9 DEF Acceptable

-----------------------------------------------------------------------------
(* strip_control_chars and trim, and the whole of sanitize.                *)

Appends(u, y, c) == u = Append(y, c)

LEMMA AppendFacts ==
    ASSUME NEW y \in Texts, NEW c \in Tokens, NEW u, Appends(u, y, c), NEW n, n = Size(y) + 1
    PROVE  /\ u \in Texts /\ Size(y) \in Nat /\ Size(u) = n /\ TokenAt(u, n) = c
           /\ \A k \in 1..Size(y) : TokenAt(u, k) = TokenAt(y, k)
BY DEF Texts, Size, TokenAt, Appends

\* w in blanks, with one control character before it.
Wrapped(u, w) ==
    /\ u \in Texts /\ w \in Texts /\ Size(u) = Size(w) + 3
    /\ TokenAt(u, 1) = "space" /\ TokenAt(u, 2) = "control"
    /\ TokenAt(u, Size(w) + 3) = "space"
    /\ \A k \in 1..Size(w) : TokenAt(u, 2 + k) = TokenAt(w, k)

\* w in blanks.
Blanked(z, w) ==
    /\ z \in Texts /\ w \in Texts /\ Size(z) = Size(w) + 2
    /\ TokenAt(z, 1) = "space" /\ TokenAt(z, Size(w) + 2) = "space"
    /\ \A k \in 1..Size(w) : TokenAt(z, 1 + k) = TokenAt(w, k)

LEMMA TextIsWrapped ==
    ASSUME NEW d, d.lost = 0, NEW w \in Texts, w = Render(d.fields)
    PROVE  Wrapped(Text(d), w)
<1>1. PICK v : v = SubSeq(w, 1, Len(w) - d.lost)
  OBVIOUS
<1>2. v = w
  BY <1>1 DEF Texts
<1>3. PICK a, b, u, x : /\ a = <<"space", "control">> /\ b = <<"space">>
                        /\ x = a \o w /\ u = x \o b
  OBVIOUS
<1>4. Text(d) = u
  BY <1>1, <1>2, <1>3 DEF Text
<1>5. /\ a \in Texts /\ Size(a) = 2 /\ TokenAt(a, 1) = "space" /\ TokenAt(a, 2) = "control"
      /\ b \in Texts /\ Size(b) = 1 /\ TokenAt(b, 1) = "space"
  BY <1>3, TokenFacts DEF Texts, Size, TokenAt
<1>6. Joins(x, a, w)
  BY <1>3, <1>5 DEF Joins
<1>7. Joins(u, x, b)
  BY <1>3, <1>5, <1>6, JoinFacts DEF Joins
<1>8. /\ u \in Texts /\ Size(w) \in Nat /\ Size(x) = 2 + Size(w) /\ Size(u) = Size(w) + 3
  BY <1>5, <1>6, <1>7, JoinFacts
<1>9. ASSUME NEW k \in 1..Size(x) PROVE TokenAt(u, k) = TokenAt(x, k)
  BY <1>7, JoinFacts
<1>10. TokenAt(u, 1) = "space" /\ TokenAt(u, 2) = "control"
  <2>1. 1 \in 1..Size(x) /\ 2 \in 1..Size(x) /\ 1 \in 1..Size(a) /\ 2 \in 1..Size(a)
    BY <1>5, <1>8
  <2> QED BY <1>5, <1>6, <1>9, <2>1, JoinFacts
<1>11. ASSUME NEW k \in 1..Size(w) PROVE TokenAt(u, 2 + k) = TokenAt(w, k)
  <2>1. 2 + k \in 1..Size(x)
    BY <1>8
  <2>2. TokenAt(x, Size(a) + k) = TokenAt(w, k)
    BY <1>6, JoinFacts
  <2> QED BY <1>5, <1>9, <2>1, <2>2
<1>12. TokenAt(u, Size(w) + 3) = "space"
  <2>1. 1 \in 1..Size(b) /\ Size(x) + 1 = Size(w) + 3
    BY <1>5, <1>8
  <2>2. TokenAt(u, Size(x) + 1) = TokenAt(b, 1)
    BY <1>7, <2>1, JoinFacts
  <2> QED BY <1>5, <2>1, <2>2
<1> QED BY <1>4, <1>8, <1>10, <1>11, <1>12 DEF Wrapped

\* The control character goes and nothing else.
LEMMA StripsControl ==
    ASSUME NEW u, NEW w, Wrapped(u, w), \A p \in 1..Size(w) : TokenAt(w, p) # "control"
    PROVE  Blanked(StripControl(u), w)
<1>1. PICK n \in Nat : n = Size(w)
  BY TextFacts DEF Wrapped
<1>2. /\ u \in Texts /\ w \in Texts /\ Size(u) = n + 3
      /\ TokenAt(u, 1) = "space" /\ TokenAt(u, 2) = "control" /\ TokenAt(u, n + 3) = "space"
      /\ \A k \in 1..n : TokenAt(u, 2 + k) = TokenAt(w, k)
  BY <1>1 DEF Wrapped
<1>3. PICK f : f = Folded("control", u, <<>>, n + 3)
  OBVIOUS
<1>4. StripControl(u) = f[1..n + 3]
  BY <1>2, <1>3, StripsAreFolds
<1>5. /\ f[1..0] = <<>>
      /\ \A k \in 0..n + 2, i \in 1..n + 3 :
            i = k + 1 => IF TokenAt(u, i) = "control" THEN f[1..i] = f[1..k]
                                                     ELSE Appends(f[1..i], f[1..k], TokenAt(u, i))
  <2>1. n + 3 \in Nat /\ n + 3 - 1 = n + 2
    OBVIOUS
  <2>2. \A k \in 0..n + 3 - 1 : f[1..k + 1] = FoldStep("control", u, f[1..k], k + 1)
    BY <1>3, <2>1, FoldFacts
  <2>3. f[1..0] = <<>>
    BY <1>3, <2>1, FoldFacts
  <2>4. ASSUME NEW k \in 0..n + 2, NEW i \in 1..n + 3, i = k + 1
        PROVE  IF TokenAt(u, i) = "control" THEN f[1..i] = f[1..k]
                                            ELSE Appends(f[1..i], f[1..k], TokenAt(u, i))
    <3>1. f[1..i] = FoldStep("control", u, f[1..k], i)
      BY <2>1, <2>2, <2>4
    <3> QED BY <3>1 DEF FoldStep, KeepCharacter, TokenAt, Appends
  <2> QED BY <2>3, <2>4
<1> DEFINE Left(k) == f[1..k + 2]
           Good(k) == /\ Left(k) \in Texts /\ Size(Left(k)) = k + 1
                      /\ TokenAt(Left(k), 1) = "space"
                      /\ \A j \in 1..k : TokenAt(Left(k), 1 + j) = TokenAt(w, j)
           Reached == {k \in 0..n : Good(k)}
<1>6. 0 \in Reached
  <2>1. PICK o, t, v : /\ o \in 0..n + 2 /\ o \in 0..n /\ o = 0
                       /\ t \in 0..n + 2 /\ t \in 1..n + 3 /\ t = o + 1 /\ t = 1
                       /\ v \in 1..n + 3 /\ v = t + 1 /\ v = 2 /\ o + 2 = v
    OBVIOUS
  <2>2. PICK x, y, z : x = f[1..o] /\ y = f[1..t] /\ z = f[1..v]
    OBVIOUS
  <2>3. TokenAt(u, t) # "control" /\ TokenAt(u, t) = "space" /\ TokenAt(u, v) = "control"
    BY <1>2, <2>1
  <2>4. Appends(y, x, "space") /\ z = y
    BY <1>5, <2>1, <2>2, <2>3
  <2>5. /\ <<"space">> \in Texts /\ Size(<<"space">>) = 1 /\ TokenAt(<<"space">>, 1) = "space"
    BY ShortTexts, TokenFacts
  <2>6. y = <<"space">>
    BY <1>5, <2>1, <2>2, <2>4 DEF Appends
  <2>7. Good(o)
    <3>1. z \in Texts /\ Size(z) = 1 /\ TokenAt(z, 1) = "space"
      BY <2>4, <2>5, <2>6
    <3> QED BY <2>1, <2>2, <3>1
  <2> HIDE DEF Good
  <2> QED BY <2>1, <2>7
<1>7. ASSUME NEW k \in 0..n - 1, k \in Reached PROVE k + 1 \in Reached
  <2>1. PICK y : y = f[1..k + 2] /\ y \in Texts /\ Size(y) = k + 1
                 /\ TokenAt(y, 1) = "space"
                 /\ \A j \in 1..k : TokenAt(y, 1 + j) = TokenAt(w, j)
    BY <1>7
  <2>2. PICK i \in Nat : i = k + 1
    OBVIOUS
  <2>3. i \in 1..n /\ k + 2 \in 0..n + 2 /\ k + 2 + 1 = 2 + i /\ i + 2 = 2 + i
        /\ i \in 0..n /\ i - 1 = k
    BY <2>2
  <2>4. PICK c \in Tokens : c = TokenAt(w, i) /\ c # "control" /\ c = TokenAt(u, 2 + i)
    BY <1>1, <1>2, <2>3, TextFacts
  <2>5. PICK z : z = f[1..i + 2]
    OBVIOUS
  <2>6. Appends(z, y, c)
    <3>1. PICK h, v : h = k + 2 /\ v = h + 1 /\ v = i + 2 /\ h \in 0..n + 2 /\ v \in 1..n + 3
                      /\ v = 2 + i
      BY <2>2
    <3>2. y = f[1..h] /\ z = f[1..v] /\ TokenAt(u, v) = c
      BY <2>1, <2>4, <2>5, <3>1
    <3> QED BY <1>5, <2>4, <3>1, <3>2
  <2>7. PICK m : m = Size(y) + 1
    OBVIOUS
  <2>8. /\ z \in Texts /\ Size(z) = m /\ TokenAt(z, m) = c
        /\ \A j \in 1..Size(y) : TokenAt(z, j) = TokenAt(y, j)
    BY <2>1, <2>4, <2>6, <2>7, AppendFacts
  <2>9. m = i + 1 /\ m = 1 + i
    BY <2>1, <2>2, <2>7
  <2>10. TokenAt(z, 1) = "space"
    <3>1. 1 \in 1..Size(y)
      BY <2>1
    <3> QED BY <2>1, <2>8, <3>1
  <2>11. ASSUME NEW j \in 1..i PROVE TokenAt(z, 1 + j) = TokenAt(w, j)
    <3>1. CASE j = i
      BY <2>4, <2>8, <2>9, <3>1
    <3>2. CASE j # i
      <4>1. j \in 1..k /\ 1 + j \in 1..Size(y)
        BY <2>1, <2>2, <3>2
      <4> QED BY <2>1, <2>8, <4>1
    <3> QED BY <3>1, <3>2
  <2>12. Good(i)
    BY <2>5, <2>8, <2>9, <2>10, <2>11
  <2> HIDE DEF Good
  <2> QED BY <2>2, <2>3, <2>12
<1>8. Good(n)
  <2>1. \A k \in 0..n : k \in Reached
    <3> HIDE DEF Reached
    <3> QED BY <1>6, <1>7, Upward
  <2>2. n \in 0..n
    OBVIOUS
  <2> HIDE DEF Good
  <2> QED BY <2>1, <2>2
<1>9. PICK y : y = f[1..n + 2] /\ y \in Texts /\ Size(y) = n + 1
               /\ TokenAt(y, 1) = "space"
               /\ \A j \in 1..n : TokenAt(y, 1 + j) = TokenAt(w, j)
  BY <1>8
<1>10. PICK z : z = f[1..n + 3]
  OBVIOUS
<1>11. Appends(z, y, "space")
  <2>1. PICK h, v : h \in 0..n + 2 /\ h = n + 2 /\ v \in 1..n + 3 /\ v = h + 1 /\ v = n + 3
    OBVIOUS
  <2> QED BY <1>2, <1>5, <1>9, <1>10, <2>1
<1>12. PICK m : m = Size(y) + 1
  OBVIOUS
<1>13. /\ z \in Texts /\ Size(z) = m /\ TokenAt(z, m) = "space" /\ m = n + 2
       /\ \A j \in 1..n + 1 : TokenAt(z, j) = TokenAt(y, j)
  BY <1>9, <1>11, <1>12, AppendFacts, TokenFacts
<1>14. TokenAt(z, 1) = "space" /\ \A j \in 1..n : TokenAt(z, 1 + j) = TokenAt(w, j)
  <2>1. 1 \in 1..n + 1 /\ \A j \in 1..n : 1 + j \in 1..n + 1
    OBVIOUS
  <2> QED BY <1>9, <1>13, <2>1
<1>15. Blanked(z, w)
  BY <1>1, <1>2, <1>13, <1>14 DEF Blanked
<1> QED BY <1>4, <1>10, <1>15

LEMMA TrimsBlanks ==
    ASSUME NEW z, NEW w, Blanked(z, w), Size(w) >= 1,
           TokenAt(w, 1) # "space", TokenAt(w, Size(w)) # "space"
    PROVE  Trim(z) = w
<1>1. PICK n \in Nat : n = Size(w) /\ n >= 1
  BY TextFacts DEF Blanked
<1>2. /\ z \in Texts /\ w \in Texts /\ Size(z) = n + 2
      /\ TokenAt(z, 1) = "space" /\ TokenAt(z, n + 2) = "space"
      /\ \A k \in 1..n : TokenAt(z, 1 + k) = TokenAt(w, k)
  BY <1>1 DEF Blanked
<1> DEFINE black == {i \in 1..Size(z) : TokenAt(z, i) # "space"}
<1>3. 2 \in black /\ n + 1 \in black
  <2>1. 1 \in 1..n /\ n \in 1..n /\ 1 + 1 = 2 /\ 1 + n = n + 1
    BY <1>1
  <2>2. TokenAt(z, 2) # "space" /\ TokenAt(z, n + 1) # "space"
    BY <1>1, <1>2, <2>1
  <2> QED BY <1>1, <1>2, <2>2
<1>4. black \in SUBSET Nat /\ \A x \in black : 2 <= x /\ x <= n + 1
  BY <1>2
<1>5. Min(black) = 2 /\ Max(black) = n + 1
  <2> HIDE DEF black
  <2> QED BY <1>3, <1>4, MinIs, MaxIs
<1>6. Trim(z) = SubSeq(z, 2, n + 1)
  <2>1. black = {i \in 1..Len(z) : z[i] # "space"}
    BY DEF Size, TokenAt
  <2> HIDE DEF black
  <2> QED BY <1>3, <1>5, <2>1 DEF Trim
<1>7. PICK j \in Nat : j = n + 1
  OBVIOUS
<1>8. PICK u : u = SubSeq(z, 2, j)
  OBVIOUS
<1>9. Cuts(u, z, 2, j)
  BY <1>1, <1>2, <1>7, <1>8 DEF Cuts
<1>10. Size(w) = j - 2 + 1
  BY <1>1, <1>7
<1>11. ASSUME NEW k \in 1..Size(w) PROVE TokenAt(z, 2 + k - 1) = TokenAt(w, k)
  <2>1. k \in 1..n /\ 2 + k - 1 = 1 + k
    BY <1>1
  <2> QED BY <1>2, <2>1
<1>12. u = w
  BY <1>2, <1>9, <1>10, <1>11, CutIs
<1> QED BY <1>6, <1>7, <1>8, <1>12

\* sanitize, given a whole document: the document with the values of the sensitive
\* fields replaced and nothing else changed, unless validate_payload refuses it.
THEOREM SanitizesDocument ==
    ASSUME NEW d, d.lost = 0, IsFlat(d.fields)
    PROVE  Sanitize(Text(d)) = IF Acceptable(d.fields) THEN Render(Cleaned(d.fields))
                                                       ELSE Refused
<1>1. PICK w : w = Render(d.fields)
  OBVIOUS
<1>2. /\ w \in Texts /\ Size(w) \in Nat /\ Size(w) >= 2
      /\ TokenAt(w, 1) = "lbrace" /\ TokenAt(w, Size(w)) = "rbrace"
      /\ \A p \in 1..Size(w) : TokenAt(w, p) # "control"
  BY <1>1, DocumentTokens
<1>3. Wrapped(Text(d), w)
  BY <1>1, <1>2, TextIsWrapped
<1>4. Blanked(StripControl(Text(d)), w)
  BY <1>2, <1>3, StripsControl
<1>5. Trim(StripControl(Text(d))) = w
  BY <1>2, <1>4, TrimsBlanks
<1>6. Valid(w) <=> Acceptable(d.fields)
  BY <1>1, ValidatesDocument
<1>7. StripSensitive(w) = Render(Cleaned(d.fields))
  BY <1>1, StripsSensitive
<1> QED BY <1>5, <1>6, <1>7 DEF Sanitize

LEMMA DocumentsTold ==
    ASSUME NEW doc, IsFlat(doc)
    PROVE  Render(doc) # Refused /\ Render(doc) # OutOfRange
<1>1. PICK s : s = Render(doc)
  OBVIOUS
<1>2. Size(s) >= 2 /\ TokenAt(s, 1) = "lbrace"
  BY <1>1, DocumentTokens
<1>3. Size(Refused) = 0 /\ TokenAt(OutOfRange, 1) = "out_of_range"
  BY DEF Refused, OutOfRange, Size, TokenAt
<1> QED BY <1>1, <1>2, <1>3

-----------------------------------------------------------------------------
(* Where redaction throws.                                                 *)

LEMMA OutOfRangeIsNoText == OutOfRange \notin Texts
<1>1. OutOfRange \in Texts => "out_of_range" \in Tokens
  <2>1. PICK o : o = OutOfRange /\ Size(o) = 1 /\ TokenAt(o, 1) = "out_of_range"
    <3>1. Size(OutOfRange) = 1 /\ TokenAt(OutOfRange, 1) = "out_of_range"
      BY DEF OutOfRange, Size, TokenAt
    <3> QED BY <3>1
  <2>2. ASSUME o \in Texts PROVE "out_of_range" \in Tokens
    <3>1. 1 \in 1..Size(o)
      BY <2>1
    <3> QED BY <2>1, <2>2, <3>1, TextFacts
  <2> QED BY <2>1, <2>2
<1>2. "out_of_range" \notin Tokens
  BY SanitizerAssumption DEF Tokens, Marks, Required
<1> QED BY <1>1, <1>2

EndsEscaped(s) == Size(s) >= 1 /\ TokenAt(s, Size(s)) = "backslash"

LEMMA JoinedEnd ==
    ASSUME NEW u, NEW a, NEW b, Joins(u, a, b), ~EndsEscaped(a), ~EndsEscaped(b)
    PROVE  ~EndsEscaped(u)
<1>1. /\ Size(a) \in Nat /\ Size(b) \in Nat /\ Size(u) = Size(a) + Size(b)
      /\ \A k \in 1..Size(a) : TokenAt(u, k) = TokenAt(a, k)
      /\ \A k \in 1..Size(b) : TokenAt(u, Size(a) + k) = TokenAt(b, k)
  BY JoinFacts
<1>2. CASE Size(b) = 0
  <2>1. Size(u) = Size(a)
    BY <1>1, <1>2
  <2>2. Size(a) >= 1 => Size(a) \in 1..Size(a)
    BY <1>1
  <2> QED BY <1>1, <2>1, <2>2 DEF EndsEscaped
<1>3. CASE Size(b) # 0
  <2>1. Size(b) \in 1..Size(b) /\ Size(b) >= 1
    BY <1>1, <1>3
  <2>2. TokenAt(u, Size(u)) = TokenAt(b, Size(b))
    BY <1>1, <2>1
  <2> QED BY <2>1, <2>2 DEF EndsEscaped
<1> QED BY <1>2, <1>3

LEMMA JoinedEndFull ==
    ASSUME NEW u, NEW a, NEW b, Joins(u, a, b), Size(b) >= 1, ~EndsEscaped(b)
    PROVE  ~EndsEscaped(u)
<1>1. /\ Size(a) \in Nat /\ Size(b) \in Nat /\ Size(u) = Size(a) + Size(b)
      /\ \A k \in 1..Size(b) : TokenAt(u, Size(a) + k) = TokenAt(b, k)
  BY JoinFacts
<1>2. Size(b) \in 1..Size(b)
  BY <1>1
<1>3. TokenAt(u, Size(u)) = TokenAt(b, Size(b))
  BY <1>1, <1>2
<1> QED BY <1>3 DEF EndsEscaped

\* redact_field_value: of a text that does not end in a backslash it makes another.
LEMMA RedactsWholly ==
    ASSUME NEW s \in Texts, ~EndsEscaped(s), NEW field
    PROVE  RedactField(s, field) \in Texts /\ ~EndsEscaped(RedactField(s, field))
<1> DEFINE g == RedactedAt(s, field)
           Right(p) == g[p] \in Texts /\ ~EndsEscaped(g[p])
           Reached == {p \in 1..Size(s) + 1 : Right(p)}
<1>1. Size(s) \in Nat
  BY TextFacts
<1>2. ASSUME NEW p \in 1..Size(s) + 1 PROVE g[p] \in Texts /\ g[p] # OutOfRange
  BY RedactedTyped, OutOfRangeIsNoText DEF EndsEscaped
<1>3. ASSUME NEW p \in 1..Size(s) + 1, \A q \in p + 1..Size(s) + 1 : Right(q)
      PROVE  Right(p)
  <2>1. g[p] = Redacted(s, field, g, p)
    BY RedactedAtFacts
  <2>2. CASE NoValue(s, field, p)
    <3>1. PICK u : u = SubSeq(s, p, Size(s))
      OBVIOUS
    <3>2. Cuts(u, s, p, Size(s))
      BY <1>1, <3>1 DEF Cuts
    <3>3. g[p] = u
      BY <2>1, <2>2, <3>1, RedactedMeans
    <3>4. ~EndsEscaped(u)
      <4>1. PICK m : m = Size(s) - p + 1 /\ m = Size(u)
        BY <3>2, CutFacts
      <4>2. m >= 1 => m \in 1..Size(s) - p + 1 /\ p + m - 1 = Size(s) /\ Size(s) >= 1
        BY <1>1, <4>1
      <4>3. m >= 1 => TokenAt(u, m) = TokenAt(s, p + m - 1)
        BY <3>2, <4>2, CutFacts
      <4> QED BY <4>1, <4>2, <4>3 DEF EndsEscaped
    <3> HIDE DEF g
    <3> QED BY <1>2, <3>3, <3>4
  <2>3. CASE ~NoValue(s, field, p)
    <3>1. PICK end, start : end = NextEnd(s, field, p) /\ start = NextStart(s, field, p)
      OBVIOUS
    <3>2. /\ start \in Nat /\ end \in Nat /\ start > p /\ start <= Size(s) /\ end >= start
          /\ end > Size(s) + 1 => TokenAt(s, Size(s)) = "backslash"
      BY <2>3, <3>1, NextFacts
    <3>3. end <= Size(s) + 1
      BY <1>1, <3>2 DEF EndsEscaped
    <3>4. end \in p + 1..Size(s) + 1 /\ end \in 1..Size(s) + 1
      BY <1>1, <3>2, <3>3
    <3>5. Right(end)
      BY <1>3, <3>4
    <3>6. PICK r \in Texts : r = g[end] /\ ~EndsEscaped(r) /\ r # OutOfRange
      BY <1>2, <3>4, <3>5
    <3>7. PICK red : red = Redacted(s, field, g, p)
      OBVIOUS
    <3> HIDE DEF g
    <3>8. PICK u, w : Joins(w, u, Quoted("REDACTED")) /\ Joins(red, w, r)
      BY <2>3, <3>1, <3>3, <3>6, <3>7, RedactedParts
    <3>9. ~EndsEscaped(w)
      <4>1. PICK q : /\ q = Quoted("REDACTED") /\ Size(q) = 3
                     /\ TokenAt(q, 3) = "quote"
        BY ShortTexts, TokenFacts
      <4>2. ~EndsEscaped(q)
        BY <4>1 DEF EndsEscaped
      <4> QED BY <3>8, <4>1, <4>2, JoinedEndFull
    <3>10. ~EndsEscaped(red)
      BY <3>6, <3>8, <3>9, JoinedEnd
    <3> QED BY <1>2, <2>1, <3>7, <3>10
  <2> QED BY <2>2, <2>3
<1>4. \A p \in 1..Size(s) + 1 : p \in Reached
  <2>1. \A p \in 1..Size(s) + 1 :
           (\A q \in p + 1..Size(s) + 1 : q \in Reached) => p \in Reached
    <3> HIDE DEF Right
    <3> QED BY <1>3
  <2>2. Size(s) + 1 \in Nat
    BY <1>1
  <2> HIDE DEF Reached
  <2> QED BY <2>1, <2>2, Downward
<1>5. 1 \in 1..Size(s) + 1
  BY <1>1
<1>6. RedactField(s, field) = g[1]
  BY RedactedAtFacts
<1> HIDE DEF g
<1> QED BY <1>4, <1>5, <1>6

LEMMA StripsWholly ==
    ASSUME NEW s \in Texts, ~EndsEscaped(s)
    PROVE  StripSensitive(s) \in Texts
<1>1. PICK n \in Nat : n = Len(SensitiveFields)
  BY SanitizerAssumption
<1>2. PICK g : g = Folded("fields", s, s, n)
  OBVIOUS
<1>3. /\ g[1..0] = s
      /\ \A k \in 0..n - 1 : g[1..k + 1] = RedactField(g[1..k], SensitiveFields[k + 1])
  <2>1. /\ g[1..0] = s
        /\ \A k \in 0..n - 1 : g[1..k + 1] = FoldStep("fields", s, g[1..k], k + 1)
    BY <1>2, FoldFacts
  <2> QED BY <2>1 DEF FoldStep
<1> DEFINE Right(y) == y \in Texts /\ ~EndsEscaped(y)
           Reached == {k \in 0..n : Right(g[1..k])}
<1>4. 0 \in Reached
  <2>1. Right(s) /\ 0 \in 0..n
    OBVIOUS
  <2> HIDE DEF Right
  <2> QED BY <1>3, <2>1
<1>5. ASSUME NEW k \in 0..n - 1, k \in Reached PROVE k + 1 \in Reached
  <2>1. PICK y : y = g[1..k] /\ Right(y)
    BY <1>5
  <2>2. PICK z : z = g[1..k + 1]
    OBVIOUS
  <2>3. Right(z)
    BY <1>3, <2>1, <2>2, RedactsWholly
  <2>4. k + 1 \in 0..n
    OBVIOUS
  <2> HIDE DEF Right
  <2> QED BY <2>2, <2>3, <2>4
<1>6. Right(g[1..n])
  <2>1. \A k \in 0..n : k \in Reached
    <3> HIDE DEF Reached
    <3> QED BY <1>4, <1>5, Upward
  <2>2. n \in 0..n
    OBVIOUS
  <2> HIDE DEF Right
  <2> QED BY <2>1, <2>2
<1>7. StripSensitive(s) = g[1..n]
  BY <1>1, <1>2, StripsAreFolds
<1> QED BY <1>6, <1>7

LEMMA StripControlTyped ==
    ASSUME NEW s \in Texts
    PROVE  StripControl(s) \in Texts
<1>1. PICK n \in Nat : n = Size(s)
  BY TextFacts
<1>2. PICK f : f = Folded("control", s, <<>>, n)
  OBVIOUS
<1>3. StripControl(s) = f[1..n]
  BY <1>1, <1>2, StripsAreFolds
<1>4. /\ f[1..0] = <<>>
      /\ \A k \in 0..n - 1, i \in 1..n :
            i = k + 1 => \/ f[1..i] = f[1..k]
                         \/ Appends(f[1..i], f[1..k], TokenAt(s, i))
  <2>1. \A k \in 0..n - 1 : f[1..k + 1] = FoldStep("control", s, f[1..k], k + 1)
    BY <1>2, FoldFacts
  <2>2. f[1..0] = <<>>
    BY <1>2, FoldFacts
  <2>3. ASSUME NEW k \in 0..n - 1, NEW i \in 1..n, i = k + 1
        PROVE  \/ f[1..i] = f[1..k]
               \/ Appends(f[1..i], f[1..k], TokenAt(s, i))
    <3>1. f[1..i] = FoldStep("control", s, f[1..k], i)
      BY <2>1, <2>3
    <3> QED BY <3>1 DEF FoldStep, KeepCharacter, TokenAt, Appends
  <2> QED BY <2>2, <2>3
<1> DEFINE Reached == {k \in 0..n : f[1..k] \in Texts}
<1>5. 0 \in Reached
  <2>1. <<>> \in Texts /\ 0 \in 0..n
    BY DEF Texts
  <2> QED BY <1>4, <2>1
<1>6. ASSUME NEW k \in 0..n - 1, k \in Reached PROVE k + 1 \in Reached
  <2>1. PICK i \in 1..n : i = k + 1 /\ i \in 0..n
    OBVIOUS
  <2>2. PICK y \in Texts : y = f[1..k]
    BY <1>6
  <2>3. PICK z : z = f[1..i]
    OBVIOUS
  <2>4. z = y \/ Appends(z, y, TokenAt(s, i))
    BY <1>4, <2>1, <2>2, <2>3
  <2>5. TokenAt(s, i) \in Tokens
    BY <1>1, TextFacts
  <2>6. z \in Texts
    BY <2>4, <2>5, AppendFacts
  <2> QED BY <2>1, <2>3, <2>6
<1>7. \A k \in 0..n : k \in Reached
  <2> HIDE DEF Reached
  <2> QED BY <1>5, <1>6, Upward
<1>8. n \in 0..n
  OBVIOUS
<1> QED BY <1>3, <1>7, <1>8

LEMMA TrimTyped ==
    ASSUME NEW s \in Texts
    PROVE  Trim(s) \in Texts
<1>1. Size(s) \in Nat
  BY TextFacts
<1>2. PICK black : black = {i \in 1..Len(s) : s[i] # "space"}
  OBVIOUS
<1>3. CASE black = {}
  <2>1. Trim(s) = <<>>
    BY <1>2, <1>3 DEF Trim
  <2> QED BY <2>1 DEF Texts
<1>4. CASE black # {}
  <2>1. black \in SUBSET (1..Size(s))
    BY <1>2 DEF Size
  <2>2. PICK i, j : i = Min(black) /\ j = Max(black)
    OBVIOUS
  <2>3. Trim(s) = SubSeq(s, i, j)
    BY <1>2, <1>4, <2>2 DEF Trim
  <2>4. i \in 1..Size(s)
    <3>1. black \in SUBSET Nat
      BY <2>1
    <3>2. PICK m \in black : \A x \in black : m <= x
      BY <1>4, <3>1, LeastExists
    <3>3. Min(black) = m
      BY <3>1, <3>2, MinIs
    <3> QED BY <2>1, <2>2, <3>2, <3>3
  <2>5. j \in 1..Size(s)
    <3>1. PICK n \in Nat : n = Size(s)
      BY <1>1
    <3> DEFINE M == {n - x : x \in black}
    <3>2. M \in SUBSET Nat /\ M # {}
      <4>1. ASSUME NEW x \in black PROVE n - x \in Nat
        <5>1. x \in 1..n
          BY <2>1, <3>1
        <5> QED BY <3>1, <5>1
      <4>2. PICK x : x \in black
        BY <1>4
      <4> QED BY <4>1, <4>2
    <3>3. PICK k \in M : \A y \in M : k <= y
      <4> HIDE DEF M
      <4> QED BY <3>2, LeastExists
    <3>4. PICK m \in black : k = n - m
      BY <3>3
    <3>5. ASSUME NEW x \in black PROVE x <= m
      <4>1. n - x \in M
        OBVIOUS
      <4>2. n - m <= n - x
        BY <3>3, <3>4, <4>1
      <4> QED BY <2>1, <3>1, <4>2
    <3>6. Max(black) = m
      <4>1. black \in SUBSET Nat
        BY <2>1
      <4> QED BY <3>5, <4>1, MaxIs
    <3> QED BY <2>1, <2>2, <3>6
  <2> QED BY <1>1, <2>3, <2>4, <2>5 DEF Texts, Size
<1> QED BY <1>3, <1>4

\* sanitize redacts any text whatever to the end: only of one that ends in a
\* backslash, which no document does, does redaction cut behind the end, and throw.
\* redact_field_value, sanitize.
THEOREM ThrowsOnlyOnEscapedEnd ==
    ASSUME NEW s \in Seq(Tokens), Sanitize(s) = OutOfRange
    PROVE  LET clean == Trim(StripControl(s))
           IN  clean # <<>> /\ clean[Len(clean)] = "backslash"
<1>1. PICK clean \in Texts : clean = Trim(StripControl(s))
  <2>1. s \in Texts
    BY DEF Texts
  <2>2. StripControl(s) \in Texts
    BY <2>1, StripControlTyped
  <2>3. Trim(StripControl(s)) \in Texts
    BY <2>2, TrimTyped
  <2> QED BY <2>3
<1>2. StripSensitive(clean) = OutOfRange
  <2>1. Refused # OutOfRange
    BY DEF Refused, OutOfRange
  <2> QED BY <1>1, <2>1 DEF Sanitize
<1>3. EndsEscaped(clean)
  BY <1>2, StripsWholly, OutOfRangeIsNoText
<1>4. clean # <<>> /\ clean[Len(clean)] = "backslash"
  BY <1>3 DEF EndsEscaped, Size, TokenAt
<1> QED BY <1>1, <1>4

-----------------------------------------------------------------------------
(* What forward holds is what sanitize made of the document.               *)

\* A thread inside forward holds the sanitized text, and its place tells which.
Holds ==
    \A t \in Threads :
        Forwards(at[t]) =>
            /\ at[t].doc \in Documents
            /\ at[t].text = Sanitized[at[t].doc]
            /\ at[t].op = IF at[t].text = Refused THEN "reject"
                          ELSE IF at[t].text = OutOfRange THEN "throw" ELSE "send"

LEMMA NextKeepsHolds == Typed /\ Holds /\ [Next]_vars => Holds'
<1> SUFFICES ASSUME Typed, Holds, [Next]_vars PROVE Holds'
  OBVIOUS
<1>0. at \in [Threads -> ThreadPlaces]
  BY DEF Typed
<1>1. CASE UNCHANGED vars
  BY <1>1 DEF Holds, Forwards, vars, callVars
<1>2. ASSUME NEW t \in Threads, NEW p, at' = [at EXCEPT ![t] = p],
             Forwards(p) =>
                /\ p.doc \in Documents
                /\ p.text = Sanitized[p.doc]
                /\ p.op = IF p.text = Refused THEN "reject"
                          ELSE IF p.text = OutOfRange THEN "throw" ELSE "send"
      PROVE  Holds'
  <2>1. \A u \in Threads : at'[u] = IF u = t THEN p ELSE at[u]
    BY <1>0, <1>2
  <2> QED BY <1>2, <2>1 DEF Holds, Forwards
<1>3. CASE Next
  <2>1. PICK t \in Threads : ForwarderStep(t) \/ NubanStep(t) \/ BookStep(t)
    BY <1>3 DEF Next
  <2>2. CASE NubanStep(t) \/ BookStep(t)
    <3>1. PICK p : at' = [at EXCEPT ![t] = p] /\ ~Forwards(p)
      BY <2>2, IdleIsPlace
         DEF NubanStep, FindAccount, MakeAccount, CacheAccount, ReportAccount,
             BookStep, Register, Cycle, ClearLedger, CallAtOnce, Begin, GoOn, Forwards
    <3> QED BY <1>2, <3>1
  <2>3. CASE ForwarderStep(t)
    <3>1. CASE \E x \in Txs, d \in Documents : ForwardBegin(t, x, d)
      <4>1. PICK x \in Txs, d \in Documents : ForwardBegin(t, x, d)
        BY <3>1
      <4>2. PICK o : o = IF Sanitized[d] = Refused THEN "reject"
                         ELSE IF Sanitized[d] = OutOfRange THEN "throw" ELSE "send"
        OBVIOUS
      <4>3. PICK todo, p : /\ p = [op |-> o, tx |-> x, doc |-> d, text |-> Sanitized[d],
                                   todo |-> todo, count |-> 0]
                           /\ at' = [at EXCEPT ![t] = p]
        BY <4>1, <4>2 DEF ForwardBegin, Begin
      <4>4. p.op = o /\ p.doc = d /\ p.text = Sanitized[d]
        BY <4>3
      <4> QED BY <1>2, <4>2, <4>3, <4>4
    <3>2. CASE \E g \in TargetIds : Dispatch(t, g)
      <4>1. PICK g \in TargetIds : Dispatch(t, g)
        BY <3>2
      <4>2. at[t] \in ForwardPlaces /\ Forwards(at[t])
        BY <1>0, <4>1, PlaceKinds DEF Dispatch, Forwards
      <4>3. PICK p : /\ at' = [at EXCEPT ![t] = p]
                     /\ p.doc = at[t].doc /\ p.text = at[t].text /\ p.op = at[t].op
        <5>1. PICK q, r : /\ q = [at[t] EXCEPT !.todo = @ \ {g}]
                          /\ r = [q EXCEPT !.count = @ + 1]
          OBVIOUS
        <5>2. /\ q.doc = at[t].doc /\ q.text = at[t].text /\ q.op = at[t].op
              /\ q \in ForwardPlaces
          BY <4>2, <5>1 DEF ForwardPlaces
        <5>3. r.doc = at[t].doc /\ r.text = at[t].text /\ r.op = at[t].op
          BY <5>1, <5>2 DEF ForwardPlaces
        <5>4. at' = [at EXCEPT ![t] = q] \/ at' = [at EXCEPT ![t] = r]
          BY <4>1, <5>1 DEF Dispatch, GoOn
        <5> QED BY <5>2, <5>3, <5>4
      <4> QED BY <1>2, <4>2, <4>3 DEF Holds
    <3>3. CASE /\ ~ \E x \in Txs, d \in Documents : ForwardBegin(t, x, d)
               /\ ~ \E g \in TargetIds : Dispatch(t, g)
      <4>1. at' = [at EXCEPT ![t] = Idle]
        BY <2>3, <3>3 DEF ForwarderStep, AddTarget, RemoveTarget, SetEnabled,
             ForwardNothing, Reject, Throw, ForwardEnd, CallAtOnce, Begin, GoOn
      <4> QED BY <1>2, <4>1, IdleIsPlace
    <3> QED BY <3>1, <3>2, <3>3
  <2> QED BY <2>1, <2>2, <2>3
<1> QED BY <1>1, <1>3

LEMMA HeldIsSanitized == Spec => [](Typed /\ Holds)
<1>1. Init => Typed /\ Holds
  <2>1. Init => Holds
    BY IdleIsPlace DEF Init, CallersInit, Holds
  <2> QED BY <2>1, InitTyped
<1>2. Typed /\ Holds /\ [Next]_vars => (Typed /\ Holds)'
  BY NextTyped, NextKeepsHolds
<1> QED BY <1>1, <1>2, PTL DEF Spec

\* Of a whole document exactly the sensitive values are replaced before it leaves;
\* it is held back exactly if it lacks a field, has an injection pattern or is too
\* long; and redaction does not throw on it: for every document, whatever escapes,
\* blanks and commas its values have. DownstreamForwarder::forward,
\* PayloadSanitizer::sanitize.
THEOREM LeavesCleaned == Spec => []CleanedExactly
<1>1. Holds => CleanedExactly
  <2> SUFFICES ASSUME Holds, NEW t \in Threads,
                      at[t].op \in {"send", "reject", "throw"}, at[t].doc.lost = 0
               PROVE  IF Fit[at[t].doc]
                        THEN at[t].op = "send" /\ at[t].text = Clean[at[t].doc]
                        ELSE at[t].op = "reject"
    BY DEF CleanedExactly
  <2>1. PICK d : d = at[t].doc /\ d \in Documents /\ d.lost = 0
    BY DEF Holds, Forwards
  <2>2. /\ at[t].text = Sanitized[d]
        /\ at[t].op = IF at[t].text = Refused THEN "reject"
                      ELSE IF at[t].text = OutOfRange THEN "throw" ELSE "send"
    BY <2>1 DEF Holds, Forwards
  <2>3. IsFlat(d.fields)
    BY <2>1, DocumentsAssumption
  <2>4. Sanitized[d] = IF Acceptable(d.fields) THEN Render(Cleaned(d.fields)) ELSE Refused
    <3>1. Sanitized[d] = Sanitize(Text(d))
      BY <2>1 DEF Sanitized
    <3> QED BY <2>1, <2>3, <3>1, SanitizesDocument
  <2>5. Fit[d] = Acceptable(d.fields) /\ Clean[d] = Render(Cleaned(d.fields))
    BY <2>1 DEF Fit, Clean
  <2>6. Render(Cleaned(d.fields)) # Refused /\ Render(Cleaned(d.fields)) # OutOfRange
    BY <2>3, StripsSensitive, DocumentsTold
  <2> QED BY <2>1, <2>2, <2>4, <2>5, <2>6
<1> QED BY <1>1, HeldIsSanitized, PTL

-----------------------------------------------------------------------------
(* The provisioner.                                                        *)

\* The threads that are about to cache an account of s.
Caching(s) == {t \in Threads : at[t].op = "cache" /\ at[t].student = s}

NInv ==
    \A s \in Students :
        /\ account[s] = NoAccount => given[s] = {}
        /\ IsFiniteSet(given[s])
        /\ Cardinality(given[s]) + Cardinality(Caching(s)) <= Cardinality(Threads)

LEMMA CachingIsFinite ==
    ASSUME NEW S \in SUBSET Threads
    PROVE  /\ IsFiniteSet(S) /\ Cardinality(S) \in Nat
           /\ Cardinality(S) <= Cardinality(Threads)
           /\ Cardinality(Threads) \in Nat
BY CallersAssumption, FS_Subset, FS_CardinalityType

LEMMA QuietForAccounts ==
    ASSUME NInv, UNCHANGED nubanVars, \A s \in Students : Caching(s)' = Caching(s)
    PROVE  NInv'
BY DEF NInv, nubanVars

LEMMA CachingSame ==
    ASSUME Typed, NEW t \in Threads, NEW p, at' = [at EXCEPT ![t] = p],
           at[t].op # "cache", p.op # "cache"
    PROVE  \A s \in Students : Caching(s)' = Caching(s)
BY DEF Typed, Caching

LEMMA MakeStep ==
    ASSUME Typed, NInv, NEW t \in Threads, NEW s \in Students, MakeAccount(t, s)
    PROVE  NInv'
<1>1. given[s] = {}
  BY DEF NInv, MakeAccount
<1>2. account' = account /\ given' = given
  BY DEF MakeAccount, nubanVars
<1>3. \A r \in Students : r # s => Caching(r)' = Caching(r)
  BY DEF Typed, Caching, MakeAccount, Begin, Idle
<1>4. \A r \in Students : Caching(r)' \in SUBSET Threads
  BY DEF Caching
<1>5. Cardinality(given[s]) = 0
  BY <1>1, FS_EmptySet
<1>6. ASSUME NEW r \in Students
      PROVE  Cardinality(given'[r]) + Cardinality(Caching(r)') <= Cardinality(Threads)
  <2>1. CASE r = s
    BY <1>2, <1>4, <1>5, <2>1, CachingIsFinite
  <2>2. CASE r # s
    BY <1>2, <1>3, <2>2 DEF NInv
  <2> QED BY <2>1, <2>2
<1> QED BY <1>2, <1>6 DEF NInv

LEMMA CacheStep ==
    ASSUME Typed, NInv, NEW t \in Threads, CacheAccount(t)
    PROVE  NInv'
<1>1. at[t] \in NubanPlaces /\ at[t].op = "cache"
  BY PlaceKinds DEF Typed, CacheAccount
<1>2. PICK s \in Students, a \in Accounts : s = at[t].student /\ a = at[t].number
  BY <1>1 DEF NubanPlaces
<1>3. /\ account' = [account EXCEPT ![s] = a]
      /\ given' = [given EXCEPT ![s] = given[s] \cup {a}]
      /\ at' = [at EXCEPT ![t] = [op |-> "report", student |-> s, number |-> a]]
  BY <1>2 DEF CacheAccount, GoOn
<1>4. \A r \in Students : r # s => Caching(r)' = Caching(r)
  BY <1>1, <1>2, <1>3 DEF Typed, Caching
<1>5. Caching(s)' = Caching(s) \ {t} /\ t \in Caching(s)
  BY <1>1, <1>2, <1>3 DEF Typed, Caching
<1>6. a # NoAccount
  BY ProvisionerAssumption
<1>7. /\ account \in [Students -> Accounts \cup {NoAccount}]
      /\ given \in [Students -> SUBSET Accounts]
  BY DEF Typed, TypeOK
<1>8. ASSUME NEW r \in Students
      PROVE  /\ account'[r] = NoAccount => given'[r] = {}
             /\ IsFiniteSet(given'[r])
             /\ Cardinality(given'[r]) + Cardinality(Caching(r)') <= Cardinality(Threads)
  <2>1. CASE r = s
    <3>1. account'[s] = a /\ given'[s] = given[s] \cup {a}
      BY <1>3, <1>7
    <3>2. IsFiniteSet(given[s]) /\ Cardinality(given[s]) \in Nat
      BY FS_CardinalityType DEF NInv
    <3>3. /\ IsFiniteSet(given'[s])
          /\ Cardinality(given'[s]) \in {Cardinality(given[s]), Cardinality(given[s]) + 1}
      <4>1. CASE a \in given[s]
        <5>1. given'[s] = given[s]
          BY <3>1, <4>1
        <5> QED BY <3>2, <5>1
      <4>2. CASE a \notin given[s]
        <5>1. /\ IsFiniteSet(given[s] \cup {a})
              /\ Cardinality(given[s] \cup {a}) = Cardinality(given[s]) + 1
          BY <3>2, <4>2, FS_AddElement
        <5> QED BY <3>1, <5>1
      <4> QED BY <4>1, <4>2
    <3>4. Caching(s) \in SUBSET Threads
      BY DEF Caching
    <3>5. /\ IsFiniteSet(Caching(s)) /\ Cardinality(Caching(s)) \in Nat
          /\ Cardinality(Threads) \in Nat
      BY <3>4, CachingIsFinite
    <3>6. Cardinality(Caching(s)') = Cardinality(Caching(s)) - 1
      <4>1. Cardinality(Caching(s) \ {t}) = Cardinality(Caching(s)) - 1
        BY <1>5, <3>5, FS_RemoveElement
      <4> QED BY <1>5, <4>1
    <3>7. Cardinality(given[s]) + Cardinality(Caching(s)) <= Cardinality(Threads)
      BY DEF NInv
    <3>8. PICK g, c, n, h, d \in Nat :
             /\ g = Cardinality(given[s]) /\ c = Cardinality(Caching(s))
             /\ n = Cardinality(Threads) /\ h = Cardinality(given'[s])
             /\ d = c - 1 /\ c > 0
      <4>1. Cardinality(Caching(s)) > 0
        BY <1>5, <3>5, FS_EmptySet
      <4>2. Cardinality(given'[s]) \in Nat
        BY <3>2, <3>3
      <4> QED BY <3>2, <3>5, <4>1, <4>2
    <3>9. h + d <= n
      BY <3>3, <3>7, <3>8
    <3> QED BY <1>6, <2>1, <3>1, <3>3, <3>6, <3>8, <3>9, Zenon
  <2>2. CASE r # s
    <3>1. account'[r] = account[r] /\ given'[r] = given[r]
      BY <1>3, <1>7, <2>2
    <3> QED BY <1>4, <2>2, <3>1 DEF NInv
  <2> QED BY <2>1, <2>2
<1> QED BY <1>8 DEF NInv

\* A call of the forwarder is none that caches an account.
LEMMA ForwarderCachesNothing ==
    ASSUME Typed, NEW t \in Threads, ForwarderStep(t)
    PROVE  \A s \in Students : Caching(s)' = Caching(s)
<1>1. at[t].op # "cache"
  <2>1. \/ \E g \in TargetIds : AddTarget(t, g) \/ RemoveTarget(t, g)
        \/ \E b \in BOOLEAN : SetEnabled(t, b)
        \/ \E x \in Txs : ForwardNothing(t, x)
        \/ \E x \in Txs, d \in Documents : ForwardBegin(t, x, d)
        \/ \E g \in TargetIds : Dispatch(t, g)
        \/ Reject(t) \/ Throw(t) \/ ForwardEnd(t)
    BY Zenon DEF ForwarderStep
  <2>2. at[t] = Idle \/ at[t].op \in {"send", "reject", "throw"}
    BY <2>1, Zenon DEF AddTarget, RemoveTarget, SetEnabled, ForwardNothing, ForwardBegin,
                   Reject, Throw, Dispatch, ForwardEnd, CallAtOnce, Begin
  <2> QED BY <2>2 DEF Idle
<1>2. PICK p : at' = [at EXCEPT ![t] = p] /\ p.op # "cache"
  <2>1. CASE \E g \in TargetIds : Dispatch(t, g)
    <3>1. PICK g \in TargetIds : Dispatch(t, g)
      BY <2>1
    <3>2. at[t] \in ForwardPlaces
      BY <3>1, PlaceKinds DEF Dispatch, Forwards, Typed
    <3>3. PICK q \in ForwardPlaces : GoOn(t, q)
      <4>1. [at[t] EXCEPT !.todo = @ \ {g}] \in ForwardPlaces
        BY <3>2 DEF ForwardPlaces
      <4>2. PICK q \in ForwardPlaces : q = [at[t] EXCEPT !.todo = @ \ {g}]
        BY <4>1
      <4>3. [q EXCEPT !.count = @ + 1] \in ForwardPlaces
        BY DEF ForwardPlaces
      <4> QED BY <3>1, <4>2, <4>3 DEF Dispatch
    <3> QED BY <3>3 DEF GoOn, ForwardPlaces
  <2>2. CASE \E x \in Txs, d \in Documents : ForwardBegin(t, x, d)
    <3>1. PICK x \in Txs, d \in Documents : ForwardBegin(t, x, d)
      BY <2>2
    <3> DEFINE o == IF Sanitized[d] = Refused THEN "reject"
                    ELSE IF Sanitized[d] = OutOfRange THEN "throw" ELSE "send"
               p == [op |-> o, tx |-> x, doc |-> d, text |-> Sanitized[d],
                     todo |-> {g \in TargetIds : targets[g] # "absent"},
                     count |-> 0]
    <3>2. at' = [at EXCEPT ![t] = p]
      BY <3>1, Zenon DEF ForwardBegin, Begin
    <3>3. p.op # "cache"
      <4>1. o \in {"reject", "throw", "send"}
        OBVIOUS
      <4>2. p.op = o
        OBVIOUS
      <4> QED BY <4>1, <4>2
    <3> QED BY <3>2, <3>3
  <2>3. CASE at' = [at EXCEPT ![t] = Idle]
    BY <2>3, IdleIsPlace
  <2>4. \/ \E g \in TargetIds : Dispatch(t, g)
        \/ \E x \in Txs, d \in Documents : ForwardBegin(t, x, d)
        \/ \E g \in TargetIds : AddTarget(t, g) \/ RemoveTarget(t, g)
        \/ \E b \in BOOLEAN : SetEnabled(t, b)
        \/ \E x \in Txs : ForwardNothing(t, x)
        \/ Reject(t) \/ Throw(t) \/ ForwardEnd(t)
    BY Zenon DEF ForwarderStep
  <2>5. CASE \E g \in TargetIds : AddTarget(t, g) \/ RemoveTarget(t, g)
    BY <2>3, <2>5 DEF AddTarget, RemoveTarget, CallAtOnce, Begin
  <2>6. CASE \E b \in BOOLEAN : SetEnabled(t, b)
    BY <2>3, <2>6 DEF SetEnabled, CallAtOnce, Begin
  <2>7. CASE \E x \in Txs : ForwardNothing(t, x)
    BY <2>3, <2>7 DEF ForwardNothing, CallAtOnce, Begin
  <2>8. CASE Reject(t) \/ Throw(t) \/ ForwardEnd(t)
    BY <2>3, <2>8 DEF Reject, Throw, ForwardEnd, GoOn
  <2> QED BY <2>1, <2>2, <2>4, <2>5, <2>6, <2>7, <2>8
<1> QED BY <1>1, <1>2, CachingSame

LEMMA NextKeepsNInv == Typed /\ NInv /\ [Next]_vars => NInv'
<1> SUFFICES ASSUME Typed, NInv, [Next]_vars PROVE NInv'
  OBVIOUS
<1>1. CASE UNCHANGED vars
  BY <1>1 DEF NInv, Caching, vars, callVars, nubanVars
<1>2. CASE Next
  <2>1. PICK t \in Threads :
           \/ ForwarderStep(t) /\ UNCHANGED nubanVars
           \/ NubanStep(t)
           \/ BookStep(t) /\ UNCHANGED nubanVars
    BY <1>2 DEF Next
  <2>2. CASE ForwarderStep(t) /\ UNCHANGED nubanVars
    BY <2>2, ForwarderCachesNothing, QuietForAccounts
  <2>3. CASE NubanStep(t)
    <3>1. CASE \E s \in Students : FindAccount(t, s)
      <4>1. at[t] = Idle /\ at' = [at EXCEPT ![t] = Idle] /\ UNCHANGED nubanVars
        BY <3>1 DEF FindAccount, CallAtOnce, Begin
      <4> QED BY <4>1, IdleIsPlace, CachingSame, QuietForAccounts
    <3>2. CASE \E s \in Students : MakeAccount(t, s)
      BY <3>2, MakeStep
    <3>3. CASE CacheAccount(t)
      BY <3>3, CacheStep
    <3>4. CASE ReportAccount(t)
      <4>1. /\ at[t].op = "report" /\ at' = [at EXCEPT ![t] = Idle]
            /\ UNCHANGED nubanVars
        BY <3>4 DEF ReportAccount, GoOn
      <4> QED BY <4>1, IdleIsPlace, CachingSame, QuietForAccounts
    <3> QED BY <2>3, <3>1, <3>2, <3>3, <3>4 DEF NubanStep
  <2>4. CASE BookStep(t) /\ UNCHANGED nubanVars
    <3>1. at[t] = Idle /\ at' = [at EXCEPT ![t] = Idle]
      BY <2>4 DEF BookStep, Register, Cycle, ClearLedger, CallAtOnce, Begin
    <3> QED BY <2>4, <3>1, IdleIsPlace, CachingSame, QuietForAccounts
  <2> QED BY <2>1, <2>2, <2>3, <2>4
<1> QED BY <1>1, <1>2

LEMMA InitNInv == Init => NInv
<1> SUFFICES ASSUME Init, NEW s \in Students
             PROVE  /\ account[s] = NoAccount => given[s] = {}
                    /\ IsFiniteSet(given[s])
                    /\ Cardinality(given[s]) + Cardinality(Caching(s)) <= Cardinality(Threads)
  BY DEF NInv
<1>1. given[s] = {}
  BY DEF Init, NubanInit
<1>2. Caching(s) = {}
  BY DEF Init, CallersInit, Caching, Idle
<1>3. Cardinality({}) = 0 /\ IsFiniteSet({})
  BY FS_EmptySet
<1>4. Cardinality(Threads) \in Nat
  BY CachingIsFinite
<1> QED BY <1>1, <1>2, <1>3, <1>4

\* A student is given no more accounts than there are threads, however often they
\* are asked for. provision_account, get_account, cache_account.
THEOREM FewAccounts == Spec => []AccountsPerStudent
<1>1. Spec => [](Typed /\ NInv)
  <2>1. Init => Typed /\ NInv
    BY InitTyped, InitNInv
  <2>2. Typed /\ NInv /\ [Next]_vars => (Typed /\ NInv)'
    BY NextTyped, NextKeepsNInv
  <2> QED BY <2>1, <2>2, PTL DEF Spec
<1>2. NInv => AccountsPerStudent
  <2> SUFFICES ASSUME NInv, NEW s \in Students
               PROVE  Cardinality(given[s]) <= Cardinality(Threads)
    BY DEF AccountsPerStudent
  <2>1. Caching(s) \in SUBSET Threads
    BY DEF Caching
  <2>2. Cardinality(Caching(s)) \in Nat /\ Cardinality(Threads) \in Nat
    BY <2>1, CachingIsFinite
  <2>3. /\ Cardinality(given[s]) \in Nat
        /\ Cardinality(given[s]) + Cardinality(Caching(s)) <= Cardinality(Threads)
    BY FS_CardinalityType DEF NInv
  <2> QED BY <2>2, <2>3
<1> QED BY <1>1, <1>2, PTL

\* Once a student has an account he keeps one, nobody draws another number, and
\* the number only changes to that of a caller who had drawn his before: so it
\* changes less than once per thread and is then final.
AccountSettles ==
    \A s \in Students :
        account[s] # NoAccount =>
            \/ account'[s] = account[s] /\ Caching(s)' = Caching(s)
            \/ \E t \in Caching(s) :
                  /\ account'[s] = at[t].number /\ at[t].number # NoAccount
                  /\ Caching(s)' = Caching(s) \ {t}

AccountsSettle == [][AccountSettles]_vars

LEMMA CacheSettles ==
    ASSUME Typed, NEW t \in Threads, CacheAccount(t)
    PROVE  AccountSettles
<1>1. at[t] \in NubanPlaces /\ at[t].op = "cache"
  BY PlaceKinds DEF Typed, CacheAccount
<1>2. PICK s \in Students, a \in Accounts : s = at[t].student /\ a = at[t].number
  BY <1>1 DEF NubanPlaces
<1>3. /\ account' = [account EXCEPT ![s] = a]
      /\ at' = [at EXCEPT ![t] = [op |-> "report", student |-> s, number |-> a]]
  BY <1>2 DEF CacheAccount, GoOn
<1>4. \A r \in Students : r # s => Caching(r)' = Caching(r)
  BY <1>1, <1>2, <1>3 DEF Typed, Caching
<1>5. Caching(s)' = Caching(s) \ {t} /\ t \in Caching(s)
  BY <1>1, <1>2, <1>3 DEF Typed, Caching
<1>6. a # NoAccount
  BY ProvisionerAssumption
<1>7. account'[s] = a /\ \A r \in Students : r # s => account'[r] = account[r]
  BY <1>3 DEF Typed, TypeOK
<1> QED BY <1>2, <1>4, <1>5, <1>6, <1>7 DEF AccountSettles

\* Accounts are made once and for all ("persistent" is what the documentation
\* calls them), but for those drawn at the same time. provision_account,
\* cache_account.
THEOREM AccountsBecomeFinal == Spec => AccountsSettle
<1>1. Typed /\ [Next]_vars => [AccountSettles]_vars
  <2> SUFFICES ASSUME Typed, Next PROVE AccountSettles
    OBVIOUS
  <2>1. PICK t \in Threads :
           \/ ForwarderStep(t) /\ UNCHANGED nubanVars
           \/ NubanStep(t)
           \/ BookStep(t) /\ UNCHANGED nubanVars
    BY DEF Next
  <2>2. CASE ForwarderStep(t) /\ UNCHANGED nubanVars
    BY <2>2, ForwarderCachesNothing DEF AccountSettles, nubanVars
  <2>3. CASE \E s \in Students : FindAccount(t, s)
    <3>1. at[t] = Idle /\ at' = [at EXCEPT ![t] = Idle] /\ UNCHANGED nubanVars
      BY <2>3 DEF FindAccount, CallAtOnce, Begin
    <3> QED BY <3>1, IdleIsPlace, CachingSame DEF AccountSettles, nubanVars
  <2>4. ASSUME NEW s \in Students, MakeAccount(t, s)
        PROVE  AccountSettles
    <3>1. account' = account /\ account[s] = NoAccount
      BY <2>4 DEF MakeAccount, nubanVars
    <3>2. \A r \in Students : r # s => Caching(r)' = Caching(r)
      BY <2>4 DEF Typed, Caching, MakeAccount, Begin, Idle
    <3> QED BY <3>1, <3>2 DEF AccountSettles
  <2>5. CASE CacheAccount(t)
    BY <2>5, CacheSettles
  <2>6. CASE ReportAccount(t)
    <3>1. /\ at[t].op = "report" /\ at' = [at EXCEPT ![t] = Idle]
          /\ UNCHANGED nubanVars
      BY <2>6 DEF ReportAccount, GoOn
    <3> QED BY <3>1, IdleIsPlace, CachingSame DEF AccountSettles, nubanVars
  <2>7. CASE BookStep(t) /\ UNCHANGED nubanVars
    <3>1. at[t] = Idle /\ at' = [at EXCEPT ![t] = Idle]
      BY <2>7 DEF BookStep, Register, Cycle, ClearLedger, CallAtOnce, Begin
    <3> QED BY <2>7, <3>1, IdleIsPlace, CachingSame DEF AccountSettles, nubanVars
  <2> QED BY <2>1, <2>2, <2>3, <2>4, <2>5, <2>6, <2>7 DEF NubanStep
<1>2. Spec => []Typed
  <2>1. Typed /\ [Next]_vars => Typed'
    BY NextTyped
  <2> QED BY <2>1, InitTyped, PTL DEF Spec
<1> QED BY <1>1, <1>2, PTL DEF Spec, AccountsSettle

-----------------------------------------------------------------------------
(* The reconciler.                                                         *)

Settled(b, r, a) ==
    {i \in DOMAIN b[r] : b[r][i] = [amount |-> a, status |-> "SETTLED"]}

AllSettled(b) ==
    {ri \in Refs \X (1..MaxExpected) :
        ri[2] \in DOMAIN b[ri[1]] /\ b[ri[1]][ri[2]].status = "SETTLED"}

Due(r, a) == {i \in DOMAIN Deposits : Deposits[i] = [ref |-> r, amount |-> a]}

One(p) == IF p THEN 1 ELSE 0

BookFits(b) ==
    /\ b \in [Refs -> Seq(Payments)]
    /\ \A r \in Refs : Len(b[r]) <= MaxExpected
    /\ IsFiniteSet(AllSettled(b))

RInv ==
    /\ BookFits(book)
    /\ cycles \in Nat
    /\ \A r \in Refs, p \in Payments :
          Cardinality(Settled(book, r, p.amount)) <= cycles * Cardinality(Due(r, p.amount))
    /\ matched = Cardinality(AllSettled(book))

LEMMA OneIf ==
    ASSUME NEW S, IsFiniteSet(S), NEW x, x \notin S, NEW p \in BOOLEAN
    PROVE  LET T == S \cup (IF p THEN {x} ELSE {})
           IN  IsFiniteSet(T) /\ Cardinality(T) = Cardinality(S) + One(p)
<1>0. Cardinality(S) \in Nat
  BY FS_CardinalityType
<1>1. CASE p
  <2>1. IsFiniteSet(S \cup {x}) /\ Cardinality(S \cup {x}) = Cardinality(S) + 1
    BY FS_AddElement
  <2> QED BY <1>1, <2>1 DEF One
<1>2. CASE ~p
  <2>1. S \cup {} = S
    OBVIOUS
  <2> QED BY <1>0, <1>2, <2>1 DEF One
<1> QED BY <1>1, <1>2

\* How many of three things hold.
LEMMA OfThree ==
    ASSUME NEW p \in BOOLEAN, NEW q \in BOOLEAN, NEW s \in BOOLEAN,
           NEW T, T = {i \in 1..3 : (i = 1 /\ p) \/ (i = 2 /\ q) \/ (i = 3 /\ s)}
    PROVE  Cardinality(T) = One(p) + One(q) + One(s)
<1> DEFINE T1 == {} \cup (IF p THEN {1} ELSE {})
           T2 == T1 \cup (IF q THEN {2} ELSE {})
           T3 == T2 \cup (IF s THEN {3} ELSE {})
<1>1. IsFiniteSet(T1) /\ Cardinality(T1) = 0 + One(p)
  BY FS_EmptySet, OneIf
<1>2. 2 \notin T1 /\ 3 \notin T2 /\ T = T3
  OBVIOUS
<1>3. IsFiniteSet(T2) /\ Cardinality(T2) = Cardinality(T1) + One(q)
  <2> HIDE DEF T1
  <2> QED BY <1>1, <1>2, OneIf
<1>4. Cardinality(T3) = Cardinality(T2) + One(s)
  <2> HIDE DEF T2
  <2> QED BY <1>2, <1>3, OneIf
<1>5. One(p) \in Nat /\ One(q) \in Nat /\ One(s) \in Nat
  BY DEF One
<1> HIDE DEF T1, T2, T3
<1>6. PICK u \in Nat, v \in Nat, w \in Nat : u = One(p) /\ v = One(q) /\ w = One(s)
  BY <1>5
<1>7. Cardinality(T) = ((0 + u) + v) + w
  BY <1>1, <1>2, <1>3, <1>4, <1>6, Zenon
<1>8. ((0 + u) + v) + w = u + v + w
  OBVIOUS
<1> QED BY <1>6, <1>7, <1>8, Zenon

LEMMA SettledFinite ==
    ASSUME NEW b \in [Refs -> Seq(Payments)], NEW r \in Refs, NEW a
    PROVE  IsFiniteSet(Settled(b, r, a)) /\ Cardinality(Settled(b, r, a)) \in Nat
<1>1. b[r] \in Seq(Payments) /\ DOMAIN b[r] = 1..Len(b[r]) /\ Len(b[r]) \in Int
  OBVIOUS
<1>2. IsFiniteSet(1..Len(b[r]))
  BY <1>1, FS_Interval
<1>3. Settled(b, r, a) \in SUBSET (1..Len(b[r]))
  BY <1>1 DEF Settled
<1> QED BY <1>2, <1>3, FS_Subset, FS_CardinalityType

\* A deposit with an open payment settles just one more.
LEMMA MatchSettles ==
    ASSUME NEW b, BookFits(b), NEW d, d = [ref |-> d.ref, amount |-> d.amount],
           Open(b, d) # {}
    PROVE  \E k : /\ d.ref \in Refs /\ k \in DOMAIN b[d.ref]
                  /\ b[d.ref][k] = [amount |-> d.amount, status |-> "PENDING"]
                  /\ Match(b, d) = [b EXCEPT ![d.ref] =
                        [b[d.ref] EXCEPT ![k] = [amount |-> d.amount, status |-> "SETTLED"]]]
<1>1. PICK k : /\ k = CHOOSE i \in Open(b, d) : \A j \in Open(b, d) : i <= j
               /\ k \in Open(b, d) /\ k \in DOMAIN b[d.ref] /\ d.ref \in Refs
  BY FirstIsOpen DEF BookFits
<1>2. b[d.ref][k] = [amount |-> d.amount, status |-> "PENDING"]
  BY <1>1 DEF Open
<1>3. [b[d.ref] EXCEPT ![k].status = "SETTLED"]
        = [b[d.ref] EXCEPT ![k] = [amount |-> d.amount, status |-> "SETTLED"]]
  <2>1. [b[d.ref][k] EXCEPT !.status = "SETTLED"]
            = [amount |-> d.amount, status |-> "SETTLED"]
    BY <1>2
  <2> QED BY <2>1
<1>4. Match(b, d) = [b EXCEPT ![d.ref] = [b[d.ref] EXCEPT ![k].status = "SETTLED"]]
  BY <1>1 DEF Match
<1> QED BY <1>1, <1>2, <1>3, <1>4

LEMMA MatchCounts ==
    ASSUME NEW b, BookFits(b), NEW d, d = [ref |-> d.ref, amount |-> d.amount]
    PROVE  /\ BookFits(Match(b, d))
           /\ \A r \in Refs : \A a :
                Cardinality(Settled(Match(b, d), r, a))
                    <= Cardinality(Settled(b, r, a)) + One(d = [ref |-> r, amount |-> a])
           /\ Cardinality(AllSettled(Match(b, d)))
                  = Cardinality(AllSettled(b)) + One(Open(b, d) # {})
<1>0. Cardinality(AllSettled(b)) \in Nat
  BY FS_CardinalityType DEF BookFits
<1>1. CASE Open(b, d) = {}
  <2>1. Match(b, d) = b
    BY <1>1 DEF Match
  <2>2. \A r \in Refs : \A a : Cardinality(Settled(b, r, a)) \in Nat
    BY SettledFinite DEF BookFits
  <2>3. \A r \in Refs : \A a :
            Cardinality(Settled(b, r, a))
                <= Cardinality(Settled(b, r, a)) + One(d = [ref |-> r, amount |-> a])
    BY <2>2 DEF One
  <2> QED BY <1>0, <1>1, <2>1, <2>3 DEF One
<1>2. CASE Open(b, d) # {}
  <2>1. PICK k : /\ d.ref \in Refs /\ k \in DOMAIN b[d.ref]
                 /\ b[d.ref][k] = [amount |-> d.amount, status |-> "PENDING"]
                 /\ Match(b, d) = [b EXCEPT ![d.ref] =
                       [b[d.ref] EXCEPT ![k] = [amount |-> d.amount, status |-> "SETTLED"]]]
    BY <1>2, MatchSettles
  <2>2. PICK c : c = Match(b, d)
    OBVIOUS
  <2>3. /\ b \in [Refs -> Seq(Payments)] /\ c \in [Refs -> Seq(Payments)]
    BY <2>2, MatchTyped DEF BookFits
  <2>4. /\ \A r \in Refs : DOMAIN c[r] = DOMAIN b[r] /\ Len(c[r]) = Len(b[r])
        /\ \A r \in Refs : r # d.ref => c[r] = b[r]
        /\ \A i \in DOMAIN b[d.ref] : i # k => c[d.ref][i] = b[d.ref][i]
        /\ c[d.ref][k] = [amount |-> d.amount, status |-> "SETTLED"]
    BY <2>1, <2>2, <2>3
  <2>5. ASSUME NEW r \in Refs, NEW a
        PROVE  Cardinality(Settled(c, r, a))
                  <= Cardinality(Settled(b, r, a)) + One(d = [ref |-> r, amount |-> a])
    <3>1. Settled(c, r, a)
            = Settled(b, r, a) \cup (IF d = [ref |-> r, amount |-> a] THEN {k} ELSE {})
      <4>1. CASE r # d.ref
        BY <2>4, <4>1 DEF Settled
      <4>2. CASE r = d.ref /\ a # d.amount
        BY <2>1, <2>4, <4>2 DEF Settled
      <4>3. CASE r = d.ref /\ a = d.amount
        BY <2>1, <2>4, <4>3 DEF Settled
      <4> QED BY <4>1, <4>2, <4>3
    <3>2. k \notin Settled(b, r, a) \/ r # d.ref
      BY <2>1 DEF Settled
    <3>3. CASE d = [ref |-> r, amount |-> a]
      <4>1. k \notin Settled(b, r, a)
        BY <3>2, <3>3
      <4>2. Settled(c, r, a) = Settled(b, r, a) \cup {k}
        BY <3>1, <3>3
      <4>3. IsFiniteSet(Settled(b, r, a)) /\ Cardinality(Settled(b, r, a)) \in Nat
        BY <2>3, SettledFinite
      <4>4. Cardinality(Settled(c, r, a)) = Cardinality(Settled(b, r, a)) + 1
        BY <4>1, <4>2, <4>3, FS_AddElement
      <4> QED BY <3>3, <4>3, <4>4 DEF One
    <3>4. CASE d # [ref |-> r, amount |-> a]
      <4>1. Settled(c, r, a) = Settled(b, r, a)
        BY <3>1, <3>4
      <4>2. Cardinality(Settled(b, r, a)) \in Nat
        BY <2>3, SettledFinite
      <4> QED BY <3>4, <4>1, <4>2 DEF One
    <3> QED BY <3>3, <3>4
  <2>6. /\ AllSettled(c) = AllSettled(b) \cup {<<d.ref, k>>}
        /\ <<d.ref, k>> \notin AllSettled(b)
    <3>1. k \in 1..MaxExpected
      <4>1. Len(b[d.ref]) <= MaxExpected /\ k \in 1..Len(b[d.ref])
        BY <2>1, <2>3 DEF BookFits
      <4>2. Len(b[d.ref]) \in Nat
        BY <2>1, <2>3
      <4> QED BY <4>1, <4>2, ReconcilerAssumption
    <3>2. <<d.ref, k>> \notin AllSettled(b)
      BY <2>1 DEF AllSettled
    <3>3. ASSUME NEW r \in Refs, NEW i \in 1..MaxExpected
          PROVE  <<r, i>> \in AllSettled(c) <=> <<r, i>> \in AllSettled(b) \/ <<r, i>> = <<d.ref, k>>
      <4>1. CASE r # d.ref
        BY <2>4, <4>1 DEF AllSettled
      <4>2. CASE r = d.ref /\ i # k
        BY <2>1, <2>4, <4>2 DEF AllSettled
      <4>3. CASE r = d.ref /\ i = k
        BY <2>1, <2>4, <4>3 DEF AllSettled
      <4> QED BY <4>1, <4>2, <4>3
    <3>4. AllSettled(c) \subseteq Refs \X (1..MaxExpected)
          /\ AllSettled(b) \subseteq Refs \X (1..MaxExpected)
          /\ <<d.ref, k>> \in Refs \X (1..MaxExpected)
      BY <2>1, <3>1 DEF AllSettled
    <3>5. \A z \in Refs \X (1..MaxExpected) :
             z \in AllSettled(c) <=> z \in AllSettled(b) \/ z = <<d.ref, k>>
      BY <3>3
    <3> QED BY <3>2, <3>4, <3>5
  <2>7. /\ IsFiniteSet(AllSettled(c))
        /\ Cardinality(AllSettled(c)) = Cardinality(AllSettled(b)) + 1
    BY <2>6, FS_AddElement DEF BookFits
  <2>8. BookFits(c)
    BY <2>3, <2>4, <2>7 DEF BookFits
  <2> QED BY <1>2, <2>2, <2>5, <2>7, <2>8 DEF One
<1> QED BY <1>1, <1>2

\* What a cycle settles, it settles by deposits of this cycle.
LEMMA CycleKeepsRInv ==
    ASSUME RInv, NEW t \in Threads, Cycle(t)
    PROVE  RInv'
<1> DEFINE b1 == Match(book, Deposits[1])
           b2 == Match(b1, Deposits[2])
           b3 == Match(b2, Deposits[3])
           seen == <<book, b1, b2>>
           hits == {i \in 1..3 : Open(seen[i], Deposits[i]) # {}}
           h1 == Open(book, Deposits[1]) # {}
           h2 == Open(b1, Deposits[2]) # {}
           h3 == Open(b2, Deposits[3]) # {}
<1>1. book' = b3 /\ matched' = matched + Cardinality(hits) /\ cycles' = cycles + 1
  BY DEF Cycle
<1>2. \A i \in 1..3 :
         Deposits[i] = [ref |-> Deposits[i].ref, amount |-> Deposits[i].amount]
  BY DEF Deposits
<1>3. Cardinality(hits) = One(h1) + One(h2) + One(h3)
  <2>1. hits = {i \in 1..3 : (i = 1 /\ h1) \/ (i = 2 /\ h2) \/ (i = 3 /\ h3)}
    <3>1. seen[1] = book /\ seen[2] = b1 /\ seen[3] = b2
      OBVIOUS
    <3> HIDE DEF b1, b2, seen
    <3> QED BY <3>1
  <2> HIDE DEF hits, h1, h2, h3
  <2>2. h1 \in BOOLEAN /\ h2 \in BOOLEAN /\ h3 \in BOOLEAN
    BY DEF h1, h2, h3
  <2> QED BY <2>1, <2>2, OfThree
<1>4. /\ BookFits(b1)
      /\ \A r \in Refs : \A a :
            Cardinality(Settled(b1, r, a))
               <= Cardinality(Settled(book, r, a)) + One(Deposits[1] = [ref |-> r, amount |-> a])
      /\ Cardinality(AllSettled(b1)) = Cardinality(AllSettled(book)) + One(h1)
  BY <1>2, MatchCounts DEF RInv
<1>5. /\ BookFits(b2)
      /\ \A r \in Refs : \A a :
            Cardinality(Settled(b2, r, a))
               <= Cardinality(Settled(b1, r, a)) + One(Deposits[2] = [ref |-> r, amount |-> a])
      /\ Cardinality(AllSettled(b2)) = Cardinality(AllSettled(b1)) + One(h2)
  <2>1. BookFits(b1) /\ Deposits[2] = [ref |-> Deposits[2].ref, amount |-> Deposits[2].amount]
    BY <1>2, <1>4
  <2> HIDE DEF b1
  <2> QED BY <2>1, MatchCounts
<1>6. /\ BookFits(b3)
      /\ \A r \in Refs : \A a :
            Cardinality(Settled(b3, r, a))
               <= Cardinality(Settled(b2, r, a)) + One(Deposits[3] = [ref |-> r, amount |-> a])
      /\ Cardinality(AllSettled(b3)) = Cardinality(AllSettled(b2)) + One(h3)
  <2>1. BookFits(b2) /\ Deposits[3] = [ref |-> Deposits[3].ref, amount |-> Deposits[3].amount]
    BY <1>2, <1>5
  <2> HIDE DEF b2
  <2> QED BY <2>1, MatchCounts
<1> HIDE DEF b1, b2, b3, hits, h1, h2, h3
<1>7. matched' = Cardinality(AllSettled(b3))
  <2>1. PICK u \in Nat, v \in Nat, w \in Nat, n \in Nat :
            u = One(h1) /\ v = One(h2) /\ w = One(h3) /\ n = Cardinality(AllSettled(book))
    BY FS_CardinalityType DEF One, RInv, BookFits
  <2>2. matched' = n + (u + v + w)
    BY <1>1, <1>3, <2>1, Zenon DEF RInv
  <2>3. Cardinality(AllSettled(b3)) = ((n + u) + v) + w
    BY <1>4, <1>5, <1>6, <2>1, Zenon
  <2>4. n + (u + v + w) = ((n + u) + v) + w
    OBVIOUS
  <2> QED BY <2>2, <2>3, <2>4, Zenon
<1>8. ASSUME NEW r \in Refs, NEW p \in Payments
      PROVE  Cardinality(Settled(b3, r, p.amount))
                <= (cycles + 1) * Cardinality(Due(r, p.amount))
  <2> DEFINE D(i) == Deposits[i] = [ref |-> r, amount |-> p.amount]
  <2>1. Cardinality(Due(r, p.amount)) = One(D(1)) + One(D(2)) + One(D(3))
    <3>1. DOMAIN Deposits = 1..3
      BY DEF Deposits
    <3>2. Due(r, p.amount)
            = {i \in 1..3 : (i = 1 /\ D(1)) \/ (i = 2 /\ D(2)) \/ (i = 3 /\ D(3))}
      BY <3>1 DEF Due
    <3>3. D(1) \in BOOLEAN /\ D(2) \in BOOLEAN /\ D(3) \in BOOLEAN
      OBVIOUS
    <3> HIDE DEF D
    <3> QED BY <3>2, <3>3, OfThree
  <2>2. PICK u \in Nat, v \in Nat, w \in Nat :
            u = One(D(1)) /\ v = One(D(2)) /\ w = One(D(3))
    BY DEF One
  <2>3. PICK s0 \in Nat, s1 \in Nat, s2 \in Nat, s3 \in Nat :
            /\ s0 = Cardinality(Settled(book, r, p.amount))
            /\ s1 = Cardinality(Settled(b1, r, p.amount))
            /\ s2 = Cardinality(Settled(b2, r, p.amount))
            /\ s3 = Cardinality(Settled(b3, r, p.amount))
    BY <1>4, <1>5, <1>6, SettledFinite DEF RInv, BookFits
  <2>4. s1 <= s0 + u /\ s2 <= s1 + v /\ s3 <= s2 + w
    BY <1>4, <1>5, <1>6, <2>2, <2>3, Zenon
  <2>5. PICK c \in Nat, n \in Nat : c = cycles /\ n = u + v + w
    BY DEF RInv
  <2>6. s0 <= c * n
    BY <2>1, <2>2, <2>3, <2>5, Zenon DEF RInv
  <2>7. (c + 1) * n = c * n + n /\ c * n \in Nat
    BY <2>5
  <2>8. s3 <= (c + 1) * n
    <3>1. PICK m \in Nat : m = c * n
      BY <2>7
    <3>2. s3 <= m + n
      BY <2>4, <2>5, <2>6, <3>1
    <3> QED BY <2>7, <3>1, <3>2, Zenon
  <2> QED BY <2>1, <2>2, <2>3, <2>5, <2>8, Zenon
<1>9. cycles' \in Nat
  BY <1>1 DEF RInv
<1> QED BY <1>1, <1>6, <1>7, <1>8, <1>9, Zenon DEF RInv

\* A payment that is registered is pending.
LEMMA RegisterKeepsRInv ==
    ASSUME RInv, NEW t \in Threads, NEW r \in Refs, NEW a,
           [amount |-> a, status |-> "PENDING"] \in Payments, Register(t, r, a)
    PROVE  RInv'
<1> DEFINE p == [amount |-> a, status |-> "PENDING"]
<1>1. /\ Len(book[r]) < MaxExpected /\ book' = [book EXCEPT ![r] = Append(book[r], p)]
      /\ cycles' = cycles /\ matched' = matched
  BY DEF Register
<1>2. book \in [Refs -> Seq(Payments)] /\ p \in Payments /\ p.status = "PENDING"
  BY DEF RInv, BookFits
<1> HIDE DEF p
<1>3. /\ book'[r] = Append(book[r], p) /\ book'[r] \in Seq(Payments)
      /\ \A x \in Refs : x # r => book'[x] = book[x]
      /\ Len(book'[r]) = Len(book[r]) + 1
      /\ \A i \in DOMAIN book[r] : book'[r][i] = book[r][i]
      /\ DOMAIN book'[r] = DOMAIN book[r] \cup {Len(book[r]) + 1}
      /\ book'[r][Len(book[r]) + 1] = p
  BY <1>1, <1>2
<1>4. \A x \in Refs : \A c : Settled(book', x, c) = Settled(book, x, c)
  <2> SUFFICES ASSUME NEW x \in Refs, NEW c
               PROVE  Settled(book', x, c) = Settled(book, x, c)
    OBVIOUS
  <2>1. CASE x # r
    BY <1>3, <2>1 DEF Settled
  <2>2. CASE x = r
    <3>1. p # [amount |-> c, status |-> "SETTLED"]
      BY <1>2
    <3> QED BY <1>3, <2>2, <3>1 DEF Settled
  <2> QED BY <2>1, <2>2
<1>5. AllSettled(book') = AllSettled(book)
  <2>1. ASSUME NEW x \in Refs, NEW i \in 1..MaxExpected
        PROVE  i \in DOMAIN book'[x] /\ book'[x][i].status = "SETTLED"
                 <=> i \in DOMAIN book[x] /\ book[x][i].status = "SETTLED"
    <3>1. CASE x # r
      BY <1>3, <3>1
    <3>2. CASE x = r
      BY <1>2, <1>3, <3>2
    <3> QED BY <3>1, <3>2
  <2>2. \A z \in Refs \X (1..MaxExpected) : z[1] \in Refs /\ z[2] \in 1..MaxExpected
    OBVIOUS
  <2> QED BY <2>1, <2>2 DEF AllSettled
<1>6. BookFits(book')
  <2>1. \A x \in Refs : Len(book'[x]) <= MaxExpected
    <3> SUFFICES ASSUME NEW x \in Refs PROVE Len(book'[x]) <= MaxExpected
      OBVIOUS
    <3>1. Len(book[r]) \in Nat
      BY <1>2
    <3>2. CASE x = r
      BY <1>1, <1>3, <3>1, <3>2, ReconcilerAssumption
    <3>3. CASE x # r
      BY <1>3, <3>3 DEF RInv, BookFits
    <3> QED BY <3>2, <3>3
  <2>2. book' \in [Refs -> Seq(Payments)]
    BY <1>1, <1>2, <1>3
  <2> QED BY <1>5, <2>1, <2>2 DEF RInv, BookFits
<1> QED BY <1>1, <1>4, <1>5, <1>6 DEF RInv

\* An empty book has nothing settled.
LEMMA EmptyBook ==
    ASSUME NEW b, b = [r \in Refs |-> <<>>]
    PROVE  /\ BookFits(b) /\ Cardinality(AllSettled(b)) = 0
           /\ \A r \in Refs, p \in Payments :
                 Cardinality(Settled(b, r, p.amount)) <= 0 * Cardinality(Due(r, p.amount))
<1>1. AllSettled(b) = {} /\ \A r \in Refs : \A a : Settled(b, r, a) = {}
  BY DEF AllSettled, Settled
<1>2. IsFiniteSet({}) /\ Cardinality({}) = 0
  BY FS_EmptySet
<1>3. BookFits(b)
  <2>1. <<>> \in Seq(Payments) /\ Len(<<>>) = 0
    OBVIOUS
  <2>2. b \in [Refs -> Seq(Payments)]
    BY <2>1
  <2>3. \A r \in Refs : Len(b[r]) <= MaxExpected
    BY <2>1, ReconcilerAssumption
  <2>4. IsFiniteSet(AllSettled(b))
    BY <1>1, <1>2, Zenon
  <2> QED BY <2>2, <2>3, <2>4 DEF BookFits
<1>4. \A r \in Refs : \A a : Cardinality(Due(r, a)) \in Nat
  <2> SUFFICES ASSUME NEW r \in Refs, NEW a PROVE Cardinality(Due(r, a)) \in Nat
    OBVIOUS
  <2>1. Due(r, a) \in SUBSET (1..3)
    BY DEF Due, Deposits
  <2> QED BY <2>1, ThreeFinite, FS_Subset, FS_CardinalityType
<1>5. ASSUME NEW r \in Refs, NEW p \in Payments
      PROVE  Cardinality(Settled(b, r, p.amount)) <= 0 * Cardinality(Due(r, p.amount))
  <2>1. PICK n \in Nat : n = Cardinality(Due(r, p.amount))
    BY <1>4
  <2>2. 0 <= 0 * n
    BY <2>1
  <2> QED BY <1>1, <1>2, <2>1, <2>2, Zenon
<1> QED BY <1>1, <1>2, <1>3, <1>5

LEMMA NextKeepsRInv == RInv /\ [Next]_vars => RInv'
<1> SUFFICES ASSUME RInv, [Next]_vars PROVE RInv'
  OBVIOUS
<1>1. CASE UNCHANGED bookVars
  BY <1>1 DEF RInv, bookVars
<1>2. ASSUME NEW t \in Threads, BookStep(t) PROVE RInv'
  <2>1. CASE Cycle(t)
    BY <2>1, CycleKeepsRInv
  <2>2. CASE ClearLedger(t)
    <3>1. book' = [r \in Refs |-> <<>>] /\ cycles' = 0 /\ matched' = 0
      BY <2>2 DEF ClearLedger
    <3> QED BY <3>1, EmptyBook DEF RInv
  <2>3. ASSUME NEW r \in Refs, NEW i \in DOMAIN Deposits,
               Register(t, r, Deposits[i].amount)
        PROVE  RInv'
    <3>1. [amount |-> Deposits[i].amount, status |-> "PENDING"] \in Payments
      BY DEF Payments
    <3> QED BY <2>3, <3>1, RegisterKeepsRInv
  <2> QED BY <1>2, <2>1, <2>2, <2>3 DEF BookStep
<1> QED BY <1>1, <1>2 DEF Next, vars

\* However cycles, registrations and clearings follow each other, each cycle lets
\* each deposit settle one payment, and reports it. run_reconciliation_cycle.
THEOREM SettlesByDeposits == Spec => []SettledByDeposits
<1>1. Init => RInv
  BY EmptyBook DEF Init, BookInit, RInv
<1>2. RInv => SettledByDeposits
  BY DEF RInv, SettledByDeposits, Settled, Due, AllSettled
<1> QED BY <1>1, <1>2, NextKeepsRInv, PTL DEF Spec

=============================================================================
