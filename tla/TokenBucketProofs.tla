--------------------------- MODULE TokenBucketProofs ---------------------------
(***************************************************************************)
(* Proofs about TokenBucket. The argument is about what the bucket would   *)
(* hold if it were refilled now: that, and what is owed, together never    *)
(* exceed a full bucket, until the clock is set.                           *)
(***************************************************************************)
EXTENDS TokenBucket, TLAPS

\* What a refill would leave, were the clock never set back.
Avail ==
    IF clock >= last THEN Lower(Capacity, tokens + (clock - last) * Rate)
                     ELSE Capacity

Owed == debt + Avail <= Capacity * (1 + steps)

\* Before the clock is first set nothing is lost either.
Exact == steps = 0 => clock >= last /\ debt + Avail = Capacity

BInv == TypeOK /\ Owed /\ Exact

LEMMA LowerIs ==
    ASSUME NEW a \in Int, NEW b \in Int
    PROVE  /\ Lower(a, b) \in {a, b}
           /\ Lower(a, b) <= a /\ Lower(a, b) <= b
           /\ b >= a => Lower(a, b) = a
           /\ b <= a => Lower(a, b) = b
BY DEF Lower

LEMMA RangeIsNat ==
    ASSUME NEW k \in Nat, NEW a \in 0..k
    PROVE  a \in Nat /\ a <= k
OBVIOUS

LEMMA ProductIsNat ==
    ASSUME NEW a \in Nat, NEW b \in Nat
    PROVE  a * b \in Nat
OBVIOUS

LEMMA SmallMod ==
    ASSUME NEW a \in Nat, NEW w \in Nat, a < w
    PROVE  a % w = a
OBVIOUS

LEMMA ElapsedIsNat ==
    ASSUME TypeOK
    PROVE  /\ Elapsed \in Nat
           /\ clock >= last => Elapsed = clock - last
<1>1. /\ clock - last \in Int /\ clock \in Nat /\ last \in Nat
      /\ clock <= MaxTime /\ last <= MaxTime
      /\ MaxTime \in Nat /\ Word \in Nat /\ Word > MaxTime /\ Word > 0
  BY BucketAssumption DEF TypeOK
<1>2. Elapsed \in Nat
  BY <1>1 DEF Elapsed
<1>3. ASSUME clock >= last
      PROVE  Elapsed = clock - last
  <2>1. PICK d \in Int : d = clock - last
    BY <1>1
  <2>2. d \in Nat /\ d < Word
    BY <1>1, <1>3, <2>1
  <2>3. d % Word = d
    BY <1>1, <2>2, SmallMod
  <2> QED BY <2>1, <2>3 DEF Elapsed
<1> QED BY <1>2, <1>3

\* What is available lies between nothing and a full bucket, and a refill
\* leaves no more, and the same while the clock is ahead of the last refill.
LEMMA AvailIs ==
    ASSUME TypeOK
    PROVE  /\ Avail \in 0..Capacity
           /\ Refilled \in 0..Capacity
           /\ Refilled <= Avail
           /\ clock >= last => Refilled = Avail
<1>1. /\ clock \in Nat /\ last \in Nat /\ tokens \in Nat /\ tokens <= Capacity
      /\ Capacity \in Nat /\ Rate \in Nat
  BY BucketAssumption DEF TypeOK
<1>2. Elapsed * Rate \in Nat
  BY <1>1, ElapsedIsNat, ProductIsNat
<1>3. Refilled \in 0..Capacity
  BY <1>1, <1>2, LowerIs DEF Refilled
<1>4. CASE clock >= last
  <2>1. Elapsed = clock - last
    BY <1>4, ElapsedIsNat
  <2>2. Refilled = Avail
    BY <1>4, <2>1 DEF Refilled, Avail
  <2> QED BY <1>3, <2>2, <1>1
<1>5. CASE ~(clock >= last)
  BY <1>1, <1>3, <1>5 DEF Avail
<1> QED BY <1>4, <1>5

AvailInRange == Avail \in 0..Capacity

LEMMA AvailRange == TypeOK => AvailInRange
BY AvailIs DEF AvailInRange

LEMMA AvailRangeNext == TypeOK' => AvailInRange'
BY AvailRange, PTL

\* A refill followed by taking n out: n more is owed, n less is there.
LEMMA RefillStep ==
    ASSUME BInv, NEW n \in Nat, n <= Refilled,
           tokens' = Refilled - n, last' = clock, clock' = clock,
           debt' = debt + n, steps' = steps
    PROVE  Owed' /\ Exact' /\ tokens' \in 0..Capacity /\ debt' \in Nat
<1>1. /\ clock \in Nat /\ debt \in Nat /\ steps \in Nat
      /\ Capacity \in Nat /\ Rate \in Nat
  BY BucketAssumption DEF BInv, TypeOK
<1>2. /\ Avail \in 0..Capacity /\ Refilled \in 0..Capacity
      /\ Refilled <= Avail /\ (clock >= last => Refilled = Avail)
  BY AvailIs DEF BInv
<1>3. Avail' = Refilled - n
  <2>1. (clock' - last') * Rate = 0
    BY <1>1
  <2>2. clock' >= last' /\ tokens' \in Nat /\ tokens' <= Capacity
    BY <1>1, <1>2
  <2>3. Lower(Capacity, tokens' + 0) = tokens'
    BY <2>2, <1>1, LowerIs
  <2> QED BY <2>1, <2>2, <2>3, <1>1 DEF Avail
<1>4. Owed'
  <2>1. PICK c \in Int : c = Capacity * (1 + steps)
    BY <1>1
  <2>2. debt + Avail <= c /\ Capacity * (1 + steps') = c
    BY <2>1 DEF BInv, Owed
  <2>3. debt' + Avail' = debt + Refilled
    BY <1>1, <1>2, <1>3
  <2> QED BY <2>1, <2>2, <2>3, <1>1, <1>2 DEF Owed
<1>5. Exact'
  BY <1>1, <1>2, <1>3 DEF BInv, Exact
<1> QED BY <1>1, <1>2, <1>4, <1>5

\* What a tick pays back and what it adds to the bucket.
LEMMA TickSum ==
    ASSUME NEW d \in Nat, NEW e \in Nat, NEW a \in Nat, NEW b \in Nat,
           NEW r \in Nat, NEW k \in Nat, NEW c \in Int, k <= c, d + a <= c,
           b <= k, b <= a + r,
           e = IF d > r THEN d - r ELSE 0
    PROVE  e + b <= c
OBVIOUS

LEMMA TickExact ==
    ASSUME NEW d \in Nat, NEW e \in Nat, NEW a \in Nat, NEW b \in Nat,
           NEW r \in Nat, NEW k \in Nat, d + a = k, a <= k,
           a + r >= k => b = k, a + r <= k => b = a + r,
           e = IF d > r THEN d - r ELSE 0
    PROVE  e + b = k
OBVIOUS

LEMMA TickStep ==
    ASSUME BInv, Tick
    PROVE  BInv'
<1>1. /\ clock \in Nat /\ last \in Nat /\ tokens \in Nat /\ debt \in Nat /\ steps \in Nat
      /\ tokens <= Capacity /\ Capacity \in Nat /\ Rate \in Nat
      /\ clock < MaxTime /\ MaxTime \in Nat
  BY BucketAssumption DEF BInv, TypeOK, Tick
<1>2. /\ clock' = clock + 1 /\ last' = last /\ tokens' = tokens /\ steps' = steps
      /\ debt' = IF debt > Rate THEN debt - Rate ELSE 0
  BY DEF Tick
<1>3. TypeOK'
  <2>1. clock' \in 0..MaxTime /\ debt' \in Nat
    BY <1>1, <1>2
  <2> QED BY <2>1, <1>2 DEF BInv, TypeOK, Tick
<1>4. Avail \in 0..Capacity /\ Avail' \in 0..Capacity
  <2>1. TypeOK
    BY DEF BInv
  <2> QED BY <1>3, <2>1, AvailRange, AvailRangeNext DEF AvailInRange
<1>5. PICK a \in Nat : a = Avail /\ a <= Capacity
  BY <1>1, <1>4, RangeIsNat
<1>6. PICK b \in Nat : b = Avail' /\ b <= Capacity
  BY <1>1, <1>4, RangeIsNat
<1>7. PICK d \in Nat : d = debt
  BY <1>1
<1>8. PICK e \in Nat : e = debt' /\ e = IF d > Rate THEN d - Rate ELSE 0
  BY <1>1, <1>2, <1>7
<1>9. b <= Capacity /\ e = IF d > Rate THEN d - Rate ELSE 0
  BY <1>6, <1>8
<1>10. PICK c \in Int : c = Capacity * (1 + steps) /\ c >= Capacity
  <2>1. Capacity * (1 + steps) = Capacity + Capacity * steps
    BY <1>1
  <2>2. Capacity * steps \in Nat
    BY <1>1, ProductIsNat
  <2> QED BY <2>1, <2>2, <1>1
<1>11. d + a <= c
  BY <1>5, <1>7, <1>10 DEF BInv, Owed
<1>12. ASSUME e + b <= c
       PROVE  Owed'
  <2>1. Capacity * (1 + steps') = c
    BY <1>2, <1>10
  <2> QED BY <1>6, <1>8, <1>12, <2>1 DEF Owed
<1>13. CASE clock >= last
  <2>1. PICK x \in Nat : x = (clock - last) * Rate
    BY <1>1, <1>13, ProductIsNat
  <2>2. (clock' - last') * Rate = x + Rate
    BY <1>1, <1>2, <2>1
  <2>3. a = Lower(Capacity, tokens + x)
    BY <1>5, <1>13, <2>1 DEF Avail
  <2>4. clock' >= last'
    BY <1>1, <1>2, <1>13
  <2>5. b = Lower(Capacity, tokens + (x + Rate))
    BY <2>2, <2>4, <1>2, <1>6 DEF Avail
  <2>6. /\ b <= a + Rate
        /\ a + Rate >= Capacity => b = Capacity
        /\ a + Rate <= Capacity => b = a + Rate
    BY <1>1, <2>1, <2>3, <2>5, LowerIs DEF Lower
  <2>7. Owed'
    <3>1. e + b <= c
      BY <1>1, <1>5, <1>10, <1>11, <1>9, <2>6, TickSum
    <3> QED BY <3>1, <1>12
  <2>8. ASSUME steps = 0
        PROVE  debt' + Avail' = Capacity
    <3>1. d + a = Capacity
      BY <2>8, <1>5, <1>7 DEF BInv, Exact
    <3>2. e + b = Capacity
      BY <1>1, <1>5, <1>8, <2>6, <3>1, TickExact
    <3> QED BY <1>6, <1>8, <3>2
  <2> QED BY <1>2, <1>3, <2>4, <2>7, <2>8 DEF BInv, Exact
<1>14. CASE ~(clock >= last)
  <2>1. a = Capacity
    BY <1>5, <1>14 DEF Avail
  <2>2. Owed'
    <3>1. b <= a + Rate
      BY <1>1, <1>6, <2>1
    <3>2. e + b <= c
      BY <1>1, <1>5, <1>10, <1>11, <1>9, <3>1, TickSum
    <3> QED BY <3>2, <1>12
  <2> QED BY <1>2, <1>3, <1>14, <2>2 DEF BInv, Exact
<1> QED BY <1>13, <1>14

LEMMA SetClockStep ==
    ASSUME BInv, SetClock
    PROVE  BInv'
<1>1. /\ debt \in Nat /\ steps \in Nat /\ Capacity \in Nat
      /\ steps < MaxSteps /\ MaxSteps \in Nat
  BY BucketAssumption DEF BInv, TypeOK, SetClock
<1>2. steps' = steps + 1 /\ debt' = debt
  BY DEF SetClock
<1>3. TypeOK'
  <2>1. clock' \in 0..MaxTime /\ steps' \in 0..MaxSteps
    BY <1>1, <1>2 DEF SetClock
  <2> QED BY <2>1 DEF BInv, TypeOK, SetClock
<1>4. Avail \in 0..Capacity /\ Avail' \in 0..Capacity
  <2>1. TypeOK
    BY DEF BInv
  <2> QED BY <1>3, <2>1, AvailRange, AvailRangeNext DEF AvailInRange
<1>5. PICK a \in Nat : a = Avail /\ a <= Capacity
  BY <1>1, <1>4, RangeIsNat
<1>6. PICK b \in Nat : b = Avail' /\ b <= Capacity
  BY <1>1, <1>4, RangeIsNat
<1>7. PICK d \in Nat : d = debt
  BY <1>1
<1>8. PICK c \in Int : c = Capacity * (1 + steps)
  BY <1>1
<1>9. Capacity * (1 + steps') = c + Capacity
  BY <1>1, <1>2, <1>8
<1>10. d + a <= c
  BY <1>5, <1>7, <1>8 DEF BInv, Owed
<1>11. d + b <= c + Capacity
  <2>1. b <= Capacity
    BY <1>6
  <2> QED BY <2>1, <1>1, <1>10
<1>12. Owed'
  <2>1. debt' + Avail' = d + b
    BY <1>2, <1>6, <1>7
  <2> QED BY <2>1, <1>9, <1>11, Zenon DEF Owed
<1> QED BY <1>1, <1>2, <1>3, <1>12 DEF BInv, Exact

THEOREM BucketInv == Spec => []BInv
<1>1. Init => BInv
  <2> SUFFICES ASSUME Init PROVE BInv
    OBVIOUS
  <2>1. Capacity \in Nat /\ Rate \in Nat /\ MaxTime \in Nat /\ MaxSteps \in Nat
    BY BucketAssumption
  <2>2. TypeOK
    BY <2>1 DEF Init, TypeOK, NoAnswer
  <2>3. (clock - last) * Rate = 0
    BY <2>1 DEF Init
  <2>4. Avail = Capacity
    BY <2>1, <2>3, LowerIs DEF Avail, Init
  <2> QED BY <2>1, <2>2, <2>4 DEF BInv, Owed, Exact, Init
<1>2. BInv /\ [Next]_vars => BInv'
  <2> SUFFICES ASSUME BInv, [Next]_vars PROVE BInv'
    OBVIOUS
  <2>1. CASE Tick
    BY <2>1, TickStep
  <2>2. CASE SetClock
    BY <2>2, SetClockStep
  <2>3. CASE Query
    <3>1. Refilled \in 0..Capacity /\ Capacity \in Nat /\ debt \in Nat /\ clock \in 0..MaxTime
      BY AvailIs, BucketAssumption DEF BInv, TypeOK
    <3>2. /\ tokens' = Refilled - 0 /\ last' = clock /\ clock' = clock
          /\ debt' = debt + 0 /\ steps' = steps
      BY <2>3, <3>1 DEF Query
    <3>3. 0 <= Refilled /\ 0 \in Nat
      BY <3>1
    <3>4. Owed' /\ Exact' /\ tokens' \in 0..Capacity /\ debt' \in Nat
      BY <3>2, <3>3, RefillStep
    <3> QED BY <2>3, <3>1, <3>2, <3>4 DEF BInv, TypeOK, Query
  <2>4. CASE \E n \in Costs : Grant(n)
    <3>1. PICK n \in Costs : Grant(n)
      BY <2>4
    <3>2. n \in Nat /\ clock \in 0..MaxTime /\ Refilled \in 0..Capacity /\ Capacity \in Nat
      BY AvailIs, BucketAssumption DEF BInv, TypeOK
    <3>3. /\ tokens' = Refilled - n /\ last' = clock /\ clock' = clock
          /\ debt' = debt + n /\ steps' = steps /\ n <= Refilled
      BY <3>1, <3>2 DEF Grant
    <3>4. Owed' /\ Exact' /\ tokens' \in 0..Capacity /\ debt' \in Nat
      BY <3>2, <3>3, RefillStep
    <3>5. answer' \in [asked : Costs \cup {0}, granted : BOOLEAN]
      BY <3>1 DEF Grant
    <3> QED BY <3>2, <3>3, <3>4, <3>5 DEF BInv, TypeOK
  <2>5. CASE \E n \in Costs : Refuse(n)
    <3>1. PICK n \in Costs : Refuse(n)
      BY <2>5
    <3>2. /\ clock \in 0..MaxTime /\ Refilled \in 0..Capacity /\ Capacity \in Nat
          /\ debt \in Nat
      BY AvailIs, BucketAssumption DEF BInv, TypeOK
    <3>3. /\ tokens' = Refilled - 0 /\ last' = clock /\ clock' = clock
          /\ debt' = debt + 0 /\ steps' = steps
      BY <3>1, <3>2 DEF Refuse
    <3>4. 0 <= Refilled /\ 0 \in Nat
      BY <3>2
    <3>5. Owed' /\ Exact' /\ tokens' \in 0..Capacity /\ debt' \in Nat
      BY <3>3, <3>4, RefillStep
    <3>6. answer' \in [asked : Costs \cup {0}, granted : BOOLEAN]
      BY <3>1 DEF Refuse
    <3> QED BY <3>2, <3>3, <3>5, <3>6 DEF BInv, TypeOK
  <2>6. CASE UNCHANGED vars
    BY <2>6 DEF BInv, TypeOK, Owed, Exact, Avail, vars
  <2> QED BY <2>1, <2>2, <2>3, <2>4, <2>5, <2>6 DEF Next
<1> QED BY <1>1, <1>2, PTL DEF Spec

\* Every variable keeps its type; the bucket never holds more than its capacity
\* and never less than nothing. try_acquire, refill.
THEOREM BucketTyped == Spec => []TypeOK
<1>1. BInv => TypeOK
  BY DEF BInv
<1> QED BY <1>1, BucketInv, PTL

\* In no span of time is more granted than the rate and a full bucket allow, and
\* one more bucket for every setting of the clock. try_acquire.
THEOREM GrantsStayBounded == Spec => []GrantsBounded
<1>1. BInv => GrantsBounded
  <2> SUFFICES ASSUME BInv PROVE GrantsBounded
    OBVIOUS
  <2>1. Avail \in 0..Capacity /\ debt \in Nat /\ steps \in Nat /\ Capacity \in Nat
    BY AvailIs, BucketAssumption DEF BInv, TypeOK
  <2>2. PICK c \in Int : c = Capacity * (1 + steps)
    BY <2>1
  <2>3. debt + Avail <= c
    BY <2>2 DEF BInv, Owed
  <2>4. debt <= c
    BY <2>1, <2>3
  <2> QED BY <2>2, <2>4 DEF GrantsBounded
<1> QED BY <1>1, BucketInv, PTL

\* While the clock is left alone a call is refused only if the bound leaves no
\* room for it. try_acquire.
THEOREM NoNeedlessRefusal == Spec => RefusedOnlyWhenSpent
<1> DEFINE Spent == \A n \in Costs :
          steps = 0 /\ answer' = [asked |-> n, granted |-> FALSE]
          /\ answer' # answer => debt + n > Capacity
<1>1. BInv /\ [Next]_vars => [Spent]_vars
  <2> SUFFICES ASSUME BInv, [Next]_vars, NEW n \in Costs, steps = 0,
                      answer' = [asked |-> n, granted |-> FALSE], answer' # answer
               PROVE  debt + n > Capacity
    OBVIOUS
  <2>1. \E k \in Costs : Refuse(k)
    <3>1. ASSUME NEW k \in Costs PROVE ~Grant(k)
      BY DEF Grant
    <3>2. ~Tick /\ ~SetClock /\ ~Query /\ ~UNCHANGED vars
      BY DEF Tick, SetClock, Query, vars
    <3> QED BY <3>1, <3>2 DEF Next
  <2>2. PICK k \in Costs : Refuse(k)
    BY <2>1
  <2>3. k = n
    BY <2>2 DEF Refuse
  <2>4. Refilled < n
    BY <2>2, <2>3 DEF Refuse
  <2>5. clock >= last /\ debt + Avail = Capacity
    BY DEF BInv, Exact
  <2>6. Refilled = Avail /\ Avail \in 0..Capacity
    BY <2>5, AvailIs DEF BInv
  <2>7. n \in Nat /\ debt \in Nat /\ Capacity \in Nat
    BY BucketAssumption DEF BInv, TypeOK
  <2> QED BY <2>4, <2>5, <2>6, <2>7
<1>2. Spec => [][Spent]_vars
  BY <1>1, BucketInv, PTL DEF Spec
<1> QED BY <1>2 DEF RefusedOnlyWhenSpent

=============================================================================
