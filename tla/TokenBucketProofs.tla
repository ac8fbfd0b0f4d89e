--------------------------- MODULE TokenBucketProofs ---------------------------
(***************************************************************************)
(* Proofs about TokenBucket, for any rate, capacity and size of a token.   *)
(***************************************************************************)
EXTENDS TokenBucket, SequenceTheorems, TLAPS

(* The price of the i-th request and all that follow it, of n requests. *)
Price(n, i) == (n - i + 1) * Token

(* What a bucket gains in a time t, if it is not full. *)
Gain(t) == t * Rate

(* What passed, from the i-th request on, and what is left in the bucket were
   in the full bucket or have been gained since.                           *)
Spent(a) ==
  \A i \in 1 .. Len(passed[a]) :
    /\ passed[a][i] <= clock
    /\ level[a] + Price(Len(passed[a]), i) <= Capacity + Gain(clock - passed[a][i])

(* The bucket holds at least what it has gained since a request last passed. *)
Gained(a) ==
  IF passed[a] = <<>>
  THEN level[a] = Capacity
  ELSE level[a] >= Capped(Gain(clock - passed[a][Len(passed[a])]))

Budget == \A a \in Addresses : Spent(a) /\ Gained(a)

IInv == TypeOK /\ Budget /\ WindowBound /\ RefusedOnlyIfBusy

(* Facts of arithmetic. *)
LEMMA PriceFacts ==
  ASSUME NEW n \in Int, NEW i \in Int
  PROVE  /\ Price(n, i) \in Int
         /\ Price(n + 1, i) = Price(n, i) + Token
         /\ Price(i, i) = Token
BY TokenAssumption DEF Price

LEMMA GainFacts ==
  ASSUME NEW t \in Int
  PROVE  /\ Gain(t) \in Int
         /\ Gain(t + 1) = Gain(t) + Rate
         /\ Gain(0) = 0
BY RateAssumption DEF Gain

LEMMA Unchanged == IInv /\ UNCHANGED vars => IInv'
BY DEF IInv, vars, TypeOK, Budget, Spent, Gained, WindowBound, RefusedOnlyIfBusy

LEMMA PassStep ==
  ASSUME IInv, NEW a \in Addresses, Pass(a)
  PROVE  IInv'
<1> DEFINE s == passed[a]
           n == Len(s)
<1>1. /\ s \in Seq(Nat) /\ n \in Nat /\ DOMAIN s = 1 .. n
      /\ \A i \in 1 .. n : s[i] \in Nat
  BY LenProperties, ElementOfSeq DEF IInv, TypeOK
<1>2. /\ passed'[a] = Append(s, clock)
      /\ passed'[a] \in Seq(Nat)
      /\ passed'[a] # <<>>
      /\ Len(passed'[a]) = n + 1
      /\ \A i \in 1 .. n : passed'[a][i] = s[i]
      /\ passed'[a][n + 1] = clock
  <2>1. passed'[a] = Append(s, clock) /\ clock \in Nat
    BY DEF Pass, IInv, TypeOK
  <2> DEFINE u == Append(s, clock)
  <2> HIDE DEF s
  <2>2. /\ u \in Seq(Nat)
        /\ u # <<>>
        /\ Len(u) = n + 1
        /\ \A i \in 1 .. n : u[i] = s[i]
        /\ u[n + 1] = clock
    BY <1>1, <2>1, AppendProperties
  <2> QED BY <2>1, <2>2
<1>3. DOMAIN passed'[a] = 1 .. n + 1
  BY <1>2, LenProperties
<1>4. \A b \in Addresses \ {a} : passed'[b] = passed[b] /\ level'[b] = level[b]
  BY DEF Pass, IInv, TypeOK
<1>5. /\ level'[a] = level[a] - Token /\ level[a] >= Token /\ level[a] \in 0 .. Capacity
      /\ clock' = clock /\ refused' = refused /\ clock \in Nat
  BY DEF Pass, IInv, TypeOK
<1>6. TypeOK'
  BY <1>2, <1>5, TokenAssumption, CapacityAssumption DEF Pass, IInv, TypeOK
<1>7. ASSUME NEW i \in 1 .. n + 1
      PROVE  /\ passed'[a][i] \in Nat
             /\ passed'[a][i] <= clock
             /\ level'[a] + Price(n + 1, i) <= Capacity + Gain(clock - passed'[a][i])
  <2>1. CASE i = n + 1
    <3>1. passed'[a][i] = clock /\ clock - clock = 0
      BY <1>2, <1>5, <2>1
    <3>2. Price(n + 1, n + 1) = Token
      <4> DEFINE m == n + 1
      <4>1. m \in Int
        BY <1>1
      <4> HIDE DEF m
      <4>2. Price(m, m) = Token
        BY <4>1, PriceFacts
      <4> QED BY <4>2 DEF m
    <3>3. Gain(0) = 0
      BY GainFacts
    <3> QED BY <1>5, <2>1, <3>1, <3>2, <3>3, TokenAssumption, CapacityAssumption
  <2>2. CASE i # n + 1
    <3> DEFINE t == clock - s[i]
    <3>1. i \in 1 .. n /\ i \in Int /\ passed'[a][i] = s[i] /\ s[i] \in Nat
      BY <1>1, <1>2, <2>2
    <3>2. s[i] <= clock /\ level[a] + Price(n, i) <= Capacity + Gain(t)
      BY <3>1 DEF IInv, Budget, Spent
    <3>3. t \in Int
      BY <1>5, <3>1
    <3> HIDE DEF n, s, t
    <3>4. Price(n, i) \in Int /\ Price(n + 1, i) = Price(n, i) + Token
      BY <1>1, <3>1, PriceFacts
    <3>5. Gain(t) \in Int
      BY <3>3, GainFacts
    <3>6. level'[a] + Price(n + 1, i) <= Capacity + Gain(t)
      BY <1>5, <3>2, <3>4, <3>5, TokenAssumption, CapacityAssumption
    <3> QED BY <3>1, <3>2, <3>6 DEF t
  <2> QED BY <2>1, <2>2
<1>8. Gained(a)'
  <2>1. passed'[a][Len(passed'[a])] = clock /\ passed'[a] # <<>>
    BY <1>2
  <2>2. clock' - clock = 0
    BY <1>5
  <2>3. Capped(Gain(0)) = 0
    BY GainFacts, CapacityAssumption, TokenAssumption DEF Capped
  <2> QED BY <1>5, <2>1, <2>2, <2>3, TokenAssumption, CapacityAssumption DEF Gained
<1>9. Budget'
  <2>1. Spent(a)'
    BY <1>2, <1>5, <1>7 DEF Spent
  <2>2. ASSUME NEW b \in Addresses \ {a} PROVE Spent(b)' /\ Gained(b)'
    BY <1>4, <1>5 DEF IInv, Budget, Spent, Gained
  <2> QED BY <1>8, <2>1, <2>2 DEF Budget
<1>10. WindowBound'
  <2> SUFFICES ASSUME NEW i \in 1 .. n + 1, NEW j \in 1 .. n + 1, i <= j
               PROVE  (j - i + 1) * Token
                        <= Capacity + (passed'[a][j] - passed'[a][i]) * Rate
    BY <1>2, <1>3, <1>4 DEF IInv, WindowBound
  <2>1. CASE j = n + 1
    <3> DEFINE p == passed'[a][i]
               t == clock - p
    <3>1. passed'[a][j] = clock
      BY <1>2, <2>1
    <3>2. p \in Nat /\ level'[a] + Price(n + 1, i) <= Capacity + Gain(t)
      BY <1>7
    <3>3. t \in Int /\ n + 1 \in Int /\ i \in Int
      BY <1>1, <1>5, <3>2
    <3>4. Price(n + 1, i) = (j - i + 1) * Token /\ Gain(t) = (passed'[a][j] - p) * Rate
      BY <2>1, <3>1 DEF Price, Gain
    <3> HIDE DEF n, p, t
    <3>5. Price(n + 1, i) \in Int /\ Gain(t) \in Int
      BY <3>3, PriceFacts, GainFacts
    <3>6. Price(n + 1, i) <= Capacity + Gain(t)
      BY <1>5, <3>2, <3>5, TokenAssumption, CapacityAssumption
    <3> QED BY <3>4, <3>6 DEF p
  <2>2. CASE j # n + 1
    <3>1. i \in 1 .. n /\ j \in 1 .. n
      BY <1>1, <2>2
    <3> QED BY <1>1, <1>2, <3>1 DEF IInv, WindowBound
  <2> QED BY <2>1, <2>2
<1>11. RefusedOnlyIfBusy'
  <2> SUFFICES ASSUME NEW b \in Addresses, refused[b] # Never
               PROVE  \E i \in DOMAIN passed'[b] :
                        /\ passed'[b][i] <= refused[b]
                        /\ (refused[b] - passed'[b][i]) * Rate < Token
    BY <1>5 DEF RefusedOnlyIfBusy
  <2>1. PICK i \in DOMAIN passed[b] :
          /\ passed[b][i] <= refused[b]
          /\ (refused[b] - passed[b][i]) * Rate < Token
    BY DEF IInv, RefusedOnlyIfBusy
  <2>2. i \in DOMAIN passed'[b] /\ passed'[b][i] = passed[b][i]
    <3>1. CASE b = a
      <4>1. i \in 1 .. n /\ i \in 1 .. n + 1
        BY <1>1, <3>1
      <4> QED BY <1>2, <1>3, <3>1, <4>1
    <3>2. CASE b # a
      BY <1>4, <3>2
    <3> QED BY <3>1, <3>2
  <2> QED BY <2>1, <2>2
<1> QED BY <1>6, <1>9, <1>10, <1>11 DEF IInv

LEMMA RefuseStep ==
  ASSUME IInv, NEW a \in Addresses, Refuse(a)
  PROVE  IInv'
<1> DEFINE s == passed[a]
           n == Len(s)
           t == clock - s[n]
<1>1. UNCHANGED <<level, passed, clock>> /\ refused' = [refused EXCEPT ![a] = clock]
  BY DEF Refuse
<1>2. TypeOK' /\ Budget' /\ WindowBound'
  BY <1>1 DEF IInv, TypeOK, Budget, Spent, Gained, WindowBound
<1>3. /\ s \in Seq(Nat) /\ n \in Nat /\ DOMAIN s = 1 .. n
      /\ level[a] \in 0 .. Capacity /\ level[a] < Token /\ clock \in Nat
  BY LenProperties DEF IInv, TypeOK, Refuse
<1>4. s # <<>>
  BY <1>3, TokenAssumption, CapacityAssumption DEF IInv, Budget, Gained
<1>5. n \in 1 .. n /\ s[n] \in Nat
  BY <1>3, <1>4, EmptySeq, ElementOfSeq
<1>6. s[n] <= clock
  BY <1>5 DEF IInv, Budget, Spent
<1>7. Gain(t) < Token
  <2>1. level[a] >= Capped(Gain(t))
    BY <1>4 DEF IInv, Budget, Gained
  <2>2. t \in Int
    BY <1>3, <1>5
  <2> HIDE DEF t
  <2>3. Gain(t) \in Int
    BY <2>2, GainFacts
  <2> QED BY <1>3, <2>1, <2>3, TokenAssumption, CapacityAssumption DEF Capped
<1>8. RefusedOnlyIfBusy'
  <2> SUFFICES ASSUME NEW b \in Addresses, refused'[b] # Never
               PROVE  \E i \in DOMAIN passed[b] :
                        /\ passed[b][i] <= refused'[b]
                        /\ (refused'[b] - passed[b][i]) * Rate < Token
    BY <1>1 DEF RefusedOnlyIfBusy
  <2>1. CASE b = a
    <3>1. refused'[b] = clock
      BY <1>1, <2>1 DEF IInv, TypeOK
    <3> QED BY <1>3, <1>5, <1>6, <1>7, <2>1, <3>1 DEF Gain
  <2>2. CASE b # a
    BY <1>1, <2>2 DEF IInv, TypeOK, RefusedOnlyIfBusy
  <2> QED BY <2>1, <2>2
<1> QED BY <1>2, <1>8 DEF IInv

LEMMA TickStep ==
  ASSUME IInv, Tick
  PROVE  IInv'
<1>1. /\ clock' = clock + 1 /\ clock \in Nat
      /\ passed' = passed /\ refused' = refused
      /\ \A a \in Addresses :
           /\ level[a] \in 0 .. Capacity
           /\ level'[a] = Capped(level[a] + Rate)
  BY DEF Tick, IInv, TypeOK
<1>2. TypeOK'
  BY RateAssumption, CapacityAssumption DEF Tick, IInv, TypeOK, Capped
<1>3. ASSUME NEW a \in Addresses, NEW p \in Nat
      PROVE  Gain(clock - p) \in Int /\ Gain(clock' - p) = Gain(clock - p) + Rate
  <2> DEFINE t == clock - p
  <2>1. t \in Int /\ clock' - p = t + 1
    BY <1>1
  <2> HIDE DEF t
  <2>2. Gain(t) \in Int /\ Gain(t + 1) = Gain(t) + Rate
    BY <2>1, GainFacts
  <2> QED BY <2>1, <2>2 DEF t
<1>4. ASSUME NEW a \in Addresses PROVE Spent(a)'
  <2> DEFINE n == Len(passed[a])
  <2>1. n \in Nat
    BY LenProperties DEF IInv, TypeOK
  <2>2. ASSUME NEW i \in 1 .. n
        PROVE  /\ passed[a][i] <= clock'
               /\ level'[a] + Price(n, i) <= Capacity + Gain(clock' - passed[a][i])
    <3> DEFINE p == passed[a][i]
    <3>1. p \in Nat /\ i \in Int
      BY ElementOfSeq DEF IInv, TypeOK
    <3>2. p <= clock /\ level[a] + Price(n, i) <= Capacity + Gain(clock - p)
      BY DEF IInv, Budget, Spent
    <3>3. level'[a] \in Int /\ level[a] \in Int /\ level'[a] <= level[a] + Rate
      BY <1>1, RateAssumption, CapacityAssumption DEF Capped
    <3> HIDE DEF p, n
    <3>4. Price(n, i) \in Int
      BY <2>1, <3>1, PriceFacts
    <3>5. Gain(clock - p) \in Int /\ Gain(clock' - p) = Gain(clock - p) + Rate
      BY <1>3, <3>1
    <3>6. level'[a] + Price(n, i) <= Capacity + Gain(clock' - p)
      BY <3>2, <3>3, <3>4, <3>5, RateAssumption, CapacityAssumption
    <3>7. p <= clock'
      BY <1>1, <3>1, <3>2
    <3> QED BY <3>6, <3>7 DEF p
  <2> QED BY <1>1, <2>2 DEF Spent
<1>5. ASSUME NEW a \in Addresses PROVE Gained(a)'
  <2>1. CASE passed[a] = <<>>
    <3>1. level[a] = Capacity
      BY <2>1 DEF IInv, Budget, Gained
    <3> QED BY <1>1, <2>1, <3>1, RateAssumption, CapacityAssumption DEF Gained, Capped
  <2>2. CASE passed[a] # <<>>
    <3> DEFINE p == passed[a][Len(passed[a])]
    <3>1. p \in Nat
      <4>1. Len(passed[a]) \in 1 .. Len(passed[a])
        BY <2>2, EmptySeq DEF IInv, TypeOK
      <4> QED BY <4>1, ElementOfSeq DEF IInv, TypeOK
    <3>2. level[a] >= Capped(Gain(clock - p))
      BY <2>2 DEF IInv, Budget, Gained
    <3> HIDE DEF p
    <3>3. Gain(clock - p) \in Int /\ Gain(clock' - p) = Gain(clock - p) + Rate
      BY <1>3, <3>1
    <3>4. level'[a] >= Capped(Gain(clock' - p))
      BY <1>1, <3>2, <3>3, RateAssumption, CapacityAssumption DEF Capped
    <3> QED BY <1>1, <2>2, <3>4 DEF Gained, p
  <2> QED BY <2>1, <2>2
<1>6. WindowBound' /\ RefusedOnlyIfBusy'
  BY <1>1 DEF IInv, WindowBound, RefusedOnlyIfBusy
<1> QED BY <1>2, <1>4, <1>5, <1>6 DEF IInv, Budget

LEMMA InitInv == Init => IInv
<1> SUFFICES ASSUME Init PROVE IInv
  OBVIOUS
<1> USE CapacityAssumption, TokenAssumption DEF Init
<1>1. <<>> \in Seq(Nat) /\ Len(<<>>) = 0 /\ DOMAIN <<>> = {}
  BY EmptySeq
<1>2. TypeOK
  BY <1>1 DEF TypeOK
<1>3. Budget
  <2> SUFFICES ASSUME NEW a \in Addresses PROVE Spent(a) /\ Gained(a)
    BY DEF Budget
  <2>1. passed[a] = <<>> /\ Len(passed[a]) = 0 /\ level[a] = Capacity
    BY <1>1
  <2>2. Spent(a)
    <3>1. 1 .. Len(passed[a]) = {}
      BY <2>1
    <3> QED BY <3>1 DEF Spent
  <2>3. Gained(a)
    BY <2>1 DEF Gained
  <2> QED BY <2>2, <2>3
<1>4. WindowBound /\ RefusedOnlyIfBusy
  BY <1>1 DEF WindowBound, RefusedOnlyIfBusy
<1> QED BY <1>2, <1>3, <1>4 DEF IInv

(* The budget of every bucket is kept. *)
THEOREM Invariance == Spec => []IInv
<1>1. IInv /\ [Next]_vars => IInv'
  BY PassStep, RefuseStep, TickStep, Unchanged DEF Next
<1> QED BY <1>1, InitInv, PTL DEF Spec

(* In no window of time more requests of an address pass than a full bucket
   and what it gains in the window allow.                                  *)
THEOREM Bounded == Spec => []WindowBound
<1>1. IInv => WindowBound
  BY DEF IInv
<1> QED BY <1>1, Invariance, PTL

(* A request is refused only if another of its address has passed since a
   token was last gained.                                                  *)
THEOREM NeverStarved == Spec => []RefusedOnlyIfBusy
<1>1. IInv => RefusedOnlyIfBusy
  BY DEF IInv
<1> QED BY <1>1, Invariance, PTL
=============================================================================
