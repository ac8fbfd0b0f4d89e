--------------------------- MODULE RateLimiterProofs ---------------------------
(***************************************************************************)
(* Proofs about RateLimiter, for any rate, capacity, size of a token and   *)
(* cutoff that RateLimiter allows: the map with its buckets that are       *)
(* brought up to date late and deleted when idle implements TokenBucket,   *)
(* and so it keeps the promises TokenBucketProofs proves.                  *)
(***************************************************************************)
EXTENDS RateLimiter, SequenceTheorems, TLAPS

(* What a bucket gains in a time t, if it is not full. *)
Gain(t) == t * Rate

LEMMA GainFacts ==
  ASSUME NEW t \in Nat
  PROVE  /\ Gain(t) \in Nat
         /\ Gain(t + 1) = Gain(t) + Rate
         /\ Gain(0) = 0
         /\ t > IdleCutoff => Gain(t) >= Capacity
<1>1. Gain(t) \in Nat /\ Gain(t + 1) = Gain(t) + Rate /\ Gain(0) = 0
  BY RateAssumption DEF Gain
<1>2. ASSUME t > IdleCutoff PROVE Gain(t) >= Capacity
  <2> DEFINE e == t - IdleCutoff
  <2>1. e \in Nat /\ t = IdleCutoff + e
    BY <1>2, CutoffAssumption
  <2>2. t * Rate = IdleCutoff * Rate + e * Rate
    BY <2>1, RateAssumption, CutoffAssumption
  <2>3. e * Rate \in Nat /\ IdleCutoff * Rate \in Nat
    BY <2>1, RateAssumption, CutoffAssumption
  <2> QED BY <2>2, <2>3, CutoffAssumption, CapacityAssumption DEF Gain
<1> QED BY <1>1, <1>2

(* A bucket that exists is up to date once it has gained what it missed; one
   that does not exist is full.                                            *)
LEMMA RefilledFacts ==
  ASSUME TypeOK, NEW a \in Addresses
  PROVE  /\ Refilled(a) \in 0 .. Capacity
         /\ buckets[a] = Nil => Refilled(a) = Capacity
         /\ buckets[a] # Nil =>
              /\ buckets[a].tokens \in 0 .. Capacity
              /\ clock - buckets[a].lastSeen \in Nat
              /\ Refilled(a) = Capped(buckets[a].tokens + Gain(clock - buckets[a].lastSeen))
<1>1. CASE buckets[a] = Nil
  <2>1. Refilled(a) = Capped(Capacity + Gain(0))
    BY <1>1 DEF Refilled, BucketOf, Gain, TypeOK
  <2> QED BY <1>1, <2>1, GainFacts, CapacityAssumption, TokenAssumption DEF Capped
<1>2. CASE buckets[a] # Nil
  <2> DEFINE t == clock - buckets[a].lastSeen
  <2>1. buckets[a].tokens \in 0 .. Capacity /\ t \in Nat
    BY <1>2 DEF TypeOK, Buckets
  <2>2. Refilled(a) = Capped(buckets[a].tokens + Gain(t))
    BY <1>2 DEF Refilled, BucketOf, Gain
  <2> HIDE DEF t
  <2>3. Gain(t) \in Nat
    BY <2>1, GainFacts
  <2>4. Refilled(a) \in 0 .. Capacity
    BY <2>1, <2>2, <2>3, CapacityAssumption DEF Capped
  <2> QED BY <1>2, <2>1, <2>2, <2>4 DEF t
<1> QED BY <1>1, <1>2

-----------------------------------------------------------------------------
LEMMA TypeStep == TypeOK /\ [Next]_vars => TypeOK'
<1> SUFFICES ASSUME TypeOK, [Next]_vars PROVE TypeOK'
  OBVIOUS
<1> USE TokenAssumption, CapacityAssumption
<1>1. ASSUME NEW a \in Addresses, Pass(a) PROVE TypeOK'
  <2>1. Refilled(a) \in 0 .. Capacity /\ Refilled(a) - Token \in 0 .. Capacity
    BY <1>1, RefilledFacts DEF Pass
  <2>2. [tokens |-> Refilled(a) - Token, lastSeen |-> clock] \in Buckets
    BY <2>1 DEF TypeOK, Buckets
  <2>3. Append(passed[a], clock) \in Seq(Nat)
    BY AppendProperties DEF TypeOK
  <2> QED BY <1>1, <2>2, <2>3 DEF Pass, TypeOK
<1>2. ASSUME NEW a \in Addresses, Refuse(a) PROVE TypeOK'
  <2>1. [tokens |-> Refilled(a), lastSeen |-> clock] \in Buckets
    BY RefilledFacts DEF TypeOK, Buckets
  <2> QED BY <1>2, <2>1 DEF Refuse, TypeOK
<1>3. CASE Cleanup
  BY <1>3 DEF Cleanup, TypeOK
<1>4. CASE Tick
  <2>1. clock' = clock + 1 /\ UNCHANGED <<buckets, passed, refused>>
    BY <1>4 DEF Tick
  <2>2. \A a \in Addresses : buckets[a] # Nil => buckets[a].lastSeen \in Nat
    BY DEF TypeOK, Buckets
  <2> QED BY <2>1, <2>2 DEF TypeOK
<1>5. CASE UNCHANGED vars
  BY <1>5 DEF vars, TypeOK
<1> QED BY <1>1, <1>2, <1>3, <1>4, <1>5 DEF Next

LEMMA TypeInit == Init => TypeOK
<1>1. <<>> \in Seq(Nat)
  BY EmptySeq
<1> QED BY <1>1, NilAssumption DEF Init, TypeOK

(* No bucket is ever below zero or above its capacity. *)
THEOREM TypeCorrect == Spec => []TypeOK
BY TypeInit, TypeStep, PTL DEF Spec

-----------------------------------------------------------------------------
(* The refinement: every step is a step of TokenBucket, or a stutter. *)

LEMMA PassPasses ==
  ASSUME TypeOK, NEW a \in Addresses, Pass(a)
  PROVE  Promise!Pass(a)
<1> USE TokenAssumption, CapacityAssumption
<1> DEFINE x == Refilled(a) - Token
<1>1. Refilled(a) \in 0 .. Capacity /\ x \in 0 .. Capacity
  BY RefilledFacts DEF Pass
<1>2. buckets'[a] = [tokens |-> x, lastSeen |-> clock] /\ buckets'[a] # Nil
  <2>1. buckets'[a] = [tokens |-> x, lastSeen |-> clock]
    BY DEF Pass, TypeOK
  <2>2. buckets'[a] \in Buckets
    BY <1>1, <2>1 DEF Buckets, TypeOK
  <2> QED BY <2>1, <2>2, NilAssumption
<1>3. Refilled(a)' = x
  <2>1. Refilled(a)' = Capped(x + Gain(clock - clock))
    BY <1>2 DEF Refilled, BucketOf, Gain, Pass
  <2>2. clock - clock = 0
    BY DEF TypeOK
  <2> QED BY <1>1, <2>1, <2>2, GainFacts DEF Capped
<1>4. ASSUME NEW b \in Addresses, b # a PROVE Refilled(b)' = Refilled(b)
  BY <1>4 DEF Refilled, BucketOf, Pass, TypeOK
<1>5. Level' = [Level EXCEPT ![a] = @ - Token]
  BY <1>3, <1>4 DEF Level
<1>6. Level[a] >= Token
  BY DEF Level, Pass
<1> QED BY <1>5, <1>6 DEF Promise!Pass, Pass

LEMMA RefuseRefuses ==
  ASSUME TypeOK, NEW a \in Addresses, Refuse(a)
  PROVE  Promise!Refuse(a)
<1> USE TokenAssumption, CapacityAssumption
<1> DEFINE x == Refilled(a)
<1>1. x \in 0 .. Capacity
  BY RefilledFacts
<1>2. buckets'[a] = [tokens |-> x, lastSeen |-> clock] /\ buckets'[a] # Nil
  <2>1. buckets'[a] = [tokens |-> x, lastSeen |-> clock]
    BY DEF Refuse, TypeOK
  <2>2. buckets'[a] \in Buckets
    BY <1>1, <2>1 DEF Buckets, TypeOK
  <2> QED BY <2>1, <2>2, NilAssumption
<1>3. Refilled(a)' = x
  <2>1. Refilled(a)' = Capped(x + Gain(clock - clock))
    BY <1>2 DEF Refilled, BucketOf, Gain, Refuse
  <2>2. clock - clock = 0
    BY DEF TypeOK
  <2> QED BY <1>1, <2>1, <2>2, GainFacts DEF Capped
<1>4. ASSUME NEW b \in Addresses, b # a PROVE Refilled(b)' = Refilled(b)
  BY <1>4 DEF Refilled, BucketOf, Refuse, TypeOK
<1>5. Level' = Level
  BY <1>3, <1>4 DEF Level
<1>6. Level[a] < Token
  BY DEF Level, Refuse
<1> QED BY <1>5, <1>6 DEF Promise!Refuse, Refuse

(* A bucket that is deleted was full, as the one made in its place is. *)
LEMMA CleanupStutters ==
  ASSUME TypeOK, Cleanup
  PROVE  UNCHANGED Promise!vars
<1>1. ASSUME NEW a \in Addresses PROVE Refilled(a)' = Refilled(a)
  <2>1. CASE Idle(a)
    <3>1. Refilled(a) = Capacity
      <4> DEFINE t == clock - buckets[a].lastSeen
      <4>1. /\ buckets[a].tokens \in 0 .. Capacity
            /\ t \in Nat /\ t > IdleCutoff
            /\ Refilled(a) = Capped(buckets[a].tokens + Gain(t))
        BY <2>1, RefilledFacts DEF Idle
      <4> HIDE DEF t
      <4>2. Gain(t) \in Nat /\ Gain(t) >= Capacity
        BY <4>1, GainFacts
      <4> QED BY <4>1, <4>2, CapacityAssumption DEF Capped
    <3>2. buckets'[a] = Nil /\ clock' = clock /\ clock \in Nat
      BY <2>1 DEF Cleanup, TypeOK
    <3>3. Refilled(a)' = Capped(Capacity + Gain(clock' - clock'))
      BY <3>2 DEF Refilled, BucketOf, Gain
    <3>4. clock' - clock' = 0
      BY <3>2
    <3>5. Refilled(a)' = Capacity
      BY <3>3, <3>4, GainFacts, CapacityAssumption DEF Capped
    <3> QED BY <3>1, <3>5
  <2>2. CASE ~Idle(a)
    BY <2>2 DEF Cleanup, Refilled, BucketOf, TypeOK
  <2> QED BY <2>1, <2>2
<1>2. Level' = Level
  BY <1>1 DEF Level
<1> QED BY <1>2 DEF Promise!vars, Cleanup

LEMMA TickTicks ==
  ASSUME TypeOK, Tick
  PROVE  Promise!Tick
<1> USE CapacityAssumption, RateAssumption, TokenAssumption
<1>1. clock' = clock + 1 /\ clock \in Nat /\ UNCHANGED <<buckets, passed, refused>>
  BY DEF Tick, TypeOK
<1>2. ASSUME NEW a \in Addresses PROVE Refilled(a)' = Capped(Refilled(a) + Rate)
  <2>1. CASE buckets[a] = Nil
    <3>1. Refilled(a) = Capacity
      BY <2>1, RefilledFacts
    <3>2. Refilled(a)' = Capped(Capacity + Gain(clock' - clock'))
      BY <1>1, <2>1 DEF Refilled, BucketOf, Gain
    <3>3. clock' - clock' = 0
      BY <1>1
    <3> QED BY <3>1, <3>2, <3>3, GainFacts DEF Capped
  <2>2. CASE buckets[a] # Nil
    <3> DEFINE t == clock - buckets[a].lastSeen
               x == buckets[a].tokens
    <3>1. x \in 0 .. Capacity /\ t \in Nat /\ Refilled(a) = Capped(x + Gain(t))
      BY <2>2, RefilledFacts
    <3>2. clock' - buckets[a].lastSeen = t + 1
      BY <1>1, <2>2 DEF TypeOK, Buckets
    <3>3. Refilled(a)' = Capped(x + Gain(t + 1))
      BY <1>1, <2>2, <3>2 DEF Refilled, BucketOf, Gain
    <3> HIDE DEF t, x
    <3>4. Gain(t) \in Nat /\ Gain(t + 1) = Gain(t) + Rate
      BY <3>1, GainFacts
    <3> QED BY <3>1, <3>3, <3>4 DEF Capped
  <2> QED BY <2>1, <2>2
<1>3. Level' = [a \in Addresses |-> Promise!Capped(Level[a] + Rate)]
  BY <1>2 DEF Level, Promise!Capped, Capped
<1> QED BY <1>1, <1>3 DEF Promise!Tick

(* The limiter implements buckets that are always up to date and are never
   deleted.                                                                *)
THEOREM LimiterImplementsTokenBucket == Spec => ImplementsTokenBucket
<1>1. Init => Promise!Init
  <2> SUFFICES ASSUME Init PROVE Promise!Init
    OBVIOUS
  <2>1. \A a \in Addresses : Refilled(a) = Capacity
    BY TypeInit, RefilledFacts DEF Init
  <2> QED BY <2>1 DEF Init, Promise!Init, Level, Never, Promise!Never
<1>2. TypeOK /\ [Next]_vars => [Promise!Next]_(Promise!vars)
  <2> SUFFICES ASSUME TypeOK, [Next]_vars PROVE [Promise!Next]_(Promise!vars)
    OBVIOUS
  <2>1. ASSUME NEW a \in Addresses, Pass(a) PROVE [Promise!Next]_(Promise!vars)
    BY <2>1, PassPasses DEF Promise!Next
  <2>2. ASSUME NEW a \in Addresses, Refuse(a) PROVE [Promise!Next]_(Promise!vars)
    BY <2>2, RefuseRefuses DEF Promise!Next
  <2>3. CASE Cleanup
    BY <2>3, CleanupStutters
  <2>4. CASE Tick
    BY <2>4, TickTicks DEF Promise!Next
  <2>5. CASE UNCHANGED vars
    BY <2>5 DEF vars, Promise!vars, Level, Refilled, BucketOf
  <2> QED BY <2>1, <2>2, <2>3, <2>4, <2>5 DEF Next
<1> QED BY <1>1, <1>2, TypeCorrect, PTL DEF Spec, ImplementsTokenBucket, Promise!Spec

-----------------------------------------------------------------------------
(* What is proved of TokenBucket holds of the limiter. *)
Proved == INSTANCE TokenBucketProofs WITH level <- Level

LEMMA SamePromise == Promise!Spec <=> Proved!Spec
BY DEF Promise!Spec, Proved!Spec, Promise!Init, Proved!Init, Promise!Next, Proved!Next,
       Promise!Pass, Proved!Pass, Promise!Refuse, Proved!Refuse, Promise!Tick,
       Proved!Tick, Promise!vars, Proved!vars, Promise!Never, Proved!Never,
       Promise!Capped, Proved!Capped

(* In no window of time do more requests of an address pass than a full
   bucket and what it gains in the window allow.                           *)
THEOREM LimiterBounded == Spec => []WindowBound
<1>1. Proved!Spec => []Proved!WindowBound
  BY Proved!Bounded, TokenAssumption, RateAssumption, CapacityAssumption
<1>2. Proved!WindowBound => WindowBound
  BY DEF WindowBound, Promise!WindowBound, Proved!WindowBound
<1> QED
  BY <1>1, <1>2, SamePromise, LimiterImplementsTokenBucket, PTL DEF ImplementsTokenBucket

(* A request is refused only if another of its address has passed since a
   token was last gained.                                                  *)
THEOREM LimiterNeverStarves == Spec => []RefusedOnlyIfBusy
<1>1. Proved!Spec => []Proved!RefusedOnlyIfBusy
  BY Proved!NeverStarved, TokenAssumption, RateAssumption, CapacityAssumption
<1>2. Proved!RefusedOnlyIfBusy => RefusedOnlyIfBusy
  BY DEF RefusedOnlyIfBusy, Promise!RefusedOnlyIfBusy, Proved!RefusedOnlyIfBusy,
         Promise!Never, Proved!Never
<1> QED
  BY <1>1, <1>2, SamePromise, LimiterImplementsTokenBucket, PTL DEF ImplementsTokenBucket
=============================================================================
