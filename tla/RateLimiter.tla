------------------------------ MODULE RateLimiter ------------------------------
(***************************************************************************)
(* middleware.RateLimiter: a map from client addresses to buckets under    *)
(* one mutex.  allow and the cleanup hold the mutex from beginning to end, *)
(* and read the time while they hold it, so each of them is one step.      *)
(*                                                                         *)
(* A bucket is brought up to date only when a request of its address       *)
(* arrives, is made when the first one does, and is deleted when none has  *)
(* arrived for longer than IdleCutoff.                                     *)
(***************************************************************************)
EXTENDS Tokens, Sequences

CONSTANTS
  Addresses,       \* client addresses
  IdleCutoff,      \* the idle time after which a bucket is deleted
  Nil,             \* no bucket
  MaxClock         \* bound on the clock, for model checking

VARIABLES
  buckets,         \* RateLimiter.buckets; Nil where the map has no key
  passed,          \* history: the times at which requests of each address passed
  refused,         \* history: when a request of each address was last refused
  clock            \* time.Now()

vars == <<buckets, passed, refused, clock>>

Buckets == [tokens: 0 .. Capacity, lastSeen: Nat]

(* main.go makes a bucket of 30 tokens at 1 token a second, and the cleanup
   keeps it for 600 seconds: it is full again long before it is deleted.   *)
ASSUME CutoffAssumption == IdleCutoff \in Nat /\ IdleCutoff * Rate >= Capacity
ASSUME NilAssumption == Nil \notin Buckets
ASSUME MaxClockAssumption == MaxClock \in Nat

Init ==
  /\ buckets = [a \in Addresses |-> Nil]
  /\ passed = [a \in Addresses |-> <<>>]
  /\ refused = [a \in Addresses |-> Never]
  /\ clock = 0

(* Mutant: the bucket gains without limit. *)
CappedNever(x) == x

(* min(rl.capacity, ...) *)
Capped(x) == IF x < Capacity THEN x ELSE Capacity

(* The bucket of an address: a full one is made where there is none. *)
BucketOf(a) ==
  IF buckets[a] = Nil THEN [tokens |-> Capacity, lastSeen |-> clock] ELSE buckets[a]

(* Mutant: the time is moved on before the elapsed time is taken. *)
RefilledLate(a) == BucketOf(a).tokens

(* What the bucket of an address holds once it is brought up to date. *)
Refilled(a) ==
  LET b == BucketOf(a) IN Capped(b.tokens + (clock - b.lastSeen) * Rate)

(* Mutant: a request passes although no whole token is left. *)
PassOnPart(a) ==
  /\ Refilled(a) > 0
  /\ buckets' = [buckets EXCEPT ![a] = [tokens |-> Refilled(a) - Token, lastSeen |-> clock]]
  /\ passed' = [passed EXCEPT ![a] = Append(@, clock)]
  /\ UNCHANGED <<refused, clock>>

(* allow returns true: the next handler serves the request. *)
Pass(a) ==
  /\ Refilled(a) >= Token
  /\ buckets' = [buckets EXCEPT ![a] = [tokens |-> Refilled(a) - Token, lastSeen |-> clock]]
  /\ passed' = [passed EXCEPT ![a] = Append(@, clock)]
  /\ UNCHANGED <<refused, clock>>

(* allow returns false: the request is answered with 429. *)
Refuse(a) ==
  /\ Refilled(a) < Token
  /\ buckets' = [buckets EXCEPT ![a] = [tokens |-> Refilled(a), lastSeen |-> clock]]
  /\ refused' = [refused EXCEPT ![a] = clock]
  /\ UNCHANGED <<passed, clock>>

Idle(a) == buckets[a] # Nil /\ clock - buckets[a].lastSeen > IdleCutoff

(* Mutant: the cleanup deletes every bucket. *)
CleanupAll ==
  /\ buckets' = [a \in Addresses |-> Nil]
  /\ UNCHANGED <<passed, refused, clock>>

(* Mutant: the cleanup deletes the buckets that are in use. *)
CleanupBusy ==
  /\ buckets' = [a \in Addresses |-> IF ~Idle(a) THEN Nil ELSE buckets[a]]
  /\ UNCHANGED <<passed, refused, clock>>

(* The ticker of the cleanup fires. *)
Cleanup ==
  /\ buckets' = [a \in Addresses |-> IF Idle(a) THEN Nil ELSE buckets[a]]
  /\ UNCHANGED <<passed, refused, clock>>

(* The clock advances; MaxClock bounds it. *)
Tick ==
  /\ clock < MaxClock
  /\ clock' = clock + 1
  /\ UNCHANGED <<buckets, passed, refused>>

Next == (\E a \in Addresses : Pass(a) \/ Refuse(a)) \/ Cleanup \/ Tick

Spec == Init /\ [][Next]_vars

(* The goroutine of the cleanup runs for ever: its ticker fires again and
   again, and sync.Mutex does not starve it.                               *)
FairSpec == Spec /\ WF_vars(Cleanup)

-----------------------------------------------------------------------------
(* Properties *)

(* The variables have the types the code gives them; no bucket is below zero
   or above its capacity.                                                  *)
TypeOK ==
  /\ buckets \in [Addresses -> Buckets \cup {Nil}]
  /\ \A a \in Addresses : buckets[a] # Nil => buckets[a].lastSeen <= clock
  /\ passed \in [Addresses -> Seq(Nat)]
  /\ refused \in [Addresses -> Nat \cup {Never}]
  /\ clock \in Nat

(* The limiter implements buckets that are always up to date and are never
   deleted.                                                                *)
Level == [a \in Addresses |-> Refilled(a)]

Promise == INSTANCE TokenBucket WITH level <- Level

ImplementsTokenBucket == Promise!Spec

(* In no window of time do more requests of an address pass than a full
   bucket and what it gains in that window allow: deleting a bucket, which
   makes the next one full, gives nobody more.                             *)
WindowBound == Promise!WindowBound

(* A request is refused only if one of the same address passed so shortly
   before that not even one token was gained since.  A client that waits for
   one token after each request that passes is never refused, however many
   of its requests were.                                                   *)
RefusedOnlyIfBusy == Promise!RefusedOnlyIfBusy

(* The map forgets the addresses that are gone. *)
IdleIsForgotten ==
  \A a \in Addresses : Idle(a) ~> ~Idle(a)
=============================================================================
