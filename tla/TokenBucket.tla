------------------------------ MODULE TokenBucket ------------------------------
(***************************************************************************)
(* What middleware.RateLimiter promises: each client address has a bucket  *)
(* that is full at first, gains Rate in every unit of time up to Capacity, *)
(* and gives a token to every request it lets pass.  No bucket is ever     *)
(* forgotten, and every bucket is up to date.                              *)
(***************************************************************************)
EXTENDS Tokens, Sequences

CONSTANT Addresses \* client addresses

VARIABLES
  level,           \* the parts in each bucket
  passed,          \* the times at which requests of each address passed
  refused,         \* when a request of each address was last refused
  clock            \* the current time

vars == <<level, passed, refused, clock>>

(* A bucket holds no more than Capacity. *)
Capped(x) == IF x < Capacity THEN x ELSE Capacity

Init ==
  /\ level = [a \in Addresses |-> Capacity]
  /\ passed = [a \in Addresses |-> <<>>]
  /\ refused = [a \in Addresses |-> Never]
  /\ clock = 0

Pass(a) ==
  /\ level[a] >= Token
  /\ level' = [level EXCEPT ![a] = @ - Token]
  /\ passed' = [passed EXCEPT ![a] = Append(@, clock)]
  /\ UNCHANGED <<refused, clock>>

Refuse(a) ==
  /\ level[a] < Token
  /\ refused' = [refused EXCEPT ![a] = clock]
  /\ UNCHANGED <<level, passed, clock>>

Tick ==
  /\ clock' = clock + 1
  /\ level' = [a \in Addresses |-> Capped(level[a] + Rate)]
  /\ UNCHANGED <<passed, refused>>

Next == (\E a \in Addresses : Pass(a) \/ Refuse(a)) \/ Tick

Spec == Init /\ [][Next]_vars

-----------------------------------------------------------------------------
(* Properties *)

(* The variables have their types. *)
TypeOK ==
  /\ level \in [Addresses -> 0 .. Capacity]
  /\ passed \in [Addresses -> Seq(Nat)]
  /\ refused \in [Addresses -> Nat \cup {Never}]
  /\ clock \in Nat

(* The requests of an address that pass from the i-th to the j-th cost no
   more than a full bucket and what it gains from the one to the other.    *)
WindowBound ==
  \A a \in Addresses : \A i, j \in DOMAIN passed[a] :
    i <= j => (j - i + 1) * Token <= Capacity + (passed[a][j] - passed[a][i]) * Rate

(* When a request is refused, one of its address has passed since a token was
   last gained.                                                            *)
RefusedOnlyIfBusy ==
  \A a \in Addresses :
    refused[a] # Never =>
      \E i \in DOMAIN passed[a] :
        passed[a][i] <= refused[a] /\ (refused[a] - passed[a][i]) * Rate < Token
=============================================================================
