-------------------------------- MODULE Tokens --------------------------------
(***************************************************************************)
(* The parameters of middleware.NewRateLimiter.  The code keeps fractions  *)
(* of tokens; here a token is divided into parts, and rates and capacities *)
(* count parts.                                                            *)
(***************************************************************************)
EXTENDS Integers

CONSTANTS
  Token,           \* the parts of one token
  Rate,            \* the parts a bucket gains in one unit of time
  Capacity         \* the parts of a full bucket

ASSUME TokenAssumption == Token \in Nat \ {0}
ASSUME RateAssumption == Rate \in Nat \ {0}
ASSUME CapacityAssumption == Capacity \in Nat /\ Capacity >= Token

(* A time that never was. *)
Never == -1
=============================================================================
