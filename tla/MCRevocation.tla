----------------------------- MODULE MCRevocation -----------------------------
(* Revocation on a small instance: two tokens with one jti, of which the first
   expires while the second is good; one without jti and exp that is not good
   at once; and one that does not verify.                                     *)
EXTENDS Revocation

CONSTANTS q1, q2, j1

MCRequests == {q1, q2}
MCJtis == {j1}
MCTokens ==
  {[jti |-> j1, exp |-> 2, nbf |-> 0, verifies |-> TRUE],
   [jti |-> j1, exp |-> 4, nbf |-> 0, verifies |-> TRUE],
   [jti |-> Nil, exp |-> Nil, nbf |-> 1, verifies |-> TRUE],
   [jti |-> Nil, exp |-> 2, nbf |-> 0, verifies |-> FALSE]}
=============================================================================
