----------------------------- MODULE MCRateLimiter -----------------------------
(* RateLimiter on a small instance: two addresses; a token has two parts, one
   of which is gained in a unit of time, and a full bucket is two tokens.   *)
EXTENDS RateLimiter

CONSTANTS a1, a2

MCAddresses == {a1, a2}
=============================================================================
