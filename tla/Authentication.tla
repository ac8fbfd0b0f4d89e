---------------------------- MODULE Authentication ----------------------------
(***************************************************************************)
(* What middleware.Authenticate promises, whatever its store forgets and   *)
(* however long a request takes: a request is judged in one indivisible    *)
(* step, against all the revocations since the server started.             *)
(*                                                                         *)
(* A token that is good when the request comes may be judged good although *)
(* it expires meanwhile.  One whose jti was revoked is not, before a token *)
(* that was revoked with this jti expires: a jti should name one token.    *)
(***************************************************************************)
EXTENDS Integers

CONSTANTS
  Requests,        \* the requests, each judged once
  Tokens,          \* the Bearer tokens: records with jti, exp, nbf, verifies
  Nil              \* no token, no jti and no exp

VARIABLES
  phase,           \* new, then pending, then judged, or lost in a restart
  token,           \* the token of each request, Nil if it has none
  answer,          \* the judgement of each, "" before it
  came,            \* when each came
  revoked,         \* the tokens revoked since the server started
  clock            \* the current time

vars == <<phase, token, answer, came, revoked, clock>>

Init ==
  /\ phase = [r \in Requests |-> "new"]
  /\ token = [r \in Requests |-> Nil]
  /\ answer = [r \in Requests |-> ""]
  /\ came = [r \in Requests |-> 0]
  /\ revoked = {}
  /\ clock = 0

Arrive(r, t) ==
  /\ phase[r] = "new"
  /\ phase' = [phase EXCEPT ![r] = "pending"]
  /\ token' = [token EXCEPT ![r] = t]
  /\ came' = [came EXCEPT ![r] = clock]
  /\ UNCHANGED <<answer, revoked, clock>>

(* The judgements a request may be given at this time. *)
Judgements(r) ==
  LET t == token[r]
      over(now) == t.exp # Nil /\ now >= t.exp
      listed == {u \in revoked : u.jti = t.jti}
  IN
  IF t = Nil THEN {"UNAUTHORISED"}
  ELSE IF ~t.verifies THEN {"INVALID_TOKEN"}
  ELSE {j \in {"INVALID_TOKEN", "TOKEN_EXPIRED", "TOKEN_REVOKED", "ACCEPTED"} :
          /\ IF j = "TOKEN_EXPIRED" THEN over(clock) ELSE ~over(came[r])
          /\ j = "INVALID_TOKEN" => clock < t.nbf
          /\ j \in {"TOKEN_REVOKED", "ACCEPTED"} => clock >= t.nbf
          /\ j = "TOKEN_REVOKED" => listed # {}
          /\ j = "ACCEPTED" => listed = {} \/ \E u \in listed : clock > u.exp}

Judge(r) ==
  /\ phase[r] = "pending"
  /\ phase' = [phase EXCEPT ![r] = "judged"]
  /\ \E j \in Judgements(r) : answer' = [answer EXCEPT ![r] = j]
  /\ UNCHANGED <<token, came, revoked, clock>>

Revoke(t) ==
  /\ t.jti # Nil /\ t.exp # Nil
  /\ revoked' = revoked \cup {t}
  /\ UNCHANGED <<phase, token, answer, came, clock>>

(* A restart forgets the revocations, and the requests in flight. *)
Restart ==
  /\ revoked' = {}
  /\ phase' = [r \in Requests |-> IF phase[r] = "pending" THEN "lost" ELSE phase[r]]
  /\ UNCHANGED <<token, answer, came, clock>>

Tick == clock' = clock + 1 /\ UNCHANGED <<phase, token, answer, came, revoked>>

Next ==
  \/ \E r \in Requests :
       \/ \E t \in Tokens \cup {Nil} : Arrive(r, t)
       \/ Judge(r)
  \/ \E t \in Tokens : Revoke(t)
  \/ Restart
  \/ Tick

Spec == Init /\ [][Next]_vars
=============================================================================
