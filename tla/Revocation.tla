------------------------------ MODULE Revocation ------------------------------
(***************************************************************************)
(* middleware.Authenticate and middleware.RevocationStore.                 *)
(*                                                                         *)
(* A request is judged in two steps that nothing holds together: its token *)
(* is parsed and its expiry compared with the time of that moment, and     *)
(* only then its jti is looked up among the revoked ones.  The goroutine   *)
(* that prunes the store reads the time, waits for the lock and deletes    *)
(* every entry whose token has expired, in between or at any other time.   *)
(*                                                                         *)
(* Nothing in the repository calls Revoke: whoever does passes the jti and *)
(* the exp of the token, as the comment of Revoke asks, so that a token    *)
(* that lacks one of them cannot be revoked.  Two tokens may carry one     *)
(* jti: the store keeps the exp it was given last.  It is not saved, so a  *)
(* restart of the server forgets every revocation.                         *)
(***************************************************************************)
EXTENDS Integers, FiniteSets

CONSTANTS
  Requests,        \* the requests, each served by one goroutine
  Tokens,          \* the Bearer tokens the clients present
  Jtis,            \* values of the jti claim
  Nil,             \* no value: no token, no jti, no entry
  MaxClock         \* bound on the clock, for model checking

(* A token verifies if it is well formed and signed with the configured key
   and algorithm; exp is its expiry and nbf the time it is not good before,
   0 if it names none; jti and exp may be missing.                         *)
TokenType ==
  [jti: Jtis \cup {Nil}, exp: Nat \cup {Nil}, nbf: Nat, verifies: BOOLEAN]

ASSUME TokensAssumption == Tokens \subseteq TokenType
ASSUME NilAssumption == Nil \notin Tokens /\ Nil \notin Jtis /\ Nil \notin Nat
ASSUME MaxClockAssumption == MaxClock \in Nat

VARIABLES
  items,           \* RevocationStore.items: the exp of each revoked jti, or Nil
  pruning,         \* the time runCleanup read, Nil while it sleeps
  pc,              \* new, parse, check, then done, or lost in a restart
  token,           \* the token of each request, Nil if it has none
  answer,          \* how each request was answered, "" before it was
  clock,           \* time.Now()
  revoked,         \* history: the tokens revoked since the server started
  known,           \* history: whether the jti of each was, before it came
  came,            \* history: when each request came
  decided          \* history: when each request was answered

vars == <<items, pruning, pc, token, answer, clock, revoked, known, came, decided>>

Init ==
  /\ items = [j \in Jtis |-> Nil]
  /\ pruning = Nil
  /\ pc = [r \in Requests |-> "new"]
  /\ token = [r \in Requests |-> Nil]
  /\ answer = [r \in Requests |-> ""]
  /\ clock = 0
  /\ revoked = {}
  /\ known = [r \in Requests |-> FALSE]
  /\ came = [r \in Requests |-> 0]
  /\ decided = [r \in Requests |-> 0]

(* The JWT library: a token is valid from the time nbf on and before the time
   exp, if it names them.                                                  *)
Expired(t) == t.exp # Nil /\ clock >= t.exp
Early(t) == clock < t.nbf

-----------------------------------------------------------------------------
(* Authenticate *)

Arrive(r, t) ==
  /\ pc[r] = "new"
  /\ pc' = [pc EXCEPT ![r] = "parse"]
  /\ token' = [token EXCEPT ![r] = t]
  /\ known' = [known EXCEPT ![r] = t # Nil /\ \E u \in revoked : u.jti = t.jti]
  /\ came' = [came EXCEPT ![r] = clock]
  /\ UNCHANGED <<items, pruning, answer, clock, revoked, decided>>

(* Mutant: the answer is written and the handler does not return. *)
AnswerAndGoOn(r, code) ==
  /\ pc' = [pc EXCEPT ![r] = "check"]
  /\ answer' = [answer EXCEPT ![r] = code]
  /\ decided' = [decided EXCEPT ![r] = clock]
  /\ UNCHANGED <<items, pruning, token, clock, revoked, known, came>>

Answer(r, code) ==
  /\ pc' = [pc EXCEPT ![r] = "done"]
  /\ answer' = [answer EXCEPT ![r] = code]
  /\ decided' = [decided EXCEPT ![r] = clock]
  /\ UNCHANGED <<items, pruning, token, clock, revoked, known, came>>

Proceed(r) ==
  /\ pc' = [pc EXCEPT ![r] = "check"]
  /\ UNCHANGED <<items, pruning, token, answer, clock, revoked, known, came, decided>>

(* Mutant: the expiry of the token is not looked at. *)
ParseForgiving(r) ==
  /\ pc[r] = "parse"
  /\ LET t == token[r] IN
     \/ t = Nil /\ Answer(r, "UNAUTHORISED")
     \/ t # Nil /\ ~t.verifies /\ Answer(r, "INVALID_TOKEN")
     \/ t # Nil /\ t.verifies /\ Early(t) /\ Answer(r, "INVALID_TOKEN")
     \/ t # Nil /\ t.verifies /\ ~Early(t) /\ Proceed(r)

(* Mutant: the expiry is read before the signature is verified. *)
ParseExpiryFirst(r) ==
  /\ pc[r] = "parse"
  /\ LET t == token[r] IN
     \/ t = Nil /\ Answer(r, "UNAUTHORISED")
     \/ t # Nil /\ Expired(t) /\ Answer(r, "TOKEN_EXPIRED")
     \/ /\ t # Nil /\ ~Expired(t) /\ (~t.verifies \/ Early(t))
        /\ Answer(r, "INVALID_TOKEN")
     \/ t # Nil /\ ~Expired(t) /\ t.verifies /\ ~Early(t) /\ Proceed(r)

(* The header is looked at, the token parsed, its signature verified and then
   its claims.  The library joins the errors of the claims, and any text with
   "expired" in it is an expiry.                                           *)
Parse(r) ==
  /\ pc[r] = "parse"
  /\ LET t == token[r] IN
     \/ t = Nil /\ Answer(r, "UNAUTHORISED")
     \/ t # Nil /\ ~t.verifies /\ Answer(r, "INVALID_TOKEN")
     \/ t # Nil /\ t.verifies /\ Expired(t) /\ Answer(r, "TOKEN_EXPIRED")
     \/ /\ t # Nil /\ t.verifies /\ ~Expired(t) /\ Early(t)
        /\ Answer(r, "INVALID_TOKEN")
     \/ t # Nil /\ t.verifies /\ ~Expired(t) /\ ~Early(t) /\ Proceed(r)

IsRevoked(j) == j # Nil /\ items[j] # Nil

(* The revocation check, under the read lock; what passes it goes on to the
   next handler with the identity its claims give.                         *)
Check(r) ==
  /\ pc[r] = "check"
  /\ Answer(r, IF IsRevoked(token[r].jti) THEN "TOKEN_REVOKED" ELSE "ACCEPTED")

-----------------------------------------------------------------------------
(* RevocationStore *)

Revocable == {t \in Tokens : t.jti # Nil /\ t.exp # Nil}

(* Mutant: the entry is written with the time of the revocation. *)
RevokeNow(t) ==
  /\ t \in Revocable
  /\ items' = [items EXCEPT ![t.jti] = clock]
  /\ revoked' = revoked \cup {t}
  /\ UNCHANGED <<pruning, pc, token, answer, clock, known, came, decided>>

Revoke(t) ==
  /\ t \in Revocable
  /\ items' = [items EXCEPT ![t.jti] = t.exp]
  /\ revoked' = revoked \cup {t}
  /\ UNCHANGED <<pruning, pc, token, answer, clock, known, came, decided>>

(* The ticker of runCleanup fires: the time is read before the lock is
   taken.                                                                  *)
StartPruning ==
  /\ pruning = Nil
  /\ pruning' = clock
  /\ UNCHANGED <<items, pc, token, answer, clock, revoked, known, came, decided>>

(* Mutant: the comparison with the expiry is turned round. *)
PruneUnexpired ==
  /\ pruning # Nil
  /\ pruning' = Nil
  /\ items' = [j \in Jtis |-> IF items[j] # Nil /\ pruning < items[j] THEN Nil ELSE items[j]]
  /\ UNCHANGED <<pc, token, answer, clock, revoked, known, came, decided>>

(* Under the lock: what expired before that time is deleted. *)
Prune ==
  /\ pruning # Nil
  /\ pruning' = Nil
  /\ items' = [j \in Jtis |-> IF items[j] # Nil /\ pruning > items[j] THEN Nil ELSE items[j]]
  /\ UNCHANGED <<pc, token, answer, clock, revoked, known, came, decided>>

-----------------------------------------------------------------------------
(* The server is started again: the store is empty, what was in flight is
   gone.                                                                   *)
Restart ==
  /\ items' = [j \in Jtis |-> Nil]
  /\ pruning' = Nil
  /\ revoked' = {}
  /\ pc' = [r \in Requests |-> IF pc[r] \in {"parse", "check"} THEN "lost" ELSE pc[r]]
  /\ UNCHANGED <<token, answer, clock, known, came, decided>>

(* The clock advances; MaxClock bounds it. *)
Tick ==
  /\ clock < MaxClock
  /\ clock' = clock + 1
  /\ UNCHANGED <<items, pruning, pc, token, answer, revoked, known, came, decided>>

Next ==
  \/ \E r \in Requests :
       \/ \E t \in Tokens \cup {Nil} : Arrive(r, t)
       \/ Parse(r)
       \/ Check(r)
  \/ \E t \in Tokens : Revoke(t)
  \/ StartPruning
  \/ Prune
  \/ Restart
  \/ Tick

Spec == Init /\ [][Next]_vars

(* The ticker fires for ever, and the goroutine of the cleanup runs and gets
   the lock: no one holds it for longer than a map access.                 *)
FairSpec == Spec /\ WF_vars(StartPruning) /\ WF_vars(Prune)

-----------------------------------------------------------------------------
(* Properties *)

Outcomes ==
  {"UNAUTHORISED", "INVALID_TOKEN", "TOKEN_EXPIRED", "TOKEN_REVOKED", "ACCEPTED"}

(* The variables have the types the code gives them. *)
TypeOK ==
  /\ items \in [Jtis -> Nat \cup {Nil}]
  /\ pruning \in Nat \cup {Nil}
  /\ pc \in [Requests -> {"new", "parse", "check", "done", "lost"}]
  /\ token \in [Requests -> Tokens \cup {Nil}]
  /\ answer \in [Requests -> Outcomes \cup {""}]
  /\ \A r \in Requests :
       /\ answer[r] # "" <=> pc[r] = "done"
       /\ pc[r] = "check" => token[r] # Nil
  /\ clock \in Nat
  /\ revoked \in SUBSET Revocable
  /\ known \in [Requests -> BOOLEAN]
  /\ came \in [Requests -> Nat]
  /\ decided \in [Requests -> Nat]

(* A jti that was revoked before a request came is not accepted from that
   request unless a token that carries it has expired by the time it is: the
   request may be parsed before the expiry and looked up after the entry is
   pruned, but where a jti names one token (RFC 7519, 4.1.7) the pruning
   never opens a window in which that token is still good.                 *)
RevokedUntilExpired ==
  \A r \in Requests :
    answer[r] = "ACCEPTED" /\ known[r] =>
      \E t \in Revocable : t.jti = token[r].jti /\ decided[r] >= t.exp

(* A request whose token had expired when it came is never accepted, however
   long it takes to be served, and none is before its token is good.       *)
AcceptedCameInTime ==
  \A r \in Requests :
    answer[r] = "ACCEPTED" =>
      /\ token[r].exp # Nil => came[r] < token[r].exp
      /\ token[r].nbf <= decided[r]

(* Judging in two steps and forgetting what expired cannot be told from
   judging at once by a list of revocations that forgets nothing.          *)
Phase ==
  [r \in Requests |-> CASE pc[r] \in {"parse", "check"} -> "pending"
                       [] pc[r] = "done" -> "judged"
                       [] OTHER -> pc[r]]

Judged == INSTANCE Authentication WITH phase <- Phase

JudgesAtOnce == Judged!Spec

(* The store does not grow for ever: the entry of an expired token goes. *)
Stale(j) == items[j] # Nil /\ clock > items[j]

ExpiredIsPruned == \A j \in Jtis : Stale(j) ~> ~Stale(j)
=============================================================================
