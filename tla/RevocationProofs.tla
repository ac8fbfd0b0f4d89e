--------------------------- MODULE RevocationProofs ---------------------------
(***************************************************************************)
(* Proofs about Revocation, for any requests, tokens and jtis.             *)
(***************************************************************************)
EXTENDS Revocation, TLAPS

(* The entry of a revoked jti is that of a revoked token that carries it, and
   is there until that token has expired.                                  *)
Held(j) ==
  \E u \in revoked :
    /\ u.jti = j
    /\ items[j] = u.exp \/ (items[j] = Nil /\ clock > u.exp)
Kept == \A t \in revoked : Held(t.jti)

(* The pruning works with a time that has passed. *)
PrunesLate == pruning # Nil => pruning <= clock

(* What a request in flight was told is still true: its token was good when
   it came, and what was revoked then still is.                            *)
InFlight ==
  \A r \in Requests :
    /\ pc[r] \in {"parse", "check"} =>
         /\ known[r] => \E u \in revoked : u.jti = token[r].jti
         /\ came[r] <= clock
    /\ pc[r] = "check" =>
         /\ token[r].exp # Nil => came[r] < token[r].exp
         /\ token[r].nbf <= clock

IInv ==
  /\ TypeOK
  /\ Kept
  /\ PrunesLate
  /\ InFlight
  /\ RevokedUntilExpired
  /\ AcceptedCameInTime

LEMMA InitInv == Init => IInv
<1> SUFFICES ASSUME Init PROVE IInv
  OBVIOUS
<1>1. TypeOK
  BY DEF Init, TypeOK
<1>2. Kept /\ PrunesLate /\ InFlight
  BY DEF Init, Kept, PrunesLate, InFlight
<1>3. RevokedUntilExpired /\ AcceptedCameInTime
  BY DEF Init, RevokedUntilExpired, AcceptedCameInTime
<1> QED BY <1>1, <1>2, <1>3 DEF IInv

LEMMA Claims ==
  /\ \A t \in Tokens : /\ t.jti \in Jtis \cup {Nil} /\ t.exp \in Nat \cup {Nil}
                       /\ t.nbf \in Nat
  /\ \A t \in Revocable : t \in Tokens /\ t.jti \in Jtis /\ t.exp \in Nat
BY TokensAssumption DEF TokenType, Revocable

LEMMA ArriveStep ==
  ASSUME IInv, NEW r \in Requests, NEW t \in Tokens \cup {Nil}, Arrive(r, t)
  PROVE  IInv'
<1>1. TypeOK'
  BY DEF IInv, TypeOK, Arrive
<1>2. Kept' /\ PrunesLate'
  BY DEF IInv, Arrive, Kept, Held, PrunesLate
<1>3. InFlight'
  <2> DEFINE listed == t # Nil /\ \E u \in revoked : u.jti = t.jti
  <2>1. /\ pc' = [pc EXCEPT ![r] = "parse"] /\ pc \in [Requests -> {"new", "parse", "check", "done", "lost"}]
        /\ known' = [known EXCEPT ![r] = listed] /\ known \in [Requests -> BOOLEAN]
        /\ came' = [came EXCEPT ![r] = clock] /\ came \in [Requests -> Nat]
        /\ token' = [token EXCEPT ![r] = t] /\ token \in [Requests -> Tokens \cup {Nil}]
        /\ clock' = clock /\ revoked' = revoked /\ clock \in Nat
    BY DEF IInv, TypeOK, Arrive
  <2>2. ASSUME NEW q \in Requests, q # r
        PROVE  /\ pc'[q] = pc[q] /\ known'[q] = known[q]
               /\ came'[q] = came[q] /\ token'[q] = token[q]
    BY <2>1, <2>2
  <2>3. /\ pc'[r] = "parse" /\ came'[r] <= clock
        /\ known'[r] => \E u \in revoked : u.jti = token'[r].jti
    <3>1. pc'[r] = "parse" /\ came'[r] <= clock /\ token'[r] = t
      BY <2>1
    <3> HIDE DEF listed
    <3>2. known'[r] = listed
      BY <2>1, Zenon
    <3>3. known'[r] => \E u \in revoked : u.jti = t.jti
      BY <3>2, Zenon DEF listed
    <3> QED BY <3>1, <3>3
  <2> QED BY <2>1, <2>2, <2>3 DEF IInv, InFlight
<1>4. answer[r] = ""
  BY DEF IInv, TypeOK, Arrive
<1>5. RevokedUntilExpired' /\ AcceptedCameInTime'
  BY <1>4 DEF IInv, TypeOK, Arrive, RevokedUntilExpired, AcceptedCameInTime
<1> QED BY <1>1, <1>2, <1>3, <1>5 DEF IInv

(* Any answer but the last one. *)
LEMMA RefusalStep ==
  ASSUME IInv, NEW r \in Requests, NEW code \in Outcomes \ {"ACCEPTED"},
         pc[r] \in {"parse", "check"}, Answer(r, code)
  PROVE  IInv'
<1>1. TypeOK'
  BY DEF IInv, TypeOK, Answer, Outcomes
<1>2. Kept' /\ PrunesLate'
  BY DEF IInv, Answer, Kept, Held, PrunesLate
<1>3. InFlight'
  BY DEF IInv, TypeOK, Answer, InFlight
<1>4. RevokedUntilExpired' /\ AcceptedCameInTime'
  BY DEF IInv, TypeOK, Answer, RevokedUntilExpired, AcceptedCameInTime
<1> QED BY <1>1, <1>2, <1>3, <1>4 DEF IInv

LEMMA ParseStep ==
  ASSUME IInv, NEW r \in Requests, Parse(r)
  PROVE  IInv'
<1>1. CASE \E code \in {"UNAUTHORISED", "INVALID_TOKEN", "TOKEN_EXPIRED"} : Answer(r, code)
  BY <1>1, RefusalStep DEF Parse, Outcomes
<1>2. CASE token[r] # Nil /\ ~Expired(token[r]) /\ ~Early(token[r]) /\ Proceed(r)
  <2>1. TypeOK'
    BY <1>2 DEF IInv, TypeOK, Proceed, Parse
  <2>2. Kept' /\ PrunesLate' /\ RevokedUntilExpired' /\ AcceptedCameInTime'
    BY <1>2 DEF IInv, Proceed, Kept, Held, PrunesLate, RevokedUntilExpired, AcceptedCameInTime
  <2>3. /\ token[r].exp # Nil => came[r] < token[r].exp
        /\ token[r].nbf <= clock
    <3>1. /\ came[r] \in Nat /\ clock \in Nat /\ token[r].nbf \in Nat
          /\ token[r].exp # Nil => token[r].exp \in Nat
      BY <1>2, Claims DEF IInv, TypeOK
    <3>2. /\ came[r] <= clock /\ ~(clock < token[r].nbf)
          /\ token[r].exp # Nil => ~(clock >= token[r].exp)
      BY <1>2 DEF IInv, InFlight, Parse, Expired, Early
    <3> QED BY <3>1, <3>2
  <2>4. InFlight'
    BY <1>2, <2>3 DEF IInv, TypeOK, Proceed, Parse, InFlight
  <2> QED BY <2>1, <2>2, <2>4 DEF IInv
<1> QED BY <1>1, <1>2 DEF Parse

LEMMA CheckStep ==
  ASSUME IInv, NEW r \in Requests, Check(r)
  PROVE  IInv'
<1>1. CASE IsRevoked(token[r].jti)
  BY <1>1, RefusalStep DEF Check, Outcomes
<1>2. CASE ~IsRevoked(token[r].jti)
  <2>1. Answer(r, "ACCEPTED") /\ pc[r] = "check" /\ token[r] \in Tokens
    BY <1>2 DEF Check, IInv, TypeOK
  <2>2. TypeOK'
    BY <2>1 DEF IInv, TypeOK, Answer, Outcomes
  <2>3. Kept' /\ PrunesLate' /\ InFlight'
    <3>1. Kept' /\ PrunesLate'
      BY <2>1 DEF IInv, Answer, Kept, Held, PrunesLate
    <3>2. InFlight'
      BY <2>1 DEF IInv, TypeOK, Answer, InFlight
    <3> QED BY <3>1, <3>2
  <2>4. RevokedUntilExpired'
    <3>1. ASSUME known[r]
          PROVE  \E t \in Revocable : t.jti = token[r].jti /\ clock >= t.exp
      <4>1. Held(token[r].jti)
        BY <2>1, <3>1 DEF IInv, InFlight, Kept
      <4>2. PICK u \in revoked :
              /\ u.jti = token[r].jti
              /\ \/ items[token[r].jti] = u.exp
                 \/ items[token[r].jti] = Nil /\ clock > u.exp
        BY <4>1 DEF Held
      <4>3. u \in Revocable /\ u.jti \in Jtis /\ u.exp \in Nat /\ clock \in Nat
        BY Claims DEF IInv, TypeOK
      <4>4. clock > u.exp
        BY <1>2, <4>2, <4>3, NilAssumption DEF IsRevoked
      <4> QED BY <4>2, <4>3, <4>4
    <3> QED BY <2>1, <3>1 DEF IInv, TypeOK, Answer, RevokedUntilExpired
  <2>5. AcceptedCameInTime'
    BY <2>1 DEF IInv, TypeOK, InFlight, Answer, AcceptedCameInTime
  <2> QED BY <2>2, <2>3, <2>4, <2>5 DEF IInv
<1> QED BY <1>1, <1>2

LEMMA RevokeStep ==
  ASSUME IInv, NEW t \in Tokens, Revoke(t)
  PROVE  IInv'
<1>1. t \in Revocable /\ t.jti \in Jtis /\ t.exp \in Nat
  BY Claims DEF Revoke
<1>2. TypeOK'
  BY <1>1 DEF IInv, TypeOK, Revoke
<1>3. Kept'
  <2> SUFFICES ASSUME NEW s \in revoked' PROVE Held(s.jti)'
    BY DEF Kept
  <2>1. CASE s.jti = t.jti
    <3>1. t \in revoked' /\ items'[t.jti] = t.exp
      BY <1>1 DEF IInv, TypeOK, Revoke
    <3> QED BY <2>1, <3>1 DEF Held
  <2>2. CASE s.jti # t.jti
    <3>1. s \in revoked /\ items'[s.jti] = items[s.jti] /\ clock' = clock
      BY <1>1, <2>2, Claims DEF IInv, TypeOK, Revoke
    <3> QED BY <3>1 DEF IInv, Kept, Held, Revoke
  <2> QED BY <2>1, <2>2
<1>4. PrunesLate' /\ InFlight' /\ RevokedUntilExpired' /\ AcceptedCameInTime'
  BY DEF IInv, Revoke, PrunesLate, InFlight, RevokedUntilExpired, AcceptedCameInTime
<1> QED BY <1>2, <1>3, <1>4 DEF IInv

LEMMA PruneStep ==
  ASSUME IInv, Prune
  PROVE  IInv'
<1>1. TypeOK'
  BY DEF IInv, TypeOK, Prune
<1>2. Kept'
  <2> SUFFICES ASSUME NEW t \in revoked PROVE Held(t.jti)'
    BY DEF Kept, Prune
  <2> DEFINE j == t.jti
  <2>1. PICK u \in revoked : u.jti = j /\ (items[j] = u.exp \/ (items[j] = Nil /\ clock > u.exp))
    BY DEF IInv, Kept, Held
  <2>2. j \in Jtis /\ u.exp \in Nat
    BY Claims DEF IInv, TypeOK
  <2>3. pruning \in Nat /\ clock \in Nat /\ pruning <= clock
    BY DEF IInv, TypeOK, PrunesLate, Prune
  <2>4. u \in revoked' /\ clock' = clock
    BY DEF Prune
  <2>5. CASE items[j] # Nil /\ pruning > items[j]
    <3>1. items'[j] = Nil /\ items[j] = u.exp
      BY <2>1, <2>2, <2>5 DEF Prune
    <3>2. clock > u.exp
      BY <2>2, <2>3, <2>5, <3>1
    <3> QED BY <2>1, <2>4, <3>1, <3>2 DEF Held
  <2>6. CASE ~(items[j] # Nil /\ pruning > items[j])
    <3>1. items'[j] = items[j]
      BY <2>2, <2>6 DEF Prune
    <3> QED BY <2>1, <2>4, <3>1 DEF Held
  <2> QED BY <2>5, <2>6
<1>3. PrunesLate' /\ InFlight' /\ RevokedUntilExpired' /\ AcceptedCameInTime'
  BY DEF IInv, Prune, PrunesLate, InFlight, RevokedUntilExpired, AcceptedCameInTime
<1> QED BY <1>1, <1>2, <1>3 DEF IInv

LEMMA OtherSteps ==
  ASSUME IInv, StartPruning \/ Restart \/ Tick \/ UNCHANGED vars
  PROVE  IInv'
<1>1. CASE StartPruning
  <2>1. TypeOK'
    BY <1>1 DEF IInv, TypeOK, StartPruning
  <2>2. PrunesLate'
    <3>1. pruning' = clock /\ clock' = clock /\ clock \in Nat
      BY <1>1 DEF IInv, TypeOK, StartPruning
    <3> QED BY <3>1 DEF PrunesLate
  <2>3. Kept' /\ InFlight' /\ RevokedUntilExpired' /\ AcceptedCameInTime'
    BY <1>1 DEF IInv, StartPruning, Kept, Held, InFlight, RevokedUntilExpired, AcceptedCameInTime
  <2> QED BY <2>1, <2>2, <2>3 DEF IInv
<1>2. CASE Restart
  <2>1. TypeOK'
    BY <1>2 DEF IInv, TypeOK, Restart
  <2>2. Kept' /\ PrunesLate' /\ RevokedUntilExpired' /\ AcceptedCameInTime'
    BY <1>2 DEF IInv, Restart, Kept, PrunesLate, RevokedUntilExpired, AcceptedCameInTime
  <2>3. InFlight'
    BY <1>2 DEF IInv, TypeOK, Restart, InFlight
  <2> QED BY <2>1, <2>2, <2>3 DEF IInv
<1>3. CASE Tick
  <2>1. clock' = clock + 1 /\ clock \in Nat
    BY <1>3 DEF Tick, IInv, TypeOK
  <2>2. TypeOK'
    <3>1. clock' \in Nat
      BY <2>1
    <3> QED BY <1>3, <3>1 DEF IInv, TypeOK, Tick
  <2>3. \A n \in Nat : (n <= clock => n <= clock') /\ (clock > n => clock' > n)
    BY <2>1
  <2>4. Kept'
    <3>1. \A u \in revoked : u.exp \in Nat
      BY Claims DEF IInv, TypeOK
    <3>2. UNCHANGED <<revoked, items>>
      BY <1>3 DEF Tick
    <3> QED BY <2>3, <3>1, <3>2 DEF IInv, Kept, Held
  <2>5. PrunesLate'
    BY <1>3, <2>3 DEF IInv, TypeOK, PrunesLate, Tick
  <2>6. InFlight'
    <3>1. UNCHANGED <<pc, token, known, came, revoked>>
      BY <1>3 DEF Tick
    <3>2. \A r \in Requests : came[r] \in Nat /\ (pc[r] = "check" => token[r].nbf \in Nat)
      BY Claims DEF IInv, TypeOK
    <3> QED BY <2>3, <3>1, <3>2 DEF IInv, InFlight
  <2>7. RevokedUntilExpired' /\ AcceptedCameInTime'
    BY <1>3 DEF IInv, Tick, RevokedUntilExpired, AcceptedCameInTime
  <2> QED BY <2>2, <2>4, <2>5, <2>6, <2>7 DEF IInv
<1>4. CASE UNCHANGED vars
  BY <1>4 DEF vars, IInv, TypeOK, Kept, Held, PrunesLate, InFlight, RevokedUntilExpired,
     AcceptedCameInTime
<1> QED BY <1>1, <1>2, <1>3, <1>4

(* The inductive invariant holds in every reachable state of the specification. *)
THEOREM Invariance == Spec => []IInv
<1>1. IInv /\ [Next]_vars => IInv'
  BY ArriveStep, ParseStep, CheckStep, RevokeStep, PruneStep, OtherSteps DEF Next
<1> QED BY <1>1, InitInv, PTL DEF Spec

(* The variables keep their types. *)
THEOREM TypeCorrect == Spec => []TypeOK
<1>1. IInv => TypeOK
  BY DEF IInv
<1> QED BY <1>1, Invariance, PTL

(* However parsing, lookup, revocation and pruning interleave, a request that
   comes after the revocation of its jti is accepted only once a token that
   carries it has expired.                                                 *)
THEOREM RevocationHolds == Spec => []RevokedUntilExpired
<1>1. IInv => RevokedUntilExpired
  BY DEF IInv
<1> QED BY <1>1, Invariance, PTL

(* No request is accepted whose token had expired when it came, or is not good
   yet.                                                                    *)
THEOREM ExpiryHolds == Spec => []AcceptedCameInTime
<1>1. IInv => AcceptedCameInTime
  BY DEF IInv
<1> QED BY <1>1, Invariance, PTL
-----------------------------------------------------------------------------
(* Revocation implements Authentication: a request is judged when it is
   answered, and pruning cannot be noticed.                                *)

(* What is looked up was verified, and what is listed was revoked. *)
Listed ==
  /\ \A r \in Requests : pc[r] = "check" => token[r].verifies
  /\ \A j \in Jtis : items[j] # Nil => \E u \in revoked : u.jti = j

LEMMA ListedStep ==
  ASSUME IInv, Listed, [Next]_vars
  PROVE  Listed'
<1>1. ASSUME NEW r \in Requests,
             \/ \E t \in Tokens \cup {Nil} : Arrive(r, t)
             \/ Parse(r) \/ Check(r)
      PROVE  Listed'
  <2>1. CASE \E t \in Tokens \cup {Nil} : Arrive(r, t)
    BY <2>1 DEF Arrive, Listed, IInv, TypeOK
  <2>2. CASE \E code : Answer(r, code)
    BY <2>2 DEF Answer, Listed, IInv, TypeOK
  <2>3. CASE token[r].verifies /\ Proceed(r)
    BY <2>3 DEF Proceed, Listed, IInv, TypeOK
  <2> QED BY <1>1, <2>1, <2>2, <2>3 DEF Parse, Check
<1>2. ASSUME NEW t \in Tokens, Revoke(t) PROVE Listed'
  BY <1>2 DEF Revoke, Listed, IInv, TypeOK
<1>3. CASE Prune
  BY <1>3 DEF Prune, Listed, IInv, TypeOK
<1>4. CASE Restart
  BY <1>4 DEF Restart, Listed, IInv, TypeOK
<1>5. CASE StartPruning \/ Tick \/ UNCHANGED vars
  BY <1>5 DEF StartPruning, Tick, vars, Listed
<1> QED BY <1>1, <1>2, <1>3, <1>4, <1>5 DEF Next

(* The answer a request is given is a judgement it may be given now. *)
LEMMA AnswerRefines ==
  ASSUME IInv, NEW r \in Requests, pc[r] \in {"parse", "check"},
         NEW code \in Judged!Judgements(r), Answer(r, code)
  PROVE  Judged!Judge(r)
<1>1. Phase[r] = "pending" /\ Phase' = [Phase EXCEPT ![r] = "judged"]
  BY DEF Answer, Phase, IInv, TypeOK
<1> QED BY <1>1 DEF Answer, Judged!Judge

LEMMA ParseRefines ==
  ASSUME IInv, NEW r \in Requests, Parse(r)
  PROVE  Judged!Judge(r) \/ UNCHANGED Judged!vars
<1> DEFINE t == token[r]
<1>1. pc[r] = "parse"
  BY DEF Parse
<1>2. CASE t = Nil /\ Answer(r, "UNAUTHORISED")
  BY <1>1, <1>2, AnswerRefines DEF Judged!Judgements
<1>3. CASE t # Nil /\ ~t.verifies /\ Answer(r, "INVALID_TOKEN")
  BY <1>1, <1>3, AnswerRefines DEF Judged!Judgements
<1>4. CASE t # Nil /\ t.verifies /\ Expired(t) /\ Answer(r, "TOKEN_EXPIRED")
  <2>1. "TOKEN_EXPIRED" \in Judged!Judgements(r)
    BY <1>4 DEF Judged!Judgements, Expired
  <2> QED BY <1>1, <1>4, <2>1, AnswerRefines
<1>5. CASE t # Nil /\ t.verifies /\ ~Expired(t) /\ Early(t) /\ Answer(r, "INVALID_TOKEN")
  <2>1. /\ came[r] \in Nat /\ clock \in Nat /\ came[r] <= clock
        /\ t.exp # Nil => t.exp \in Nat
    BY <1>1, <1>5, Claims DEF IInv, TypeOK, InFlight
  <2>2. t.exp # Nil => ~(came[r] >= t.exp)
    BY <1>5, <2>1 DEF Expired
  <2>3. "INVALID_TOKEN" \in Judged!Judgements(r)
    BY <1>5, <2>2 DEF Judged!Judgements, Early
  <2> QED BY <1>1, <1>5, <2>3, AnswerRefines
<1>6. CASE Proceed(r)
  <2>1. Phase' = Phase
    BY <1>1, <1>6 DEF Proceed, Phase, IInv, TypeOK
  <2> QED BY <1>6, <2>1 DEF Proceed, Judged!vars
<1> QED BY <1>2, <1>3, <1>4, <1>5, <1>6 DEF Parse

LEMMA CheckRefines ==
  ASSUME IInv, Listed, NEW r \in Requests, Check(r)
  PROVE  Judged!Judge(r)
<1> DEFINE t == token[r]
           j == IF IsRevoked(t.jti) THEN "TOKEN_REVOKED" ELSE "ACCEPTED"
<1>1. pc[r] = "check" /\ Answer(r, j)
  BY DEF Check
<1>2. /\ t \in Tokens /\ t # Nil /\ t.verifies /\ t.jti \in Jtis \cup {Nil}
      /\ ~(t.exp # Nil /\ came[r] >= t.exp)
      /\ clock >= t.nbf
  <2>1. /\ t \in Tokens /\ t # Nil /\ t.verifies
        /\ t.exp # Nil => came[r] < t.exp
        /\ t.nbf <= clock
    BY <1>1, NilAssumption DEF IInv, TypeOK, InFlight, Listed
  <2>2. /\ t.exp # Nil => t.exp \in Nat
        /\ t.nbf \in Nat /\ clock \in Nat /\ came[r] \in Nat
        /\ t.jti \in Jtis \cup {Nil}
    BY <2>1, Claims DEF IInv, TypeOK
  <2> QED BY <2>1, <2>2
<1> DEFINE listed == {u \in revoked : u.jti = t.jti}
<1>3. IsRevoked(t.jti) => listed # {}
  BY <1>2 DEF IsRevoked, Listed
<1>4. ~IsRevoked(t.jti) /\ listed # {} => \E u \in listed : clock > u.exp
  <2> SUFFICES ASSUME ~IsRevoked(t.jti), listed # {} PROVE \E u \in listed : clock > u.exp
    OBVIOUS
  <2>1. Held(t.jti)
    BY DEF IInv, Kept
  <2>2. PICK u \in revoked :
          /\ u.jti = t.jti
          /\ items[t.jti] = u.exp \/ (items[t.jti] = Nil /\ clock > u.exp)
    BY <2>1 DEF Held
  <2>3. u.jti \in Jtis /\ u.exp \in Nat
    BY Claims DEF IInv, TypeOK
  <2>4. items[t.jti] = Nil
    BY <2>2, <2>3, NilAssumption DEF IsRevoked
  <2>5. clock > u.exp
    BY <2>2, <2>3, <2>4, NilAssumption
  <2> QED BY <2>2, <2>5
<1>5. j \in Judged!Judgements(r)
  BY <1>2, <1>3, <1>4 DEF Judged!Judgements
<1> QED BY <1>1, <1>5, AnswerRefines

LEMMA NextRefines ==
  ASSUME IInv, Listed, [Next]_vars
  PROVE  [Judged!Next]_(Judged!vars)
<1>1. ASSUME NEW r \in Requests, NEW t \in Tokens \cup {Nil}, Arrive(r, t) PROVE Judged!Next
  <2>1. Phase[r] = "new" /\ Phase' = [Phase EXCEPT ![r] = "pending"]
    BY <1>1 DEF Arrive, Phase, IInv, TypeOK
  <2> QED BY <1>1, <2>1 DEF Arrive, Judged!Arrive, Judged!Next
<1>2. ASSUME NEW r \in Requests, Parse(r) \/ Check(r) PROVE [Judged!Next]_(Judged!vars)
  BY <1>2, ParseRefines, CheckRefines DEF Judged!Next
<1>3. ASSUME pc' = pc PROVE Phase' = Phase
  BY <1>3 DEF Phase
<1>4. ASSUME NEW t \in Tokens, Revoke(t) PROVE Judged!Next
  BY <1>3, <1>4 DEF Revoke, Revocable, Judged!Revoke, Judged!Next
<1>5. CASE StartPruning \/ Prune \/ UNCHANGED vars
  BY <1>3, <1>5 DEF StartPruning, Prune, vars, Judged!vars
<1>6. CASE Restart
  <2>1. Phase' = [r \in Requests |-> IF Phase[r] = "pending" THEN "lost" ELSE Phase[r]]
    BY <1>6 DEF Restart, Phase, IInv, TypeOK
  <2> QED BY <1>6, <2>1 DEF Restart, Judged!Restart, Judged!Next
<1>7. CASE Tick
  BY <1>3, <1>7 DEF Tick, Judged!Tick, Judged!Next
<1> QED BY <1>1, <1>2, <1>4, <1>5, <1>6, <1>7 DEF Next

(* Judging in two steps, with a store that forgets what expired, is judging in
   one step by all the revocations there were.                             *)
THEOREM ImplementsAuthentication == Spec => JudgesAtOnce
<1>1. Init => Listed /\ Judged!Init
  <2> SUFFICES ASSUME Init PROVE Listed /\ Judged!Init
    OBVIOUS
  <2>1. Phase = [r \in Requests |-> "new"]
    BY DEF Init, Phase
  <2> QED BY <2>1 DEF Init, Listed, Judged!Init
<1>2. IInv /\ Listed /\ [Next]_vars => Listed' /\ [Judged!Next]_(Judged!vars)
  BY ListedStep, NextRefines
<1> QED BY <1>1, <1>2, Invariance, PTL DEF Spec, JudgesAtOnce, Judged!Spec
=============================================================================
