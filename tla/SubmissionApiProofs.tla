-------------------------- MODULE SubmissionApiProofs --------------------------
(***************************************************************************)
(* Proofs about SubmissionApi.  Every step of the endpoints is a step of    *)
(* the store or leaves it alone, so that what SqlStoreProofs proves of the  *)
(* store holds under the endpoints; the properties follow from that and     *)
(* from what ties a call and a response to their HTTP request.              *)
(***************************************************************************)
EXTENDS SubmissionApi, TLAPS

P == INSTANCE SqlStoreProofs

-----------------------------------------------------------------------------
(* The store of SubmissionApi and that of the proofs are one. *)

LEMMA SameData ==
  /\ \A p, t : Store!Record(p, t) = Record(p, t) /\ P!Record(p, t) = Record(p, t)
  /\ \A r : Store!Summary(r) = P!Summary(r)
  /\ \A r : Store!Result(r) = Result(r) /\ P!Result(r) = Result(r)
  /\ \A r, f : Store!Matches(r, f) <=> P!Matches(r, f)
BY DEF Store!Record, P!Record, Record, Store!Summary, P!Summary, Store!Result, P!Result,
   Result, Store!Matches, P!Matches

LEMMA SameTypes ==
  /\ Store!Records = Records /\ P!Records = Records
  /\ Store!Requests = Requests /\ P!Requests = Requests
  /\ Store!Reads = Reads /\ P!Reads = Reads
  /\ \A r : Store!Answers(r) = P!Answers(r)
BY DEF Store!Records, P!Records, Records, Store!Requests, P!Requests, Requests,
   Store!Creates, P!Creates, Creates, Store!Reads, P!Reads, Reads, Store!Answers,
   P!Answers, Store!Results, P!Results, Store!Summaries, P!Summaries

(* What SqlStoreProofs assumes of the constants. *)
LEMMA SameAssumptions ==
  /\ Params \subseteq P!ParamsType
  /\ Filters \subseteq [holding : Holdings, year : Int, quarter : Int]
  /\ Nil \notin P!Records /\ Nil \notin P!Requests
  /\ NotFound \notin P!Records \cup Seq(P!Summaries)
  /\ P!IsFiniteSet(Ids)
  /\ Drivers \subseteq {"postgres", "sqlserver"}
  /\ Unfit \subseteq Params
  /\ UnfitFilters \subseteq Filters
  /\ \A f \in UnfitFilters : \A p \in Params \ Unfit : ~P!Matches(p, f)
  /\ Grain \in Nat \ {0}
  /\ Failure \notin P!Records \cup P!Results \cup Seq(P!Summaries) /\ Failure # NotFound
  /\ MaxClock \in Nat
<1>1. P!ParamsType = ParamsType /\ P!Summaries = Summaries /\ P!Results = Results
  BY DEF P!ParamsType, ParamsType, P!Summaries, Summaries, P!Results, Results
<1>2. P!IsFiniteSet(Ids)
  BY IdsAssumption DEF P!IsFiniteSet, IsFiniteSet
<1>3. \A f \in UnfitFilters : \A p \in Params \ Unfit : ~P!Matches(p, f)
  BY StoreAssumption DEF P!Matches, Matches
<1> QED
  BY <1>1, <1>2, <1>3, SameTypes, ParamsAssumption, FiltersAssumption, NilAssumption,
     NotFoundAssumption, StoreAssumption

LEMMA SameStore ==
  /\ Store!InFlight = P!InFlight
  /\ Store!Stored = P!Stored
  /\ \A c : Store!IsCreate(c) <=> P!IsCreate(c)
  /\ \A c : Store!IdOf(c) = P!IdOf(c)
  /\ \A c : Store!Fits(c) <=> P!Fits(c)
  /\ Store!Acknowledged = P!Acknowledged
  /\ \A c : Store!Row(c) = P!Row(c)
  /\ \A c : Store!OwnResult(c) = P!OwnResult(c)
<1>1. \A t : Store!ColumnTime(t) = P!ColumnTime(t)
  BY DEF Store!ColumnTime, P!ColumnTime
<1>2. Store!InFlight = P!InFlight /\ Store!Stored = P!Stored
  BY DEF Store!InFlight, P!InFlight, Store!Stored, P!Stored
<1>3. /\ \A c : Store!IsCreate(c) <=> P!IsCreate(c)
      /\ \A c : Store!IdOf(c) = P!IdOf(c)
      /\ \A c : Store!Fits(c) <=> P!Fits(c)
  BY DEF Store!IsCreate, P!IsCreate, Store!IdOf, P!IdOf, Store!Fits, P!Fits
<1>4. Store!Acknowledged = P!Acknowledged
  BY DEF Store!Acknowledged, P!Acknowledged, Store!IsCreate, P!IsCreate, Store!IdOf, P!IdOf
<1>5. \A c : Store!Row(c) = P!Row(c)
  BY <1>1, SameData DEF Store!Row, P!Row
<1>6. \A c : Store!OwnResult(c) = P!OwnResult(c)
  BY SameData DEF Store!OwnResult, P!OwnResult
<1> QED BY <1>2, <1>3, <1>4, <1>5, <1>6

LEMMA SameRows ==
  \A I : Store!Ordered(Store!Rows(I)) = P!Ordered(P!Rows(I))
<1>1. \A I : Store!Rows(I) = P!Rows(I)
  BY DEF Store!Rows, P!Rows, Store!Summary, P!Summary
<1>2. \A S : Store!Cardinality(S) = P!Cardinality(S)
  BY DEF Store!Cardinality, P!Cardinality
<1>3. \A S : Store!Ordered(S) = P!Ordered(S)
  BY <1>2 DEF Store!Ordered, P!Ordered, Store!NewestFirst, P!NewestFirst,
     Store!SetToSeqs, P!SetToSeqs
<1> QED BY <1>1, <1>3

LEMMA SameInvoke ==
  /\ \A c, p : Store!InvokeCreate(c, p) <=> P!InvokeCreate(c, p)
  /\ \A c, r : Store!InvokeRead(c, r) <=> P!InvokeRead(c, r)
BY SameStore DEF Store!InvokeCreate, P!InvokeCreate, Store!InvokeRead, P!InvokeRead,
   Store!Goto, P!Goto

LEMMA SameCreate ==
  \A c : /\ Store!PgCreate(c) <=> P!PgCreate(c)
         /\ Store!MsExists(c) <=> P!MsExists(c)
         /\ Store!MsInsert(c) <=> P!MsInsert(c)
BY SameStore
   DEF Store!PgCreate, P!PgCreate, Store!MsExists, P!MsExists, Store!MsInsert, P!MsInsert,
       Store!Executing, P!Executing, Store!Return, P!Return, Store!Goto, P!Goto,
       Store!InsertIfAbsent, P!InsertIfAbsent

LEMMA SameRead ==
  \A c : /\ Store!GetByID(c) <=> P!GetByID(c)
         /\ Store!GetRun(c) <=> P!GetRun(c)
         /\ Store!List(c) <=> P!List(c)
<1> USE DEF Store!Executing, P!Executing, Store!Return, P!Return, Store!Goto, P!Goto
<1> TAKE c
<1>1. Store!GetByID(c) <=> P!GetByID(c)
  BY DEF Store!GetByID, P!GetByID
<1>2. Store!GetRun(c) <=> P!GetRun(c)
  <2> DEFINE I == {i \in Store!Stored : table[i].run = request[c].run}
             J == {i \in P!Stored : table[i].run = request[c].run}
  <2>1. I = J
    BY SameStore
  <2>2. Store!Ordered(Store!Rows(I)) = P!Ordered(P!Rows(J))
    BY <2>1, SameRows
  <2> QED BY <2>2 DEF Store!GetRun, P!GetRun
<1>3. Store!List(c) <=> P!List(c)
  <2> DEFINE I == {i \in Store!Stored : Store!Matches(table[i], request[c].filter)}
             J == {i \in P!Stored : P!Matches(table[i], request[c].filter)}
  <2>1. I = J
    BY SameStore, SameData
  <2>2. Store!Ordered(Store!Rows(I)) = P!Ordered(P!Rows(J))
    BY <2>1, SameRows
  <2> QED BY <2>2 DEF Store!List, P!List, Store!QueryFails, P!QueryFails
<1> QED BY <1>1, <1>2, <1>3

LEMMA SameFaults ==
  /\ \A c : Store!ConnectionLost(c) <=> P!ConnectionLost(c)
  /\ Store!Crash <=> P!Crash
  /\ \A r : Store!RunOrphan(r) <=> P!RunOrphan(r)
  /\ Store!Tick <=> P!Tick
<1>1. \A C : Store!CutOff(C) <=> P!CutOff(C)
  BY SameStore DEF Store!CutOff, P!CutOff
<1>2. Store!Crash <=> P!Crash
  BY <1>1, SameStore DEF Store!Crash, P!Crash
<1>3. \A c : Store!ConnectionLost(c) <=> P!ConnectionLost(c)
  BY <1>1, SameStore DEF Store!ConnectionLost, P!ConnectionLost,
     Store!Return, P!Return, Store!Goto, P!Goto
<1>4. Store!Tick <=> P!Tick
  BY DEF Store!Tick, P!Tick
<1>5. \A r : Store!RunOrphan(r) <=> P!RunOrphan(r)
  BY DEF Store!RunOrphan, P!RunOrphan, Store!InsertIfAbsent, P!InsertIfAbsent
<1> QED BY <1>2, <1>3, <1>4, <1>5

LEMMA SameServe == Store!Serve <=> P!Serve
BY SameCreate, SameRead, SameFaults DEF Store!Serve, P!Serve

LEMMA SameInit == Store!Init <=> P!Init
BY DEF Store!Init, P!Init

LEMMA SameTypeOK == Store!TypeOK <=> P!TypeOK
BY SameTypes DEF Store!TypeOK, P!TypeOK

-----------------------------------------------------------------------------
(* The checks of a request. *)

LEMMA ChecksFacts ==
  ASSUME NEW q
  PROVE  /\ Failing(q) \subseteq 1 .. 7
         /\ \A k \in 1 .. 7 : Checks(q)[k].status \in Statuses \ {200, 201}
         /\ \A k \in Failing(q) : Checks(q)[k].status = 404 => q.route = "Create"
<1>1. /\ Failing(q) \subseteq 1 .. 7
      /\ \A k \in 1 .. 7 : Checks(q)[k].status \in Statuses \ {200, 201}
  BY DEF Failing, Checks, Statuses
<1>2. \A k \in 1 .. 7 : Checks(q)[k].status = 404 => k = 5
  BY DEF Checks
<1>3. ~Checks(q)[5].holds => q.route = "Create"
  BY DEF Checks
<1>4. ASSUME NEW k \in Failing(q), Checks(q)[k].status = 404 PROVE q.route = "Create"
  BY <1>1, <1>2, <1>3, <1>4 DEF Failing
<1> QED BY <1>1, <1>4

(* The first check that fails is one that fails. *)
LEMMA FirstFails ==
  ASSUME NEW S \in SUBSET (1 .. 7), S # {}
  PROVE  Min(S) \in S
<1> DEFINE Least(x) == x \in S /\ \A y \in S : x <= y
<1>1. Least(1) \/ Least(2) \/ Least(3) \/ Least(4) \/ Least(5) \/ Least(6) \/ Least(7)
  <2>1. \A y \in S : y \in {1, 2, 3, 4, 5, 6, 7}
    OBVIOUS
  <2>2. 1 \in S \/ 2 \in S \/ 3 \in S \/ 4 \in S \/ 5 \in S \/ 6 \in S \/ 7 \in S
    BY <2>1
  <2> QED BY <2>1, <2>2
<1>2. \E x \in S : \A y \in S : x <= y
  BY <1>1
<1> QED BY <1>2 DEF Min

(* A request that passes every check. *)
LEMMA Admissible ==
  ASSUME NEW q \in Incoming, Failing(q) = {}
  PROVE  /\ Production => q.proto # "http"
         /\ q.authentic
         /\ q.route \in {"Create", "ListSubmissions"} => q.holding = q.client
         /\ q.route = "Create" => q.tenant \in Registered /\ Verdict[q.tenant][q.body] = "ok"
<1>1. DOMAIN Checks(q) = 1 .. 7
  BY DEF Checks
<1>2. \A k \in 1 .. 7 : Checks(q)[k].holds
  BY <1>1 DEF Failing
<1>3. /\ Checks(q)[1].holds /\ Checks(q)[2].holds /\ Checks(q)[3].holds
      /\ Checks(q)[4].holds /\ Checks(q)[5].holds /\ Checks(q)[6].holds
      /\ Checks(q)[7].holds
  BY <1>2
<1>4. /\ Production => q.proto # "http"
      /\ q.authentic
      /\ q.route \in {"Create", "ListSubmissions"} => q.holding = q.client
      /\ q.route = "Create" => q.tenant \in Registered
      /\ q.route = "Create" => Verdict[q.tenant][q.body] \notin {"unreadable", "schema"}
      /\ q.route = "Create" => Verdict[q.tenant][q.body] # "logic"
  BY <1>3 DEF Checks
<1>5. Verdict[q.tenant][q.body] \in {"ok", "logic", "schema", "unreadable"}
  BY IncomingAssumption, VerdictAssumption DEF RequestType
<1> QED BY <1>4, <1>5

-----------------------------------------------------------------------------
(* The inductive invariant. *)

(* What the handler of request q asks of the store. *)
Asks(q, r) ==
  \/ q.route = "Create" /\ r = [op |-> "Create", params |-> ParamsOf(q)]
  \/ q.route = "GetSubmission" /\ r = [op |-> "GetByID", id |-> q.id]
  \/ q.route = "GetRun" /\ r = [op |-> "GetRun", run |-> q.run]
  \/ q.route = "ListSubmissions" /\ r = [op |-> "List", filter |-> FilterOf(q)]

(* A call was made for a request that was admitted, and asks what that
   request wants; what the clients had been told by then was acknowledged.  *)
Linked ==
  \A c \in Calls : pc[c] # "new" =>
    /\ http[c] \in Incoming
    /\ Failing(http[c]) = {}
    /\ Asks(http[c], request[c])
    /\ told[c] \subseteq known[c]

(* A response is the one the handler makes of what the store returned. *)
Responded(c) ==
  /\ http[c] \in Incoming
  /\ response[c].status \in Statuses
  /\ response[c].status = 201 =>
       /\ pc[c] = "done" /\ http[c].route = "Create"
       /\ reply[c] # Failure /\ response[c].data = reply[c]
  /\ response[c].status = 200 /\ http[c].route = "GetSubmission" =>
       /\ pc[c] = "done" /\ reply[c] \notin {NotFound, Failure}
       /\ response[c].data = reply[c]
       /\ reply[c].holding = http[c].holding /\ reply[c].holding = http[c].client
  /\ response[c].status = 404 /\ http[c].route \in {"GetSubmission", "GetRun"} =>
       pc[c] = "done" /\ reply[c] \in {NotFound, Failure}
  /\ response[c].status = 200 /\ http[c].route = "GetRun" =>
       pc[c] = "done" /\ reply[c] \notin {NotFound, Failure} /\ response[c].data = reply[c]
  /\ response[c].status = 200 /\ http[c].route = "ListSubmissions" =>
       /\ pc[c] = "done"
       /\ response[c].data = IF reply[c] = Failure THEN <<>> ELSE reply[c]

Carried ==
  /\ http \in [Calls -> Incoming \cup {Nil}]
  /\ DOMAIN response = Calls
  /\ told \in [Calls -> SUBSET Ids]

Responses == \A c \in Calls : response[c] # Nil => Responded(c)

AInv ==
  /\ P!IInv
  /\ P!AcknowledgedIsVisible
  /\ P!ReadsExplained
  /\ Carried
  /\ Linked
  /\ Responses

LEMMA ToldFacts ==
  ASSUME AInv
  PROVE  Told \in SUBSET Ids /\ Told \subseteq P!Acknowledged
<1> SUFFICES ASSUME NEW c \in Calls, response[c] # Nil, response[c].status = 201
             PROVE  http[c].id \in Ids /\ http[c].id \in P!Acknowledged
  BY DEF Told
<1>1. http[c] \in Incoming /\ pc[c] = "done" /\ http[c].route = "Create" /\ reply[c] # Failure
  BY DEF AInv, Responses, Responded
<1>2. request[c] = [op |-> "Create", params |-> ParamsOf(http[c])]
  BY <1>1 DEF AInv, Linked, Asks
<1>3. request[c] # Nil
  BY <1>1, NilAssumption, SameTypes DEF AInv, P!IInv, P!ArgumentsKnown
<1>4. P!IsCreate(c) /\ P!IdOf(c) = http[c].id
  BY <1>2, <1>3 DEF P!IsCreate, P!IdOf, ParamsOf
<1>5. http[c].id \in Ids
  BY <1>1, IncomingAssumption DEF RequestType
<1> QED BY <1>1, <1>4, <1>5 DEF P!Acknowledged

(* What the handler does with a request that was admitted. *)
LEMMA CallFacts ==
  ASSUME AInv, NEW c \in Calls, NEW q \in Incoming, Call(c, q), UNCHANGED driver
  PROVE  /\ pc[c] = "new" /\ pc' = [pc EXCEPT ![c] = "exec"]
         /\ UNCHANGED reply /\ known' = [known EXCEPT ![c] = P!Acknowledged]
         /\ P!Next
         /\ \E r : request' = [request EXCEPT ![c] = r] /\ Asks(q, r)
<1>1. ASSUME NEW p \in Params, P!InvokeCreate(c, p)
      PROVE  /\ pc[c] = "new" /\ pc' = [pc EXCEPT ![c] = "exec"]
             /\ UNCHANGED reply /\ known' = [known EXCEPT ![c] = P!Acknowledged]
             /\ P!Next
             /\ request' = [request EXCEPT ![c] = [op |-> "Create", params |-> p]]
  BY <1>1 DEF P!InvokeCreate, P!Goto, P!Next, P!Step
<1>2. ASSUME NEW r \in Reads, P!InvokeRead(c, r)
      PROVE  /\ pc[c] = "new" /\ pc' = [pc EXCEPT ![c] = "exec"]
             /\ UNCHANGED reply /\ known' = [known EXCEPT ![c] = P!Acknowledged]
             /\ P!Next
             /\ request' = [request EXCEPT ![c] = r]
  BY <1>2, SameTypes DEF P!InvokeRead, P!Goto, P!Next, P!Step
<1>3. CASE q.route = "Create"
  <2>1. P!InvokeCreate(c, ParamsOf(q)) /\ ParamsOf(q) \in Params
    BY <1>3, SameInvoke, IncomingAssumption DEF Call
  <2> QED BY <1>1, <1>3, <2>1 DEF Asks
<1>4. CASE q.route # "Create"
  <2>1. PICK r : P!InvokeRead(c, r) /\ Asks(q, r)
    BY <1>4, SameInvoke DEF Call, Asks
  <2>2. r \in Reads
    <3>1. q \in RequestType /\ (q.route = "ListSubmissions" => FilterOf(q) \in Filters)
      BY IncomingAssumption
    <3>2. CASE q.route = "GetSubmission" /\ r = [op |-> "GetByID", id |-> q.id]
      BY <3>1, <3>2 DEF Reads, RequestType
    <3>3. CASE q.route = "GetRun" /\ r = [op |-> "GetRun", run |-> q.run]
      BY <3>1, <3>3 DEF Reads, RequestType
    <3>4. CASE q.route = "ListSubmissions" /\ r = [op |-> "List", filter |-> FilterOf(q)]
      BY <3>1, <3>4 DEF Reads
    <3> QED BY <1>4, <2>1, <3>2, <3>3, <3>4 DEF Asks
  <2> QED BY <1>2, <2>1, <2>2
<1> QED BY <1>3, <1>4

-----------------------------------------------------------------------------
(* Every step of the endpoints is a step of the store, or leaves it alone. *)
LEMMA StepRefines ==
  ASSUME AInv, [Next]_vars
  PROVE  [P!Next]_P!vars
<1>1. ASSUME UNCHANGED storeVars PROVE UNCHANGED P!vars
  BY <1>1 DEF storeVars, P!vars
<1>2. ASSUME NEW c \in Calls, NEW q \in Incoming, Admit(c, q), UNCHANGED driver
      PROVE  P!Next
  BY <1>2, CallFacts DEF Admit
<1>3. ASSUME NEW c \in Calls, NEW q \in Incoming, Limited(c, q) \/ Refuse(c, q)
      PROVE  UNCHANGED storeVars
  BY <1>3 DEF Limited, Refuse
<1>4. ASSUME NEW c \in Calls,
             \/ RespondCreate(c) \/ RespondSubmission(c) \/ RespondRun(c)
             \/ RespondList(c) \/ ResponseLost(c)
      PROVE  UNCHANGED storeVars
  BY <1>4 DEF RespondCreate, RespondSubmission, RespondRun, RespondList, Returned,
     ResponseLost
<1>5. ASSUME StoreStep, UNCHANGED driver PROVE P!Next
  BY <1>5, SameServe DEF StoreStep, P!Next, P!Step
<1>6. ASSUME ServerCrash, UNCHANGED driver PROVE P!Next
  BY <1>6, SameFaults DEF ServerCrash, P!Next, P!Step
<1>7. ASSUME Drained \/ UNCHANGED vars PROVE UNCHANGED storeVars
  BY <1>7 DEF Drained, vars
<1> QED BY <1>1, <1>2, <1>3, <1>4, <1>5, <1>6, <1>7 DEF Next, Step

LEMMA StoreKept ==
  ASSUME AInv, [Next]_vars
  PROVE  P!IInv' /\ P!AcknowledgedIsVisible' /\ P!ReadsExplained'
<1>1. P!IInv
  BY DEF AInv
<1>2. [P!Next]_P!vars
  BY StepRefines
<1>3. P!IInv /\ [P!Next]_P!vars => P!IInv'
  BY P!NextInv, SameAssumptions
<1>4. P!IInv /\ P!AcknowledgedIsVisible /\ [P!Next]_P!vars => P!AcknowledgedIsVisible'
  BY P!VisibleStep, SameAssumptions
<1>5. P!IInv /\ P!ReadsExplained /\ [P!Next]_P!vars => P!ReadsExplained'
  BY P!ExplainedStep, SameAssumptions
<1> QED BY <1>1, <1>2, <1>3, <1>4, <1>5 DEF AInv

-----------------------------------------------------------------------------
(* Every step preserves the invariant. *)

(* A response stays right while its call rests. *)
LEMMA RespondedStays ==
  ASSUME NEW c \in Calls, Responded(c), UNCHANGED <<http[c], response[c]>>,
         pc[c] = "done" => pc'[c] = "done" /\ reply'[c] = reply[c]
  PROVE  Responded(c)'
BY DEF Responded

(* The requests that came: nothing happens to one, its call and its response. *)
LEMMA RefusedStep ==
  ASSUME AInv, NEW c \in Calls, NEW q \in Incoming, Limited(c, q) \/ Refuse(c, q)
  PROVE  Carried' /\ Linked' /\ Responses'
<1>1. /\ http[c] = Nil /\ http' = [http EXCEPT ![c] = q]
      /\ told' = [told EXCEPT ![c] = Told]
      /\ UNCHANGED <<pc, request, reply, known>>
  BY DEF Limited, Refuse, Arrive, storeVars
<1>2. /\ \A d \in Calls : d # c => response'[d] = response[d]
      /\ DOMAIN response' = Calls
      /\ response'[c].status \in Statuses \ {200, 201}
      /\ response'[c].status = 404 => q.route = "Create"
  <2>1. CASE Limited(c, q)
    BY <2>1 DEF Limited, Write, Statuses, AInv, Carried
  <2>2. CASE Refuse(c, q)
    <3>1. Min(Failing(q)) \in 1 .. 7
      BY <2>2, ChecksFacts, FirstFails DEF Refuse
    <3>2. Checks(q)[Min(Failing(q))].status \in Statuses \ {200, 201}
      BY <3>1, ChecksFacts
    <3>3. Checks(q)[Min(Failing(q))].status = 404 => q.route = "Create"
      <4>1. Min(Failing(q)) \in Failing(q)
        BY <2>2, ChecksFacts, FirstFails DEF Refuse
      <4> QED BY <3>1, <4>1, ChecksFacts
    <3> QED BY <2>2, <3>2, <3>3 DEF Refuse, Write, AInv, Carried
  <2> QED BY <2>1, <2>2
<1>3. pc[c] = "new"
  BY <1>1, IncomingAssumption DEF AInv, Linked
<1>4. Carried'
  BY <1>1, <1>2, ToldFacts DEF AInv, Carried
<1>5. Linked'
  BY <1>1, <1>3 DEF AInv, Carried, Linked
<1>6. Responses'
  <2> SUFFICES ASSUME NEW d \in Calls, response'[d] # Nil PROVE Responded(d)'
    BY DEF Responses
  <2>1. CASE d = c
    BY <1>1, <1>2, <2>1 DEF AInv, Carried, Responded
  <2>2. CASE d # c
    <3>1. UNCHANGED <<http[d], response[d], pc[d], reply[d]>>
      BY <1>1, <1>2, <2>2 DEF AInv, Carried
    <3> QED BY <3>1, RespondedStays DEF AInv, Responses
  <2> QED BY <2>1, <2>2
<1> QED BY <1>4, <1>5, <1>6

LEMMA AdmitStep ==
  ASSUME AInv, NEW c \in Calls, NEW q \in Incoming, Admit(c, q), UNCHANGED driver
  PROVE  Carried' /\ Linked' /\ Responses'
<1>1. /\ http[c] = Nil /\ http' = [http EXCEPT ![c] = q]
      /\ told' = [told EXCEPT ![c] = Told]
      /\ UNCHANGED response /\ Failing(q) = {} /\ Call(c, q)
  BY DEF Admit, Arrive
<1>2. /\ pc' = [pc EXCEPT ![c] = "exec"] /\ pc[c] = "new"
      /\ UNCHANGED reply /\ known' = [known EXCEPT ![c] = P!Acknowledged]
      /\ \E r : request' = [request EXCEPT ![c] = r] /\ Asks(q, r)
  BY <1>1, CallFacts
<1>3. /\ pc \in [Calls -> {"new", "exec", "insert", "done", "lost"}]
      /\ DOMAIN request = Calls /\ DOMAIN known = Calls
  BY DEF AInv, P!IInv, P!TypeOK
<1>4. Carried'
  BY <1>1, ToldFacts DEF AInv, Carried
<1>5. Linked'
  BY <1>1, <1>2, <1>3, ToldFacts DEF AInv, Carried, Linked
<1>6. Responses'
  <2> SUFFICES ASSUME NEW d \in Calls, response'[d] # Nil PROVE Responded(d)'
    BY DEF Responses
  <2>1. response[d] # Nil /\ Responded(d)
    BY <1>1 DEF AInv, Responses
  <2>2. d # c
    BY <1>1, <2>1, IncomingAssumption DEF Responded
  <2>3. UNCHANGED <<http[d], response[d], pc[d], reply[d]>>
    BY <1>1, <1>2, <1>3, <2>2 DEF AInv, Carried
  <2> QED BY <2>1, <2>3, RespondedStays
<1> QED BY <1>4, <1>5, <1>6

(* A handler writes its response. *)
LEMMA WriteStep ==
  ASSUME AInv, NEW c \in Calls, pc[c] = "done", UNCHANGED <<storeVars, http, told>>,
         NEW s \in Statuses, NEW v, Write(c, s, v),
         s = 201 => http[c].route = "Create" /\ reply[c] # Failure /\ v = reply[c],
         s = 200 /\ http[c].route = "GetSubmission" =>
           /\ reply[c] \notin {NotFound, Failure} /\ v = reply[c]
           /\ reply[c].holding = http[c].holding /\ reply[c].holding = http[c].client,
         s = 404 => reply[c] \in {NotFound, Failure},
         s = 200 /\ http[c].route = "GetRun" =>
           reply[c] \notin {NotFound, Failure} /\ v = reply[c],
         s = 200 /\ http[c].route = "ListSubmissions" =>
           v = IF reply[c] = Failure THEN <<>> ELSE reply[c]
  PROVE  Carried' /\ Linked' /\ Responses'
<1>1. /\ response' = [response EXCEPT ![c] = [status |-> s, data |-> v]]
      /\ UNCHANGED <<pc, request, reply, known, http, told>>
  BY DEF Write, storeVars
<1>2. Carried' /\ Linked'
  BY <1>1 DEF AInv, Carried, Linked
<1>3. Responses'
  <2> SUFFICES ASSUME NEW d \in Calls, response'[d] # Nil PROVE Responded(d)'
    BY DEF Responses
  <2>1. CASE d = c
    <3>1. http[c] \in Incoming
      BY DEF AInv, Linked
    <3>2. response'[c].status = s /\ response'[c].data = v
      BY <1>1 DEF AInv, Carried
    <3> QED BY <1>1, <2>1, <3>1, <3>2 DEF Responded
  <2>2. CASE d # c
    <3>1. UNCHANGED <<http[d], response[d], pc[d], reply[d]>>
      BY <1>1, <2>2 DEF AInv, Carried
    <3> QED BY <3>1, RespondedStays DEF AInv, Responses
  <2> QED BY <2>1, <2>2
<1> QED BY <1>2, <1>3

LEMMA RespondStep ==
  ASSUME AInv, NEW c \in Calls,
         \/ RespondCreate(c) \/ RespondSubmission(c) \/ RespondRun(c) \/ RespondList(c)
  PROVE  Carried' /\ Linked' /\ Responses'
<1> USE DEF Returned, Statuses
<1>1. CASE RespondCreate(c)
  BY <1>1, WriteStep DEF RespondCreate
<1>2. CASE RespondSubmission(c)
  BY <1>2, WriteStep DEF RespondSubmission
<1>3. CASE RespondRun(c)
  BY <1>3, WriteStep DEF RespondRun
<1>4. CASE RespondList(c)
  <2>1. Write(c, 200, IF reply[c] = Failure THEN <<>> ELSE reply[c])
    BY <1>4 DEF RespondList
  <2>2. PICK v : Write(c, 200, v) /\ v = IF reply[c] = Failure THEN <<>> ELSE reply[c]
    BY <2>1
  <2> QED BY <1>4, <2>2, WriteStep DEF RespondList
<1> QED BY <1>1, <1>2, <1>3, <1>4

(* The responses of calls that had none may get lost, and the store may take
   steps that make no call.                                                *)
LEMMA LoseStep ==
  ASSUME AInv, UNCHANGED <<http, told, request, known>>,
         \A c \in Calls : /\ pc'[c] = "new" <=> pc[c] = "new"
                          /\ pc[c] = "done" => pc'[c] = "done" /\ reply'[c] = reply[c],
         UNCHANGED response \/ \E C \in SUBSET Unsent : Lose(C)
  PROVE  Carried' /\ Linked' /\ Responses'
<1>1. Carried'
  BY DEF AInv, Carried, Lose
<1>2. Linked'
  BY DEF AInv, Linked
<1>3. Responses'
  <2> SUFFICES ASSUME NEW d \in Calls, response'[d] # Nil PROVE Responded(d)'
    BY DEF Responses
  <2>1. CASE response'[d] = response[d]
    BY <2>1, RespondedStays DEF AInv, Responses
  <2>2. CASE response'[d] # response[d]
    <3>1. response'[d] = NoAnswer /\ d \in Unsent
      BY <2>2 DEF Lose
    <3>2. http'[d] \in Incoming
      BY <3>1 DEF Unsent, AInv, Linked
    <3> QED BY <3>1, <3>2 DEF NoAnswer, Responded, Statuses
  <2> QED BY <2>1, <2>2
<1> QED BY <1>1, <1>2, <1>3

LEMMA StoreSteps ==
  ASSUME AInv, P!Serve \/ P!Crash
  PROVE  /\ UNCHANGED <<request, known>>
         /\ \A c \in Calls : /\ pc'[c] = "new" <=> pc[c] = "new"
                             /\ pc[c] = "done" => pc'[c] = "done" /\ reply'[c] = reply[c]
<1>1. P!IInv
  BY DEF AInv
<1>2. P!IInv /\ (P!Serve \/ P!Crash) =>
        /\ UNCHANGED <<request, known>>
        /\ \A c \in Calls : /\ pc'[c] = "new" <=> pc[c] = "new"
                            /\ pc[c] = "done" => pc'[c] = "done" /\ reply'[c] = reply[c]
  BY P!CallsGoOn, SameAssumptions
<1> QED BY <1>1, <1>2

LEMMA AInvStep == AInv /\ [Next]_vars => AInv'
<1> SUFFICES ASSUME AInv, [Next]_vars PROVE AInv'
  OBVIOUS
<1> DEFINE Kept == Carried' /\ Linked' /\ Responses'
<1>1. ASSUME NEW c \in Calls, NEW q \in Incoming, Limited(c, q) \/ Refuse(c, q) PROVE Kept
  BY <1>1, RefusedStep
<1>2. ASSUME NEW c \in Calls, NEW q \in Incoming, Admit(c, q), UNCHANGED driver PROVE Kept
  BY <1>2, AdmitStep
<1>3. ASSUME NEW c \in Calls,
             \/ RespondCreate(c) \/ RespondSubmission(c) \/ RespondRun(c) \/ RespondList(c)
      PROVE  Kept
  BY <1>3, RespondStep
<1>4. ASSUME NEW c \in Calls, ResponseLost(c) PROVE Kept
  <2>1. {c} \in SUBSET Unsent /\ Lose({c}) /\ UNCHANGED <<http, told, request, known, pc, reply>>
    BY <1>4 DEF ResponseLost, storeVars
  <2> QED BY <2>1, LoseStep
<1>5. ASSUME StoreStep PROVE Kept
  <2>1. P!Serve /\ UNCHANGED <<http, response, told>>
    BY <1>5, SameServe DEF StoreStep
  <2> QED BY <2>1, StoreSteps, LoseStep
<1>6. ASSUME ServerCrash PROVE Kept
  <2>1. P!Crash /\ Lose(Unsent) /\ UNCHANGED <<http, told>>
    BY <1>6, SameFaults DEF ServerCrash
  <2> QED BY <2>1, StoreSteps, LoseStep
<1>7. ASSUME Drained \/ UNCHANGED vars PROVE Kept
  <2>1. UNCHANGED <<http, told, request, known, pc, reply, response>>
    BY <1>7 DEF Drained, vars, storeVars
  <2> QED BY <2>1, LoseStep
<1>8. Kept
  BY <1>1, <1>2, <1>3, <1>4, <1>5, <1>6, <1>7 DEF Next, Step
<1> QED BY <1>8, StoreKept DEF AInv

LEMMA AInvInit == Init => AInv
<1> SUFFICES ASSUME Init PROVE AInv
  OBVIOUS
<1>1. P!Init
  BY SameInit DEF Init
<1>2. P!IInv
  BY <1>1, P!InitInv, SameAssumptions
<1>3. pc = [c \in Calls |-> "new"] /\ known = [c \in Calls |-> {}]
  BY <1>1 DEF P!Init
<1>4. P!AcknowledgedIsVisible /\ P!ReadsExplained
  BY <1>3 DEF P!AcknowledgedIsVisible, P!ReadsExplained
<1> QED BY <1>2, <1>3, <1>4 DEF Init, AInv, Carried, Linked, Responses

(* The invariant holds in every state. *)
THEOREM Invariance == Spec => []AInv
BY AInvInit, AInvStep, PTL DEF Spec

(***************************************************************************)
(* The theorems.                                                           *)
(***************************************************************************)

(* The variables have the types the code gives them, and only a request that
   was admitted has called the store.                                      *)
THEOREM TypeCorrect == Spec => []TypeOK
<1>1. ASSUME AInv PROVE TypeOK
  <2>1. Store!TypeOK
    BY <1>1, SameTypeOK DEF AInv, P!IInv
  <2>2. \A c \in Calls : pc[c] # "new" => http[c] # Nil /\ Failing(http[c]) = {}
    BY <1>1, IncomingAssumption DEF AInv, Linked
  <2> QED BY <1>1, <2>1, <2>2 DEF TypeOK, AInv, Carried, Responses, Responded
<1> QED BY <1>1, Invariance, PTL

(* A row that is stored, or may yet be, was asked for by a request that was
   admitted.                                                               *)
LEMMA AskedByRequest ==
  ASSUME AInv, NEW r, P!Asked(r)
  PROVE  \E c \in Calls :
           /\ http[c] \in Incoming /\ Failing(http[c]) = {}
           /\ http[c].route = "Create"
           /\ r = Record(ParamsOf(http[c]), r.at)
<1>1. PICK c \in Calls : /\ pc[c] # "new"
                         /\ request[c].op = "Create"
                         /\ r = Record(request[c].params, r.at)
  BY SameData DEF P!Asked, P!IsCreate
<1>2. http[c] \in Incoming /\ Failing(http[c]) = {} /\ Asks(http[c], request[c])
  BY <1>1 DEF AInv, Linked
<1>3. http[c].route = "Create" /\ request[c].params = ParamsOf(http[c])
  BY <1>1, <1>2 DEF Asks
<1> QED BY <1>1, <1>2, <1>3

(* Nothing is stored, or may yet be, but what came over a protocol that was
   let in, with a token of its holding, for a tenant that registered, and
   with a body both layers of validation passed.                           *)
THEOREM StoredPassedChecks == Spec => []StoredWasChecked
<1>1. ASSUME AInv PROVE StoredWasChecked
  <2> SUFFICES ASSUME NEW r \in orphans \cup {table[i] : i \in Store!Stored}
               PROVE  /\ r.tenant \in Registered
                      /\ Verdict[r.tenant][r.payload] = "ok"
                      /\ \E c \in Calls :
                           /\ http[c] # Nil
                           /\ Production => http[c].proto # "http"
                           /\ http[c].authentic
                           /\ http[c].client = r.holding
                           /\ http[c].id = r.id
    BY DEF StoredWasChecked
  <2>1. P!Asked(r)
    BY <1>1 DEF AInv, P!IInv, P!RowsAsked, Store!Stored
  <2>2. PICK c \in Calls : /\ http[c] \in Incoming /\ Failing(http[c]) = {}
                           /\ http[c].route = "Create"
                           /\ r = Record(ParamsOf(http[c]), r.at)
    BY <1>1, <2>1, AskedByRequest
  <2>3. /\ r.tenant = http[c].tenant /\ r.payload = http[c].body
        /\ r.holding = http[c].holding /\ r.id = http[c].id
    BY <2>2 DEF Record, ParamsOf
  <2>4. /\ Production => http[c].proto # "http"
        /\ http[c].authentic /\ http[c].holding = http[c].client
        /\ http[c].tenant \in Registered
        /\ Verdict[http[c].tenant][http[c].body] = "ok"
    BY <2>2, Admissible
  <2>5. http[c] # Nil
    BY <2>2, IncomingAssumption
  <2> QED BY <2>3, <2>4, <2>5
<1> QED BY <1>1, Invariance, PTL

(* A client that was answered 201 has its own submission on record, and its
   receipt names what is stored, whatever was lost, repeated or run late.
   This rests on an id being used for one submission only.                 *)
THEOREM ReceiptsMatch == Spec => []ReceiptMatchesRecord
<1>1. ASSUME AInv PROVE ReceiptMatchesRecord
  <2> SUFFICES ASSUME NEW c \in Calls, response[c] # Nil, response[c].status = 201
               PROVE  LET i == http[c].id IN
                      /\ table[i] # Nil
                      /\ table[i] = Record(ParamsOf(http[c]), table[i].at)
                      /\ response[c].data = [Result(table[i]) EXCEPT !.at = response[c].data.at]
    BY DEF ReceiptMatchesRecord
  <2> DEFINE q == http[c]
             i == q.id
  <2>1. /\ q \in Incoming /\ pc[c] = "done" /\ q.route = "Create"
        /\ reply[c] # Failure /\ response[c].data = reply[c]
    BY <1>1 DEF AInv, Responses, Responded
  <2>2. Failing(q) = {} /\ Asks(q, request[c])
    BY <1>1, <2>1 DEF AInv, Linked
  <2>3. request[c] = [op |-> "Create", params |-> ParamsOf(q)]
    BY <2>1, <2>2 DEF Asks
  <2>4. P!IsCreate(c) /\ P!IdOf(c) = i
    <3>1. request[c] # Nil
      BY <1>1, <2>1, NilAssumption, SameTypes DEF AInv, P!IInv, P!ArgumentsKnown
    <3> QED BY <2>3, <3>1 DEF P!IsCreate, P!IdOf, ParamsOf
  <2>5. i \in P!Acknowledged /\ table[i] # Nil
    BY <1>1, <2>1, <2>4 DEF P!Acknowledged, AInv, P!IInv, P!AcknowledgedStored
  <2>6. reply[c] = Result(Record(ParamsOf(q), receivedAt[c]))
    BY <1>1, <2>1, <2>3, <2>4, SameData DEF AInv, P!IInv, P!AnswersOwn, P!OwnResult
  <2>7. i \in Ids
    BY <2>1, IncomingAssumption DEF RequestType
  <2>8. table[i] = Record(ParamsOf(q), table[i].at)
    <3>1. P!Asked(table[i])
      BY <1>1, <2>5, <2>7 DEF AInv, P!IInv, P!RowsAsked
    <3>2. PICK d \in Calls : /\ http[d] \in Incoming /\ Failing(http[d]) = {}
                             /\ http[d].route = "Create"
                             /\ table[i] = Record(ParamsOf(http[d]), table[i].at)
      BY <1>1, <3>1, AskedByRequest
    <3>3. table[i].id = i
      BY <1>1, <2>5, <2>7 DEF AInv, P!IInv, P!Keyed
    <3>4. http[d].id = table[i].id
      BY <3>2 DEF Record, ParamsOf
    <3>5. http[d] = q
      BY <2>1, <2>2, <3>2, <3>3, <3>4, UuidAssumption
    <3> QED BY <3>2, <3>5
  <2>9. reply[c] = [Result(table[i]) EXCEPT !.at = reply[c].at]
    BY <2>6, <2>8 DEF Result, Record
  <2> QED BY <2>1, <2>5, <2>8, <2>9
<1> QED BY <1>1, Invariance, PTL

(* A submission is shown in full to the client of its holding only. *)
THEOREM ShownToItsOwner == Spec => []ShownToItsHolding
<1>1. ASSUME AInv PROVE ShownToItsHolding
  <2> SUFFICES ASSUME NEW c \in Calls, response[c] # Nil, response[c].status = 200,
                      http[c].route = "GetSubmission"
               PROVE  /\ response[c].data.id = http[c].id
                      /\ response[c].data.holding = http[c].client
                      /\ response[c].data.holding = http[c].holding
    BY DEF ShownToItsHolding
  <2>1. /\ http[c] \in Incoming /\ pc[c] = "done" /\ reply[c] \notin {NotFound, Failure}
        /\ response[c].data = reply[c]
        /\ reply[c].holding = http[c].holding /\ reply[c].holding = http[c].client
    BY <1>1 DEF AInv, Responses, Responded
  <2>2. request[c] = [op |-> "GetByID", id |-> http[c].id]
    BY <1>1, <2>1 DEF AInv, Linked, Asks
  <2>3. reply[c].id = http[c].id
    BY <1>1, <2>1, <2>2 DEF AInv, P!IInv, P!AnswersOwn
  <2> QED BY <2>1, <2>3
<1> QED BY <1>1, Invariance, PTL

(* What was received is shown: a later answer that selects it has it, whatever
   was cut off, repeated or run late, unless the store failed that request.
   A client is told what the store acknowledged; what was acknowledged is in
   every read that succeeds; a read fails only with the connection, or for a
   filter that selects nothing; and the handler passes on what it reads.   *)
THEOREM ReceivedStaysShown == Spec => []ReceivedIsShown
<1>1. ASSUME AInv PROVE ReceivedIsShown
  <2> SUFFICES ASSUME NEW c \in Calls \ failed, NEW i \in told[c], response[c] # Nil
               PROVE  LET q == http[c]
                          a == response[c]
                      IN  /\ q.route = "GetSubmission" /\ q.id = i => a.status # 404
                          /\ q.route = "GetRun" /\ q.run = table[i].run =>
                               a.status # 404 /\ (a.status = 200 => Store!Lists(a.data, i))
                          /\ q.route = "ListSubmissions" /\ Matches(table[i], FilterOf(q)) =>
                               (a.status = 200 => Store!Lists(a.data, i))
    BY DEF ReceivedIsShown
  <2> DEFINE q == http[c]
             a == response[c]
  <2>1. Responded(c)
    BY <1>1 DEF AInv, Responses
  <2>2. \A s : Store!Lists(s, i) <=> P!Lists(s, i)
    BY DEF Store!Lists, P!Lists
  <2>3. ASSUME pc[c] = "done", q.route # "Create"
        PROVE  /\ Asks(q, request[c])
               /\ reply[c] = Failure => P!AsksUnfit(c)
               /\ reply[c] # Failure => P!Shows(c, i)
    <3>1. Asks(q, request[c]) /\ i \in known[c]
      BY <1>1, <2>3 DEF AInv, Linked
    <3>2. ~P!IsCreate(c)
      BY <2>3, <3>1 DEF Asks, P!IsCreate
    <3>3. reply[c] = Failure => P!AsksUnfit(c)
      BY <1>1, <2>3, <3>2 DEF AInv, P!ReadsExplained
    <3> QED BY <1>1, <2>3, <3>1, <3>3 DEF AInv, P!AcknowledgedIsVisible
  <2>4. CASE q.route = "GetSubmission" /\ q.id = i /\ a.status = 404
    <3>1. request[c] = [op |-> "GetByID", id |-> i] /\ reply[c] \in {NotFound, Failure}
      BY <2>1, <2>3, <2>4 DEF Responded, Asks
    <3>2. reply[c] # Failure
      BY <2>1, <2>3, <2>4, <3>1 DEF Responded, P!AsksUnfit
    <3> QED BY <2>1, <2>3, <2>4, <3>1, <3>2 DEF Responded, P!Shows
  <2>5. CASE q.route = "GetRun" /\ q.run = table[i].run /\ a.status \in {200, 404}
    <3>1. pc[c] = "done" /\ request[c] = [op |-> "GetRun", run |-> q.run]
      BY <2>1, <2>3, <2>5 DEF Responded, Asks
    <3>2. reply[c] # Failure
      BY <2>3, <2>5, <3>1 DEF P!AsksUnfit
    <3>3. P!Lists(reply[c], i) /\ reply[c] \notin {NotFound, Failure}
      BY <2>3, <2>5, <3>1, <3>2 DEF P!Shows, P!Lists
    <3> QED BY <2>1, <2>2, <2>5, <3>3 DEF Responded
  <2>6. CASE q.route = "ListSubmissions" /\ Matches(table[i], FilterOf(q)) /\ a.status = 200
    <3>1. pc[c] = "done" /\ request[c] = [op |-> "List", filter |-> FilterOf(q)]
      BY <2>1, <2>3, <2>6 DEF Responded, Asks
    <3>2. P!Matches(table[i], FilterOf(q))
      BY <2>6, SameData DEF Matches, P!Matches
    <3>3. i \in Ids /\ table[i] # Nil
      <4>1. i \in known[c] /\ known[c] \in SUBSET Ids
        BY <1>1, <2>6, <3>1 DEF AInv, Linked, P!IInv, P!TypeOK
      <4> QED BY <1>1, <4>1 DEF AInv, P!IInv, P!KnownStored
    <3>4. FilterOf(q) \notin UnfitFilters
      BY <1>1, <3>2, <3>3, P!UnfitSelectsNothing, SameAssumptions DEF AInv, P!IInv
    <3>5. reply[c] # Failure
      BY <2>3, <2>6, <3>1, <3>4 DEF P!AsksUnfit
    <3>6. P!Lists(reply[c], i)
      BY <2>3, <2>6, <3>1, <3>2, <3>5 DEF P!Shows
    <3> QED BY <2>1, <2>2, <2>6, <3>5, <3>6 DEF Responded
  <2> QED BY <2>4, <2>5, <2>6
<1> QED BY <1>1, Invariance, PTL

(* The endpoints do to the store what SqlStore lets its callers do, so that
   every theorem of SqlStoreProofs holds under them.                       *)
THEOREM CallsStoreAsSpecified == Spec => P!Spec
<1>1. Init => P!Init
  BY SameInit DEF Init
<1>2. AInv /\ [Next]_vars => [P!Next]_P!vars
  BY StepRefines
<1> QED BY <1>1, <1>2, Invariance, PTL DEF Spec, P!Spec
=============================================================================
