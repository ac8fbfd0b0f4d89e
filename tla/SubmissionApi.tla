---------------------------- MODULE SubmissionApi ----------------------------
(***************************************************************************)
(* The four submission endpoints over a SQL store: the middlewares of      *)
(* main.go and the handlers of handlers.SubmissionHandler.                 *)
(*                                                                         *)
(* A request passes a row of checks that read nothing two requests share,  *)
(* so all of them are one step, in which the request is refused or the     *)
(* store is called.  The store then takes the steps of SqlStore, and the   *)
(* handler turns what it returns into a response.  The limiter and the     *)
(* judgement of the token are the modules RateLimiter and Revocation: here *)
(* the one may refuse any request, the other is a property of the request. *)
(*                                                                         *)
(* A client that has no answer, or does not like it, sends another request. *)
(* The timeout of main.go cancels a context nothing looks at: it ends no   *)
(* handler and changes no answer that was written.                         *)
(***************************************************************************)
EXTENDS Submissions, FiniteSetsExt

CONSTANTS
  Calls, Drivers, Faults, Unfit, UnfitFilters, Grain, Failure,
  MaxClock,        \* see SqlStore
  Incoming,        \* the requests clients send
  Production,      \* whether APP_ENV is "production"
  Registered,      \* the tenants that registered themselves
  Verdict,         \* Verdict[t][b]: what the validation of tenant t says of body b
  Atoi             \* Atoi[s]: what mustInt and queryInt make of the text s

VARIABLES
  driver, table, orphans, pc, request, reply, receivedAt, clock, failed, known,
  http,            \* the HTTP request each goroutine serves, Nil for none
  response,        \* the response of each, Nil before it is written
  told             \* history: ids answered with 201 before each request came

Store == INSTANCE SqlStore

storeVars == <<driver, table, orphans, pc, request, reply, receivedAt, clock, failed, known>>
vars == <<storeVars, http, response, told>>

(* A request: the protocol its load balancer noted, its route, the segments of
   its path (the filters of a list are parameters of the query), whether the
   query names the software, the token (authentic, and the holding it is
   issued to) and the body.                                                *)
RequestType ==
  [proto: {"", "http", "https"},
   route: {"Create", "GetSubmission", "GetRun", "ListSubmissions"},
   tenant: Tenants, holding: Holdings, year: DOMAIN Atoi, quarter: DOMAIN Atoi,
   run: Runs, id: Ids, software: BOOLEAN,
   authentic: BOOLEAN, client: Holdings, body: Payloads]

ParamsOf(q) ==
  [id |-> q.id, tenant |-> q.tenant, run |-> q.run, holding |-> q.holding,
   year |-> Atoi[q.year], quarter |-> Atoi[q.quarter], payload |-> q.body]

FilterOf(q) ==
  [holding |-> q.holding, year |-> Atoi[q.year], quarter |-> Atoi[q.quarter]]

(* Mutant: the handler writes the errors of the logical validation and goes
   on.                                                                     *)
ChecksOfSchema(q) ==
  LET create == q.route = "Create" IN
  << [holds |-> Production => q.proto # "http", status |-> 400],
     [holds |-> q.authentic, status |-> 401],
     [holds |-> q.route # "ListSubmissions" => q.software, status |-> 400],
     [holds |-> q.route \in {"Create", "ListSubmissions"} => q.holding = q.client,
      status |-> 403],
     [holds |-> create => q.tenant \in Registered, status |-> 404],
     [holds |-> create => Verdict[q.tenant][q.body] \notin {"unreadable", "schema"},
      status |-> 400] >>

(* What a request is checked for, in this order, and the status it is refused
   with: enforceHTTPS, Authenticate, RequireSoftwareParams, and the handler's
   own checks.                                                             *)
Checks(q) ==
  LET create == q.route = "Create" IN
  << [holds |-> Production => q.proto # "http", status |-> 400],
     [holds |-> q.authentic, status |-> 401],
     [holds |-> q.route # "ListSubmissions" => q.software, status |-> 400],
     [holds |-> q.route \in {"Create", "ListSubmissions"} => q.holding = q.client,
      status |-> 403],
     [holds |-> create => q.tenant \in Registered, status |-> 404],
     [holds |-> create => Verdict[q.tenant][q.body] \notin {"unreadable", "schema"},
      status |-> 400],
     [holds |-> create => Verdict[q.tenant][q.body] # "logic", status |-> 422] >>

Failing(q) == {k \in DOMAIN Checks(q) : ~Checks(q)[k].holds}

ASSUME StoreAssumption ==        \* those of SqlStore
  /\ Drivers \subseteq {"postgres", "sqlserver"}
  /\ Unfit \subseteq Params
  /\ UnfitFilters \subseteq Filters
  /\ \A f \in UnfitFilters : \A p \in Params \ Unfit : ~Matches(p, f)
  /\ Grain \in Nat \ {0}
  /\ Failure \notin Records \cup Results \cup Seq(Summaries) /\ Failure # NotFound
  /\ MaxClock \in Nat
ASSUME IncomingAssumption ==
  /\ Incoming \subseteq RequestType
  /\ Nil \notin Incoming
  /\ \A q \in Incoming :
       /\ q.route = "Create" => ParamsOf(q) \in Params
       /\ q.route = "ListSubmissions" => FilterOf(q) \in Filters
ASSUME VerdictAssumption ==
  Verdict \in [Tenants -> [Payloads -> {"ok", "logic", "schema", "unreadable"}]]
(* docs/openapi.yaml: the submission id is a UUID the client makes, so two
   submissions with one id are the same submission.                        *)
ASSUME UuidAssumption ==
  \A p, q \in Incoming :
    /\ p.route = "Create" /\ Failing(p) = {}
    /\ q.route = "Create" /\ Failing(q) = {}
    /\ p.id = q.id
    => p = q

Init ==
  /\ Store!Init
  /\ http = [c \in Calls |-> Nil]
  /\ response = [c \in Calls |-> Nil]
  /\ told = [c \in Calls |-> {}]

Told ==
  {http[c].id : c \in {d \in Calls : /\ response[d] # Nil
                                     /\ response[d].status = 201}}

Arrive(c, q) ==
  /\ http[c] = Nil
  /\ http' = [http EXCEPT ![c] = q]
  /\ told' = [told EXCEPT ![c] = Told]

Write(c, status, data) ==
  response' = [response EXCEPT ![c] = [status |-> status, data |-> data]]

-----------------------------------------------------------------------------
(* RateLimiter.Limit, before all checks but the first. *)
Limited(c, q) ==
  /\ Arrive(c, q)
  /\ Checks(q)[1].holds
  /\ Write(c, 429, Nil)
  /\ UNCHANGED storeVars

(* The first check that fails answers the request. *)
Refuse(c, q) ==
  /\ Arrive(c, q)
  /\ Failing(q) # {}
  /\ Write(c, Checks(q)[Min(Failing(q))].status, Nil)
  /\ UNCHANGED storeVars

Call(c, q) ==
  \/ q.route = "Create" /\ Store!InvokeCreate(c, ParamsOf(q))
  \/ q.route = "GetSubmission" /\ Store!InvokeRead(c, [op |-> "GetByID", id |-> q.id])
  \/ q.route = "GetRun" /\ Store!InvokeRead(c, [op |-> "GetRun", run |-> q.run])
  \/ /\ q.route = "ListSubmissions"
     /\ Store!InvokeRead(c, [op |-> "List", filter |-> FilterOf(q)])

(* Mutant: a route is registered without its middlewares. *)
AdmitUnchecked(c, q) ==
  /\ Arrive(c, q)
  /\ Call(c, q)
  /\ UNCHANGED response

Admit(c, q) ==
  /\ Arrive(c, q)
  /\ Failing(q) = {}
  /\ Call(c, q)
  /\ UNCHANGED response

-----------------------------------------------------------------------------
(* The handler answers what the store returned. *)
Returned(c, route) ==
  /\ pc[c] = "done"
  /\ response[c] = Nil
  /\ http[c].route = route
  /\ UNCHANGED <<storeVars, http, told>>

(* Mutant: the error of the store is not looked at. *)
RespondCreateAlways(c) ==
  /\ Returned(c, "Create")
  /\ Write(c, 201, Store!OwnResult(c))

RespondCreate(c) ==
  /\ Returned(c, "Create")
  /\ \/ reply[c] = Failure /\ Write(c, 500, Nil)
     \/ reply[c] # Failure /\ Write(c, 201, reply[c])

(* Mutant: the holding of the record is compared with that of the path only. *)
RespondSubmissionByPath(c) ==
  /\ Returned(c, "GetSubmission")
  /\ LET r == reply[c] IN
     \/ r \in {NotFound, Failure} /\ Write(c, 404, Nil)
     \/ /\ r \notin {NotFound, Failure}
        /\ \/ r.holding # http[c].holding /\ Write(c, 403, Nil)
           \/ r.holding = http[c].holding /\ Write(c, 200, r)

(* GetSubmission takes any error for an unknown id. *)
RespondSubmission(c) ==
  /\ Returned(c, "GetSubmission")
  /\ LET r == reply[c]
         own == r.holding = http[c].holding /\ r.holding = http[c].client
     IN  \/ r \in {NotFound, Failure} /\ Write(c, 404, Nil)
         \/ r \notin {NotFound, Failure} /\ ~own /\ Write(c, 403, Nil)
         \/ r \notin {NotFound, Failure} /\ own /\ Write(c, 200, r)

RespondRun(c) ==
  /\ Returned(c, "GetRun")
  /\ \/ reply[c] \in {NotFound, Failure} /\ Write(c, 404, Nil)
     \/ reply[c] \notin {NotFound, Failure} /\ Write(c, 200, reply[c])

(* ListSubmissions takes an error for an empty list. *)
RespondList(c) ==
  /\ Returned(c, "ListSubmissions")
  /\ Write(c, 200, IF reply[c] = Failure THEN <<>> ELSE reply[c])

-----------------------------------------------------------------------------
(* Faults: a response that does not reach the client, and a crash of the
   server, which loses the responses that were not written.                *)
Unsent == {c \in Calls : pc[c] = "done" /\ response[c] = Nil}
NoAnswer == [status |-> 0, data |-> Nil]
Lose(C) ==
  response' = [c \in Calls |-> IF c \in C THEN NoAnswer ELSE response[c]]

ResponseLost(c) ==
  /\ Faults
  /\ c \in Unsent
  /\ Lose({c})
  /\ UNCHANGED <<storeVars, http, told>>

ServerCrash ==
  /\ Store!Crash
  /\ Lose(Unsent)
  /\ UNCHANGED <<http, told>>

Over(c) == response[c] # Nil \/ pc[c] = "lost"
Drained == (\A c \in Calls : Over(c)) /\ UNCHANGED vars

StoreStep == Store!Serve /\ UNCHANGED <<http, response, told>>

Step ==
  \/ \E c \in Calls :
       \/ \E q \in Incoming : Limited(c, q) \/ Refuse(c, q) \/ Admit(c, q)
       \/ RespondCreate(c) \/ RespondSubmission(c) \/ RespondRun(c) \/ RespondList(c)
       \/ ResponseLost(c)
  \/ StoreStep
  \/ ServerCrash
  \/ Drained

Next == Step /\ UNCHANGED driver

Spec == Init /\ [][Next]_vars

-----------------------------------------------------------------------------
(* Properties *)

Statuses == {0, 200, 201, 400, 401, 403, 404, 422, 429, 500}

(* The variables have the types the code gives them, and only a request that
   was admitted has called the store.                                      *)
TypeOK ==
  /\ Store!TypeOK
  /\ http \in [Calls -> Incoming \cup {Nil}]
  /\ DOMAIN response = Calls
  /\ \A c \in Calls :
       /\ response[c] # Nil => response[c].status \in Statuses
       /\ pc[c] # "new" => http[c] # Nil /\ Failing(http[c]) = {}
  /\ told \in [Calls -> SUBSET Ids]

(* A row that is stored, or may yet be, came from a request that was not sent
   in plain text, with an authentic token of its holding, for a tenant that
   exists, and with a body both layers of validation passed: what is refused
   leaves no trace, whatever was cut off or is run late.                   *)
StoredWasChecked ==
  \A r \in orphans \cup {table[i] : i \in Store!Stored} :
    /\ r.tenant \in Registered
    /\ Verdict[r.tenant][r.payload] = "ok"
    /\ \E c \in Calls :
         /\ http[c] # Nil
         /\ Production => http[c].proto # "http"
         /\ http[c].authentic
         /\ http[c].client = r.holding
         /\ http[c].id = r.id

(* A client that was answered 201 has its own submission on record: the row
   of the id carries what it sent, however often it sent it, and the receipt
   names the run and the content of the row.                               *)
ReceiptMatchesRecord ==
  \A c \in Calls :
    response[c] # Nil /\ response[c].status = 201 =>
      LET i == http[c].id IN
      /\ table[i] # Nil
      /\ table[i] = Record(ParamsOf(http[c]), table[i].at)
      /\ response[c].data = [Result(table[i]) EXCEPT !.at = response[c].data.at]

(* A submission is shown in full to the client of its holding and to nobody
   else, in a path of that holding.                                        *)
ShownToItsHolding ==
  \A c \in Calls :
    response[c] # Nil /\ response[c].status = 200 /\ http[c].route = "GetSubmission" =>
      /\ response[c].data.id = http[c].id
      /\ response[c].data.holding = http[c].client
      /\ response[c].data.holding = http[c].holding

(* A submission whose client was told that it was received is not denied
   later: neither by "Submission ... not found." (submissions.go:114) nor by
   a list that is 200 and lacks it.                                        *)
ReceivedIsNotDenied ==
  \A c \in Calls : \A i \in told[c] :
    response[c] # Nil =>
      /\ http[c].route = "GetSubmission" /\ response[c].status = 404 => http[c].id # i
      /\ /\ http[c].route = "ListSubmissions"
         /\ response[c].status = 200
         /\ Matches(table[i], FilterOf(http[c]))
         => \E k \in DOMAIN response[c].data : response[c].data[k].id = i

(* A submission whose client was told that it was received is in every later
   answer that selects it, whatever was cut off, repeated or run late, unless
   the store failed that very request: the handlers lose nothing else.     *)
ReceivedIsShown ==
  \A c \in Calls \ failed : \A i \in told[c] :
    LET q == http[c]
        a == response[c]
    IN  a # Nil =>
          /\ q.route = "GetSubmission" /\ q.id = i => a.status # 404
          /\ q.route = "GetRun" /\ q.run = table[i].run =>
               a.status # 404 /\ (a.status = 200 => Store!Lists(a.data, i))
          /\ q.route = "ListSubmissions" /\ Matches(table[i], FilterOf(q)) =>
               (a.status = 200 => Store!Lists(a.data, i))

(* The quarter of the path is from 1 to 4 (docs/openapi.yaml:238). *)
StoredQuarterExists ==
  \A i \in Store!Stored : table[i].quarter \in 1 .. 4
=============================================================================
