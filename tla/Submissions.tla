----------------------------- MODULE Submissions -----------------------------
(***************************************************************************)
(* The data the stores of internal/services keep and exchange: what a      *)
(* caller passes to Create (services.CreateParams), what is stored         *)
(* (models.SubmissionRecord), what the reads return (SubmissionSummary) and *)
(* what Create answers (CreateResult).                                     *)
(*                                                                         *)
(* A payload is one opaque value.  It stands for every field the stores    *)
(* copy and never look at: ReturnType, Body, ItemCount, Warnings, the      *)
(* software identity, the contact fields and the comments.  The status is  *)
(* left out: every record is "RECEIVED" and no code changes it.            *)
(***************************************************************************)
EXTENDS Integers, Sequences, FiniteSets

CONSTANTS
  Ids,        \* submission ids: the primary key, chosen by the clients
  Runs,       \* run references, chosen by the clients
  Holdings,   \* holding numbers
  Tenants,    \* tenant ids
  Payloads,   \* everything the stores copy without looking at it
  Params,     \* the CreateParams the clients send
  Filters,    \* the holding/taxYear/quarter combinations the clients list
  Nil,        \* no value
  NotFound    \* services.ErrNotFound

(* services.CreateParams.  taxYear and quarter are Atoi of a path segment
   and no layer checks them, so any integer is possible.                   *)
ParamsType ==
  [id: Ids, tenant: Tenants, run: Runs, holding: Holdings,
   year: Int, quarter: Int, payload: Payloads]

(* models.SubmissionRecord. *)
Records ==
  [id: Ids, tenant: Tenants, run: Runs, holding: Holdings,
   year: Int, quarter: Int, payload: Payloads, at: Nat]

(* The record built from the parameters p of a Create call at time t. *)
Record(p, t) ==
  [id |-> p.id, tenant |-> p.tenant, run |-> p.run, holding |-> p.holding,
   year |-> p.year, quarter |-> p.quarter, payload |-> p.payload, at |-> t]

(* models.SubmissionSummary: what GetRun and List say of a record. *)
Summary(r) ==
  [id |-> r.id, tenant |-> r.tenant, run |-> r.run,
   year |-> r.year, quarter |-> r.quarter, payload |-> r.payload, at |-> r.at]

(* services.CreateResult, of a record. *)
Result(r) ==
  [id |-> r.id, run |-> r.run, payload |-> r.payload, at |-> r.at]

(* The filter of List: a year or a quarter that is not positive filters
   nothing.                                                                *)
Matches(r, f) ==
  /\ r.holding = f.holding
  /\ f.year > 0 => r.year = f.year
  /\ f.quarter > 0 => r.quarter = f.quarter

(* The order List promises: sort.Slice with ReceivedAt.After. *)
NewestFirst(s) ==
  \A i, j \in DOMAIN s : i < j => s[i].at >= s[j].at

(* The calls of the SubmissionStore interface. *)
Creates == [op: {"Create"}, params: Params]
Reads ==
  [op: {"GetByID"}, id: Ids]
    \cup [op: {"GetRun"}, run: Runs]
    \cup [op: {"List"}, filter: Filters]
Requests == Creates \cup Reads

(* What each of them returns. *)
Results == [id: Ids, run: Runs, payload: Payloads, at: Nat]
Summaries ==
  [id: Ids, tenant: Tenants, run: Runs, year: Int, quarter: Int,
   payload: Payloads, at: Nat]
Answers(r) ==
  CASE r.op = "Create"  -> Results
    [] r.op = "GetByID" -> Records \cup {NotFound}
    [] r.op = "GetRun"  -> Seq(Summaries) \cup {NotFound}
    [] r.op = "List"    -> Seq(Summaries)

ASSUME ParamsAssumption == Params \subseteq ParamsType
ASSUME FiltersAssumption ==
  Filters \subseteq [holding: Holdings, year: Int, quarter: Int]
ASSUME NilAssumption == Nil \notin Records /\ Nil \notin Requests
ASSUME NotFoundAssumption == NotFound \notin Records \cup Seq(Summaries)
ASSUME IdsAssumption == IsFiniteSet(Ids)
=============================================================================
