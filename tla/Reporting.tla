----------------------------- MODULE Reporting -----------------------------
(***************************************************************************)
(* A client that prepares a return with the lookups and sends it: it asks  *)
(* for the periods and the occupation codes, fills in a return with what   *)
(* it was offered or with anything else, posts it, and mends what the      *)
(* errors name.  Time passes in between.                                   *)
(*                                                                         *)
(* Of handlers.Create only what depends on the body is here, the two       *)
(* layers of validation; the rest of the handler is SubmissionApi.         *)
(***************************************************************************)
EXTENDS Ehecs, Periods, FiniteSets

CONSTANTS
  Returns,         \* the bodies clients make up
  Template,        \* a return that is as it should be
  Registered,      \* the tenants of the registry
  Providers,       \* those that implement LookupProvider
  Starts,          \* the months a history begins in
  Span             \* bound on the months that pass, for model checking

ASSUME ReturnsAssumption == Returns \subseteq SubmissionBody
ASSUME TemplateAssumption == Template \in SubmissionBody /\ ValidateSchema(Template) = {}
ASSUME StartsAssumption ==
  /\ Span \in Nat
  /\ \A m \in Starts : m \in Int /\ m >= 12 * 2009 /\ m + Span < 12 * 2100
ASSUME ProvidersAssumption == Providers \subseteq Registered

VARIABLES
  today,           \* the month of time.Now()
  until,           \* the last month of this history
  asked,           \* when the client last asked for the periods, 0 for never
  offered,         \* the periods it was given
  lookup,          \* the answer to its last lookup: the status and the codes
  form,            \* the return it sent last
  outcome          \* the answer: the status, the errors and the warnings

vars == <<today, until, asked, offered, lookup, form, outcome>>

Init ==
  /\ today \in Starts
  /\ until = today + Span
  /\ asked = 0
  /\ offered = <<>>
  /\ lookup = [status |-> 0, codes |-> {}]
  /\ form = Template
  /\ outcome = [status |-> 0, errors |-> {}, warnings |-> {}]

Tick ==
  /\ today < until
  /\ today' = today + 1
  /\ UNCHANGED <<until, asked, offered, lookup, form, outcome>>

GetPeriods ==
  /\ asked' = today
  /\ offered' = PeriodsAt(today)
  /\ UNCHANGED <<today, until, lookup, form, outcome>>

(* GetLookup, and Lookup of EHECS, the only provider there is: the schema
   version has no codes, other names are unknown.                          *)
GetLookup(t, name, search) ==
  /\ lookup' =
       IF t \in Registered /\ t \in Providers /\ name \in {"occupation-codes", "schema-version"}
       THEN [status |-> 200,
             codes |-> IF name = "occupation-codes" THEN OccupationCodes(search) ELSE {}]
       ELSE [status |-> 404, codes |-> {}]
  /\ UNCHANGED <<today, until, asked, offered, form, outcome>>

Post(b) ==
  /\ form' = b
  /\ outcome' = Validated(b)
  /\ UNCHANGED <<today, until, asked, offered, lookup>>

(* A return for a period and with an occupation the server offered. *)
Filled(p, c) ==
  [Template EXCEPT !.taxYear = p.taxYear, !.quarter = p.quarter,
                   !.employees = <<[Template.employees[1] EXCEPT !.occupationCode = c]>>]

PostOffered ==
  \E k \in DOMAIN offered : \E c \in lookup.codes : Post(Filled(offered[k], c))

(* The client mends every field an error names, and no other. *)
Named(i, f, errors) == \E x \in errors : x.at = i /\ x.field = f

MendedEmployee(e, i, errors) ==
  LET by(f) == CHOOSE x \in errors : x.at = i /\ x.field = f
      value(f) ==
        CASE by(f).code = "OVERTIME_INCONSISTENCY" -> 1
          [] by(f).code = "EARNINGS_INCONSISTENCY" -> e.overtimePay
          [] by(f).code = "HOURS_EXCEEDED" -> BasicHoursQuarterlyCap
          [] OTHER -> Template.employees[1][f]
  IN  [f \in DOMAIN e |-> IF Named(i, f, errors) THEN value(f) ELSE e[f]]

Mended(b, errors) ==
  [f \in DOMAIN b |->
     IF Named(0, f, errors) THEN Template[f]
     ELSE IF f = "employees"
          THEN [i \in DOMAIN b.employees |-> MendedEmployee(b.employees[i], i, errors)]
          ELSE b[f]]

Correct ==
  /\ outcome.status \in {400, 422}
  /\ form.parses
  /\ Post(Mended(form, outcome.errors))

Next ==
  \/ Tick
  \/ GetPeriods
  \/ \E t \in Registered \cup {"unregistered"}, s \in Searches,
        name \in {"occupation-codes", "schema-version", "other"} : GetLookup(t, name, s)
  \/ \E b \in Returns : Post(b)
  \/ PostOffered
  \/ Correct

Spec == Init /\ [][Next]_vars

-----------------------------------------------------------------------------
(* Properties *)

(* The variables have the types the code gives them. *)
TypeOK ==
  /\ today \in Int /\ until \in Int /\ asked \in 0 .. today
  /\ offered \in Seq([taxYear : Int, quarter : 1 .. 4])
  /\ lookup \in [status : {0, 200, 404}, codes : SUBSET occupationCodes]
  /\ form \in SubmissionBody
  /\ outcome.status \in {0, 201, 400, 422}
  /\ outcome.status = 201 => outcome.errors = {}

(* What README.md:177-179 says of a return that is accepted: the layer that
   judges the overtime asks only whether the hours are 0, the layer before
   it whether they are negative, and neither looks at what the other left. *)
MeetsRules(e) ==
  /\ e.ppsn = "formed"
  /\ e.occupationCode \in 1 .. 9
  /\ e.employmentType \in EmploymentTypes
  /\ e.overtimePay > 0 => e.overtimeHours > 0
  /\ e.grossEarnings >= e.overtimePay
  /\ e.basicHours \in 0 .. 2184
AcceptedMeetsRules ==
  outcome.status = 201 =>
    /\ ItemCount(form) >= 1
    /\ form.quarter \in 1 .. 4
    /\ \A i \in DOMAIN form.employees : MeetsRules(form.employees[i])

(* The periods offered are the quarter of the month they were asked for in
   and the four before it, newest first, over the turn of a year too; each
   has its deadline in the month after its last one.  Quarter and deadline
   are compared with a count of the months that knows no years.            *)
PeriodsAreRecent ==
  asked # 0 =>
    /\ Len(offered) = 5
    /\ \A k \in DOMAIN offered :
         LET p == offered[k]
             n == asked \div 3 - (k - 1)
         IN  /\ 4 * p.taxYear + p.quarter - 1 = n
             /\ Deadline(p).month \in 1 .. 12
             /\ 12 * Deadline(p).year + Deadline(p).month - 1 = 3 * (n + 1)

(* No error is about a period or an occupation the server itself offered:
   the lookups and the validation keep their own tables, in three files.   *)
OfferedIsAccepted ==
  \A x \in outcome.errors :
    /\ x.field = "taxYear" => \A k \in DOMAIN offered : offered[k].taxYear # form.taxYear
    /\ x.field = "quarter" => \A k \in DOMAIN offered : offered[k].quarter # form.quarter
    /\ x.field = "occupationCode" => form.employees[x.at].occupationCode \notin lookup.codes

(* The errors say everything: a client that mends what they name gets past
   the layer that named it, is refused once more at the most, and then by
   the other layer.                                                        *)
CorrectedIsAccepted ==
  [][Correct => /\ outcome'.status # 400
                /\ outcome.status = 422 => outcome'.status = 201]_vars

(* "all numeric fields >= 0" (README.md:177). *)
NumbersAreNotNegative ==
  outcome.status = 201 =>
    \A i \in DOMAIN form.employees : \A f \in Checked \cup Unchecked : form.employees[i][f] >= 0
=============================================================================
