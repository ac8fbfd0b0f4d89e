--------------------------- MODULE MCSubmissionApi ---------------------------
(* SubmissionApi on a small instance: a client of h1 with one good submission,
   one whose path has no quarter, and bad ones, and a list whose quarter no
   INTEGER holds (2147483647, TLC's largest, stands for it); a client of h2
   that looks at what is not its own.                                       *)
EXTENDS SubmissionApi, TLC

CONSTANTS c1, c2, c3, i1, i2, r1, h1, h2, survey, other, good, bad, wrong

MCIds == {i1, i2}
MCRuns == {r1}
MCHoldings == {h1, h2}
MCTenants == {survey, other}
MCPayloads == {good, bad, wrong}
MCRegistered == {survey}

(* The tenant is that of Ehecs: a good return, one with a bad quarter and one
   with overtime pay for no hours.                                         *)
Validation == INSTANCE Ehecs WITH Searches <- {}, LabelsWith <- <<>>, CodeOf <- <<>>

Return ==
  [parses |-> TRUE, holdingNumber |-> "given", taxYear |-> 2026, quarter |-> 1,
   returnType |-> "", employees |-> <<
     [ppsn |-> "formed", employmentId |-> "given", occupationCode |-> 1,
      employmentType |-> "TRAINEE", grossEarnings |-> 2, basicPay |-> 1,
      basicHours |-> 40, overtimePay |-> 1, overtimeHours |-> 1, employerPRSI |-> 0,
      bonuses |-> 0, allowances |-> 0, shiftPremiums |-> 0, otherSubsidies |-> 0]>>]

Verdicts ==
  (good :> Validation!VerdictOn(Return))
    @@ (bad :> Validation!VerdictOn([Return EXCEPT !.quarter = 5]))
    @@ (wrong :> Validation!VerdictOn([Return EXCEPT !.employees[1].overtimeHours = 0]))
MCVerdict == [t \in MCTenants |-> Verdicts]
MCAtoi ==
  ("2026" :> 2026) @@ ("1" :> 1) @@ ("Q1" :> 0) @@ ("" :> 0) @@ ("99999999999" :> 2147483647)
MCDrivers == {"postgres", "sqlserver"}
MCPostgres == {"postgres"}
MCTwoCalls == {c1, c2}
MCThreeCalls == {c1, c2, c3}

Post ==
  [proto |-> "", route |-> "Create", tenant |-> survey, holding |-> h1, year |-> "2026",
   quarter |-> "1", run |-> r1, id |-> i1, software |-> TRUE,
   authentic |-> TRUE, client |-> h1, body |-> good]
PostOddQuarter == [Post EXCEPT !.id = i2, !.quarter = "Q1"]
Get == [Post EXCEPT !.route = "GetSubmission"]
GetRunOf == [Post EXCEPT !.route = "GetRun"]
ListAll == [Post EXCEPT !.route = "ListSubmissions", !.year = "", !.quarter = ""]
ListTooLarge == [ListAll EXCEPT !.quarter = "99999999999"]

MCIncoming ==
  {Post, Get, GetRunOf, ListAll, ListTooLarge,
   [Post EXCEPT !.proto = "http"],
   [Post EXCEPT !.authentic = FALSE],
   [Post EXCEPT !.software = FALSE],
   [Post EXCEPT !.client = h2],
   [Post EXCEPT !.tenant = other],
   [Post EXCEPT !.body = bad],
   [Post EXCEPT !.body = wrong, !.id = i2],
   [Get EXCEPT !.client = h2]}

MCOddIncoming == MCIncoming \cup {PostOddQuarter}

MCParams == {ParamsOf(q) : q \in {p \in MCOddIncoming : p.route = "Create"}}
MCFilters == {FilterOf(ListAll), FilterOf(ListTooLarge)}
MCUnfit == {}
MCUnfitFilters == {FilterOf(ListTooLarge)}
=============================================================================
