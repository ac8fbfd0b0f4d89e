---------------------------- MODULE MCReporting ----------------------------
(* Reporting on a small instance: returns whose employee differs from a good
   one in one field, or in two that a check relates, at the boundaries, and returns
   with two such employees or a bad header; histories around the turn of a
   year and at both ends of the years the schema admits.                    *)
EXTENDS Reporting, TLC

MCSearches == {"", "manag", "4"}
MCLabelsWith == ("" :> occupationCodes) @@ ("manag" :> {1}) @@ ("4" :> {})
MCCodeOf == ("" :> 0) @@ ("manag" :> 0) @@ ("4" :> 4)
MCRegistered == {"ehecs", "stub"}
MCProviders == {"ehecs"}
MCStarts == {12 * 2009, 12 * 2026 + 11, 12 * 2099 + 9}

GoodEmployee ==
  [ppsn |-> "formed", employmentId |-> "given", occupationCode |-> 4,
   employmentType |-> "FULL_TIME", grossEarnings |-> 2, basicPay |-> 1,
   basicHours |-> 520, overtimePay |-> 1, overtimeHours |-> 1, employerPRSI |-> 1,
   bonuses |-> 0, allowances |-> 0, shiftPremiums |-> 0, otherSubsidies |-> 0]
MCTemplate ==
  [parses |-> TRUE, holdingNumber |-> "given", taxYear |-> 2026, quarter |-> 1,
   returnType |-> "ORIGINAL", employees |-> <<GoodEmployee>>]

Boundaries ==
  [ppsn : {"malformed"}] \cup [employmentId : {"blank"}]
    \cup [occupationCode : {0, 1, 9, 10}] \cup [employmentType : {"unknown", "PART_TIME"}]
    \cup [grossEarnings : {-1, 0, 1}] \cup [basicPay : {-1}]
    \cup [basicHours : {-1, 0, 2184, 2185}] \cup [overtimePay : {-1, 0, 3}]
    \cup [overtimeHours : {-1, 0}] \cup [employerPRSI : {-1, 0}] \cup [bonuses : {-1}]

Odd(c) == c @@ GoodEmployee
Odd2(c, d) == c @@ d @@ GoodEmployee

With(s) == [MCTemplate EXCEPT !.employees = s]

(* The fields two checks relate. *)
Related ==
  [grossEarnings : {-1, 0, 1}] \cup [overtimePay : {-1, 0, 3}]
    \cup [overtimeHours : {-1, 0}] \cup [basicHours : {2185}]

MCReturns ==
  {With(<<Odd(c)>>) : c \in Boundaries}
    \cup {With(<<Odd2(c, d)>>) : c, d \in Related}
    \cup {With(<<Odd([overtimeHours |-> 0]), Odd(c)>>) : c \in Boundaries}
    \cup {With(<<Odd([ppsn |-> "malformed"]), Odd(c)>>) : c \in Boundaries}
    \cup {With(<<>>), [With(<<>>) EXCEPT !.quarter = 5], [MCTemplate EXCEPT !.parses = FALSE],
          [MCTemplate EXCEPT !.holdingNumber = "blank"]}
    \cup {[MCTemplate EXCEPT !.taxYear = y] : y \in {2007, 2008, 2099, 2100}}
    \cup {[MCTemplate EXCEPT !.quarter = q] : q \in {0, 4, 5}}
    \cup {[MCTemplate EXCEPT !.returnType = t] : t \in {"", "unknown"}}
=============================================================================
