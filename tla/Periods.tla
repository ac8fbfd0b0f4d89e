------------------------------ MODULE Periods ------------------------------
(***************************************************************************)
(* The reporting periods of handlers.GetPeriods.  A month is counted from  *)
(* the beginning of year 0: month 12 * y is the January of year y.         *)
(***************************************************************************)
EXTENDS Integers, Sequences

YearOf(month) == month \div 12
MonthOf(month) == (month % 12) + 1

(* currentYear and currentQ. *)
Current(month) ==
  [taxYear |-> YearOf(month), quarter |-> ((MonthOf(month) - 1) \div 3) + 1]

(* Mutant: the year does not change with the quarter. *)
PreviousOfYear(p) ==
  IF p.quarter - 1 < 1
  THEN [taxYear |-> p.taxYear, quarter |-> 4]
  ELSE [taxYear |-> p.taxYear, quarter |-> p.quarter - 1]

(* q--, and the fourth quarter of the year before if there is none left. *)
Previous(p) ==
  IF p.quarter - 1 < 1
  THEN [taxYear |-> p.taxYear - 1, quarter |-> 4]
  ELSE [taxYear |-> p.taxYear, quarter |-> p.quarter - 1]

(* time.Date takes any month and carries what exceeds 12 into the year. *)
Date(year, month, day) ==
  [year |-> year + ((month - 1) \div 12), month |-> ((month - 1) % 12) + 1, day |-> day]

Deadline(p) == Date(p.taxYear, p.quarter * 3 + 1, 14)

(* The loop of GetPeriods, which always runs five times. *)
PeriodsAt(month) ==
  LET p1 == Current(month)
      p2 == Previous(p1)
      p3 == Previous(p2)
      p4 == Previous(p3)
      p5 == Previous(p4)
  IN <<p1, p2, p3, p4, p5>>
=============================================================================
