------------------------------- MODULE Ehecs -------------------------------
(***************************************************************************)
(* The tenant of package ehecs: the two layers of validation of a return   *)
(* and the occupation codes it offers.                                     *)
(*                                                                         *)
(* Texts are reduced to what the checks tell apart: whether a PPSN matches *)
(* ppsnRegex, whether an identifier is blank.  Numbers are compared with 0, *)
(* with each other and with the cap, never added, so integers stand for    *)
(* the float64 of the source (JSON has neither NaN nor infinities).        *)
(***************************************************************************)
EXTENDS Integers, Sequences

EmploymentTypes == {"FULL_TIME", "PART_TIME", "TRAINEE", "APPRENTICE", "OTHER"}
BasicHoursQuarterlyCap == 2184

(* Mutant: the ninth occupation is left out. *)
OccupationsUpToEight == 1 .. 8
ValidOccupations == 1 .. 9

(* Mutant: the hours of overtime are left out. *)
CheckedWithoutHours == {"grossEarnings", "basicPay", "basicHours", "overtimePay", "employerPRSI"}

(* The numbers ValidateSchema looks at, and those it does not. *)
Checked ==
  {"grossEarnings", "basicPay", "basicHours", "overtimePay", "overtimeHours",
   "employerPRSI"}
Unchecked == {"bonuses", "allowances", "shiftPremiums", "otherSubsidies"}

Employee ==
  [ppsn: {"formed", "malformed"}, employmentId: {"given", "blank"},
   occupationCode: Int, employmentType: EmploymentTypes \cup {"unknown"},
   grossEarnings: Int, basicPay: Int, basicHours: Int, overtimePay: Int,
   overtimeHours: Int, employerPRSI: Int,
   bonuses: Int, allowances: Int, shiftPremiums: Int, otherSubsidies: Int]

(* SubmissionBody.  A body that is not JSON of this shape does not parse. *)
SubmissionBody ==
  [parses: BOOLEAN, holdingNumber: {"given", "blank"}, taxYear: Int, quarter: Int,
   returnType: {"", "ORIGINAL", "AMENDED", "unknown"}, employees: Seq(Employee)]

(* An error names a field, of employee number at or, for 0, of the return. *)
Unless(holds, code, at, field) ==
  IF holds THEN {} ELSE {[code |-> code, at |-> at, field |-> field]}

InvalidJSON == [code |-> "INVALID_JSON", at |-> 0, field |-> ""]

-----------------------------------------------------------------------------
(* ValidateSchema. *)

HeaderErrors(b) ==
  Unless(b.holdingNumber # "blank", "REQUIRED", 0, "holdingNumber")
  \cup Unless(b.taxYear \in 2008 .. 2099, "INVALID_VALUE", 0, "taxYear")
  \cup Unless(b.quarter \in 1 .. 4, "INVALID_VALUE", 0, "quarter")
  \cup Unless(b.returnType \in {"", "ORIGINAL", "AMENDED"}, "INVALID_VALUE", 0, "returnType")
  \cup Unless(b.employees # <<>>, "REQUIRED", 0, "employees")

FieldErrors(e, i) ==
  Unless(e.ppsn = "formed", "INVALID_FORMAT", i, "ppsn")
  \cup Unless(e.employmentId # "blank", "REQUIRED", i, "employmentId")
  \cup Unless(e.occupationCode \in ValidOccupations, "INVALID_VALUE", i, "occupationCode")
  \cup Unless(e.employmentType \in EmploymentTypes, "INVALID_VALUE", i, "employmentType")
  \cup UNION {Unless(e[f] >= 0, "INVALID_VALUE", i, f) : f \in Checked}

(* Mutant: the check of the employees ends with the first that fails. *)
ValidateSchemaToFirst(b) ==
  LET faulty == {i \in DOMAIN b.employees : FieldErrors(b.employees[i], i) # {}} IN
  IF ~b.parses THEN {InvalidJSON}
  ELSE HeaderErrors(b)
         \cup UNION {FieldErrors(b.employees[i], i) :
                       i \in {j \in faulty : \A k \in faulty : j <= k}}

ValidateSchema(b) ==
  IF ~b.parses THEN {InvalidJSON}
  ELSE HeaderErrors(b) \cup UNION {FieldErrors(b.employees[i], i) : i \in DOMAIN b.employees}

-----------------------------------------------------------------------------
(* ValidateLogic.  "Overtime without hours" is pay > 0 and hours = 0: that the
   hours are not negative is left to ValidateSchema.                       *)
RuleErrors(e, i) ==
  Unless(e.overtimePay > 0 => e.overtimeHours # 0, "OVERTIME_INCONSISTENCY", i, "overtimeHours")
  \cup Unless(e.grossEarnings >= e.overtimePay, "EARNINGS_INCONSISTENCY", i, "grossEarnings")
  \cup Unless(e.basicHours <= BasicHoursQuarterlyCap, "HOURS_EXCEEDED", i, "basicHours")

RuleWarnings(e, i) ==
  Unless(e.grossEarnings # 0, "ZERO_EARNINGS", i, "grossEarnings")
  \cup Unless(e.employerPRSI = 0 => e.employmentType # "FULL_TIME",
              "ZERO_PRSI_FULL_TIME", i, "employerPRSI")

ValidateLogic(b) ==
  IF ~b.parses
  THEN [errors |-> {InvalidJSON}, warnings |-> {}]
  ELSE [errors |-> UNION {RuleErrors(b.employees[i], i) : i \in DOMAIN b.employees},
        warnings |-> UNION {RuleWarnings(b.employees[i], i) : i \in DOMAIN b.employees}]

ItemCount(b) == IF b.parses THEN Len(b.employees) ELSE 0

(* What handlers.Create makes of a body with the two layers: an error of the
   first keeps it from the second.                                         *)
Validated(b) ==
  LET schema == ValidateSchema(b)
      logic == ValidateLogic(b)
  IN  IF schema # {}
      THEN [status |-> 400, errors |-> schema, warnings |-> {}]
      ELSE [status |-> IF logic.errors # {} THEN 422 ELSE 201,
            errors |-> logic.errors, warnings |-> logic.warnings]

(* ... in the words of SubmissionApi. *)
VerdictOn(b) ==
  CASE Validated(b).status = 400 -> "schema"
    [] Validated(b).status = 422 -> "logic"
    [] Validated(b).status = 201 -> "ok"

-----------------------------------------------------------------------------
(* Lookup of "occupation-codes": all codes, or those whose label has the text
   searched for or whose number is that text.                              *)
CONSTANTS
  Searches,        \* the texts clients search for, "" for no search
  LabelsWith,      \* LabelsWith[s]: the codes whose label contains s
  CodeOf           \* CodeOf[s]: the code written s, 0 if s is no number

occupationCodes == 1 .. 9

ASSUME SearchAssumption ==
  /\ LabelsWith \in [Searches -> SUBSET occupationCodes]
  /\ CodeOf \in [Searches -> Int]

(* Mutant: the number searched for is not looked up. *)
OccupationCodesOrNumber(search) ==
  IF search = "" THEN occupationCodes ELSE LabelsWith[search] \cup {CodeOf[search]}

OccupationCodes(search) ==
  IF search = "" THEN occupationCodes
  ELSE {c \in occupationCodes : c \in LabelsWith[search] \/ c = CodeOf[search]}
=============================================================================
