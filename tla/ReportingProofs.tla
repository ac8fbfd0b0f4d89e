---------------------------- MODULE ReportingProofs ----------------------------
(***************************************************************************)
(* Proofs about Reporting: the calendar of the reporting periods for every *)
(* month, and the two layers of validation for every return.               *)
(***************************************************************************)
EXTENDS Reporting, TLAPS

(* A quarter by the number of quarters since the beginning of year 0. *)
Period == [taxYear : Int, quarter : 1 .. 4]
Index(p) == 4 * p.taxYear + p.quarter - 1

-----------------------------------------------------------------------------
(* The calendar. *)

LEMMA CurrentFacts ==
  ASSUME NEW m \in Nat
  PROVE  Current(m) \in Period /\ Index(Current(m)) = m \div 3
<1>1. /\ m \div 12 \in Nat /\ m % 12 \in 0 .. 11
      /\ m = 12 * (m \div 12) + (m % 12)
  BY SMTT(30)
<1> DEFINE y == m \div 12
           r == m % 12
<1>2. Current(m) = [taxYear |-> y, quarter |-> (r \div 3) + 1]
  BY <1>1 DEF Current, YearOf, MonthOf
<1>3. r \div 3 \in 0 .. 3
  BY <1>1
<1>4. m \div 3 = 4 * y + (r \div 3)
  BY <1>1
<1> HIDE DEF y, r
<1> QED BY <1>1, <1>2, <1>3, <1>4 DEF Period, Index, y, r

LEMMA PreviousFacts ==
  ASSUME NEW p \in Period
  PROVE  Previous(p) \in Period /\ Index(Previous(p)) = Index(p) - 1
BY DEF Previous, Period, Index

LEMMA DeadlineFacts ==
  ASSUME NEW p \in Period
  PROVE  /\ Deadline(p).month \in 1 .. 12
         /\ 12 * Deadline(p).year + Deadline(p).month - 1 = 3 * (Index(p) + 1)
<1>1. p.taxYear \in Int /\ p.quarter \in {1, 2, 3, 4}
  BY DEF Period
<1>2. /\ Deadline(p).year = p.taxYear + ((p.quarter * 3) \div 12)
      /\ Deadline(p).month = ((p.quarter * 3) % 12) + 1
  BY <1>1 DEF Deadline, Date
<1>3. CASE p.quarter = 1
  BY <1>1, <1>2, <1>3 DEF Index
<1>4. CASE p.quarter = 2
  BY <1>1, <1>2, <1>4 DEF Index
<1>5. CASE p.quarter = 3
  BY <1>1, <1>2, <1>5 DEF Index
<1>6. CASE p.quarter = 4
  BY <1>1, <1>2, <1>6 DEF Index
<1> QED BY <1>1, <1>3, <1>4, <1>5, <1>6

(* The five periods are the quarter of the month and those before it. *)
LEMMA PeriodsFacts ==
  ASSUME NEW m \in Nat
  PROVE  /\ PeriodsAt(m) \in Seq(Period)
         /\ Len(PeriodsAt(m)) = 5 /\ DOMAIN PeriodsAt(m) = 1 .. 5
         /\ \A k \in 1 .. 5 : /\ PeriodsAt(m)[k] \in Period
                              /\ Index(PeriodsAt(m)[k]) = m \div 3 - (k - 1)
<1> DEFINE p1 == Current(m)
           p2 == Previous(p1)
           p3 == Previous(p2)
           p4 == Previous(p3)
           p5 == Previous(p4)
           n == m \div 3
<1>1. n \in Int /\ PeriodsAt(m) = <<p1, p2, p3, p4, p5>>
  BY DEF PeriodsAt
<1>2. p1 \in Period /\ Index(p1) = n
  BY CurrentFacts
<1> HIDE DEF p1, n
<1>3. p2 \in Period /\ Index(p2) = n - 1
  BY <1>1, <1>2, PreviousFacts
<1> HIDE DEF p2
<1>4. p3 \in Period /\ Index(p3) = n - 2
  BY <1>1, <1>3, PreviousFacts
<1> HIDE DEF p3
<1>5. p4 \in Period /\ Index(p4) = n - 3
  BY <1>1, <1>4, PreviousFacts
<1> HIDE DEF p4
<1>6. p5 \in Period /\ Index(p5) = n - 4
  BY <1>1, <1>5, PreviousFacts
<1> HIDE DEF p5
<1>7. \A k \in 1 .. 5 : /\ PeriodsAt(m)[k] \in Period
                        /\ Index(PeriodsAt(m)[k]) = n - (k - 1)
  BY <1>1, <1>2, <1>3, <1>4, <1>5, <1>6
<1> QED BY <1>1, <1>2, <1>3, <1>4, <1>5, <1>6, <1>7 DEF n

-----------------------------------------------------------------------------
(* The two layers of validation. *)

(* The errors of the second layer name the field their rule is about. *)
Fits(x) ==
  /\ x.code = "OVERTIME_INCONSISTENCY" => x.field = "overtimeHours"
  /\ x.code = "EARNINGS_INCONSISTENCY" => x.field = "grossEarnings"
  /\ x.code = "HOURS_EXCEEDED" => x.field = "basicHours"

(* The errors of the header, one set for each field. *)
HolderErrors(b) == Unless(b.holdingNumber # "blank", "REQUIRED", 0, "holdingNumber")
YearErrors(b) == Unless(b.taxYear \in 2008 .. 2099, "INVALID_VALUE", 0, "taxYear")
QuarterErrors(b) == Unless(b.quarter \in 1 .. 4, "INVALID_VALUE", 0, "quarter")
TypeErrors(b) ==
  Unless(b.returnType \in {"", "ORIGINAL", "AMENDED"}, "INVALID_VALUE", 0, "returnType")
EmptyErrors(b) == Unless(b.employees # <<>>, "REQUIRED", 0, "employees")

LEMMA HeaderFacts ==
  ASSUME NEW b
  PROVE  HeaderErrors(b) = HolderErrors(b) \cup YearErrors(b) \cup QuarterErrors(b)
                             \cup TypeErrors(b) \cup EmptyErrors(b)
BY DEF HeaderErrors, HolderErrors, YearErrors, QuarterErrors, TypeErrors, EmptyErrors

LEMMA HeaderErrorFacts ==
  ASSUME NEW b, NEW x \in HeaderErrors(b)
  PROVE  /\ x.code \in {"REQUIRED", "INVALID_VALUE"}
         /\ x.field = "taxYear" => b.taxYear \notin 2008 .. 2099
         /\ x.field = "quarter" => b.quarter \notin 1 .. 4
         /\ x.field # "occupationCode"
<1>1. CASE x \in HolderErrors(b)
  BY <1>1 DEF HolderErrors, Unless
<1>2. CASE x \in YearErrors(b)
  BY <1>2 DEF YearErrors, Unless
<1>3. CASE x \in QuarterErrors(b)
  BY <1>3 DEF QuarterErrors, Unless
<1>4. CASE x \in TypeErrors(b)
  <2>1. x = [code |-> "INVALID_VALUE", at |-> 0, field |-> "returnType"]
    BY <1>4 DEF TypeErrors, Unless
  <2> QED BY <2>1
<1>5. CASE x \in EmptyErrors(b)
  BY <1>5 DEF EmptyErrors, Unless
<1> QED BY <1>1, <1>2, <1>3, <1>4, <1>5, HeaderFacts

LEMMA ErrorsFit ==
  ASSUME NEW b
  PROVE  \A x \in Validated(b).errors : Fits(x)
<1>1. \A x \in HeaderErrors(b) : Fits(x)
  BY HeaderErrorFacts DEF Fits
<1>2. \A e, i : \A x \in FieldErrors(e, i) : Fits(x)
  BY DEF FieldErrors, Unless, Fits
<1>3. \A e, i : \A x \in RuleErrors(e, i) : Fits(x)
  BY DEF RuleErrors, Unless, Fits
<1>4. Fits(InvalidJSON)
  BY DEF InvalidJSON, Fits
<1>5. \A x \in ValidateSchema(b) : Fits(x)
  BY <1>1, <1>2, <1>4 DEF ValidateSchema
<1>6. \A x \in ValidateLogic(b).errors : Fits(x)
  BY <1>3, <1>4 DEF ValidateLogic
<1> QED BY <1>5, <1>6 DEF Validated

(* Where the error of a field comes from. *)
LEMMA ErrorFacts ==
  ASSUME NEW b, NEW x \in Validated(b).errors
  PROVE  /\ x.field = "taxYear" => b.taxYear \notin 2008 .. 2099
         /\ x.field = "quarter" => b.quarter \notin 1 .. 4
         /\ x.field = "occupationCode" =>
              b.employees[x.at].occupationCode \notin ValidOccupations
<1> DEFINE Apt(y) ==
      /\ y.field = "taxYear" => b.taxYear \notin 2008 .. 2099
      /\ y.field = "quarter" => b.quarter \notin 1 .. 4
      /\ y.field = "occupationCode" =>
           b.employees[y.at].occupationCode \notin ValidOccupations
<1>1. \A y \in HeaderErrors(b) : Apt(y)
  BY HeaderErrorFacts
<1>2. \A i : \A y \in FieldErrors(b.employees[i], i) : Apt(y)
  BY DEF FieldErrors, Unless, Checked
<1>3. \A i : \A y \in RuleErrors(b.employees[i], i) : Apt(y)
  BY DEF RuleErrors, Unless
<1>4. Apt(InvalidJSON)
  BY DEF InvalidJSON
<1> HIDE DEF Apt
<1>5. \A y \in ValidateSchema(b) : Apt(y)
  BY <1>1, <1>2, <1>4 DEF ValidateSchema
<1>6. \A y \in ValidateLogic(b).errors : Apt(y)
  BY <1>3, <1>4 DEF ValidateLogic
<1>7. Apt(x)
  BY <1>5, <1>6 DEF Validated
<1> QED BY <1>7 DEF Apt

(* What each layer makes sure of an employee. *)
LEMMA FieldFacts ==
  ASSUME NEW e, NEW i, FieldErrors(e, i) = {}
  PROVE  /\ e.ppsn = "formed" /\ e.employmentId # "blank"
         /\ e.occupationCode \in ValidOccupations
         /\ e.employmentType \in EmploymentTypes
         /\ \A f \in Checked : e[f] >= 0
<1>1. e.ppsn = "formed"
  <2>1. Unless(e.ppsn = "formed", "INVALID_FORMAT", i, "ppsn") = {}
    BY DEF FieldErrors
  <2> QED BY <2>1 DEF Unless
<1>2. e.occupationCode \in ValidOccupations
  <2>1. Unless(e.occupationCode \in ValidOccupations, "INVALID_VALUE", i, "occupationCode")
          = {}
    BY DEF FieldErrors
  <2> QED BY <2>1 DEF Unless
<1>3. e.employmentType \in EmploymentTypes
  <2>1. Unless(e.employmentType \in EmploymentTypes, "INVALID_VALUE", i, "employmentType")
          = {}
    BY DEF FieldErrors
  <2> QED BY <2>1 DEF Unless
<1>4. \A f \in Checked : e[f] >= 0
  <2>1. \A f \in Checked : Unless(e[f] >= 0, "INVALID_VALUE", i, f) = {}
    BY DEF FieldErrors
  <2> QED BY <2>1 DEF Unless
<1>5. e.employmentId # "blank"
  <2>1. Unless(e.employmentId # "blank", "REQUIRED", i, "employmentId") = {}
    BY DEF FieldErrors
  <2> QED BY <2>1 DEF Unless
<1> QED BY <1>1, <1>2, <1>3, <1>4, <1>5

LEMMA RuleFacts ==
  ASSUME NEW e, NEW i, RuleErrors(e, i) = {}
  PROVE  /\ e.overtimePay > 0 => e.overtimeHours # 0
         /\ e.grossEarnings >= e.overtimePay
         /\ e.basicHours <= BasicHoursQuarterlyCap
<1>1. e.overtimePay > 0 => e.overtimeHours # 0
  <2>1. Unless(e.overtimePay > 0 => e.overtimeHours # 0, "OVERTIME_INCONSISTENCY", i,
               "overtimeHours") = {}
    BY DEF RuleErrors
  <2> QED BY <2>1 DEF Unless
<1>2. e.grossEarnings >= e.overtimePay
  <2>1. Unless(e.grossEarnings >= e.overtimePay, "EARNINGS_INCONSISTENCY", i,
               "grossEarnings") = {}
    BY DEF RuleErrors
  <2> QED BY <2>1 DEF Unless
<1>3. e.basicHours <= BasicHoursQuarterlyCap
  <2>1. Unless(e.basicHours <= BasicHoursQuarterlyCap, "HOURS_EXCEEDED", i, "basicHours")
          = {}
    BY DEF RuleErrors
  <2> QED BY <2>1 DEF Unless
<1> QED BY <1>1, <1>2, <1>3

LEMMA EmployeeFacts ==
  ASSUME NEW e \in Employee, NEW i, FieldErrors(e, i) = {}, RuleErrors(e, i) = {}
  PROVE  MeetsRules(e)
<1>1. /\ e.ppsn = "formed" /\ e.occupationCode \in 1 .. 9
      /\ e.employmentType \in EmploymentTypes
      /\ \A f \in Checked : e[f] >= 0
  BY FieldFacts DEF ValidOccupations
<1>2. e.overtimeHours >= 0 /\ e.basicHours >= 0
  BY <1>1 DEF Checked
<1>3. /\ e.overtimePay > 0 => e.overtimeHours # 0
      /\ e.grossEarnings >= e.overtimePay
      /\ e.basicHours <= 2184
  BY RuleFacts DEF BasicHoursQuarterlyCap
<1>4. e.overtimeHours \in Int /\ e.basicHours \in Int /\ e.overtimePay \in Int
  BY DEF Employee
<1>5. e.overtimePay > 0 => e.overtimeHours > 0
  BY <1>2, <1>3, <1>4
<1>6. e.basicHours \in 0 .. 2184
  <2>1. PICK x \in Int : x = e.basicHours
    BY <1>4
  <2>2. x >= 0 /\ x <= 2184
    BY <1>2, <1>3, <2>1
  <2>3. x \in 0 .. 2184
    BY <2>2
  <2> QED BY <2>1, <2>3
<1>7. e.ppsn = "formed" /\ e.occupationCode \in 1 .. 9 /\ e.employmentType \in EmploymentTypes
  BY <1>1
<1>8. e.grossEarnings >= e.overtimePay
  BY <1>3
<1> QED BY <1>5, <1>6, <1>7, <1>8 DEF MeetsRules

(* What both layers let pass. *)
LEMMA AcceptedFacts ==
  ASSUME NEW b \in SubmissionBody, Validated(b).status = 201
  PROVE  /\ ItemCount(b) >= 1
         /\ b.quarter \in 1 .. 4
         /\ \A i \in DOMAIN b.employees : MeetsRules(b.employees[i])
<1>1. ValidateSchema(b) = {} /\ ValidateLogic(b).errors = {}
  BY DEF Validated
<1>2. b.parses
  BY <1>1 DEF ValidateSchema
<1>3. /\ HeaderErrors(b) = {}
      /\ \A i \in DOMAIN b.employees : FieldErrors(b.employees[i], i) = {}
  BY <1>1, <1>2 DEF ValidateSchema
<1>4. \A i \in DOMAIN b.employees : RuleErrors(b.employees[i], i) = {}
  BY <1>1, <1>2 DEF ValidateLogic
<1>5. b.quarter \in 1 .. 4 /\ b.employees # <<>>
  <2>1. QuarterErrors(b) = {} /\ EmptyErrors(b) = {}
    BY <1>3, HeaderFacts
  <2> QED BY <2>1 DEF QuarterErrors, EmptyErrors, Unless
<1>6. b.employees \in Seq(Employee)
  BY DEF SubmissionBody
<1>7. ItemCount(b) >= 1
  BY <1>2, <1>5, <1>6 DEF ItemCount
<1>8. ASSUME NEW i \in DOMAIN b.employees PROVE MeetsRules(b.employees[i])
  <2>1. b.employees[i] \in Employee
    BY <1>6
  <2> QED BY <1>3, <1>4, <2>1, EmployeeFacts
<1> QED BY <1>5, <1>7, <1>8

-----------------------------------------------------------------------------
(* The returns the client sends are returns. *)

EmployeeFields ==
  {"ppsn", "employmentId", "occupationCode", "employmentType", "grossEarnings", "basicPay",
   "basicHours", "overtimePay", "overtimeHours", "employerPRSI", "bonuses", "allowances",
   "shiftPremiums", "otherSubsidies"}
BodyFields == {"parses", "holdingNumber", "taxYear", "quarter", "returnType", "employees"}

(* A record by its fields. *)
LEMMA EmployeeBuilt ==
  ASSUME NEW g, g = [f \in EmployeeFields |-> g[f]],
         g["ppsn"] \in {"formed", "malformed"}, g["employmentId"] \in {"given", "blank"},
         g["employmentType"] \in EmploymentTypes \cup {"unknown"},
         \A f \in EmployeeFields \ {"ppsn", "employmentId", "employmentType"} : g[f] \in Int
  PROVE  g \in Employee
BY DEF Employee, EmployeeFields

LEMMA BodyBuilt ==
  ASSUME NEW g, g = [f \in BodyFields |-> g[f]],
         g["parses"] \in BOOLEAN, g["holdingNumber"] \in {"given", "blank"},
         g["taxYear"] \in Int, g["quarter"] \in Int,
         g["returnType"] \in {"", "ORIGINAL", "AMENDED", "unknown"},
         g["employees"] \in Seq(Employee)
  PROVE  g \in SubmissionBody
BY DEF SubmissionBody, BodyFields

LEMMA EmployeeParts ==
  ASSUME NEW e \in Employee
  PROVE  /\ DOMAIN e = EmployeeFields
         /\ e["ppsn"] \in {"formed", "malformed"} /\ e["employmentId"] \in {"given", "blank"}
         /\ e["employmentType"] \in EmploymentTypes \cup {"unknown"}
         /\ \A f \in EmployeeFields \ {"ppsn", "employmentId", "employmentType"} : e[f] \in Int
BY DEF Employee, EmployeeFields

LEMMA BodyParts ==
  ASSUME NEW b \in SubmissionBody
  PROVE  /\ DOMAIN b = BodyFields
         /\ b["parses"] \in BOOLEAN /\ b["holdingNumber"] \in {"given", "blank"}
         /\ b["taxYear"] \in Int /\ b["quarter"] \in Int
         /\ b["returnType"] \in {"", "ORIGINAL", "AMENDED", "unknown"}
         /\ b["employees"] \in Seq(Employee)
BY DEF SubmissionBody, BodyFields

LEMMA TemplateParts ==
  /\ Template.employees \in Seq(Employee)
  /\ 1 \in DOMAIN Template.employees
  /\ Template.employees[1] \in Employee
<1>1. Template.employees \in Seq(Employee)
  BY TemplateAssumption DEF SubmissionBody
<1>2. Template.employees # <<>>
  <2>1. EmptyErrors(Template) = {}
    BY TemplateAssumption, HeaderFacts DEF ValidateSchema
  <2> QED BY <2>1 DEF EmptyErrors, Unless
<1> QED BY <1>1, <1>2

LEMMA MendedEmployeeType ==
  ASSUME NEW e \in Employee, NEW i, NEW errors, \A x \in errors : Fits(x)
  PROVE  MendedEmployee(e, i, errors) \in Employee
<1> DEFINE g == MendedEmployee(e, i, errors)
           t == Template.employees[1]
           by(f) == CHOOSE x \in errors : x.at = i /\ x.field = f
           value(f) ==
             CASE by(f).code = "OVERTIME_INCONSISTENCY" -> 1
               [] by(f).code = "EARNINGS_INCONSISTENCY" -> e.overtimePay
               [] by(f).code = "HOURS_EXCEEDED" -> BasicHoursQuarterlyCap
               [] OTHER -> t[f]
<1>1. g = [f \in EmployeeFields |-> IF Named(i, f, errors) THEN value(f) ELSE e[f]]
  BY EmployeeParts DEF MendedEmployee
<1>2. ASSUME NEW f, Named(i, f, errors)
      PROVE  by(f) \in errors /\ by(f).field = f /\ Fits(by(f))
  BY <1>2 DEF Named
<1> HIDE DEF by
<1>3. /\ e.overtimePay \in Int /\ BasicHoursQuarterlyCap \in Int
      /\ t \in Employee
  BY TemplateParts DEF BasicHoursQuarterlyCap, Employee
<1> HIDE DEF t
<1>4. ASSUME NEW f \in EmployeeFields \ {"ppsn", "employmentId", "employmentType"}
      PROVE  value(f) \in Int
  BY <1>3, EmployeeParts
<1>5. ASSUME NEW f \in {"ppsn", "employmentId", "employmentType"}, Named(i, f, errors)
      PROVE  value(f) = t[f]
  BY <1>2, <1>5 DEF Fits
<1> HIDE DEF value, g
<1>6. \A f \in EmployeeFields : g[f] = IF Named(i, f, errors) THEN value(f) ELSE e[f]
  BY <1>1
<1>7. g = [f \in EmployeeFields |-> g[f]]
  BY <1>1
<1>8. \A f \in EmployeeFields \ {"ppsn", "employmentId", "employmentType"} : g[f] \in Int
  BY <1>4, <1>6, EmployeeParts
<1>9. /\ g["ppsn"] \in {e["ppsn"], t["ppsn"]}
      /\ g["employmentId"] \in {e["employmentId"], t["employmentId"]}
      /\ g["employmentType"] \in {e["employmentType"], t["employmentType"]}
  BY <1>5, <1>6 DEF EmployeeFields
<1>10. /\ g["ppsn"] \in {"formed", "malformed"} /\ g["employmentId"] \in {"given", "blank"}
       /\ g["employmentType"] \in EmploymentTypes \cup {"unknown"}
  BY <1>3, <1>9, EmployeeParts
<1>11. g \in Employee
  BY <1>7, <1>8, <1>10, EmployeeBuilt
<1> QED BY <1>11 DEF g

LEMMA MendedType ==
  ASSUME NEW b \in SubmissionBody, NEW errors, \A x \in errors : Fits(x)
  PROVE  Mended(b, errors) \in SubmissionBody
<1> DEFINE g == Mended(b, errors)
           s == [i \in DOMAIN b.employees |-> MendedEmployee(b.employees[i], i, errors)]
<1>1. g = [f \in BodyFields |->
             IF Named(0, f, errors) THEN Template[f]
             ELSE IF f = "employees" THEN s ELSE b[f]]
  BY BodyParts DEF Mended
<1>2. s \in Seq(Employee)
  <2>1. b.employees \in Seq(Employee)
    BY BodyParts
  <2>2. \A i \in DOMAIN b.employees : MendedEmployee(b.employees[i], i, errors) \in Employee
    BY <2>1, MendedEmployeeType
  <2>3. s \in [1 .. Len(b.employees) -> Employee] /\ Len(b.employees) \in Nat
    BY <2>1, <2>2
  <2> QED BY <2>3
<1> HIDE DEF s, g
<1>3. \A f \in BodyFields : g[f] = IF Named(0, f, errors) THEN Template[f]
                                   ELSE IF f = "employees" THEN s ELSE b[f]
  BY <1>1
<1>4. /\ \A f \in BodyFields \ {"employees"} : g[f] \in {Template[f], b[f]}
      /\ g["employees"] \in {Template["employees"], s}
  BY <1>3 DEF BodyFields
<1>5. g = [f \in BodyFields |-> g[f]]
  BY <1>1
<1>6. Template \in SubmissionBody
  BY TemplateAssumption
<1>7. /\ g["parses"] \in BOOLEAN /\ g["holdingNumber"] \in {"given", "blank"}
      /\ g["taxYear"] \in Int /\ g["quarter"] \in Int
      /\ g["returnType"] \in {"", "ORIGINAL", "AMENDED", "unknown"}
      /\ g["employees"] \in Seq(Employee)
  BY <1>2, <1>4, <1>6, BodyParts DEF BodyFields
<1>8. g \in SubmissionBody
  BY <1>5, <1>7, BodyBuilt
<1> QED BY <1>8 DEF g

LEMMA FilledType ==
  ASSUME NEW p \in Period, NEW c \in Int
  PROVE  Filled(p, c) \in SubmissionBody
<1>1. [Template.employees[1] EXCEPT !.occupationCode = c] \in Employee
  BY TemplateParts DEF Employee
<1>2. <<[Template.employees[1] EXCEPT !.occupationCode = c]>> \in Seq(Employee)
  BY <1>1
<1>3. p.taxYear \in Int /\ p.quarter \in Int
  BY DEF Period
<1> QED BY <1>2, <1>3, TemplateAssumption DEF Filled, SubmissionBody

-----------------------------------------------------------------------------
(* A client that mends what the errors name. *)

(* The errors of the first layer, which name no rule of the second. *)
LEMMA SchemaErrorFacts ==
  ASSUME NEW b
  PROVE  \A x \in ValidateSchema(b) :
           x.code \notin {"OVERTIME_INCONSISTENCY", "EARNINGS_INCONSISTENCY", "HOURS_EXCEEDED"}
<1>1. \A x \in HeaderErrors(b) : x.code \in {"REQUIRED", "INVALID_VALUE"}
  BY HeaderErrorFacts
<1>2. \A e, i : \A x \in FieldErrors(e, i) :
        x.code \in {"REQUIRED", "INVALID_VALUE", "INVALID_FORMAT"}
  BY DEF FieldErrors, Unless
<1>3. InvalidJSON.code = "INVALID_JSON"
  BY DEF InvalidJSON
<1>4. CASE ~b.parses
  BY <1>3, <1>4 DEF ValidateSchema
<1>5. CASE b.parses
  BY <1>1, <1>2, <1>5 DEF ValidateSchema
<1> QED BY <1>4, <1>5

(* A return passes the first layer if its header and its employees do. *)
LEMMA SchemaPasses ==
  ASSUME NEW b
  PROVE  ValidateSchema(b) = {} <=>
           /\ b.parses
           /\ HeaderErrors(b) = {}
           /\ \A i \in DOMAIN b.employees : FieldErrors(b.employees[i], i) = {}
BY DEF ValidateSchema

LEMMA FieldsPass ==
  ASSUME NEW e, NEW i,
         e.ppsn = "formed", e.employmentId # "blank", e.occupationCode \in ValidOccupations,
         e.employmentType \in EmploymentTypes, \A f \in Checked : e[f] >= 0
  PROVE  FieldErrors(e, i) = {}
BY DEF FieldErrors, Unless

(* ... and the errors of the first layer name what keeps an employee from it. *)
LEMMA UnnamedPasses ==
  ASSUME NEW e \in Employee, NEW i, NEW errors, FieldErrors(e, i) \subseteq errors
  PROVE  /\ ~Named(i, "ppsn", errors) => e.ppsn = "formed"
         /\ ~Named(i, "employmentId", errors) => e.employmentId # "blank"
         /\ ~Named(i, "occupationCode", errors) => e.occupationCode \in ValidOccupations
         /\ ~Named(i, "employmentType", errors) => e.employmentType \in EmploymentTypes
         /\ \A f \in Checked : ~Named(i, f, errors) => e[f] >= 0
<1>1. ASSUME ~Named(i, "ppsn", errors) PROVE e.ppsn = "formed"
  <2>1. Unless(e.ppsn = "formed", "INVALID_FORMAT", i, "ppsn") \subseteq errors
    BY DEF FieldErrors
  <2> QED BY <1>1, <2>1 DEF Unless, Named
<1>2. ASSUME ~Named(i, "employmentId", errors) PROVE e.employmentId # "blank"
  <2>1. Unless(e.employmentId # "blank", "REQUIRED", i, "employmentId") \subseteq errors
    BY DEF FieldErrors
  <2> QED BY <1>2, <2>1 DEF Unless, Named
<1>3. ASSUME ~Named(i, "occupationCode", errors) PROVE e.occupationCode \in ValidOccupations
  <2>1. Unless(e.occupationCode \in ValidOccupations, "INVALID_VALUE", i, "occupationCode")
          \subseteq errors
    BY DEF FieldErrors
  <2> QED BY <1>3, <2>1 DEF Unless, Named
<1>4. ASSUME ~Named(i, "employmentType", errors) PROVE e.employmentType \in EmploymentTypes
  <2>1. Unless(e.employmentType \in EmploymentTypes, "INVALID_VALUE", i, "employmentType")
          \subseteq errors
    BY DEF FieldErrors
  <2> QED BY <1>4, <2>1 DEF Unless, Named
<1>5. ASSUME NEW f \in Checked, ~Named(i, f, errors) PROVE e[f] >= 0
  <2>1. Unless(e[f] >= 0, "INVALID_VALUE", i, f) \subseteq errors
    BY DEF FieldErrors
  <2> QED BY <1>5, <2>1 DEF Unless, Named
<1> QED BY <1>1, <1>2, <1>3, <1>4, <1>5

(* An employee whose named fields were replaced by those of the template. *)
LEMMA MendedFields ==
  ASSUME NEW b, NEW e \in Employee, NEW i, FieldErrors(e, i) \subseteq ValidateSchema(b)
  PROVE  FieldErrors(MendedEmployee(e, i, ValidateSchema(b)), i) = {}
<1> DEFINE errors == ValidateSchema(b)
           g == MendedEmployee(e, i, errors)
           t == Template.employees[1]
<1>1. ASSUME NEW f \in EmployeeFields
      PROVE  g[f] = IF Named(i, f, errors) THEN t[f] ELSE e[f]
  <2> DEFINE by == CHOOSE x \in errors : x.at = i /\ x.field = f
  <2>1. Named(i, f, errors) => by \in errors
    BY DEF Named
  <2>2. Named(i, f, errors) =>
          by.code \notin {"OVERTIME_INCONSISTENCY", "EARNINGS_INCONSISTENCY", "HOURS_EXCEEDED"}
    BY <2>1, SchemaErrorFacts
  <2> HIDE DEF errors
  <2> QED BY <2>2, EmployeeParts DEF MendedEmployee
<1>2. FieldErrors(t, 1) = {}
  <2>1. 1 \in DOMAIN Template.employees
    BY TemplateParts
  <2> QED BY <2>1, TemplateAssumption, SchemaPasses
<1>3. /\ t.ppsn = "formed" /\ t.employmentId # "blank"
      /\ t.occupationCode \in ValidOccupations /\ t.employmentType \in EmploymentTypes
      /\ \A f \in Checked : t[f] >= 0
  BY <1>2, FieldFacts
<1>4. /\ ~Named(i, "ppsn", errors) => e.ppsn = "formed"
      /\ ~Named(i, "employmentId", errors) => e.employmentId # "blank"
      /\ ~Named(i, "occupationCode", errors) => e.occupationCode \in ValidOccupations
      /\ ~Named(i, "employmentType", errors) => e.employmentType \in EmploymentTypes
      /\ \A f \in Checked : ~Named(i, f, errors) => e[f] >= 0
  BY UnnamedPasses
<1> HIDE DEF errors, g, t
<1>5. /\ g["ppsn"] = "formed" /\ g["employmentId"] # "blank"
      /\ g["occupationCode"] \in ValidOccupations /\ g["employmentType"] \in EmploymentTypes
  BY <1>1, <1>3, <1>4 DEF EmployeeFields
<1>6. ASSUME NEW f \in Checked PROVE g[f] >= 0
  BY <1>1, <1>3, <1>4 DEF EmployeeFields, Checked
<1>7. FieldErrors(g, i) = {}
  BY <1>5, <1>6, FieldsPass
<1> QED BY <1>7 DEF g, errors

(* A header passes if each of its fields does, and its errors name what keeps
   it from that.                                                           *)
HeaderFields == {"holdingNumber", "taxYear", "quarter", "returnType", "employees"}

Sound(f, v) ==
  /\ f = "holdingNumber" => v # "blank"
  /\ f = "taxYear" => v \in 2008 .. 2099
  /\ f = "quarter" => v \in 1 .. 4
  /\ f = "returnType" => v \in {"", "ORIGINAL", "AMENDED"}
  /\ f = "employees" => v # <<>>

LEMMA YearPasses ==
  ASSUME NEW b
  PROVE  YearErrors(b) = {} <=> b.taxYear \in 2008 .. 2099
<1> DEFINE holds == b.taxYear \in 2008 .. 2099
<1>1. YearErrors(b) =
        IF holds THEN {} ELSE {[code |-> "INVALID_VALUE", at |-> 0, field |-> "taxYear"]}
  BY DEF YearErrors, Unless
<1> HIDE DEF holds
<1>2. YearErrors(b) = {} <=> holds
  BY <1>1
<1> QED BY <1>2 DEF holds

LEMMA HeaderPasses ==
  ASSUME NEW b
  PROVE  HeaderErrors(b) = {} <=> \A f \in HeaderFields : Sound(f, b[f])
<1>1. HolderErrors(b) = {} <=> Sound("holdingNumber", b["holdingNumber"])
  <2>1. HolderErrors(b) = {} <=> b["holdingNumber"] # "blank"
    BY DEF HolderErrors, Unless
  <2> QED BY <2>1 DEF Sound
<1>2. YearErrors(b) = {} <=> Sound("taxYear", b["taxYear"])
  BY YearPasses DEF Sound
<1>3. QuarterErrors(b) = {} <=> Sound("quarter", b["quarter"])
  <2>1. QuarterErrors(b) = {} <=> b["quarter"] \in 1 .. 4
    BY DEF QuarterErrors, Unless
  <2> QED BY <2>1 DEF Sound
<1>4. TypeErrors(b) = {} <=> Sound("returnType", b["returnType"])
  <2>1. TypeErrors(b) = {} <=> b["returnType"] \in {"", "ORIGINAL", "AMENDED"}
    BY Zenon DEF TypeErrors, Unless
  <2>2. Sound("returnType", b["returnType"]) <=>
          b["returnType"] \in {"", "ORIGINAL", "AMENDED"}
    BY DEF Sound
  <2> QED BY <2>1, <2>2, Zenon
<1>5. EmptyErrors(b) = {} <=> Sound("employees", b["employees"])
  <2>1. EmptyErrors(b) = {} <=> b["employees"] # <<>>
    BY DEF EmptyErrors, Unless
  <2> QED BY <2>1 DEF Sound
<1>6. HeaderErrors(b) = {} <=>
        /\ HolderErrors(b) = {} /\ YearErrors(b) = {} /\ QuarterErrors(b) = {}
        /\ TypeErrors(b) = {} /\ EmptyErrors(b) = {}
  BY HeaderFacts
<1> QED BY <1>1, <1>2, <1>3, <1>4, <1>5, <1>6 DEF HeaderFields

LEMMA UnnamedHeader ==
  ASSUME NEW b, NEW errors, HeaderErrors(b) \subseteq errors, NEW f \in HeaderFields,
         ~Named(0, f, errors)
  PROVE  Sound(f, b[f])
<1>1. /\ HolderErrors(b) \subseteq errors /\ YearErrors(b) \subseteq errors
      /\ QuarterErrors(b) \subseteq errors /\ TypeErrors(b) \subseteq errors
      /\ EmptyErrors(b) \subseteq errors
  BY HeaderFacts
<1>2. CASE f = "holdingNumber"
  BY <1>1, <1>2 DEF HolderErrors, Unless, Named, Sound
<1>3. CASE f = "taxYear"
  <2>1. YearErrors(b) = {}
    BY <1>1, <1>3 DEF YearErrors, Unless, Named
  <2> QED BY <1>3, <2>1, YearPasses DEF Sound
<1>4. CASE f = "quarter"
  <2>1. QuarterErrors(b) = {}
    BY <1>1, <1>4 DEF QuarterErrors, Unless, Named
  <2> QED BY <1>4, <2>1 DEF QuarterErrors, Unless, Sound
<1>5. CASE f = "returnType"
  BY <1>1, <1>5 DEF TypeErrors, Unless, Named, Sound
<1>6. CASE f = "employees"
  BY <1>1, <1>6 DEF EmptyErrors, Unless, Named, Sound
<1> QED BY <1>2, <1>3, <1>4, <1>5, <1>6 DEF HeaderFields

(* A header whose named fields were replaced by those of the template. *)
LEMMA MendedHeader ==
  ASSUME NEW b \in SubmissionBody, NEW errors, HeaderErrors(b) \subseteq errors
  PROVE  HeaderErrors(Mended(b, errors)) = {}
<1> DEFINE g == Mended(b, errors)
           s == [i \in DOMAIN b.employees |-> MendedEmployee(b.employees[i], i, errors)]
<1>1. \A f \in BodyFields : g[f] = IF Named(0, f, errors) THEN Template[f]
                                   ELSE IF f = "employees" THEN s ELSE b[f]
  BY BodyParts DEF Mended
<1>2. \A f \in HeaderFields : Sound(f, Template[f])
  BY TemplateAssumption, SchemaPasses, HeaderPasses
<1>3. Sound("employees", b["employees"]) => Sound("employees", s)
  <2>1. b["employees"] \in Seq(Employee)
    BY BodyParts
  <2>2. b["employees"] # <<>> => 1 \in DOMAIN b["employees"]
    BY <2>1
  <2>3. DOMAIN s = DOMAIN b["employees"] /\ DOMAIN <<>> = {}
    OBVIOUS
  <2> QED BY <2>2, <2>3 DEF Sound
<1> HIDE DEF g, s
<1>4. ASSUME NEW f \in HeaderFields PROVE Sound(f, g[f])
  <2>1. f \in BodyFields
    BY DEF HeaderFields, BodyFields
  <2>2. CASE Named(0, f, errors)
    BY <1>1, <1>2, <2>1, <2>2
  <2>3. CASE ~Named(0, f, errors)
    <3>1. Sound(f, b[f])
      BY <2>3, UnnamedHeader
    <3> QED BY <1>1, <1>3, <2>1, <2>3, <3>1
  <2> QED BY <2>2, <2>3
<1> QED BY <1>4, HeaderPasses DEF g

(* What the first layer refused passes it once it is mended. *)
LEMMA MendedPassesSchema ==
  ASSUME NEW b \in SubmissionBody, b.parses
  PROVE  ValidateSchema(Mended(b, ValidateSchema(b))) = {}
<1> DEFINE errors == ValidateSchema(b)
           g == Mended(b, errors)
           s == [i \in DOMAIN b.employees |-> MendedEmployee(b.employees[i], i, errors)]
<1>1. \A f \in BodyFields : g[f] = IF Named(0, f, errors) THEN Template[f]
                                   ELSE IF f = "employees" THEN s ELSE b[f]
  BY BodyParts DEF Mended
<1>2. HeaderErrors(b) \subseteq errors
  BY DEF ValidateSchema
<1>3. HeaderErrors(g) = {}
  BY <1>2, MendedHeader
<1>4. g.parses
  BY <1>1, TemplateAssumption, SchemaPasses DEF BodyFields
<1>5. ASSUME NEW i \in DOMAIN g.employees PROVE FieldErrors(g.employees[i], i) = {}
  <2>1. CASE Named(0, "employees", errors)
    BY <1>1, <1>5, <2>1, TemplateAssumption, SchemaPasses DEF BodyFields
  <2>2. CASE ~Named(0, "employees", errors)
    <3>1. g.employees = s
      BY <1>1, <2>2 DEF BodyFields
    <3>2. i \in DOMAIN b.employees /\ g.employees[i] = MendedEmployee(b.employees[i], i, errors)
      BY <1>5, <3>1
    <3>3. b.employees[i] \in Employee
      <4>1. b.employees \in Seq(Employee)
        BY BodyParts
      <4> QED BY <3>2, <4>1
    <3>4. FieldErrors(b.employees[i], i) \subseteq errors
      BY <3>2 DEF ValidateSchema
    <3> QED BY <3>2, <3>3, <3>4, MendedFields
  <2> QED BY <2>1, <2>2
<1> QED BY <1>3, <1>4, <1>5, SchemaPasses

(* The errors of the second layer, by the rule that is broken. *)
LEMMA RuleErrorFacts ==
  ASSUME NEW e, NEW i, NEW x \in RuleErrors(e, i)
  PROVE  /\ x.at = i
         /\ \/ x.field = "overtimeHours" /\ x.code = "OVERTIME_INCONSISTENCY"
            \/ x.field = "grossEarnings" /\ x.code = "EARNINGS_INCONSISTENCY"
            \/ x.field = "basicHours" /\ x.code = "HOURS_EXCEEDED"
BY DEF RuleErrors, Unless

LEMMA UnnamedKeepsRules ==
  ASSUME NEW e, NEW i, NEW errors, RuleErrors(e, i) \subseteq errors
  PROVE  /\ ~Named(i, "overtimeHours", errors) => (e.overtimePay > 0 => e.overtimeHours # 0)
         /\ ~Named(i, "grossEarnings", errors) => e.grossEarnings >= e.overtimePay
         /\ ~Named(i, "basicHours", errors) => e.basicHours <= BasicHoursQuarterlyCap
BY DEF RuleErrors, Unless, Named

LEMMA RulesPass ==
  ASSUME NEW e, NEW i,
         e.overtimePay > 0 => e.overtimeHours # 0,
         e.grossEarnings >= e.overtimePay,
         e.basicHours <= BasicHoursQuarterlyCap
  PROVE  RuleErrors(e, i) = {}
BY DEF RuleErrors, Unless

(* An employee that passed the first layer, and keeps the rules once it is
   mended: no mended value breaks a rule or a check that was kept.          *)
LEMMA MendedRules ==
  ASSUME NEW e \in Employee, NEW i, FieldErrors(e, i) = {}, NEW errors,
         RuleErrors(e, i) \subseteq errors,
         \A x \in errors : x.at = i => x \in RuleErrors(e, i)
  PROVE  /\ FieldErrors(MendedEmployee(e, i, errors), i) = {}
         /\ RuleErrors(MendedEmployee(e, i, errors), i) = {}
<1> DEFINE g == MendedEmployee(e, i, errors)
           by(f) == CHOOSE x \in errors : x.at = i /\ x.field = f
<1>1. ASSUME NEW f \in EmployeeFields
      PROVE  g[f] = IF Named(i, f, errors)
                    THEN CASE by(f).code = "OVERTIME_INCONSISTENCY" -> 1
                           [] by(f).code = "EARNINGS_INCONSISTENCY" -> e.overtimePay
                           [] by(f).code = "HOURS_EXCEEDED" -> BasicHoursQuarterlyCap
                           [] OTHER -> Template.employees[1][f]
                    ELSE e[f]
  BY EmployeeParts DEF MendedEmployee
<1>2. ASSUME NEW f, Named(i, f, errors)
      PROVE  \/ f = "overtimeHours" /\ by(f).code = "OVERTIME_INCONSISTENCY"
             \/ f = "grossEarnings" /\ by(f).code = "EARNINGS_INCONSISTENCY"
             \/ f = "basicHours" /\ by(f).code = "HOURS_EXCEEDED"
  <2>1. by(f) \in errors /\ by(f).at = i /\ by(f).field = f
    BY <1>2 DEF Named
  <2> HIDE DEF by
  <2> QED BY <2>1, RuleErrorFacts
<1> HIDE DEF g, by
<1>3. \A f \in EmployeeFields \ {"overtimeHours", "grossEarnings", "basicHours"} : g[f] = e[f]
  BY <1>1, <1>2
<1>4. /\ g["overtimeHours"] = 1 \/ (~Named(i, "overtimeHours", errors)
                                    /\ g["overtimeHours"] = e["overtimeHours"])
      /\ g["grossEarnings"] = e["overtimePay"] \/ (~Named(i, "grossEarnings", errors)
                                    /\ g["grossEarnings"] = e["grossEarnings"])
      /\ g["basicHours"] = BasicHoursQuarterlyCap \/ (~Named(i, "basicHours", errors)
                                    /\ g["basicHours"] = e["basicHours"])
  BY <1>1, <1>2 DEF EmployeeFields
<1>5. /\ e["ppsn"] = "formed" /\ e["employmentId"] # "blank"
      /\ e["occupationCode"] \in ValidOccupations /\ e["employmentType"] \in EmploymentTypes
      /\ \A f \in Checked : e[f] >= 0
  BY FieldFacts
<1>6. \A f \in EmployeeFields \ {"ppsn", "employmentId", "employmentType"} : e[f] \in Int
  BY EmployeeParts
<1>7. \A f \in Checked : g[f] >= 0
  BY <1>3, <1>4, <1>5, <1>6 DEF Checked, EmployeeFields, BasicHoursQuarterlyCap
<1>8. /\ g["ppsn"] = "formed" /\ g["employmentId"] # "blank"
      /\ g["occupationCode"] \in ValidOccupations /\ g["employmentType"] \in EmploymentTypes
  BY <1>3, <1>5 DEF EmployeeFields
<1>9. FieldErrors(g, i) = {}
  BY <1>7, <1>8, FieldsPass
<1>10. g["overtimePay"] = e["overtimePay"]
  BY <1>3 DEF EmployeeFields
<1>11. /\ ~Named(i, "overtimeHours", errors) => (e["overtimePay"] > 0 => e["overtimeHours"] # 0)
       /\ ~Named(i, "grossEarnings", errors) => e["grossEarnings"] >= e["overtimePay"]
       /\ ~Named(i, "basicHours", errors) => e["basicHours"] <= BasicHoursQuarterlyCap
  BY UnnamedKeepsRules
<1>12. /\ g["overtimePay"] > 0 => g["overtimeHours"] # 0
       /\ g["grossEarnings"] >= g["overtimePay"]
       /\ g["basicHours"] <= BasicHoursQuarterlyCap
  BY <1>4, <1>6, <1>10, <1>11 DEF EmployeeFields, BasicHoursQuarterlyCap
<1>13. RuleErrors(g, i) = {}
  BY <1>12, RulesPass
<1> QED BY <1>9, <1>13 DEF g

(* What the second layer refused is accepted once it is mended. *)
LEMMA MendedIsAccepted ==
  ASSUME NEW b \in SubmissionBody, ValidateSchema(b) = {}
  PROVE  Validated(Mended(b, ValidateLogic(b).errors)).status = 201
<1> DEFINE errors == ValidateLogic(b).errors
           g == Mended(b, errors)
<1>1. /\ b.parses /\ HeaderErrors(b) = {}
      /\ \A i \in DOMAIN b.employees : FieldErrors(b.employees[i], i) = {}
  BY SchemaPasses
<1>2. b.employees \in Seq(Employee)
  BY BodyParts
<1>3. errors = UNION {RuleErrors(b.employees[i], i) : i \in DOMAIN b.employees}
  BY <1>1 DEF ValidateLogic
<1> HIDE DEF errors
<1>4. \A x \in errors : x.at \in DOMAIN b.employees /\ x \in RuleErrors(b.employees[x.at], x.at)
  BY <1>3, RuleErrorFacts
<1>5. \A f : ~Named(0, f, errors)
  <2>1. 0 \notin DOMAIN b.employees
    BY <1>2
  <2> QED BY <1>4, <2>1 DEF Named
<1>6. \A f \in BodyFields :
        g[f] = IF f = "employees"
               THEN [i \in DOMAIN b.employees |-> MendedEmployee(b.employees[i], i, errors)]
               ELSE b[f]
  BY <1>5, BodyParts DEF Mended
<1>7. HeaderErrors(g) = {}
  BY <1>1, MendedHeader
<1>8. g.parses
  BY <1>1, <1>6 DEF BodyFields
<1> HIDE DEF g
<1>9. /\ DOMAIN g.employees = DOMAIN b.employees
      /\ \A i \in DOMAIN b.employees :
           g.employees[i] = MendedEmployee(b.employees[i], i, errors)
  BY <1>6 DEF BodyFields
<1>10. ASSUME NEW i \in DOMAIN b.employees
       PROVE  /\ FieldErrors(g.employees[i], i) = {}
              /\ RuleErrors(g.employees[i], i) = {}
  <2>1. b.employees[i] \in Employee
    BY <1>2
  <2>2. RuleErrors(b.employees[i], i) \subseteq errors
    BY <1>3
  <2>3. \A x \in errors : x.at = i => x \in RuleErrors(b.employees[i], i)
    BY <1>4
  <2> QED BY <1>1, <1>9, <2>1, <2>2, <2>3, MendedRules
<1>11. ValidateSchema(g) = {}
  BY <1>7, <1>8, <1>9, <1>10, SchemaPasses
<1>12. ValidateLogic(g).errors = {}
  BY <1>8, <1>9, <1>10 DEF ValidateLogic
<1>13. Validated(g).status = 201
  BY <1>11, <1>12 DEF Validated
<1> QED BY <1>13 DEF g, errors

-----------------------------------------------------------------------------
(* The inductive invariant. *)

(* The months of a history are those the years of the schema check admit,
   and so are the four quarters before each.                               *)
Dated ==
  /\ today \in Int /\ until \in Int
  /\ 12 * 2009 <= today /\ today <= until /\ until < 12 * 2100

(* What the client holds is what it was given when it last asked. *)
OfferedWhenAsked ==
  \/ asked = 0 /\ offered = <<>>
  \/ asked \in 12 * 2009 .. today /\ offered = PeriodsAt(asked)

LookupOK == lookup \in [status : {0, 200, 404}, codes : SUBSET occupationCodes]

(* The outcome is what the two layers say of the return it sent. *)
Judged ==
  \/ outcome.status = 0 /\ outcome.errors = {}
  \/ outcome = Validated(form)

RInv == Dated /\ OfferedWhenAsked /\ LookupOK /\ form \in SubmissionBody /\ Judged

LEMMA OfferedFacts ==
  ASSUME Dated, OfferedWhenAsked
  PROVE  /\ offered \in Seq(Period)
         /\ asked # 0 => /\ asked \in Nat /\ Len(offered) = 5 /\ DOMAIN offered = 1 .. 5
                         /\ \A k \in 1 .. 5 : /\ offered[k] \in Period
                                              /\ Index(offered[k]) = asked \div 3 - (k - 1)
<1>1. CASE asked = 0 /\ offered = <<>>
  BY <1>1
<1>2. CASE asked \in 12 * 2009 .. today /\ offered = PeriodsAt(asked)
  <2>1. asked \in Nat
    BY <1>2 DEF Dated
  <2>2. /\ PeriodsAt(asked) \in Seq(Period)
        /\ Len(PeriodsAt(asked)) = 5
        /\ \A k \in 1 .. 5 : /\ PeriodsAt(asked)[k] \in Period
                             /\ Index(PeriodsAt(asked)[k]) = asked \div 3 - (k - 1)
    BY <2>1, PeriodsFacts
  <2>3. DOMAIN offered = 1 .. 5
    BY <1>2, <2>2
  <2> QED BY <1>2, <2>1, <2>2, <2>3
<1> QED BY <1>1, <1>2 DEF OfferedWhenAsked

LEMMA PostStep ==
  ASSUME RInv, NEW b \in SubmissionBody, Post(b)
  PROVE  RInv'
BY DEF RInv, Post, Dated, OfferedWhenAsked, LookupOK, Judged

LEMMA PostOfferedStep ==
  ASSUME RInv, PostOffered
  PROVE  RInv'
<1>1. PICK k \in DOMAIN offered : \E c \in lookup.codes : Post(Filled(offered[k], c))
  BY DEF PostOffered
<1>2. PICK c \in lookup.codes : Post(Filled(offered[k], c))
  BY <1>1
<1>3. offered[k] \in Period
  BY OfferedFacts DEF RInv
<1>4. c \in Int
  BY DEF RInv, LookupOK, occupationCodes
<1>5. Filled(offered[k], c) \in SubmissionBody
  BY <1>3, <1>4, FilledType
<1> QED BY <1>2, <1>5, PostStep

LEMMA CorrectStep ==
  ASSUME RInv, Correct
  PROVE  RInv'
<1>1. outcome = Validated(form)
  BY DEF RInv, Judged, Correct
<1>2. Mended(form, outcome.errors) \in SubmissionBody
  BY <1>1, ErrorsFit, MendedType DEF RInv
<1> QED BY <1>2, PostStep DEF Correct

LEMMA GetLookupStep ==
  ASSUME RInv, NEW t, NEW name, NEW search, GetLookup(t, name, search)
  PROVE  RInv'
<1>1. UNCHANGED <<today, until, asked, offered, form, outcome>>
  BY DEF GetLookup
<1>2. OccupationCodes(search) \in SUBSET occupationCodes
  BY DEF OccupationCodes
<1>3. LookupOK'
  BY <1>2 DEF GetLookup, LookupOK
<1> QED BY <1>1, <1>3 DEF RInv, Dated, OfferedWhenAsked, Judged

LEMMA NextInv == RInv /\ [Next]_vars => RInv'
<1> SUFFICES ASSUME RInv, [Next]_vars PROVE RInv'
  OBVIOUS
<1>1. CASE Tick
  BY <1>1 DEF Tick, RInv, Dated, OfferedWhenAsked, LookupOK, Judged
<1>2. CASE GetPeriods
  BY <1>2 DEF GetPeriods, RInv, Dated, OfferedWhenAsked, LookupOK, Judged
<1>3. ASSUME NEW t, NEW name, NEW search, GetLookup(t, name, search) PROVE RInv'
  BY <1>3, GetLookupStep
<1>4. ASSUME NEW b \in Returns, Post(b) PROVE RInv'
  BY <1>4, ReturnsAssumption, PostStep
<1>5. CASE PostOffered
  BY <1>5, PostOfferedStep
<1>6. CASE Correct
  BY <1>6, CorrectStep
<1>7. CASE UNCHANGED vars
  BY <1>7 DEF vars, RInv, Dated, OfferedWhenAsked, LookupOK, Judged
<1> QED BY <1>1, <1>2, <1>3, <1>4, <1>5, <1>6, <1>7 DEF Next

LEMMA InitInv == Init => RInv
<1> SUFFICES ASSUME Init PROVE RInv
  OBVIOUS
<1>1. Dated
  BY StartsAssumption DEF Init, Dated
<1>2. OfferedWhenAsked /\ LookupOK /\ Judged
  BY DEF Init, OfferedWhenAsked, LookupOK, Judged
<1> QED BY <1>1, <1>2, TemplateAssumption DEF Init, RInv

(* The invariant holds in every state. *)
THEOREM Invariance == Spec => []RInv
BY InitInv, NextInv, PTL DEF Spec

-----------------------------------------------------------------------------
(* The theorems. *)

(* The variables have the types the code gives them. *)
THEOREM TypeCorrect == Spec => []TypeOK
<1>1. ASSUME RInv PROVE TypeOK
  <2>1. today \in Int /\ until \in Int /\ asked \in 0 .. today
    BY <1>1 DEF RInv, Dated, OfferedWhenAsked
  <2>2. offered \in Seq([taxYear : Int, quarter : 1 .. 4])
    BY <1>1, OfferedFacts DEF RInv, Period
  <2>3. /\ outcome.status \in {0, 201, 400, 422}
        /\ outcome.status = 201 => outcome.errors = {}
    BY <1>1 DEF RInv, Judged, Validated
  <2> QED BY <1>1, <2>1, <2>2, <2>3 DEF RInv, LookupOK, TypeOK
<1> QED BY <1>1, Invariance, PTL

(* The periods offered are the quarter of the month and the four before it,
   with deadlines in the month after each, for every month and over the turn
   of every year.                                                          *)
THEOREM PeriodsRight == Spec => []PeriodsAreRecent
<1>1. ASSUME RInv PROVE PeriodsAreRecent
  <2> SUFFICES ASSUME asked # 0
               PROVE  /\ Len(offered) = 5
                      /\ \A k \in DOMAIN offered :
                           LET p == offered[k]
                               n == asked \div 3 - (k - 1)
                           IN  /\ 4 * p.taxYear + p.quarter - 1 = n
                               /\ Deadline(p).month \in 1 .. 12
                               /\ 12 * Deadline(p).year + Deadline(p).month - 1 = 3 * (n + 1)
    BY DEF PeriodsAreRecent
  <2>1. /\ Len(offered) = 5 /\ DOMAIN offered = 1 .. 5
        /\ \A k \in 1 .. 5 : /\ offered[k] \in Period
                             /\ Index(offered[k]) = asked \div 3 - (k - 1)
    BY <1>1, OfferedFacts DEF RInv
  <2>2. ASSUME NEW k \in 1 .. 5
        PROVE  /\ 4 * offered[k].taxYear + offered[k].quarter - 1 = asked \div 3 - (k - 1)
               /\ Deadline(offered[k]).month \in 1 .. 12
               /\ 12 * Deadline(offered[k]).year + Deadline(offered[k]).month - 1
                    = 3 * ((asked \div 3 - (k - 1)) + 1)
    BY <2>1, DeadlineFacts DEF Index
  <2> QED BY <2>1, <2>2
<1> QED BY <1>1, Invariance, PTL

(* A return that both layers pass meets every rule of README.md:177-179,
   whatever its employees are.                                             *)
THEOREM AcceptedIsRight == Spec => []AcceptedMeetsRules
<1>1. ASSUME RInv PROVE AcceptedMeetsRules
  BY <1>1, AcceptedFacts DEF RInv, Judged, AcceptedMeetsRules
<1> QED BY <1>1, Invariance, PTL

(* No error names a period or an occupation the server offered, as long as
   the years are those of the schema check.                                *)
THEOREM OfferedIsRight == Spec => []OfferedIsAccepted
<1>1. ASSUME RInv PROVE OfferedIsAccepted
  <2> SUFFICES ASSUME NEW x \in outcome.errors
               PROVE  /\ x.field = "taxYear" =>
                           \A k \in DOMAIN offered : offered[k].taxYear # form.taxYear
                      /\ x.field = "quarter" =>
                           \A k \in DOMAIN offered : offered[k].quarter # form.quarter
                      /\ x.field = "occupationCode" =>
                           form.employees[x.at].occupationCode \notin lookup.codes
    BY DEF OfferedIsAccepted
  <2>1. x \in Validated(form).errors
    BY <1>1 DEF RInv, Judged
  <2>2. /\ x.field = "taxYear" => form.taxYear \notin 2008 .. 2099
        /\ x.field = "quarter" => form.quarter \notin 1 .. 4
        /\ x.field = "occupationCode" =>
             form.employees[x.at].occupationCode \notin ValidOccupations
    BY <2>1, ErrorFacts
  <2>3. ASSUME NEW k \in DOMAIN offered
        PROVE  offered[k].taxYear \in 2008 .. 2099 /\ offered[k].quarter \in 1 .. 4
    <3>1. asked # 0
      BY <1>1 DEF RInv, OfferedWhenAsked
    <3>2. /\ asked \in Int /\ 12 * 2009 <= asked /\ asked < 12 * 2100
      BY <1>1, <3>1 DEF RInv, OfferedWhenAsked, Dated
    <3>3. k \in 1 .. 5 /\ offered[k] \in Period
          /\ Index(offered[k]) = asked \div 3 - (k - 1)
      BY <1>1, <3>1, OfferedFacts DEF RInv
    <3>4. PICK y \in Int, q \in 1 .. 4 : y = offered[k].taxYear /\ q = offered[k].quarter
      BY <3>3 DEF Period
    <3>5. 4 * y + q - 1 = asked \div 3 - (k - 1)
      BY <3>3, <3>4 DEF Index
    <3>6. asked \div 3 \in 8036 .. 8399
      BY <3>2
    <3>7. y \in 2008 .. 2099
      BY <3>3, <3>5, <3>6
    <3> QED BY <3>4, <3>7
  <2>4. lookup.codes \subseteq ValidOccupations
    BY <1>1 DEF RInv, LookupOK, occupationCodes, ValidOccupations
  <2> QED BY <2>2, <2>3, <2>4
<1> QED BY <1>1, Invariance, PTL

(* Errors are complete: whatever return a client sent and whatever was wrong
   with it, mending what the errors name gets it past the layer that named
   it, and past both if it was the second.                                  *)
THEOREM CorrectionSuffices == Spec => CorrectedIsAccepted
<1>1. ASSUME RInv, Correct
      PROVE  outcome'.status # 400 /\ (outcome.status = 422 => outcome'.status = 201)
  <2>1. /\ outcome = Validated(form) /\ form \in SubmissionBody /\ form.parses
        /\ outcome' = Validated(Mended(form, outcome.errors))
    BY <1>1 DEF RInv, Judged, Correct, Post
  <2>2. CASE outcome.status = 400
    <3>1. outcome.errors = ValidateSchema(form)
      BY <2>1, <2>2 DEF Validated
    <3>2. ValidateSchema(Mended(form, outcome.errors)) = {}
      BY <2>1, <3>1, MendedPassesSchema
    <3> QED BY <2>1, <2>2, <3>2 DEF Validated
  <2>3. CASE outcome.status = 422
    <3>1. ValidateSchema(form) = {} /\ outcome.errors = ValidateLogic(form).errors
      BY <2>1, <2>3 DEF Validated
    <3> QED BY <2>1, <3>1, MendedIsAccepted
  <2> QED BY <1>1, <2>2, <2>3 DEF Correct
<1>2. RInv /\ [Next]_vars =>
        [Correct => /\ outcome'.status # 400
                    /\ outcome.status = 422 => outcome'.status = 201]_vars
  BY <1>1
<1> QED BY <1>2, Invariance, PTL DEF Spec, CorrectedIsAccepted
=============================================================================
