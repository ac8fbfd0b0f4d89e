---------------------------- MODULE SqlStoreProofs ----------------------------
(***************************************************************************)
(* Proofs about SqlStore, for either driver, any number of calls, ids and   *)
(* parameters, any precision of the time and any faults.                   *)
(***************************************************************************)
EXTENDS SqlStore, FiniteSetTheorems, SequenceTheorems, TLAPS

(***************************************************************************)
(* The inductive invariant.                                                *)
(***************************************************************************)

(* A call that was made has arguments; only SQL Server has a second step, and
   only for a Create.                                                      *)
ArgumentsKnown ==
  \A c \in Calls :
    /\ pc[c] \in {"exec", "insert", "done"} => request[c] \in Requests
    /\ pc[c] = "insert" => IsCreate(c) /\ driver # "postgres"

(* Every row is stored under its own key. *)
Keyed == \A i \in Ids : table[i] # Nil => table[i].id = i

(* What was acknowledged is stored, and so is what a call knew of. *)
AcknowledgedStored == \A i \in Acknowledged : table[i] # Nil
KnownStored == \A c \in Calls : \A i \in known[c] : table[i] # Nil

(* A call answers from what it asked. *)
AnswersOwn ==
  \A c \in Calls :
    pc[c] = "done" /\ reply[c] # Failure =>
      /\ IsCreate(c) => reply[c] = OwnResult(c)
      /\ request[c].op = "GetByID" /\ reply[c] # NotFound => reply[c].id = request[c].id

(* A row, and an insert that may yet be run, was asked for by a Create whose
   parameters the columns hold.                                            *)
Asked(r) ==
  \E c \in Calls :
    pc[c] # "new" /\ IsCreate(c) /\ Fits(c) /\ r = Record(request[c].params, r.at)
RowsAsked ==
  /\ \A r \in orphans : Asked(r)
  /\ \A i \in Ids : table[i] # Nil => Asked(table[i])

IInv ==
  /\ TypeOK
  /\ ArgumentsKnown
  /\ Keyed
  /\ AcknowledgedStored
  /\ KnownStored
  /\ AnswersOwn
  /\ RowsAsked
  /\ RepeatingIsSafeOnPostgres

-----------------------------------------------------------------------------
(* Facts about the data. *)

LEMMA DivNat ==
  ASSUME NEW a \in Nat, NEW b \in Nat \ {0}
  PROVE  a \div b \in Nat
OBVIOUS

LEMMA TimesNat ==
  ASSUME NEW a \in Nat, NEW b \in Nat
  PROVE  a * b \in Nat
OBVIOUS

LEMMA ColumnTimeType ==
  ASSUME NEW t \in Nat
  PROVE  ColumnTime(t) \in Nat
<1>1. /\ Grain \in Nat \ {0}
      /\ 2 * t + Grain \in Nat
      /\ 2 * Grain \in Nat \ {0}
  BY GrainAssumption
<1>2. (2 * t + Grain) \div (2 * Grain) \in Nat /\ t \div Grain \in Nat
  BY <1>1, DivNat
<1> DEFINE n == IF driver = "postgres" THEN (2 * t + Grain) \div (2 * Grain) ELSE t \div Grain
<1>3. n \in Nat
  BY <1>2
<1>4. n * Grain \in Nat
  BY <1>1, <1>3, TimesNat
<1> QED BY <1>4 DEF ColumnTime

LEMMA RecordType ==
  ASSUME NEW p \in Params, NEW t \in Nat
  PROVE  /\ Record(p, t) \in Records
         /\ Record(p, t) # Nil
         /\ Record(p, t).id = p.id
         /\ Result(Record(p, t)) \in Results
         /\ p.id \in Ids
BY ParamsAssumption, NilAssumption
   DEF ParamsType, Records, Record, Result, Results

LEMMA SummaryType ==
  ASSUME NEW r \in Records
  PROVE  Summary(r) \in Summaries /\ Summary(r).id = r.id
BY DEF Records, Summary, Summaries

(* A request tells by its op which function it calls. *)
LEMMA RequestType ==
  ASSUME NEW r \in Requests
  PROVE  /\ r.op = "Create" => r.params \in Params
         /\ r.op = "GetByID" => r.id \in Ids
         /\ r.op = "GetRun" => r.run \in Runs
         /\ r.op = "List" => r.filter \in Filters
BY DEF Requests, Creates, Reads

(* A listing of a finite set lists each of its elements. *)
LEMMA ListingComplete ==
  ASSUME NEW S, IsFiniteSet(S), NEW s \in SetToSeqs(S), NEW x \in S
  PROVE  \E k \in DOMAIN s : s[k] = x
<1> DEFINE n == Cardinality(S)
<1>1. n \in Nat
  BY FS_CardinalityType
<1>2. s \in Injection(1 .. n, S)
  BY DEF SetToSeqs, Injection, IsInjective
<1>3. Cardinality(1 .. n) = n
  BY <1>1, FS_Interval
<1>4. s \in Surjection(1 .. n, S)
  BY <1>2, <1>3, FS_Injection
<1> QED BY <1>4 DEF Surjection

(* What a SELECT returns: summaries, and one of every row it selects. *)
LEMMA RowsListed ==
  ASSUME TypeOK, Keyed, NEW I \in SUBSET Stored, NEW s \in Ordered(Rows(I))
  PROVE  /\ s \in Seq(Summaries)
         /\ \A i \in I : Lists(s, i) /\ s # <<>>
<1> DEFINE T == Rows(I)
           g == [i \in I |-> Summary(table[i])]
<1>1. \A i \in I : table[i] \in Records /\ table[i].id = i
  BY DEF TypeOK, Keyed, Stored
<1>2. T = {g[i] : i \in I}
  BY DEF Rows
<1>3. T \in SUBSET Summaries
  BY <1>1, SummaryType DEF Rows
<1>4. IsFiniteSet(I)
  <2>1. I \in SUBSET Ids
    BY DEF Stored
  <2> QED BY <2>1, IdsAssumption, FS_Subset
<1>5. IsFiniteSet(T)
  <2>1. g \in Surjection(I, T)
    BY <1>2 DEF Surjection
  <2> QED BY <1>4, <2>1, FS_Surjection
<1>6. s \in SetToSeqs(T)
  BY DEF Ordered
<1> HIDE DEF T, g
<1>7. s \in Seq(Summaries)
  <2>1. Cardinality(T) \in Nat
    BY <1>5, FS_CardinalityType
  <2>2. s \in [1 .. Cardinality(T) -> T]
    BY <1>6 DEF SetToSeqs
  <2>3. s \in [1 .. Cardinality(T) -> Summaries]
    BY <1>3, <2>2
  <2> QED BY <2>1, <2>3, SeqDef
<1>8. ASSUME NEW i \in I PROVE Lists(s, i) /\ s # <<>>
  <2>1. Summary(table[i]) \in T
    BY DEF T, Rows
  <2>2. PICK k \in DOMAIN s : s[k] = Summary(table[i])
    BY <1>5, <1>6, <2>1, ListingComplete
  <2>3. s[k].id = i
    BY <1>1, <2>2, SummaryType
  <2>4. s # <<>>
    BY <2>2
  <2> QED BY <1>7, <2>3, <2>4, NotFoundAssumption DEF Lists
<1> QED BY <1>7, <1>8

-----------------------------------------------------------------------------
(* Facts about a step. *)

(* Rows are added and never changed. *)
TableGrows == \A i \in Ids : table[i] # Nil => table'[i] = table[i]

LEMMA InsertFacts ==
  ASSUME TypeOK, Keyed, NEW r \in Records, InsertIfAbsent(r)
  PROVE  /\ table' \in [Ids -> Records \cup {Nil}]
         /\ Keyed'
         /\ TableGrows
         /\ table'[r.id] # Nil
<1>1. r.id \in Ids /\ r # Nil
  BY NilAssumption DEF Records
<1> QED BY <1>1 DEF InsertIfAbsent, TypeOK, Keyed, TableGrows

(* The parameters, the row and the answer of a Create in progress. *)
LEMMA CreateFacts ==
  ASSUME IInv, NEW c \in Calls, IsCreate(c), pc[c] \in {"exec", "insert", "done"}
  PROVE  /\ request[c] \in Requests
         /\ IdOf(c) \in Ids
         /\ Row(c) \in Records
         /\ Row(c).id = IdOf(c)
         /\ OwnResult(c) \in Answers(request[c])
<1>1. request[c] \in Requests /\ request[c].op = "Create"
  BY DEF IInv, ArgumentsKnown, IsCreate
<1>2. request[c].params \in Params
  BY <1>1, RequestType
<1>3. receivedAt[c] \in Nat /\ ColumnTime(receivedAt[c]) \in Nat
  BY ColumnTimeType DEF IInv, TypeOK
<1>4. /\ Row(c) \in Records
      /\ Row(c).id = IdOf(c)
      /\ IdOf(c) \in Ids
  BY <1>2, <1>3, RecordType DEF Row, IdOf
<1>5. OwnResult(c) \in Results
  BY <1>2, <1>3, RecordType DEF OwnResult
<1> QED BY <1>1, <1>4, <1>5 DEF Answers

LEMMA AcknowledgedType ==
  ASSUME IInv
  PROVE  Acknowledged \in SUBSET Ids
BY CreateFacts DEF Acknowledged

(* An answer of the database is not taken for an error. *)
LEMMA AnswersAreNoErrors ==
  ASSUME IInv, NEW c \in Calls, IsCreate(c), pc[c] \in {"exec", "insert"}
  PROVE  OwnResult(c) # Failure
<1>1. request[c].op = "Create"
  BY DEF IsCreate
<1>2. OwnResult(c) \in Results
  BY <1>1, CreateFacts DEF Answers
<1> QED BY <1>2, FailureAssumption

(* The rows that come are those of the Creates in C that fit. *)
Comes(r, C) == \E c \in C : IsCreate(c) /\ Fits(c) /\ r = Row(c)
RowsCome(C) ==
  /\ \A r \in orphans' : r \in orphans \/ Comes(r, C)
  /\ \A i \in Ids :
       table'[i] # Nil => table'[i] = table[i] \/ table'[i] \in orphans \/ Comes(table'[i], C)

LEMMA RowsComeFrom ==
  ASSUME TypeOK, NEW C,
         \A q \in orphans' : q \in orphans \/ Comes(q, C),
         \/ UNCHANGED table
         \/ \E r \in Records : InsertIfAbsent(r) /\ (r \in orphans \/ Comes(r, C))
  PROVE  RowsCome(C)
<1>1. CASE UNCHANGED table
  BY <1>1 DEF RowsCome
<1>2. ASSUME NEW r \in Records, InsertIfAbsent(r), r \in orphans \/ Comes(r, C)
      PROVE  RowsCome(C)
  <2>1. ASSUME NEW i \in Ids PROVE table'[i] = table[i] \/ table'[i] = r
    BY <1>2 DEF InsertIfAbsent, TypeOK
  <2>2. ASSUME NEW i \in Ids
        PROVE  table'[i] = table[i] \/ table'[i] \in orphans \/ Comes(table'[i], C)
    <3>1. CASE table'[i] = r
      <4>1. CASE r \in orphans
        BY <3>1, <4>1
      <4>2. CASE Comes(r, C)
        <5> DEFINE q == table'[i]
        <5>1. q = r
          BY <3>1
        <5> HIDE DEF q
        <5>2. Comes(q, C)
          BY <4>2, <5>1
        <5> QED BY <5>2 DEF q
      <4> QED BY <1>2, <4>1, <4>2
    <3> QED BY <2>1, <3>1
  <2> QED BY <2>2 DEF RowsCome
<1> QED BY <1>1, <1>2

LEMMA RowsStayAsked ==
  ASSUME IInv, NEW C \in SUBSET InFlight, RowsCome(C),
         \A c \in Calls : pc[c] # "new" => pc'[c] # "new" /\ request'[c] = request[c]
  PROVE  RowsAsked'
<1>1. ASSUME NEW r, Asked(r) PROVE Asked(r)'
  BY <1>1 DEF Asked, IsCreate, Fits
<1>2. ASSUME NEW r, Comes(r, C) PROVE Asked(r)
  <2>1. PICK c \in C : IsCreate(c) /\ Fits(c) /\ r = Row(c)
    BY <1>2 DEF Comes
  <2>2. c \in Calls /\ pc[c] # "new"
    BY DEF InFlight
  <2>3. r = Record(request[c].params, r.at)
    BY <2>1 DEF Row, Record
  <2> QED BY <2>1, <2>2, <2>3 DEF Asked
<1>3. ASSUME NEW r \in orphans' PROVE Asked(r)'
  BY <1>1, <1>2 DEF RowsCome, IInv, RowsAsked
<1>4. ASSUME NEW i \in Ids, table'[i] # Nil PROVE Asked(table[i])'
  <2>1. PICK r : r = table'[i]
    OBVIOUS
  <2>2. r \in orphans \/ Comes(r, C) \/ (table[i] # Nil /\ r = table[i])
    BY <1>4, <2>1 DEF RowsCome
  <2>3. Asked(r)
    BY <1>2, <2>2 DEF IInv, RowsAsked
  <2>4. Asked(r)'
    BY <1>1, <2>3
  <2> QED BY <2>1, <2>4 DEF Asked
<1> QED BY <1>3, <1>4 DEF RowsAsked

(* A call that returns, whatever else the step does to the table. *)
LEMMA ReturnStep ==
  ASSUME IInv, NEW c \in Calls, pc[c] \in {"exec", "insert"}, NEW v, Return(c, v),
         v # Failure => v \in Answers(request[c]),
         UNCHANGED <<driver, request, receivedAt, clock, known>>,
         orphans' \in SUBSET Records,
         failed \subseteq failed', failed' \in SUBSET Calls,
         table' \in [Ids -> Records \cup {Nil}], Keyed', TableGrows,
         IsCreate(c) /\ v # Failure => v = OwnResult(c) /\ table'[IdOf(c)] # Nil,
         request[c].op = "GetByID" /\ v \notin {Failure, NotFound} => v.id = request[c].id,
         RowsCome({c}),
         driver = "postgres" /\ IsCreate(c) /\ v = Failure => c \in failed' \/ ~Fits(c)
  PROVE  IInv'
<1> USE DEF Return, Goto
<1>1. TypeOK'
  <2>1. /\ pc' \in [Calls -> {"new", "exec", "insert", "done", "lost"}]
        /\ \A d \in Calls : d # c => pc'[d] = pc[d] /\ reply'[d] = reply[d]
        /\ pc'[c] = "done" /\ reply'[c] = v
    BY DEF IInv, TypeOK
  <2>2. ASSUME NEW d \in Calls
        PROVE  IF pc'[d] = "done" /\ reply'[d] # Failure
               THEN reply'[d] \in Answers(request'[d])
               ELSE reply'[d] \in {Nil, Failure}
    <3>1. CASE d = c
      BY <2>1, <3>1
    <3>2. CASE d # c
      BY <2>1, <3>2 DEF IInv, TypeOK
    <3> QED BY <3>1, <3>2
  <2> QED BY <2>1, <2>2 DEF IInv, TypeOK
<1>2. ArgumentsKnown'
  BY DEF IInv, TypeOK, ArgumentsKnown, IsCreate
<1>3. KnownStored'
  BY DEF IInv, TypeOK, KnownStored, TableGrows
<1>4. AcknowledgedStored'
  <2> SUFFICES ASSUME NEW d \in Calls, pc'[d] = "done", IsCreate(d)', reply'[d] # Failure
               PROVE  table'[IdOf(d)'] # Nil
    BY DEF AcknowledgedStored, Acknowledged
  <2>1. IsCreate(d) /\ IdOf(d)' = IdOf(d)
    BY DEF IsCreate, IdOf
  <2>2. CASE d = c
    BY <2>1, <2>2 DEF IInv, TypeOK
  <2>3. CASE d # c
    <3>1. pc[d] = "done" /\ reply[d] # Failure
      BY <2>3 DEF IInv, TypeOK
    <3>2. table[IdOf(d)] # Nil /\ IdOf(d) \in Ids
      BY <2>1, <3>1, CreateFacts DEF IInv, AcknowledgedStored, Acknowledged
    <3> QED BY <2>1, <3>2 DEF TableGrows, IInv, TypeOK
  <2> QED BY <2>2, <2>3
<1>5. RepeatingIsSafeOnPostgres'
  BY DEF IInv, TypeOK, RepeatingIsSafeOnPostgres, RepeatingIsSafe, IsCreate, Fits
<1>6. AnswersOwn'
  <2> SUFFICES ASSUME NEW d \in Calls, pc'[d] = "done", reply'[d] # Failure
               PROVE  /\ IsCreate(d)' => reply'[d] = OwnResult(d)'
                      /\ request'[d].op = "GetByID" /\ reply'[d] # NotFound
                           => reply'[d].id = request'[d].id
    BY DEF AnswersOwn
  <2>1. OwnResult(d)' = OwnResult(d) /\ (IsCreate(d)' <=> IsCreate(d))
    BY DEF OwnResult, IsCreate
  <2>2. CASE d = c
    BY <2>1, <2>2 DEF IInv, TypeOK
  <2>3. CASE d # c
    <3>1. pc[d] = "done" /\ reply'[d] = reply[d]
      BY <2>3 DEF IInv, TypeOK
    <3> QED BY <2>1, <3>1 DEF IInv, AnswersOwn
  <2> QED BY <2>2, <2>3
<1>7. RowsAsked'
  <2>1. \A d \in Calls : pc[d] # "new" => pc'[d] # "new" /\ request'[d] = request[d]
    BY DEF IInv, TypeOK
  <2>2. {c} \in SUBSET InFlight
    BY DEF InFlight
  <2> QED BY <2>1, <2>2, RowsStayAsked
<1> QED BY <1>1, <1>2, <1>3, <1>4, <1>5, <1>6, <1>7 DEF IInv

(* A step in which no call returns and no request is read anew. *)
LEMMA QuietStep ==
  ASSUME IInv, TypeOK', ArgumentsKnown', Keyed', TableGrows,
         failed \subseteq failed', UNCHANGED driver,
         \A c \in Calls : pc'[c] = "done" =>
            pc[c] = "done" /\ UNCHANGED <<request[c], reply[c], receivedAt[c]>>,
         \A c \in Calls : pc[c] # "new" => pc'[c] # "new" /\ request'[c] = request[c],
         RowsCome(InFlight),
         \A c \in Calls : known'[c] \subseteq known[c] \cup Acknowledged
  PROVE  IInv'
<1>1. KnownStored'
  BY AcknowledgedType
     DEF IInv, TypeOK, KnownStored, AcknowledgedStored, TableGrows
<1>2. AcknowledgedStored'
  <2> SUFFICES ASSUME NEW d \in Calls, pc'[d] = "done", IsCreate(d)', reply'[d] # Failure
               PROVE  table'[IdOf(d)'] # Nil
    BY DEF AcknowledgedStored, Acknowledged
  <2>1. /\ IsCreate(d) /\ IdOf(d)' = IdOf(d)
        /\ pc[d] = "done" /\ reply[d] # Failure
    BY DEF IsCreate, IdOf
  <2>2. table[IdOf(d)] # Nil /\ IdOf(d) \in Ids
    BY <2>1, CreateFacts DEF IInv, AcknowledgedStored, Acknowledged
  <2> QED BY <2>1, <2>2 DEF TableGrows, IInv, TypeOK
<1>3. RepeatingIsSafeOnPostgres'
  BY DEF IInv, RepeatingIsSafeOnPostgres, RepeatingIsSafe, IsCreate, Fits
<1>4. AnswersOwn'
  BY DEF IInv, AnswersOwn, IsCreate, OwnResult
<1>5. RowsAsked'
  BY RowsStayAsked
<1> QED BY <1>1, <1>2, <1>3, <1>4, <1>5 DEF IInv

-----------------------------------------------------------------------------
(* Every step preserves the invariant: one lemma for each action. *)

LEMMA InvokeStep ==
  ASSUME IInv, NEW c \in Calls, UNCHANGED driver,
         \/ \E p \in Params : InvokeCreate(c, p)
         \/ \E r \in Reads : InvokeRead(c, r)
  PROVE  IInv'
<1> USE DEF InvokeCreate, InvokeRead, Goto
<1>1. request'[c] \in Requests
  BY DEF IInv, TypeOK, Requests, Creates
<1>2. TypeOK'
  <2>1. pc' = [pc EXCEPT ![c] = "exec"] /\ UNCHANGED reply
    OBVIOUS
  <2>2. ASSUME NEW d \in Calls
        PROVE  IF pc'[d] = "done" /\ reply'[d] # Failure
               THEN reply'[d] \in Answers(request'[d])
               ELSE reply'[d] \in {Nil, Failure}
    <3>1. CASE d = c
      <4>1. pc'[d] = "exec" /\ pc[d] = "new"
        BY <2>1, <3>1 DEF IInv, TypeOK
      <4> QED BY <2>1, <4>1 DEF IInv, TypeOK
    <3>2. CASE d # c
      <4>1. pc'[d] = pc[d] /\ request'[d] = request[d]
        BY <2>1, <3>2 DEF IInv, TypeOK
      <4> QED BY <2>1, <4>1 DEF IInv, TypeOK
    <3> QED BY <3>1, <3>2
  <2>3. request' \in [Calls -> Requests \cup {Nil}]
    BY <1>1 DEF IInv, TypeOK
  <2> QED BY <2>1, <2>2, <2>3, AcknowledgedType DEF IInv, TypeOK
<1>3. ArgumentsKnown'
  BY <1>1 DEF IInv, TypeOK, ArgumentsKnown, IsCreate
<1>4. Keyed' /\ TableGrows
  BY DEF IInv, TypeOK, Keyed, TableGrows
<1>5. \A d \in Calls : pc'[d] = "done" =>
        pc[d] = "done" /\ UNCHANGED <<request[d], reply[d], receivedAt[d]>>
  BY DEF IInv, TypeOK
<1>6. \A d \in Calls : known'[d] \subseteq known[d] \cup Acknowledged
  BY DEF IInv, TypeOK
<1>7. \A d \in Calls : pc[d] # "new" => pc'[d] # "new" /\ request'[d] = request[d]
  BY DEF IInv, TypeOK
<1>8. RowsCome(InFlight)
  BY RowsComeFrom DEF IInv
<1> QED BY <1>2, <1>3, <1>4, <1>5, <1>6, <1>7, <1>8, QuietStep

LEMMA PgCreateStep ==
  ASSUME IInv, UNCHANGED driver, NEW c \in Calls, PgCreate(c)
  PROVE  IInv'
<1>1. /\ IsCreate(c) /\ pc[c] = "exec"
      /\ UNCHANGED <<orphans, request, receivedAt, clock, failed, known>>
  BY NilAssumption DEF PgCreate, Executing, IInv, ArgumentsKnown, IsCreate
<1>2. /\ Row(c) \in Records /\ Row(c).id = IdOf(c)
      /\ OwnResult(c) \in Answers(request[c])
  BY <1>1, CreateFacts
<1>3. OwnResult(c) # Failure
  BY <1>1, AnswersAreNoErrors
<1>4. CASE Fits(c)
  <2>1. InsertIfAbsent(Row(c)) /\ Return(c, OwnResult(c))
    BY <1>4 DEF PgCreate
  <2>2. /\ table' \in [Ids -> Records \cup {Nil}]
        /\ Keyed' /\ TableGrows /\ table'[IdOf(c)] # Nil
    BY <1>2, <2>1, InsertFacts DEF IInv
  <2>3. orphans' \in SUBSET Records /\ failed \subseteq failed' /\ failed' \in SUBSET Calls
    BY <1>1 DEF IInv, TypeOK
  <2>4. RowsCome({c})
    BY <1>1, <1>2, <1>4, <2>1, RowsComeFrom DEF IInv, Comes
  <2> QED BY <1>1, <1>2, <1>3, <2>1, <2>2, <2>3, <2>4, ReturnStep DEF IsCreate
<1>5. CASE ~Fits(c)
  <2>1. Return(c, Failure) /\ UNCHANGED table
    BY <1>5 DEF PgCreate
  <2>2. table' \in [Ids -> Records \cup {Nil}] /\ Keyed' /\ TableGrows
    BY <2>1 DEF IInv, TypeOK, Keyed, TableGrows
  <2>3. orphans' \in SUBSET Records /\ failed \subseteq failed' /\ failed' \in SUBSET Calls
    BY <1>1 DEF IInv, TypeOK
  <2>4. RowsCome({c})
    BY <1>1, <2>1, RowsComeFrom DEF IInv
  <2> QED BY <1>1, <1>5, <2>1, <2>2, <2>3, <2>4, ReturnStep
<1> QED BY <1>4, <1>5

LEMMA MsExistsStep ==
  ASSUME IInv, UNCHANGED driver, NEW c \in Calls, MsExists(c)
  PROVE  IInv'
<1>1. /\ IsCreate(c) /\ pc[c] = "exec" /\ driver # "postgres"
      /\ UNCHANGED <<table, orphans, request, receivedAt, clock, failed, known>>
  BY NilAssumption DEF MsExists, Executing, IInv, ArgumentsKnown, IsCreate
<1>2. table' \in [Ids -> Records \cup {Nil}] /\ Keyed' /\ TableGrows
  BY <1>1 DEF IInv, TypeOK, Keyed, TableGrows
<1>3. CASE table[IdOf(c)] = Nil
  <2>1. Goto(c, "insert") /\ UNCHANGED reply
    BY <1>3 DEF MsExists
  <2>2. pc'[c] = "insert" /\ \A d \in Calls : d # c => pc'[d] = pc[d]
    BY <2>1 DEF Goto, IInv, TypeOK
  <2>3. TypeOK'
    <3>1. ASSUME NEW d \in Calls
          PROVE  IF pc'[d] = "done" /\ reply'[d] # Failure
                 THEN reply'[d] \in Answers(request'[d])
                 ELSE reply'[d] \in {Nil, Failure}
      <4>1. pc'[d] = "done" <=> pc[d] = "done"
        BY <1>1, <2>2
      <4> QED BY <1>1, <2>1, <4>1 DEF IInv, TypeOK
    <3> QED BY <1>1, <2>1, <3>1 DEF Goto, IInv, TypeOK
  <2>4. ArgumentsKnown'
    BY <1>1, <2>2 DEF IInv, TypeOK, ArgumentsKnown, IsCreate
  <2>5. \A d \in Calls : pc'[d] = "done" =>
          pc[d] = "done" /\ UNCHANGED <<request[d], reply[d], receivedAt[d]>>
    BY <1>1, <2>1, <2>2
  <2>6. \A d \in Calls : pc[d] # "new" => pc'[d] # "new" /\ request'[d] = request[d]
    BY <1>1, <2>2
  <2>7. RowsCome(InFlight)
    BY <1>1, RowsComeFrom DEF IInv
  <2> QED BY <1>1, <1>2, <2>3, <2>4, <2>5, <2>6, <2>7, QuietStep
<1>4. CASE table[IdOf(c)] # Nil
  <2>1. Return(c, OwnResult(c))
    BY <1>4 DEF MsExists
  <2>2. OwnResult(c) \in Answers(request[c])
    BY <1>1, CreateFacts
  <2>3. orphans' \in SUBSET Records /\ failed \subseteq failed' /\ failed' \in SUBSET Calls
    BY <1>1 DEF IInv, TypeOK
  <2>4. RowsCome({c})
    BY <1>1, RowsComeFrom DEF IInv
  <2> QED BY <1>1, <1>2, <1>4, <2>1, <2>2, <2>3, <2>4, ReturnStep DEF IsCreate
<1> QED BY <1>3, <1>4

LEMMA MsInsertStep ==
  ASSUME IInv, UNCHANGED driver, NEW c \in Calls, MsInsert(c)
  PROVE  IInv'
<1>1. /\ IsCreate(c) /\ pc[c] = "insert" /\ driver # "postgres"
      /\ UNCHANGED <<orphans, request, receivedAt, clock, failed, known>>
  BY DEF MsInsert, IInv, ArgumentsKnown
<1>2. /\ Row(c) \in Records /\ Row(c).id = IdOf(c)
      /\ OwnResult(c) \in Answers(request[c])
  BY <1>1, CreateFacts
<1>3. orphans' \in SUBSET Records /\ failed \subseteq failed' /\ failed' \in SUBSET Calls
  BY <1>1 DEF IInv, TypeOK
<1>4. CASE Fits(c) /\ table[IdOf(c)] = Nil
  <2>1. InsertIfAbsent(Row(c)) /\ Return(c, OwnResult(c))
    BY <1>4 DEF MsInsert
  <2>2. /\ table' \in [Ids -> Records \cup {Nil}]
        /\ Keyed' /\ TableGrows /\ table'[IdOf(c)] # Nil
    BY <1>2, <2>1, InsertFacts DEF IInv
  <2>3. RowsCome({c})
    BY <1>1, <1>2, <1>4, <2>1, RowsComeFrom DEF IInv, Comes
  <2> QED BY <1>1, <1>2, <1>3, <2>1, <2>2, <2>3, ReturnStep DEF IsCreate
<1>5. CASE ~(Fits(c) /\ table[IdOf(c)] = Nil)
  <2>1. Return(c, Failure) /\ UNCHANGED table
    BY <1>5 DEF MsInsert
  <2>2. table' \in [Ids -> Records \cup {Nil}] /\ Keyed' /\ TableGrows
    BY <2>1 DEF IInv, TypeOK, Keyed, TableGrows
  <2>3. RowsCome({c})
    BY <1>1, <2>1, RowsComeFrom DEF IInv
  <2> QED BY <1>1, <1>3, <2>1, <2>2, <2>3, ReturnStep
<1> QED BY <1>4, <1>5

(* A read changes no row. *)
LEMMA ReadReturns ==
  ASSUME IInv, UNCHANGED driver, NEW c \in Calls, NEW op, Executing(c, op), op # "Create",
         NEW v, v # Failure => v \in Answers(request[c]), Return(c, v), UNCHANGED table,
         op = "GetByID" /\ v \notin {Failure, NotFound} => v.id = request[c].id
  PROVE  IInv'
<1>1. /\ ~IsCreate(c) /\ pc[c] = "exec" /\ request[c].op = op
      /\ UNCHANGED <<orphans, request, receivedAt, clock, failed, known>>
  BY DEF Executing, IsCreate
<1>2. table' \in [Ids -> Records \cup {Nil}] /\ Keyed' /\ TableGrows
  BY DEF IInv, TypeOK, Keyed, TableGrows
<1>3. orphans' \in SUBSET Records /\ failed \subseteq failed' /\ failed' \in SUBSET Calls
  BY <1>1 DEF IInv, TypeOK
<1>4. RowsCome({c})
  BY <1>1, RowsComeFrom DEF IInv
<1> QED BY <1>1, <1>2, <1>3, <1>4, ReturnStep

LEMMA GetByIDStep ==
  ASSUME IInv, UNCHANGED driver, NEW c \in Calls, GetByID(c)
  PROVE  IInv'
<1> DEFINE r == table[request[c].id]
           v == IF r = Nil THEN NotFound ELSE r
<1>1. /\ Executing(c, "GetByID") /\ Return(c, v) /\ UNCHANGED table
  BY DEF GetByID
<1>2. request[c] \in Requests /\ request[c].op = "GetByID"
  BY <1>1 DEF Executing, IInv, ArgumentsKnown
<1>3. v \in Records \cup {NotFound}
  BY <1>2, RequestType DEF IInv, TypeOK
<1>4. v # NotFound => v.id = request[c].id
  BY <1>2, RequestType DEF IInv, Keyed
<1> HIDE DEF v
<1>5. v \in Answers(request[c])
  BY <1>2, <1>3 DEF Answers
<1> QED BY <1>1, <1>4, <1>5, ReadReturns

LEMMA GetRunStep ==
  ASSUME IInv, UNCHANGED driver, NEW c \in Calls, GetRun(c)
  PROVE  IInv'
<1> DEFINE I == {i \in Stored : table[i].run = request[c].run}
<1>1. Executing(c, "GetRun") /\ UNCHANGED table
  BY DEF GetRun
<1>2. PICK s \in Ordered(Rows(I)) : Return(c, IF s = <<>> THEN NotFound ELSE s)
  BY DEF GetRun
<1>3. request[c].op = "GetRun"
  BY <1>1 DEF Executing
<1>4. s \in Seq(Summaries)
  BY RowsListed DEF IInv
<1> DEFINE v == IF s = <<>> THEN NotFound ELSE s
<1>5. v \in Answers(request[c])
  BY <1>3, <1>4 DEF Answers
<1>6. Return(c, v)
  BY <1>2
<1> HIDE DEF v
<1> QED BY <1>1, <1>5, <1>6, ReadReturns

LEMMA ListStep ==
  ASSUME IInv, UNCHANGED driver, NEW c \in Calls, List(c)
  PROVE  IInv'
<1> DEFINE I == {i \in Stored : Matches(table[i], request[c].filter)}
<1>1. Executing(c, "List") /\ UNCHANGED table
  BY DEF List
<1>2. request[c].op = "List"
  BY <1>1 DEF Executing
<1>3. CASE Return(c, Failure)
  BY <1>1, <1>3, ReadReturns
<1>4. ASSUME NEW s \in Ordered(Rows(I)), Return(c, s) PROVE IInv'
  <2>1. s \in Seq(Summaries)
    BY RowsListed DEF IInv
  <2>2. s \in Answers(request[c])
    BY <1>2, <2>1 DEF Answers
  <2> QED BY <1>1, <1>4, <2>2, ReadReturns
<1> QED BY <1>3, <1>4 DEF List

(* What is cut off may only be the row of a Create. *)
LEMMA CutOffFacts ==
  ASSUME IInv, NEW C \in SUBSET InFlight, CutOff(C)
  PROVE  /\ orphans' \in SUBSET Records
         /\ failed' = failed \cup C
         /\ failed' \in SUBSET Calls
         /\ \A q \in orphans' : q \in orphans \/ Comes(q, C)
<1>1. ASSUME NEW c \in C, IsCreate(c) PROVE Row(c) \in Records
  BY <1>1, CreateFacts DEF InFlight
<1>2. C \subseteq Calls
  BY DEF InFlight
<1>3. \A q \in orphans' : q \in orphans \/ Comes(q, C)
  BY DEF CutOff, Comes
<1> QED BY <1>1, <1>2, <1>3 DEF CutOff, IInv, TypeOK

LEMMA ConnectionLostStep ==
  ASSUME IInv, UNCHANGED driver, NEW c \in Calls, ConnectionLost(c)
  PROVE  IInv'
<1>1. /\ pc[c] \in {"exec", "insert"} /\ {c} \in SUBSET InFlight /\ CutOff({c})
      /\ Return(c, Failure)
      /\ UNCHANGED <<table, request, receivedAt, clock, known>>
  BY DEF ConnectionLost, InFlight
<1>2. orphans' \in SUBSET Records /\ failed' = failed \cup {c} /\ failed' \in SUBSET Calls
  BY <1>1, CutOffFacts
<1>3. table' \in [Ids -> Records \cup {Nil}] /\ Keyed' /\ TableGrows
  BY <1>1 DEF IInv, TypeOK, Keyed, TableGrows
<1>4. RowsCome({c})
  BY <1>1, CutOffFacts, RowsComeFrom DEF IInv
<1> QED BY <1>1, <1>2, <1>3, <1>4, ReturnStep

LEMMA CrashStep ==
  ASSUME IInv, UNCHANGED driver, Crash
  PROVE  IInv'
<1>1. /\ CutOff(InFlight)
      /\ pc' = [c \in Calls |-> IF c \in InFlight THEN "lost" ELSE pc[c]]
      /\ UNCHANGED <<table, request, reply, receivedAt, clock, known>>
  BY DEF Crash
<1>2. orphans' \in SUBSET Records /\ failed \subseteq failed' /\ failed' \in SUBSET Calls
  BY <1>1, CutOffFacts
<1>3. Keyed' /\ TableGrows
  BY <1>1 DEF IInv, TypeOK, Keyed, TableGrows
<1>4. \A c \in Calls : pc'[c] = "done" <=> pc[c] = "done"
  BY <1>1 DEF InFlight
<1>5. TypeOK'
  <2>1. ASSUME NEW d \in Calls
        PROVE  IF pc'[d] = "done" /\ reply'[d] # Failure
               THEN reply'[d] \in Answers(request'[d])
               ELSE reply'[d] \in {Nil, Failure}
    BY <1>1, <1>4 DEF IInv, TypeOK
  <2>2. pc' \in [Calls -> {"new", "exec", "insert", "done", "lost"}]
    BY <1>1 DEF IInv, TypeOK
  <2> QED BY <1>1, <1>2, <2>1, <2>2 DEF IInv, TypeOK
<1>6. ArgumentsKnown'
  BY <1>1 DEF IInv, ArgumentsKnown, IsCreate, InFlight
<1>7. \A d \in Calls : pc'[d] = "done" =>
        pc[d] = "done" /\ UNCHANGED <<request[d], reply[d], receivedAt[d]>>
  BY <1>1, <1>4
<1>8. \A d \in Calls : pc[d] # "new" => pc'[d] # "new" /\ request'[d] = request[d]
  BY <1>1 DEF InFlight
<1>9. RowsCome(InFlight)
  BY <1>1, CutOffFacts, RowsComeFrom DEF IInv
<1> QED BY <1>1, <1>2, <1>3, <1>5, <1>6, <1>7, <1>8, <1>9, QuietStep

(* A step of the database or the clock, or none. *)
LEMMA RestStep ==
  ASSUME IInv, UNCHANGED <<driver, pc, request, reply, receivedAt, failed, known>>,
         orphans' \in SUBSET Records, clock' \in Nat,
         table' \in [Ids -> Records \cup {Nil}], Keyed', TableGrows, RowsCome(InFlight)
  PROVE  IInv'
<1>1. TypeOK'
  BY DEF IInv, TypeOK
<1>2. ArgumentsKnown'
  BY DEF IInv, ArgumentsKnown, IsCreate
<1> QED BY <1>1, <1>2, QuietStep

LEMMA RunOrphanStep ==
  ASSUME IInv, UNCHANGED driver, NEW r \in orphans, RunOrphan(r)
  PROVE  IInv'
<1>1. r \in Records
  BY DEF IInv, TypeOK
<1>2. /\ InsertIfAbsent(r) /\ orphans' = orphans \ {r}
      /\ UNCHANGED <<pc, request, reply, receivedAt, clock, failed, known>>
  BY DEF RunOrphan
<1>3. table' \in [Ids -> Records \cup {Nil}] /\ Keyed' /\ TableGrows
  BY <1>1, <1>2, InsertFacts DEF IInv
<1>4. orphans' \in SUBSET Records /\ clock' \in Nat
  BY <1>2 DEF IInv, TypeOK
<1>5. RowsCome(InFlight)
  BY <1>1, <1>2, RowsComeFrom DEF IInv
<1> QED BY <1>2, <1>3, <1>4, <1>5, RestStep

LEMMA TickStep ==
  ASSUME IInv, Tick \/ UNCHANGED vars, UNCHANGED driver
  PROVE  IInv'
<1>1. /\ UNCHANGED <<table, orphans, pc, request, reply, receivedAt, failed, known>>
      /\ clock' \in Nat
  BY DEF Tick, vars, IInv, TypeOK
<1>2. table' \in [Ids -> Records \cup {Nil}] /\ Keyed' /\ TableGrows
  BY <1>1 DEF IInv, TypeOK, Keyed, TableGrows
<1>3. orphans' \in SUBSET Records
  BY <1>1 DEF IInv, TypeOK
<1>4. RowsCome(InFlight)
  BY <1>1, RowsComeFrom DEF IInv
<1> QED BY <1>1, <1>2, <1>3, <1>4, RestStep

LEMMA InitInv == Init => IInv
<1> SUFFICES ASSUME Init PROVE IInv
  OBVIOUS
<1> USE DEF Init
<1>1. TypeOK
  BY DEF TypeOK
<1>2. ArgumentsKnown /\ Keyed /\ KnownStored
  BY DEF ArgumentsKnown, Keyed, KnownStored
<1>3. AcknowledgedStored
  BY DEF AcknowledgedStored, Acknowledged
<1>4. RepeatingIsSafeOnPostgres
  BY DEF RepeatingIsSafeOnPostgres, RepeatingIsSafe
<1>5. AnswersOwn /\ RowsAsked
  BY DEF AnswersOwn, RowsAsked
<1> QED BY <1>1, <1>2, <1>3, <1>4, <1>5 DEF IInv

LEMMA NextInv == IInv /\ [Next]_vars => IInv'
<1> SUFFICES ASSUME IInv, [Next]_vars PROVE IInv'
  OBVIOUS
<1>1. UNCHANGED driver
  BY DEF Next, vars
<1>2. ASSUME NEW c \in Calls,
             \/ \E p \in Params : InvokeCreate(c, p)
             \/ \E r \in Reads : InvokeRead(c, r)
      PROVE  IInv'
  BY <1>1, <1>2, InvokeStep
<1>3. ASSUME NEW c \in Calls, PgCreate(c) \/ MsExists(c) \/ MsInsert(c) PROVE IInv'
  BY <1>1, <1>3, PgCreateStep, MsExistsStep, MsInsertStep
<1>4. ASSUME NEW c \in Calls, GetByID(c) \/ GetRun(c) \/ List(c) PROVE IInv'
  BY <1>1, <1>4, GetByIDStep, GetRunStep, ListStep
<1>5. ASSUME NEW c \in Calls, ConnectionLost(c) PROVE IInv'
  BY <1>1, <1>5, ConnectionLostStep
<1>6. ASSUME Crash PROVE IInv'
  BY <1>1, <1>6, CrashStep
<1>7. ASSUME NEW r \in orphans, RunOrphan(r) PROVE IInv'
  BY <1>1, <1>7, RunOrphanStep
<1>8. ASSUME Tick \/ Drained \/ UNCHANGED vars PROVE IInv'
  BY <1>1, <1>8, TickStep DEF Drained
<1> QED BY <1>2, <1>3, <1>4, <1>5, <1>6, <1>7, <1>8 DEF Next, Step, Serve

-----------------------------------------------------------------------------
(* The theorems. *)

(* The invariant holds in every state. *)
THEOREM Invariance == Spec => []IInv
BY InitInv, NextInv, PTL DEF Spec

(* The variables of the store, and what its calls return, have the types the
   code gives them.                                                        *)
THEOREM TypeCorrect == Spec => []TypeOK
<1>1. IInv => TypeOK
  BY DEF IInv
<1> QED BY <1>1, Invariance, PTL

(* On PostgreSQL a Create fails only if the connection did, or if the
   parameters do not fit: repeating one is safe.                           *)
THEOREM PostgresRepeatsSafely == Spec => []RepeatingIsSafeOnPostgres
<1>1. IInv => RepeatingIsSafeOnPostgres
  BY DEF IInv
<1> QED BY <1>1, Invariance, PTL

(* A step leaves every row as it is. *)
LEMMA KeepsRows ==
  ASSUME IInv, [Next]_vars
  PROVE  TableGrows
<1>1. ASSUME NEW r \in Records, InsertIfAbsent(r) PROVE TableGrows
  BY <1>1, InsertFacts DEF IInv
<1>2. ASSUME NEW c \in Calls, PgCreate(c) \/ MsInsert(c) PROVE TableGrows
  <2>1. CASE UNCHANGED table
    BY <2>1 DEF TableGrows
  <2>2. CASE InsertIfAbsent(Row(c))
    <3>1. IsCreate(c) /\ pc[c] \in {"exec", "insert"}
      BY <1>2, NilAssumption
         DEF PgCreate, MsInsert, Executing, IInv, ArgumentsKnown, IsCreate
    <3>2. Row(c) \in Records
      BY <3>1, CreateFacts
    <3> QED BY <1>1, <2>2, <3>2
  <2> QED BY <1>2, <2>1, <2>2 DEF PgCreate, MsInsert
<1>3. ASSUME NEW r \in orphans, RunOrphan(r) PROVE TableGrows
  <2>1. r \in Records
    BY DEF IInv, TypeOK
  <2> QED BY <1>1, <1>3, <2>1 DEF RunOrphan
<1>4. ASSUME UNCHANGED table PROVE TableGrows
  BY <1>4 DEF TableGrows
<1> QED
  BY <1>2, <1>3, <1>4 DEF Next, Step, Serve, InvokeCreate, InvokeRead, MsExists, GetByID,
     GetRun, List, ConnectionLost, Crash, Tick, Drained, vars

(* No row is ever changed, replaced or removed, whatever fails. *)
THEOREM RowsNeverChange == Spec => RowsImmutable
<1>1. IInv /\ [Next]_vars => [\A i \in Ids : table[i] # Nil => table'[i] = table[i]]_vars
  BY KeepsRows DEF TableGrows
<1> QED BY <1>1, Invariance, PTL DEF Spec, RowsImmutable

-----------------------------------------------------------------------------
(* Acknowledged submissions are visible. *)

(* The reads that succeed show every row they select. *)
LEMMA ReadShows ==
  ASSUME IInv, NEW c \in Calls, GetByID(c) \/ GetRun(c) \/ List(c), reply'[c] # Failure,
         NEW i \in Ids, table[i] # Nil
  PROVE  Shows(c, i)'
<1>1. /\ UNCHANGED <<table, request, known>>
      /\ request[c].op \in {"GetByID", "GetRun", "List"}
  BY DEF GetByID, GetRun, List, Executing
<1>2. i \in Stored /\ table[i] \in Records
  BY DEF Stored, IInv, TypeOK
<1>3. CASE GetByID(c)
  <2>1. request[c].op = "GetByID"
    BY <1>3 DEF GetByID, Executing
  <2>2. reply'[c] = IF table[request[c].id] = Nil THEN NotFound ELSE table[request[c].id]
    BY <1>3 DEF GetByID, Return, IInv, TypeOK
  <2> QED BY <1>1, <1>2, <2>1, <2>2, NotFoundAssumption DEF Shows
<1>4. CASE GetRun(c)
  <2> DEFINE I == {j \in Stored : table[j].run = request[c].run}
  <2>1. request[c].op = "GetRun"
    BY <1>4 DEF GetRun, Executing
  <2>2. PICK s \in Ordered(Rows(I)) : Return(c, IF s = <<>> THEN NotFound ELSE s)
    BY <1>4 DEF GetRun
  <2>3. \A j \in I : Lists(s, j) /\ s # <<>>
    BY RowsListed DEF IInv
  <2>4. reply'[c] = IF s = <<>> THEN NotFound ELSE s
    BY <2>2 DEF Return, IInv, TypeOK
  <2>5. table[i].run = request[c].run => Lists(reply'[c], i)
    BY <1>2, <2>3, <2>4
  <2> QED BY <1>1, <2>1, <2>5 DEF Shows
<1>5. CASE List(c)
  <2> DEFINE I == {j \in Stored : Matches(table[j], request[c].filter)}
  <2>1. request[c].op = "List"
    BY <1>5 DEF List, Executing
  <2>2. PICK s \in Ordered(Rows(I)) : Return(c, s)
    <3>1. ~Return(c, Failure)
      BY DEF Return, IInv, TypeOK
    <3> QED BY <1>5, <3>1 DEF List
  <2>3. \A j \in I : Lists(s, j)
    BY RowsListed DEF IInv
  <2>4. reply'[c] = s
    BY <2>2 DEF Return, IInv, TypeOK
  <2>5. Matches(table[i], request[c].filter) => Lists(reply'[c], i)
    BY <1>2, <2>3, <2>4
  <2> QED BY <1>1, <2>1, <2>5 DEF Shows
<1> QED BY <1>3, <1>4, <1>5

(* What the database, a connection or a crash does to the calls: it makes
   none, and leaves what was asked and what was answered.                  *)
LEMMA CallsGoOn ==
  IInv /\ (Serve \/ Crash) =>
    /\ UNCHANGED <<request, known>>
    /\ \A c \in Calls : /\ pc'[c] = "new" <=> pc[c] = "new"
                        /\ pc[c] = "done" => pc'[c] = "done" /\ reply'[c] = reply[c]
<1> SUFFICES ASSUME IInv, Serve \/ Crash
             PROVE  /\ UNCHANGED <<request, known>>
                    /\ \A c \in Calls :
                         /\ pc'[c] = "new" <=> pc[c] = "new"
                         /\ pc[c] = "done" => pc'[c] = "done" /\ reply'[c] = reply[c]
  OBVIOUS
<1>1. ASSUME NEW d \in Calls,
             \/ PgCreate(d) \/ MsInsert(d)
             \/ GetByID(d) \/ GetRun(d) \/ List(d) \/ ConnectionLost(d)
      PROVE  /\ UNCHANGED <<request, known>>
             /\ pc[d] \in {"exec", "insert"}
             /\ \E v : Return(d, v)
  BY <1>1 DEF PgCreate, MsInsert, GetByID, GetRun, List, ConnectionLost, Executing, InFlight
<1>2. ASSUME NEW d \in Calls, MsExists(d)
      PROVE  /\ UNCHANGED <<request, known>>
             /\ pc[d] \in {"exec", "insert"}
             /\ \/ Goto(d, "insert") /\ UNCHANGED reply
                \/ \E v : Return(d, v)
  BY <1>2 DEF MsExists, Executing
<1>3. ASSUME Crash \/ Tick \/ \E r \in orphans : RunOrphan(r)
      PROVE  /\ UNCHANGED <<request, reply, known>>
             /\ \A c \in Calls : pc'[c] = pc[c] \/ (c \in InFlight /\ pc'[c] = "lost")
  <2>1. CASE Crash
    BY <2>1 DEF Crash
  <2>2. CASE Tick \/ \E r \in orphans : RunOrphan(r)
    BY <2>2 DEF Tick, RunOrphan
  <2> QED BY <1>3, <2>1, <2>2
<1> DEFINE GoesOn ==
      \A c \in Calls : /\ pc'[c] = "new" <=> pc[c] = "new"
                       /\ pc[c] = "done" => pc'[c] = "done" /\ reply'[c] = reply[c]
<1>4. ASSUME NEW d \in Calls, pc[d] \in {"exec", "insert"}, NEW v, Return(d, v) PROVE GoesOn
  BY <1>4 DEF Return, Goto, IInv, TypeOK
<1>5. ASSUME NEW d \in Calls, pc[d] \in {"exec", "insert"}, Goto(d, "insert"), UNCHANGED reply
      PROVE  GoesOn
  BY <1>5 DEF Goto, IInv, TypeOK
<1>6. ASSUME UNCHANGED reply,
             \A c \in Calls : pc'[c] = pc[c] \/ (c \in InFlight /\ pc'[c] = "lost")
      PROVE  GoesOn
  BY <1>6 DEF InFlight
<1> HIDE DEF GoesOn
<1>7. ASSUME NEW d \in Calls,
             \/ PgCreate(d) \/ MsInsert(d)
             \/ GetByID(d) \/ GetRun(d) \/ List(d) \/ ConnectionLost(d)
      PROVE  UNCHANGED <<request, known>> /\ GoesOn
  <2>1. PICK v : Return(d, v)
    BY <1>1, <1>7
  <2> QED BY <1>1, <1>4, <1>7, <2>1
<1>8. ASSUME NEW d \in Calls, MsExists(d) PROVE UNCHANGED <<request, known>> /\ GoesOn
  <2>1. CASE Goto(d, "insert") /\ UNCHANGED reply
    BY <1>2, <1>5, <1>8, <2>1
  <2>2. ASSUME NEW v, Return(d, v) PROVE UNCHANGED <<request, known>> /\ GoesOn
    BY <1>2, <1>4, <1>8, <2>2
  <2> QED BY <1>2, <1>8, <2>1, <2>2
<1>9. UNCHANGED <<request, known>> /\ GoesOn
  BY <1>3, <1>6, <1>7, <1>8 DEF Serve
<1> QED BY <1>9 DEF GoesOn

(* A call that has returned stays as it is. *)
LEMMA DoneStays ==
  ASSUME IInv, [Next]_vars, NEW c \in Calls, pc[c] = "done"
  PROVE  UNCHANGED <<request[c], reply[c], known[c]>>
<1>1. ASSUME NEW d \in Calls,
             \/ \E p \in Params : InvokeCreate(d, p)
             \/ \E r \in Reads : InvokeRead(d, r)
      PROVE  UNCHANGED <<request[c], reply[c], known[c]>>
  BY <1>1 DEF InvokeCreate, InvokeRead, IInv, TypeOK
<1>2. ASSUME NEW d \in Calls,
             \/ PgCreate(d) \/ MsExists(d) \/ MsInsert(d)
             \/ GetByID(d) \/ GetRun(d) \/ List(d) \/ ConnectionLost(d)
      PROVE  UNCHANGED <<request[c], reply[c], known[c]>>
  <2>1. d # c /\ UNCHANGED <<request, known>>
    BY <1>2 DEF PgCreate, MsExists, MsInsert, GetByID, GetRun, List, ConnectionLost,
       Executing, InFlight
  <2>2. UNCHANGED reply \/ \E v : Return(d, v)
    BY <1>2 DEF PgCreate, MsExists, MsInsert, GetByID, GetRun, List, ConnectionLost
  <2> QED BY <2>1, <2>2 DEF Return, IInv, TypeOK
<1>3. ASSUME Crash \/ Tick \/ Drained \/ UNCHANGED vars \/ \E r \in orphans : RunOrphan(r)
      PROVE  UNCHANGED <<request[c], reply[c], known[c]>>
  BY <1>3 DEF Crash, Tick, Drained, vars, RunOrphan
<1> QED BY <1>1, <1>2, <1>3 DEF Next, Step, Serve

(* A call that is done after a step, and was not before, is a read that shows
   what it selects, a Create, or a failure.                                *)
LEMMA Finishes ==
  ASSUME IInv, [Next]_vars, NEW c \in Calls, pc[c] # "done", pc'[c] = "done",
         reply'[c] # Failure
  PROVE  /\ UNCHANGED known
         /\ GetByID(c) \/ GetRun(c) \/ List(c) \/ IsCreate(c)'
<1>1. ASSUME NEW d \in Calls,
             \/ \E p \in Params : InvokeCreate(d, p)
             \/ \E r \in Reads : InvokeRead(d, r)
      PROVE  FALSE
  BY <1>1 DEF InvokeCreate, InvokeRead, Goto, IInv, TypeOK
<1>2. ASSUME NEW d \in Calls, PgCreate(d) \/ MsExists(d) \/ MsInsert(d)
      PROVE  d = c /\ UNCHANGED known /\ IsCreate(c)'
  <2>1. d = c
    BY <1>2 DEF PgCreate, MsExists, MsInsert, Return, Goto, IInv, TypeOK
  <2>2. UNCHANGED <<known, request>> /\ IsCreate(d)
    BY <1>2, NilAssumption DEF PgCreate, MsExists, MsInsert, Executing, IInv, ArgumentsKnown,
       IsCreate
  <2> QED BY <2>1, <2>2 DEF IsCreate
<1>3. ASSUME NEW d \in Calls, GetByID(d) \/ GetRun(d) \/ List(d)
      PROVE  d = c /\ UNCHANGED known
  BY <1>3 DEF GetByID, GetRun, List, Executing, Return, Goto, IInv, TypeOK
<1>4. ASSUME NEW d \in Calls, ConnectionLost(d) PROVE FALSE
  BY <1>4 DEF ConnectionLost, Return, Goto, IInv, TypeOK
<1>5. ASSUME Crash PROVE FALSE
  BY <1>5 DEF Crash
<1>6. ASSUME Tick \/ Drained \/ UNCHANGED vars \/ \E r \in orphans : RunOrphan(r) PROVE FALSE
  BY <1>6 DEF Tick, Drained, vars, RunOrphan
<1> QED BY <1>1, <1>2, <1>3, <1>4, <1>5, <1>6 DEF Next, Step, Serve

LEMMA VisibleStep == IInv /\ AcknowledgedIsVisible /\ [Next]_vars => AcknowledgedIsVisible'
<1> SUFFICES ASSUME IInv, AcknowledgedIsVisible, [Next]_vars,
                    NEW c \in Calls, NEW i \in known'[c], pc'[c] = "done",
                    reply'[c] # Failure
             PROVE  Shows(c, i)'
  BY DEF AcknowledgedIsVisible
<1>1. TableGrows
  BY KeepsRows
<1>2. CASE pc[c] = "done"
  <2>1. UNCHANGED <<request[c], reply[c], known[c]>>
    BY <1>2, DoneStays
  <2>2. i \in known[c] /\ i \in Ids /\ table[i] # Nil
    BY <2>1 DEF IInv, TypeOK, KnownStored
  <2>3. Shows(c, i) /\ table'[i] = table[i]
    BY <1>1, <1>2, <2>1, <2>2 DEF AcknowledgedIsVisible, TableGrows
  <2> QED BY <2>1, <2>3 DEF Shows
<1>3. CASE pc[c] # "done"
  <2>1. UNCHANGED known /\ (GetByID(c) \/ GetRun(c) \/ List(c) \/ IsCreate(c)')
    BY <1>3, Finishes
  <2>2. i \in Ids /\ table[i] # Nil
    BY <2>1 DEF IInv, TypeOK, KnownStored
  <2>3. CASE IsCreate(c)'
    BY <2>3 DEF IsCreate, Shows
  <2> QED BY <2>1, <2>2, <2>3, ReadShows
<1> QED BY <1>2, <1>3

(* A read fails only with the connection, or for its filter. *)
AsksUnfit(c) == request[c].op = "List" /\ request[c].filter \in UnfitFilters
ReadsExplained ==
  \A c \in Calls : pc[c] = "done" /\ reply[c] = Failure =>
    IsCreate(c) \/ c \in failed \/ AsksUnfit(c)

(* A filter no column can be compared with selects nothing that is stored. *)
LEMMA UnfitSelectsNothing ==
  ASSUME TypeOK, RowsAsked, NEW f \in UnfitFilters, NEW i \in Ids, table[i] # Nil
  PROVE  ~Matches(table[i], f)
<1>1. PICK c \in Calls :
        IsCreate(c) /\ Fits(c) /\ table[i] = Record(request[c].params, table[i].at)
  BY DEF RowsAsked, Asked
<1>2. request[c].params \in Params \ Unfit
  BY <1>1, RequestType DEF TypeOK, IsCreate, Fits
<1>3. ~Matches(request[c].params, f)
  BY <1>2, UnfitFiltersAssumption
<1> QED BY <1>1, <1>3 DEF Matches, Record

LEMMA ReadSucceeds ==
  ASSUME IInv, NEW c \in Calls, GetByID(c) \/ GetRun(c) \/ List(c), ~AsksUnfit(c)
  PROVE  reply'[c] # Failure
<1>1. request[c] \in Requests
  BY DEF GetByID, GetRun, List, Executing, IInv, ArgumentsKnown
<1>2. CASE GetByID(c)
  <2>1. request[c].id \in Ids
    BY <1>1, <1>2, RequestType DEF GetByID, Executing
  <2>2. reply'[c] = IF table[request[c].id] = Nil THEN NotFound ELSE table[request[c].id]
    BY <1>2 DEF GetByID, Return, IInv, TypeOK
  <2> QED BY <2>1, <2>2, FailureAssumption DEF IInv, TypeOK
<1>3. ASSUME NEW I \in SUBSET Stored, NEW s \in Ordered(Rows(I)),
             Return(c, IF s = <<>> THEN NotFound ELSE s) \/ Return(c, s)
      PROVE  reply'[c] # Failure
  <2>1. s \in Seq(Summaries)
    BY RowsListed DEF IInv
  <2>2. reply'[c] \in {NotFound, s}
    BY <1>3 DEF Return, IInv, TypeOK
  <2> QED BY <2>1, <2>2, FailureAssumption
<1>4. CASE GetRun(c) \/ List(c)
  BY <1>3, <1>4 DEF GetRun, List, QueryFails, Executing, AsksUnfit
<1> QED BY <1>2, <1>4

LEMMA ExplainedStep == IInv /\ ReadsExplained /\ [Next]_vars => ReadsExplained'
<1> SUFFICES ASSUME IInv, ReadsExplained, [Next]_vars,
                    NEW c \in Calls, pc'[c] = "done", reply'[c] = Failure
             PROVE  IsCreate(c)' \/ c \in failed' \/ AsksUnfit(c)'
  BY DEF ReadsExplained
<1>1. CASE pc[c] = "done"
  <2>1. UNCHANGED <<request[c], reply[c]>>
    BY <1>1, DoneStays
  <2>2. failed \subseteq failed'
    BY DEF Next, Step, Serve, InvokeCreate, InvokeRead, PgCreate, MsExists, MsInsert, GetByID,
       GetRun, List, Executing, ConnectionLost, Crash, CutOff, RunOrphan, Tick, Drained, vars
  <2>3. IsCreate(c) \/ c \in failed \/ AsksUnfit(c)
    BY <1>1, <2>1 DEF ReadsExplained
  <2> QED BY <2>1, <2>2, <2>3 DEF IsCreate, AsksUnfit
<1>2. CASE pc[c] # "done"
  <2>1. ASSUME NEW d \in Calls, PgCreate(d) \/ MsExists(d) \/ MsInsert(d) PROVE IsCreate(c)'
    <3>1. d = c
      BY <1>2, <2>1 DEF PgCreate, MsExists, MsInsert, Return, Goto, IInv, TypeOK
    <3>2. UNCHANGED request /\ IsCreate(d)
      BY <2>1, NilAssumption DEF PgCreate, MsExists, MsInsert, Executing, IInv,
         ArgumentsKnown, IsCreate
    <3> QED BY <3>1, <3>2 DEF IsCreate
  <2>2. ASSUME NEW d \in Calls, GetByID(d) \/ GetRun(d) \/ List(d) PROVE AsksUnfit(c)'
    <3>1. d = c
      BY <1>2, <2>2 DEF GetByID, GetRun, List, Return, Goto, IInv, TypeOK
    <3>2. UNCHANGED request
      BY <2>2 DEF GetByID, GetRun, List, Executing
    <3> QED BY <2>2, <3>1, <3>2, ReadSucceeds DEF AsksUnfit
  <2>3. ASSUME NEW d \in Calls, ConnectionLost(d) PROVE c \in failed'
    BY <1>2, <2>3 DEF ConnectionLost, CutOff, Return, Goto, IInv, TypeOK
  <2>4. ASSUME NEW d \in Calls,
               \/ \E p \in Params : InvokeCreate(d, p)
               \/ \E r \in Reads : InvokeRead(d, r)
        PROVE  FALSE
    BY <1>2, <2>4 DEF InvokeCreate, InvokeRead, Goto, IInv, TypeOK
  <2>5. ASSUME Crash \/ Tick \/ Drained \/ UNCHANGED vars \/ \E r \in orphans : RunOrphan(r)
        PROVE  FALSE
    BY <1>2, <2>5 DEF Crash, Tick, Drained, vars, RunOrphan
  <2> QED BY <2>1, <2>2, <2>3, <2>4, <2>5 DEF Next, Step, Serve
<1> QED BY <1>1, <1>2

(* A submission that was acknowledged before a read was made is in its
   answer, over crashes, lost connections and late inserts.                *)
THEOREM AcknowledgedStaysVisible == Spec => []AcknowledgedIsVisible
<1>1. Init => AcknowledgedIsVisible
  BY DEF Init, AcknowledgedIsVisible
<1>2. IInv /\ AcknowledgedIsVisible /\ [Next]_vars => AcknowledgedIsVisible'
  BY VisibleStep
<1> QED BY <1>1, <1>2, Invariance, PTL DEF Spec
-----------------------------------------------------------------------------
(***************************************************************************)
(* SqlStore implements SubmissionContract: the initial states of the store *)
(* are initial states of the contract, and every step of the store is a    *)
(* step of the contract or leaves its variables alone.                     *)
(***************************************************************************)

(* A call was made in the past. *)
Stamped == \A c \in Calls : receivedAt[c] <= clock

LEMMA SameData ==
  /\ \A p, t : Contract!Record(p, t) = Record(p, t)
  /\ \A r : Contract!Result(r) = Result(r)
  /\ \A r : Contract!Summary(r) = Summary(r)
  /\ \A r, f : Contract!Matches(r, f) = Matches(r, f)
  /\ \A s : Contract!NewestFirst(s) = NewestFirst(s)
  /\ Contract!Reads = Reads
BY DEF Contract!Record, Record, Contract!Result, Result, Contract!Summary, Summary,
   Contract!Matches, Matches, Contract!NewestFirst, NewestFirst, Contract!Reads, Reads

LEMMA SameListings ==
  ASSUME NEW S
  PROVE  Contract!SetToSeqs(S) = SetToSeqs(S)
<1>1. Contract!Cardinality(S) = Cardinality(S)
  BY DEF Contract!Cardinality, Cardinality
<1> QED BY <1>1 DEF Contract!SetToSeqs, SetToSeqs

LEMMA SameInsert ==
  ASSUME NEW r, InsertIfAbsent(r)
  PROVE  Contract!InsertIfAbsent(r)
BY DEF InsertIfAbsent, Contract!InsertIfAbsent

-----------------------------------------------------------------------------
(* What is left of a division: less than the divisor. *)
LEMMA DivBounds ==
  ASSUME NEW a \in Nat, NEW b \in Nat \ {0}
  PROVE  (a \div b) * b <= a /\ a < (a \div b) * b + b
<1>1. a = b * (a \div b) + (a % b) /\ a % b \in 0 .. b - 1
  OBVIOUS
<1>2. b * (a \div b) = (a \div b) * b /\ (a \div b) * b \in Nat
  OBVIOUS
<1> QED BY <1>1, <1>2

(* A column keeps a time to less than its grain. *)
LEMMA ColumnTimeNear ==
  ASSUME NEW t \in Nat
  PROVE  ColumnTime(t) \in (t - Grain) + 1 .. (t + Grain) - 1
<1> DEFINE g == Grain
           m == (2 * t + g) \div (2 * g)
<1>1. g \in Nat \ {0} /\ 2 * t + g \in Nat /\ 2 * g \in Nat \ {0}
  BY GrainAssumption
<1>2. CASE driver = "postgres"
  <2>1. m * (2 * g) <= 2 * t + g /\ 2 * t + g < m * (2 * g) + 2 * g
    BY <1>1, DivBounds
  <2>2. m \in Nat /\ ColumnTime(t) = m * g
    BY <1>1, <1>2, DivNat DEF ColumnTime
  <2> HIDE DEF m
  <2>3. m * g \in Nat /\ m * (2 * g) = 2 * (m * g)
    BY <1>1, <2>2
  <2> DEFINE n == m * g
  <2>4. n \in Nat /\ 2 * n <= 2 * t + g /\ 2 * t + g < 2 * n + 2 * g
    BY <2>1, <2>3
  <2> HIDE DEF n, g
  <2>5. n \in (t - g) + 1 .. (t + g) - 1
    BY <1>1, <2>4
  <2> QED BY <2>2, <2>5 DEF n, g
<1>3. CASE driver # "postgres"
  <2>1. ColumnTime(t) = (t \div g) * g
    BY <1>3 DEF ColumnTime
  <2> DEFINE n == (t \div g) * g
  <2>2. n <= t /\ t < n + g /\ n \in Nat
    BY <1>1, DivBounds, DivNat, TimesNat
  <2> HIDE DEF n, g
  <2>3. n \in (t - g) + 1 .. (t + g) - 1
    BY <1>1, <2>2
  <2> QED BY <2>1, <2>3 DEF n, g
<1> QED BY <1>2, <1>3

(* The row of a Create in progress is one that its contract may keep. *)
LEMMA RowKept ==
  ASSUME IInv, Stamped, NEW c \in Calls
  PROVE  /\ receivedAt[c] \in receivedAt[c] .. clock
         /\ Row(c) \in Contract!Kept(request[c].params, receivedAt[c])
         /\ OwnResult(c) = Contract!Result(Contract!Record(request[c].params, receivedAt[c]))
<1>1. receivedAt[c] \in Nat /\ clock \in Nat /\ receivedAt[c] <= clock
  BY DEF IInv, TypeOK, Stamped
<1>2. ColumnTime(receivedAt[c]) \in (receivedAt[c] - Grain) + 1 .. (receivedAt[c] + Grain) - 1
  BY <1>1, ColumnTimeNear
<1>3. Row(c) \in Contract!Kept(request[c].params, receivedAt[c])
  BY <1>2, SameData DEF Row, Contract!Kept
<1> QED BY <1>1, <1>3, SameData DEF OwnResult

-----------------------------------------------------------------------------
(* A call in progress is pending, and one that returns has its answer. *)
LEMMA InProgress ==
  ASSUME IInv, NEW c \in Calls
  PROVE  /\ pc[c] \in {"exec", "insert"} <=> Phase[c] = "pending"
         /\ pc[c] = "new" <=> Phase[c] = "new"
BY DEF Phase, IInv, TypeOK

LEMMA AnswerRefines ==
  ASSUME IInv, NEW c \in Calls, NEW a, Return(c, a), UNCHANGED <<request, receivedAt, clock>>
  PROVE  Contract!Answer(c, a)
<1>1. Phase' = [Phase EXCEPT ![c] = "answered"]
  BY DEF Return, Goto, Phase, IInv, TypeOK
<1> QED BY <1>1 DEF Return, Contract!Answer

LEMMA InvokeRefines ==
  ASSUME IInv, NEW c \in Calls
  PROVE  /\ \A p \in Params : InvokeCreate(c, p) => Contract!InvokeCreate(c, p)
         /\ \A r \in Reads : InvokeRead(c, r) => Contract!InvokeRead(c, r)
<1>1. ASSUME pc[c] = "new", Goto(c, "exec") PROVE Phase' = [Phase EXCEPT ![c] = "pending"]
  BY <1>1 DEF Goto, Phase, IInv, TypeOK
<1> QED BY <1>1, InProgress
        DEF InvokeCreate, InvokeRead, Contract!InvokeCreate, Contract!InvokeRead

(* A Create takes effect with the statement that inserts, finds or rejects. *)
LEMMA CreateRefines ==
  ASSUME IInv, Stamped, NEW c \in Calls, PgCreate(c) \/ MsExists(c) \/ MsInsert(c)
  PROVE  \/ Contract!CreateFirst(c) \/ Contract!CreateAgain(c) \/ Contract!Reject(c)
         \/ UNCHANGED Contract!vars
<1>1. /\ IsCreate(c) /\ pc[c] \in {"exec", "insert"}
      /\ UNCHANGED <<orphans, request, receivedAt, clock>>
  BY NilAssumption
     DEF PgCreate, MsExists, MsInsert, Executing, IInv, ArgumentsKnown, IsCreate
<1>2. Contract!Pending(c, "Create")
  BY <1>1, InProgress DEF Contract!Pending, IsCreate
<1>3. IdOf(c) \in Ids /\ Row(c).id = IdOf(c) /\ IdOf(c) = request[c].params.id
  BY <1>1, CreateFacts DEF IdOf
<1>4. ASSUME Fits(c), table[IdOf(c)] = Nil, InsertIfAbsent(Row(c)), Return(c, OwnResult(c))
      PROVE  Contract!CreateFirst(c)
  <2>1. Contract!Answer(c, OwnResult(c)) /\ Contract!InsertIfAbsent(Row(c))
    BY <1>1, <1>4, AnswerRefines, SameInsert
  <2> QED BY <1>1, <1>2, <1>3, <1>4, <2>1, RowKept DEF Contract!CreateFirst, Fits
<1>5. ASSUME table[IdOf(c)] # Nil, UNCHANGED table,
             Return(c, OwnResult(c)) \/ Return(c, Failure)
      PROVE  Contract!CreateAgain(c)
  <2>1. Contract!Answer(c, OwnResult(c)) \/ Contract!Answer(c, Failure)
    BY <1>1, <1>5, AnswerRefines
  <2> QED BY <1>1, <1>2, <1>3, <1>5, <2>1, RowKept DEF Contract!CreateAgain
<1>6. ASSUME ~Fits(c), UNCHANGED table, Return(c, Failure) PROVE Contract!Reject(c)
  <2>1. Contract!Answer(c, Failure)
    BY <1>1, <1>6, AnswerRefines
  <2> QED BY <1>1, <1>2, <1>6, <2>1 DEF Contract!Reject, Fits
<1>7. ASSUME table[IdOf(c)] # Nil, InsertIfAbsent(Row(c)) PROVE UNCHANGED table
  BY <1>3, <1>7 DEF InsertIfAbsent, IInv, TypeOK
<1>8. CASE PgCreate(c)
  BY <1>4, <1>5, <1>6, <1>7, <1>8 DEF PgCreate
<1>9. CASE MsInsert(c)
  BY <1>4, <1>5, <1>6, <1>9 DEF MsInsert
<1>10. CASE MsExists(c)
  <2>1. CASE table[IdOf(c)] = Nil
    <3>1. Goto(c, "insert") /\ UNCHANGED <<reply, table>>
      BY <1>10, <2>1 DEF MsExists
    <3>2. Phase' = Phase
      BY <1>1, <3>1 DEF Goto, Phase, IInv, TypeOK
    <3> QED BY <1>1, <3>1, <3>2 DEF Contract!vars
  <2> QED BY <1>5, <1>10, <2>1 DEF MsExists
<1> QED BY <1>8, <1>9, <1>10

-----------------------------------------------------------------------------
(* A read takes effect with its SELECT. *)
LEMMA ReadRefines ==
  ASSUME IInv, NEW c \in Calls, NEW op, Executing(c, op), NEW a, Return(c, a), UNCHANGED table
  PROVE  /\ Contract!Pending(c, op) /\ Contract!Answer(c, a)
         /\ UNCHANGED <<table, orphans>>
BY InProgress, AnswerRefines DEF Executing, Contract!Pending

LEMMA GetByIDRefines ==
  ASSUME IInv, NEW c \in Calls, GetByID(c)
  PROVE  Contract!GetByID(c)
<1> DEFINE r == table[request[c].id]
           a == IF r = Nil THEN NotFound ELSE r
<1>1. Executing(c, "GetByID") /\ Return(c, a) /\ UNCHANGED table
  BY DEF GetByID
<1>2. Contract!Pending(c, "GetByID") /\ Contract!Answer(c, a) /\ UNCHANGED <<table, orphans>>
  BY <1>1, ReadRefines
<1> QED BY <1>2 DEF Contract!GetByID

(* The rows a SELECT finds are the records of the contract. *)
LEMMA GetRunRefines ==
  ASSUME IInv, NEW c \in Calls, GetRun(c)
  PROVE  Contract!GetRun(c)
<1> DEFINE I == {i \in Stored : table[i].run = request[c].run}
           S == {Contract!Summary(r) : r \in {q \in Contract!Stored : q.run = request[c].run}}
<1>1. Executing(c, "GetRun") /\ UNCHANGED table
  BY DEF GetRun
<1>2. PICK s \in Ordered(Rows(I)) : Return(c, IF s = <<>> THEN NotFound ELSE s)
  BY DEF GetRun
<1>3. Rows(I) = S
  BY SameData DEF Rows, Stored, Contract!Stored
<1>4. s \in Contract!SetToSeqs(S)
  BY <1>3, SameListings DEF Ordered
<1>5. s = <<>> <=> S = {}
  <2>1. S # {} => s # <<>>
    <3>1. S # {} => I # {}
      BY <1>3 DEF Rows
    <3> QED BY <3>1, RowsListed DEF IInv
  <2>2. S = {} => s = <<>>
    <3> SUFFICES ASSUME S = {} PROVE s = <<>>
      OBVIOUS
    <3>1. Cardinality({}) = 0
      BY FS_EmptySet
    <3>2. s \in SetToSeqs({})
      BY <1>4, SameListings
    <3>3. s \in [1 .. 0 -> {}]
      BY <3>1, <3>2 DEF SetToSeqs
    <3>4. s \in Seq({}) /\ Len(s) = 0
      BY <3>3, SeqDef
    <3> QED BY <3>4, EmptySeq
  <2> QED BY <2>1, <2>2
<1> DEFINE a == IF s = <<>> THEN NotFound ELSE s
<1>6. Return(c, a)
  BY <1>2
<1> HIDE DEF a
<1>7. /\ Contract!Pending(c, "GetRun") /\ Contract!Answer(c, a)
      /\ UNCHANGED <<table, orphans>>
  BY <1>1, <1>6, ReadRefines
<1> HIDE DEF S
<1>8. CASE S = {}
  BY <1>5, <1>7, <1>8 DEF Contract!GetRun, S, a
<1>9. CASE S # {}
  BY <1>4, <1>5, <1>7, <1>9 DEF Contract!GetRun, S, a
<1> QED BY <1>8, <1>9

LEMMA ListRefines ==
  ASSUME IInv, NEW c \in Calls, List(c)
  PROVE  Contract!List(c) \/ Contract!Reject(c)
<1> DEFINE f == request[c].filter
           I == {i \in Stored : Matches(table[i], f)}
           S == {Contract!Summary(r) : r \in {q \in Contract!Stored : Contract!Matches(q, f)}}
<1>1. Executing(c, "List") /\ UNCHANGED table
  BY DEF List
<1>2. CASE QueryFails(c) /\ Return(c, Failure)
  <2>1. /\ Contract!Pending(c, "List") /\ Contract!Answer(c, Failure)
        /\ UNCHANGED <<table, orphans>>
    BY <1>1, <1>2, ReadRefines
  <2> QED BY <1>2, <2>1 DEF QueryFails, Contract!Reject
<1>3. {Summary(r) : r \in {q \in Contract!Stored : Matches(q, f)}} = Rows(I)
  BY DEF Rows, Stored, Contract!Stored
<1>4. Rows(I) = S
  BY <1>3, SameData
<1>5. ASSUME NEW s \in Ordered(Rows(I)), Return(c, s) PROVE Contract!List(c)
  <2>1. s \in Contract!SetToSeqs(S) /\ Contract!NewestFirst(s)
    BY <1>4, SameListings, SameData DEF Ordered
  <2>2. /\ Contract!Pending(c, "List") /\ Contract!Answer(c, s)
        /\ UNCHANGED <<table, orphans>>
    BY <1>1, <1>5, ReadRefines
  <2> HIDE DEF S
  <2> QED BY <2>1, <2>2 DEF Contract!List, S
<1> QED BY <1>2, <1>5 DEF List

-----------------------------------------------------------------------------
(* The faults: what is cut off leaves its row behind, or nothing. *)
LEMMA CutOffRefines ==
  ASSUME IInv, Stamped, NEW C \in SUBSET InFlight, CutOff(C), UNCHANGED table
  PROVE  Contract!CutOff(C)
<1>1. orphans \subseteq orphans' /\ C \subseteq Calls
  BY DEF CutOff, InFlight
<1>2. ASSUME NEW r \in orphans' \ orphans
      PROVE  \E c \in C : /\ Contract!Pending(c, "Create")
                          /\ request[c].params \notin Unfit
                          /\ \E t \in receivedAt[c] .. clock :
                               r \in Contract!Kept(request[c].params, t)
  <2>1. PICK c \in C : IsCreate(c) /\ Fits(c) /\ r = Row(c)
    BY <1>2 DEF CutOff
  <2>2. c \in Calls /\ Contract!Pending(c, "Create")
    BY <1>1, <2>1, InProgress DEF Contract!Pending, IsCreate, InFlight
  <2> QED BY <2>1, <2>2, RowKept DEF Fits
<1> QED BY <1>1, <1>2 DEF Contract!CutOff

LEMMA FaultRefines ==
  ASSUME IInv, Stamped
  PROVE  /\ \A c \in Calls : ConnectionLost(c) => Contract!Fail(c)
         /\ Crash => Contract!Crash
<1>1. ASSUME NEW c \in Calls, ConnectionLost(c) PROVE Contract!Fail(c)
  <2>1. {c} \in SUBSET InFlight /\ Contract!CutOff({c})
    BY <1>1, CutOffRefines DEF ConnectionLost
  <2>2. Contract!Answer(c, Failure)
    BY <1>1, AnswerRefines DEF ConnectionLost
  <2> QED BY <1>1, <2>1, <2>2, InProgress DEF ConnectionLost, Contract!Fail, InFlight
<1>2. ASSUME Crash PROVE Contract!Crash
  <2>1. InFlight = {c \in Calls : Phase[c] = "pending"}
    BY InProgress DEF InFlight
  <2>2. Contract!CutOff(InFlight)
    BY <1>2, CutOffRefines DEF Crash
  <2>3. Phase' = [c \in Calls |-> IF c \in InFlight THEN "lost" ELSE Phase[c]]
    BY <1>2 DEF Crash, Phase, InFlight, IInv, TypeOK
  <2> QED BY <1>2, <2>1, <2>2, <2>3 DEF Crash, Contract!Crash
<1> QED BY <1>1, <1>2

(* The clock never runs backwards. *)
LEMMA StampedStep ==
  ASSUME IInv, Stamped, [Next]_vars
  PROVE  Stamped'
<1>1. ASSUME NEW c \in Calls, NEW p \in Params, InvokeCreate(c, p) PROVE Stamped'
  BY <1>1 DEF InvokeCreate, Stamped, IInv, TypeOK
<1>2. ASSUME Tick PROVE Stamped'
  BY <1>2 DEF Tick, Stamped, IInv, TypeOK
<1>3. ASSUME UNCHANGED <<receivedAt, clock>> PROVE Stamped'
  BY <1>3 DEF Stamped
<1> QED
  BY <1>1, <1>2, <1>3 DEF Next, Step, Serve, InvokeRead, PgCreate, MsExists, MsInsert,
     GetByID, GetRun, List, Executing, ConnectionLost, Crash, RunOrphan, Drained, vars

LEMMA NextRefines ==
  ASSUME IInv, Stamped, [Next]_vars
  PROVE  [Contract!Next]_(Contract!vars)
<1>1. ASSUME NEW c \in Calls, NEW p \in Params, InvokeCreate(c, p) PROVE Contract!Next
  BY <1>1, InvokeRefines DEF Contract!Next
<1>2. ASSUME NEW c \in Calls, NEW r \in Reads, InvokeRead(c, r) PROVE Contract!Next
  BY <1>2, InvokeRefines, SameData DEF Contract!Next
<1>3. ASSUME NEW c \in Calls, PgCreate(c) \/ MsExists(c) \/ MsInsert(c)
      PROVE  [Contract!Next]_(Contract!vars)
  BY <1>3, CreateRefines DEF Contract!Next
<1>4. ASSUME NEW c \in Calls, GetByID(c) \/ GetRun(c) \/ List(c) PROVE Contract!Next
  BY <1>4, GetByIDRefines, GetRunRefines, ListRefines DEF Contract!Next
<1>5. ASSUME NEW c \in Calls, ConnectionLost(c) PROVE Contract!Next
  BY <1>5, FaultRefines DEF Contract!Next
<1>6. ASSUME Crash PROVE Contract!Next
  BY <1>6, FaultRefines DEF Contract!Next
<1>7. ASSUME NEW r \in orphans, RunOrphan(r) PROVE Contract!Next
  <2>1. Phase' = Phase
    BY <1>7 DEF RunOrphan, Phase
  <2> QED BY <1>7, <2>1, SameInsert DEF RunOrphan, Contract!Next, Contract!LateInsert
<1>8. ASSUME Tick PROVE Contract!Next
  <2>1. Phase' = Phase
    BY <1>8 DEF Tick, Phase
  <2> QED BY <1>8, <2>1 DEF Tick, Contract!Next, Contract!Tick
<1>9. ASSUME UNCHANGED vars PROVE UNCHANGED Contract!vars
  BY <1>9 DEF vars, Contract!vars, Phase
<1> QED BY <1>1, <1>2, <1>3, <1>4, <1>5, <1>6, <1>7, <1>8, <1>9 DEF Next, Step, Serve, Drained

(* Whatever fails, is repeated or is run late, each call of the SQL stores
   takes effect at most once, in one step while it is in progress, and what it
   left behind when it was cut off stores nothing over a record.           *)
THEOREM StoreImplementsContract == Spec => ImplementsContract
<1>1. Init => Stamped /\ Contract!Init
  <2> SUFFICES ASSUME Init PROVE Stamped /\ Contract!Init
    OBVIOUS
  <2>1. Phase = [c \in Calls |-> "new"]
    BY DEF Init, Phase
  <2> QED BY <2>1 DEF Init, Stamped, Contract!Init
<1>2. IInv /\ Stamped /\ [Next]_vars => Stamped' /\ [Contract!Next]_(Contract!vars)
  BY StampedStep, NextRefines
<1> QED BY <1>1, <1>2, Invariance, PTL DEF Spec, ImplementsContract, Contract!Spec
=============================================================================
