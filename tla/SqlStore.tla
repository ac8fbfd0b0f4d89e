------------------------------- MODULE SqlStore -------------------------------
(***************************************************************************)
(* services.PostgresStore and services.SQLServerStore over one table.      *)
(*                                                                         *)
(* The server keeps no state of its own: a call is the goroutine of one    *)
(* request, it sends one batch to the database and returns what it made of *)
(* the answer.  The database runs a statement indivisibly.  Create is one  *)
(* statement for PostgreSQL (INSERT ... ON CONFLICT DO NOTHING) and two    *)
(* for SQL Server (IF NOT EXISTS (SELECT ...) and INSERT), between which   *)
(* other statements run.                                                   *)
(*                                                                         *)
(* The connection may fail and the server may crash while a batch runs.    *)
(* The caller then has an error, or no answer, and does not know whether   *)
(* the batch took effect; the database may even run it later.  A client    *)
(* that tries again makes another call with the same parameters.           *)
(***************************************************************************)
EXTENDS Submissions, SequencesExt

CONSTANTS
  Calls,           \* the calls made to the store, each by one goroutine
  Drivers,         \* what DB_DRIVER may be
  Faults,          \* whether connections fail and the server crashes
  Unfit,           \* parameters a column cannot hold (INTEGER, NVARCHAR(n))
  UnfitFilters,    \* filters with a year or quarter no INTEGER column holds
  Grain,           \* what received_at is rounded to, in units of the clock
  Failure,         \* any error but ErrNotFound
  MaxClock         \* bound on the clock, for model checking

ASSUME DriversAssumption == Drivers \subseteq {"postgres", "sqlserver"}
ASSUME UnfitAssumption == Unfit \subseteq Params
ASSUME UnfitFiltersAssumption ==
  /\ UnfitFilters \subseteq Filters
  /\ \A f \in UnfitFilters : \A p \in Params \ Unfit : ~Matches(p, f)
ASSUME GrainAssumption == Grain \in Nat \ {0}
ASSUME FailureAssumption ==
  Failure \notin Records \cup Results \cup Seq(Summaries) /\ Failure # NotFound
ASSUME ClockAssumption == MaxClock \in Nat

VARIABLES
  driver,          \* DB_DRIVER: which of the two stores NewStore made
  table,           \* the rows of submissions by primary key, Nil for none
  orphans,         \* inserts the database may still run for nobody
  pc,              \* new, then exec (or insert), then done or lost
  request,         \* the arguments of each call, Nil before it is made
  reply,           \* what each call returned, Nil before it returns
  receivedAt,      \* the local variable receivedAt of each Create
  clock,           \* time.Now()
  failed,          \* history: the calls whose batch met a fault
  known            \* history: the ids acknowledged before each call was made

vars == <<driver, table, orphans, pc, request, reply, receivedAt, clock, failed, known>>

Goto(c, point) == pc' = [pc EXCEPT ![c] = point]
Return(c, value) == Goto(c, "done") /\ reply' = [reply EXCEPT ![c] = value]

InFlight == {c \in Calls : pc[c] \in {"exec", "insert"}}
IsCreate(c) == request[c] # Nil /\ request[c].op = "Create"
IdOf(c) == request[c].params.id
Fits(c) == request[c].params \notin Unfit

Acknowledged ==
  {IdOf(c) : c \in {d \in Calls : pc[d] = "done" /\ IsCreate(d) /\ reply[d] # Failure}}

(* received_at as its column keeps it, in multiples of Grain: PostgreSQL
   rounds to the nearest (TIMESTAMPTZ keeps microseconds), the driver of SQL
   Server cuts off (DATETIME2 keeps units of 100 nanoseconds).             *)
ColumnTime(t) ==
  LET n == IF driver = "postgres" THEN (2 * t + Grain) \div (2 * Grain) ELSE t \div Grain
  IN  n * Grain

(* Mutant: the time is not among the columns. *)
RowUnstamped(c) == request[c].params

(* The row and the answer a Create makes of the same parameters. *)
Row(c) == Record(request[c].params, ColumnTime(receivedAt[c]))
OwnResult(c) == Result(Record(request[c].params, receivedAt[c]))

(* INSERT of a row whose key may be taken. *)
InsertIfAbsent(r) == table' = [table EXCEPT ![r.id] = IF @ = Nil THEN r ELSE @]

(* NewStore, called once by main. *)
Init ==
  /\ driver \in Drivers
  /\ table = [i \in Ids |-> Nil]
  /\ orphans = {}
  /\ pc = [c \in Calls |-> "new"]
  /\ request = [c \in Calls |-> Nil]
  /\ reply = [c \in Calls |-> Nil]
  /\ receivedAt = [c \in Calls |-> 0]
  /\ clock = 0
  /\ failed = {}
  /\ known = [c \in Calls |-> {}]

-----------------------------------------------------------------------------
InvokeCreate(c, p) ==
  /\ pc[c] = "new"
  /\ Goto(c, "exec")
  /\ request' = [request EXCEPT ![c] = [op |-> "Create", params |-> p]]
  /\ receivedAt' = [receivedAt EXCEPT ![c] = clock]
  /\ known' = [known EXCEPT ![c] = Acknowledged]
  /\ UNCHANGED <<table, orphans, reply, clock, failed>>

InvokeRead(c, r) ==
  /\ pc[c] = "new"
  /\ Goto(c, "exec")
  /\ request' = [request EXCEPT ![c] = r]
  /\ known' = [known EXCEPT ![c] = Acknowledged]
  /\ UNCHANGED <<table, orphans, reply, receivedAt, clock, failed>>

Executing(c, op) ==
  /\ pc[c] = "exec"
  /\ request[c].op = op
  /\ UNCHANGED <<orphans, request, receivedAt, clock, failed, known>>

(* Mutant: ON CONFLICT (submission_id) DO UPDATE. *)
PgUpsert(c) ==
  /\ driver = "postgres"
  /\ Executing(c, "Create")
  /\ IF Fits(c)
     THEN table' = [table EXCEPT ![IdOf(c)] = Row(c)] /\ Return(c, OwnResult(c))
     ELSE Return(c, Failure) /\ UNCHANGED table

(* Mutant: without ON CONFLICT a taken key is an error. *)
PgInsertOnly(c) ==
  /\ driver = "postgres"
  /\ Executing(c, "Create")
  /\ IF Fits(c) /\ table[IdOf(c)] = Nil
     THEN InsertIfAbsent(Row(c)) /\ Return(c, OwnResult(c))
     ELSE Return(c, Failure) /\ UNCHANGED table

(* Mutant: the statement is run by a goroutine nobody waits for. *)
PgCreateLater(c) ==
  /\ driver = "postgres"
  /\ pc[c] = "exec" /\ IsCreate(c)
  /\ orphans' = orphans \cup {Row(c)}
  /\ Return(c, OwnResult(c))
  /\ UNCHANGED <<table, request, receivedAt, clock, failed, known>>

(* PostgresStore.Create: the one statement takes effect and returns.  The
   number of rows it inserted is not looked at: the answer is made from the
   parameters whether or not the row is.                                   *)
PgCreate(c) ==
  /\ driver = "postgres"
  /\ Executing(c, "Create")
  /\ IF Fits(c)
     THEN InsertIfAbsent(Row(c)) /\ Return(c, OwnResult(c))
     ELSE Return(c, Failure) /\ UNCHANGED table

(* SQLServerStore.Create, IF NOT EXISTS: a known id ends the batch. *)
MsExists(c) ==
  /\ driver = "sqlserver"
  /\ Executing(c, "Create")
  /\ IF table[IdOf(c)] = Nil
     THEN Goto(c, "insert") /\ UNCHANGED reply
     ELSE Return(c, OwnResult(c))
  /\ UNCHANGED table

(* Mutant: without the primary key the INSERT overwrites what it should
   find.                                                                   *)
MsInsertNoKey(c) ==
  /\ pc[c] = "insert"
  /\ IF Fits(c)
     THEN table' = [table EXCEPT ![IdOf(c)] = Row(c)] /\ Return(c, OwnResult(c))
     ELSE Return(c, Failure) /\ UNCHANGED table
  /\ UNCHANGED <<orphans, request, receivedAt, clock, failed, known>>

(* ... and INSERT: the primary key rejects an id stored meanwhile. *)
MsInsert(c) ==
  /\ pc[c] = "insert"
  /\ IF Fits(c) /\ table[IdOf(c)] = Nil
     THEN InsertIfAbsent(Row(c)) /\ Return(c, OwnResult(c))
     ELSE Return(c, Failure) /\ UNCHANGED table
  /\ UNCHANGED <<orphans, request, receivedAt, clock, failed, known>>

-----------------------------------------------------------------------------
(* SELECT ... WHERE submission_id, and scanSubmission. *)
GetByID(c) ==
  /\ Executing(c, "GetByID")
  /\ LET r == table[request[c].id] IN Return(c, IF r = Nil THEN NotFound ELSE r)
  /\ UNCHANGED table

Stored == {i \in Ids : table[i] # Nil}

(* What a SELECT of the rows with the keys I returns, in no order. *)
Rows(I) == {Summary(table[i]) : i \in I}

(* What ORDER BY received_at DESC may return of a set of rows. *)
Ordered(S) == {s \in SetToSeqs(S) : NewestFirst(s)}

(* SELECT ... WHERE run_reference, and scanRunStatus: no rows, no run. *)
GetRun(c) ==
  /\ Executing(c, "GetRun")
  /\ \E s \in Ordered(Rows({i \in Stored : table[i].run = request[c].run})) :
       Return(c, IF s = <<>> THEN NotFound ELSE s)
  /\ UNCHANGED table

(* PostgreSQL gives a parameter the type of the column it is compared with: one
   out of its range is an error.  SQL Server compares it as what it is.      *)
QueryFails(c) == driver = "postgres" /\ request[c].filter \in UnfitFilters

(* Mutant: the quarter is compared although none was asked for. *)
ListExactQuarter(c) ==
  /\ Executing(c, "List")
  /\ LET f == request[c].filter IN
     \/ QueryFails(c) /\ Return(c, Failure)
     \/ /\ ~QueryFails(c)
        /\ \E s \in Ordered(Rows({i \in Stored :
                    Matches(table[i], f) /\ table[i].quarter = f.quarter})) :
             Return(c, s)
  /\ UNCHANGED table

(* SELECT ... WHERE holding_number, with a condition for each filter that is
   positive, and scanSummaries, which sorts the rows once more.            *)
List(c) ==
  /\ Executing(c, "List")
  /\ \/ QueryFails(c) /\ Return(c, Failure)
     \/ /\ ~QueryFails(c)
        /\ \E s \in Ordered(Rows({i \in Stored : Matches(table[i], request[c].filter)})) :
             Return(c, s)
  /\ UNCHANGED table

-----------------------------------------------------------------------------
(* Faults.  The insert of a call that is cut off either never reaches the
   database or is run by it, sooner or later.                              *)
CutOff(C) ==
  /\ failed' = failed \cup C
  /\ \E S \in SUBSET {c \in C : IsCreate(c) /\ Fits(c)} :
       orphans' = orphans \cup {Row(c) : c \in S}

(* The connection fails while the batch of a call runs: the call returns the
   error of the driver.                                                    *)
ConnectionLost(c) ==
  /\ Faults
  /\ c \in InFlight
  /\ CutOff({c})
  /\ Return(c, Failure)
  /\ UNCHANGED <<table, request, receivedAt, clock, known>>

(* The server crashes and is started again: every call in flight is gone. *)
Crash ==
  /\ Faults
  /\ InFlight # {}
  /\ CutOff(InFlight)
  /\ pc' = [c \in Calls |-> IF c \in InFlight THEN "lost" ELSE pc[c]]
  /\ UNCHANGED <<table, request, reply, receivedAt, clock, known>>

(* The database runs an insert nobody waits for. *)
RunOrphan(r) ==
  /\ orphans' = orphans \ {r}
  /\ InsertIfAbsent(r)
  /\ UNCHANGED <<pc, request, reply, receivedAt, clock, failed, known>>

(* The clock advances; MaxClock bounds it. *)
Tick ==
  /\ clock < MaxClock
  /\ clock' = clock + 1
  /\ UNCHANGED <<table, orphans, pc, request, reply, receivedAt, failed, known>>

(* Every call was made and has come to its end. *)
Drained == (\A c \in Calls : pc[c] \in {"done", "lost"}) /\ UNCHANGED vars

(* A step of the database, a connection or the clock. *)
Serve ==
  \/ \E c \in Calls :
       \/ PgCreate(c)
       \/ MsExists(c) \/ MsInsert(c)
       \/ GetByID(c) \/ GetRun(c) \/ List(c)
       \/ ConnectionLost(c)
  \/ \E r \in orphans : RunOrphan(r)
  \/ Tick

Step ==
  \/ \E c \in Calls :
       \/ \E p \in Params : InvokeCreate(c, p)
       \/ \E r \in Reads : InvokeRead(c, r)
  \/ Serve
  \/ Crash
  \/ Drained

Next == Step /\ UNCHANGED driver

Spec == Init /\ [][Next]_vars

-----------------------------------------------------------------------------
(* Properties *)

(* The variables have the types the code gives them. *)
TypeOK ==
  /\ driver \in Drivers
  /\ table \in [Ids -> Records \cup {Nil}]
  /\ orphans \in SUBSET Records
  /\ pc \in [Calls -> {"new", "exec", "insert", "done", "lost"}]
  /\ request \in [Calls -> Requests \cup {Nil}]
  /\ DOMAIN reply = Calls
  /\ \A c \in Calls :
       IF pc[c] = "done" /\ reply[c] # Failure
       THEN reply[c] \in Answers(request[c])
       ELSE reply[c] \in {Nil, Failure}
  /\ receivedAt \in [Calls -> Nat]
  /\ clock \in Nat
  /\ failed \in SUBSET Calls
  /\ known \in [Calls -> SUBSET Ids]

(* A row is never changed, replaced or removed, whatever is retried, cut off
   or run late: the first insert of an id is the one that counts.          *)
RowsImmutable ==
  [][\A i \in Ids : table[i] # Nil => table'[i] = table[i]]_vars

Lists(s, i) == s # NotFound /\ \E k \in DOMAIN s : s[k].id = i

Shows(c, i) ==
  /\ request[c].op = "GetByID" /\ request[c].id = i => reply[c] # NotFound
  /\ request[c].op = "GetRun" /\ table[i].run = request[c].run => Lists(reply[c], i)
  /\ request[c].op = "List" /\ Matches(table[i], request[c].filter) => Lists(reply[c], i)

(* A submission that was acknowledged, by this run of the server or by one
   that crashed since, is in the answer of every later read that succeeds
   and selects it.                                                         *)
AcknowledgedIsVisible ==
  \A c \in Calls : \A i \in known[c] : pc[c] = "done" /\ reply[c] # Failure => Shows(c, i)

(* The store implements the contract but for what its constants allow: each
   call takes effect at most once, at one step while it is in progress, and
   what it left behind when it was cut off takes effect later or never.    *)
Phase ==
  [c \in Calls |-> CASE pc[c] \in {"exec", "insert"} -> "pending"
                     [] pc[c] = "done" -> "answered"
                     [] OTHER -> pc[c]]

Contract == INSTANCE SubmissionContract WITH
  stored <- table, limbo <- orphans, phase <- Phase, answer <- reply,
  since <- receivedAt, Exact <- FALSE

ImplementsContract == Contract!Spec

(* Repeating a Create is safe: it fails only if the database does, or if the
   parameters do not fit the columns (README.md, "submitting the same
   submissionId twice is safe").                                           *)
RepeatingIsSafe ==
  \A c \in Calls :
    pc[c] = "done" /\ IsCreate(c) /\ reply[c] = Failure =>
      c \in failed \/ ~Fits(c)

(* ... which the one statement of PostgreSQL achieves. *)
RepeatingIsSafeOnPostgres == driver = "postgres" => RepeatingIsSafe

(* A Create that succeeds is answered with the result of the submission that
   is stored (README.md, "returns the original result").                   *)
ReturnsOriginalResult ==
  \A c \in Calls :
    pc[c] = "done" /\ IsCreate(c) /\ reply[c] # Failure =>
      reply[c] = Result(table[IdOf(c)])
=============================================================================
