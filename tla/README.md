# Corncrake in TLA+

Corncrake is a Go server that receives quarterly statistical returns over HTTP,
validates them and stores them in memory, PostgreSQL or SQL Server. This
directory holds TLA+ models of its stateful parts and of its validation, the TLC
configurations that check them on small instances, and proofs of their main
properties for every instance. `PROJECT.json` maps each definition to the lines of source it models.

## Inventory

| Part | Source | State | Operations | Hard behaviour |
|---|---|---|---|---|
| Memory store | `services/store.go` | `submissions`, `runs`, one `RWMutex` | `Create`, `GetByID`, `GetRun`, `List` | times read before the lock, a record read after it, two maps that must agree |
| SQL stores | `services/stores.go` | the table `submissions` | the same four, `migrate` | check-then-insert, retries, late inserts, crashes, widths of columns |
| Rate limiter | `middleware/ratelimit.go` | a map of buckets, one mutex | `allow`, cleanup every 5 minutes | buckets updated late and deleted |
| Revocation | `middleware/revocation.go` | `items`, one `RWMutex` | `Revoke`, `IsRevoked`, cleanup every 5 minutes | the time of the cleanup is read before the lock |
| Authentication | `middleware/auth.go` | none | `Authenticate`, `RequireSoftwareParams` | expiry and revocation are checked at different moments |
| Handlers | `handlers/submissions.go` | none | the four submission endpoints | order of the checks, errors they hide, path against body |
| EHECS tenant | `tenants/ehecs` | none | `ValidateSchema`, `ValidateLogic`, `ItemCount`, `Lookup` | two layers of validation that rely on each other |
| Tenant registry | `tenant/tenant.go` | a map written by `init` functions | `Register`, `Lookup`, `All` | duplicate IDs; none once the server runs |
| Periods, lookups | `handlers/lookups.go`, `tenants/ehecs/lookups.go` | none | `GetPeriods`, `GetLookup` | quarters across a new year, tables that must agree with the validation |
| Store factory | `services/db.go` | none | `NewStore` | several servers migrate one database, half-done migrations |
| Wiring | `main.go` | none | routes, middlewares, `enforceHTTPS`, `buildAuthConfig` | the order of the middlewares, failures while starting |
| Models, responses, health | `models`, `respond.go`, `health.go` | none | JSON | none |

**Interaction.** Each HTTP request has a goroutine of its own. It takes a token
from the limiter, is authenticated (the token is parsed, then looked up in the
revocation store), has its parameters checked and reaches a handler, which
validates the body with the tenant of the path and calls the store once. The
limiter, the revocation store and the memory store are shared by all goroutines
and by the two cleanup goroutines; the SQL stores share only the database, with
other instances of the server too, which may all start, and migrate it, at once.
There are no other messages or callbacks.

**What makes each part correct.**

* *Stores.* Every call takes effect at one instant. A submission id is stored
  once; its record never changes; every `Create` of the id is answered with that
  record. What was acknowledged is shown by every later read that selects it.
  Faults and repetitions do not break this.
* *Limiter.* It behaves as if every address had a bucket for ever that is always
  up to date: no window of time has more requests than the bucket allows, and
  none is refused without cause. Idle buckets go.
* *Authentication.* A token is accepted only if it was good when its request
  came; a revoked one only after it, or a token that shares its `jti`, has
  expired. Entries of expired tokens go.
* *Handlers.* What a client is told agrees with what is stored; a check that
  fails leaves no trace.
* *Validation, periods.* What is accepted meets the documented rules; what the
  server offers it accepts; its errors lead a client to a return it accepts.
* *Startup.* A server that listens has what its configuration asks for, and one
  whose configuration is right listens in the end.

## Modules

| Module | What it is |
|---|---|
| `Submissions` | the data of the stores: parameters, records, summaries, results, the filter and the order of `List` |
| `SubmissionContract` | what the interface `SubmissionStore` promises: a map on which each call takes effect in one step, and, as constants, what a backend may fall short of |
| `MemoryStore` | the memory store, one action for each access and each lock operation |
| `SqlStore` | both SQL stores, chosen by `driver`, over one table, with faults |
| `Tokens`, `TokenBucket` | what the limiter promises |
| `RateLimiter` | the limiter with its late refill and its cleanup |
| `Authentication` | what `Authenticate` promises: each request is judged in one step |
| `Revocation` | `Authenticate` and the revocation store with its cleanup |
| `SubmissionApi` | the middlewares and the four handlers over `SqlStore`: what is refused, stored and answered |
| `Ehecs` | the tenant `ehecs`: both layers of validation and the occupation codes |
| `Periods` | the quarters `GetPeriods` offers and their deadlines |
| `Reporting` | a client that asks for periods and occupations, posts returns and mends what the errors name |
| `Startup` | several servers from `init` to `ListenAndServe`, with `NewStore` and both `migrate`s |
| `MC...` | small instances for TLC |
| `...Proofs` | the proofs |

Definitions whose comment begins with "Mutant" are broken versions of a
definition; replacing the definition by one of them makes a property fail. They
document which mistake in the code each property guards against.

### MemoryStore

`pc[c]` is the program point of call `c`, `request[c]` its arguments, `reply[c]`
what it returned, `receivedAt[c]` its local variable. `writer` and `readers` are
the lock. A `Create` is the steps `InvokeCreate` (read the time, build the
record), `Lock`, then `Found` (unlock) and `ReturnExisting`, or `StoreRecord`,
`IndexRun` and `Unlock`. A read is `InvokeRead`, `RLock` and one step that
computes the value and unlocks: readers change nothing and no writer runs
meanwhile, so splitting it would add nothing, and `ReadersSeeExactIndex` states
exactly what makes that true. `known[c]` is a history variable: the ids
acknowledged before `c` was made.

The lock is any lock that excludes writers from readers and writers. Go's
`RWMutex` also makes new readers wait behind a waiting writer; that only removes
behaviours, and safety does not depend on it.

`NobodyWaitsForGood` says that whoever waits for the lock waits for a call that is
about to release it: every path of `Create`, each of which unlocks by hand, does.

`ImplementsContract` is the refinement, to the contract without any shortfall
(`Exact`, no `Faults`, no `limbo`). A `Create` that stores takes effect when
its record enters the map, one that finds its id when it finds it, a read when
it reads; the time of a record lies between the invocation of its `Create` and
that step.

### SqlStore

A call is one batch. The database runs a statement as a whole; PostgreSQL needs
one for `Create`, SQL Server two, between which other batches run. `Unfit` are
parameters a column cannot hold: `taxYear` and `quarter` come from `Atoi` on a
segment nothing validates, and the columns have 32 bits. `UnfitFilters` are
filters with such a year or quarter: PostgreSQL refuses the query
(`QueryFails`), SQL Server compares the number as it is and finds nothing. The
assumption on them is that no row a column can hold matches. `ConnectionLost` returns
an error to the caller, `Crash` ends every call in flight; in both cases the
insert may not have happened, or the database may run it at any later time
(`orphans`, `RunOrphan`). A client that tries again is another call with the same
parameters. `ColumnTime` is the loss of precision of `received_at`; the
behaviour of the databases and drivers is modelled from how the code uses them.

`ImplementsContract` is the refinement to the same contract, with the shortfalls
of this backend named by its constants: calls fail or are lost (`Faults`), the
inserts of those may be run later (`limbo` is `orphans`), a repeated `Create` may
be answered from its own parameters or fail (`~Exact`, findings 1 and 2), what
is unfit is an error without a trace (`Reject`; `CreateFirst` stores nothing
unfit), and a time is kept to its column's `Grain`. Everything else the memory store does
they must do too: a row is stored once, a first `Create` is answered with its
own result, a read is exact at one instant.

### RateLimiter

`allow` and the cleanup hold the mutex for their whole run and read the time
under it, so each is one action. A token is divided into `Token` parts, so that
fractions are integers; the rounding of floating-point numbers is left out.
`passed` and `refused` are history. The clock does not go backwards: Go compares
monotonic readings here.

`Level`, what the bucket would hold if it were brought up to date now, is the
refinement mapping to `TokenBucket`. A deletion is a stutter there only because
of `CutoffAssumption`: the idle time (600 s) is enough to fill a bucket (30
tokens at 1 token/s, `main.go`).

### Revocation

A request is `Arrive`, `Parse` (header, signature, `exp` and `nbf`) and `Check` (lookup,
then accepted or refused); between the two the clock, revocations and the cleanup
move on. The cleanup is `StartPruning` (the time is read) and `Prune` (the lock
is held). Nothing in the repository calls `Revoke`; the model takes its comment at
its word: the caller passes the token's `jti` and `exp`, so that a token that lacks
either cannot be revoked (`Revocable`). `jti`, `exp` and `nbf` may be missing, as
the library allows; of a token that is both expired and not yet good it joins
both errors, and `Authenticate` finds "expired" in the text. Two tokens may
share a `jti`. The store then keeps the `exp` it was given last, and the longer-lived
token is accepted again once the other has expired: `RevokedUntilExpired`
promises no more than that, which is enough where a `jti` names one token.
`Restart` empties the store, which is not saved. Clocks set back are not modelled.

`JudgesAtOnce` is the refinement to `Authentication`, where a request is judged in
one step, when `Parse` refuses it or `Check` decides, against every revocation
since the start. It says which judgements are possible, not only what
acceptance requires: no token is called revoked whose `jti` was not, or expired
before it was, and only a restart forgets a revocation.

### SubmissionApi

`http[c]` is the request goroutine `c` serves, `response[c]` what was written for
it, and the rest is `SqlStore` with the same goroutines. The checks of a request
(HTTPS, token, software parameters, holding, tenant, schema, logic) read nothing that
requests share, so they are one step: `Refuse` answers with the status of the
first that fails, `Admit` calls the store if none does, and `Limited` is the
limiter, which may refuse anything. What could go wrong between the checks is
therefore not explored, only that a missing one leaves a trace. `Verdict` is what the validation of a tenant
says of a body and `Atoi` what becomes of a text that should be a number; both
are constants, and the instance takes the verdicts of three returns from `Ehecs`.
`Production` is `APP_ENV`: only then does `enforceHTTPS` look at the protocol
the load balancer noted. The `Respond...` actions are what each handler makes of the
answer of the store, the errors it hides included. `ResponseLost` and
`ServerCrash` take the answer from the client, which sends another request.
`told[c]` is history: the ids answered with 201 before the request came. The
timeout of `main.go:65` cancels a context that no store looks at, so it has no
action. `UuidAssumption` is the documented duty of the client
(`docs/openapi.yaml:77`): one id, one submission; without it
`ReceiptMatchesRecord` fails for the reason of finding 1.

Rejected and accepted requests, lost answers and late inserts relate three
variables that no handler compares: `StoredWasChecked` (the table against the
checks of the requests), `ReceiptMatchesRecord` (a 201 against the row) and
`ShownToItsHolding` (a 200 against the token). `ReceivedIsShown` is the promise
behind a 201 end to end: a later answer that asks for the submission has it,
unless the store failed that very request (finding 3 is what happens then).

### Ehecs, Periods and Reporting

`Ehecs` is the two layers of validation as sets of errors. Texts are reduced to
whether they match (`ppsn`, `employmentId`); amounts and hours are only compared
with 0, with each other and with the cap, so integers stand for `float64`. An
empty list of employees ends `ValidateSchema` early, after the errors of the
header. `Validated` puts the layers together as `handlers.Create` does.

`Periods` counts months from year 0. `Previous` is one turn of the loop of
`GetPeriods`, and `Date` is what `time.Date` does with a month 13.

`Reporting` lets time pass, asks `GetPeriods` and `GetLookup`, posts arbitrary
returns (`Returns`) or a good one with a period and an occupation it was once
offered, and after a 400 or 422 mends exactly the fields the errors name
(`Correct`; a mended value satisfies the rule that was broken, not every rule).
Its properties are about how the layers and the tables fit together:
`AcceptedMeetsRules` is `README.md:177-179` and needs both layers, since each
leaves part of a rule to the other; `OfferedIsAccepted` compares
`handlers/lookups.go`, `ehecs/lookups.go` and `ehecs/ehecs.go`, which keep their
tables separately; `CorrectedIsAccepted` says that errors are complete: mending
what they name gets past the layer, and the client is refused at most once more.
`PeriodsAreRecent` compares quarters and deadlines with a count of months that
knows no years. The server calls all five periods open, also those whose
deadline has passed; nothing documents when a period closes, so no property
says anything about `status`.

### Startup

`stage[s]` is how far server `s` has come, `registry`, `mode` and `store` what it
has in memory, `todo` the rest of the loop or batch it is in, `catalog[d]` the
objects of database `d`. `Register` is the `init` function of a package (a
duplicate panics), `BuildAuthConfig` and `NewStore` go on or end the process, and
`Listen` fails if the address is taken. `migrate` is a batch of `Transactions`: PostgreSQL
runs it as one, SQL Server commits each statement by itself, so a half-done
migration stays. `Begin` is the `IF NOT EXISTS` of the next transaction, `Commit`
its end, which fails if another one created the same object meanwhile. `Fault` is
a crash or a lost connection anywhere, before or after the commit; a batch that is
cut off is not run later. A database may
hold part of the schema from the start. The comment at `services/stores.go:155`
says that SQL Server has "the same schema"; it lacks `idx_submissions_period`
(`Transactions`), which changes no answer, so it is not a finding here.

## Runs

| Run | Instance | Shows |
|---|---|---|
| `memory_store` | 3 calls, 2 ids, 2 runs, 2 holdings, clock to 1 | all safety properties, the refinement, `EveryCallReturns` |
| `sql_store` | both drivers, 3 calls, faults, one unfit parameter and one unfit filter, clock to 1, `Grain` 2 | the properties that survive faults, the refinement |
| `sql_postgres_original` | 2 calls, no fault | finding 1 |
| `sql_server_repeat` | 2 calls, no fault | finding 2 |
| `rate_limiter` | 2 addresses, bucket of 2 tokens, half a token per unit, clock to 6 | bounds, refinement, `IdleIsForgotten` |
| `revocation` | 2 requests, 4 tokens (two share a `jti`), clock to 3 | the decisions, the refinement, `ExpiredIsPruned` |
| `api` | both drivers, 3 requests out of 13, faults, production | checks, receipts, access, and that what was received is shown |
| `api_denied` | 2 requests, faults | finding 3 |
| `api_quarter` | 2 requests, no fault needed | finding 4 |
| `reporting` | returns with each fault and each pair of related ones; three histories of two months | rules, periods, tables, corrections |
| `reporting_numbers` | the same | finding 5 |
| `startup` | 2 servers, 11 builds and environments, one database of each kind, 1 fault | what serves is complete and as configured; liveness |

**Bounds.** Three calls are two `Create`s of one id that race and a read beside
them, or a `Create` of another id in the same run; two times are enough to
order receipts against the order of insertion. Three SQL calls are an
acknowledged `Create`, its repetition and a read, with one insert run late. Seven
readings of the clock let a bucket be emptied, be deleted (after 5)
and be used again. Two tokens with one `jti` expire at 2 and at 4: the entry of
the first can be pruned at 3 and a request with the second, which is still good,
be looked up afterwards; the other two lack `jti` and `exp` (and are not
good before 1) or do not verify.
Three requests are a submission, its repetition after a lost answer, and a look at
it; the thirteen requests are one good one for each endpoint, one for each way
to fail a check, and a list with a quarter no column holds. The returns take every checked field out of its range, the
fields of the rules to their boundaries, alone and in pairs, and combine two
employees that are faulty in different ways; the histories are a turn of the year and both ends of the
years the schema admits. Two servers are enough for each race over an
object, and one fault stops a migration anywhere once; either server may start
on any part of the schema, which stands for earlier faults. Every safety property
of a passing run is also proved without bounds. Symmetry is used for the
calls of `sql_store` only, where no liveness is checked.

**Deadlock** is checked in every run. `Drained` lets a model whose calls have all
returned stutter, so that a call that waits for ever is a deadlock.

**Fairness.** `MemoryStore`: a goroutine that can proceed does (the scheduler is
preemptive, and `RWMutex` starves nobody); nobody has to make a call.
`RateLimiter` and `Revocation`: the tickers fire for ever and the cleanup gets
its lock, which nobody holds for longer than a few map accesses. `Startup`: a process
that runs goes on, since nothing before `ListenAndServe` waits for another server,
and what has stopped is started again; that is the duty of whoever runs the
servers, and "safe to run on every startup" (`services/stores.go:29`) supposes it.
`EventuallyServes` needs no fairness between the two servers: whoever loses the
race for an object finds it there next time.

## Findings

1. `PostgresStore.Create` answers a repeated submission from its own parameters
   (`services/stores.go:90`); `README.md:122` says that submitting the same
   `submissionId` twice "returns the original result". In the counterexample
   the second `Create` of the id names another run and payload and is told they
   were received. The code path is the same on SQL Server.
2. `SQLServerStore.Create` checks and inserts without a lock
   (`services/stores.go:219`); of two concurrent `Create`s of one id the later
   gets an error, where `README.md:122` calls it safe. Nothing is stored twice.
3. `GetSubmission` answers any error of the store with 404
   (`handlers/submissions.go:112`): when the connection to the database fails, a
   client is told that its acknowledged submission is not found.
   `ListSubmissions` drops the error (`handlers/submissions.go:153`) and answers
   200 with an empty list.
4. The year and quarter of the path are not checked
   (`handlers/submissions.go:35`): quarter "Q1" is stored as 0, while
   `docs/openapi.yaml:238` has it between 1 and 4. That the body passed the
   check of its own quarter does not help: the two are never compared.
5. `ValidateSchema` checks six numbers of an employee
   (`tenants/ehecs/ehecs.go:80`); `bonuses`, `allowances`, `shiftPremiums` and
   `otherSubsidies` may be negative, while `README.md:177` says "all numeric
   fields ≥ 0". `docs/openapi.yaml:309-316` sides with the code on the first two: it
   gives them no minimum.

## Proofs

All proofs are checked by TLAPS with the assumptions named in the modules
(`...Assumption`) and nothing else; none needs the bound on the clock.

* **`MemoryStoreProofs`**: `IInv` joins the types, mutual exclusion (a call
  between `Lock` and unlock is the writer, and a writer excludes readers), the
  exactness of the index, what a decided call knows (its id is stored, and with
  its own record if it stored it), and what readers were promised (the ids in
  `known` stay stored). The index is exact only together with the exclusion: the
  id a writer indexes must not have been indexed already. Immutability and
  visibility follow from the invariant, and so does `NoDeadlock`: whoever has
  the lock is at a point from which it goes on to release it.
  The second half of the module is the refinement: each step is a step of
  `SubmissionContract` or a stutter.
* **`TokenBucketProofs`**: for an ideal bucket, what passed from the i-th request
  on and what is left never exceed the full bucket and the gain since
  (`Spent`), and it holds at least what it gained since the last request
  (`Gained`). The two promises follow.
* **`RateLimiterProofs`**: the limiter refines `TokenBucket`, so both promises are
  its own. The step that needs an argument is the cleanup: an idle bucket is full.
* **`RevocationProofs`**: a revoked `jti` has an entry until a token that carries it
  has expired (`Kept`), whatever the cleanup and other revocations do. For the
  refinement the converse is needed too: what is in the store was revoked
  since the start (`Listed`).
* **`SqlStoreProofs`**: `IInv` joins the types, the program points each store has,
  that rows are stored under their own key (`Keyed`), that what was
  acknowledged or known is stored, that a call answers from what it asked
  (`AnswersOwn`), and that every row and every insert still to be run was asked
  for by a `Create` that fits (`RowsAsked`). The late inserts are why it takes more than the
  properties: a batch run after a crash must neither overwrite a row nor bring
  one nobody asked for. Immutability follows because every way to write, the
  late one included, goes through `InsertIfAbsent` or fails; visibility because
  `known` only names stored rows and a read in flight completes from the table.
  `ReadsExplained` is the other side: an answer without a known row is a failure,
  due to a fault or to a filter that matches nothing stored (`UnfitSelectsNothing`).
  The refinement has one step per way a call ends. A first insert needs
  `RowKept`: the row carries the time its column keeps of a moment within the
  call, which `ColumnTimeNear` puts less than `Grain` from it; a lost call needs
  that its orphan is an insert the contract may keep in `limbo`.
* **`SubmissionApiProofs`**: the endpoints implement `SqlStore`
  (`CallsStoreAsSpecified`), and the invariant of the store is part of theirs. What
  is added is the link between the two sides: a call in the store belongs to an
  admitted request and asks what that request wants (`Linked`), and a response is
  what the handler makes of the store's answer (`Responses`). `StoredPassedChecks`
  joins `RowsAsked` with `Linked`: a row leads to a `Create`, the `Create` to its
  request, the request to its checks. `ReceiptsMatch` uses `UuidAssumption` to
  identify the row with the request that was answered. `ReceivedStaysShown` goes
  through both sides: what the client was told is known to the store when it
  is called (`told` within `known`), the store's answer has it
  (`AcknowledgedIsVisible`, `ReadsExplained`), and the handler shows that answer.
* **`ReportingProofs`**: `RInv` keeps that the answer is what the two layers say of
  the return, and that the client holds what it was given when it last asked.
  Four of the theorems are then facts about `Validated`, `PeriodsAt` and
  `OccupationCodes` for all integers and all months, with `StartsAssumption` (the
  server runs between 2009 and 2099, the years of the schema check less one for
  the quarters counted back). `CorrectionSuffices` follows each field through
  `Correct`: the errors of a layer name every field that is wrong in it and no
  mended value breaks a rule of the same layer, so the return passes it; the
  fields the logical layer names stay within the ranges of the schema, so
  mending them does not bring the return back to the first layer.
  `TemplateAssumption` (the good return the client fills in passes the schema)
  is what gives every mended field a value to take.
* **`StartupProofs`**: `SInv` says, for each stage a server can be in, what it has
  by then: every package is registered or still in the loop (`Registering`), every
  object of the schema exists or is still in a transaction to come (`Migrating`).
  The second holds under the steps of other servers because objects are created
  and never dropped (`Grows`), and so at the end of the batch nothing is missing.

Model-checked only: the liveness properties (`EveryCallReturns`,
`IdleIsForgotten`, `ExpiredIsPruned`, `EventuallyServes`), which the prover does not
support; every other property of a passing run is a theorem. The five findings are
counterexamples, so there is nothing to prove about them.

## Order of the work

The stores and the limiter came first, then the endpoints over the SQL stores,
then `Ehecs`, `Periods`, `Reporting` and `Startup`; each module was checked before
anything about it was proved. The refinements of both backends to one
contract and of authentication to one step, and the corrections of returns,
were proved last. What would come next: the endpoints over
`SubmissionContract`, so that what holds of them holds over either backend.

## Not modelled

* HTTP parsing, JSON layout, headers, logging, the 404 handler, the recoverer and
  the health endpoint: no state, or pure I/O. No handler panics in the model.
* Signatures: the library decides whether a token verifies.
* The lengths and collations of texts (`services/stores.go:193`): `Unfit` stands
  for parameters a column refuses; ids that differ only in case are outside the
  model.
* The rounding of floating-point numbers, in the limiter and in the amounts.
* `tenant.All`, which nothing calls, and labels and formats of the lookups.
