------------------------------ MODULE MemoryStore ------------------------------
(***************************************************************************)
(* services.MemoryStore: two maps, the submissions by id and the ids by    *)
(* run reference, under one sync.RWMutex.  Each call of the store is made  *)
(* by the goroutine that serves one HTTP request, so a call is made once   *)
(* and returns once; what one goroutine does without holding the lock      *)
(* interleaves with every other.                                           *)
(*                                                                         *)
(* A call goes through the program points of its function:                 *)
(*   Create                 new, lock, check, index, unlock, done          *)
(*   ... of a stored id     new, lock, check, existing, done               *)
(*   GetByID, GetRun, List  new, rlock, read, done                         *)
(***************************************************************************)
EXTENDS Submissions, SequencesExt

CONSTANTS
  Calls,           \* the calls made to the store, each by one goroutine
  MaxClock         \* bound on the clock, for model checking

ASSUME CallsAssumption == Nil \notin Calls
ASSUME MaxClockAssumption == MaxClock \in Nat

VARIABLES
  submissions,     \* MemoryStore.submissions; Nil where the map has no key
  runs,            \* MemoryStore.runs; <<>> where the map has no key
  writer,          \* the call that holds mu for writing, or Nil
  readers,         \* the calls that hold mu for reading
  pc,              \* the program point of each call
  request,         \* the arguments of each call, Nil before it is made
  reply,           \* what each call returned, Nil before it returns
  receivedAt,      \* the local variable receivedAt of each Create
  clock,           \* time.Now()
  known            \* history: the ids acknowledged before each call was made

vars == <<submissions, runs, writer, readers, pc, request, reply, receivedAt,
          clock, known>>

Goto(c, point) == pc' = [pc EXCEPT ![c] = point]

Return(c, value) == Goto(c, "done") /\ reply' = [reply EXCEPT ![c] = value]

(* The id and the record of Create call c. *)
IdOf(c) == request[c].params.id
NewRecord(c) == Record(request[c].params, receivedAt[c])

IsCreate(c) == request[c] # Nil /\ request[c].op = "Create"

Acknowledged == {IdOf(c) : c \in {d \in Calls : pc[d] = "done" /\ IsCreate(d)}}

Init ==
  /\ submissions = [i \in Ids |-> Nil]
  /\ runs = [r \in Runs |-> <<>>]
  /\ writer = Nil
  /\ readers = {}
  /\ pc = [c \in Calls |-> "new"]
  /\ request = [c \in Calls |-> Nil]
  /\ reply = [c \in Calls |-> Nil]
  /\ receivedAt = [c \in Calls |-> 0]
  /\ clock = 0
  /\ known = [c \in Calls |-> {}]

-----------------------------------------------------------------------------
(* Create *)

(* The call begins: the time is read, and the record built, before the lock
   is taken.                                                               *)
InvokeCreate(c, p) ==
  /\ pc[c] = "new"
  /\ Goto(c, "lock")
  /\ request' = [request EXCEPT ![c] = [op |-> "Create", params |-> p]]
  /\ receivedAt' = [receivedAt EXCEPT ![c] = clock]
  /\ known' = [known EXCEPT ![c] = Acknowledged]
  /\ UNCHANGED <<submissions, runs, writer, readers, reply, clock>>

(* Mutant: the map is locked for reading only. *)
LockShared(c) ==
  /\ pc[c] = "lock"
  /\ writer' = c
  /\ Goto(c, "check")
  /\ UNCHANGED <<submissions, runs, readers, request, reply, receivedAt, clock,
                 known>>

(* s.mu.Lock() *)
Lock(c) ==
  /\ pc[c] = "lock"
  /\ writer = Nil
  /\ readers = {}
  /\ writer' = c
  /\ Goto(c, "check")
  /\ UNCHANGED <<submissions, runs, readers, request, reply, receivedAt, clock,
                 known>>

(* Mutant: the early return of a known id forgets to unlock. *)
FoundKeepsLock(c) ==
  /\ pc[c] = "check"
  /\ submissions[IdOf(c)] # Nil
  /\ Goto(c, "existing")
  /\ UNCHANGED <<submissions, runs, writer, readers, request, reply, receivedAt,
                 clock, known>>

(* The id is known: the lock is released before the record is looked at. *)
Found(c) ==
  /\ pc[c] = "check"
  /\ submissions[IdOf(c)] # Nil
  /\ writer' = Nil
  /\ Goto(c, "existing")
  /\ UNCHANGED <<submissions, runs, readers, request, reply, receivedAt, clock,
                 known>>

(* Mutant: a repeated call is answered with its own parameters. *)
ReturnRequested(c) ==
  /\ pc[c] = "existing"
  /\ Return(c, Result(NewRecord(c)))
  /\ UNCHANGED <<submissions, runs, writer, readers, request, receivedAt, clock,
                 known>>

(* The result of the record that was found, read through its pointer after
   the lock was released.                                                  *)
ReturnExisting(c) ==
  /\ pc[c] = "existing"
  /\ Return(c, Result(submissions[IdOf(c)]))
  /\ UNCHANGED <<submissions, runs, writer, readers, request, receivedAt, clock,
                 known>>

(* Mutant: a known id is stored again. *)
StoreAlways(c) ==
  /\ pc[c] = "check"
  /\ submissions' = [submissions EXCEPT ![IdOf(c)] = NewRecord(c)]
  /\ Goto(c, "index")
  /\ UNCHANGED <<runs, writer, readers, request, reply, receivedAt, clock, known>>

(* Mutant: the record is stored without the time it was received. *)
StoreUnstamped(c) ==
  /\ pc[c] = "check"
  /\ submissions[IdOf(c)] = Nil
  /\ submissions' = [submissions EXCEPT ![IdOf(c)] = request[c].params]
  /\ Goto(c, "index")
  /\ UNCHANGED <<runs, writer, readers, request, reply, receivedAt, clock, known>>

(* The id is new: the record enters the map. *)
StoreRecord(c) ==
  /\ pc[c] = "check"
  /\ submissions[IdOf(c)] = Nil
  /\ submissions' = [submissions EXCEPT ![IdOf(c)] = NewRecord(c)]
  /\ Goto(c, "index")
  /\ UNCHANGED <<runs, writer, readers, request, reply, receivedAt, clock, known>>

(* Mutant: the run is replaced where its ids should be extended. *)
IndexOnlyLast(c) ==
  /\ pc[c] = "index"
  /\ runs' = [runs EXCEPT ![request[c].params.run] = <<IdOf(c)>>]
  /\ Goto(c, "unlock")
  /\ UNCHANGED <<submissions, writer, readers, request, reply, receivedAt, clock,
                 known>>

(* ... and its id the run. *)
IndexRun(c) ==
  /\ pc[c] = "index"
  /\ runs' = [runs EXCEPT ![request[c].params.run] = Append(@, IdOf(c))]
  /\ Goto(c, "unlock")
  /\ UNCHANGED <<submissions, writer, readers, request, reply, receivedAt, clock,
                 known>>

(* s.mu.Unlock(), and the result made from the parameters. *)
Unlock(c) ==
  /\ pc[c] = "unlock"
  /\ writer' = Nil
  /\ Return(c, Result(NewRecord(c)))
  /\ UNCHANGED <<submissions, runs, readers, request, receivedAt, clock, known>>

-----------------------------------------------------------------------------
(* GetByID, GetRun and List *)

InvokeRead(c, r) ==
  /\ pc[c] = "new"
  /\ Goto(c, "rlock")
  /\ request' = [request EXCEPT ![c] = r]
  /\ known' = [known EXCEPT ![c] = Acknowledged]
  /\ UNCHANGED <<submissions, runs, writer, readers, reply, receivedAt, clock>>

(* Mutant: a reader does not wait for the writer. *)
RLockAnyTime(c) ==
  /\ pc[c] = "rlock"
  /\ readers' = readers \cup {c}
  /\ Goto(c, "read")
  /\ UNCHANGED <<submissions, runs, writer, request, reply, receivedAt, clock,
                 known>>

(* s.mu.RLock() *)
RLock(c) ==
  /\ pc[c] = "rlock"
  /\ writer = Nil
  /\ readers' = readers \cup {c}
  /\ Goto(c, "read")
  /\ UNCHANGED <<submissions, runs, writer, request, reply, receivedAt, clock,
                 known>>

(* A read computes its value and releases the lock on the way out. *)
Reading(c, op) ==
  /\ pc[c] = "read"
  /\ request[c].op = op
  /\ readers' = readers \ {c}
  /\ UNCHANGED <<submissions, runs, writer, request, receivedAt, clock, known>>

GetByID(c) ==
  /\ Reading(c, "GetByID")
  /\ LET r == submissions[request[c].id] IN
     Return(c, IF r = Nil THEN NotFound ELSE r)

(* The summaries of the records of a run, in the order of the index.  The
   totals of models.RunStatus are functions of this sequence.              *)
RunSummaries(r) == [k \in DOMAIN runs[r] |-> Summary(submissions[runs[r][k]])]

GetRun(c) ==
  /\ Reading(c, "GetRun")
  /\ LET r == request[c].run IN
     Return(c, IF runs[r] = <<>> THEN NotFound ELSE RunSummaries(r))

Selected(f) ==
  {submissions[i] : i \in {j \in Ids : submissions[j] # Nil /\ Matches(submissions[j], f)}}

(* The map is visited in any order and the sort is not stable: any order of
   the selected records that is the newest first.                          *)
List(c) ==
  /\ Reading(c, "List")
  /\ \E s \in SetToSeqs({Summary(r) : r \in Selected(request[c].filter)}) :
       NewestFirst(s) /\ Return(c, s)

-----------------------------------------------------------------------------
(* The clock advances; MaxClock bounds it. *)
Tick ==
  /\ clock < MaxClock
  /\ clock' = clock + 1
  /\ UNCHANGED <<submissions, runs, writer, readers, pc, request, reply,
                 receivedAt, known>>

(* Every call was made and has returned. *)
Drained == (\A c \in Calls : pc[c] = "done") /\ UNCHANGED vars

(* What a goroutine does once its call is made. *)
Proceed(c) ==
  \/ Lock(c) \/ Found(c) \/ ReturnExisting(c)
  \/ StoreRecord(c) \/ IndexRun(c) \/ Unlock(c)
  \/ RLock(c) \/ GetByID(c) \/ GetRun(c) \/ List(c)

Next ==
  \/ \E c \in Calls :
       \/ \E p \in Params : InvokeCreate(c, p)
       \/ \E r \in Reads : InvokeRead(c, r)
       \/ Proceed(c)
  \/ Tick
  \/ Drained

Spec == Init /\ [][Next]_vars

(* A goroutine that can run does run: the Go scheduler is preemptive and
   sync.RWMutex passes on a lock that was released.  Nobody has to make a
   call.                                                                   *)
FairSpec == Spec /\ \A c \in Calls : WF_vars(Proceed(c))

-----------------------------------------------------------------------------
(* Properties *)

Points == {"new", "lock", "check", "index", "unlock", "existing", "rlock",
           "read", "done"}

(* The variables have the types the code gives them. *)
TypeOK ==
  /\ submissions \in [Ids -> Records \cup {Nil}]
  /\ runs \in [Runs -> Seq(Ids)]
  /\ writer \in Calls \cup {Nil}
  /\ readers \in SUBSET Calls
  /\ pc \in [Calls -> Points]
  /\ request \in [Calls -> Requests \cup {Nil}]
  /\ reply = [c \in Calls |-> reply[c]]
  /\ \A c \in Calls :
       IF pc[c] = "done" THEN reply[c] \in Answers(request[c]) ELSE reply[c] = Nil
  /\ receivedAt \in [Calls -> Nat]
  /\ clock \in Nat
  /\ known \in [Calls -> SUBSET Ids]

(* The two maps agree: every run lists exactly the ids of the records that
   carry it, each once, but for the record a writer has stored and not yet
   indexed.                                                                *)
Unindexed == {IdOf(c) : c \in {d \in Calls : pc[d] = "index"}}

IndexExact ==
  \A r \in Runs :
    /\ IsInjective(runs[r])
    /\ Range(runs[r]) =
         {i \in Ids : submissions[i] # Nil /\ submissions[i].run = r} \ Unindexed

(* No reader ever sees the index behind the records or ahead of them, so the
   loop of GetRun never follows an id without a record (a nil pointer) and
   never misses a record.                                                  *)
ReadersSeeExactIndex == readers # {} => IndexExact /\ Unindexed = {}

(* A record is never changed, replaced or removed: this is what lets Create
   and GetByID use a record through its pointer after the lock is released. *)
RecordsImmutable ==
  [][\A i \in Ids : submissions[i] # Nil => submissions'[i] = submissions[i]]_vars

(* Whoever stored it, a successful Create is answered with the record that is
   stored under its id.  With RecordsImmutable: all the Creates of one id get
   the same answer, for ever.                                              *)
CreateAnswersStored ==
  \A c \in Calls :
    pc[c] = "done" /\ IsCreate(c) =>
      /\ submissions[IdOf(c)] # Nil
      /\ reply[c] = Result(submissions[IdOf(c)])

Lists(s, i) == s # NotFound /\ \E k \in DOMAIN s : s[k].id = i

Shows(c, i) ==
  /\ request[c].op = "GetByID" /\ request[c].id = i => reply[c] # NotFound
  /\ request[c].op = "GetRun" /\ submissions[i].run = request[c].run => Lists(reply[c], i)
  /\ request[c].op = "List" /\ Matches(submissions[i], request[c].filter) => Lists(reply[c], i)

(* A submission that was acknowledged before a read was made is in the answer
   of the read, for each of the three reads, if the read selects it.       *)
AcknowledgedIsVisible ==
  \A c \in Calls : \A i \in known[c] : pc[c] = "done" => Shows(c, i)

(* The store implements the contract: each call takes effect at one step
   between its invocation and its return.  A Create that stores takes effect
   when its record enters the map, one that does not when it finds the id,
   and a read when it reads.  It falls short of nothing: no call fails, none
   leaves anything behind, and a time is kept as it was read.              *)
Decided(c) == pc[c] \in {"index", "unlock", "existing"}

Phase ==
  [c \in Calls |-> CASE pc[c] = "new" -> "new"
                     [] pc[c] \in {"lock", "check", "rlock", "read"} -> "pending"
                     [] OTHER -> "answered"]

Decision ==
  [c \in Calls |-> IF Decided(c) THEN Result(submissions[IdOf(c)]) ELSE reply[c]]

Contract == INSTANCE SubmissionContract WITH
  stored <- submissions, phase <- Phase, answer <- Decision, since <- receivedAt,
  limbo <- {}, Exact <- TRUE, Faults <- FALSE, Unfit <- {},
  UnfitFilters <- {}, Grain <- 1, Failure <- Nil

ImplementsContract == Contract!Spec

(* Who waits for the lock waits for a call that runs, which is not the waiter
   itself: no path keeps the lock, and nobody waits for everybody.         *)
Waits(c) ==
  \/ pc[c] = "lock" /\ (writer # Nil \/ readers # {})
  \/ pc[c] = "rlock" /\ writer # Nil

NobodyWaitsForGood ==
  \A c \in Calls : Waits(c) =>
    \E d \in Calls : pc[d] \notin {"new", "done"} /\ ~Waits(d)

(* Every call that is made returns. *)
EveryCallReturns ==
  \A c \in Calls : pc[c] # "new" ~> pc[c] = "done"
=============================================================================
