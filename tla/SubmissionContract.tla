-------------------------- MODULE SubmissionContract --------------------------
(***************************************************************************)
(* What the SubmissionStore interface promises its callers, whatever the   *)
(* backend: a map from submission ids to records on which every call takes *)
(* effect in one indivisible step, between the moment it is made and the   *)
(* moment it returns.                                                      *)
(*                                                                         *)
(* Create is idempotent on the submission id: the first call stores the    *)
(* record, every later one changes nothing and is answered with the result *)
(* of the first.  A read lists each record it selects exactly once.        *)
(*                                                                         *)
(* The constants say what a backend may fall short of: MemoryStore falls   *)
(* short of nothing.  A call of SqlStore may fail, or be lost with the     *)
(* server, and its insert may then be run later, by itself; a repeated     *)
(* Create may fail, or be answered from its own parameters; parameters its *)
(* columns cannot hold are stored by no call, and neither those nor such a *)
(* filter need get more than an error; and a time is kept with the         *)
(* precision of its column.                                                *)
(***************************************************************************)
EXTENDS Submissions, SequencesExt

CONSTANTS
  Calls,           \* the calls made to the store, each by one goroutine
  Exact,           \* whether a repeated Create returns the original result
  Faults,          \* whether calls fail or are lost
  Unfit,           \* parameters the backend cannot hold
  UnfitFilters,    \* filters the backend cannot compare with
  Grain,           \* a time is kept to less than this
  Failure          \* any error but ErrNotFound

VARIABLES
  stored,          \* stored[id]: the record of id, or Nil
  limbo,           \* the inserts that may yet be run for nobody
  phase,           \* phase[c]: "new", then "pending", then "answered" or "lost"
  request,         \* request[c]: what call c asks, Nil before it is made
  answer,          \* answer[c]: the answer of c, Nil before it is decided
  since,           \* since[c]: when Create call c was made
  clock            \* the current time

vars == <<stored, limbo, phase, request, answer, since, clock>>

Init ==
  /\ stored = [i \in Ids |-> Nil]
  /\ limbo = {}
  /\ phase = [c \in Calls |-> "new"]
  /\ request = [c \in Calls |-> Nil]
  /\ answer = [c \in Calls |-> Nil]
  /\ since = [c \in Calls |-> 0]
  /\ clock = 0

Stored == {stored[i] : i \in {j \in Ids : stored[j] # Nil}}

InvokeCreate(c, p) ==
  /\ phase[c] = "new"
  /\ phase' = [phase EXCEPT ![c] = "pending"]
  /\ request' = [request EXCEPT ![c] = [op |-> "Create", params |-> p]]
  /\ since' = [since EXCEPT ![c] = clock]
  /\ UNCHANGED <<stored, limbo, answer, clock>>

InvokeRead(c, r) ==
  /\ phase[c] = "new"
  /\ phase' = [phase EXCEPT ![c] = "pending"]
  /\ request' = [request EXCEPT ![c] = r]
  /\ UNCHANGED <<stored, limbo, answer, since, clock>>

Answer(c, a) ==
  /\ phase' = [phase EXCEPT ![c] = "answered"]
  /\ answer' = [answer EXCEPT ![c] = a]
  /\ UNCHANGED <<request, since, clock>>

Pending(c, op) == phase[c] = "pending" /\ request[c].op = op

(* The records of parameters p that was received at time t. *)
Kept(p, t) == {Record(p, u) : u \in (t - Grain) + 1 .. (t + Grain) - 1}

InsertIfAbsent(r) == stored' = [stored EXCEPT ![r.id] = IF @ = Nil THEN r ELSE @]

(* The first Create of an id: the record carries a time at which the call
   was in progress.                                                        *)
CreateFirst(c) ==
  /\ Pending(c, "Create")
  /\ LET p == request[c].params IN
     /\ p \notin Unfit
     /\ stored[p.id] = Nil
     /\ \E t \in since[c] .. clock : \E r \in Kept(p, t) :
          InsertIfAbsent(r) /\ Answer(c, Result(Record(p, t)))
  /\ UNCHANGED limbo

CreateAgain(c) ==
  /\ Pending(c, "Create")
  /\ LET p == request[c].params IN
     /\ stored[p.id] # Nil
     /\ \/ Answer(c, Result(stored[p.id]))
        \/ ~Exact /\ \E t \in since[c] .. clock : Answer(c, Result(Record(p, t)))
        \/ ~Exact /\ Answer(c, Failure)
  /\ UNCHANGED <<stored, limbo>>

(* What the backend cannot hold is an error and changes nothing. *)
Reject(c) ==
  /\ \/ Pending(c, "Create") /\ request[c].params \in Unfit
     \/ Pending(c, "List") /\ request[c].filter \in UnfitFilters
  /\ Answer(c, Failure)
  /\ UNCHANGED <<stored, limbo>>

GetByID(c) ==
  /\ Pending(c, "GetByID")
  /\ LET r == stored[request[c].id] IN
     Answer(c, IF r = Nil THEN NotFound ELSE r)
  /\ UNCHANGED <<stored, limbo>>

(* The order in which a run lists its submissions is not promised: the
   memory store uses the order of insertion, the SQL ones the newest first. *)
GetRun(c) ==
  /\ Pending(c, "GetRun")
  /\ LET selected == {Summary(r) : r \in {q \in Stored : q.run = request[c].run}}
     IN  \/ selected = {} /\ Answer(c, NotFound)
         \/ selected # {} /\ \E s \in SetToSeqs(selected) : Answer(c, s)
  /\ UNCHANGED <<stored, limbo>>

List(c) ==
  /\ Pending(c, "List")
  /\ \E s \in SetToSeqs({Summary(r) :
                r \in {q \in Stored : Matches(q, request[c].filter)}}) :
       NewestFirst(s) /\ Answer(c, s)
  /\ UNCHANGED <<stored, limbo>>

(* The calls of C end without an answer of the backend: the insert of a Create
   may be left behind, and nothing else.                                   *)
CutOff(C) ==
  /\ limbo \subseteq limbo'
  /\ \A r \in limbo' \ limbo : \E c \in C :
       /\ Pending(c, "Create")
       /\ request[c].params \notin Unfit
       /\ \E t \in since[c] .. clock : r \in Kept(request[c].params, t)
  /\ UNCHANGED stored

Fail(c) ==
  /\ Faults
  /\ phase[c] = "pending"
  /\ CutOff({c})
  /\ Answer(c, Failure)

(* The server goes down with every call in progress. *)
Crash ==
  LET C == {c \in Calls : phase[c] = "pending"} IN
  /\ Faults
  /\ CutOff(C)
  /\ phase' = [c \in Calls |-> IF c \in C THEN "lost" ELSE phase[c]]
  /\ UNCHANGED <<request, answer, since, clock>>

(* What was left behind is run after all. *)
LateInsert(r) ==
  /\ limbo' = limbo \ {r}
  /\ InsertIfAbsent(r)
  /\ UNCHANGED <<phase, request, answer, since, clock>>

Tick == clock' = clock + 1 /\ UNCHANGED <<stored, limbo, phase, request, answer, since>>

Next ==
  \/ \E c \in Calls :
       \/ \E p \in Params : InvokeCreate(c, p)
       \/ \E r \in Reads : InvokeRead(c, r)
       \/ CreateFirst(c) \/ CreateAgain(c) \/ Reject(c)
       \/ GetByID(c) \/ GetRun(c) \/ List(c)
       \/ Fail(c)
  \/ Crash
  \/ \E r \in limbo : LateInsert(r)
  \/ Tick

Spec == Init /\ [][Next]_vars
=============================================================================
