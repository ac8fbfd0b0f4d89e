--------------------------- MODULE MemoryStoreProofs ---------------------------
(***************************************************************************)
(* Proofs about MemoryStore, for any number of calls, ids, runs and         *)
(* parameters, and any bound on the clock.                                 *)
(***************************************************************************)
EXTENDS MemoryStore, FiniteSetTheorems, SequenceTheorems, TLAPS

(***************************************************************************)
(* The inductive invariant: TypeOK, IndexExact and CreateAnswersStored of   *)
(* MemoryStore, and the facts about the program points they rest on.       *)
(***************************************************************************)

Writing == {"check", "index", "unlock"}

(* A call past its first step has arguments, of the function it is in. *)
ArgumentsKnown ==
  \A c \in Calls :
    /\ pc[c] = "new" <=> request[c] = Nil
    /\ pc[c] \in Writing \cup {"lock", "existing"} => request[c] \in Creates
    /\ pc[c] \in {"rlock", "read"} => request[c] \in Reads

(* mu is held by the calls that are between its lock and its unlock, by one
   writer or by readers only.                                              *)
LockHeld ==
  /\ \A c \in Calls : writer = c <=> pc[c] \in Writing
  /\ readers = {c \in Calls : pc[c] = "read"}
  /\ writer # Nil => readers = {}

(* Every record is stored under its own id. *)
Keyed == \A i \in Ids : submissions[i] # Nil => submissions[i].id = i

(* A Create that has stored its record finds it in the map until it returns,
   and one that has found its id keeps finding a record.                    *)
InHand ==
  \A c \in Calls :
    /\ pc[c] \in {"index", "unlock"} => submissions[IdOf(c)] = NewRecord(c)
    /\ pc[c] = "existing" => submissions[IdOf(c)] # Nil

IInv ==
  /\ TypeOK
  /\ ArgumentsKnown
  /\ LockHeld
  /\ Keyed
  /\ InHand
  /\ IndexExact
  /\ CreateAnswersStored

-----------------------------------------------------------------------------
(* Facts about the data. *)

(* The record a Create builds, and what is answered about a record. *)
LEMMA RecordType ==
  ASSUME NEW p \in Params, NEW t \in Nat
  PROVE  /\ Record(p, t) \in Records
         /\ Record(p, t) # Nil
         /\ Record(p, t).id = p.id
         /\ Record(p, t).run = p.run
         /\ p.id \in Ids
         /\ p.run \in Runs
BY ParamsAssumption, NilAssumption DEF ParamsType, Records, Record

LEMMA SummaryType ==
  ASSUME NEW r \in Records
  PROVE  /\ Summary(r) \in Summaries
         /\ Result(r) \in Results
         /\ Summary(r).id = r.id
BY DEF Records, Summary, Summaries, Result, Results

(* A request tells by its op which function it calls. *)
LEMMA RequestType ==
  ASSUME NEW r \in Requests
  PROVE  /\ r.op = "Create" => r \in Creates /\ r.params \in Params
         /\ r.op = "GetByID" => r \in Reads /\ r.id \in Ids
         /\ r.op = "GetRun" => r \in Reads /\ r.run \in Runs
         /\ r.op = "List" => r \in Reads /\ r.filter \in Filters
         /\ r \in Creates => r.op = "Create"
         /\ r \in Reads => r.op \in {"GetByID", "GetRun", "List"}
BY DEF Requests, Creates, Reads

(* Appending a new element to the index of a run. *)
LEMMA AppendNew ==
  ASSUME NEW S, NEW s \in Seq(S), NEW e \in S
  PROVE  /\ Range(Append(s, e)) = Range(s) \cup {e}
         /\ IsInjective(s) /\ e \notin Range(s) => IsInjective(Append(s, e))
<1>1. /\ Append(s, e) \in Seq(S)
      /\ Len(Append(s, e)) = Len(s) + 1
      /\ \A i \in 1 .. Len(s) : Append(s, e)[i] = s[i]
      /\ Append(s, e)[Len(s) + 1] = e
  BY AppendProperties
<1>2. /\ Len(s) \in Nat
      /\ DOMAIN s = 1 .. Len(s)
      /\ DOMAIN Append(s, e) = 1 .. Len(s) + 1
  BY <1>1, LenProperties
<1>3. Range(Append(s, e)) = Range(s) \cup {e}
  <2>1. ASSUME NEW x \in Range(Append(s, e)) PROVE x \in Range(s) \cup {e}
    BY <1>1, <1>2 DEF Range
  <2>2. ASSUME NEW x \in Range(s) \cup {e} PROVE x \in Range(Append(s, e))
    BY <1>1, <1>2 DEF Range
  <2> QED BY <2>1, <2>2
<1>4. ASSUME IsInjective(s), e \notin Range(s) PROVE IsInjective(Append(s, e))
  BY <1>1, <1>2, <1>4 DEF IsInjective, Range
<1> QED BY <1>3, <1>4

-----------------------------------------------------------------------------
(* Facts about a state that satisfies the invariant. *)

(* The parameters, the id and the record of a Create that is in progress. *)
LEMMA CreateInProgress ==
  ASSUME IInv, NEW c \in Calls, request[c] \in Creates
  PROVE  /\ request[c] \in Requests
         /\ request[c].op = "Create"
         /\ request[c].params \in Params
         /\ IdOf(c) \in Ids
         /\ IdOf(c) = request[c].params.id
         /\ request[c].params.run \in Runs
         /\ NewRecord(c) \in Records
         /\ NewRecord(c) # Nil
         /\ NewRecord(c).id = IdOf(c)
         /\ NewRecord(c).run = request[c].params.run
         /\ Result(NewRecord(c)) \in Answers(request[c])
<1>1. request[c] \in Requests
  BY DEF Requests
<1>2. request[c].op = "Create" /\ request[c].params \in Params
  BY <1>1, RequestType
<1>3. receivedAt[c] \in Nat
  BY DEF IInv, TypeOK
<1>4. Result(NewRecord(c)) \in Answers(request[c])
  BY <1>2, <1>3, RecordType, SummaryType DEF NewRecord, Answers
<1> QED BY <1>1, <1>2, <1>3, <1>4, RecordType DEF IdOf, NewRecord

(* Only ids have been acknowledged. *)
LEMMA AcknowledgedType ==
  ASSUME IInv
  PROVE  Acknowledged \in SUBSET Ids
<1> SUFFICES ASSUME NEW c \in Calls, pc[c] = "done", IsCreate(c) PROVE IdOf(c) \in Ids
  BY DEF Acknowledged
<1>1. request[c] \in Creates
  BY RequestType DEF IInv, TypeOK, IsCreate
<1> QED BY <1>1, CreateInProgress

(* While nobody writes, the index is exact. *)
LEMMA QuietIndex ==
  ASSUME IInv, writer = Nil
  PROVE  /\ Unindexed = {}
         /\ \A r \in Runs : \A i \in Ids :
              i \in Range(runs[r]) <=> submissions[i] # Nil /\ submissions[i].run = r
<1>1. Unindexed = {}
  BY CallsAssumption DEF IInv, LockHeld, Unindexed, Writing
<1> QED BY <1>1 DEF IInv, IndexExact

-----------------------------------------------------------------------------
(* Every step preserves the invariant: one lemma for each action. *)

LEMMA InvokeCreateStep ==
  ASSUME IInv, NEW c \in Calls, NEW p \in Params, InvokeCreate(c, p)
  PROVE  IInv'
<1> USE DEF InvokeCreate, Goto
<1>1. /\ request'[c] \in Creates
      /\ request'[c] \in Requests
      /\ request'[c] # Nil
  BY NilAssumption DEF IInv, TypeOK, Creates, Requests
<1>2. TypeOK'
  BY <1>1, AcknowledgedType DEF IInv, TypeOK, Points
<1>3. ArgumentsKnown'
  BY <1>1 DEF IInv, TypeOK, ArgumentsKnown, Writing
<1>4. LockHeld'
  BY DEF IInv, TypeOK, LockHeld, Writing
<1>5. Keyed' /\ InHand'
  BY DEF IInv, TypeOK, Keyed, InHand, IdOf, NewRecord
<1>6. Unindexed' = Unindexed
  BY DEF IInv, TypeOK, Unindexed, IdOf
<1>7. IndexExact'
  BY <1>6 DEF IInv, IndexExact
<1>8. CreateAnswersStored'
  BY DEF IInv, TypeOK, CreateAnswersStored, IsCreate, IdOf
<1> QED BY <1>2, <1>3, <1>4, <1>5, <1>7, <1>8 DEF IInv

LEMMA LockStep ==
  ASSUME IInv, NEW c \in Calls, Lock(c)
  PROVE  IInv'
<1> USE DEF Lock, Goto
<1>1. TypeOK'
  BY DEF IInv, TypeOK, Points
<1>2. ArgumentsKnown'
  BY DEF IInv, TypeOK, ArgumentsKnown, Writing
<1>3. LockHeld'
  BY CallsAssumption DEF IInv, TypeOK, LockHeld, Writing
<1>4. Keyed' /\ InHand'
  BY DEF IInv, TypeOK, Keyed, InHand, IdOf, NewRecord
<1>5. Unindexed' = Unindexed
  BY DEF IInv, TypeOK, Unindexed, IdOf
<1>6. IndexExact'
  BY <1>5 DEF IInv, IndexExact
<1>7. CreateAnswersStored'
  BY DEF IInv, TypeOK, CreateAnswersStored, IsCreate, IdOf
<1> QED BY <1>1, <1>2, <1>3, <1>4, <1>6, <1>7 DEF IInv

LEMMA FoundStep ==
  ASSUME IInv, NEW c \in Calls, Found(c)
  PROVE  IInv'
<1> USE DEF Found, Goto
<1>1. TypeOK'
  BY DEF IInv, TypeOK, Points
<1>2. ArgumentsKnown'
  BY DEF IInv, TypeOK, ArgumentsKnown, Writing
<1>3. LockHeld'
  BY CallsAssumption DEF IInv, TypeOK, LockHeld, Writing
<1>4. Keyed' /\ InHand'
  BY DEF IInv, TypeOK, Keyed, InHand, IdOf, NewRecord
<1>5. Unindexed' = Unindexed
  BY DEF IInv, TypeOK, Unindexed, IdOf
<1>6. IndexExact'
  BY <1>5 DEF IInv, IndexExact
<1>7. CreateAnswersStored'
  BY DEF IInv, TypeOK, CreateAnswersStored, IsCreate, IdOf
<1> QED BY <1>1, <1>2, <1>3, <1>4, <1>6, <1>7 DEF IInv

LEMMA ReturnExistingStep ==
  ASSUME IInv, NEW c \in Calls, ReturnExisting(c)
  PROVE  IInv'
<1> USE DEF ReturnExisting, Return, Goto
<1>1. request[c] \in Creates
  BY DEF IInv, ArgumentsKnown
<1>2. /\ IdOf(c) \in Ids
      /\ submissions[IdOf(c)] \in Records
      /\ request[c].op = "Create"
  BY <1>1, CreateInProgress DEF IInv, TypeOK, InHand
<1>3. Result(submissions[IdOf(c)]) \in Answers(request[c])
  BY <1>2, SummaryType DEF Answers
<1>4. TypeOK'
  BY <1>3 DEF IInv, TypeOK, Points
<1>5. ArgumentsKnown'
  BY DEF IInv, TypeOK, ArgumentsKnown, Writing
<1>6. LockHeld'
  BY DEF IInv, TypeOK, LockHeld, Writing
<1>7. Keyed' /\ InHand'
  BY DEF IInv, TypeOK, Keyed, InHand, IdOf, NewRecord
<1>8. Unindexed' = Unindexed
  BY DEF IInv, TypeOK, Unindexed, IdOf
<1>9. IndexExact'
  BY <1>8 DEF IInv, IndexExact
<1>10. CreateAnswersStored'
  BY DEF IInv, TypeOK, InHand, CreateAnswersStored, IsCreate, IdOf
<1> QED BY <1>4, <1>5, <1>6, <1>7, <1>9, <1>10 DEF IInv

LEMMA StoreRecordStep ==
  ASSUME IInv, NEW c \in Calls, StoreRecord(c)
  PROVE  IInv'
<1> USE DEF StoreRecord, Goto
<1>1. request[c] \in Creates
  BY DEF IInv, ArgumentsKnown, Writing
<1>2. /\ IdOf(c) \in Ids
      /\ NewRecord(c) \in Records
      /\ NewRecord(c) # Nil
      /\ NewRecord(c).id = IdOf(c)
      /\ NewRecord(c).run = request[c].params.run
  BY <1>1, CreateInProgress
<1>3. \A d \in Calls : IdOf(d)' = IdOf(d) /\ NewRecord(d)' = NewRecord(d)
  BY DEF IdOf, NewRecord
<1>4. \A d \in Calls \ {c} : pc[d] \notin Writing
  BY DEF IInv, LockHeld, Writing
<1>5. TypeOK'
  BY <1>2 DEF IInv, TypeOK, Points
<1>6. ArgumentsKnown'
  BY DEF IInv, TypeOK, ArgumentsKnown, Writing
<1>7. LockHeld'
  BY DEF IInv, TypeOK, LockHeld, Writing
<1>8. Keyed'
  BY <1>2 DEF IInv, TypeOK, Keyed
<1>9. InHand'
  BY <1>2, <1>3, <1>4 DEF IInv, TypeOK, InHand, Writing
<1>10. Unindexed = {} /\ Unindexed' = {IdOf(c)}
  BY <1>3, <1>4 DEF IInv, TypeOK, Unindexed, Writing
<1>11. IndexExact'
  BY <1>2, <1>10 DEF IInv, TypeOK, IndexExact
<1>12. CreateAnswersStored'
  <2> SUFFICES ASSUME NEW d \in Calls, pc[d] = "done", IsCreate(d)
               PROVE  /\ submissions'[IdOf(d)] # Nil
                      /\ reply[d] = Result(submissions'[IdOf(d)])
    BY <1>3 DEF IInv, TypeOK, CreateAnswersStored, IsCreate
  <2>1. submissions[IdOf(d)] # Nil /\ reply[d] = Result(submissions[IdOf(d)])
    BY DEF IInv, CreateAnswersStored
  <2> QED BY <1>2, <2>1 DEF IInv, TypeOK
<1> QED BY <1>5, <1>6, <1>7, <1>8, <1>9, <1>11, <1>12 DEF IInv

LEMMA IndexRunStep ==
  ASSUME IInv, NEW c \in Calls, IndexRun(c)
  PROVE  IInv'
<1> USE DEF IndexRun, Goto
<1> DEFINE run == request[c].params.run
<1>1. request[c] \in Creates
  BY DEF IInv, ArgumentsKnown, Writing
<1>2. /\ IdOf(c) \in Ids
      /\ run \in Runs
      /\ submissions[IdOf(c)] # Nil
      /\ submissions[IdOf(c)].run = run
  BY <1>1, CreateInProgress DEF IInv, InHand
<1>3. \A d \in Calls : IdOf(d)' = IdOf(d) /\ NewRecord(d)' = NewRecord(d)
  BY DEF IdOf, NewRecord
<1>4. \A d \in Calls \ {c} : pc[d] \notin Writing
  BY DEF IInv, LockHeld, Writing
<1>5. runs[run] \in Seq(Ids) /\ Append(runs[run], IdOf(c)) \in Seq(Ids)
  BY <1>2, AppendProperties DEF IInv, TypeOK
<1>6. /\ runs'[run] = Append(runs[run], IdOf(c))
      /\ \A r \in Runs \ {run} : runs'[r] = runs[r]
  BY <1>2 DEF IInv, TypeOK
<1>7. TypeOK'
  BY <1>5 DEF IInv, TypeOK, Points
<1>8. ArgumentsKnown'
  BY DEF IInv, TypeOK, ArgumentsKnown, Writing
<1>9. LockHeld'
  BY DEF IInv, TypeOK, LockHeld, Writing
<1>10. Keyed' /\ InHand'
  BY <1>3 DEF IInv, TypeOK, Keyed, InHand
<1>11. Unindexed = {IdOf(c)} /\ Unindexed' = {}
  BY <1>3, <1>4 DEF IInv, TypeOK, Unindexed, Writing
<1>12. IndexExact'
  <2> SUFFICES ASSUME NEW r \in Runs
               PROVE  /\ IsInjective(runs'[r])
                      /\ Range(runs'[r]) =
                           {i \in Ids : submissions[i] # Nil /\ submissions[i].run = r}
    BY <1>11 DEF IndexExact
  <2>1. /\ IsInjective(runs[r])
        /\ Range(runs[r]) =
             {i \in Ids : submissions[i] # Nil /\ submissions[i].run = r} \ {IdOf(c)}
    BY <1>11 DEF IInv, IndexExact
  <2>2. CASE r = run
    <3>1. IdOf(c) \notin Range(runs[run])
      BY <2>1, <2>2
    <3>2. /\ Range(runs'[run]) = Range(runs[run]) \cup {IdOf(c)}
          /\ IsInjective(runs'[run])
      BY <1>2, <1>5, <1>6, <2>1, <2>2, <3>1, AppendNew
    <3> QED BY <1>2, <2>1, <2>2, <3>2
  <2>3. CASE r # run
    BY <1>2, <1>6, <2>1, <2>3
  <2> QED BY <2>2, <2>3
<1>13. CreateAnswersStored'
  BY <1>3 DEF IInv, TypeOK, CreateAnswersStored, IsCreate
<1> QED BY <1>7, <1>8, <1>9, <1>10, <1>12, <1>13 DEF IInv

LEMMA UnlockStep ==
  ASSUME IInv, NEW c \in Calls, Unlock(c)
  PROVE  IInv'
<1> USE DEF Unlock, Return, Goto
<1>1. request[c] \in Creates
  BY DEF IInv, ArgumentsKnown, Writing
<1>2. /\ IdOf(c) \in Ids
      /\ NewRecord(c) # Nil
      /\ submissions[IdOf(c)] = NewRecord(c)
      /\ Result(NewRecord(c)) \in Answers(request[c])
  BY <1>1, CreateInProgress DEF IInv, InHand
<1>3. TypeOK'
  BY <1>2 DEF IInv, TypeOK, Points
<1>4. ArgumentsKnown'
  BY DEF IInv, TypeOK, ArgumentsKnown, Writing
<1>5. LockHeld'
  BY CallsAssumption DEF IInv, TypeOK, LockHeld, Writing
<1>6. Keyed' /\ InHand'
  BY DEF IInv, TypeOK, Keyed, InHand, IdOf, NewRecord
<1>7. Unindexed' = Unindexed
  BY DEF IInv, TypeOK, Unindexed, IdOf
<1>8. IndexExact'
  BY <1>7 DEF IInv, IndexExact
<1>9. CreateAnswersStored'
  BY <1>2 DEF IInv, TypeOK, CreateAnswersStored, IsCreate, IdOf
<1> QED BY <1>3, <1>4, <1>5, <1>6, <1>8, <1>9 DEF IInv

LEMMA InvokeReadStep ==
  ASSUME IInv, NEW c \in Calls, NEW r \in Reads, InvokeRead(c, r)
  PROVE  IInv'
<1> USE DEF InvokeRead, Goto
<1>1. r \in Requests /\ r # Nil /\ r.op # "Create"
  BY NilAssumption, RequestType DEF Requests
<1>2. TypeOK'
  BY <1>1, AcknowledgedType DEF IInv, TypeOK, Points
<1>3. ArgumentsKnown'
  BY <1>1 DEF IInv, TypeOK, ArgumentsKnown, Writing
<1>4. LockHeld'
  BY DEF IInv, TypeOK, LockHeld, Writing
<1>5. Keyed' /\ InHand'
  BY DEF IInv, TypeOK, Keyed, InHand, IdOf, NewRecord
<1>6. Unindexed' = Unindexed
  BY DEF IInv, TypeOK, Unindexed, IdOf
<1>7. IndexExact'
  BY <1>6 DEF IInv, IndexExact
<1>8. CreateAnswersStored'
  BY DEF IInv, TypeOK, CreateAnswersStored, IsCreate, IdOf
<1> QED BY <1>2, <1>3, <1>4, <1>5, <1>7, <1>8 DEF IInv

LEMMA RLockStep ==
  ASSUME IInv, NEW c \in Calls, RLock(c)
  PROVE  IInv'
<1> USE DEF RLock, Goto
<1>1. TypeOK'
  BY DEF IInv, TypeOK, Points
<1>2. ArgumentsKnown'
  BY DEF IInv, TypeOK, ArgumentsKnown, Writing
<1>3. LockHeld'
  BY CallsAssumption DEF IInv, TypeOK, LockHeld, Writing
<1>4. Keyed' /\ InHand'
  BY DEF IInv, TypeOK, Keyed, InHand, IdOf, NewRecord
<1>5. Unindexed' = Unindexed
  BY DEF IInv, TypeOK, Unindexed, IdOf
<1>6. IndexExact'
  BY <1>5 DEF IInv, IndexExact
<1>7. CreateAnswersStored'
  BY DEF IInv, TypeOK, CreateAnswersStored, IsCreate, IdOf
<1> QED BY <1>1, <1>2, <1>3, <1>4, <1>6, <1>7 DEF IInv

(* A read that returns a value of its type, whatever the value. *)
LEMMA ReadReturns ==
  ASSUME IInv, NEW c \in Calls, NEW op, op # "Create", Reading(c, op),
         NEW a \in Answers(request[c]), Return(c, a)
  PROVE  IInv'
<1> USE DEF Reading, Return, Goto
<1>1. TypeOK'
  BY DEF IInv, TypeOK, Points
<1>2. ArgumentsKnown'
  BY DEF IInv, TypeOK, ArgumentsKnown, Writing
<1>3. LockHeld'
  BY DEF IInv, TypeOK, LockHeld, Writing
<1>4. Keyed' /\ InHand'
  BY DEF IInv, TypeOK, Keyed, InHand, IdOf, NewRecord
<1>5. Unindexed' = Unindexed
  BY DEF IInv, TypeOK, Unindexed, IdOf
<1>6. IndexExact'
  BY <1>5 DEF IInv, IndexExact
<1>7. CreateAnswersStored'
  BY DEF IInv, TypeOK, CreateAnswersStored, IsCreate, IdOf
<1> QED BY <1>1, <1>2, <1>3, <1>4, <1>6, <1>7 DEF IInv

(* The arguments of a read, and the lock it holds. *)
LEMMA ReadInProgress ==
  ASSUME IInv, NEW c \in Calls, NEW op, Reading(c, op)
  PROVE  request[c] \in Requests /\ request[c].op = op /\ writer = Nil
BY CallsAssumption DEF IInv, ArgumentsKnown, LockHeld, TypeOK, Reading, Requests

LEMMA GetByIDStep ==
  ASSUME IInv, NEW c \in Calls, GetByID(c)
  PROVE  IInv'
<1> DEFINE r == submissions[request[c].id]
           a == IF r = Nil THEN NotFound ELSE r
<1>1. Reading(c, "GetByID") /\ Return(c, a)
  BY DEF GetByID
<1>2. request[c].op = "GetByID" /\ request[c].id \in Ids
  BY <1>1, ReadInProgress, RequestType
<1>3. a \in Answers(request[c])
  BY <1>2 DEF Answers, IInv, TypeOK
<1> QED BY <1>1, <1>3, ReadReturns

(* The summaries of a run, when nobody writes: each id of the index has a
   record.                                                                 *)
LEMMA RunSummariesType ==
  ASSUME IInv, writer = Nil, NEW r \in Runs
  PROVE  /\ runs[r] \in Seq(Ids)
         /\ DOMAIN RunSummaries(r) = 1 .. Len(runs[r])
         /\ \A k \in 1 .. Len(runs[r]) :
              /\ runs[r][k] \in Ids
              /\ submissions[runs[r][k]] \in Records
              /\ submissions[runs[r][k]].id = runs[r][k]
              /\ submissions[runs[r][k]].run = r
              /\ RunSummaries(r)[k] = Summary(submissions[runs[r][k]])
              /\ RunSummaries(r)[k] \in Summaries
         /\ RunSummaries(r) \in Seq(Summaries)
<1> DEFINE s == runs[r]
<1>1. s \in Seq(Ids) /\ Len(s) \in Nat /\ DOMAIN s = 1 .. Len(s)
  BY LenProperties DEF IInv, TypeOK
<1>2. ASSUME NEW k \in 1 .. Len(s)
      PROVE  /\ s[k] \in Ids
             /\ submissions[s[k]] \in Records
             /\ submissions[s[k]].id = s[k]
             /\ submissions[s[k]].run = r
             /\ RunSummaries(r)[k] = Summary(submissions[s[k]])
             /\ RunSummaries(r)[k] \in Summaries
  <2>1. s[k] \in Ids /\ s[k] \in Range(s)
    BY <1>1, ElementOfSeq DEF Range
  <2>2. submissions[s[k]] # Nil /\ submissions[s[k]].run = r
    BY <2>1, QuietIndex
  <2>3. submissions[s[k]] \in Records /\ submissions[s[k]].id = s[k]
    BY <2>1, <2>2 DEF IInv, TypeOK, Keyed
  <2>4. RunSummaries(r)[k] = Summary(submissions[s[k]])
    BY <1>1 DEF RunSummaries
  <2> QED BY <2>1, <2>2, <2>3, <2>4, SummaryType
<1>3. RunSummaries(r) = [k \in 1 .. Len(s) |-> Summary(submissions[s[k]])]
  BY <1>1 DEF RunSummaries
<1>4. RunSummaries(r) \in [1 .. Len(s) -> Summaries]
  BY <1>2, <1>3
<1>5. RunSummaries(r) \in Seq(Summaries)
  BY <1>1, <1>4, SeqDef
<1>6. DOMAIN RunSummaries(r) = 1 .. Len(s)
  BY <1>3
<1> QED BY <1>1, <1>2, <1>5, <1>6

LEMMA GetRunStep ==
  ASSUME IInv, NEW c \in Calls, GetRun(c)
  PROVE  IInv'
<1> DEFINE r == request[c].run
           a == IF runs[r] = <<>> THEN NotFound ELSE RunSummaries(r)
<1>1. Reading(c, "GetRun") /\ Return(c, a)
  BY DEF GetRun
<1>2. request[c].op = "GetRun" /\ r \in Runs /\ writer = Nil
  BY <1>1, ReadInProgress, RequestType
<1>3. a \in Seq(Summaries) \cup {NotFound}
  BY <1>2, RunSummariesType
<1>4. a \in Answers(request[c])
  BY <1>2, <1>3 DEF Answers
<1> QED BY <1>1, <1>4, ReadReturns

(* The summaries List chooses from are finitely many. *)
LEMMA SelectedFinite ==
  ASSUME IInv, NEW f
  PROVE  LET T == {Summary(r) : r \in Selected(f)}
         IN  T \in SUBSET Summaries /\ IsFiniteSet(T)
<1> DEFINE D == {j \in Ids : submissions[j] # Nil /\ Matches(submissions[j], f)}
           T == {Summary(r) : r \in Selected(f)}
           g == [i \in D |-> Summary(submissions[i])]
<1>1. \A i \in D : submissions[i] \in Records
  BY DEF IInv, TypeOK
<1>2. T = {g[i] : i \in D}
  BY DEF Selected
<1>3. T \in SUBSET Summaries
  BY <1>1, <1>2, SummaryType
<1>4. IsFiniteSet(D)
  BY IdsAssumption, FS_Subset
<1>5. g \in Surjection(D, T)
  BY <1>2 DEF Surjection
<1> QED BY <1>3, <1>4, <1>5, FS_Surjection

(* ... and the sequences it chooses from are lists of summaries. *)
LEMMA SelectedType ==
  ASSUME IInv, NEW f,
         NEW s \in SetToSeqs({Summary(r) : r \in Selected(f)})
  PROVE  s \in Seq(Summaries)
<1> DEFINE T == {Summary(r) : r \in Selected(f)}
<1>1. T \in SUBSET Summaries /\ IsFiniteSet(T)
  BY SelectedFinite
<1>2. Cardinality(T) \in Nat
  BY <1>1, FS_CardinalityType
<1>3. s \in [1 .. Cardinality(T) -> T]
  BY DEF SetToSeqs
<1>4. s \in [1 .. Cardinality(T) -> Summaries]
  BY <1>1, <1>3
<1> HIDE DEF T
<1> QED BY <1>2, <1>4, SeqDef

LEMMA ListStep ==
  ASSUME IInv, NEW c \in Calls, List(c)
  PROVE  IInv'
<1> DEFINE f == request[c].filter
<1>1. Reading(c, "List")
  BY DEF List
<1>2. PICK s \in SetToSeqs({Summary(r) : r \in Selected(f)}) :
        NewestFirst(s) /\ Return(c, s)
  BY DEF List
<1>3. request[c].op = "List" /\ s \in Seq(Summaries)
  BY <1>1, ReadInProgress, SelectedType
<1>4. s \in Answers(request[c])
  BY <1>3 DEF Answers
<1> QED BY <1>1, <1>2, <1>4, ReadReturns

LEMMA TickStep ==
  ASSUME IInv, Tick
  PROVE  IInv'
<1> USE DEF Tick
<1>1. TypeOK'
  BY DEF IInv, TypeOK
<1>2. ArgumentsKnown' /\ LockHeld' /\ Keyed' /\ InHand'
  BY DEF IInv, ArgumentsKnown, LockHeld, Keyed, InHand, IdOf, NewRecord
<1>3. IndexExact' /\ CreateAnswersStored'
  BY DEF IInv, IndexExact, Unindexed, CreateAnswersStored, IsCreate, IdOf
<1> QED BY <1>1, <1>2, <1>3 DEF IInv

LEMMA StutterStep ==
  ASSUME IInv, UNCHANGED vars
  PROVE  IInv'
<1> USE DEF vars
<1>1. TypeOK'
  BY DEF IInv, TypeOK
<1>2. ArgumentsKnown' /\ LockHeld' /\ Keyed' /\ InHand'
  BY DEF IInv, ArgumentsKnown, LockHeld, Keyed, InHand, IdOf, NewRecord
<1>3. IndexExact' /\ CreateAnswersStored'
  BY DEF IInv, IndexExact, Unindexed, CreateAnswersStored, IsCreate, IdOf
<1> QED BY <1>1, <1>2, <1>3 DEF IInv

-----------------------------------------------------------------------------
LEMMA InitInv == Init => IInv
<1> SUFFICES ASSUME Init PROVE IInv
  OBVIOUS
<1> USE DEF Init
<1>1. TypeOK
  BY EmptySeq DEF TypeOK, Points
<1>2. ArgumentsKnown /\ LockHeld /\ Keyed /\ InHand
  BY CallsAssumption DEF ArgumentsKnown, LockHeld, Writing, Keyed, InHand
<1>3. IndexExact
  <2>1. IsInjective(<<>>) /\ Range(<<>>) = {}
    BY DEF IsInjective, Range
  <2> QED BY <2>1 DEF IndexExact
<1>4. CreateAnswersStored
  BY DEF CreateAnswersStored
<1> QED BY <1>1, <1>2, <1>3, <1>4 DEF IInv

LEMMA NextInv == IInv /\ [Next]_vars => IInv'
<1> SUFFICES ASSUME IInv, [Next]_vars PROVE IInv'
  OBVIOUS
<1>1. CASE \E c \in Calls : \E p \in Params : InvokeCreate(c, p)
  BY <1>1, InvokeCreateStep
<1>2. CASE \E c \in Calls : \E r \in Reads : InvokeRead(c, r)
  BY <1>2, InvokeReadStep
<1>3. ASSUME NEW c \in Calls, Proceed(c) PROVE IInv'
  <2>1. CASE Lock(c)            BY <2>1, LockStep
  <2>2. CASE Found(c)           BY <2>2, FoundStep
  <2>3. CASE ReturnExisting(c)  BY <2>3, ReturnExistingStep
  <2>4. CASE StoreRecord(c)     BY <2>4, StoreRecordStep
  <2>5. CASE IndexRun(c)        BY <2>5, IndexRunStep
  <2>6. CASE Unlock(c)          BY <2>6, UnlockStep
  <2>7. CASE RLock(c)           BY <2>7, RLockStep
  <2>8. CASE GetByID(c)         BY <2>8, GetByIDStep
  <2>9. CASE GetRun(c)          BY <2>9, GetRunStep
  <2>10. CASE List(c)           BY <2>10, ListStep
  <2> QED BY <1>3, <2>1, <2>2, <2>3, <2>4, <2>5, <2>6, <2>7, <2>8, <2>9, <2>10
          DEF Proceed
<1>4. CASE Tick
  BY <1>4, TickStep
<1>5. CASE Drained \/ UNCHANGED vars
  BY <1>5, StutterStep DEF Drained
<1> QED BY <1>1, <1>2, <1>3, <1>4, <1>5 DEF Next

(* The invariant holds in every state the store can reach. *)
THEOREM Invariance == Spec => []IInv
BY InitInv, NextInv, PTL DEF Spec

-----------------------------------------------------------------------------
(* What follows from it. *)

(* Every variable, and every answer, has its type. *)
THEOREM TypeCorrect == Spec => []TypeOK
<1>1. IInv => TypeOK
  BY DEF IInv
<1> QED BY <1>1, Invariance, PTL

(* The index of a run is the set of the ids that carry it, each once. *)
THEOREM IndexIsExact == Spec => []IndexExact
<1>1. IInv => IndexExact
  BY DEF IInv
<1> QED BY <1>1, Invariance, PTL

(* No reader sees the two maps disagree, so GetRun never follows an id that
   has no record.                                                          *)
THEOREM ReadersAreSafe == Spec => []ReadersSeeExactIndex
<1>1. IInv => ReadersSeeExactIndex
  <2> SUFFICES ASSUME IInv, readers # {} PROVE IndexExact /\ Unindexed = {}
    BY DEF ReadersSeeExactIndex
  <2>1. writer = Nil
    BY DEF IInv, LockHeld
  <2> QED BY <2>1, QuietIndex DEF IInv
<1> QED BY <1>1, Invariance, PTL

(* Create is idempotent: all the calls with one id are answered with the one
   record that is stored under it.                                         *)
THEOREM CreateIsIdempotent == Spec => []CreateAnswersStored
<1>1. IInv => CreateAnswersStored
  BY DEF IInv
<1> QED BY <1>1, Invariance, PTL

(* Who waits for the lock waits for a call that is on its way to release it:
   the lock is held by calls only that are between taking and releasing it. *)
THEOREM NoDeadlock == Spec => []NobodyWaitsForGood
<1>1. IInv => NobodyWaitsForGood
  <2> SUFFICES ASSUME IInv, NEW c \in Calls, Waits(c)
               PROVE  \E d \in Calls : pc[d] \notin {"new", "done"} /\ ~Waits(d)
    BY DEF NobodyWaitsForGood
  <2>1. CASE writer # Nil
    <3>1. writer \in Calls /\ pc[writer] \in Writing
      BY <2>1 DEF IInv, TypeOK, LockHeld
    <3> QED BY <3>1 DEF Waits, Writing
  <2>2. CASE writer = Nil
    <3>1. PICK d \in Calls : pc[d] = "read"
      BY <2>2 DEF Waits, IInv, LockHeld
    <3> QED BY <3>1 DEF Waits
  <2> QED BY <2>1, <2>2
<1> QED BY <1>1, Invariance, PTL

(* A step leaves every stored record as it is. *)
LEMMA KeepsRecords ==
  ASSUME IInv, [Next]_vars, NEW i \in Ids, submissions[i] # Nil
  PROVE  submissions'[i] = submissions[i]
<1>1. ASSUME NEW c \in Calls, StoreRecord(c) PROVE submissions'[i] = submissions[i]
  BY <1>1 DEF StoreRecord, IInv, TypeOK
<1>2. ASSUME UNCHANGED submissions PROVE submissions'[i] = submissions[i]
  BY <1>2
<1> QED
  BY <1>1, <1>2 DEF Next, Proceed, InvokeCreate, InvokeRead, Lock, Found,
     ReturnExisting, IndexRun, Unlock, RLock, GetByID, GetRun, List, Reading,
     Tick, Drained, vars

(* No record is ever changed, replaced or removed. *)
THEOREM RecordsNeverChange == Spec => RecordsImmutable
<1>1. IInv /\ [Next]_vars =>
        [\A i \in Ids : submissions[i] # Nil => submissions'[i] = submissions[i]]_vars
  BY KeepsRecords
<1> QED BY <1>1, Invariance, PTL DEF Spec, RecordsImmutable

-----------------------------------------------------------------------------
(* Acknowledged submissions are visible. *)

(* What was acknowledged before a call is stored. *)
KnownStored == \A c \in Calls : \A i \in known[c] : submissions[i] # Nil

VInv == KnownStored /\ AcknowledgedIsVisible

LEMMA AcknowledgedStored ==
  ASSUME IInv
  PROVE  \A i \in Acknowledged : submissions[i] # Nil
BY DEF IInv, CreateAnswersStored, Acknowledged

(* A listing of a finite set lists each of its elements. *)
LEMMA ListingComplete ==
  ASSUME NEW S, IsFiniteSet(S), NEW s \in SetToSeqs(S), NEW x \in S
  PROVE  \E k \in DOMAIN s : s[k] = x
<1> DEFINE n == Cardinality(S)
<1>1. n \in Nat
  BY FS_CardinalityType
<1>2. s \in Injection(1 .. n, S)
  BY DEF SetToSeqs, Injection, IsInjective
<1>3. Cardinality(1 .. n) = n
  BY <1>1, FS_Interval
<1>4. s \in Surjection(1 .. n, S)
  BY <1>2, <1>3, FS_Injection
<1> QED BY <1>4 DEF Surjection

(* The reads show every record they select. *)
LEMMA GetByIDShows ==
  ASSUME IInv, NEW c \in Calls, GetByID(c), NEW i \in Ids, submissions[i] # Nil
  PROVE  Shows(c, i)'
<1>1. request[c] \in Requests /\ request[c].op = "GetByID"
  BY ReadInProgress DEF GetByID
<1>2. reply'[c] = IF submissions[request[c].id] = Nil THEN NotFound
                                                     ELSE submissions[request[c].id]
  BY DEF GetByID, Return, IInv, TypeOK
<1>3. submissions[i] # NotFound
  BY NotFoundAssumption DEF IInv, TypeOK
<1> QED BY <1>1, <1>2, <1>3 DEF Shows, GetByID, Reading

LEMMA GetRunShows ==
  ASSUME IInv, NEW c \in Calls, GetRun(c), NEW i \in Ids, submissions[i] # Nil
  PROVE  Shows(c, i)'
<1> DEFINE r == request[c].run
<1>1. Reading(c, "GetRun")
  BY DEF GetRun
<1>2. request[c].op = "GetRun" /\ r \in Runs /\ writer = Nil
  BY <1>1, ReadInProgress, RequestType
<1>3. reply'[c] = IF runs[r] = <<>> THEN NotFound ELSE RunSummaries(r)
  BY DEF GetRun, Return, IInv, TypeOK
<1>4. ASSUME submissions[i].run = r PROVE Lists(reply'[c], i)
  <2>1. i \in Range(runs[r])
    BY <1>2, <1>4, QuietIndex
  <2>2. PICK k \in DOMAIN runs[r] : runs[r][k] = i
    BY <2>1 DEF Range
  <2>3. /\ k \in DOMAIN RunSummaries(r)
        /\ RunSummaries(r)[k] = Summary(submissions[i])
        /\ RunSummaries(r) \in Seq(Summaries)
        /\ runs[r] # <<>>
    BY <1>2, <2>2, RunSummariesType, LenProperties
  <2>4. RunSummaries(r)[k].id = i
    BY <2>3, SummaryType DEF IInv, TypeOK, Keyed
  <2> QED BY <1>3, <2>3, <2>4, NotFoundAssumption DEF Lists
<1> QED BY <1>1, <1>2, <1>4 DEF Shows, Reading

LEMMA ListShows ==
  ASSUME IInv, NEW c \in Calls, List(c), NEW i \in Ids, submissions[i] # Nil
  PROVE  Shows(c, i)'
<1> DEFINE f == request[c].filter
           T == {Summary(r) : r \in Selected(f)}
<1>1. Reading(c, "List")
  BY DEF List
<1>2. PICK s \in SetToSeqs(T) : Return(c, s)
  BY DEF List
<1>3. request[c].op = "List"
  BY <1>1, ReadInProgress
<1>4. reply'[c] = s /\ s \in Seq(Summaries)
  BY <1>2, SelectedType DEF Return, IInv, TypeOK
<1>5. ASSUME Matches(submissions[i], f) PROVE Lists(reply'[c], i)
  <2>1. Summary(submissions[i]) \in T
    BY <1>5 DEF Selected
  <2>2. IsFiniteSet(T)
    BY SelectedFinite
  <2>3. PICK k \in DOMAIN s : s[k] = Summary(submissions[i])
    BY <2>1, <2>2, ListingComplete
  <2>4. s[k].id = i
    BY <2>3, SummaryType DEF IInv, TypeOK, Keyed
  <2> QED BY <1>4, <2>4, NotFoundAssumption DEF Lists
<1> QED BY <1>1, <1>3, <1>5 DEF Shows, Reading

(* A call that is done after a step, and was not before, has just returned. *)
LEMMA Finishes ==
  ASSUME IInv, [Next]_vars, NEW c \in Calls, pc[c] # "done", pc'[c] = "done"
  PROVE  /\ ReturnExisting(c) \/ Unlock(c) \/ GetByID(c) \/ GetRun(c) \/ List(c)
         /\ UNCHANGED known
<1>1. ASSUME NEW d \in Calls, NEW p \in Params, InvokeCreate(d, p) PROVE FALSE
  BY <1>1 DEF InvokeCreate, Goto, IInv, TypeOK
<1>2. ASSUME NEW d \in Calls, NEW r \in Reads, InvokeRead(d, r) PROVE FALSE
  BY <1>2 DEF InvokeRead, Goto, IInv, TypeOK
<1>3. ASSUME NEW d \in Calls,
             Lock(d) \/ Found(d) \/ StoreRecord(d) \/ IndexRun(d) \/ RLock(d)
      PROVE  FALSE
  BY <1>3 DEF Lock, Found, StoreRecord, IndexRun, RLock, Goto, IInv, TypeOK
<1>4. ASSUME NEW d \in Calls,
             ReturnExisting(d) \/ Unlock(d) \/ GetByID(d) \/ GetRun(d) \/ List(d)
      PROVE  d = c /\ UNCHANGED known
  BY <1>4 DEF ReturnExisting, Unlock, GetByID, GetRun, List, Reading, Return, Goto,
     IInv, TypeOK
<1>5. ASSUME Tick \/ Drained \/ UNCHANGED vars PROVE FALSE
  BY <1>5 DEF Tick, Drained, vars
<1> QED BY <1>1, <1>2, <1>3, <1>4, <1>5 DEF Next, Proceed

LEMMA VisibleStep ==
  ASSUME IInv, VInv, [Next]_vars
  PROVE  VInv'
<1>1. \A i \in Ids : submissions[i] # Nil => submissions'[i] = submissions[i]
  BY KeepsRecords
<1>2. \A c \in Calls : known[c] \in SUBSET Ids
  BY DEF IInv, TypeOK
<1>3. KnownStored'
  <2>1. ASSUME NEW c \in Calls, known' = [known EXCEPT ![c] = Acknowledged]
        PROVE  KnownStored'
    BY <1>1, <1>2, <2>1, AcknowledgedType, AcknowledgedStored
       DEF KnownStored, VInv, IInv, TypeOK
  <2>2. ASSUME UNCHANGED known PROVE KnownStored'
    BY <1>1, <1>2, <2>2 DEF KnownStored, VInv
  <2> QED
    BY <2>1, <2>2 DEF Next, Proceed, InvokeCreate, InvokeRead, Lock, Found,
       StoreRecord, ReturnExisting, IndexRun, Unlock, RLock, GetByID, GetRun,
       List, Reading, Tick, Drained, vars
<1>4. ASSUME NEW c \in Calls, NEW i \in known'[c], pc'[c] = "done"
      PROVE  Shows(c, i)'
  <2>1. CASE pc[c] = "done"
    <3>1. /\ UNCHANGED <<request[c], reply[c], known[c]>>
          /\ request[c] # Nil
      BY <2>1 DEF IInv, TypeOK, ArgumentsKnown, Next, Proceed, InvokeCreate, InvokeRead, Lock,
         Found, StoreRecord, ReturnExisting, IndexRun, Unlock, RLock, GetByID,
         GetRun, List, Reading, Return, Goto, Tick, Drained, vars
    <3>2. submissions'[i] = submissions[i] /\ Shows(c, i)
      BY <1>1, <1>2, <2>1, <3>1 DEF VInv, KnownStored, AcknowledgedIsVisible
    <3> QED BY <3>1, <3>2 DEF Shows
  <2>2. CASE pc[c] # "done"
    <3>1. /\ ReturnExisting(c) \/ Unlock(c) \/ GetByID(c) \/ GetRun(c) \/ List(c)
          /\ UNCHANGED known
      BY <1>4, <2>2, Finishes
    <3>2. i \in Ids /\ submissions[i] # Nil
      BY <1>2, <3>1 DEF VInv, KnownStored
    <3>3. CASE ReturnExisting(c) \/ Unlock(c)
      <4>1. request[c] \in Creates
        BY <3>3 DEF ReturnExisting, Unlock, IInv, ArgumentsKnown, Writing
      <4>2. request'[c].op = "Create"
        BY <3>3, <4>1, CreateInProgress DEF ReturnExisting, Unlock
      <4> QED BY <4>2 DEF Shows
    <3> QED BY <3>1, <3>2, <3>3, GetByIDShows, GetRunShows, ListShows
  <2> QED BY <2>1, <2>2
<1> QED BY <1>3, <1>4 DEF VInv, AcknowledgedIsVisible

(* A submission that was acknowledged before a read was made is in its
   answer, if the read selects it.                                         *)
THEOREM AcknowledgedStaysVisible == Spec => []AcknowledgedIsVisible
<1>1. Init => VInv
  BY DEF Init, VInv, KnownStored, AcknowledgedIsVisible
<1>2. IInv /\ VInv /\ [Next]_vars => VInv'
  BY VisibleStep
<1>3. VInv => AcknowledgedIsVisible
  BY DEF VInv
<1> QED BY <1>1, <1>2, <1>3, Invariance, PTL DEF Spec
-----------------------------------------------------------------------------
(***************************************************************************)
(* MemoryStore implements SubmissionContract: the initial states of the    *)
(* store are initial states of the contract, and every step of the store   *)
(* is a step of the contract or changes nothing the contract speaks of.    *)
(***************************************************************************)

(* A call was made in the past. *)
Stamped == \A c \in Calls : receivedAt[c] <= clock

-----------------------------------------------------------------------------
(* The contract speaks of the same data. *)

LEMMA SameCardinality ==
  ASSUME NEW S
  PROVE  Contract!Cardinality(S) = Cardinality(S)
BY DEF Contract!Cardinality, Cardinality

LEMMA SameData ==
  /\ \A p, t : Contract!Record(p, t) = Record(p, t)
  /\ \A r : Contract!Result(r) = Result(r)
  /\ \A r : Contract!Summary(r) = Summary(r)
  /\ \A r, f : Contract!Matches(r, f) = Matches(r, f)
  /\ \A s : Contract!NewestFirst(s) = NewestFirst(s)
  /\ Contract!Reads = Reads
BY DEF Contract!Record, Record, Contract!Result, Result, Contract!Summary, Summary,
   Contract!Matches, Matches, Contract!NewestFirst, NewestFirst, Contract!Reads, Reads

LEMMA SameListings ==
  ASSUME NEW S
  PROVE  Contract!SetToSeqs(S) = SetToSeqs(S)
BY SameCardinality DEF Contract!SetToSeqs, SetToSeqs

-----------------------------------------------------------------------------
(* A step of one call changes nothing the contract says of the others. *)
LEMMA OthersKeep ==
  ASSUME IInv, [Next]_vars, NEW c \in Calls,
         \A d \in Calls \ {c} :
           pc'[d] = pc[d] /\ request'[d] = request[d] /\ reply'[d] = reply[d]
  PROVE  \A d \in Calls \ {c} : Phase'[d] = Phase[d] /\ Decision'[d] = Decision[d]
<1> SUFFICES ASSUME NEW d \in Calls \ {c}
             PROVE  Phase'[d] = Phase[d] /\ Decision'[d] = Decision[d]
  OBVIOUS
<1>1. Phase'[d] = Phase[d]
  BY DEF Phase
<1>2. CASE Decided(d)
  <2>1. request[d] \in Creates
    BY <1>2 DEF Decided, IInv, ArgumentsKnown, Writing
  <2>2. IdOf(d) \in Ids /\ submissions[IdOf(d)] # Nil
    BY <1>2, <2>1, CreateInProgress DEF Decided, IInv, InHand
  <2>3. submissions'[IdOf(d)] = submissions[IdOf(d)]
    BY <2>2, KeepsRecords
  <2>4. Decided(d)' /\ IdOf(d)' = IdOf(d)
    BY <1>2 DEF Decided, IdOf
  <2> QED BY <1>1, <1>2, <2>3, <2>4 DEF Decision
<1>3. CASE ~Decided(d)
  <2>1. ~Decided(d)'
    BY <1>3 DEF Decided
  <2> QED BY <1>1, <1>3, <2>1 DEF Decision
<1> QED BY <1>2, <1>3

(* What follows when call c moves on. *)
LEMMA OneMoves ==
  ASSUME IInv, [Next]_vars, NEW c \in Calls, NEW p, NEW a,
         \A d \in Calls \ {c} :
           pc'[d] = pc[d] /\ request'[d] = request[d] /\ reply'[d] = reply[d],
         Phase'[c] = p, Decision'[c] = a
  PROVE  /\ Phase' = [Phase EXCEPT ![c] = p]
         /\ Decision' = [Decision EXCEPT ![c] = a]
<1>1. \A d \in Calls \ {c} : Phase'[d] = Phase[d] /\ Decision'[d] = Decision[d]
  BY OthersKeep
<1>2. Phase' = [d \in Calls |-> Phase'[d]] /\ Phase = [d \in Calls |-> Phase[d]]
  BY DEF Phase
<1>3. Decision' = [d \in Calls |-> Decision'[d]] /\ Decision = [d \in Calls |-> Decision[d]]
  BY DEF Decision
<1> HIDE DEF Phase, Decision
<1> QED BY <1>1, <1>2, <1>3

(* ... and when nothing the contract says of it changes. *)
LEMMA NoneMoves ==
  ASSUME IInv, [Next]_vars, NEW c \in Calls,
         \A d \in Calls \ {c} :
           pc'[d] = pc[d] /\ request'[d] = request[d] /\ reply'[d] = reply[d],
         Phase'[c] = Phase[c], Decision'[c] = Decision[c],
         UNCHANGED <<submissions, request, receivedAt, clock>>
  PROVE  UNCHANGED Contract!vars
<1>1. Phase' = [Phase EXCEPT ![c] = Phase[c]] /\ Decision' = [Decision EXCEPT ![c] = Decision[c]]
  BY OneMoves
<1>2. [Phase EXCEPT ![c] = Phase[c]] = Phase /\ [Decision EXCEPT ![c] = Decision[c]] = Decision
  BY DEF Phase, Decision
<1> QED BY <1>1, <1>2 DEF Contract!vars

-----------------------------------------------------------------------------
(* One lemma for each action. *)

LEMMA InvokeCreateRefines ==
  ASSUME IInv, [Next]_vars, NEW c \in Calls, NEW p \in Params, InvokeCreate(c, p)
  PROVE  Contract!InvokeCreate(c, p)
<1> USE DEF InvokeCreate, Goto
<1>1. Phase[c] = "new" /\ Phase'[c] = "pending"
  BY DEF Phase, IInv, TypeOK
<1>2. Decision[c] = Nil /\ Decision'[c] = Nil
  BY DEF Decision, Decided, IInv, TypeOK
<1>3. /\ Phase' = [Phase EXCEPT ![c] = "pending"]
      /\ Decision' = [Decision EXCEPT ![c] = Nil]
  BY <1>1, <1>2, OneMoves DEF IInv, TypeOK
<1>4. Decision' = Decision
  BY <1>2, <1>3 DEF Decision
<1> QED BY <1>1, <1>3, <1>4 DEF Contract!InvokeCreate

LEMMA InvokeReadRefines ==
  ASSUME IInv, [Next]_vars, NEW c \in Calls, NEW r \in Reads, InvokeRead(c, r)
  PROVE  Contract!InvokeRead(c, r)
<1> USE DEF InvokeRead, Goto
<1>1. Phase[c] = "new" /\ Phase'[c] = "pending"
  BY DEF Phase, IInv, TypeOK
<1>2. Decision[c] = Nil /\ Decision'[c] = Nil
  BY DEF Decision, Decided, IInv, TypeOK
<1>3. /\ Phase' = [Phase EXCEPT ![c] = "pending"]
      /\ Decision' = [Decision EXCEPT ![c] = Nil]
  BY <1>1, <1>2, OneMoves DEF IInv, TypeOK
<1>4. Decision' = Decision
  BY <1>2, <1>3 DEF Decision
<1> QED BY <1>1, <1>3, <1>4 DEF Contract!InvokeRead

(* Taking the lock, indexing and returning are steps of the store only. *)
LEMMA InternalRefines ==
  ASSUME IInv, [Next]_vars, NEW c \in Calls,
         Lock(c) \/ RLock(c) \/ IndexRun(c) \/ Unlock(c) \/ ReturnExisting(c)
  PROVE  UNCHANGED Contract!vars
<1>1. CASE Lock(c) \/ RLock(c)
  <2> USE DEF Lock, RLock, Goto
  <2>1. Phase'[c] = Phase[c]
    BY <1>1 DEF Phase, IInv, TypeOK
  <2>2. Decision'[c] = Decision[c]
    BY <1>1 DEF Decision, Decided, IInv, TypeOK
  <2> QED BY <1>1, <2>1, <2>2, NoneMoves DEF IInv, TypeOK
<1>2. CASE IndexRun(c)
  <2> USE DEF IndexRun, Goto
  <2>1. Phase'[c] = Phase[c]
    BY <1>2 DEF Phase, IInv, TypeOK
  <2>2. Decision'[c] = Decision[c]
    BY <1>2 DEF Decision, Decided, IdOf, IInv, TypeOK
  <2> QED BY <1>2, <2>1, <2>2, NoneMoves DEF IInv, TypeOK
<1>3. CASE Unlock(c)
  <2> USE DEF Unlock, Return, Goto
  <2>1. Phase'[c] = Phase[c]
    BY <1>3 DEF Phase, IInv, TypeOK
  <2>2. submissions[IdOf(c)] = NewRecord(c)
    BY <1>3 DEF IInv, InHand
  <2>3. Decision'[c] = Decision[c]
    BY <1>3, <2>2 DEF Decision, Decided, IInv, TypeOK
  <2> QED BY <1>3, <2>1, <2>3, NoneMoves DEF IInv, TypeOK
<1>4. CASE ReturnExisting(c)
  <2> USE DEF ReturnExisting, Return, Goto
  <2>1. Phase'[c] = Phase[c]
    BY <1>4 DEF Phase, IInv, TypeOK
  <2>2. Decision'[c] = Decision[c]
    BY <1>4 DEF Decision, Decided, IInv, TypeOK
  <2> QED BY <1>4, <2>1, <2>2, NoneMoves DEF IInv, TypeOK
<1> QED BY <1>1, <1>2, <1>3, <1>4

(* A Create that finds its id takes effect when it finds it. *)
LEMMA FoundRefines ==
  ASSUME IInv, [Next]_vars, NEW c \in Calls, Found(c)
  PROVE  Contract!CreateAgain(c)
<1> USE DEF Found, Goto
<1>1. request[c].op = "Create" /\ IdOf(c) = request[c].params.id
  BY CreateInProgress DEF IInv, ArgumentsKnown, Writing
<1>2. Phase[c] = "pending" /\ Phase'[c] = "answered"
  BY DEF Phase, IInv, TypeOK
<1>3. Decision'[c] = Result(submissions[IdOf(c)])
  BY DEF Decision, Decided, IdOf, IInv, TypeOK
<1>4. /\ Phase' = [Phase EXCEPT ![c] = "answered"]
      /\ Decision' = [Decision EXCEPT ![c] = Result(submissions[IdOf(c)])]
  BY <1>2, <1>3, OneMoves DEF IInv, TypeOK
<1> QED BY <1>1, <1>2, <1>4, SameData
        DEF Contract!CreateAgain, Contract!Pending, Contract!Answer

(* A Create that stores its record takes effect when it stores it. *)
LEMMA StoreRecordRefines ==
  ASSUME IInv, Stamped, [Next]_vars, NEW c \in Calls, StoreRecord(c)
  PROVE  Contract!CreateFirst(c)
<1> USE DEF StoreRecord, Goto
<1> DEFINE p == request[c].params
           t == receivedAt[c]
<1>1. /\ request[c].op = "Create" /\ IdOf(c) = p.id /\ IdOf(c) \in Ids
      /\ NewRecord(c) = Record(p, t)
  BY CreateInProgress DEF IInv, ArgumentsKnown, Writing, NewRecord
<1>2. Phase[c] = "pending" /\ Phase'[c] = "answered"
  BY DEF Phase, IInv, TypeOK
<1>3. submissions'[IdOf(c)] = NewRecord(c)
  BY <1>1 DEF IInv, TypeOK
<1>4. Decision'[c] = Result(NewRecord(c))
  BY <1>3 DEF Decision, Decided, IdOf, IInv, TypeOK
<1>5. /\ Phase' = [Phase EXCEPT ![c] = "answered"]
      /\ Decision' = [Decision EXCEPT ![c] = Result(NewRecord(c))]
  BY <1>2, <1>4, OneMoves DEF IInv, TypeOK
<1>6. t \in receivedAt[c] .. clock /\ t \in (t - 1) + 1 .. (t + 1) - 1
  BY DEF Stamped, IInv, TypeOK
<1>7. Record(p, t) \in Contract!Kept(p, t)
  BY <1>6, SameData DEF Contract!Kept
<1>8. Contract!InsertIfAbsent(Record(p, t))
  BY <1>1, CreateInProgress DEF Contract!InsertIfAbsent, IInv, TypeOK, ArgumentsKnown, Writing
<1> QED BY <1>1, <1>2, <1>5, <1>6, <1>7, <1>8, SameData
        DEF Contract!CreateFirst, Contract!Pending, Contract!Answer

(* A read takes effect when it reads. *)
LEMMA ReadAnswers ==
  ASSUME IInv, [Next]_vars, NEW c \in Calls, NEW op, Reading(c, op),
         NEW a, Return(c, a)
  PROVE  /\ Contract!Pending(c, op)
         /\ Contract!Answer(c, a)
         /\ UNCHANGED submissions
<1> USE DEF Reading, Return, Goto
<1>1. Phase[c] = "pending" /\ Phase'[c] = "answered"
  BY DEF Phase, IInv, TypeOK
<1>2. Decision'[c] = a
  BY DEF Decision, Decided, IInv, TypeOK
<1>3. /\ Phase' = [Phase EXCEPT ![c] = "answered"]
      /\ Decision' = [Decision EXCEPT ![c] = a]
  BY <1>1, <1>2, OneMoves DEF IInv, TypeOK
<1> QED BY <1>1, <1>3 DEF Contract!Pending, Contract!Answer

LEMMA GetByIDRefines ==
  ASSUME IInv, [Next]_vars, NEW c \in Calls, GetByID(c)
  PROVE  Contract!GetByID(c)
<1> DEFINE r == submissions[request[c].id]
           a == IF r = Nil THEN NotFound ELSE r
<1>1. Reading(c, "GetByID") /\ Return(c, a)
  BY DEF GetByID
<1>2. /\ Contract!Pending(c, "GetByID")
      /\ Contract!Answer(c, a)
      /\ UNCHANGED submissions
  BY <1>1, ReadAnswers
<1> QED BY <1>2 DEF Contract!GetByID

(* The summaries of a run are a listing of the records that carry it: the
   index has each of them, and each once.                                  *)
LEMMA RunIsListed ==
  ASSUME IInv, writer = Nil, NEW r \in Runs
  PROVE  LET S == {Summary(q) : q \in {x \in Contract!Stored : x.run = r}}
         IN  /\ runs[r] = <<>> <=> S = {}
             /\ RunSummaries(r) \in SetToSeqs(S)
<1> DEFINE s == runs[r]
           f == RunSummaries(r)
           S == {Summary(q) : q \in {x \in Contract!Stored : x.run = r}}
<1>1. /\ s \in Seq(Ids) /\ Len(s) \in Nat /\ DOMAIN s = 1 .. Len(s)
      /\ DOMAIN f = 1 .. Len(s)
      /\ \A k \in 1 .. Len(s) :
           /\ s[k] \in Ids
           /\ submissions[s[k]] \in Records
           /\ submissions[s[k]].id = s[k]
           /\ submissions[s[k]].run = r
           /\ f[k] = Summary(submissions[s[k]])
  BY RunSummariesType, LenProperties
<1>2. f = [k \in 1 .. Len(s) |-> f[k]]
  BY <1>1 DEF RunSummaries
<1>3. ASSUME NEW k \in 1 .. Len(s) PROVE f[k] \in S
  <2>1. submissions[s[k]] \in Contract!Stored
    BY <1>1, NilAssumption DEF Contract!Stored
  <2> QED BY <1>1, <2>1
<1>4. ASSUME NEW x \in S PROVE \E k \in 1 .. Len(s) : f[k] = x
  <2>1. PICK i \in Ids : submissions[i] # Nil /\ submissions[i].run = r
                        /\ x = Summary(submissions[i])
    BY DEF Contract!Stored
  <2>2. i \in Range(s)
    BY <2>1, QuietIndex
  <2>3. PICK k \in 1 .. Len(s) : s[k] = i
    BY <1>1, <2>2 DEF Range
  <2> QED BY <1>1, <2>1, <2>3
<1>5. ASSUME NEW j \in 1 .. Len(s), NEW k \in 1 .. Len(s), j # k PROVE f[j] # f[k]
  <2>1. s[j] # s[k]
    BY <1>1, <1>5 DEF IInv, IndexExact, IsInjective
  <2>2. f[j].id = s[j] /\ f[k].id = s[k]
    BY <1>1, SummaryType
  <2> QED BY <2>1, <2>2
<1> HIDE DEF f, S
<1>6. f \in [1 .. Len(s) -> S]
  BY <1>2, <1>3
<1>7. f \in Bijection(1 .. Len(s), S)
  BY <1>4, <1>5, <1>6 DEF Bijection, Injection, Surjection, IsInjective
<1>8. Cardinality(S) = Len(s)
  BY <1>1, <1>7, FS_CountingElements DEF ExistsBijection
<1>9. f \in SetToSeqs(S)
  BY <1>5, <1>6, <1>8 DEF SetToSeqs
<1>10. s = <<>> <=> S = {}
  <2>1. s = <<>> => Len(s) = 0
    OBVIOUS
  <2>2. Len(s) = 0 => s = <<>>
    BY <1>1, EmptySeq
  <2>3. S = {} <=> Len(s) = 0
    BY <1>1, <1>3, <1>4
  <2> QED BY <2>1, <2>2, <2>3
<1> QED BY <1>9, <1>10 DEF f, S

LEMMA GetRunRefines ==
  ASSUME IInv, [Next]_vars, NEW c \in Calls, GetRun(c)
  PROVE  Contract!GetRun(c)
<1> DEFINE r == request[c].run
           a == IF runs[r] = <<>> THEN NotFound ELSE RunSummaries(r)
           S == {Summary(q) : q \in {x \in Contract!Stored : x.run = r}}
<1>1. Reading(c, "GetRun") /\ Return(c, a)
  BY DEF GetRun
<1>2. r \in Runs /\ writer = Nil
  BY <1>1, ReadInProgress, RequestType
<1>3. /\ Contract!Pending(c, "GetRun")
      /\ Contract!Answer(c, a)
      /\ UNCHANGED submissions
  BY <1>1, ReadAnswers
<1>4. (runs[r] = <<>> <=> S = {}) /\ RunSummaries(r) \in SetToSeqs(S)
  BY <1>2, RunIsListed
<1>5. {Contract!Summary(q) : q \in {x \in Contract!Stored : x.run = r}} = S
  BY SameData
<1>6. Contract!SetToSeqs(S) = SetToSeqs(S)
  BY SameListings
<1> HIDE DEF S
<1>7. CASE S = {}
  BY <1>3, <1>4, <1>5, <1>7 DEF Contract!GetRun
<1>8. CASE S # {}
  BY <1>3, <1>4, <1>5, <1>6, <1>8 DEF Contract!GetRun
<1> QED BY <1>7, <1>8

LEMMA ListRefines ==
  ASSUME IInv, [Next]_vars, NEW c \in Calls, List(c)
  PROVE  Contract!List(c)
<1> DEFINE f == request[c].filter
           S == {Summary(r) : r \in Selected(f)}
<1>1. Reading(c, "List")
  BY DEF List
<1>2. PICK s \in SetToSeqs(S) : NewestFirst(s) /\ Return(c, s)
  BY DEF List
<1>3. /\ Contract!Pending(c, "List")
      /\ Contract!Answer(c, s)
      /\ UNCHANGED submissions
  BY <1>1, <1>2, ReadAnswers
<1>4. {q \in Contract!Stored : Contract!Matches(q, f)} = Selected(f)
  BY SameData DEF Contract!Stored, Selected
<1>5. {Contract!Summary(r) : r \in {q \in Contract!Stored : Contract!Matches(q, f)}} = S
  BY <1>4, SameData
<1>6. s \in Contract!SetToSeqs(S) /\ Contract!NewestFirst(s)
  BY <1>2, SameListings, SameData
<1> HIDE DEF S
<1> QED BY <1>3, <1>5, <1>6 DEF Contract!List

-----------------------------------------------------------------------------
(* The clock never runs backwards. *)
LEMMA StampedStep ==
  ASSUME IInv, Stamped, [Next]_vars
  PROVE  Stamped'
<1>1. ASSUME NEW c \in Calls, NEW p \in Params, InvokeCreate(c, p) PROVE Stamped'
  BY <1>1 DEF InvokeCreate, Stamped, IInv, TypeOK
<1>2. ASSUME Tick PROVE Stamped'
  BY <1>2 DEF Tick, Stamped, IInv, TypeOK
<1>3. ASSUME UNCHANGED <<receivedAt, clock>> PROVE Stamped'
  BY <1>3 DEF Stamped
<1> QED
  BY <1>1, <1>2, <1>3 DEF Next, Proceed, InvokeRead, Lock, Found, StoreRecord,
     ReturnExisting, IndexRun, Unlock, RLock, GetByID, GetRun, List, Reading,
     Drained, vars

LEMMA InitRefines == Init => Contract!Init /\ Stamped
<1> SUFFICES ASSUME Init PROVE Contract!Init /\ Stamped
  OBVIOUS
<1>1. Phase = [c \in Calls |-> "new"]
  BY DEF Init, Phase
<1>2. Decision = [c \in Calls |-> Nil]
  BY DEF Init, Decision, Decided
<1> QED BY <1>1, <1>2 DEF Init, Contract!Init, Stamped

LEMMA NextRefines ==
  ASSUME IInv, Stamped, [Next]_vars
  PROVE  [Contract!Next]_(Contract!vars)
<1>1. ASSUME NEW c \in Calls, NEW p \in Params, InvokeCreate(c, p)
      PROVE  Contract!Next
  BY <1>1, InvokeCreateRefines DEF Contract!Next
<1>2. ASSUME NEW c \in Calls, NEW r \in Reads, InvokeRead(c, r)
      PROVE  Contract!Next
  BY <1>2, InvokeReadRefines, SameData DEF Contract!Next
<1>3. ASSUME NEW c \in Calls, Proceed(c)
      PROVE  [Contract!Next]_(Contract!vars)
  <2>1. CASE Lock(c) \/ RLock(c) \/ IndexRun(c) \/ Unlock(c) \/ ReturnExisting(c)
    BY <2>1, InternalRefines
  <2>2. CASE Found(c)
    BY <2>2, FoundRefines DEF Contract!Next
  <2>3. CASE StoreRecord(c)
    BY <2>3, StoreRecordRefines DEF Contract!Next
  <2>4. CASE GetByID(c)
    BY <2>4, GetByIDRefines DEF Contract!Next
  <2>5. CASE GetRun(c)
    BY <2>5, GetRunRefines DEF Contract!Next
  <2>6. CASE List(c)
    BY <2>6, ListRefines DEF Contract!Next
  <2> QED BY <1>3, <2>1, <2>2, <2>3, <2>4, <2>5, <2>6 DEF Proceed
<1>4. ASSUME Tick PROVE Contract!Next
  <2>1. Phase' = Phase
    BY <1>4 DEF Tick, Phase
  <2>2. Decision' = Decision
    BY <1>4 DEF Tick, Decision, Decided, IdOf
  <2> QED BY <1>4, <2>1, <2>2 DEF Tick, Contract!Next, Contract!Tick
<1>5. ASSUME UNCHANGED vars PROVE UNCHANGED Contract!vars
  <2>1. Phase' = Phase
    BY <1>5 DEF vars, Phase
  <2>2. Decision' = Decision
    BY <1>5 DEF vars, Decision, Decided, IdOf
  <2> QED BY <1>5, <2>1, <2>2 DEF vars, Contract!vars
<1> QED BY <1>1, <1>2, <1>3, <1>4, <1>5 DEF Next, Drained

(* The store is linearizable and Create idempotent: whatever the goroutines
   of the requests do at the same time, each call answers as if it had run
   alone at one moment while it was in progress.                           *)
THEOREM StoreImplementsContract == Spec => ImplementsContract
<1>1. Init => Stamped /\ Contract!Init
  BY InitRefines
<1>2. IInv /\ Stamped /\ [Next]_vars => Stamped' /\ [Contract!Next]_(Contract!vars)
  BY StampedStep, NextRefines
<1> QED BY <1>1, <1>2, Invariance, PTL DEF Spec, ImplementsContract, Contract!Spec
=============================================================================
