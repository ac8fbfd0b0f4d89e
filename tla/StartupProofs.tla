---------------------------- MODULE StartupProofs ----------------------------
(***************************************************************************)
(* Proofs about the safety of Startup, for any servers, configurations and *)
(* databases and any number of faults.                                     *)
(***************************************************************************)
EXTENDS Startup, SequenceTheorems, TLAPS

Stages == {"down", "init", "store", "migrate", "commit", "listen", "listening"}
Kinds == {"postgres", "sqlserver"}

(***************************************************************************)
(* The inductive invariant.                                                *)
(***************************************************************************)

Typed ==
  /\ config \in [Servers -> Configs]
  /\ stage \in [Servers -> Stages]
  /\ DOMAIN registry = Servers
  /\ mode \in [Servers -> {Nil, "RS256", "HS256"}]
  /\ store \in [Servers -> {Nil, "memory", "postgres", "sqlserver"}]
  /\ DOMAIN todo = Servers
  /\ catalog \in [Databases -> SUBSET Objects("postgres")]
  /\ \A d \in Databases : catalog[d] \subseteq Objects(Kind[d])
  /\ faults \in 0 .. MaxFaults

(* A process that has ended left nothing. *)
Ended(s) == registry[s] = NoTenants /\ mode[s] = Nil /\ store[s] = Nil

(* Tenants are found under their own ID. *)
Filed(s) == \A i \in DOMAIN registry[s] : Id[registry[s][i]] = i

Answers(s, p) == Id[p] \in DOMAIN registry[s] /\ registry[s][Id[p]] = p
Package(s, k) == config[s].packages[k]

(* A package that is not registered yet is still to be. *)
Registering(s) ==
  /\ todo[s] \in Seq(Packages)
  /\ \A k \in DOMAIN config[s].packages :
       Answers(s, Package(s, k)) \/ \E j \in DOMAIN todo[s] : todo[s][j] = Package(s, k)

AllRegistered(s) == \A k \in DOMAIN config[s].packages : Answers(s, Package(s, k))
Verified(s) == mode[s] = "HS256" <=> config[s].publicKey = Nil

(* What is missing from the database is still to be created. *)
Migrating(s) ==
  /\ Connects(config[s])
  /\ config[s].driver # "memory"
  /\ todo[s] \in Seq(SUBSET Objects(Kind[config[s].url]))
  /\ stage[s] = "commit" => todo[s] # <<>>
  /\ \A o \in Objects(Kind[config[s].url]) :
       o \in Existing(s) \/ \E j \in DOMAIN todo[s] : o \in todo[s][j]

Ready(s) ==
  /\ store[s] = Backend(config[s].driver)
  /\ store[s] # "memory" => Connects(config[s]) /\ Existing(s) = Objects(store[s])

Sane(s) ==
  /\ Filed(s)
  /\ stage[s] = "down" => Ended(s)
  /\ stage[s] = "init" => Registering(s)
  /\ stage[s] \notin {"down", "init"} => AllRegistered(s)
  /\ stage[s] \notin {"down", "init"} => Verified(s)
  /\ stage[s] \in {"migrate", "commit"} => Migrating(s)
  /\ stage[s] \in {"listen", "listening"} => Ready(s)
  /\ stage[s] \notin {"listen", "listening"} => store[s] = Nil

SInv == Typed /\ \A s \in Servers : Sane(s)

-----------------------------------------------------------------------------
(* Facts about the data. *)

LEMMA ConfigFacts ==
  ASSUME Typed, NEW s \in Servers
  PROVE  /\ config[s].packages \in Seq(Packages)
         /\ config[s].publicKey \in {Nil, "rsa", "broken"}
         /\ config[s].driver \in {"memory", "postgres", "sqlserver", "mssql", "other"}
         /\ config[s].url \in Databases \cup {Nil}
<1>1. config[s] \in ConfigType
  BY ConfigsAssumption DEF Typed
<1> QED BY <1>1 DEF ConfigType

LEMMA ConnectFacts ==
  ASSUME Typed, NEW s \in Servers, Connects(config[s])
  PROVE  /\ config[s].url \in Databases
         /\ Kind[config[s].url] = Backend(config[s].driver)
         /\ Backend(config[s].driver) \in Kinds
         /\ Existing(s) = catalog[config[s].url]
<1>1. config[s].url \in Databases
  BY ConfigFacts DEF Connects
<1> QED BY <1>1, KindAssumption DEF Connects, Kinds, Existing

LEMMA TransactionFacts ==
  ASSUME NEW kind \in Kinds
  PROVE  /\ Transactions(kind) \in Seq(SUBSET Objects(kind))
         /\ \A o \in Objects(kind) :
              \E j \in DOMAIN Transactions(kind) : o \in Transactions(kind)[j]
         /\ Objects(kind) \subseteq Objects("postgres")
<1>1. CASE kind = "postgres"
  BY <1>1 DEF Transactions, Objects
<1>2. CASE kind = "sqlserver"
  BY <1>2 DEF Transactions, Objects
<1> QED BY <1>1, <1>2 DEF Kinds

LEMMA HeadOrTail ==
  ASSUME NEW S, NEW q \in Seq(S), q # <<>>
  PROVE  /\ Head(q) \in S
         /\ Tail(q) \in Seq(S)
         /\ \A j \in DOMAIN q :
              q[j] = Head(q) \/ \E k \in DOMAIN Tail(q) : Tail(q)[k] = q[j]
<1>1. /\ Len(q) \in Nat /\ Len(q) > 0 /\ DOMAIN q = 1 .. Len(q)
      /\ Tail(q) \in Seq(S) /\ Len(Tail(q)) = Len(q) - 1
      /\ DOMAIN Tail(q) = 1 .. Len(q) - 1 /\ Head(q) = q[1] /\ Head(q) \in S
  OBVIOUS
<1>2. ASSUME NEW j \in DOMAIN q, j # 1
      PROVE  j - 1 \in DOMAIN Tail(q) /\ Tail(q)[j - 1] = q[j]
  <2>1. j \in Nat /\ j - 1 \in 1 .. Len(q) - 1
    BY <1>1, <1>2
  <2>2. Tail(q)[j - 1] = q[(j - 1) + 1]
    BY <1>1, <2>1
  <2> QED BY <1>1, <2>1, <2>2
<1> QED BY <1>1, <1>2

LEMMA FirstReplaced ==
  ASSUME NEW S, NEW q \in Seq(S), q # <<>>, NEW h \in S
  PROVE  LET r == <<h>> \o Tail(q) IN
         /\ r \in Seq(S)
         /\ r # <<>>
         /\ 1 \in DOMAIN r /\ r[1] = h
         /\ \A k \in DOMAIN Tail(q) : \E j \in DOMAIN r : r[j] = Tail(q)[k]
<1> DEFINE r == <<h>> \o Tail(q)
<1>1. <<h>> \in Seq(S) /\ Len(<<h>>) = 1 /\ <<h>>[1] = h
  OBVIOUS
<1>2. Tail(q) \in Seq(S) /\ Len(Tail(q)) \in Nat /\ DOMAIN Tail(q) = 1 .. Len(Tail(q))
  BY HeadOrTail
<1>3. /\ r \in Seq(S) /\ Len(r) = 1 + Len(Tail(q))
      /\ \A i \in 1 .. 1 + Len(Tail(q)) : r[i] = IF i <= 1 THEN <<h>>[i] ELSE Tail(q)[i - 1]
  BY <1>1, <1>2, ConcatProperties
<1> HIDE DEF r
<1>4. DOMAIN r = 1 .. 1 + Len(Tail(q))
  BY <1>3
<1>5. 1 \in DOMAIN r /\ r[1] = h /\ r # <<>>
  BY <1>1, <1>2, <1>3, <1>4
<1>6. ASSUME NEW k \in DOMAIN Tail(q)
      PROVE  k + 1 \in DOMAIN r /\ r[k + 1] = Tail(q)[k]
  BY <1>2, <1>3, <1>4, <1>6
<1>7. r \in Seq(S)
  BY <1>3
<1> QED BY <1>5, <1>6, <1>7 DEF r

-----------------------------------------------------------------------------
(* What a step of one server leaves of another. *)

Same(t) ==
  /\ stage'[t] = stage[t]
  /\ registry'[t] = registry[t]
  /\ mode'[t] = mode[t]
  /\ store'[t] = store[t]
  /\ todo'[t] = todo[t]

(* Objects are created and never dropped. *)
Grows ==
  /\ catalog' \in [Databases -> SUBSET Objects("postgres")]
  /\ \A d \in Databases : catalog[d] \subseteq catalog'[d] /\ catalog'[d] \subseteq Objects(Kind[d])

LEMMA KeepsSane ==
  ASSUME Typed, NEW t \in Servers, Sane(t), config' = config, Same(t), Grows
  PROVE  Sane(t)'
<1>1. Filed(t)' /\ (stage'[t] = "down" => Ended(t)')
  BY DEF Sane, Filed, Ended, Same
<1>2. stage'[t] = "init" => Registering(t)'
  BY DEF Sane, Same, Registering, Answers, Package
<1>3. stage'[t] \notin {"down", "init"} => AllRegistered(t)' /\ Verified(t)'
  BY DEF Sane, Same, AllRegistered, Answers, Package, Verified
<1>4. ASSUME stage'[t] \in {"migrate", "commit"}
      PROVE  Migrating(t)'
  <2>1. Migrating(t)
    BY <1>4 DEF Sane, Same
  <2>2. Existing(t) \subseteq Existing(t)'
    BY <2>1, ConnectFacts DEF Migrating, Existing, Grows
  <2> QED BY <2>1, <2>2 DEF Migrating, Same, Connects
<1>5. ASSUME stage'[t] \in {"listen", "listening"}
      PROVE  Ready(t)'
  <2>1. Ready(t)
    BY <1>5 DEF Sane, Same
  <2>2. CASE store[t] = "memory"
    BY <2>1, <2>2 DEF Ready, Same
  <2>3. CASE store[t] # "memory"
    <3>1. /\ Connects(config[t]) /\ Existing(t) = Objects(store[t])
          /\ store[t] = Kind[config[t].url] /\ config[t].url \in Databases
      BY <2>1, <2>3, ConnectFacts DEF Ready
    <3>2. Existing(t)' = Existing(t)
      BY <3>1 DEF Grows, Existing
    <3> QED BY <2>1, <3>1, <3>2 DEF Ready, Same, Connects
  <2> QED BY <2>2, <2>3
<1>6. stage'[t] \notin {"listen", "listening"} => store'[t] = Nil
  BY DEF Sane, Same
<1> QED BY <1>1, <1>2, <1>3, <1>4, <1>5, <1>6 DEF Sane

LEMMA StepKeeps ==
  ASSUME SInv, NEW s \in Servers, config' = config, Grows, Typed', Sane(s)',
         \A t \in Servers \ {s} : Same(t)
  PROVE  SInv'
BY KeepsSane DEF SInv

LEMMA CatalogKept ==
  ASSUME Typed, UNCHANGED catalog
  PROVE  Grows
BY DEF Typed, Grows

LEMMA CatalogGrows ==
  ASSUME Typed, NEW s \in Servers, Connects(config[s]),
         NEW S \in SUBSET Objects(Kind[config[s].url]), Create(s, S), config' = config
  PROVE  Grows /\ Existing(s)' = Existing(s) \cup S
<1>1. config[s].url \in Databases /\ Kind[config[s].url] \in Kinds
  BY ConnectFacts
<1>2. S \subseteq Objects("postgres")
  BY <1>1, TransactionFacts
<1> QED BY <1>1, <1>2 DEF Create, Grows, Typed, Existing

-----------------------------------------------------------------------------
(* A process that ends. *)

LEMMA ExitStep ==
  ASSUME SInv, NEW s \in Servers, Exit(s), config' = config, Grows, faults' \in 0 .. MaxFaults
  PROVE  SInv'
<1>1. /\ stage'[s] = "down" /\ registry'[s] = NoTenants /\ mode'[s] = Nil /\ store'[s] = Nil
      /\ \A t \in Servers \ {s} : Same(t)
  BY DEF SInv, Typed, Exit, Goto, Same
<1>2. Typed'
  BY DEF SInv, Typed, Exit, Goto, Stages, Grows
<1>3. Sane(s)'
  BY <1>1 DEF Sane, Filed, Ended, NoTenants
<1> QED BY <1>1, <1>2, <1>3, StepKeeps
-----------------------------------------------------------------------------
(* One lemma for each action. *)

LEMMA StartStep ==
  ASSUME SInv, NEW s \in Servers, Start(s)
  PROVE  SInv'
<1>1. /\ stage[s] = "down" /\ stage'[s] = "init" /\ todo'[s] = config[s].packages
      /\ config' = config /\ registry' = registry /\ store' = store
      /\ \A t \in Servers \ {s} : Same(t)
  BY DEF SInv, Typed, Start, Goto, Same
<1>2. Typed' /\ Grows
  BY CatalogKept DEF SInv, Typed, Start, Goto, Stages
<1>3. Registering(s)'
  BY <1>1, ConfigFacts DEF SInv, Registering, Package
<1>4. Sane(s)'
  BY <1>1, <1>3 DEF SInv, Sane, Filed
<1> QED BY <1>1, <1>2, <1>4, StepKeeps

LEMMA RegisterStep ==
  ASSUME SInv, NEW s \in Servers, Register(s)
  PROVE  SInv'
<1> DEFINE p == Head(todo[s])
<1>1. Typed /\ Sane(s) /\ stage[s] = "init" /\ todo[s] # <<>> /\ config' = config /\ Grows
  BY CatalogKept DEF SInv, Register
<1>2. Registering(s)
  BY <1>1 DEF Sane
<1>3. CASE Exit(s)
  BY <1>1, <1>3, ExitStep DEF Register, Typed
<1>4. CASE /\ Id[p] \notin DOMAIN registry[s]
           /\ registry' = [registry EXCEPT ![s] =
                             [i \in DOMAIN @ \cup {Id[p]} |-> IF i = Id[p] THEN p ELSE @[i]]]
           /\ todo' = [todo EXCEPT ![s] = Tail(@)]
           /\ UNCHANGED <<stage, mode, store>>
  <2>1. /\ registry'[s] = [i \in DOMAIN registry[s] \cup {Id[p]} |->
                             IF i = Id[p] THEN p ELSE registry[s][i]]
        /\ todo'[s] = Tail(todo[s])
        /\ \A t \in Servers \ {s} : Same(t)
    BY <1>1, <1>4 DEF Typed, Same
  <2>2. Typed'
    BY <1>1, <1>4 DEF Typed, Register
  <2>3. Filed(s)'
    BY <1>1, <2>1 DEF Sane, Filed
  <2>4. /\ Tail(todo[s]) \in Seq(Packages)
        /\ \A j \in DOMAIN todo[s] :
             todo[s][j] = p \/ \E k \in DOMAIN Tail(todo[s]) : Tail(todo[s])[k] = todo[s][j]
    <3>1. todo[s] \in Seq(Packages) /\ todo[s] # <<>>
      BY <1>1, <1>2 DEF Registering
    <3> QED BY <3>1, HeadOrTail
  <2>5. ASSUME NEW k \in DOMAIN config[s].packages
        PROVE  \/ Answers(s, Package(s, k))'
               \/ \E j \in DOMAIN todo'[s] : todo'[s][j] = Package(s, k)'
    <3>1. Package(s, k)' = Package(s, k)
      BY <1>1 DEF Package
    <3>2. CASE Answers(s, Package(s, k))
      BY <1>4, <2>1, <3>1, <3>2 DEF Answers
    <3>3. CASE \E j \in DOMAIN todo[s] : todo[s][j] = Package(s, k)
      <4>1. CASE Package(s, k) = p
        BY <2>1, <3>1, <4>1 DEF Answers
      <4>2. CASE Package(s, k) # p
        BY <2>1, <2>4, <3>1, <3>3, <4>2
      <4> QED BY <4>1, <4>2
    <3> QED BY <1>2, <3>2, <3>3 DEF Registering
  <2>6. Registering(s)'
    BY <1>1, <2>1, <2>4, <2>5 DEF Registering
  <2>7. stage'[s] = "init" /\ store'[s] = Nil
    BY <1>1, <1>4 DEF Sane
  <2>8. Sane(s)'
    BY <2>3, <2>6, <2>7 DEF Sane
  <2> QED BY <1>1, <2>1, <2>2, <2>8, StepKeeps
<1> QED BY <1>3, <1>4 DEF Register

LEMMA BuildAuthConfigStep ==
  ASSUME SInv, NEW s \in Servers, BuildAuthConfig(s)
  PROVE  SInv'
<1>1. Typed /\ Sane(s) /\ stage[s] = "init" /\ todo[s] = <<>> /\ config' = config /\ Grows
  BY CatalogKept DEF SInv, BuildAuthConfig
<1>2. CASE Exit(s)
  BY <1>1, <1>2, ExitStep DEF BuildAuthConfig, Typed
<1>3. ASSUME NEW m \in {"RS256", "HS256"}, Verifying(s, m),
             m = "HS256" <=> config[s].publicKey = Nil
      PROVE  SInv'
  <2>1. /\ stage'[s] = "store" /\ mode'[s] = m /\ registry' = registry /\ store' = store
        /\ \A t \in Servers \ {s} : Same(t)
    BY <1>1, <1>3 DEF Typed, Verifying, Goto, Same
  <2>2. Typed'
    BY <1>1, <1>3 DEF Typed, Verifying, Goto, Stages, BuildAuthConfig
  <2>3. AllRegistered(s)'
    BY <1>1, <2>1 DEF Sane, Registering, AllRegistered, Answers, Package
  <2>4. Verified(s)'
    BY <1>1, <1>3, <2>1 DEF Verified
  <2>5. Sane(s)'
    BY <1>1, <2>1, <2>3, <2>4 DEF Sane, Filed
  <2> QED BY <1>1, <2>1, <2>2, <2>5, StepKeeps
<1>4. Nil \notin {"rsa", "broken"}
  BY NilAssumption
<1> QED BY <1>2, <1>3, <1>4 DEF BuildAuthConfig

(* The registry and the mode of a server that has them stay as they are. *)
LEMMA OnlyForward ==
  ASSUME NEW s \in Servers, Sane(s), stage[s] \notin {"down", "init"}, config' = config,
         registry'[s] = registry[s], mode'[s] = mode[s]
  PROVE  Filed(s)' /\ AllRegistered(s)' /\ Verified(s)'
BY DEF Sane, Filed, AllRegistered, Answers, Package, Verified
LEMMA NewStoreStep ==
  ASSUME SInv, NEW s \in Servers, NewStore(s)
  PROVE  SInv'
<1>1. /\ Typed /\ Sane(s) /\ stage[s] = "store" /\ config' = config /\ catalog' = catalog
      /\ faults' = faults /\ Grows
  BY CatalogKept DEF SInv, NewStore
<1>2. CASE Exit(s)
  BY <1>1, <1>2, ExitStep DEF Typed
<1>3. CASE /\ config[s].driver = "memory"
           /\ store' = [store EXCEPT ![s] = "memory"]
           /\ Goto(s, "listen")
           /\ UNCHANGED <<registry, mode, todo>>
  <2>1. /\ stage'[s] = "listen" /\ store'[s] = "memory" /\ registry' = registry /\ mode' = mode
        /\ \A t \in Servers \ {s} : Same(t)
    BY <1>1, <1>3 DEF Typed, Goto, Same
  <2>2. Typed'
    BY <1>1, <1>3 DEF Typed, Goto, Stages
  <2>3. Ready(s)'
    BY <1>1, <1>3, <2>1 DEF Ready, Backend
  <2>4. Sane(s)'
    BY <1>1, <2>1, <2>3, OnlyForward DEF Sane
  <2> QED BY <1>1, <2>1, <2>2, <2>4, StepKeeps
<1>4. CASE /\ config[s].driver # "memory" /\ Connects(config[s])
           /\ Goto(s, "migrate")
           /\ todo' = [todo EXCEPT ![s] = Transactions(Backend(config[s].driver))]
           /\ UNCHANGED <<registry, mode, store>>
  <2> DEFINE kind == Kind[config[s].url]
  <2>1. /\ stage'[s] = "migrate" /\ registry' = registry /\ mode' = mode /\ store' = store
        /\ todo'[s] = Transactions(kind) /\ kind \in Kinds
        /\ \A t \in Servers \ {s} : Same(t)
    BY <1>1, <1>4, ConnectFacts DEF Typed, Goto, Same
  <2>2. Typed'
    BY <1>1, <1>4 DEF Typed, Goto, Stages
  <2>3. /\ Transactions(kind) \in Seq(SUBSET Objects(kind))
        /\ \A o \in Objects(kind) : \E j \in DOMAIN Transactions(kind) : o \in Transactions(kind)[j]
    BY <2>1, TransactionFacts
  <2>4. Migrating(s)'
    BY <1>1, <1>4, <2>1, <2>3 DEF Migrating, Connects
  <2>5. Sane(s)'
    BY <1>1, <2>1, <2>4, OnlyForward DEF Sane
  <2> QED BY <1>1, <2>1, <2>2, <2>5, StepKeeps
<1> QED BY <1>2, <1>3, <1>4 DEF NewStore

LEMMA BeginStep ==
  ASSUME SInv, NEW s \in Servers, Begin(s)
  PROVE  SInv'
<1> DEFINE objects == Objects(Kind[config[s].url])
           h == Head(todo[s]) \ Existing(s)
           r == <<h>> \o Tail(todo[s])
<1>1. /\ Typed /\ Sane(s) /\ stage[s] = "migrate" /\ todo[s] # <<>> /\ Grows
      /\ config' = config /\ catalog' = catalog /\ registry' = registry /\ mode' = mode
      /\ store' = store
  BY CatalogKept DEF SInv, Begin
<1>2. Migrating(s)
  BY <1>1 DEF Sane
<1>3. /\ stage'[s] = "commit" /\ todo'[s] = r
      /\ \A t \in Servers \ {s} : Same(t)
  BY <1>1 DEF Typed, Begin, Goto, Same
<1>4. Typed'
  BY <1>1 DEF Typed, Begin, Goto, Stages
<1>5. todo[s] \in Seq(SUBSET objects)
  BY <1>2 DEF Migrating
<1>6. Head(todo[s]) \in SUBSET objects
  BY <1>1, <1>5, HeadOrTail
<1>7. /\ r \in Seq(SUBSET objects) /\ r # <<>>
      /\ 1 \in DOMAIN r /\ r[1] = h
      /\ \A k \in DOMAIN Tail(todo[s]) : \E j \in DOMAIN r : r[j] = Tail(todo[s])[k]
  <2>1. h \in SUBSET objects
    BY <1>6
  <2> HIDE DEF h, objects
  <2> QED BY <1>1, <1>5, <2>1, FirstReplaced
<1>8. ASSUME NEW o \in objects
      PROVE  o \in Existing(s) \/ \E j \in DOMAIN r : o \in r[j]
  <2>1. CASE o \in Existing(s)
    BY <2>1
  <2>2. CASE o \notin Existing(s)
    <3>1. PICK j \in DOMAIN todo[s] : o \in todo[s][j]
      BY <1>2, <2>2 DEF Migrating
    <3>2. CASE todo[s][j] = Head(todo[s])
      BY <1>7, <2>2, <3>1, <3>2
    <3>3. CASE \E k \in DOMAIN Tail(todo[s]) : Tail(todo[s])[k] = todo[s][j]
      <4>1. PICK k \in DOMAIN Tail(todo[s]) : Tail(todo[s])[k] = todo[s][j]
        BY <3>3
      <4>2. PICK n \in DOMAIN r : r[n] = Tail(todo[s])[k]
        BY <1>7
      <4> QED BY <3>1, <4>1, <4>2
    <3> QED BY <1>1, <1>5, <3>2, <3>3, HeadOrTail
  <2> QED BY <2>1, <2>2
<1> HIDE DEF r, h
<1>9. Migrating(s)'
  BY <1>1, <1>2, <1>3, <1>7, <1>8 DEF Migrating, Existing, Connects
<1>10. Sane(s)'
  BY <1>1, <1>3, <1>9, OnlyForward DEF Sane
<1> QED BY <1>1, <1>3, <1>4, <1>10, StepKeeps

LEMMA CommitStep ==
  ASSUME SInv, NEW s \in Servers, Commit(s)
  PROVE  SInv'
<1> DEFINE objects == Objects(Kind[config[s].url])
<1>1. Typed /\ Sane(s) /\ stage[s] = "commit" /\ config' = config /\ faults' = faults
  BY DEF SInv, Commit
<1>2. Migrating(s) /\ todo[s] # <<>>
  BY <1>1 DEF Sane, Migrating
<1>3. CASE Exit(s) /\ UNCHANGED catalog
  BY <1>1, <1>3, ExitStep, CatalogKept DEF Typed
<1>4. CASE /\ Create(s, Head(todo[s]))
           /\ Goto(s, "migrate")
           /\ todo' = [todo EXCEPT ![s] = Tail(@)]
           /\ UNCHANGED <<registry, mode, store>>
  <2>1. todo[s] \in Seq(SUBSET objects) /\ Connects(config[s])
    BY <1>2 DEF Migrating
  <2>2. /\ Head(todo[s]) \in SUBSET objects /\ Tail(todo[s]) \in Seq(SUBSET objects)
        /\ \A j \in DOMAIN todo[s] :
             \/ todo[s][j] = Head(todo[s])
             \/ \E k \in DOMAIN Tail(todo[s]) : Tail(todo[s])[k] = todo[s][j]
    BY <1>2, <2>1, HeadOrTail
  <2>3. Grows /\ Existing(s)' = Existing(s) \cup Head(todo[s])
    BY <1>1, <1>4, <2>1, <2>2, CatalogGrows
  <2>4. /\ stage'[s] = "migrate" /\ todo'[s] = Tail(todo[s]) /\ store' = store
        /\ registry' = registry /\ mode' = mode
        /\ \A t \in Servers \ {s} : Same(t)
    BY <1>1, <1>4 DEF Typed, Goto, Same
  <2>5. Typed'
    BY <1>1, <1>4, <2>3 DEF Typed, Goto, Stages, Grows
  <2>6. ASSUME NEW o \in objects
        PROVE  o \in Existing(s)' \/ \E k \in DOMAIN todo'[s] : o \in todo'[s][k]
    BY <1>2, <2>2, <2>3, <2>4 DEF Migrating
  <2>7. Migrating(s)'
    BY <1>1, <1>2, <2>1, <2>2, <2>4, <2>6 DEF Migrating, Connects
  <2>8. Sane(s)'
    BY <1>1, <2>4, <2>7, OnlyForward DEF Sane
  <2> QED BY <1>1, <2>3, <2>4, <2>5, <2>8, StepKeeps
<1> QED BY <1>3, <1>4 DEF Commit

LEMMA MigratedStep ==
  ASSUME SInv, NEW s \in Servers, Migrated(s)
  PROVE  SInv'
<1> DEFINE b == Backend(config[s].driver)
<1>1. /\ Typed /\ Sane(s) /\ stage[s] = "migrate" /\ todo[s] = <<>> /\ Grows
      /\ config' = config /\ catalog' = catalog /\ registry' = registry /\ mode' = mode
  BY CatalogKept DEF SInv, Migrated
<1>2. Migrating(s)
  BY <1>1 DEF Sane
<1>3. /\ Connects(config[s]) /\ b \in Kinds /\ Kind[config[s].url] = b
      /\ config[s].url \in Databases /\ Existing(s) = catalog[config[s].url]
  BY <1>1, <1>2, ConnectFacts DEF Migrating
<1>4. /\ stage'[s] = "listen" /\ store'[s] = b
      /\ \A t \in Servers \ {s} : Same(t)
  BY <1>1 DEF Typed, Migrated, Goto, Same
<1>5. Typed'
  BY <1>1, <1>3 DEF Typed, Migrated, Goto, Stages, Kinds
<1>6. Existing(s) = Objects(b)
  <2>1. DOMAIN todo[s] = {}
    BY <1>1
  <2>2. Objects(b) \subseteq Existing(s)
    BY <1>2, <1>3, <2>1 DEF Migrating
  <2>3. catalog[config[s].url] \subseteq Objects(b)
    BY <1>1, <1>3 DEF Typed
  <2> QED BY <1>3, <2>2, <2>3
<1>7. Ready(s)'
  BY <1>1, <1>3, <1>4, <1>6 DEF Ready, Existing, Connects
<1>8. Sane(s)'
  BY <1>1, <1>4, <1>7, OnlyForward DEF Sane
<1> QED BY <1>1, <1>4, <1>5, <1>8, StepKeeps

LEMMA ListenStep ==
  ASSUME SInv, NEW s \in Servers, Listen(s)
  PROVE  SInv'
<1>1. /\ Typed /\ Sane(s) /\ stage[s] = "listen" /\ config' = config /\ catalog' = catalog
      /\ faults' = faults /\ Grows
  BY CatalogKept DEF SInv, Listen
<1>2. CASE Exit(s)
  BY <1>1, <1>2, ExitStep DEF Typed
<1>3. CASE Goto(s, "listening") /\ UNCHANGED <<registry, mode, store, todo>>
  <2>1. /\ stage'[s] = "listening" /\ store' = store /\ registry' = registry /\ mode' = mode
        /\ \A t \in Servers \ {s} : Same(t)
    BY <1>1, <1>3 DEF Typed, Goto, Same
  <2>2. Typed'
    BY <1>1, <1>3 DEF Typed, Goto, Stages
  <2>3. Ready(s)'
    BY <1>1, <2>1 DEF Sane, Ready, Existing, Connects
  <2>4. Sane(s)'
    BY <1>1, <2>1, <2>3, OnlyForward DEF Sane
  <2> QED BY <1>1, <2>1, <2>2, <2>4, StepKeeps
<1> QED BY <1>2, <1>3 DEF Listen

LEMMA FaultStep ==
  ASSUME SInv, NEW s \in Servers, Fault(s)
  PROVE  SInv'
<1>1. Typed /\ Sane(s) /\ config' = config /\ Exit(s) /\ faults' \in 0 .. MaxFaults
  BY FaultsAssumption DEF SInv, Fault, Typed
<1>2. CASE UNCHANGED catalog
  BY <1>1, <1>2, ExitStep, CatalogKept
<1>3. CASE Committable(s) /\ Create(s, Head(todo[s]))
  <2>1. Migrating(s) /\ todo[s] # <<>>
    BY <1>1, <1>3 DEF Sane, Migrating, Committable
  <2>2. Connects(config[s]) /\ Head(todo[s]) \in SUBSET Objects(Kind[config[s].url])
    BY <2>1, HeadOrTail DEF Migrating
  <2>3. Grows
    BY <1>1, <1>3, <2>2, CatalogGrows
  <2> QED BY <1>1, <2>3, ExitStep
<1> QED BY <1>2, <1>3 DEF Fault

-----------------------------------------------------------------------------
(* The invariant and the properties. *)

LEMMA InitInv == Init => SInv
<1> SUFFICES ASSUME Init PROVE SInv
  OBVIOUS
<1>1. Typed
  BY FaultsAssumption DEF Init, Typed, Stages
<1>2. ASSUME NEW s \in Servers PROVE Sane(s)
  BY DEF Init, Sane, Filed, Ended, NoTenants
<1> QED BY <1>1, <1>2 DEF SInv

LEMMA NextInv == SInv /\ [Next]_vars => SInv'
<1> SUFFICES ASSUME SInv, [Next]_vars PROVE SInv'
  OBVIOUS
<1>1. ASSUME NEW s \in Servers, Start(s) \/ Fault(s)
      PROVE  SInv'
  BY <1>1, StartStep, FaultStep
<1>2. ASSUME NEW s \in Servers, Step(s)
      PROVE  SInv'
  BY <1>2, RegisterStep, BuildAuthConfigStep, NewStoreStep, BeginStep, CommitStep,
     MigratedStep, ListenStep DEF Step
<1>3. CASE UNCHANGED vars
  <2>1. Typed'
    BY <1>3 DEF SInv, Typed, vars
  <2>2. ASSUME NEW s \in Servers PROVE Sane(s)'
    BY <1>3, KeepsSane, CatalogKept DEF SInv, Same, vars
  <2> QED BY <2>1, <2>2 DEF SInv
<1> QED BY <1>1, <1>2, <1>3 DEF Next, Serving

(* The inductive invariant holds in every reachable state of the specification. *)
THEOREM Invariance == Spec => []SInv
BY InitInv, NextInv, PTL DEF Spec

(* The variables keep their types, and a process that has ended leaves
   nothing behind.                                                         *)
THEOREM TypeCorrect == Spec => []TypeOK
<1>1. SInv => TypeOK
  BY DEF SInv, Typed, Stages, Sane, Filed, Ended, TypeOK
<1> QED BY <1>1, Invariance, PTL

(* A server listens on a whole schema, for any number of servers that migrate
   the same database and stop half-way.                                    *)
THEOREM SchemaIsThere == Spec => []ServesOnSchema
<1>1. SInv => ServesOnSchema
  BY DEF SInv, Sane, Ready, ServesOnSchema
<1> QED BY <1>1, Invariance, PTL

(* No failure while starting leaves a server with another key or another
   store than its environment asks for.                                    *)
THEOREM ConfiguredIsRun == Spec => []RunsAsConfigured
<1>1. SInv => RunsAsConfigured
  BY DEF SInv, Sane, Ready, Verified, RunsAsConfigured
<1> QED BY <1>1, Invariance, PTL

(* Every package of a server that listens is registered under its own ID. *)
THEOREM SurveysAnswer == Spec => []EverySurveyAnswers
<1>1. SInv => EverySurveyAnswers
  BY DEF SInv, Sane, AllRegistered, Answers, Package, EverySurveyAnswers
<1> QED BY <1>1, Invariance, PTL
=============================================================================
