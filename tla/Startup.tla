------------------------------ MODULE Startup ------------------------------
(***************************************************************************)
(* Servers that start on shared databases: the init functions that         *)
(* register the tenants, then main up to ListenAndServe, with NewStore and *)
(* the migrate of either SQL store.                                        *)
(*                                                                         *)
(* migrate is one batch of CREATE ... IF NOT EXISTS.  PostgreSQL runs it as *)
(* one transaction, SQL Server runs and commits each statement by itself.   *)
(* A transaction finds out what is missing, and nobody sees what it creates *)
(* before it commits; if another one created the same meanwhile, it fails,  *)
(* and the error ends the batch.                                           *)
(*                                                                         *)
(* Any error ends the process, and whoever runs the servers starts it      *)
(* again.  Crashes and lost connections do the same; MaxFaults bounds them. *)
(***************************************************************************)
EXTENDS Integers, Sequences, FiniteSets

CONSTANTS
  Servers,
  Configs,         \* the builds and environments of servers
  Packages,        \* the packages that register a tenant
  Id,              \* Id[p]: the ID of the tenant of package p
  Databases,
  Kind,            \* Kind[d]: "postgres" or "sqlserver"
  Nil,             \* no value: an unset variable
  MaxFaults        \* bound on the faults, for model checking

(* The packages compiled in, in the order of their init functions, and the
   drivers the build tags select; then the environment.  JWT_PUBLIC_KEY is
   unset, an RSA key or something else.  An unset DB_DRIVER is "memory".   *)
ConfigType ==
  [packages: Seq(Packages), linked: SUBSET {"postgres", "sqlserver"},
   publicKey: {Nil, "rsa", "broken"},
   driver: {"memory", "postgres", "sqlserver", "mssql", "other"},
   url: Databases \cup {Nil}, address: Nat]

ASSUME ConfigsAssumption == Configs \subseteq ConfigType
ASSUME KindAssumption == Kind \in [Databases -> {"postgres", "sqlserver"}]
ASSUME NilAssumption == Nil \notin Databases \cup {"rsa", "broken"}
ASSUME FaultsAssumption == MaxFaults \in Nat

VARIABLES
  config,          \* the build and the environment of each server
  stage,           \* how far each has come, down if it is not running
  registry,        \* tenant.registry of each: packages by ID
  mode,            \* how each verifies tokens: "RS256", "HS256"
  store,           \* the store of each
  todo,            \* what is left of the loop or the batch each is in
  catalog,         \* the objects of each database
  faults           \* how many faults there were

vars == <<config, stage, registry, mode, store, todo, catalog, faults>>

(* The transactions of migrate, in their order: the objects each creates. *)
Transactions(kind) ==
  IF kind = "postgres" THEN <<{"submissions", "holding", "run", "period"}>>
  ELSE <<{"submissions"}, {"holding"}, {"run"}>>

Objects(kind) == UNION {Transactions(kind)[k] : k \in DOMAIN Transactions(kind)}

(* The driver NewStore opens for a DB_DRIVER. *)
Backend(driver) == IF driver = "mssql" THEN "sqlserver" ELSE driver

NoTenants == [id \in {} |-> Nil]

Init ==
  /\ config \in [Servers -> Configs]
  /\ stage = [s \in Servers |-> "down"]
  /\ registry = [s \in Servers |-> NoTenants]
  /\ mode = [s \in Servers |-> Nil]
  /\ store = [s \in Servers |-> Nil]
  /\ todo = [s \in Servers |-> <<>>]
  /\ catalog \in {f \in [Databases -> SUBSET Objects("postgres")] :
                    \A d \in Databases :
                      /\ f[d] \subseteq Objects(Kind[d])
                      /\ f[d] # {} => "submissions" \in f[d]}
  /\ faults = 0

Goto(s, next) == stage' = [stage EXCEPT ![s] = next]

(* Mutant: the store outlives the process. *)
ExitKeepingStore(s) ==
  /\ Goto(s, "down")
  /\ registry' = [registry EXCEPT ![s] = NoTenants]
  /\ mode' = [mode EXCEPT ![s] = Nil]
  /\ UNCHANGED store
  /\ todo' = [todo EXCEPT ![s] = <<>>]

(* os.Exit or a panic: the memory of the process is gone. *)
Exit(s) ==
  /\ Goto(s, "down")
  /\ registry' = [registry EXCEPT ![s] = NoTenants]
  /\ mode' = [mode EXCEPT ![s] = Nil]
  /\ store' = [store EXCEPT ![s] = Nil]
  /\ todo' = [todo EXCEPT ![s] = <<>>]

(* Whoever runs the servers starts one. *)
Start(s) ==
  /\ stage[s] = "down"
  /\ Goto(s, "init")
  /\ todo' = [todo EXCEPT ![s] = config[s].packages]
  /\ UNCHANGED <<config, registry, mode, store, catalog, faults>>

-----------------------------------------------------------------------------
(* Mutant: a later tenant replaces an earlier one of its ID. *)
RegisterLast(s) ==
  /\ stage[s] = "init"
  /\ todo[s] # <<>>
  /\ LET p == Head(todo[s]) IN
     registry' = [registry EXCEPT ![s] =
                    [i \in DOMAIN @ \cup {Id[p]} |-> IF i = Id[p] THEN p ELSE @[i]]]
  /\ todo' = [todo EXCEPT ![s] = Tail(@)]
  /\ UNCHANGED <<config, stage, mode, store, catalog, faults>>

(* Register, in the init function of a package: a duplicate is a panic. *)
Register(s) ==
  /\ stage[s] = "init"
  /\ todo[s] # <<>>
  /\ LET p == Head(todo[s]) IN
     \/ Id[p] \in DOMAIN registry[s] /\ Exit(s)
     \/ /\ Id[p] \notin DOMAIN registry[s]
        /\ registry' = [registry EXCEPT ![s] =
                          [i \in DOMAIN @ \cup {Id[p]} |-> IF i = Id[p] THEN p ELSE @[i]]]
        /\ todo' = [todo EXCEPT ![s] = Tail(@)]
        /\ UNCHANGED <<stage, mode, store>>
  /\ UNCHANGED <<config, catalog, faults>>

Verifying(s, m) ==
  /\ Goto(s, "store")
  /\ mode' = [mode EXCEPT ![s] = m]
  /\ UNCHANGED <<registry, store, todo>>

(* Mutant: a key that cannot be read counts as no key. *)
BuildAuthConfigAnyway(s) ==
  /\ stage[s] = "init" /\ todo[s] = <<>>
  /\ Verifying(s, IF config[s].publicKey = "rsa" THEN "RS256" ELSE "HS256")
  /\ UNCHANGED <<config, catalog, faults>>

(* buildAuthConfig: the key if there is one, the shared secret if not. *)
BuildAuthConfig(s) ==
  /\ stage[s] = "init" /\ todo[s] = <<>>
  /\ \/ config[s].publicKey = Nil /\ Verifying(s, "HS256")
     \/ config[s].publicKey = "rsa" /\ Verifying(s, "RS256")
     \/ config[s].publicKey = "broken" /\ Exit(s)
  /\ UNCHANGED <<config, catalog, faults>>

(* A database NewStore can connect to: named, and with its driver linked. *)
Connects(c) ==
  /\ Backend(c.driver) \in c.linked
  /\ c.url # Nil
  /\ Kind[c.url] = Backend(c.driver)

(* NewStore up to Ping. *)
NewStore(s) ==
  /\ stage[s] = "store"
  /\ LET c == config[s] IN
     \/ /\ c.driver = "memory"
        /\ store' = [store EXCEPT ![s] = "memory"]
        /\ Goto(s, "listen")
        /\ UNCHANGED <<registry, mode, todo>>
     \/ /\ c.driver # "memory" /\ Connects(c)
        /\ Goto(s, "migrate")
        /\ todo' = [todo EXCEPT ![s] = Transactions(Backend(c.driver))]
        /\ UNCHANGED <<registry, mode, store>>
     \/ c.driver # "memory" /\ ~Connects(c) /\ Exit(s)
  /\ UNCHANGED <<config, catalog, faults>>

-----------------------------------------------------------------------------
(* migrate *)

Existing(s) == catalog[config[s].url]
Create(s, objects) == catalog' = [catalog EXCEPT ![config[s].url] = @ \cup objects]

(* Mutant: the statements do not ask whether the object exists. *)
BeginBlindly(s) ==
  /\ stage[s] = "migrate"
  /\ todo[s] # <<>>
  /\ Goto(s, "commit")
  /\ UNCHANGED <<config, registry, mode, store, todo, catalog, faults>>

(* IF NOT EXISTS of the next transaction: what is there is not created. *)
Begin(s) ==
  /\ stage[s] = "migrate"
  /\ todo[s] # <<>>
  /\ todo' = [todo EXCEPT ![s] = <<Head(@) \ Existing(s)>> \o Tail(@)]
  /\ Goto(s, "commit")
  /\ UNCHANGED <<config, registry, mode, store, catalog, faults>>

Committable(s) == stage[s] = "commit" /\ Head(todo[s]) \cap Existing(s) = {}

(* Mutant: the error of a transaction does not end the batch. *)
CommitAnyhow(s) ==
  /\ stage[s] = "commit"
  /\ \/ Committable(s) /\ Create(s, Head(todo[s]))
     \/ UNCHANGED catalog
  /\ Goto(s, "migrate")
  /\ todo' = [todo EXCEPT ![s] = Tail(@)]
  /\ UNCHANGED <<config, registry, mode, store, faults>>

(* Its end: an error if something it creates exists by now. *)
Commit(s) ==
  /\ stage[s] = "commit"
  /\ \/ /\ Committable(s)
        /\ Create(s, Head(todo[s]))
        /\ Goto(s, "migrate")
        /\ todo' = [todo EXCEPT ![s] = Tail(@)]
        /\ UNCHANGED <<registry, mode, store>>
     \/ ~Committable(s) /\ Exit(s) /\ UNCHANGED catalog
  /\ UNCHANGED <<config, faults>>

(* The batch is through: NewStore returns its store. *)
Migrated(s) ==
  /\ stage[s] = "migrate"
  /\ todo[s] = <<>>
  /\ Goto(s, "listen")
  /\ store' = [store EXCEPT ![s] = Backend(config[s].driver)]
  /\ UNCHANGED <<config, registry, mode, todo, catalog, faults>>

-----------------------------------------------------------------------------
Taken(s) ==
  \E t \in Servers \ {s} : stage[t] = "listening" /\ config[t].address = config[s].address

(* ListenAndServe: an address that is taken is an error. *)
Listen(s) ==
  /\ stage[s] = "listen"
  /\ \/ Taken(s) /\ Exit(s)
     \/ ~Taken(s) /\ Goto(s, "listening") /\ UNCHANGED <<registry, mode, store, todo>>
  /\ UNCHANGED <<config, catalog, faults>>

(* A crash of the process, or a lost connection before it listens.  A
   transaction that was to commit does so or not.                          *)
Fault(s) ==
  /\ stage[s] # "down"
  /\ faults < MaxFaults
  /\ faults' = faults + 1
  /\ Exit(s)
  /\ \/ UNCHANGED catalog
     \/ Committable(s) /\ Create(s, Head(todo[s]))
  /\ UNCHANGED config

Step(s) ==
  \/ Register(s) \/ BuildAuthConfig(s) \/ NewStore(s)
  \/ Begin(s) \/ Commit(s) \/ Migrated(s)
  \/ Listen(s)

(* Every server serves. *)
Serving == (\A s \in Servers : stage[s] = "listening") /\ UNCHANGED vars

Next ==
  \/ \E s \in Servers : Start(s) \/ Step(s) \/ Fault(s)
  \/ Serving

(* A process that runs goes on, and what has stopped is started again. *)
Spec ==
  /\ Init
  /\ [][Next]_vars
  /\ \A s \in Servers : WF_vars(Start(s)) /\ WF_vars(Step(s))

-----------------------------------------------------------------------------
(* Properties *)

(* The variables have the types the code gives them, and nothing is left of a
   process that has ended.                                                 *)
TypeOK ==
  /\ config \in [Servers -> Configs]
  /\ \A s \in Servers :
       /\ stage[s] \in {"down", "init", "store", "migrate", "commit", "listen",
                        "listening"}
       /\ \A i \in DOMAIN registry[s] : Id[registry[s][i]] = i
       /\ mode[s] \in {Nil, "RS256", "HS256"}
       /\ store[s] \in {Nil, "memory", "postgres", "sqlserver"}
       /\ stage[s] = "down" => registry[s] = NoTenants /\ mode[s] = Nil /\ store[s] = Nil
       /\ store[s] # Nil => stage[s] \in {"listen", "listening"}
  /\ \A d \in Databases : catalog[d] \subseteq Objects(Kind[d])
  /\ faults \in 0 .. MaxFaults

(* A server that serves from a database has its whole schema, whoever created
   which part of it and whatever failed on the way.                        *)
ServesOnSchema ==
  \A s \in Servers :
    stage[s] = "listening" /\ store[s] # "memory" =>
      Existing(s) = Objects(store[s])

(* A server that serves does so as it was told: no failure on the way turns
   a public key into the shared secret or a database into memory
   (README.md:226-228).                                                    *)
RunsAsConfigured ==
  \A s \in Servers :
    stage[s] = "listening" =>
      /\ mode[s] = "HS256" <=> config[s].publicKey = Nil
      /\ store[s] = Backend(config[s].driver)

(* Every survey compiled into a server that serves is the one its ID leads
   to.                                                                     *)
EverySurveyAnswers ==
  \A s \in Servers :
    stage[s] = "listening" =>
      \A k \in DOMAIN config[s].packages :
        LET p == config[s].packages[k] IN
        Id[p] \in DOMAIN registry[s] /\ registry[s][Id[p]] = p

(* A server whose configuration is right serves in the end and for good,
   although it may lose the race for an object and have to start again:
   "Idempotent - safe to run on every startup" (stores.go:29).             *)
Sound(s) ==
  LET c == config[s] IN
  /\ \A j, k \in DOMAIN c.packages : Id[c.packages[j]] = Id[c.packages[k]] => j = k
  /\ c.publicKey # "broken"
  /\ c.driver = "memory" \/ Connects(c)
  /\ \A t \in Servers \ {s} : config[t].address # c.address
EventuallyServes ==
  \A s \in Servers : Sound(s) ~> [](stage[s] = "listening")
=============================================================================
