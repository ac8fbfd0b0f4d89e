----------------------------- MODULE MCStartup -----------------------------
(* Startup on a small instance: two servers, one database of each kind, good
   configurations and one for each way a configuration can be wrong.        *)
EXTENDS Startup, TLC

CONSTANTS s1, s2, ehecs, survey, copy, pg, ms

MCServers == {s1, s2}
MCPackages == {ehecs, survey, copy}
MCId == (ehecs :> "ehecs") @@ (survey :> "survey") @@ (copy :> "ehecs")
MCDatabases == {pg, ms}
MCKind == (pg :> "postgres") @@ (ms :> "sqlserver")

OnPostgres ==
  [packages |-> <<ehecs>>, linked |-> {"postgres"}, publicKey |-> "rsa",
   driver |-> "postgres", url |-> pg, address |-> 1]
OnSqlServer ==
  [packages |-> <<ehecs, survey>>, linked |-> {"postgres", "sqlserver"}, publicKey |-> Nil,
   driver |-> "mssql", url |-> ms, address |-> 1]

Elsewhere(c) == [c EXCEPT !.address = 2]

MCConfigs ==
  {OnPostgres, Elsewhere(OnPostgres), OnSqlServer, Elsewhere(OnSqlServer),
   [OnSqlServer EXCEPT !.driver = "memory"],
   [OnSqlServer EXCEPT !.packages = <<ehecs, copy>>],
   [OnPostgres EXCEPT !.publicKey = "broken"],
   [OnPostgres EXCEPT !.driver = "sqlserver"],
   [OnSqlServer EXCEPT !.url = pg],
   [OnPostgres EXCEPT !.url = Nil],
   [OnPostgres EXCEPT !.driver = "other"]}
=============================================================================
