------------------------------ MODULE MCSqlStore ------------------------------
(* SqlStore on a small instance: two ids and two runs.  Two of the parameters
   carry the same id with a different run, holding and payload; one has a
   quarter no INTEGER column holds (math.MaxInt64, which Atoi makes of a path
   segment that is too long; 2147483647, TLC's largest, stands for it), and
   so has one of the filters.                                              *)
EXTENDS SqlStore

CONSTANTS c1, c2, c3, i1, i2, r1, r2, h1, h2, t1, a, b

MCIds == {i1, i2}
MCRuns == {r1, r2}
MCHoldings == {h1, h2}
MCTenants == {t1}
MCPayloads == {a, b}
MCDrivers == {"postgres", "sqlserver"}
MCPostgres == {"postgres"}
MCSqlServer == {"sqlserver"}
MCTwoCalls == {c1, c2}
MCThreeCalls == {c1, c2, c3}

Post(i, r, h, q, x) ==
  [id |-> i, tenant |-> t1, run |-> r, holding |-> h, year |-> 2026,
   quarter |-> q, payload |-> x]

MCTooLarge == Post(i2, r1, h1, 2147483647, b)
MCParams == {Post(i1, r1, h1, 1, a), Post(i1, r2, h2, 1, b), MCTooLarge}
MCUnfit == {MCTooLarge}

MCFilterTooLarge == [holding |-> h1, year |-> 0, quarter |-> 2147483647]
MCFilters == {[holding |-> h1, year |-> 0, quarter |-> 0],
              [holding |-> h1, year |-> 2026, quarter |-> 1],
              MCFilterTooLarge}
MCUnfitFilters == {MCFilterTooLarge}

MCNoneUnfit == {}

ThreeCallSymmetry == Permutations(MCThreeCalls)
=============================================================================
