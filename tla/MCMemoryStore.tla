----------------------------- MODULE MCMemoryStore -----------------------------
(* MemoryStore on a small instance: two ids, two runs.  Two of the Creates
   carry the same id with a different run, holding and payload, two carry the
   same run with different ids.                                            *)
EXTENDS MemoryStore

CONSTANTS c1, c2, c3, i1, i2, r1, r2, h1, h2, t1, a, b

MCIds == {i1, i2}
MCRuns == {r1, r2}
MCHoldings == {h1, h2}
MCTenants == {t1}
MCPayloads == {a, b}
MCCalls == {c1, c2, c3}

Post(i, r, h, q, x) ==
  [id |-> i, tenant |-> t1, run |-> r, holding |-> h, year |-> 2026,
   quarter |-> q, payload |-> x]

MCParams == {Post(i1, r1, h1, 1, a), Post(i1, r2, h2, 1, b), Post(i2, r1, h1, 2, b)}

(* Everything of a holding, and one quarter of it. *)
MCFilters == {[holding |-> h1, year |-> 0, quarter |-> 0],
              [holding |-> h1, year |-> 2026, quarter |-> 2]}
=============================================================================
