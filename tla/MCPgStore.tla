------------------------------ MODULE MCPgStore ------------------------------
(* PgStore with two concurrent calls and one key per table. *)
EXTENDS PgStore, TLC

CONSTANTS c1, c2, t1, l1, l2, d1, f1

MCClient    == {c1, c2}
MCTimepoint == {t1}
MCLabels    == {l1, l2}
MCDomain    == {d1}
MCCgfi      == {f1}

Symmetry == Permutations(MCClient) \union Permutations(MCLabels)
==============================================================================
