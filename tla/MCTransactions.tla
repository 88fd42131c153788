--------------------------- MODULE MCTransactions ---------------------------
(* The instances of Transactions that TLC checks. *)
EXTENDS Transactions, TLC

CONSTANTS s1, s2, t1, t2

OneStmt == {s1}
TwoStmts == {s1, s2}
TwoTxns == {t1, t2}

\* The handles are alike, and so are the ids: every action picks any of them.
Symmetry == Permutations({s1, s2}) \union Permutations({t1, t2})
=============================================================================
