--------------------------- MODULE MCDescribeParam ---------------------------
(* The instance of DescribeParam that TLC checks.                           *)
EXTENDS DescribeParam

CONSTANTS t1, t2, one, two

\* A statement with one parameter and one with two.
MCNumParams == [sql \in {one, two} |-> IF sql = one THEN 1 ELSE 2]
MCThreads == {t1, t2}
MCSqls == {one, two}
=============================================================================
