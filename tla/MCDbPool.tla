------------------------------ MODULE MCDbPool ------------------------------
(* DbPool with pools of one and two connections (a configured count of zero  *)
(* gives one), and queries enough to fill them and to wait.                  *)
EXTENDS DbPool

CONSTANTS q1, q2, q3

MCQuery == {q1, q2, q3}
MCTwoQueries == {q1, q2}
MCCount == 0..2
=============================================================================
