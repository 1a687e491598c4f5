---------------------------- MODULE MCActiveWrite ----------------------------
(* Values of the constants for TLC: two offers, two write processes.         *)
EXTENDS ActiveWrite, TLC

CONSTANTS w1, w2

MCWriters == {w1, w2}
Operators == Permutations(MCWriters)
MCRows == {1, 2}
=============================================================================
