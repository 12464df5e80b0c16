--------------------------- MODULE MCBufferedUart ---------------------------
(* Instances of BufferedUart for TLC: a ring of a few bytes.               *)
EXTENDS BufferedUart, TLC

CONSTANTS gui, com

MCTasks == {gui, com}
MCTask == {com}
MCSymmetry == Permutations(MCTasks)
=============================================================================
