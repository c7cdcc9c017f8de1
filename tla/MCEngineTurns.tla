--------------------------- MODULE MCEngineTurns ---------------------------
(* Small instances of EngineTurns for TLC *)
EXTENDS EngineTurns, TLC

ThreadSymmetry == Permutations(TopThreads)
=============================================================================
