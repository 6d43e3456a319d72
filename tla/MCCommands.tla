----------------------------- MODULE MCCommands -----------------------------
(* Commands for TLC: timers' goroutines and processes are interchangeable.  *)
EXTENDS Commands, TLC

Symmetry == Permutations(Cycles) \cup Permutations(Apps)
=============================================================================
