---------------------------- MODULE MCLivePages -----------------------------
(* Small instances of LivePages for TLC. *)
EXTENDS LivePages, TLC

Symmetry == Permutations(Streams) \cup Permutations(Groups)
=============================================================================
