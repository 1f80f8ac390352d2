----------------------------- MODULE MC_Restore -----------------------------
(* Two programs, two users and two targets for Restore. *)
EXTENDS Restore, TLC

MC_Layout == <<1, 2>>
MC_Symmetry == Permutations(Procs) \cup Permutations(TokenUsers)
=============================================================================
