----------------------------- MODULE MCRepository -----------------------------
(* Repository for TLC: commands are interchangeable. *)
EXTENDS Repository, TLC

CommandSymmetry == Permutations(Commands)

=============================================================================
