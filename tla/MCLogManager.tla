---------------------------- MODULE MCLogManager ----------------------------
(* Small instances of LogManager for TLC.                                  *)
EXTENDS LogManager, TLC

Symmetry == Permutations(Entries)

=============================================================================
