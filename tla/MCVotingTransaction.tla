------------------------ MODULE MCVotingTransaction -------------------------
(* Small instances of VotingTransaction for TLC.                           *)
EXTENDS VotingTransaction, TLC

Symmetry ==
  Permutations(Secondaries) \cup Permutations(Values) \cup Permutations(Errors)

=============================================================================
