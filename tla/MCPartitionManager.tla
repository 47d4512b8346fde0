------------------------ MODULE MCPartitionManager --------------------------
(* Small instances of PartitionManager for TLC.                            *)
EXTENDS PartitionManager, TLC

Symmetry ==
  Permutations(Partitions) \cup Permutations(Clients) \cup Permutations(Instances)

=============================================================================
