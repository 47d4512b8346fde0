--------------------------- MODULE MCReplication ----------------------------
(* Small instances of Replication for TLC.                                  *)
EXTENDS Replication, TLC

Symmetry == Permutations(Storages)

\* Bound of the search for LatestKept, which says nothing of a behaviour once one
\* of the events it exempts has happened; slips never shrinks.
BeforeLoss == slips \cap Losses = {}

=============================================================================
