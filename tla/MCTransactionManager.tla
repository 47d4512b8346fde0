----------------------- MODULE MCTransactionManager -----------------------
(* Instances of TransactionManager for TLC.                                *)
EXTENDS TransactionManager, TLC

\* Transactions and references are interchangeable.
Symmetry == Permutations(Txns) \cup Permutations(Refs)
===========================================================================
