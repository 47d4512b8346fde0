---------------------- MODULE VotingTransactionProofs -----------------------
(***************************************************************************)
(* Proofs about VotingTransaction: for any number of nodes, values and     *)
(* subtransactions, the invariant VotingInv and what follows from it.      *)
(***************************************************************************)
EXTENDS VotingTransaction, FiniteSetTheorems, TLAPS

-----------------------------------------------------------------------------
(* Weights.                                                                *)

\* Weights are numbers, and grow with the set.
LEMMA WeightMonotone ==
  ASSUME NEW T \in SUBSET Nodes, NEW S \in SUBSET T
  PROVE  Weight(S) \in Nat /\ Weight(T) \in Nat /\ Weight(S) <= Weight(T)
<1>1. IsFiniteSet(Nodes) /\ Primary \in Nodes
  BY ConstantsAssumption
<1>2. IsFiniteSet(T \ {Primary}) /\ IsFiniteSet(Secondaries)
  BY <1>1, FS_Subset, T \ {Primary} \subseteq Nodes, Secondaries \subseteq Nodes
     DEF Secondaries
<1>3. S \ {Primary} \in SUBSET (T \ {Primary})
  OBVIOUS
<1>4. /\ IsFiniteSet(S \ {Primary})
      /\ Cardinality(S \ {Primary}) <= Cardinality(T \ {Primary})
  BY <1>2, <1>3, FS_Subset
<1>5. /\ Cardinality(S \ {Primary}) \in Nat
      /\ Cardinality(T \ {Primary}) \in Nat
      /\ Cardinality(Secondaries) \in Nat
  BY <1>2, <1>4, FS_CardinalityType
<1> QED
  BY <1>4, <1>5 DEF Weight, PrimaryVotes

\* The weight of two disjoint sets of voters.
LEMMA WeightUnion ==
  ASSUME NEW S \in SUBSET Nodes, NEW T \in SUBSET Nodes, S \cap T = {}
  PROVE  Weight(S \cup T) = Weight(S) + Weight(T)
<1> DEFINE A == S \ {Primary}
           B == T \ {Primary}
<1>1. IsFiniteSet(Nodes) /\ Primary \in Nodes
  BY ConstantsAssumption
<1>2. IsFiniteSet(A) /\ IsFiniteSet(B) /\ IsFiniteSet(Secondaries)
  BY <1>1, FS_Subset, A \subseteq Nodes, B \subseteq Nodes, Secondaries \subseteq Nodes
     DEF Secondaries
<1>3. Cardinality(A) \in Nat /\ Cardinality(B) \in Nat /\ Cardinality(Secondaries) \in Nat
  BY <1>2, FS_CardinalityType
<1>4. A \cap B = {} /\ (S \cup T) \ {Primary} = A \cup B
  OBVIOUS
<1>5. Cardinality(A \cup B) = Cardinality(A) + Cardinality(B) - Cardinality(A \cap B)
  BY <1>2, FS_Union
<1>6. Cardinality(A \cap B) = 0
  BY <1>4, FS_EmptySet
<1>7. Cardinality((S \cup T) \ {Primary}) = Cardinality(A) + Cardinality(B)
  BY <1>3, <1>4, <1>5, <1>6
<1>8. ~(Primary \in S /\ Primary \in T)
  OBVIOUS
<1> QED
  BY <1>3, <1>7, <1>8 DEF Weight, PrimaryVotes

\* The threshold is a positive number.
LEMMA ThresholdType ==
  Threshold \in Nat /\ Threshold > Cardinality(Secondaries)
  /\ Cardinality(Secondaries) \in Nat
<1>1. IsFiniteSet(Secondaries)
  BY ConstantsAssumption, FS_Subset, Secondaries \subseteq Nodes DEF Secondaries
<1>2. Cardinality(Secondaries) \in Nat
  BY Zenon, <1>1, FS_CardinalityType
<1> QED
  BY <1>2 DEF Threshold

\* There is no quorum without the primary.
LEMMA PrimaryDecides ==
  ASSUME NEW S \in SUBSET Nodes, Weight(S) >= Threshold
  PROVE  Primary \in S
<1> SUFFICES ASSUME Primary \notin S PROVE FALSE
  OBVIOUS
<1>1. S \ {Primary} \in SUBSET Secondaries
  BY DEF Secondaries
<1>2. IsFiniteSet(Secondaries)
  BY ConstantsAssumption, FS_Subset, Secondaries \subseteq Nodes DEF Secondaries
<1>3. /\ IsFiniteSet(S \ {Primary})
      /\ Cardinality(S \ {Primary}) <= Cardinality(Secondaries)
  BY <1>1, <1>2, FS_Subset
<1>4. Cardinality(S \ {Primary}) \in Nat
  BY <1>3, FS_CardinalityType
<1>5. Weight(S) = Cardinality(S \ {Primary})
  BY <1>4 DEF Weight
<1> QED
  BY <1>3, <1>4, <1>5, ThresholdType

-----------------------------------------------------------------------------
(* One subtransaction.                                                     *)

Voters(s, v) == {n \in Nodes : s.vote[n] = v}

\* What becomes of a subtransaction: its decisions stand.
SubtransactionStep(s, t) ==
  /\ \A n \in Nodes : s.result[n] # "undecided" => t.result[n] = s.result[n]
  /\ s.done => t.done
  /\ s.done /\ NoneCommitted(s) => NoneCommitted(t)

\* The vote that reaches the threshold, if any, is the primary's.
LEMMA MajorityIsPrimarys ==
  ASSUME NEW s \in Subtransactions
  PROVE  /\ \A v \in Values : VoteCount(s, v) \in Nat
         /\ \A v \in Values : VoteCount(s, v) >= Threshold => s.vote[Primary] = v
         /\ Majority(s) = {v \in Values : VoteCount(s, v) >= Threshold}
<1>1. \A v \in Values : VoteCount(s, v) \in Nat
  <2> TAKE v \in Values
  <2>1. Voters(s, v) \in SUBSET Nodes /\ Voters(s, v) \in SUBSET Voters(s, v)
    BY DEF Voters
  <2> QED
    BY <2>1, WeightMonotone DEF VoteCount, Voters
<1>2. \A v \in Values : VoteCount(s, v) >= Threshold => s.vote[Primary] = v
  <2> SUFFICES ASSUME NEW v \in Values, VoteCount(s, v) >= Threshold
               PROVE  s.vote[Primary] = v
    OBVIOUS
  <2>1. Voters(s, v) \in SUBSET Nodes /\ Weight(Voters(s, v)) >= Threshold
    BY DEF Voters, VoteCount
  <2>2. Primary \in Voters(s, v)
    BY <2>1, PrimaryDecides
  <2> QED
    BY <2>2 DEF Voters
<1>3. \A v \in Values : VoteCount(s, v) >= Threshold =>
        \A w \in Values : VoteCount(s, w) <= VoteCount(s, v)
  BY <1>1, <1>2, ThresholdType
<1> QED
  BY <1>1, <1>2, <1>3 DEF Majority

\* Those who may still vote have not voted: their weight adds up.
LEMMA SupportersWeight ==
  ASSUME NEW s \in Subtransactions, NEW v \in Values
  PROVE  /\ Weight(Supporters(s, v)) = VoteCount(s, v) + Weight(Outstanding(s))
         /\ Weight(Outstanding(s)) \in Nat
<1>1. Voters(s, v) \in SUBSET Nodes /\ Outstanding(s) \in SUBSET Nodes
  BY DEF Voters, Outstanding
<1>2. Voters(s, v) \cap Outstanding(s) = {}
  BY ConstantsAssumption DEF Voters, Outstanding
<1>3. Outstanding(s) \in SUBSET Outstanding(s)
  OBVIOUS
<1> QED
  BY <1>1, <1>2, <1>3, WeightUnion, WeightMonotone DEF Supporters, Voters, VoteCount

\* Settled keeps the votes, and makes a coherent subtransaction a valid one.
LEMMA SettledInv ==
  ASSUME NEW s \in Subtransactions, Coherent(s)
  PROVE  /\ Settled(s) \in Subtransactions
         /\ Settled(s).vote = s.vote
         /\ SubtransactionInv(Settled(s))
         /\ SubtransactionStep(s, Settled(s))
<1> DEFINE t == Settled(s)
<1>1. /\ s.vote \in [Nodes -> Values \cup {NoVote}]
      /\ s.result \in [Nodes -> Results]
      /\ s.done \in BOOLEAN
  BY DEF Subtransactions
<1>2. Primary \in Nodes /\ NoVote \notin Values
  BY ConstantsAssumption
<1>3. CASE Majority(s) = {} /\ QuorumPossible(s)
  <2>1. t = s
    BY <1>3 DEF Settled
  <2>2. \A v \in Values : VoteCount(s, v) < Threshold
    BY <1>3, MajorityIsPrimarys, ThresholdType
  <2> QED
    BY <2>1, <2>2 DEF SubtransactionInv, SubtransactionStep
<1>4. CASE ~(Majority(s) = {} /\ QuorumPossible(s))
  <2> DEFINE result(n) ==
        IF s.result[n] # "undecided" \/ s.vote[n] = NoVote THEN s.result[n]
        ELSE IF s.vote[n] \in Majority(s) THEN "committed" ELSE "failed"
  <2>1. t = [vote |-> s.vote, result |-> [n \in Nodes |-> result(n)], done |-> TRUE]
    BY <1>4 DEF Settled
  <2>2. \A n \in Nodes : result(n) \in Results
    BY <1>1 DEF Results
  <2>3. t.vote = s.vote /\ t.done = TRUE /\ \A n \in Nodes : t.result[n] = result(n)
    BY <2>1
  <2>4. t \in Subtransactions
    BY <1>1, <2>1, <2>2 DEF Subtransactions
  <2> HIDE DEF t
  <2>5. CASE Majority(s) = {}
    <3>1. ~QuorumPossible(s)
      BY <1>4, <2>5
    <3>2. \A v \in Values : VoteCount(s, v) < Threshold
      BY <2>5, MajorityIsPrimarys, ThresholdType
    <3>3. NoneCommitted(s)
      <4> SUFFICES ASSUME NEW n \in Nodes, s.result[n] = "committed" PROVE FALSE
        BY DEF NoneCommitted
      <4>1. /\ s.result[Primary] = "committed" /\ s.vote[Primary] # NoVote
            /\ VoteCount(s, s.vote[Primary]) >= Threshold
        BY <1>2 DEF Coherent
      <4>2. s.vote[Primary] \in Values
        BY <1>1, <1>2, <4>1
      <4>3. VoteCount(s, s.vote[Primary]) < Threshold
        BY <3>2, <4>2
      <4>4. VoteCount(s, s.vote[Primary]) \in Nat
        BY <4>2, MajorityIsPrimarys
      <4> QED
        BY <4>1, <4>3, <4>4, ThresholdType
    <3>4. \A n \in Nodes : result(n) # "committed"
      BY <2>5, <3>3 DEF NoneCommitted
    <3>5. NoneCommitted(t)
      BY <2>3, <3>4 DEF NoneCommitted
    <3>6. Outstanding(t) = Outstanding(s)
      BY <2>3 DEF Outstanding
    <3>7. \A v \in Values : Supporters(t, v) = Supporters(s, v)
      BY <2>3, <3>6 DEF Supporters
    <3>8. \A v \in Values : Weight(Supporters(t, v)) < Threshold
      <4> TAKE v \in Values
      <4>1. ~(VoteCount(s, v) + Weight(Outstanding(s)) >= Threshold)
        BY <3>1 DEF QuorumPossible
      <4>2. Weight(Supporters(s, v)) = VoteCount(s, v) + Weight(Outstanding(s))
        BY SupportersWeight
      <4>3. VoteCount(s, v) \in Nat /\ Weight(Outstanding(s)) \in Nat
        BY Zenon, SupportersWeight, MajorityIsPrimarys
      <4> QED
        BY <3>7, <4>1, <4>2, <4>3, ThresholdType
    <3>9. SubtransactionInv(t)
      BY Zenon, <1>2, <2>3, <3>5, <3>8 DEF SubtransactionInv, Coherent, NoneCommitted
    <3>10. SubtransactionStep(s, t)
      BY Zenon, <2>3, <3>5 DEF SubtransactionStep
    <3> QED
      BY <2>3, <2>4, <3>9, <3>10 DEF t
  <2>6. CASE Majority(s) # {}
    <3> DEFINE m == s.vote[Primary]
    <3>1. m \in Values /\ VoteCount(s, m) >= Threshold /\ Majority(s) = {m}
      BY <2>6, MajorityIsPrimarys
    <3>2. m # NoVote
      BY <1>2, <3>1
    <3>3. s.done => s.result[Primary] = "committed"
      <4> SUFFICES ASSUME s.done, s.result[Primary] # "committed" PROVE FALSE
        OBVIOUS
      <4>1. NoneCommitted(s)
        BY DEF Coherent, NoneCommitted
      <4>2. Weight(Supporters(s, m)) < Threshold
        BY <3>1, <4>1 DEF Coherent
      <4>3. Weight(Supporters(s, m)) = VoteCount(s, m) + Weight(Outstanding(s))
        BY <3>1, SupportersWeight
      <4>4. VoteCount(s, m) \in Nat /\ Weight(Outstanding(s)) \in Nat
        BY Zenon, <3>1, SupportersWeight, MajorityIsPrimarys
      <4> QED
        BY <3>1, <4>2, <4>3, <4>4, ThresholdType
    <3>4. ~s.done => s.result[Primary] = "undecided"
      BY Zenon, <1>2, <3>2 DEF Coherent
    <3>5. t.result[Primary] = "committed"
      BY Zenon, <1>1, <1>2, <2>3, <3>1, <3>2, <3>3, <3>4
    <3>6. \A n \in Nodes : t.result[n] = "committed" => t.vote[n] = m
      <4> SUFFICES ASSUME NEW n \in Nodes, t.result[n] = "committed" PROVE s.vote[n] = m
        BY Zenon, <2>3
      <4>1. CASE s.result[n] = "committed"
        BY <4>1 DEF Coherent
      <4>2. CASE s.result[n] # "committed"
        BY Zenon, <2>3, <3>1, <4>2
      <4> QED
        BY <4>1, <4>2
    <3>7. VoteCount(t, m) = VoteCount(s, m)
      BY <2>3 DEF VoteCount
    <3>8. ~NoneCommitted(t)
      BY Zenon, <1>2, <3>5 DEF NoneCommitted
    <3>9. SubtransactionInv(t)
      BY <2>3, <3>1, <3>2, <3>5, <3>6, <3>7, <3>8 DEF SubtransactionInv, Coherent
    <3>10. s.done => ~NoneCommitted(s)
      BY Zenon, <1>2, <3>3 DEF NoneCommitted
    <3>11. SubtransactionStep(s, t)
      BY Zenon, <2>3, <3>10 DEF SubtransactionStep
    <3> QED
      BY <2>3, <2>4, <3>9, <3>11 DEF t
  <2> QED
    BY <2>5, <2>6
<1> QED
  BY Zenon, <1>3, <1>4

\* A vote is added.
LEMMA WithVoteInv ==
  ASSUME NEW s \in Subtransactions, SubtransactionInv(s),
         NEW n \in Nodes, NEW v \in Values,
         s.vote[n] = NoVote, s.result[n] = "undecided"
  PROVE  /\ WithVote(s, n, v) \in Subtransactions
         /\ WithVote(s, n, v).vote = [s.vote EXCEPT ![n] = v]
         /\ SubtransactionInv(WithVote(s, n, v))
         /\ SubtransactionStep(s, WithVote(s, n, v))
<1> DEFINE t == [s EXCEPT !.vote[n] = v]
<1>1. /\ s.vote \in [Nodes -> Values \cup {NoVote}]
      /\ s.result \in [Nodes -> Results]
      /\ s.done \in BOOLEAN
  BY DEF Subtransactions
<1>2. Primary \in Nodes /\ NoVote \notin Values
  BY ConstantsAssumption
<1>3. t \in Subtransactions
  BY DEF Subtransactions
<1>4. t.vote = [s.vote EXCEPT ![n] = v] /\ t.result = s.result /\ t.done = s.done
  BY DEF Subtransactions
<1> HIDE DEF t
<1>5. \A k \in Nodes : k # n => t.vote[k] = s.vote[k]
  BY Zenon, <1>1, <1>4
<1>6. t.vote[n] = v
  BY <1>1, <1>4
<1>7. \A w \in Values : Voters(s, w) \in SUBSET Voters(t, w) /\ Voters(t, w) \in SUBSET Nodes
  BY <1>2, <1>5 DEF Voters
<1>8. \A w \in Values : VoteCount(s, w) <= VoteCount(t, w) /\ VoteCount(s, w) \in Nat
                        /\ VoteCount(t, w) \in Nat
  BY <1>7, WeightMonotone DEF VoteCount, Voters
<1>9. n \in Outstanding(s)
  BY DEF Outstanding
<1>10. Outstanding(t) \in SUBSET Outstanding(s)
  BY Zenon, <1>2, <1>4, <1>5, <1>6 DEF Outstanding
<1>11. \A w \in Values : /\ Supporters(t, w) \in SUBSET Supporters(s, w)
                         /\ Supporters(s, w) \in SUBSET Nodes
  BY Zenon, <1>5, <1>9, <1>10 DEF Supporters, Outstanding
<1>12. \A w \in Values : Weight(Supporters(t, w)) <= Weight(Supporters(s, w))
                         /\ Weight(Supporters(t, w)) \in Nat
                         /\ Weight(Supporters(s, w)) \in Nat
  BY Zenon, <1>11, WeightMonotone
<1>13. \A k \in Nodes : t.result[k] = "committed" =>
         /\ t.done
         /\ t.result[Primary] = "committed"
         /\ t.vote[k] = t.vote[Primary] /\ t.vote[k] # NoVote
  <2> SUFFICES ASSUME NEW k \in Nodes, s.result[k] = "committed"
               PROVE  /\ s.done
                      /\ s.result[Primary] = "committed"
                      /\ t.vote[k] = t.vote[Primary] /\ t.vote[k] # NoVote
    BY Zenon, <1>4
  <2>1. /\ s.done /\ s.result[Primary] = "committed"
        /\ s.vote[k] = s.vote[Primary] /\ s.vote[k] # NoVote
    BY DEF SubtransactionInv, Coherent
  <2>2. k # n /\ Primary # n
    BY <2>1
  <2> QED
    BY Zenon, <1>2, <1>5, <2>1, <2>2
<1>14. t.result[Primary] = "committed" => VoteCount(t, t.vote[Primary]) >= Threshold
  <2> SUFFICES ASSUME s.result[Primary] = "committed"
               PROVE  VoteCount(t, t.vote[Primary]) >= Threshold
    BY Zenon, <1>4
  <2>1. /\ VoteCount(s, s.vote[Primary]) >= Threshold
        /\ s.vote[Primary] # NoVote
    BY Zenon, <1>2 DEF SubtransactionInv, Coherent
  <2>2. s.vote[Primary] \in Values /\ t.vote[Primary] = s.vote[Primary]
    BY Zenon, <1>1, <1>2, <1>5, <2>1
  <2> QED
    BY <1>8, <2>1, <2>2, ThresholdType
<1>15. t.done /\ NoneCommitted(t) => \A w \in Values : Weight(Supporters(t, w)) < Threshold
  <2> SUFFICES ASSUME s.done, NoneCommitted(s), NEW w \in Values
               PROVE  Weight(Supporters(t, w)) < Threshold
    BY Zenon, <1>4 DEF NoneCommitted
  <2>1. Weight(Supporters(s, w)) < Threshold
    BY DEF SubtransactionInv, Coherent
  <2> QED
    BY <1>12, <2>1, ThresholdType
<1>16. ~t.done => \A k \in Nodes : \/ t.result[k] = "undecided"
                                   \/ t.result[k] = "canceled" /\ t.vote[k] = NoVote
  <2> SUFFICES ASSUME ~s.done, NEW k \in Nodes, s.result[k] # "undecided"
               PROVE  s.result[k] = "canceled" /\ t.vote[k] = NoVote
    BY Zenon, <1>4
  <2>1. s.result[k] = "canceled" /\ s.vote[k] = NoVote
    BY Zenon DEF SubtransactionInv, Coherent
  <2> QED
    BY Zenon, <1>5, <2>1
<1>17. Coherent(t)
  BY Zenon, <1>13, <1>14, <1>15, <1>16 DEF Coherent
<1>18. WithVote(s, n, v) = Settled(t)
  BY DEF WithVote, t
<1>19. /\ Settled(t) \in Subtransactions
       /\ Settled(t).vote = t.vote
       /\ SubtransactionInv(Settled(t))
       /\ SubtransactionStep(t, Settled(t))
  BY Zenon, <1>3, <1>17, SettledInv
<1>20. SubtransactionStep(s, Settled(t))
  BY <1>4, <1>19 DEF SubtransactionStep, NoneCommitted
<1> QED
  BY Zenon, <1>4, <1>18, <1>19, <1>20

\* A vote is withdrawn, or its voter will never vote.
LEMMA WithdrawnInv ==
  ASSUME NEW s \in Subtransactions, SubtransactionInv(s),
         NEW n \in Nodes, CanWithdraw(s, n)
  PROVE  /\ Withdrawn(s, n) \in Subtransactions
         /\ \A k \in Nodes : Withdrawn(s, n).vote[k] # NoVote => s.vote[k] # NoVote
         /\ SubtransactionInv(Withdrawn(s, n))
         /\ SubtransactionStep(s, Withdrawn(s, n))
<1> DEFINE t == [s EXCEPT !.vote[n] = NoVote, !.result[n] = "canceled"]
<1>1. /\ s.vote \in [Nodes -> Values \cup {NoVote}]
      /\ s.result \in [Nodes -> Results]
      /\ s.done = FALSE /\ s.result[n] = "undecided"
  BY DEF Subtransactions, CanWithdraw
<1>2. Primary \in Nodes
  BY ConstantsAssumption
<1>3. t \in Subtransactions
  BY Zenon DEF Subtransactions, Results
<1>4. /\ t.vote = [s.vote EXCEPT ![n] = NoVote]
      /\ t.result = [s.result EXCEPT ![n] = "canceled"]
      /\ t.done = FALSE
  BY Zenon, <1>1 DEF Subtransactions
<1> HIDE DEF t
<1>5. \A k \in Nodes : \/ s.result[k] = "undecided"
                       \/ s.result[k] = "canceled" /\ s.vote[k] = NoVote
  BY Zenon, <1>1 DEF SubtransactionInv, Coherent
<1>6. \A k \in Nodes : \/ t.result[k] = "undecided"
                       \/ t.result[k] = "canceled" /\ t.vote[k] = NoVote
  BY Zenon, <1>1, <1>4, <1>5
<1>7. Coherent(t)
  BY <1>2, <1>4, <1>6 DEF Coherent
<1>8. Withdrawn(s, n) = Settled(t)
  BY DEF Withdrawn, t
<1>9. /\ Settled(t) \in Subtransactions
      /\ Settled(t).vote = t.vote
      /\ SubtransactionInv(Settled(t))
      /\ SubtransactionStep(t, Settled(t))
  BY Zenon, <1>3, <1>7, SettledInv
<1>10. \A k \in Nodes : s.result[k] # "undecided" => Settled(t).result[k] = s.result[k]
  BY Zenon, <1>1, <1>4, <1>9 DEF SubtransactionStep
<1>11. SubtransactionStep(s, Settled(t))
  BY Zenon, <1>1, <1>10 DEF SubtransactionStep
<1>12. \A k \in Nodes : t.vote[k] # NoVote => s.vote[k] # NoVote
  BY Zenon, <1>1, <1>4
<1> QED
  BY <1>8, <1>9, <1>11, <1>12

\* A subtransaction is canceled or stopped.
LEMMA EndedInv ==
  ASSUME NEW s \in Subtransactions, SubtransactionInv(s), NEW r \in {"canceled", "stopped"}
  PROVE  /\ Ended(s, r) \in Subtransactions
         /\ Ended(s, r).vote = s.vote
         /\ \A n \in Nodes : Ended(s, r).result[n] # "undecided"
         /\ \A n \in Nodes : Ended(s, r).result[n] = "committed" <=> s.result[n] = "committed"
         /\ SubtransactionInv(Ended(s, r))
         /\ SubtransactionStep(s, Ended(s, r))
<1> DEFINE t == Ended(s, r)
<1>1. /\ s.vote \in [Nodes -> Values \cup {NoVote}]
      /\ s.result \in [Nodes -> Results]
      /\ s.done \in BOOLEAN
  BY DEF Subtransactions
<1>2. Primary \in Nodes
  BY ConstantsAssumption
<1>3. t \in Subtransactions
  BY Zenon, <1>1 DEF Ended, Subtransactions, Results
<1>4. /\ t.vote = s.vote /\ t.done = TRUE
      /\ \A n \in Nodes : t.result[n] = IF s.result[n] = "undecided" THEN r ELSE s.result[n]
  BY Zenon DEF Ended
<1> HIDE DEF t
<1>5. \A n \in Nodes : /\ t.result[n] # "undecided"
                       /\ t.result[n] = "committed" <=> s.result[n] = "committed"
                       /\ s.result[n] # "undecided" => t.result[n] = s.result[n]
  BY Zenon, <1>4
<1>6. Outstanding(t) = {}
  BY <1>5 DEF Outstanding
<1>7. \A v \in Values : Supporters(t, v) = Voters(s, v)
  BY Zenon, <1>4, <1>6 DEF Supporters, Voters
<1>8. NoneCommitted(t) <=> NoneCommitted(s)
  BY <1>5 DEF NoneCommitted
<1>9. NoneCommitted(s) => \A v \in Values : Weight(Supporters(t, v)) < Threshold
  <2> SUFFICES ASSUME NoneCommitted(s), NEW v \in Values
               PROVE  VoteCount(s, v) < Threshold
    BY Zenon, <1>7 DEF VoteCount, Voters
  <2>1. CASE s.done
    <3>1. Weight(Supporters(s, v)) < Threshold
      BY Zenon, <2>1 DEF SubtransactionInv, Coherent
    <3>2. Weight(Supporters(s, v)) = VoteCount(s, v) + Weight(Outstanding(s))
          /\ Weight(Outstanding(s)) \in Nat /\ VoteCount(s, v) \in Nat
      BY SupportersWeight, MajorityIsPrimarys
    <3> QED
      BY <3>1, <3>2, ThresholdType
  <2>2. CASE ~s.done
    BY Zenon, <2>2 DEF SubtransactionInv
  <2> QED
    BY Zenon, <1>1, <2>1, <2>2
<1>10. VoteCount(t, t.vote[Primary]) = VoteCount(s, s.vote[Primary])
  BY Zenon, <1>4 DEF VoteCount
<1>11. \A n \in Nodes : t.result[n] = "committed" =>
         /\ t.result[Primary] = "committed"
         /\ t.vote[n] = t.vote[Primary] /\ t.vote[n] # NoVote
  BY <1>2, <1>4, <1>5 DEF SubtransactionInv, Coherent
<1>12. t.result[Primary] = "committed" => VoteCount(t, t.vote[Primary]) >= Threshold
  BY Zenon, <1>2, <1>5, <1>10 DEF SubtransactionInv, Coherent
<1>13. Coherent(t)
  BY Zenon, <1>4, <1>8, <1>9, <1>11, <1>12 DEF Coherent
<1>14. SubtransactionInv(t) /\ SubtransactionStep(s, t)
  BY Zenon, <1>4, <1>5, <1>8, <1>13 DEF SubtransactionInv, SubtransactionStep
<1> QED
  BY <1>3, <1>4, <1>5, <1>14 DEF t

\* A new subtransaction.
LEMMA NewInv ==
  ASSUME TypeOK
  PROVE  /\ NewSubtransaction \in Subtransactions
         /\ \A n \in Nodes : NewSubtransaction.vote[n] = NoVote
         /\ SubtransactionInv(NewSubtransaction)
<1> DEFINE s == NewSubtransaction
<1>1. s \in Subtransactions
  BY DEF NewSubtransaction, Subtransactions, Results
<1>2. /\ \A n \in Nodes : s.vote[n] = NoVote
      /\ \A n \in Nodes : s.result[n] \in {"undecided", "canceled"}
      /\ s.done = FALSE
  BY DEF NewSubtransaction
<1> HIDE DEF s
<1>3. Primary \in Nodes /\ NoVote \notin Values
  BY ConstantsAssumption
<1>4. \A v \in Values : VoteCount(s, v) < Threshold
  <2> TAKE v \in Values
  <2>1. Primary \notin Voters(s, v)
    BY <1>2, <1>3 DEF Voters
  <2>2. Voters(s, v) \in SUBSET Nodes
    BY DEF Voters
  <2>3. ~(VoteCount(s, v) >= Threshold)
    BY Zenon, <2>1, <2>2, PrimaryDecides DEF VoteCount, Voters
  <2> QED
    BY <1>1, <2>3, MajorityIsPrimarys, ThresholdType
<1>5. Coherent(s)
  BY Zenon, <1>2, <1>3 DEF Coherent
<1> QED
  BY Zenon, <1>1, <1>2, <1>4, <1>5 DEF SubtransactionInv, s

-----------------------------------------------------------------------------
(* The sequence of subtransactions.                                        *)

\* What an action may do to the sequence.
SequenceStep ==
  /\ subtransactions' \in Seq(Subtransactions)
  /\ DOMAIN subtransactions \subseteq DOMAIN subtransactions'
  /\ \A i \in DOMAIN subtransactions' : SubtransactionInv(subtransactions'[i])
  /\ \A i \in DOMAIN subtransactions :
       SubtransactionStep(subtransactions[i], subtransactions'[i])

\* Nobody has voted that had not voted before.
NoNewVotes ==
  \A i \in DOMAIN subtransactions', n \in Nodes :
    subtransactions'[i].vote[n] # NoVote =>
      i \in DOMAIN subtransactions /\ subtransactions[i].vote[n] # NoVote

\* The invariant of the sequence.
SequenceInv ==
  /\ subtransactions \in Seq(Subtransactions)
  /\ \A i \in DOMAIN subtransactions : SubtransactionInv(subtransactions[i])

\* The sequence is left alone.
LEMMA UnchangedStep ==
  ASSUME SequenceInv, UNCHANGED subtransactions
  PROVE  SequenceStep /\ NoNewVotes
BY DEF SequenceInv, SequenceStep, NoNewVotes, SubtransactionStep

\* A subtransaction is appended that nobody has voted in.
LEMMA AppendStep ==
  ASSUME SequenceInv, NEW t \in Subtransactions, SubtransactionInv(t),
         \A n \in Nodes : t.vote[n] = NoVote,
         subtransactions' = Append(subtransactions, t)
  PROVE  SequenceStep /\ NoNewVotes
<1>1. /\ subtransactions' \in Seq(Subtransactions)
      /\ DOMAIN subtransactions = 1..Len(subtransactions)
      /\ DOMAIN subtransactions' = 1..(Len(subtransactions) + 1)
      /\ \A i \in 1..Len(subtransactions) : subtransactions'[i] = subtransactions[i]
      /\ subtransactions'[Len(subtransactions) + 1] = t
      /\ Len(subtransactions) \in Nat
  BY DEF SequenceInv
<1>2. \A i \in DOMAIN subtransactions' :
        i \in DOMAIN subtransactions \/ i = Len(subtransactions) + 1
  BY <1>1
<1>3. \A i \in DOMAIN subtransactions' : SubtransactionInv(subtransactions'[i])
  BY Zenon, <1>1, <1>2 DEF SequenceInv
<1>4. \A i \in DOMAIN subtransactions :
        SubtransactionStep(subtransactions[i], subtransactions'[i])
  BY Zenon, <1>1 DEF SubtransactionStep
<1>5. NoNewVotes
  BY Zenon, <1>1, <1>2 DEF NoNewVotes
<1> QED
  BY <1>1, <1>3, <1>4, <1>5 DEF SequenceStep

\* Subtransactions are replaced by what may become of them.
LEMMA ReplaceStep ==
  ASSUME SequenceInv,
         NEW f \in [DOMAIN subtransactions -> Subtransactions],
         subtransactions' = f,
         \A i \in DOMAIN subtransactions :
           SubtransactionInv(f[i]) /\ SubtransactionStep(subtransactions[i], f[i])
  PROVE  SequenceStep /\ DOMAIN subtransactions' = DOMAIN subtransactions
<1>1. DOMAIN subtransactions = 1..Len(subtransactions) /\ Len(subtransactions) \in Nat
  BY DEF SequenceInv
<1>2. f \in Seq(Subtransactions) /\ DOMAIN f = DOMAIN subtransactions
  BY <1>1
<1> QED
  BY <1>2 DEF SequenceStep

-----------------------------------------------------------------------------
(* The actions on the sequence.                                            *)

\* A node gets the subtransaction after those it was told to commit, if it
\* may vote at all.
LEMMA GetOrCreateStep ==
  ASSUME VotingInv, NEW n \in Nodes, GetOrCreateSubtransaction(n)
  PROVE  /\ SequenceStep /\ NoNewVotes
         /\ current' = [current EXCEPT ![n] = told[n] + 1]
         /\ told[n] + 1 \in DOMAIN subtransactions'
<1>1. /\ SequenceInv
      /\ DOMAIN subtransactions = 1..Len(subtransactions) /\ Len(subtransactions) \in Nat
      /\ told[n] \in Nat
  BY DEF VotingInv, TypeOK, SequenceInv
<1>2. \A i \in 1..told[n] : i \in DOMAIN subtransactions /\ i \notin NotCommitted(n)
  BY DEF VotingInv, AnswersStand, NotCommitted
<1>3. \A i \in DOMAIN subtransactions : i \in NotCommitted(n) <=> i > told[n]
  <2> TAKE i \in DOMAIN subtransactions
  <2>1. CASE i <= told[n]
    BY <1>1, <1>2, <2>1
  <2>2. CASE i > told[n]
    <3>1. call[n] = "idle" /\ NodeInv(n)
      BY DEF GetOrCreateSubtransaction, CanVote, VotingInv
    <3>2. subtransactions[i].vote[n] = NoVote
      BY <1>1, <2>2, <3>1 DEF NodeInv
    <3>3. Coherent(subtransactions[i])
      BY <1>1 DEF SequenceInv, SubtransactionInv
    <3> QED
      BY Zenon, <2>2, <3>2, <3>3, <1>1 DEF Coherent, NotCommitted
  <2> QED
    BY <1>1, <2>1, <2>2
<1>4. CASE NotCommitted(n) = {}
  <2>1. Len(subtransactions) = told[n]
    BY <1>1, <1>2, <1>3, <1>4
  <2>2. /\ current' = [current EXCEPT ![n] = Len(subtransactions) + 1]
        /\ subtransactions' = Append(subtransactions, NewSubtransaction)
    BY <1>4 DEF GetOrCreateSubtransaction, First
  <2>3. TypeOK
    BY DEF VotingInv
  <2>4. SequenceStep /\ NoNewVotes
    BY Zenon, <1>1, <2>2, <2>3, NewInv, AppendStep
  <2>5. told[n] + 1 \in DOMAIN subtransactions'
    BY <1>1, <2>1, <2>2 DEF SequenceInv
  <2> QED
    BY Zenon, <2>1, <2>2, <2>4, <2>5
<1>5. CASE NotCommitted(n) # {}
  <2>1. told[n] + 1 \in NotCommitted(n)
    BY <1>1, <1>3, <1>5 DEF NotCommitted
  <2>2. \A j \in NotCommitted(n) : j \in Nat /\ told[n] + 1 <= j
    BY <1>1, <1>3 DEF NotCommitted
  <2>3. First(n) = told[n] + 1
    <3>1. First(n) \in NotCommitted(n) /\ \A j \in NotCommitted(n) : First(n) <= j
      BY Zenon, <1>5, <2>1, <2>2 DEF First
    <3> QED
      BY <1>1, <2>1, <2>2, <3>1
  <2>4. UNCHANGED subtransactions /\ current' = [current EXCEPT ![n] = told[n] + 1]
    BY <1>1, <2>3 DEF GetOrCreateSubtransaction
  <2> QED
    BY Zenon, <1>1, <2>1, <2>4, UnchangedStep DEF NotCommitted
<1> QED
  BY Zenon, <1>4, <1>5

\* A vote is recorded for the node that casts it.
LEMMA VoteStep ==
  ASSUME VotingInv, NEW n \in Nodes, NEW v \in Values, Vote(n, v)
  PROVE  /\ SequenceStep
         /\ \/ NoNewVotes /\ call' = [call EXCEPT ![n] = "aborted"]
            \/ /\ DOMAIN subtransactions' = DOMAIN subtransactions
               /\ call' = [call EXCEPT ![n] = "waiting"]
               /\ \A i \in DOMAIN subtransactions, m \in Nodes :
                    i # current[n] \/ m # n =>
                      subtransactions'[i].vote[m] = subtransactions[i].vote[m]
<1> DEFINE c == current[n]
           s == subtransactions[c]
<1>1. /\ SequenceInv
      /\ c \in DOMAIN subtransactions
      /\ s \in Subtransactions /\ SubtransactionInv(s)
  BY DEF VotingInv, TypeOK, SequenceInv, Vote
<1>2. CASE s.vote[n] = NoVote /\ s.result[n] = "undecided"
  <2> DEFINE w == WithVote(s, n, v)
             f == [subtransactions EXCEPT ![c] = w]
  <2>1. /\ w \in Subtransactions
        /\ w.vote = [s.vote EXCEPT ![n] = v]
        /\ SubtransactionInv(w)
        /\ SubtransactionStep(s, w)
    BY Zenon, <1>1, <1>2, WithVoteInv
  <2>2. subtransactions' = f /\ call' = [call EXCEPT ![n] = "waiting"]
    BY <1>2 DEF Vote
  <2> HIDE DEF w
  <2>3. /\ f \in [DOMAIN subtransactions -> Subtransactions]
        /\ f[c] = w
        /\ \A i \in DOMAIN subtransactions : i # c => f[i] = subtransactions[i]
    BY <1>1, <2>1 DEF SequenceInv
  <2> HIDE DEF f
  <2>4. \A i \in DOMAIN subtransactions :
          SubtransactionInv(f[i]) /\ SubtransactionStep(subtransactions[i], f[i])
    BY Zenon, <1>1, <2>1, <2>3 DEF SequenceInv, SubtransactionStep
  <2>5. SequenceStep /\ DOMAIN subtransactions' = DOMAIN subtransactions
    BY Zenon, <1>1, <2>2, <2>3, <2>4, ReplaceStep
  <2>6. s.vote \in [Nodes -> Values \cup {NoVote}]
    BY Zenon, <1>1 DEF Subtransactions
  <2>7. \A i \in DOMAIN subtransactions, m \in Nodes :
          i # c \/ m # n => subtransactions'[i].vote[m] = subtransactions[i].vote[m]
    BY Zenon, <2>1, <2>2, <2>3, <2>6
  <2> QED
    BY Zenon, <2>2, <2>5, <2>7
<1>3. CASE ~(s.vote[n] = NoVote /\ s.result[n] = "undecided")
  BY Zenon, <1>1, <1>3, UnchangedStep DEF Vote
<1> QED
  BY Zenon, <1>2, <1>3

\* A vote is withdrawn when its context ends.
LEMMA CanceledStep ==
  ASSUME VotingInv, NEW n \in Nodes, CollectVotesCanceled(n)
  PROVE  SequenceStep /\ NoNewVotes
<1> DEFINE c == current[n]
           s == subtransactions[c]
<1>1. /\ SequenceInv
      /\ c \in DOMAIN subtransactions
      /\ s \in Subtransactions /\ SubtransactionInv(s)
  BY DEF VotingInv, TypeOK, SequenceInv, CollectVotesCanceled
<1>2. CASE CanWithdraw(s, n)
  <2> DEFINE w == Withdrawn(s, n)
             f == [subtransactions EXCEPT ![c] = w]
  <2>1. /\ w \in Subtransactions
        /\ \A k \in Nodes : w.vote[k] # NoVote => s.vote[k] # NoVote
        /\ SubtransactionInv(w)
        /\ SubtransactionStep(s, w)
    BY Zenon, <1>1, <1>2, WithdrawnInv
  <2>2. subtransactions' = f
    BY Zenon, <1>2 DEF CollectVotesCanceled
  <2> HIDE DEF w
  <2>3. /\ f \in [DOMAIN subtransactions -> Subtransactions]
        /\ f[c] = w
        /\ \A i \in DOMAIN subtransactions : i # c => f[i] = subtransactions[i]
    BY <1>1, <2>1 DEF SequenceInv
  <2> HIDE DEF f
  <2>4. \A i \in DOMAIN subtransactions :
          SubtransactionInv(f[i]) /\ SubtransactionStep(subtransactions[i], f[i])
    BY Zenon, <1>1, <2>1, <2>3 DEF SequenceInv, SubtransactionStep
  <2>5. SequenceStep /\ DOMAIN subtransactions' = DOMAIN subtransactions
    BY Zenon, <1>1, <2>2, <2>3, <2>4, ReplaceStep
  <2> QED
    BY Zenon, <2>1, <2>2, <2>3, <2>5 DEF NoNewVotes
<1>3. CASE ~CanWithdraw(s, n)
  BY <1>1, <1>3, UnchangedStep DEF CollectVotesCanceled
<1> QED
  BY Zenon, <1>2, <1>3

\* The voter of a node whose RPC has failed is canceled.
LEMMA CancelNodeVoterStep ==
  ASSUME VotingInv, NEW n \in Nodes, CancelNodeVoter(n)
  PROVE  SequenceStep /\ NoNewVotes
<1>1. SequenceInv /\ TypeOK
  BY DEF VotingInv, TypeOK, SequenceInv
<1>2. CASE Excluded(n)
  BY Zenon, <1>1, <1>2, UnchangedStep DEF CancelNodeVoter
<1>3. CASE ~Excluded(n) /\ PendingOf(n) = {}
  <2> DEFINE s == NewSubtransaction
             t == IF CanWithdraw(s, n) THEN Withdrawn(s, n) ELSE s
  <2>1. subtransactions' = Append(subtransactions, t)
    BY <1>3 DEF CancelNodeVoter
  <2>2. /\ s \in Subtransactions
        /\ \A m \in Nodes : s.vote[m] = NoVote
        /\ SubtransactionInv(s)
    BY Zenon, <1>1, NewInv
  <2> HIDE DEF s
  <2>3. /\ t \in Subtransactions
        /\ SubtransactionInv(t)
        /\ \A m \in Nodes : t.vote[m] = NoVote
    <3>1. CASE CanWithdraw(s, n)
      BY Zenon, <2>2, <3>1, WithdrawnInv
    <3>2. CASE ~CanWithdraw(s, n)
      BY Zenon, <2>2, <3>2
    <3> QED
      BY Zenon, <3>1, <3>2
  <2> HIDE DEF t
  <2> QED
    BY Zenon, <1>1, <2>1, <2>3, AppendStep
<1>4. CASE ~Excluded(n) /\ PendingOf(n) # {}
  <2> DEFINE W(i) == /\ i \in PendingOf(n)
                     /\ \A j \in PendingOf(n) :
                          j <= i => CanWithdraw(subtransactions[j], n)
             f == [i \in DOMAIN subtransactions |->
                     IF W(i) THEN Withdrawn(subtransactions[i], n) ELSE subtransactions[i]]
  <2>1. subtransactions' = f
    BY Zenon, <1>4 DEF CancelNodeVoter
  <2>2. \A i \in DOMAIN subtransactions :
          /\ f[i] \in Subtransactions
          /\ \A k \in Nodes : f[i].vote[k] # NoVote => subtransactions[i].vote[k] # NoVote
          /\ SubtransactionInv(f[i])
          /\ SubtransactionStep(subtransactions[i], f[i])
    <3> SUFFICES ASSUME NEW i \in DOMAIN subtransactions
                 PROVE  /\ f[i] \in Subtransactions
                        /\ \A k \in Nodes :
                             f[i].vote[k] # NoVote => subtransactions[i].vote[k] # NoVote
                        /\ SubtransactionInv(f[i])
                        /\ SubtransactionStep(subtransactions[i], f[i])
      BY Zenon
    <3>1. subtransactions[i] \in Subtransactions /\ SubtransactionInv(subtransactions[i])
      BY <1>1 DEF SequenceInv
    <3>2. CASE W(i)
      <4>1. i \in PendingOf(n) /\ i <= i
        BY <1>1, <3>2 DEF SequenceInv
      <4>2. CanWithdraw(subtransactions[i], n)
        BY Zenon, <3>2, <4>1
      <4>3. f[i] = Withdrawn(subtransactions[i], n)
        BY Zenon, <3>2
      <4> QED
        BY Zenon, <3>1, <4>2, <4>3, WithdrawnInv
    <3>3. CASE ~W(i)
      BY Zenon, <3>1, <3>3 DEF SubtransactionStep
    <3> QED
      BY <3>2, <3>3
  <2>3. DOMAIN f = DOMAIN subtransactions /\ f \in [DOMAIN subtransactions -> Subtransactions]
    BY Zenon, <2>2
  <2> HIDE DEF f
  <2>4. SequenceStep /\ DOMAIN subtransactions' = DOMAIN subtransactions
    BY Zenon, <1>1, <2>1, <2>2, <2>3, ReplaceStep
  <2> QED
    BY Zenon, <2>1, <2>2, <2>4 DEF NoNewVotes
<1> QED
  BY Zenon, <1>2, <1>3, <1>4

\* Subtransactions are stopped or canceled.
LEMMA EndedStep ==
  ASSUME SequenceInv, NEW r \in {"canceled", "stopped"}, NEW E \in SUBSET DOMAIN subtransactions,
         subtransactions' = [i \in DOMAIN subtransactions |->
                               IF i \in E THEN Ended(subtransactions[i], r)
                               ELSE subtransactions[i]]
  PROVE  /\ SequenceStep /\ NoNewVotes
         /\ DOMAIN subtransactions' = DOMAIN subtransactions
         /\ \A i \in E, n \in Nodes : subtransactions'[i].result[n] # "undecided"
<1> DEFINE f == [i \in DOMAIN subtransactions |->
                   IF i \in E THEN Ended(subtransactions[i], r) ELSE subtransactions[i]]
<1>1. \A i \in DOMAIN subtransactions :
        /\ f[i] \in Subtransactions
        /\ f[i].vote = subtransactions[i].vote
        /\ i \in E => \A n \in Nodes : f[i].result[n] # "undecided"
        /\ SubtransactionInv(f[i])
        /\ SubtransactionStep(subtransactions[i], f[i])
  <2> SUFFICES ASSUME NEW i \in DOMAIN subtransactions
               PROVE  /\ f[i] \in Subtransactions
                      /\ f[i].vote = subtransactions[i].vote
                      /\ i \in E => \A n \in Nodes : f[i].result[n] # "undecided"
                      /\ SubtransactionInv(f[i])
                      /\ SubtransactionStep(subtransactions[i], f[i])
    BY Zenon
  <2>1. subtransactions[i] \in Subtransactions /\ SubtransactionInv(subtransactions[i])
    BY DEF SequenceInv
  <2>2. CASE i \in E
    <3>1. f[i] = Ended(subtransactions[i], r)
      BY Zenon, <2>2
    <3> QED
      BY <2>1, <3>1, EndedInv
  <2>3. CASE i \notin E
    BY Zenon, <2>1, <2>3 DEF SubtransactionStep
  <2> QED
    BY <2>2, <2>3
<1>2. subtransactions' = f /\ f \in [DOMAIN subtransactions -> Subtransactions]
  BY Zenon, <1>1
<1> HIDE DEF f
<1>3. SequenceStep /\ DOMAIN subtransactions' = DOMAIN subtransactions
  BY Zenon, <1>1, <1>2, ReplaceStep
<1> QED
  BY SMTT(40), <1>1, <1>2, <1>3 DEF NoNewVotes

LEMMA StopStep ==
  ASSUME VotingInv, StopTransaction
  PROVE  SequenceStep /\ NoNewVotes
<1> DEFINE stopped == {i \in DOMAIN subtransactions : Stopped(subtransactions[i])}
           E == {i \in DOMAIN subtransactions : ~ \E j \in stopped : j <= i}
<1>1. SequenceInv /\ E \in SUBSET DOMAIN subtransactions
  BY Zenon DEF VotingInv, TypeOK, SequenceInv
<1>2. subtransactions' = [i \in DOMAIN subtransactions |->
                            IF i \in E THEN Ended(subtransactions[i], "stopped")
                            ELSE subtransactions[i]]
  BY DEF StopTransaction
<1> HIDE DEF E
<1> QED
  BY Zenon, <1>1, <1>2, EndedStep

\* The finalizer ends all subtransactions.
LEMMA FinalizeStep ==
  ASSUME VotingInv, Finalize
  PROVE  /\ SequenceStep /\ NoNewVotes
         /\ DOMAIN subtransactions' = DOMAIN subtransactions
         /\ \A i \in DOMAIN subtransactions, n \in Nodes :
              subtransactions'[i].result[n] # "undecided"
<1> DEFINE E == DOMAIN subtransactions
<1>1. SequenceInv /\ E \in SUBSET DOMAIN subtransactions
  BY Zenon DEF VotingInv, TypeOK, SequenceInv
<1>2. subtransactions' = [i \in DOMAIN subtransactions |->
                            IF i \in E THEN Ended(subtransactions[i], "canceled")
                            ELSE subtransactions[i]]
  BY DEF Finalize
<1>3. /\ SequenceStep /\ NoNewVotes
      /\ DOMAIN subtransactions' = DOMAIN subtransactions
      /\ \A i \in E, n \in Nodes : subtransactions'[i].result[n] # "undecided"
  BY Zenon, <1>1, <1>2, EndedStep
<1> QED
  BY <1>3

\* Whatever happens, decisions stand.
LEMMA StepOfSequence ==
  ASSUME VotingInv, [Next]_vars
  PROVE  SequenceStep
<1>1. SequenceInv
  BY DEF VotingInv, TypeOK, SequenceInv
<1>2. ASSUME NEW n \in Nodes, NodeNext(n) PROVE SequenceStep
  <2>1. CASE VoteRefused(n) \/ CollectVotes(n) \/ RPCSucceeds(n)
    BY Zenon, <1>1, <2>1, UnchangedStep DEF VoteRefused, CollectVotes, RPCSucceeds
  <2>2. CASE GetOrCreateSubtransaction(n)
    BY Zenon, <2>2, GetOrCreateStep
  <2>3. CASE \E v \in Values : Vote(n, v)
    BY <2>3, VoteStep
  <2>4. CASE CollectVotesCanceled(n)
    BY <2>4, CanceledStep
  <2>5. CASE \E e \in Errors : RPCFails(n, e)
    BY Zenon, <1>1, <2>5, UnchangedStep, CancelNodeVoterStep DEF RPCFails
  <2> QED
    BY Zenon, <1>2, <2>1, <2>2, <2>3, <2>4, <2>5 DEF NodeNext
<1>3. CASE UNCHANGED vars
  BY Zenon, <1>1, <1>3, UnchangedStep DEF vars
<1> QED
  BY Zenon, <1>2, <1>3, StopStep, FinalizeStep DEF Next

-----------------------------------------------------------------------------
(* Each action preserves the invariant.                                    *)

\* The facts about the other nodes that do not depend on the sequence.
LocalInv(n) ==
  /\ call[n] \in {"assigned", "waiting"} => current[n] = told[n] + 1 /\ told[n] < MaxVotes
  /\ rpc[n] = "ok" => call[n] = "idle"
  /\ errByNode[n] # NoError <=> rpc[n] = "failed"

\* The votes of a node are those in which it was told to commit and at most
\* the next one.
VotedInv(n) ==
  \A i \in DOMAIN subtransactions : subtransactions[i].vote[n] # NoVote =>
    \/ i <= told[n]
    \/ i = told[n] + 1 /\ call[n] \in {"waiting", "aborted"}

\* After the finalizer nothing that matters changes any more.
LEMMA FinalStep ==
  ASSUME VotingInv, FinalInv, Next
  PROVE  UNCHANGED <<subtransactions, state, rpc, errByNode, outcome>>
<1>1. outcome # Pending
  BY SMTT(40) DEF FinalInv, Pending
<1>2. ~StopTransaction /\ ~Finalize
  BY <1>1 DEF StopTransaction, Finalize
<1>3. PICK n \in Nodes : NodeNext(n)
  BY <1>2 DEF Next
<1>4. rpc[n] # "running" /\ state = "canceled"
  BY Zenon DEF FinalInv
<1>5. /\ ~GetOrCreateSubtransaction(n) /\ ~RPCSucceeds(n)
      /\ ~ \E e \in Errors : RPCFails(n, e)
  BY Zenon, <1>4 DEF GetOrCreateSubtransaction, RPCSucceeds, RPCFails
<1>6. CASE VoteRefused(n) \/ CollectVotes(n)
  BY Zenon, <1>6 DEF VoteRefused, CollectVotes
<1>7. CASE \E v \in Values : Vote(n, v)
  <2>1. PICK v \in Values : Vote(n, v)
    BY Zenon, <1>7
  <2>2. current[n] \in DOMAIN subtransactions
    BY Zenon, <2>1 DEF VotingInv, TypeOK, Vote
  <2> QED
    BY <2>1, <2>2 DEF FinalInv, Vote
<1>8. CASE CollectVotesCanceled(n)
  <2>1. current[n] \in DOMAIN subtransactions
    BY <1>8 DEF VotingInv, TypeOK, CollectVotesCanceled
  <2> QED
    BY Zenon, <1>8, <2>1 DEF FinalInv, CollectVotesCanceled, CanWithdraw
<1> QED
  BY Zenon, <1>3, <1>5, <1>6, <1>7, <1>8 DEF NodeNext

\* The finalizer decides as FinalInv says.
LEMMA FinalizeDecides ==
  ASSUME VotingInv, Finalize
  PROVE  /\ FinalInv'
         /\ outcome' \in [dirtied : BOOLEAN, updated : SUBSET Secondaries, final : BOOLEAN]
<1> DEFINE subs == subtransactions'
<1>1. /\ subs \in Seq(Subtransactions)
      /\ \A i \in DOMAIN subs : Coherent(subs[i])
      /\ \A i \in DOMAIN subs, n \in Nodes : subs[i].result[n] # "undecided"
  BY Zenon, FinalizeStep DEF SequenceStep, SubtransactionInv
<1>2. /\ state' = "canceled"
      /\ \A n \in Nodes : rpc'[n] # "running"
      /\ UNCHANGED errByNode
      /\ outcome' = [dirtied |-> Dirtied(subs),
                     updated |-> IF Dirtied(subs) THEN Updated(subs) ELSE {},
                     final |-> TRUE]
  BY DEF Finalize
<1> HIDE DEF subs
<1>3. Dirtied(subs) \in BOOLEAN /\ Updated(subs) \in SUBSET Secondaries
  BY Zenon DEF Dirtied, Updated
<1>4. ~Dirtied(subs) => \A i \in DOMAIN subs : NoneCommitted(subs[i])
  <2> SUFFICES ASSUME ~Dirtied(subs), NEW i \in DOMAIN subs PROVE NoneCommitted(subs[i])
    OBVIOUS
  <2>1. i = 1 /\ subs[1].vote[Primary] = NoVote
    BY <1>1 DEF Dirtied
  <2> QED
    BY <1>1, <2>1 DEF Coherent, NoneCommitted
<1>5. \A n \in Updated(subs) : /\ subs # <<>>
                               /\ subs[Len(subs)].result[Primary] = "committed"
                               /\ subs[Len(subs)].result[n] = "committed"
                               /\ errByNode[n] = errByNode[Primary]
  BY Zenon DEF Updated
<1>6. /\ outcome'.final = TRUE
      /\ outcome'.dirtied = Dirtied(subs)
      /\ outcome'.updated \in SUBSET Updated(subs)
  BY Zenon, <1>2, <1>3
<1>7. ~outcome'.dirtied => \A i \in DOMAIN subs : NoneCommitted(subs[i])
  BY Zenon, <1>4, <1>6
<1>8. \A n \in outcome'.updated : /\ subs # <<>>
                                  /\ subs[Len(subs)].result[Primary] = "committed"
                                  /\ subs[Len(subs)].result[n] = "committed"
                                  /\ errByNode'[n] = errByNode'[Primary]
  BY Zenon, <1>2, <1>5, <1>6
<1>9. FinalInv'
  BY Zenon, <1>1, <1>2, <1>6, <1>7, <1>8 DEF FinalInv, Last, NoneCommitted, subs
<1>10. outcome' \in [dirtied : BOOLEAN, updated : SUBSET Secondaries, final : BOOLEAN]
  BY Zenon, <1>2, <1>3
<1> QED
  BY Zenon, <1>9, <1>10

\* The state of each node, apart from its votes.
LEMMA LocalStep ==
  ASSUME VotingInv, [Next]_vars
  PROVE  TypeOK' /\ \A n \in Nodes : LocalInv(n)'
<1>1. /\ subtransactions' \in Seq(Subtransactions)
      /\ DOMAIN subtransactions \subseteq DOMAIN subtransactions'
  BY Zenon, StepOfSequence DEF SequenceStep
<1>2. TypeOK /\ \A n \in Nodes : LocalInv(n)
  BY DEF VotingInv, NodeInv, LocalInv
<1>3. MaxVotes \in Nat /\ NoError \notin Errors
  BY Zenon, ConstantsAssumption
<1>4. ASSUME NEW n \in Nodes, NodeNext(n)
      PROVE  TypeOK' /\ \A m \in Nodes : LocalInv(m)'
  <2>1. CASE VoteRefused(n)
    BY Zenon, <1>1, <1>2, <2>1 DEF VoteRefused, CanVote, TypeOK, LocalInv
  <2>2. CASE GetOrCreateSubtransaction(n)
    <3>1. /\ current' = [current EXCEPT ![n] = told[n] + 1]
          /\ told[n] + 1 \in DOMAIN subtransactions'
      BY Zenon, <2>2, GetOrCreateStep
    <3>2. /\ call[n] = "idle" /\ rpc[n] # "ok" /\ told[n] < MaxVotes
          /\ call' = [call EXCEPT ![n] = "assigned"]
          /\ UNCHANGED <<state, rpc, errByNode, outcome, told>>
      BY Zenon, <2>2 DEF GetOrCreateSubtransaction, CanVote
    <3>3. TypeOK'
      BY <1>1, <1>2, <1>3, <3>1, <3>2 DEF TypeOK
    <3>4. \A m \in Nodes : LocalInv(m)'
      BY <1>2, <3>1, <3>2 DEF TypeOK, LocalInv
    <3> QED
      BY Zenon, <3>3, <3>4
  <2>3. CASE \E v \in Values : Vote(n, v)
    <3>1. PICK v \in Values : Vote(n, v)
      BY <2>3
    <3>2. /\ call[n] = "assigned"
          /\ \/ call' = [call EXCEPT ![n] = "waiting"]
             \/ call' = [call EXCEPT ![n] = "aborted"]
          /\ UNCHANGED <<state, current, rpc, errByNode, outcome, told>>
      BY Zenon, <3>1 DEF Vote
    <3> QED
      BY ZenonT(40), <1>1, <1>2, <3>2 DEF TypeOK, LocalInv
  <2>4. CASE CollectVotes(n)
    <3>1. /\ call[n] = "waiting"
          /\ \/ /\ call' = [call EXCEPT ![n] = "idle"]
                /\ told' = [told EXCEPT ![n] = told[n] + 1]
             \/ call' = [call EXCEPT ![n] = "aborted"] /\ UNCHANGED told
          /\ UNCHANGED <<state, current, rpc, errByNode, outcome>>
      BY Zenon, <2>4 DEF CollectVotes
    <3>2. told[n] \in 0..MaxVotes /\ told[n] + 1 \in 0..MaxVotes
      BY <1>2, <1>3, <3>1 DEF TypeOK, LocalInv
    <3>3. told \in [Nodes -> 0..MaxVotes] /\ told' \in [Nodes -> 0..MaxVotes]
      <4> DEFINE V == 0..MaxVotes
      <4>1. told \in [Nodes -> V] /\ told[n] + 1 \in V
        BY Zenon, <1>2, <3>2 DEF TypeOK
      <4> HIDE DEF V
      <4>2. told' \in [Nodes -> V]
        BY <3>1, <4>1
      <4> QED
        BY Zenon, <4>1, <4>2 DEF V
    <3>4. /\ call' \in [Nodes -> {"idle", "assigned", "waiting", "aborted"}]
          /\ \A m \in Nodes : call'[m] \in {"assigned", "waiting"} => call'[m] = call[m]
      BY Zenon, <1>2, <3>1 DEF TypeOK
    <3>5. TypeOK'
      BY Zenon, <1>1, <1>2, <3>1, <3>3, <3>4 DEF TypeOK
    <3>6. \A m \in Nodes : LocalInv(m)'
      BY <1>2, <3>1 DEF TypeOK, LocalInv
    <3> QED
      BY <3>5, <3>6
  <2>5. CASE CollectVotesCanceled(n)
    <3>1. /\ call[n] = "waiting"
          /\ call' = [call EXCEPT ![n] = "aborted"]
          /\ UNCHANGED <<state, current, rpc, errByNode, outcome, told>>
      BY Zenon, <2>5 DEF CollectVotesCanceled
    <3> QED
      BY Zenon, <1>1, <1>2, <3>1 DEF TypeOK, LocalInv
  <2>6. CASE RPCSucceeds(n)
    BY Zenon, <1>1, <1>2, <2>6 DEF RPCSucceeds, TypeOK, LocalInv
  <2>7. CASE \E e \in Errors : RPCFails(n, e)
    <3>1. PICK e \in Errors : RPCFails(n, e)
      BY <2>7
    <3>2. /\ rpc' = [rpc EXCEPT ![n] = "failed"]
          /\ errByNode' = [errByNode EXCEPT ![n] = e]
          /\ UNCHANGED <<state, call, current, outcome, told>>
      BY Zenon, <3>1 DEF RPCFails
    <3> QED
      BY <1>1, <1>2, <1>3, <3>2 DEF TypeOK, LocalInv
  <2> QED
    BY Zenon, <1>4, <2>1, <2>2, <2>3, <2>4, <2>5, <2>6, <2>7 DEF NodeNext
<1>5. CASE StopTransaction
  <2>1. /\ state' \in {"open", "canceled", "stopped"}
        /\ UNCHANGED <<call, current, rpc, errByNode, outcome, told>>
    BY Zenon, <1>2, <1>5 DEF StopTransaction, TypeOK
  <2> QED
    BY Zenon, <1>1, <1>2, <2>1 DEF TypeOK, LocalInv
<1>6. CASE Finalize
  <2>1. /\ state' = "canceled"
        /\ UNCHANGED <<call, current, rpc, errByNode, told>>
    BY <1>6 DEF Finalize
  <2>2. outcome' \in [dirtied : BOOLEAN, updated : SUBSET Secondaries, final : BOOLEAN]
    BY Zenon, <1>6, FinalizeDecides
  <2> QED
    BY Zenon, <1>1, <1>2, <2>1, <2>2 DEF TypeOK, LocalInv
<1>7. CASE UNCHANGED vars
  BY Zenon, <1>2, <1>7 DEF vars, TypeOK, LocalInv
<1> QED
  BY Zenon, <1>4, <1>5, <1>6, <1>7 DEF Next

\* What the nodes have voted and were told.
LEMMA VotedStep ==
  ASSUME VotingInv, [Next]_vars
  PROVE  AnswersStand' /\ \A n \in Nodes : VotedInv(n)'
<1>1. SequenceInv /\ SequenceStep
  BY Zenon, StepOfSequence DEF VotingInv, TypeOK, SequenceInv
<1>2. AnswersStand /\ \A n \in Nodes : VotedInv(n)
  BY Zenon DEF VotingInv, NodeInv, VotedInv
<1>3. /\ told \in [Nodes -> Nat] /\ DOMAIN subtransactions \subseteq Nat
      /\ call \in [Nodes -> {"idle", "assigned", "waiting", "aborted"}]
  BY SMTT(40), ConstantsAssumption DEF VotingInv, TypeOK
<1>4. ASSUME UNCHANGED told PROVE AnswersStand'
  <2> SUFFICES ASSUME NEW m \in Nodes, NEW i \in 1..told[m]
               PROVE  /\ i \in DOMAIN subtransactions'
                      /\ subtransactions'[i].result[m] = "committed"
    BY Zenon, <1>4 DEF AnswersStand
  <2>1. i \in DOMAIN subtransactions /\ subtransactions[i].result[m] = "committed"
    BY Zenon, <1>2 DEF AnswersStand
  <2>2. SubtransactionStep(subtransactions[i], subtransactions'[i])
    BY Zenon, <1>1, <2>1 DEF SequenceStep
  <2> QED
    BY Zenon, <1>1, <2>1, <2>2 DEF SequenceStep, SubtransactionStep
<1>5. ASSUME NoNewVotes, UNCHANGED told,
             \A m \in Nodes : call[m] \in {"waiting", "aborted"} => call'[m] \in {"waiting", "aborted"}
      PROVE  \A m \in Nodes : VotedInv(m)'
  BY Zenon, <1>2, <1>5 DEF NoNewVotes, VotedInv
<1>6. ASSUME NEW n \in Nodes, NodeNext(n)
      PROVE  AnswersStand' /\ \A m \in Nodes : VotedInv(m)'
  <2>1. CASE VoteRefused(n)
    BY Zenon, <1>1, <1>3, <1>4, <1>5, <2>1, UnchangedStep DEF VoteRefused, CanVote
  <2>2. CASE GetOrCreateSubtransaction(n)
    BY Zenon, <1>1, <1>3, <1>4, <1>5, <2>2, GetOrCreateStep DEF GetOrCreateSubtransaction, CanVote
  <2>3. CASE \E v \in Values : Vote(n, v)
    <3>1. PICK v \in Values : Vote(n, v)
      BY <2>3
    <3>2. call[n] = "assigned" /\ UNCHANGED told
      BY Zenon, <3>1 DEF Vote
    <3>3. CASE NoNewVotes /\ call' = [call EXCEPT ![n] = "aborted"]
      BY Zenon, <1>3, <1>4, <1>5, <3>2, <3>3
    <3>4. CASE /\ DOMAIN subtransactions' = DOMAIN subtransactions
               /\ call' = [call EXCEPT ![n] = "waiting"]
               /\ \A i \in DOMAIN subtransactions, m \in Nodes :
                    i # current[n] \/ m # n =>
                      subtransactions'[i].vote[m] = subtransactions[i].vote[m]
      <4>1. current[n] = told[n] + 1
        BY Zenon, <3>2 DEF VotingInv, NodeInv
      <4>2. \A m \in Nodes : VotedInv(m)'
        BY <1>2, <1>3, <3>2, <3>4, <4>1 DEF VotedInv
      <4> QED
        BY Zenon, <1>4, <3>2, <4>2
    <3> QED
      BY Zenon, <3>1, <3>3, <3>4, VoteStep
  <2>4. CASE CollectVotes(n)
    <3>1. call[n] = "waiting" /\ current[n] = told[n] + 1 /\ UNCHANGED subtransactions
      BY Zenon, <2>4 DEF CollectVotes, VotingInv, NodeInv
    <3>2. current[n] \in DOMAIN subtransactions
      BY Zenon, <3>1 DEF VotingInv, TypeOK
    <3>3. CASE subtransactions[current[n]].result[n] = "committed"
      <4>1. /\ call' = [call EXCEPT ![n] = "idle"]
            /\ told' = [told EXCEPT ![n] = told[n] + 1]
        BY Zenon, <2>4, <3>3 DEF CollectVotes
      <4>2. AnswersStand'
        <5> SUFFICES ASSUME NEW m \in Nodes, NEW i \in 1..told'[m]
                     PROVE  /\ i \in DOMAIN subtransactions
                            /\ subtransactions[i].result[m] = "committed"
          BY Zenon, <3>1 DEF AnswersStand
        <5>1. CASE m = n /\ i = told[n] + 1
          BY Zenon, <3>1, <3>2, <3>3, <5>1
        <5>2. CASE ~(m = n /\ i = told[n] + 1)
          <6>1. i \in 1..told[m]
            BY <1>3, <4>1, <5>2
          <6> QED
            BY Zenon, <1>2, <6>1 DEF AnswersStand
        <5> QED
          BY Zenon, <5>1, <5>2
      <4>3. \A m \in Nodes : VotedInv(m)'
        BY <1>2, <1>3, <3>1, <4>1 DEF VotedInv
      <4> QED
        BY <4>2, <4>3
    <3>4. CASE subtransactions[current[n]].result[n] # "committed"
      <4>1. call' = [call EXCEPT ![n] = "aborted"] /\ UNCHANGED told
        BY Zenon, <2>4, <3>4 DEF CollectVotes
      <4>2. NoNewVotes
        BY Zenon, <1>1, <3>1, UnchangedStep
      <4> QED
        BY Zenon, <1>3, <1>4, <1>5, <4>1, <4>2
    <3> QED
      BY Zenon, <3>3, <3>4
  <2>5. CASE CollectVotesCanceled(n)
    BY Zenon, <1>3, <1>4, <1>5, <2>5, CanceledStep DEF CollectVotesCanceled
  <2>6. CASE RPCSucceeds(n)
    BY Zenon, <1>1, <1>4, <1>5, <2>6, UnchangedStep DEF RPCSucceeds
  <2>7. CASE \E e \in Errors : RPCFails(n, e)
    <3>1. NoNewVotes /\ UNCHANGED <<call, told>>
      BY Zenon, <1>1, <2>7, UnchangedStep, CancelNodeVoterStep DEF RPCFails
    <3> QED
      BY Zenon, <1>4, <1>5, <3>1
  <2> QED
    BY <1>6, <2>1, <2>2, <2>3, <2>4, <2>5, <2>6, <2>7 DEF NodeNext
<1>7. CASE StopTransaction
  BY Zenon, <1>4, <1>5, <1>7, StopStep DEF StopTransaction
<1>8. CASE Finalize
  BY Zenon, <1>4, <1>5, <1>8, FinalizeStep DEF Finalize
<1>9. CASE UNCHANGED vars
  BY Zenon, <1>1, <1>4, <1>5, <1>9, UnchangedStep DEF vars
<1> QED
  BY <1>6, <1>7, <1>8, <1>9 DEF Next

-----------------------------------------------------------------------------
(* The invariant and what follows from it.                                 *)

LEMMA VotingInvInit == Init => VotingInv
<1> SUFFICES ASSUME Init PROVE VotingInv
  OBVIOUS
<1>1. subtransactions = <<>> /\ subtransactions \in Seq(Subtransactions)
      /\ DOMAIN subtransactions = {}
  BY DEF Init
<1>2. MaxVotes \in Nat
  BY Zenon, ConstantsAssumption
<1>3. TypeOK
  BY <1>1, <1>2 DEF Init, TypeOK, Pending
<1>4. AnswersStand
  BY DEF Init, AnswersStand
<1>5. \A n \in Nodes : NodeInv(n)
  BY Zenon, <1>1 DEF Init, NodeInv
<1> QED
  BY Zenon, <1>1, <1>3, <1>4, <1>5 DEF Init, VotingInv

LEMMA VotingInvStep == VotingInv /\ [Next]_vars => VotingInv'
<1> SUFFICES ASSUME VotingInv, [Next]_vars PROVE VotingInv'
  OBVIOUS
<1>1. TypeOK' /\ \A n \in Nodes : LocalInv(n)'
  BY LocalStep
<1>2. AnswersStand' /\ \A n \in Nodes : VotedInv(n)'
  BY Zenon, VotedStep
<1>3. \A i \in DOMAIN subtransactions' : SubtransactionInv(subtransactions'[i])
  BY Zenon, StepOfSequence DEF SequenceStep
<1>4. \A n \in Nodes : NodeInv(n)'
  BY Zenon, <1>1, <1>2 DEF NodeInv, LocalInv, VotedInv
<1>5. (outcome = Pending \/ FinalInv)'
  <2>1. CASE FinalInv
    <3>1. UNCHANGED <<subtransactions, state, rpc, errByNode, outcome>>
      BY Zenon, <2>1, FinalStep DEF vars
    <3> QED
      BY Zenon, <2>1, <3>1 DEF FinalInv, Last
  <2>2. CASE outcome = Pending /\ Finalize
    BY Zenon, <2>2, FinalizeDecides
  <2>3. CASE outcome = Pending /\ ~Finalize
    <3>1. ASSUME NEW n \in Nodes, NodeNext(n) PROVE UNCHANGED outcome
      <4>1. CASE VoteRefused(n) \/ GetOrCreateSubtransaction(n) \/ \E v \in Values : Vote(n, v)
        BY Zenon, <4>1 DEF VoteRefused, GetOrCreateSubtransaction, Vote
      <4>2. CASE CollectVotes(n) \/ CollectVotesCanceled(n)
        BY Zenon, <4>2 DEF CollectVotes, CollectVotesCanceled
      <4>3. CASE RPCSucceeds(n) \/ \E e \in Errors : RPCFails(n, e)
        BY Zenon, <4>3 DEF RPCSucceeds, RPCFails
      <4> QED
        BY Zenon, <3>1, <4>1, <4>2, <4>3 DEF NodeNext
    <3>2. UNCHANGED outcome
      BY <2>3, <3>1 DEF Next, StopTransaction, vars
    <3> QED
      BY Zenon, <2>3, <3>2 DEF Pending
  <2> QED
    BY Zenon, <2>1, <2>2, <2>3 DEF VotingInv
<1>6. (\A i \in DOMAIN subtransactions : SubtransactionInv(subtransactions[i]))'
  BY <1>3
<1> QED
  BY Zenon, <1>1, <1>2, <1>4, <1>5, <1>6 DEF VotingInv

\* The inductive invariant: it holds for any number of nodes, values, errors
\* and subtransactions, whatever the order of votes, failures, cancellations,
\* the stop and the finalizer.
THEOREM VotingInvariant == Spec => []VotingInv
<1> QED
  BY VotingInvInit, VotingInvStep, PTL DEF Spec

\* The type invariant.
THEOREM VotingType == Spec => []TypeOK
<1>1. VotingInv => TypeOK
  BY Zenon DEF VotingInv
<1> QED
  BY <1>1, VotingInvariant, PTL

\* No node commits without the primary: updateVoterState commits only those
\* that agree with a quorum, and there is none without the primary.
THEOREM CommitsWithPrimary == Spec => []CommittedWithPrimary
<1>1. VotingInv => CommittedWithPrimary
  BY Zenon DEF VotingInv, CommittedWithPrimary, SubtransactionInv, Coherent
<1> QED
  BY <1>1, VotingInvariant, PTL

\* What collectVotes has answered stands.
THEOREM AnswersAlwaysStand == Spec => []AnswersStand
<1>1. VotingInv => AnswersStand
  BY DEF VotingInv
<1> QED
  BY <1>1, VotingInvariant, PTL

\* A decision of a subtransaction stands.
THEOREM DecisionsAlwaysStand == Spec => DecisionsStand
<1>1. VotingInv /\ [Next]_vars =>
        [\A i \in DOMAIN subtransactions :
           LET s == subtransactions[i]
               t == subtransactions'[i]
           IN  /\ \A n \in Nodes : s.result[n] # "undecided" => t.result[n] = s.result[n]
               /\ s.done => t.done
               /\ (s.done /\ \A n \in Nodes : s.result[n] # "committed")
                  => \A n \in Nodes : t.result[n] # "committed"]_vars
  <2> SUFFICES ASSUME VotingInv, [Next]_vars, NEW i \in DOMAIN subtransactions
               PROVE  SubtransactionStep(subtransactions[i], subtransactions'[i])
    BY Zenon DEF SubtransactionStep, NoneCommitted
  <2> QED
    BY Zenon, StepOfSequence DEF SequenceStep
<1> QED
  BY <1>1, VotingInvariant, PTL DEF Spec, DecisionsStand

\* The finalizer does not take a repository for unchanged in which a node was
\* told to commit.
THEOREM NothingChangedHolds == Spec => []NothingChanged
<1>1. VotingInv => NothingChanged
  <2> SUFFICES ASSUME VotingInv, outcome.final, ~outcome.dirtied, NEW n \in Nodes
               PROVE  told[n] = 0
    BY Zenon DEF NothingChanged
  <2>1. FinalInv
    BY DEF VotingInv, Pending
  <2>2. told[n] \in Nat
    BY ConstantsAssumption DEF VotingInv, TypeOK
  <2>3. 1 \notin 1..told[n]
    BY Zenon, <2>1 DEF VotingInv, AnswersStand, FinalInv, NoneCommitted
  <2> QED
    BY <2>2, <2>3
<1> QED
  BY <1>1, VotingInvariant, PTL

\* A secondary that getUpdatedAndOutdatedSecondaries takes for updated after a
\* successful request has committed what the primary has committed.
THEOREM UpdatedAlwaysAgrees == Spec => []UpdatedAgrees
<1>1. VotingInv => UpdatedAgrees
  <2> SUFFICES ASSUME VotingInv, outcome.final, errByNode[Primary] = NoError,
                      NEW n \in outcome.updated
               PROVE  /\ told[n] = told[Primary]
                      /\ told[n] = Len(subtransactions)
                      /\ \A i \in DOMAIN subtransactions :
                           subtransactions[i].vote[n] = subtransactions[i].vote[Primary]
    BY Zenon DEF UpdatedAgrees
  <2>1. FinalInv /\ TypeOK /\ AnswersStand
    BY DEF VotingInv, Pending
  <2>2. /\ n \in Nodes /\ Primary \in Nodes
        /\ told[n] \in Nat /\ told[Primary] \in Nat
        /\ DOMAIN subtransactions = 1..Len(subtransactions)
        /\ Len(subtransactions) \in Nat
    BY SMTT(40), <2>1, ConstantsAssumption DEF TypeOK, Secondaries
  <2>3. /\ subtransactions # <<>> /\ Len(subtransactions) \in DOMAIN subtransactions
        /\ Last.result[Primary] = "committed" /\ Last.result[n] = "committed"
        /\ errByNode[n] = NoError
    BY <2>1, <2>2 DEF FinalInv, TypeOK
  <2>4. ASSUME NEW m \in {n, Primary} PROVE told[m] = Len(subtransactions)
    <3>1. m \in Nodes /\ errByNode[m] = NoError /\ Last.result[m] = "committed"
      BY Zenon, <2>2, <2>3
    <3>2. call[m] = "idle"
      BY SMTT(40), <2>1, <3>1 DEF VotingInv, NodeInv, FinalInv, TypeOK
    <3>3. subtransactions[Len(subtransactions)].vote[m] # NoVote
      BY Zenon, <2>3, <3>1 DEF VotingInv, SubtransactionInv, Coherent, Last
    <3>4. Len(subtransactions) <= told[m]
      BY Zenon, <2>3, <3>1, <3>2, <3>3 DEF VotingInv, NodeInv
    <3>5. told[m] \in 1..told[m] /\ told[m] \in Nat
      BY <2>2, <2>3, <3>4
    <3>6. told[m] \in DOMAIN subtransactions
      BY Zenon, <2>1, <3>1, <3>5 DEF AnswersStand
    <3> QED
      BY <2>2, <3>4, <3>6
  <2>5. told[n] = Len(subtransactions) /\ told[Primary] = Len(subtransactions)
    BY Zenon, <2>4
  <2>6. \A i \in DOMAIN subtransactions : subtransactions[i].result[n] = "committed"
    BY Zenon, <2>1, <2>2, <2>5 DEF AnswersStand
  <2>7. \A i \in DOMAIN subtransactions : Coherent(subtransactions[i])
    BY DEF VotingInv, SubtransactionInv
  <2> QED
    BY Zenon, <2>2, <2>5, <2>6, <2>7 DEF Coherent
<1> QED
  BY <1>1, VotingInvariant, PTL

=============================================================================
