------------------------- MODULE VotingTransaction --------------------------
(***************************************************************************)
(* One reference transaction of Praefect, from the registration of its     *)
(* voters to the decision which replicas are outdated                      *)
(* (internal/praefect/transactions/{transaction,subtransaction}.go and     *)
(* the mutator path of internal/praefect/coordinator.go).                  *)
(*                                                                         *)
(* A mutator RPC is proxied to the primary and to the secondaries of the   *)
(* repository.  While they execute it the nodes vote on what they are      *)
(* about to do, in a sequence of subtransactions.  A node that is told to  *)
(* commit goes on, any other answer makes its RPC fail.                    *)
(*                                                                         *)
(* Only the results a client of the transaction can tell apart are kept:   *)
(* the answer to a vote is to commit or an error, whatever the error says. *)
(***************************************************************************)
EXTENDS Integers, Sequences, FiniteSets

CONSTANTS
  Nodes,     \* the voters
  Primary,   \* the node whose response goes to the client
  Values,    \* the votes: hashes of what a node is about to do
  Errors,    \* the errors the RPC may return on a node
  NoVote,    \* the nil vote
  NoError,   \* the nil error
  MaxVotes   \* bound on the votes a node casts

ASSUME ConstantsAssumption ==
  /\ Primary \in Nodes
  /\ IsFiniteSet(Nodes)
  /\ Values # {}
  /\ NoVote \notin Values
  /\ NoError \notin Errors
  /\ MaxVotes \in Nat

VARIABLES
  subtransactions, \* sequence of [vote, result: by node, done: doneCh is closed]
  state,           \* of the transaction: "open", "canceled" or "stopped"
  call,            \* the vote of each node: "idle", "assigned", "waiting" or "aborted"
  current,         \* the subtransaction that vote is about, 0 if none
  rpc,             \* the RPC on each node: "running", "ok" or "failed"
  errByNode,       \* the error it has returned
  outcome,         \* what the finalizer of the request has decided, or Pending
  \* History variable, used in properties only.
  told             \* how many times each node was told to commit

vars == <<subtransactions, state, call, current, rpc, errByNode, outcome, told>>

Secondaries == Nodes \ {Primary}

Results == {"undecided", "committed", "failed", "canceled", "stopped"}

Subtransactions ==
  [vote : [Nodes -> Values \cup {NoVote}], result : [Nodes -> Results], done : BOOLEAN]

Pending == [dirtied |-> FALSE, updated |-> {}, final |-> FALSE]

-----------------------------------------------------------------------------
(* The voters and their weights.                                           *)

\* The votes of the primary outweigh those of the secondaries, which have one each.
PrimaryVotes == Cardinality(Secondaries) + 1

Weight(S) ==
  Cardinality(S \ {Primary}) + (IF Primary \in S THEN PrimaryVotes ELSE 0)

\* At least half of the secondaries have to agree with the primary, if there
\* are several.  newTransaction accepts this threshold for any number of them: it
\* is at most all votes and more than half of them.
Threshold ==
  LET n == Cardinality(Secondaries)
  IN  n + 1 + (IF n > 1 THEN (n + 1) \div 2 ELSE 0)

-----------------------------------------------------------------------------
(* One subtransaction.                                                     *)

VoteCount(s, v) == Weight({n \in Nodes : s.vote[n] = v})

\* Mutant: voters that have not shown up are not expected to vote.
OutstandingNone(s) == {}

Outstanding(s) == {n \in Nodes : s.vote[n] = NoVote /\ s.result[n] = "undecided"}

\* The vote that has reached the threshold.
Majority(s) ==
  {v \in Values : /\ VoteCount(s, v) >= Threshold
                  /\ \A w \in Values : VoteCount(s, w) <= VoteCount(s, v)}

QuorumPossible(s) ==
  \E v \in Values : VoteCount(s, v) + Weight(Outstanding(s)) >= Threshold

\* Mutant: a voter's vote is not compared with the one that has quorum.
SettledAlike(s) ==
  LET result(n) ==
        IF s.result[n] # "undecided" \/ s.vote[n] = NoVote THEN s.result[n]
        ELSE IF Majority(s) # {} THEN "committed" ELSE "failed"
  IN  IF Majority(s) = {} /\ QuorumPossible(s)
      THEN s
      ELSE [vote |-> s.vote, result |-> [n \in Nodes |-> result(n)], done |-> TRUE]

\* The second half of updateVoterState: once quorum is reached or out of
\* reach, all who have voted are decided, and they are signalled.
Settled(s) ==
  LET result(n) ==
        IF s.result[n] # "undecided" \/ s.vote[n] = NoVote THEN s.result[n]
        ELSE IF s.vote[n] \in Majority(s) THEN "committed" ELSE "failed"
  IN  IF Majority(s) = {} /\ QuorumPossible(s)
      THEN s
      ELSE [vote |-> s.vote, result |-> [n \in Nodes |-> result(n)], done |-> TRUE]

WithVote(s, n, v) == Settled([s EXCEPT !.vote[n] = v])

\* Too late once the subtransaction is done: others may have committed.
CanWithdraw(s, n) == s.result[n] = "undecided" /\ ~s.done

\* Mutant: whether the others can still reach quorum is not checked.
WithdrawnQuietly(s, n) == [s EXCEPT !.vote[n] = NoVote, !.result[n] = "canceled"]

Withdrawn(s, n) ==
  Settled([s EXCEPT !.vote[n] = NoVote, !.result[n] = "canceled"])

\* Mutant: doneCh is not closed.
EndedUnsignalled(s, r) ==
  [s EXCEPT !.result = [n \in Nodes |-> IF s.result[n] = "undecided" THEN r ELSE s.result[n]]]

\* cancel and stop of a subtransaction: all undecided voters get this result.
Ended(s, r) ==
  [vote |-> s.vote,
   result |-> [n \in Nodes |-> IF s.result[n] = "undecided" THEN r ELSE s.result[n]],
   done |-> TRUE]

-----------------------------------------------------------------------------
(* The sequence of subtransactions.                                        *)

Last == subtransactions[Len(subtransactions)]

\* Mutant: a voter that was canceled is expected to vote again.
NewSubtransactionFresh ==
  [vote |-> [n \in Nodes |-> NoVote],
   result |-> [n \in Nodes |-> "undecided"],
   done |-> FALSE]

\* A new subtransaction inherits the voters canceled in the last one.
NewSubtransaction ==
  [vote |-> [n \in Nodes |-> NoVote],
   result |-> [n \in Nodes |->
                 IF subtransactions # <<>> /\ Last.result[n] = "canceled"
                 THEN "canceled" ELSE "undecided"],
   done |-> FALSE]

NotCommitted(n) ==
  {i \in DOMAIN subtransactions : subtransactions[i].result[n] # "committed"}

\* The first subtransaction that n has not committed, 0 if there is none.
First(n) ==
  IF NotCommitted(n) = {} THEN 0
  ELSE CHOOSE i \in NotCommitted(n) : \A j \in NotCommitted(n) : i <= j

\* Whether a subtransaction that n has failed, or that was ended, keeps it from voting.
Excluded(n) ==
  First(n) # 0 /\ subtransactions[First(n)].result[n] # "undecided"

-----------------------------------------------------------------------------
(* VoteTransaction, called by a node that may go on voting even when       *)
(* Praefect has given up on it.                                            *)

CanVote(n) == call[n] = "idle" /\ rpc[n] # "ok" /\ told[n] < MaxVotes

VoteRefused(n) ==
  /\ CanVote(n)
  /\ state # "open" \/ Excluded(n)
  /\ call' = [call EXCEPT ![n] = "aborted"]
  /\ UNCHANGED <<subtransactions, state, current, rpc, errByNode, outcome, told>>

\* getOrCreateSubtransaction.
GetOrCreateSubtransaction(n) ==
  /\ CanVote(n)
  /\ state = "open"
  /\ ~Excluded(n)
  /\ IF First(n) # 0
     THEN /\ current' = [current EXCEPT ![n] = First(n)]
          /\ UNCHANGED subtransactions
     ELSE /\ current' = [current EXCEPT ![n] = Len(subtransactions) + 1]
          /\ subtransactions' = Append(subtransactions, NewSubtransaction)
  /\ call' = [call EXCEPT ![n] = "assigned"]
  /\ UNCHANGED <<state, rpc, errByNode, outcome, told>>

\* vote of the subtransaction.  The lock of the transaction is not held any more.
Vote(n, v) ==
  LET s == subtransactions[current[n]]
  IN  /\ call[n] = "assigned"
      /\ IF s.vote[n] = NoVote /\ s.result[n] = "undecided"
         THEN /\ subtransactions' = [subtransactions EXCEPT ![current[n]] = WithVote(s, n, v)]
              /\ call' = [call EXCEPT ![n] = "waiting"]
         ELSE /\ call' = [call EXCEPT ![n] = "aborted"]
              /\ UNCHANGED subtransactions
      /\ UNCHANGED <<state, current, rpc, errByNode, outcome, told>>

\* Mutant: whoever wakes up when the subtransaction is done goes on.
CollectVotesUnchecked(n) ==
  /\ call[n] = "waiting"
  /\ subtransactions[current[n]].done
  /\ call' = [call EXCEPT ![n] = "idle"]
  /\ told' = [told EXCEPT ![n] = @ + 1]
  /\ UNCHANGED <<subtransactions, state, current, rpc, errByNode, outcome>>

\* collectVotes, once doneCh is closed.
CollectVotes(n) ==
  /\ call[n] = "waiting"
  /\ subtransactions[current[n]].done
  /\ IF subtransactions[current[n]].result[n] = "committed"
     THEN /\ call' = [call EXCEPT ![n] = "idle"]
          /\ told' = [told EXCEPT ![n] = @ + 1]
     ELSE /\ call' = [call EXCEPT ![n] = "aborted"]
          /\ UNCHANGED told
  /\ UNCHANGED <<subtransactions, state, current, rpc, errByNode, outcome>>

\* collectVotes, when the context of the vote has ended before the lock of the
\* subtransaction is taken, be it done or not.
CollectVotesCanceled(n) ==
  LET s == subtransactions[current[n]]
  IN  /\ call[n] = "waiting"
      /\ IF CanWithdraw(s, n)
         THEN subtransactions' = [subtransactions EXCEPT ![current[n]] = Withdrawn(s, n)]
         ELSE UNCHANGED subtransactions
      /\ call' = [call EXCEPT ![n] = "aborted"]
      /\ UNCHANGED <<state, current, rpc, errByNode, outcome, told>>

-----------------------------------------------------------------------------
(* StopTransaction, called when a hook fails on the primary.               *)

Stopped(s) == \E n \in Nodes : s.result[n] = "stopped"

\* The loop returns at a subtransaction that is stopped already.
StopTransaction ==
  LET stopped == {i \in DOMAIN subtransactions : Stopped(subtransactions[i])}
  IN  /\ rpc[Primary] = "running"
      /\ call[Primary] = "idle"
      /\ outcome = Pending
      /\ subtransactions' =
           [i \in DOMAIN subtransactions |->
              IF \E j \in stopped : j <= i THEN subtransactions[i]
              ELSE Ended(subtransactions[i], "stopped")]
      /\ state' = IF stopped = {} THEN "stopped" ELSE state
      /\ UNCHANGED <<call, current, rpc, errByNode, outcome, told>>

-----------------------------------------------------------------------------
(* The proxied RPC.                                                        *)

\* The subtransactions from the first undecided one on.
PendingOf(n) ==
  IF First(n) = 0 THEN {} ELSE {i \in DOMAIN subtransactions : i >= First(n)}

\* cancelNodeVoter.  A subtransaction that is created keeps track of the
\* failure.  The loop over the pending ones ends at the first one that is done.
CancelNodeVoter(n) ==
  IF Excluded(n) THEN UNCHANGED subtransactions
  ELSE IF PendingOf(n) = {}
  THEN subtransactions' =
         Append(subtransactions,
                IF CanWithdraw(NewSubtransaction, n)
                THEN Withdrawn(NewSubtransaction, n) ELSE NewSubtransaction)
  ELSE subtransactions' =
         [i \in DOMAIN subtransactions |->
            IF /\ i \in PendingOf(n)
               /\ \A j \in PendingOf(n) : j <= i => CanWithdraw(subtransactions[j], n)
            THEN Withdrawn(subtransactions[i], n) ELSE subtransactions[i]]

RPCSucceeds(n) ==
  /\ rpc[n] = "running"
  /\ call[n] = "idle"
  /\ rpc' = [rpc EXCEPT ![n] = "ok"]
  /\ UNCHANGED <<subtransactions, state, call, current, errByNode, outcome, told>>

\* The ErrHandler of the primary and of a secondary.
RPCFails(n, e) ==
  /\ rpc[n] = "running"
  /\ rpc' = [rpc EXCEPT ![n] = "failed"]
  /\ errByNode' = [errByNode EXCEPT ![n] = e]
  /\ IF n = Primary THEN UNCHANGED subtransactions ELSE CancelNodeVoter(n)
  /\ UNCHANGED <<state, call, current, outcome, told>>

-----------------------------------------------------------------------------
(* The finalizers of the request, which run when no RPC is left.           *)

\* Mutant: a single subtransaction is taken not to have changed anything.
DirtiedBySecond(subs) == Len(subs) > 1

Dirtied(subs) ==
  /\ ~(Len(subs) = 0 /\ errByNode[Primary] # NoError)
  /\ ~(Len(subs) = 1 /\ subs[1].vote[Primary] = NoVote)

\* Mutant: the error of a secondary does not matter.
UpdatedDespiteError(subs) ==
  IF subs = <<>> \/ subs[Len(subs)].result[Primary] # "committed" THEN {}
  ELSE {n \in Secondaries : subs[Len(subs)].result[n] = "committed"}

\* The secondaries that need no replication: all others of them are outdated.
Updated(subs) ==
  IF subs = <<>> \/ subs[Len(subs)].result[Primary] # "committed" THEN {}
  ELSE {n \in Secondaries : /\ errByNode[n] = errByNode[Primary]
                            /\ subs[Len(subs)].result[n] = "committed"}

\* cancelTransaction, then getUpdatedAndOutdatedSecondaries.
Finalize ==
  LET subs == [i \in DOMAIN subtransactions |-> Ended(subtransactions[i], "canceled")]
  IN  /\ outcome = Pending
      /\ \A n \in Nodes : rpc[n] # "running"
      /\ subtransactions' = subs
      /\ state' = "canceled"
      /\ outcome' = [dirtied |-> Dirtied(subs),
                     updated |-> IF Dirtied(subs) THEN Updated(subs) ELSE {},
                     final |-> TRUE]
      /\ UNCHANGED <<call, current, rpc, errByNode, told>>

-----------------------------------------------------------------------------
Init ==
  /\ subtransactions = <<>>
  /\ state = "open"
  /\ call = [n \in Nodes |-> "idle"]
  /\ current = [n \in Nodes |-> 0]
  /\ rpc = [n \in Nodes |-> "running"]
  /\ errByNode = [n \in Nodes |-> NoError]
  /\ outcome = Pending
  /\ told = [n \in Nodes |-> 0]

NodeNext(n) ==
  \/ VoteRefused(n)
  \/ GetOrCreateSubtransaction(n)
  \/ \E v \in Values : Vote(n, v)
  \/ CollectVotes(n)
  \/ CollectVotesCanceled(n)
  \/ RPCSucceeds(n)
  \/ \E e \in Errors : RPCFails(n, e)

Next ==
  \/ \E n \in Nodes : NodeNext(n)
  \/ StopTransaction
  \/ Finalize

Spec == Init /\ [][Next]_vars

\* A vote is cast and, once it is decided, answered.  An RPC goes on until it
\* returns, and votes as often on every node where it succeeds.  The context of
\* a vote ends with the RPC it belongs to, and when the RPC fails on the primary
\* the proxy cancels it on the secondaries.  Nothing else ends a context.
RunningNext(n) ==
  /\ rpc[n] = "running"
  /\ call[n] \in {"idle", "aborted"}
  /\ \/ VoteRefused(n)
     \/ GetOrCreateSubtransaction(n)
     \/ told[n] = MaxVotes /\ RPCSucceeds(n)
     \/ \E e \in Errors : RPCFails(n, e)

FairSpec ==
  /\ Spec
  /\ \A n \in Nodes :
       /\ WF_vars((\E v \in Values : Vote(n, v)) \/ CollectVotes(n))
       /\ WF_vars(RunningNext(n))
       /\ WF_vars(rpc[n] = "failed" /\ CollectVotesCanceled(n))
       /\ WF_vars(rpc[Primary] = "failed" /\ \E e \in Errors : RPCFails(n, e))
  /\ WF_vars(Finalize)

-----------------------------------------------------------------------------
(* Properties.                                                             *)

\* The type invariant.  A node that has a subtransaction assigned has a vote
\* to cast or has cast it.
TypeOK ==
  /\ subtransactions \in Seq(Subtransactions)
  /\ state \in {"open", "canceled", "stopped"}
  /\ call \in [Nodes -> {"idle", "assigned", "waiting", "aborted"}]
  /\ current \in [Nodes -> Nat]
  /\ \A n \in Nodes :
       call[n] \in {"assigned", "waiting"} => current[n] \in DOMAIN subtransactions
  /\ rpc \in [Nodes -> {"running", "ok", "failed"}]
  /\ errByNode \in [Nodes -> Errors \cup {NoError}]
  /\ outcome \in [dirtied : BOOLEAN, updated : SUBSET Secondaries, final : BOOLEAN]
  /\ told \in [Nodes -> 0..MaxVotes]

\* No node commits without the primary, or something else than the primary:
\* whoever has committed a subtransaction has cast the vote that the primary
\* has cast and committed.  It makes the transaction a two-phase commit among
\* replicas that may fail, disagree, be canceled or vote late.
CommittedWithPrimary ==
  \A i \in DOMAIN subtransactions, n \in Nodes :
    LET s == subtransactions[i]
    IN  s.result[n] = "committed" =>
          /\ s.result[Primary] = "committed"
          /\ s.vote[n] = s.vote[Primary]

\* What a node was told stands: a node that was told to commit k times has
\* committed the first k subtransactions, in their order, even if its context
\* or the transaction was canceled or stopped afterwards.
AnswersStand ==
  \A n \in Nodes : \A i \in 1..told[n] :
    /\ i \in DOMAIN subtransactions
    /\ subtransactions[i].result[n] = "committed"

\* A decision stands.  A voter that is decided keeps its result, and if a
\* subtransaction is over without anyone having committed it, be it failed,
\* canceled or stopped, a voter that comes late does not commit it either.
DecisionsStand ==
  [][\A i \in DOMAIN subtransactions :
       LET s == subtransactions[i]
           t == subtransactions'[i]
       IN  /\ \A n \in Nodes : s.result[n] # "undecided" => t.result[n] = s.result[n]
           /\ s.done => t.done
           /\ (s.done /\ \A n \in Nodes : s.result[n] # "committed")
              => \A n \in Nodes : t.result[n] # "committed"]_vars

\* If the finalizer takes the primary not to have changed anything, then no
\* node has: none was told to commit.  It does not record a new generation then.
NothingChanged ==
  outcome.final /\ ~outcome.dirtied => \A n \in Nodes : told[n] = 0

\* A secondary that gets no replication job after a successful request has
\* done what the primary has done: both were told to commit all
\* subtransactions, with the same votes.
UpdatedAgrees ==
  outcome.final /\ errByNode[Primary] = NoError =>
    \A n \in outcome.updated :
      /\ told[n] = told[Primary]
      /\ told[n] = Len(subtransactions)
      /\ \A i \in DOMAIN subtransactions :
           subtransactions[i].vote[n] = subtransactions[i].vote[Primary]

\* An RPC votes as often on every node where it succeeds.
VotesAlike == \A n \in Nodes : rpc[n] = "ok" => told[n] = MaxVotes

\* What the comments on cancelNodeVoter of the transaction and of the
\* subtransaction say: the voter of a failed RPC is canceled in all pending
\* subtransactions, so that voters are unblocked when quorum has become
\* impossible.  Thus no voter waits forever.
VotesReturn ==
  []VotesAlike => \A n \in Nodes : call[n] = "waiting" ~> call[n] # "waiting"

\* The RPC of a secondary has failed while it was behind: others have committed
\* a subtransaction in which it has not voted yet or was outvoted.
\* cancelNodeVoter returns there and leaves it outstanding in the later ones.
LeftBehind ==
  \E n \in Secondaries, i \in DOMAIN subtransactions :
    /\ rpc[n] = "failed"
    /\ subtransactions[i].result[n] \in {"undecided", "failed"}
    /\ \E m \in Nodes : subtransactions[i].result[m] = "committed"

\* Every voter is told the outcome of every subtransaction it votes in, whatever
\* RPCs fail, unless one of them was left behind: the failures of earlier
\* subtransactions are carried over to the later ones, and the last vote that is
\* cast or withdrawn always wakes up those who wait.
VotesReturnUnlessBehind ==
  []~LeftBehind => VotesReturn

-----------------------------------------------------------------------------
(* The inductive invariant behind these properties.                        *)

\* Those who support v, or may still do so.
Supporters(s, v) == {n \in Nodes : s.vote[n] = v} \cup Outstanding(s)

NoneCommitted(s) == \A n \in Nodes : s.result[n] # "committed"

\* Results, votes and the done channel agree.  Whoever has committed has done
\* so with the primary and a quorum.  If a subtransaction is done without that,
\* no quorum can come about any more.
Coherent(s) ==
  /\ \A n \in Nodes : s.result[n] = "committed" =>
       /\ s.done
       /\ s.result[Primary] = "committed"
       /\ s.vote[n] = s.vote[Primary] /\ s.vote[n] # NoVote
  /\ s.result[Primary] = "committed" => VoteCount(s, s.vote[Primary]) >= Threshold
  /\ s.done /\ NoneCommitted(s) => \A v \in Values : Weight(Supporters(s, v)) < Threshold
  /\ ~s.done => \A n \in Nodes : \/ s.result[n] = "undecided"
                                 \/ s.result[n] = "canceled" /\ s.vote[n] = NoVote

SubtransactionInv(s) ==
  /\ Coherent(s)
  /\ ~s.done => \A v \in Values : VoteCount(s, v) < Threshold

\* A node votes in the order of the subtransactions: it has voted in those it
\* was told to commit and at most in the next one.
NodeInv(n) ==
  /\ call[n] \in {"assigned", "waiting"} => current[n] = told[n] + 1 /\ told[n] < MaxVotes
  /\ \A i \in DOMAIN subtransactions : subtransactions[i].vote[n] # NoVote =>
       \/ i <= told[n]
       \/ i = told[n] + 1 /\ call[n] \in {"waiting", "aborted"}
  /\ rpc[n] = "ok" => call[n] = "idle"
  /\ errByNode[n] # NoError <=> rpc[n] = "failed"

\* Once the finalizer has run nothing is left to decide.
FinalInv ==
  /\ outcome.final
  /\ state = "canceled"
  /\ \A n \in Nodes : rpc[n] # "running"
  /\ \A i \in DOMAIN subtransactions, n \in Nodes : subtransactions[i].result[n] # "undecided"
  /\ ~outcome.dirtied => \A i \in DOMAIN subtransactions : NoneCommitted(subtransactions[i])
  /\ \A n \in outcome.updated :
       /\ subtransactions # <<>>
       /\ Last.result[Primary] = "committed" /\ Last.result[n] = "committed"
       /\ errByNode[n] = errByNode[Primary]

\* The invariant of the proofs.
VotingInv ==
  /\ TypeOK
  /\ \A i \in DOMAIN subtransactions : SubtransactionInv(subtransactions[i])
  /\ AnswersStand
  /\ \A n \in Nodes : NodeInv(n)
  /\ outcome = Pending \/ FinalInv

=============================================================================
