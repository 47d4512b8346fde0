------------------------- MODULE ReplicationProofs --------------------------
(***************************************************************************)
(* The safety of replication, for any storages, writes, Praefect nodes and *)
(* any number of faults.  ReplicationInv is inductive together with        *)
(* Numbered: its four sides are the queue and the store of generations,    *)
(* which ReplicationStepProofs treats, what generations guarantee          *)
(* (GenerationStep) and that the latest generation is kept (KeptStep).     *)
(***************************************************************************)
EXTENDS ReplicationStepProofs

USE Zenon

---------------------------------------------------------------------------
(* What generations guarantee.                                             *)

\* After the step.
HoldsNext(s, gen) ==
  \A w \in Writes :
     rpc'[w].produced # NoRow /\ rpc'[w].primary \in rpc'[w].applied /\ gen >= rpc'[w].produced
       => disk'[s] = {} \/ w \in disk'[s]

\* The step changes nothing that was said of a generation, of a storage, of a worker.
Recorded(w) ==
  \/ rpc'[w].produced = NoRow
  \/ /\ rpc'[w].produced = rpc[w].produced
     /\ rpc'[w].primary = rpc[w].primary /\ rpc'[w].applied = rpc[w].applied

DiskKept(s) == disk'[s] = {} \/ (disk[s] # {} /\ disk[s] \subseteq disk'[s])

Steady(k) ==
  \/ worker'[k].at \notin {"copy", "set"}
  \/ worker'[k].at = worker[k].at /\ worker'[k].gen = worker[k].gen /\ Job(k)' = Job(k)

AppliedNext(w) == rpc'[w].at = "commit" => \A s \in rpc'[w].applied : disk'[s] = {} \/ w \in disk'[s]

GenSide == slips \cap Races = {} => GenerationInv

\* What generations guarantee survives every step without a race.
LEMMA GenerationStep ==
  ASSUME Inv, [Next]_vars
  PROVE  GenSide'

<1>HoldsKept.
  ASSUME \A w \in Writes : Recorded(w), NEW s, NEW gen, DiskKept(s), Holds(s, gen)
  PROVE  HoldsNext(s, gen)
  <2> USE <1>HoldsKept
  <2> SUFFICES ASSUME NEW w \in Writes, rpc'[w].produced # NoRow, rpc'[w].primary \in rpc'[w].applied,
                      gen >= rpc'[w].produced, disk'[s] # {}
               PROVE  w \in disk'[s]
    BY DEF HoldsNext
  <2>1. /\ rpc'[w].produced = rpc[w].produced
        /\ rpc'[w].primary = rpc[w].primary /\ rpc'[w].applied = rpc[w].applied
    BY DEF Recorded
  <2>2. disk[s] # {} /\ disk[s] \subseteq disk'[s]
    BY DEF DiskKept
  <2>3. disk[s] = {} \/ w \in disk[s]
    BY <2>1 DEF Holds
  <2> QED
    BY <2>2, <2>3

\* A lower generation says less.
<1>HoldsLess.
  ASSUME rpc' \in [Writes -> RPCs], NEW s, NEW gen \in Nat \cup {NoRow}, NEW low \in Nat \cup {NoRow},
         low <= gen, HoldsNext(s, gen)
  PROVE  HoldsNext(s, low)
  <2> USE <1>HoldsLess
  <2> SUFFICES ASSUME NEW w \in Writes, rpc'[w].produced # NoRow, rpc'[w].primary \in rpc'[w].applied,
                      low >= rpc'[w].produced
               PROVE  disk'[s] = {} \/ w \in disk'[s]
    BY DEF HoldsNext
  <2>1. rpc'[w] \in RPCs
    OBVIOUS
  <2>2. rpc'[w].produced \in Nat \cup {NoRow}
    BY SMT, <2>1 DEF RPCs
  <2>3. gen >= rpc'[w].produced
    BY SMT, <2>2 DEF NoRow
  <2> QED
    BY <2>3 DEF HoldsNext

<1>HoldsNothing.
  ASSUME rpc' \in [Writes -> RPCs], NEW s
  PROVE  HoldsNext(s, NoRow)
  <2> USE <1>HoldsNothing
  <2>1. ASSUME NEW w \in Writes, rpc'[w].produced # NoRow
        PROVE  ~(NoRow >= rpc'[w].produced)
    <3>1. rpc'[w] \in RPCs
      OBVIOUS
    <3>2. rpc'[w].produced \in Nat \cup {NoRow}
      BY SMT, <3>1 DEF RPCs
    <3> QED
      BY SMT, <2>1, <3>2 DEF NoRow
  <2> QED
    BY <2>1 DEF HoldsNext

<1>GuaranteeKept.
  ASSUME GenerationInv, rpc' \in [Writes -> RPCs], \A w \in Writes : Recorded(w),
         NEW s \in Storages, DiskKept(s), replicas'[s] \in {replicas[s], NoRow}
  PROVE  HoldsNext(s, replicas'[s])
  <2> USE <1>GuaranteeKept
  <2>1. Holds(s, replicas[s])
    BY DEF GenerationInv, GenerationGuarantee
  <2>2. HoldsNext(s, replicas[s])
    BY <2>1, <1>HoldsKept
  <2> QED
    BY <2>2, <1>HoldsNothing

<1>CopiesKept.
  ASSUME GenerationInv, \A w \in Writes : Recorded(w), \A s \in Storages : DiskKept(s),
         NEW k \in Workers, Steady(k)
  PROVE  Copies(k)'
  <2> USE <1>CopiesKept
  <2>1. CASE worker'[k].at \notin {"copy", "set"}
    <3>1. worker'[k].at # "copy" /\ worker'[k].at # "set"
      BY <2>1
    <3> QED
      BY <3>1 DEF Copies
  <2>2. CASE worker'[k].at = worker[k].at /\ worker'[k].gen = worker[k].gen /\ Job(k)' = Job(k)
    <3>1. Copies(k) /\ Fits(k)
      BY Working DEF GenerationInv
    <3>2. worker[k].at = "copy" => HoldsNext(Job(k).source, worker[k].gen)
      <4>1. SUFFICES ASSUME worker[k].at = "copy" PROVE HoldsNext(Job(k).source, worker[k].gen)
        BY SMT
      <4>2. worker[k].at \in Stages /\ Job(k).change = "update"
        BY <3>1, <4>1 DEF Fits, Stages
      <4>3. Job(k).source \in Storages
        BY <4>2, Working
      <4> QED
        BY <3>1, <4>1, <4>3, <1>HoldsKept DEF Copies
    <3>3. worker[k].at = "set" => HoldsNext(Job(k).target, worker[k].gen)
      <4>1. SUFFICES ASSUME worker[k].at = "set" PROVE HoldsNext(Job(k).target, worker[k].gen)
        BY SMT
      <4>2. worker[k].at \in Stages
        BY <4>1 DEF Stages
      <4>3. Job(k).target \in Storages
        BY <4>2, Working
      <4> QED
        BY <3>1, <4>1, <4>3, <1>HoldsKept DEF Copies
    <3> QED
      BY <2>2, <3>2, <3>3 DEF Copies, Holds, HoldsNext
  <2> QED
    BY <2>1, <2>2 DEF Steady

<1>ProducedKept.
  ASSUME GenerationInv, StoreRises, NEW w \in Writes, Recorded(w), generation' # NoRow
  PROVE  rpc'[w].produced <= generation'
  <2> USE <1>ProducedKept
  <2>1. /\ generation # NoRow /\ generation <= generation' /\ generation' \in Nat \cup {NoRow}
        /\ generation \in Nat \cup {NoRow} /\ rpc[w].produced \in Nat \cup {NoRow}
    BY RpcNow, StoreSideNow DEF StoreRises, StoreSide, StoreTypes
  <2>2. rpc[w].produced <= generation /\ rpc'[w].produced \in {NoRow, rpc[w].produced}
    BY <2>1 DEF GenerationInv, Recorded
  <2> QED
    BY SMT, <2>1, <2>2 DEF NoRow

\* The parts together.
<1>GenerationNext.
  ASSUME \A w \in Writes : generation' # NoRow => rpc'[w].produced <= generation',
         \A s \in Storages : HoldsNext(s, replicas'[s]), \A k \in Workers : Copies(k)',
         \A w \in Writes : AppliedNext(w)
  PROVE  GenerationInv'
  <2> USE <1>GenerationNext
  <2>1. GenerationGuarantee'
    BY DEF GenerationGuarantee, Holds, HoldsNext
  <2> QED
    BY <2>1 DEF GenerationInv, AppliedNext

<1>GenFrame.
  ASSUME StoreRises, rpc' \in [Writes -> RPCs], slips \subseteq slips', \A w \in Writes : Recorded(w),
         \A s \in Storages : DiskKept(s), \A s \in Storages : replicas'[s] \in {replicas[s], NoRow},
         \A k \in Workers : Steady(k), GenerationInv => \A w \in Writes : AppliedNext(w)
  PROVE  GenSide'
  <2> USE <1>GenFrame
  <2> SUFFICES ASSUME slips' \cap Races = {}
               PROVE  GenerationInv'
    BY DEF GenSide
  <2>1. GenerationInv
    BY DEF Inv, ReplicationInv
  <2>2. \A s \in Storages : HoldsNext(s, replicas'[s])
    BY <2>1, <1>GuaranteeKept
  <2>3. \A k \in Workers : Copies(k)'
    BY <2>1, <1>CopiesKept
  <2> QED
    BY <2>1, <2>2, <2>3, <1>ProducedKept, <1>GenerationNext

<1>SameRises.
  ASSUME generation' = generation
  PROVE  StoreRises
  <2> USE <1>SameRises
  <2>1. generation \in Nat \cup {NoRow}
    BY StoreSideNow DEF StoreSide, StoreTypes
  <2> QED
    BY SMT, <2>1 DEF StoreRises, NoRow

<1>SameSteady.
  ASSUME NEW o \in Workers, worker'[o] = worker[o]
  PROVE  Steady(o)
    BY <1>SameSteady, SameWorker DEF Steady

<1>SameDisk.
  ASSUME NEW s, disk'[s] = disk[s]
  PROVE  DiskKept(s)
    BY <1>SameDisk DEF DiskKept

<1>SameApplied.
  ASSUME GenerationInv, NEW w \in Writes, rpc'[w] = rpc[w], Inv, \A s \in Storages : DiskKept(s)
  PROVE  AppliedNext(w)
  <2> USE <1>SameApplied
  <2> SUFFICES ASSUME rpc[w].at = "commit", NEW s \in rpc[w].applied
               PROVE  disk'[s] = {} \/ w \in disk'[s]
    BY DEF AppliedNext
  <2>1. s \in Storages
    BY RpcNow
  <2> QED
    BY <2>1 DEF GenerationInv, DiskKept

<1>RpcGenSide.
  ASSUME NEW w \in Writes, RpcFrame(w), Recorded(w), UNCHANGED <<generation, replicas, worker>>,
         slips \subseteq slips', \A s \in Storages : DiskKept(s), GenerationInv => AppliedNext(w)
  PROVE  GenSide'
  <2> USE <1>RpcGenSide
  <2>1. \A v \in Writes : Recorded(v)
    BY DEF RpcFrame, Recorded
  <2>2. GenerationInv => \A v \in Writes : AppliedNext(v)
    BY <1>SameApplied DEF RpcFrame
  <2>3. \A k \in Workers : Steady(k)
    BY <1>SameSteady
  <2>4. rpc' \in [Writes -> RPCs]
    BY DEF RpcFrame
  <2> QED
    BY <2>1, <2>2, <2>3, <2>4, <1>SameRises, <1>GenFrame

<1>QuietRecorded.
  ASSUME NEW w \in Writes, Quiet(w)
  PROVE  Recorded(w) /\ RpcFrame(w)
    BY <1>QuietRecorded DEF Quiet, Recorded

<1>RoutingGenSide.
  ASSUME NEW w \in Writes,
         \/ GetPrimary(w) \/ GetConsistentStorages(w) \/ GetHostAssignments(w) \/ Vote(w)
         \/ (\E s \in Storages : Enqueue(w, s)) \/ FinalizerLost(w)
  PROVE  GenSide'
  <2> USE <1>RoutingGenSide
  <2>1. /\ Quiet(w) /\ (rpc'[w].at = "commit" => rpc'[w].applied = {}) /\ slips \subseteq slips'
    <3>1. CASE GetPrimary(w)
      BY <3>1, GetPrimaryEffect DEF GetPrimary
    <3>2. CASE GetConsistentStorages(w)
      BY <3>2, GetConsistentStoragesEffect DEF GetConsistentStorages
    <3>3. CASE GetHostAssignments(w)
      BY <3>3, GetHostAssignmentsEffect
    <3>4. CASE Vote(w)
      BY <3>4, VoteEffect DEF Vote
    <3>5. CASE \E s \in Storages : Enqueue(w, s)
      BY <3>5, EnqueueEffect DEF Enqueue
    <3>6. CASE FinalizerLost(w)
      BY <3>6, FinalizerLostEffect DEF FinalizerLost
    <3> QED
      BY <3>1, <3>2, <3>3, <3>4, <3>5, <3>6
  <2>2. UNCHANGED <<generation, replicas, disk, worker>>
    BY DEF GetPrimary, GetConsistentStorages, GetHostAssignments, Vote, Enqueue, FinalizerLost, store
  <2>3. AppliedNext(w)
    BY <2>1 DEF AppliedNext
  <2>4. \A s \in Storages : DiskKept(s)
    BY <2>2, <1>SameDisk
  <2> QED
    BY <2>1, <2>2, <2>3, <2>4, <1>QuietRecorded, <1>RpcGenSide

<1>CommitGenSide.
  ASSUME NEW w \in Writes, NEW s \in Storages, Commit(w, s)
  PROVE  GenSide'
  <2> USE <1>CommitGenSide
  <2>1. Quiet(w) /\ rpc'[w].at = rpc[w].at /\ Committed(w, s)
    BY CommitEffect
  <2>2. UNCHANGED <<generation, replicas, worker, slips>> /\ disk \in [Storages -> SUBSET (Writes \cup {Created})]
    BY StoreSideNow DEF Commit, store, StoreSide, StoreTypes
  <2>3. CASE disk' = disk /\ rpc'[w].applied = rpc[w].applied
    <3>1. GenerationInv => AppliedNext(w)
      BY <2>1, <2>3 DEF GenerationInv, AppliedNext
    <3> QED
      BY <2>1, <2>2, <2>3, <3>1, <1>SameDisk, <1>QuietRecorded, <1>RpcGenSide
  <2>4. CASE /\ disk[s] # {} /\ disk' = [disk EXCEPT ![s] = disk[s] \cup {w}]
             /\ rpc'[w].applied = rpc[w].applied \cup {s}
    <3>1. disk'[s] = disk[s] \cup {w} /\ \A t \in Storages : t # s => disk'[t] = disk[t]
      BY <2>2, <2>4
    <3>2. \A t \in Storages : DiskKept(t)
      BY <2>4, <3>1 DEF DiskKept
    <3>3. rpc[w].applied \subseteq Storages
      BY RpcNow
    <3>4. GenerationInv => AppliedNext(w)
      BY <2>1, <2>4, <3>1, <3>3 DEF GenerationInv, AppliedNext
    <3> QED
      BY <2>1, <2>2, <3>2, <3>4, <1>QuietRecorded, <1>RpcGenSide
  <2> QED
    BY <2>1, <2>3, <2>4 DEF Committed

\* The storages at the new generation ended like the primary, and no other replica
\* and no worker has seen the new generation.
<1>IncrementGenSide.
  ASSUME NEW w \in Writes, IncrementGeneration(w)
  PROVE  GenSide'
  <2> USE <1>IncrementGenSide
  <2>1. UNCHANGED <<disk, worker, slips>>
    BY DEF IncrementGeneration
  <2>2. /\ RpcFrame(w) /\ rpc'[w].at # "commit" /\ rpc[w].at = "commit"
        /\ \/ rpc'[w].produced = NoRow /\ UNCHANGED <<replicas, generation>>
           \/ \E L : Increments(w, L)
    BY IncrementEffect
  <2>3. AppliedNext(w) /\ \A s \in Storages : DiskKept(s)
    BY <2>1, <2>2, <1>SameDisk DEF AppliedNext
  <2>4. CASE rpc'[w].produced = NoRow /\ UNCHANGED <<replicas, generation>>
    BY <2>1, <2>2, <2>3, <2>4, <1>RpcGenSide DEF Recorded
  <2>5. ASSUME NEW L, Increments(w, L), slips' \cap Races = {}
        PROVE  GenerationInv'
    <3>1. GenerationInv /\ StoreInv
      BY <2>1, <2>5 DEF Inv, ReplicationInv
    <3>2. /\ L \subseteq Consistent /\ generation' = generation + 1
          /\ replicas' = [s \in Storages |-> IF s \in L THEN generation + 1 ELSE replicas[s]]
          /\ rpc'[w].produced = generation + 1 /\ rpc'[w].primary = rpc[w].primary /\ rpc'[w].applied = rpc[w].applied
          /\ rpc[w].primary \in rpc[w].applied => L \subseteq rpc[w].applied
          /\ L # {}
      BY <2>5 DEF Increments
    <3>3. generation \in Nat \cup {NoRow} /\ replicas \in [Storages -> Nat \cup {NoRow}]
      BY StoreSideNow DEF StoreSide, StoreTypes
    <3>4. generation # NoRow /\ generation \in Nat
      <4>1. generation # NoRow
        BY <3>2 DEF Consistent
      <4> QED
        BY SMT, <3>3, <4>1
    \* What was recorded before says the same; the new generation is above.
    <3>5. ASSUME NEW s \in Storages, NEW gen \in Nat \cup {NoRow}, gen <= generation, Holds(s, gen)
          PROVE  HoldsNext(s, gen)
      <4>1. ~(gen >= generation + 1)
        BY SMT, <3>4, <3>5 DEF NoRow
      <4>2. \A v \in Writes : v # w => rpc'[v] = rpc[v]
        BY <2>2 DEF RpcFrame
      <4> QED
        BY <2>1, <3>2, <3>5, <4>1, <4>2 DEF Holds, HoldsNext
    <3>6. ASSUME NEW s \in Storages
          PROVE  HoldsNext(s, replicas'[s])
      <4>1. Holds(s, replicas[s]) /\ replicas[s] \in Nat \cup {NoRow} /\ replicas[s] <= generation
        BY <3>1, <3>3 DEF GenerationInv, GenerationGuarantee, StoreInv
      <4>2. HoldsNext(s, replicas[s])
        BY <3>5, <4>1
      <4>3. CASE s \in L
        <5>1. replicas[s] = generation /\ replicas'[s] = generation + 1
          BY <3>2, <4>3 DEF Consistent
        <5>2. ASSUME NEW v \in Writes, v # w, rpc'[v].produced # NoRow, rpc'[v].primary \in rpc'[v].applied
              PROVE  disk'[s] = {} \/ v \in disk'[s]
          <6>1. rpc'[v] = rpc[v]
            BY <2>2, <5>2 DEF RpcFrame
          \* An earlier write's generation is not above the present one.
          <6>2. rpc[v].produced <= generation
            BY <3>1, <3>4 DEF GenerationInv
          <6>3. replicas[s] >= rpc'[v].produced
            <7>1. rpc[v].produced \in Nat \cup {NoRow}
              BY RpcNow
            <7> QED
              BY SMT, <3>4, <5>1, <6>1, <6>2, <7>1 DEF NoRow
          <6> QED
            BY <4>2, <5>2, <6>3 DEF HoldsNext
        <5>3. rpc'[w].primary \in rpc'[w].applied => disk'[s] = {} \/ w \in disk'[s]
          BY <2>1, <2>2, <3>1, <3>2, <4>3 DEF GenerationInv
        <5> QED
          BY <5>2, <5>3 DEF HoldsNext
      <4>4. CASE s \notin L
        BY <3>2, <4>2, <4>4
      <4> QED
        BY <4>3, <4>4
    <3>7. ASSUME NEW k \in Workers
          PROVE  Copies(k)'
      <4>1. /\ Copies(k) /\ Fits(k) /\ worker[k].gen \in Nat \cup {NoRow} /\ worker[k].gen <= generation
            /\ worker'[k] = worker[k] /\ Job(k)' = Job(k)
        BY <2>1, <3>1, <3>4, Working, SameWorker DEF GenerationInv, StoreInv
      <4>2. worker[k].at \in {"copy", "set"} =>
              /\ Job(k).target \in Storages
              /\ worker[k].at = "copy" => Job(k).source \in Storages
        BY <4>1, Working DEF Fits, Stages
      <4>3. /\ worker[k].at = "copy" => HoldsNext(Job(k).source, worker[k].gen)
            /\ worker[k].at = "set" => HoldsNext(Job(k).target, worker[k].gen)
        BY <3>5, <4>1, <4>2 DEF Copies
      <4> QED
        BY <4>1, <4>3 DEF Copies, Holds, HoldsNext
    <3>8. \A v \in Writes : AppliedNext(v)
      BY <2>2, <2>3, <3>1, <1>SameApplied DEF RpcFrame
    <3>9. ASSUME NEW v \in Writes
          PROVE  rpc'[v].produced <= generation'
      <4>1. CASE v = w
        BY SMT, <3>2, <3>4, <4>1
      <4>2. CASE v # w
        <5>1. rpc'[v] = rpc[v] /\ rpc[v].produced <= generation /\ rpc[v].produced \in Nat \cup {NoRow}
          BY <2>2, <3>1, <3>4, <4>2, RpcNow DEF RpcFrame, GenerationInv
        <5> QED
          BY SMT, <3>2, <3>4, <5>1 DEF NoRow
      <4> QED
        BY SMT, <4>1, <4>2
    <3> QED
      BY <3>6, <3>7, <3>8, <3>9, <1>GenerationNext
  <2> QED
    BY <2>2, <2>4, <2>5 DEF GenSide

<1>SameRecorded.
  ASSUME rpc' = rpc
  PROVE  /\ rpc' \in [Writes -> RPCs] /\ \A w \in Writes : Recorded(w)
         /\ GenerationInv /\ (\A s \in Storages : DiskKept(s)) => \A w \in Writes : AppliedNext(w)
  <2> USE <1>SameRecorded
  <2>1. rpc' \in [Writes -> RPCs] /\ \A w \in Writes : Recorded(w)
    BY StoreSideNow DEF StoreSide, StoreTypes, Recorded
  <2> QED
    BY <2>1, <1>SameApplied

<1>BatchGenSide.
  ASSUME NEW k \in Workers,
         (\E t \in Storages : Dequeue(k, t)) \/ (\E state \in EndStates : Acknowledge(k, state)) \/ WorkerDies(k)
  PROVE  GenSide'
  <2> USE <1>BatchGenSide
  <2>1. /\ Others(k) /\ worker'[k].at \notin Stages \ {"event"} /\ UNCHANGED <<generation, replicas, disk, rpc, slips>>
    BY BatchEffect
  <2>2. Steady(k)
    BY SMT, <2>1 DEF Steady, Stages
  <2>3. \A o \in Workers : Steady(o)
    BY <2>1, <2>2, <1>SameSteady DEF Others
  <2>4. \A s \in Storages : DiskKept(s)
    BY <2>1, <1>SameDisk
  <2> QED
    BY <2>1, <2>3, <2>4, <1>SameRecorded, <1>SameRises, <1>GenFrame

<1>OutsideGenSide.
  ASSUME \/ (\E rows : AcknowledgeStale(rows)) \/ reconcile
         \/ (\E f \in Resizes : SetReplicationFactor(f))
         \/ \E s \in Storages : Unhealthy(s) \/ Healthy(s) \/ RepositoryLost(s)
  PROVE  GenSide'
  <2> USE <1>OutsideGenSide
  <2>1. slips \subseteq slips' /\ UNCHANGED <<generation, replicas, primary, rpc, worker>>
    BY OutsideEffect
  <2>2. disk' = disk \/ \E s \in Storages : disk' = [disk EXCEPT ![s] = {}]
    BY DEF AcknowledgeStale, reconcile, SetReplicationFactor, Unhealthy, Healthy, RepositoryLost
  <2>3. \A s \in Storages : disk'[s] \in {disk[s], {}}
    BY <2>2, StoreSideNow DEF StoreSide, StoreTypes
  <2>4. \A s \in Storages : DiskKept(s)
    BY <2>3, <1>SameDisk DEF DiskKept
  <2>5. \A o \in Workers : Steady(o)
    BY <2>1, <1>SameSteady
  <2> QED
    BY <2>1, <2>4, <2>5, <1>SameRecorded, <1>SameRises, <1>GenFrame

<1>WorkerGenFrame.
  ASSUME NEW k \in Workers, WorkerStep(k), Others(k), Steady(k), StoreRises,
         \A s \in Storages : DiskKept(s), \A s \in Storages : replicas'[s] \in {replicas[s], NoRow}
  PROVE  GenSide'
  <2> USE <1>WorkerGenFrame
  <2>1. rpc' = rpc /\ slips \subseteq slips'
    BY WorkerTypes
  <2>2. \A o \in Workers : Steady(o)
    BY <1>SameSteady DEF Others
  <2> QED
    BY <2>1, <2>2, <1>SameRecorded, <1>GenFrame

<1>EndedSteady.
  ASSUME NEW k \in Workers, worker[k].at \in Stages,
         handleNodeEventFails(k) \/ Ends(k, "completed") \/ \E state : Ended(k, state)
  PROVE  Steady(k) /\ Others(k)
  <2> USE <1>EndedSteady
  <2>1. \E state : Ended(k, state)
    BY FailsEffect, StepEffect
  <2>2. worker'[k].at \in {"ack", "event"} /\ Others(k)
    BY <2>1 DEF Ended
  <2>3. worker'[k].at \notin {"copy", "set"}
    BY SMT, <2>2
  <2> QED
    BY <2>2, <2>3 DEF Steady

<1>WentSteady.
  ASSUME NEW k \in Workers, NEW stage \in {"remove", "drop", "invalid"}, NEW gen, Went(k, stage, gen)
  PROVE  Steady(k) /\ Others(k)
  <2> USE <1>WentSteady
  <2>1. worker'[k].at \notin {"copy", "set"}
    BY SMT DEF Went
  <2> QED
    BY <2>1 DEF Steady, Went

<1>StartEventGenSide.
  ASSUME NEW k \in Workers, StartEvent(k)
  PROVE  GenSide'
  <2> USE <1>StartEventGenSide
  <2>1. /\ UNCHANGED <<generation, replicas, disk, slips, rpc>> /\ worker[k].at \in Stages /\ WorkerStep(k)
    BY StartEventEffect, StageIs, WorkerTypes DEF WorkerStep
  <2>2. StoreRises /\ \A s \in Storages : DiskKept(s)
    BY <2>1, <1>SameRises, <1>SameDisk
  <2>3. CASE handleNodeEventFails(k) \/ Ends(k, "completed")
    BY <2>1, <2>2, <2>3, <1>EndedSteady, <1>WorkerGenFrame
  <2>4. CASE Went(k, "remove", NoRow)
    BY <2>1, <2>2, <2>4, <1>WentSteady, <1>WorkerGenFrame
  <2>5. ASSUME Begins(k), slips' \cap Races = {}
        PROVE  GenerationInv'
    <3>1. Went(k, "copy", replicas[Job(k).source]) /\ Job(k).change = "update"
      BY <2>5 DEF Begins
    <3>2. Job(k)' = Job(k) /\ worker'[k].at = "copy" /\ worker'[k].gen = replicas[Job(k).source] /\ Others(k)
      BY <3>1, WentSame DEF Went
    <3>3. Job(k).source \in Storages /\ GenerationInv
      BY <2>1, <2>5, <3>1, Working DEF Inv, ReplicationInv
    <3>4. HoldsNext(Job(k).source, replicas[Job(k).source])
      BY <2>1, <2>2, <3>3, <1>SameRecorded, <1>HoldsKept DEF GenerationInv, GenerationGuarantee
    <3>5. "copy" # "set"
      BY SMT
    <3>6. Copies(k)'
      BY <3>2, <3>4, <3>5 DEF Copies, Holds, HoldsNext
    <3>7. \A o \in Workers : Copies(o)'
      BY <2>1, <2>2, <3>2, <3>3, <3>6, <1>SameRecorded, <1>SameSteady, <1>CopiesKept DEF Others
    <3>8. \A s \in Storages : HoldsNext(s, replicas'[s])
      BY <2>1, <2>2, <3>3, <1>SameRecorded, <1>GuaranteeKept
    <3> QED
      BY <2>1, <2>2, <3>3, <3>7, <3>8, <1>SameRecorded, <1>ProducedKept, <1>GenerationNext
  <2> QED
    BY <2>1, <2>3, <2>4, <2>5, StartEventEffect DEF GenSide

<1>SetGenerationGenSide.
  ASSUME NEW k \in Workers, SetGeneration(k)
  PROVE  GenSide'
  <2> USE <1>SetGenerationGenSide
  <2>1. /\ UNCHANGED <<generation, disk, slips, rpc>> /\ worker[k].at = "set" /\ worker[k].at \in Stages /\ WorkerStep(k)
        /\ Job(k).target \in Storages /\ Ended(k, "completed")
        /\ IF generation = NoRow THEN UNCHANGED replicas
           ELSE replicas' = [replicas EXCEPT ![Job(k).target] = worker[k].gen]
    BY SetGenerationEffect, WorkerTypes
  <2>2. StoreRises /\ (\A s \in Storages : DiskKept(s)) /\ Steady(k) /\ Others(k)
    BY <2>1, <1>SameRises, <1>SameDisk, <1>EndedSteady
  <2>3. CASE UNCHANGED replicas
    BY <2>1, <2>2, <2>3, <1>WorkerGenFrame
  <2>4. ASSUME replicas' = [replicas EXCEPT ![Job(k).target] = worker[k].gen], slips' \cap Races = {}
        PROVE  GenerationInv'
    <3>1. GenerationInv /\ replicas \in [Storages -> Nat \cup {NoRow}]
      BY <2>1, <2>4, StoreSideNow DEF Inv, ReplicationInv, StoreSide, StoreTypes
    <3>2. replicas'[Job(k).target] = worker[k].gen /\ \A s \in Storages : s # Job(k).target => replicas'[s] = replicas[s]
      BY <2>1, <2>4, <3>1
    <3>3. HoldsNext(Job(k).target, worker[k].gen)
      BY <2>1, <2>2, <3>1, <1>SameRecorded, <1>HoldsKept DEF GenerationInv, Copies
    <3>4. \A s \in Storages : HoldsNext(s, replicas'[s])
      BY <2>1, <2>2, <3>1, <3>2, <3>3, <1>SameRecorded, <1>GuaranteeKept
    <3>5. \A o \in Workers : Copies(o)'
      BY <2>1, <2>2, <3>1, <1>SameRecorded, <1>SameSteady, <1>CopiesKept DEF Others
    <3> QED
      BY <2>1, <2>2, <3>1, <3>4, <3>5, <1>SameRecorded, <1>ProducedKept, <1>GenerationNext
  <2> QED
    BY <2>1, <2>3, <2>4 DEF GenSide

\* A copy makes the target what the generation read of the source says, and takes
\* nothing from an RPC or from another worker unless one of the races is noted.
<1>CopySlipsMean.
  ASSUME NEW k \in Workers, CopySlips(k) \cap Races = {}
  PROVE  /\ \A w \in Writes : rpc[w].at = "commit" => Job(k).target \notin Used(w)
         /\ \A o \in Workers : o # k /\ worker[o].at = "copy" /\ Job(o).source = Job(k).target
                                 => ~(worker[o].gen > worker[k].gen)
  <2> USE <1>CopySlipsMean
  <2>1. "crossed" \notin CopySlips(k) /\ "replaced" \notin CopySlips(k)
    BY DEF Races
  <2> QED
    BY <2>1 DEF CopySlips

<1>CopiesToGenSide.
  ASSUME NEW k \in Workers, ReplicateRepository(k), CopiesTo(k), slips' \cap Races = {}
  PROVE  GenerationInv'
  <2> USE <1>CopiesToGenSide
  <2> DEFINE t == Job(k).target
             s == Job(k).source
  <2>1. /\ worker[k].at = "copy" /\ worker[k].at \in Stages /\ UNCHANGED <<generation, replicas, rpc>>
        /\ Job(k).change = "update" /\ WorkerStep(k)
    BY ReplicateEffect, WorkerTypes
  <2>2. /\ disk[s] # {} /\ disk' = [disk EXCEPT ![t] = disk[s]] /\ slips' = slips \cup CopySlips(k)
    BY DEF CopiesTo
  <2>3. GenerationInv /\ HeldInv /\ Behind(k) /\ CopySlips(k) \cap Races = {}
    <3>1. slips \cap Races = {} /\ CopySlips(k) \cap Races = {} /\ "stale" \in Races
      BY <2>2 DEF Races
    <3>2. "stale" \notin slips
      BY <3>1
    <3> QED
      BY <3>1, <3>2 DEF Inv, ReplicationInv
  <2>4. /\ t \in Storages /\ s \in Storages /\ worker[k].gen \in Nat \cup {NoRow} /\ generation \in Nat \cup {NoRow}
        /\ replicas \in [Storages -> Nat \cup {NoRow}] /\ disk \in [Storages -> SUBSET (Writes \cup {Created})]
    BY <2>1, Working, StoreSideNow DEF StoreSide, StoreTypes
  <2>5. disk'[t] = disk[s] /\ \A x \in Storages : x # t => disk'[x] = disk[x] /\ DiskKept(x)
    BY <2>2, <2>4, <1>SameDisk
  <2>6. rpc' \in [Writes -> RPCs] /\ \A w \in Writes : Recorded(w)
    BY <2>1, <1>SameRecorded
  <2>7. /\ \A w \in Writes : rpc[w].at = "commit" => t \notin Used(w)
        /\ \A o \in Workers : o # k /\ worker[o].at = "copy" /\ Job(o).source = t
                                   => ~(worker[o].gen > worker[k].gen)
    BY <2>3, <1>CopySlipsMean
  <2>8. HoldsNext(t, worker[k].gen)
    <3>1. Holds(s, worker[k].gen)
      BY <2>1, <2>3 DEF GenerationInv, Copies
    <3> HIDE DEF t, s
    <3> QED
      BY <2>1, <2>2, <2>5, <3>1 DEF Holds, HoldsNext
  <2> HIDE DEF t, s
  <2>9. HoldsNext(t, replicas[t])
    <3>1. replicas[t] \in Nat \cup {NoRow} /\ replicas[t] <= generation
      BY <2>4 DEF Inv, ReplicationInv, StoreInv
    <3>2. CASE generation = NoRow
      <4>1. replicas[t] = NoRow
        BY SMT, <3>1, <3>2 DEF NoRow
      <4> QED
        BY <2>6, <4>1, <1>HoldsNothing
    <3>3. CASE generation # NoRow
      <4>1. replicas[t] <= worker[k].gen
        BY <2>1, <2>3, <3>3 DEF Behind, t
      <4> QED
        BY <2>4, <2>6, <2>8, <3>1, <4>1, <1>HoldsLess
    <3> QED
      BY <3>2, <3>3
  <2>10. \A x \in Storages : HoldsNext(x, replicas'[x])
    <3>1. \A x \in Storages : x # t => HoldsNext(x, replicas'[x])
      BY <2>1, <2>3, <2>5, <2>6, <1>GuaranteeKept
    <3> QED
      BY <2>1, <2>9, <3>1
  <2>11. Copies(k)' /\ Others(k)
    <3>1. CASE Ended(k, "completed")
      <4>1. worker'[k].at \in {"ack", "event"} /\ Others(k)
        BY <3>1 DEF Ended
      <4>2. worker'[k].at # "copy" /\ worker'[k].at # "set"
        BY SMT, <4>1
      <4> QED
        BY <4>1, <4>2 DEF Copies
    <3>2. CASE Went(k, "set", worker[k].gen)
      <4>1. Job(k)' = Job(k) /\ worker'[k].at = "set" /\ worker'[k].gen = worker[k].gen /\ Others(k)
        BY <3>2, WentSame DEF Went
      <4>2. worker'[k].at # "copy"
        BY SMT, <4>1
      <4> QED
        BY <2>8, <4>1, <4>2 DEF Copies, Holds, HoldsNext, t
    <3> QED
      BY <3>1, <3>2 DEF CopiesTo
  <2>12. ASSUME NEW o \in Workers, o # k
         PROVE  Copies(o)'
    <3>1. /\ worker'[o] = worker[o] /\ Job(o)' = Job(o) /\ Copies(o) /\ Fits(o) /\ worker[o].gen \in Nat \cup {NoRow}
      BY <2>3, <2>11, <2>12, SameWorker, Working DEF Others, GenerationInv
    <3>2. worker[o].at = "copy" => HoldsNext(Job(o).source, worker[o].gen)
      <4>1. SUFFICES ASSUME worker[o].at = "copy" PROVE HoldsNext(Job(o).source, worker[o].gen)
        BY SMT
      <4>2. worker[o].at \in Stages /\ Job(o).change = "update"
        BY <3>1, <4>1 DEF Fits, Stages
      <4>3. Job(o).source \in Storages
        BY <4>2, Working
      <4>4. CASE Job(o).source # t
        BY <2>5, <2>6, <3>1, <4>1, <4>3, <4>4, <1>HoldsKept DEF Copies
      <4>5. CASE Job(o).source = t
        <5>1. ~(worker[o].gen > worker[k].gen)
          BY <2>7, <2>12, <4>1, <4>5
        <5>2. worker[o].gen <= worker[k].gen
          BY SMT, <2>4, <3>1, <5>1 DEF NoRow
        <5> QED
          BY <2>4, <2>6, <2>8, <3>1, <4>5, <5>2, <1>HoldsLess
      <4> QED
        BY <4>4, <4>5
    <3>3. worker[o].at = "set" => HoldsNext(Job(o).target, worker[o].gen)
      <4>1. SUFFICES ASSUME worker[o].at = "set" PROVE HoldsNext(Job(o).target, worker[o].gen)
        BY SMT
      <4>2. worker[o].at \in Stages
        BY <4>1 DEF Stages
      <4>3. Job(o).target \in Storages /\ Job(o) \in HeldBy(o) /\ Job(k) \in HeldBy(k)
        BY <2>1, <4>2, Working
      <4>4. Job(o).target # t
        BY <2>3, <2>12, <4>3 DEF HeldInv, t
      <4> QED
        BY <2>5, <2>6, <3>1, <4>1, <4>3, <4>4, <1>HoldsKept DEF Copies
    <3> QED
      BY <3>1, <3>2, <3>3 DEF Copies, Holds, HoldsNext
  <2>13. ASSUME NEW w \in Writes
         PROVE  AppliedNext(w)
    <3> SUFFICES ASSUME rpc[w].at = "commit", NEW x \in rpc[w].applied
                 PROVE  disk'[x] = {} \/ w \in disk'[x]
      BY <2>1 DEF AppliedNext
    <3>1. x \in Storages /\ x \in Used(w)
      BY RpcNow DEF Finalizes
    <3>2. x # t
      BY <2>7, <3>1
    <3> QED
      BY <2>3, <2>5, <3>1, <3>2 DEF GenerationInv
  <2> QED
    BY <2>1, <2>3, <2>6, <2>10, <2>11, <2>12, <2>13, <1>SameRises, <1>ProducedKept, <1>GenerationNext

<1>ReplicateGenSide.
  ASSUME NEW k \in Workers, ReplicateRepository(k)
  PROVE  GenSide'
  <2> USE <1>ReplicateGenSide
  <2>1. /\ UNCHANGED <<generation, replicas>> /\ WorkerStep(k)
    BY ReplicateEffect
  <2>2. CASE CopiesTo(k)
    BY <2>2, <1>CopiesToGenSide DEF GenSide
  <2>3. CASE UNCHANGED <<disk, slips>> /\ Went(k, "invalid", worker[k].gen)
    BY <2>1, <2>3, <1>SameRises, <1>SameDisk, <1>WentSteady, <1>WorkerGenFrame
  <2> QED
    BY <2>2, <2>3, ReplicateEffect

<1>WorkerStepGenSide.
  ASSUME NEW k \in Workers, WorkerStep(k)
  PROVE  GenSide'
  <2> USE <1>WorkerStepGenSide
  <2>1. CASE DeleteInvalidRepository(k) \/ DeleteReplica(k)
    <3>1. /\ UNCHANGED disk /\ worker[k].at \in Stages /\ Ended(k, "completed") /\ \E s : Lowers(s)
      BY <2>1, DeletesEffect
    <3>3. PICK s : Lowers(s)
      BY <3>1
    <3>4. StoreRises /\ \A o \in Storages : replicas'[o] \in {replicas[o], NoRow}
      BY <3>3, LowersEffect
    <3> QED
      BY <3>1, <3>4, <1>SameDisk, <1>EndedSteady, <1>WorkerGenFrame
  <2>2. CASE RemoveRepository(k)
    <3>1. UNCHANGED <<generation, replicas>> /\ worker[k].at \in Stages
      BY <2>2, RemoveEffect
    <3>2. CASE handleNodeEventFails(k) /\ UNCHANGED disk
      BY <3>1, <3>2, <1>SameRises, <1>SameDisk, <1>EndedSteady, <1>WorkerGenFrame
    <3>3. CASE disk' = [disk EXCEPT ![Job(k).target] = {}] /\ Went(k, "drop", NoRow)
      <4>1. \A s \in Storages : disk'[s] \in {disk[s], {}}
        BY <3>3, StoreSideNow DEF StoreSide, StoreTypes
      <4>2. \A s \in Storages : DiskKept(s)
        BY <4>1, <1>SameDisk DEF DiskKept
      <4> QED
        BY <3>1, <3>3, <4>2, <1>SameRises, <1>WentSteady, <1>WorkerGenFrame
    <3> QED
      BY <2>2, <3>2, <3>3, RemoveEffect
  <2>3. CASE EventFails(k)
    <3>1. worker[k].at \in Stages /\ handleNodeEventFails(k) /\ UNCHANGED <<generation, replicas, disk>>
      BY <2>3, StageIs DEF EventFails, store
    <3> QED
      BY <3>1, <1>SameRises, <1>SameDisk, <1>EndedSteady, <1>WorkerGenFrame
  <2> QED
    BY <2>1, <2>2, <2>3, <1>StartEventGenSide, <1>ReplicateGenSide, <1>SetGenerationGenSide DEF WorkerStep
<1>1. ASSUME NEW k \in Workers, ProcessBacklog(k) \/ EventFails(k) \/ WorkerDies(k)
      PROVE  GenSide'
  BY <1>1, <1>WorkerStepGenSide, <1>BatchGenSide DEF ProcessBacklog, WorkerStep, EndStates
<1>2. ASSUME NEW w \in Writes, Mutator(w) \/ FinalizerLost(w)
      PROVE  GenSide'
  BY <1>2, <1>RoutingGenSide, <1>CommitGenSide, <1>IncrementGenSide DEF Mutator
<1>3. ASSUME UNCHANGED vars
      PROVE  GenSide'
  <2>1. UNCHANGED <<generation, replicas, disk, rpc, worker, slips>>
    BY <1>3 DEF vars
  <2> QED
    BY <2>1 DEF Inv, ReplicationInv, GenSide, GenerationInv, GenerationGuarantee, Holds, Copies, Job
<1> QED
  BY <1>1, <1>2, <1>3, <1>OutsideGenSide DEF Next

---------------------------------------------------------------------------
(* The latest generation is kept.                                          *)

KeptSide == slips \cap Losses = {} => KeptInv

EmptyKept(s) == disk'[s] = {} <=> disk[s] = {}

StageKept(k) ==
  /\ worker'[k].at = "invalid" => worker[k].at = "invalid" /\ Job(k)' = Job(k)
  /\ worker'[k].at = "set" => worker[k].at = "set" /\ Job(k)' = Job(k)

DoneKept(k) ==
  \A e \in worker'[k].done : e \in worker[k].done \/ e.change # "delete_replica" \/ e.state = "failed"

UsedKept(w) ==
  rpc'[w].at \in {"vote", "commit"} =>
     (rpc[w].at \in {"vote", "commit"} /\ Used(w)' \subseteq Used(w)) \/ DeleteTargets \cap Used(w)' = {}

\* The deletions a worker has completed.
DoneKeeps(k) ==
  \A e \in worker'[k].done :
     e.change = "delete_replica" /\ e.state # "failed" /\ disk'[e.target] = {} => replicas'[e.target] = NoRow

\* The latest generation survives every step without a loss.
LEMMA KeptStep ==
  ASSUME Inv, [Next]_vars
  PROVE  KeptSide'

<1>SameTargets.
  ASSUME queue' = queue
  PROVE  DeleteTargets' = DeleteTargets
    BY <1>SameTargets DEF DeleteTargets

<1>DoneNext.
  ASSUME NEW k \in Workers, Keeps(k), DoneKept(k),
         \A e \in worker[k].done : e.change = "delete_replica" /\ disk'[e.target] = {}
            => disk[e.target] = {} /\ (replicas[e.target] = NoRow => replicas'[e.target] = NoRow)
  PROVE  DoneKeeps(k)
  <2> USE <1>DoneNext
  <2>1. ASSUME NEW e \in worker'[k].done, e.change = "delete_replica", e.state # "failed", disk'[e.target] = {}
        PROVE  replicas'[e.target] = NoRow
    <3>1. e \in worker[k].done
      BY <2>1 DEF DoneKept
    <3>2. disk[e.target] = {} /\ (replicas[e.target] = NoRow => replicas'[e.target] = NoRow)
      BY <2>1, <3>1
    <3> QED
      BY <2>1, <3>1, <3>2 DEF Keeps
  <2> QED
    BY <2>1 DEF DoneKeeps

<1>KeepsKept.
  ASSUME NEW k \in Workers, Keeps(k), StageKept(k), DoneKeeps(k),
         worker[k].at = "invalid" /\ disk[Job(k).source] = {} => disk'[Job(k).source] = {},
         worker[k].at = "set" /\ disk[Job(k).target] # {} => disk'[Job(k).target] # {}
  PROVE  Keeps(k)'
  <2> USE <1>KeepsKept
  <2>1. worker'[k].at = "invalid" => disk'[Job(k)'.source] = {}
    BY DEF Keeps, StageKept
  <2>2. worker'[k].at = "set" => disk'[Job(k)'.target] # {}
    BY DEF Keeps, StageKept
  <2> QED
    BY <2>1, <2>2 DEF Keeps, DoneKeeps

\* The storages the jobs of a worker are about.
<1>JobStorages.
  ASSUME NEW k \in Workers
  PROVE  /\ worker[k].at = "invalid" => Job(k).source \in Storages
         /\ worker[k].at = "set" => Job(k).target \in Storages
         /\ \A e \in worker[k].done : e.target \in Storages
  <2> USE <1>JobStorages
  <2>1. Fits(k) /\ worker[k].done \subseteq Jobs
    BY Working
  <2>2. \A e \in Jobs : e.target \in Storages
    BY SMT DEF Jobs
  <2>3. worker[k].at = "invalid" => worker[k].at \in Stages /\ Job(k).change = "update"
    BY <2>1 DEF Fits, Stages
  <2>4. worker[k].at = "set" => worker[k].at \in Stages
    BY DEF Stages
  <2> QED
    BY <2>1, <2>2, <2>3, <2>4, Working

<1>EmptyKeeps.
  ASSUME KeptInv, NEW k \in Workers, StageKept(k), DoneKept(k), \A s \in Storages : EmptyKept(s),
         \A s \in Storages : disk[s] = {} /\ replicas[s] = NoRow => replicas'[s] = NoRow
  PROVE  Keeps(k)'
  <2> USE <1>EmptyKeeps
  <2>1. Keeps(k)
    BY DEF KeptInv
  <2>2. worker[k].at = "invalid" /\ disk[Job(k).source] = {} => disk'[Job(k).source] = {}
    BY <1>JobStorages DEF EmptyKept
  <2>3. worker[k].at = "set" /\ disk[Job(k).target] # {} => disk'[Job(k).target] # {}
    BY <1>JobStorages DEF EmptyKept
  <2>4. \A e \in worker[k].done : e.change = "delete_replica" /\ disk'[e.target] = {}
              => disk[e.target] = {} /\ (replicas[e.target] = NoRow => replicas'[e.target] = NoRow)
    BY <1>JobStorages DEF EmptyKept
  <2> QED
    BY <2>1, <2>2, <2>3, <2>4, <1>DoneNext, <1>KeepsKept

<1>UsedNext.
  ASSUME KeptInv, NEW w \in Writes, UsedKept(w), DeleteTargets' \subseteq DeleteTargets
  PROVE  rpc'[w].at \in {"vote", "commit"} => DeleteTargets' \cap Used(w)' = {}
  <2> USE <1>UsedNext
  <2> SUFFICES ASSUME rpc'[w].at \in {"vote", "commit"}
               PROVE  DeleteTargets' \cap Used(w)' = {}
    OBVIOUS
  <2>1. CASE rpc[w].at \in {"vote", "commit"} /\ Used(w)' \subseteq Used(w)
    BY <2>1 DEF KeptInv
  <2>2. CASE DeleteTargets \cap Used(w)' = {}
    BY <2>2
  <2> QED
    BY <2>1, <2>2 DEF UsedKept

<1>KeptNext.
  ASSUME generation' # NoRow => Consistent' # {} /\ \A t \in DeleteTargets' : Consistent' \ {t} # {},
         \A w \in Writes : rpc'[w].at \in {"vote", "commit"} => DeleteTargets' \cap Used(w)' = {},
         \A s \in Storages : disk'[s] = {} => s \in DeleteTargets' \/ replicas'[s] = NoRow,
         \A k \in Workers : Keeps(k)'
  PROVE  KeptInv'
    BY <1>KeptNext DEF KeptInv

<1>KeptFrame.
  ASSUME slips \subseteq slips', UNCHANGED <<generation, replicas>>, \A s \in Storages : EmptyKept(s),
         \A k \in Workers : StageKept(k) /\ DoneKept(k),
         slips' \cap Losses = {} => DeleteTargets' = DeleteTargets /\ \A w \in Writes : UsedKept(w)
  PROVE  KeptSide'
  <2> USE <1>KeptFrame
  <2> SUFFICES ASSUME slips' \cap Losses = {}
               PROVE  KeptInv'
    BY DEF KeptSide
  <2>1. KeptInv
    BY DEF Inv, ReplicationInv
  <2>2. Consistent' = Consistent
    BY DEF Consistent
  <2>3. \A k \in Workers : Keeps(k)'
    BY <2>1, <1>EmptyKeeps
  <2>4. \A w \in Writes : rpc'[w].at \in {"vote", "commit"} => DeleteTargets' \cap Used(w)' = {}
    BY <2>1, <1>UsedNext
  <2>5. generation' # NoRow => Consistent' # {} /\ \A t \in DeleteTargets' : Consistent' \ {t} # {}
    BY <2>1, <2>2 DEF KeptInv
  <2>6. \A s \in Storages : disk'[s] = {} => s \in DeleteTargets' \/ replicas'[s] = NoRow
    BY <2>1 DEF KeptInv, EmptyKept
  <2> QED
    BY <2>3, <2>4, <2>5, <2>6, <1>KeptNext

<1>SameStage.
  ASSUME NEW o \in Workers, worker'[o] = worker[o]
  PROVE  StageKept(o) /\ DoneKept(o)
  <2> USE <1>SameStage
  <2>1. StageKept(o)
    BY SameWorker DEF StageKept
  <2>2. DoneKept(o)
    BY DEF DoneKept
  <2> QED
    BY <2>1, <2>2

<1>SameUsed.
  ASSUME NEW w \in Writes, rpc'[w] = rpc[w]
  PROVE  UsedKept(w)
  <2> USE <1>SameUsed
  <2>1. Used(w)' = Used(w)
    BY DEF Used
  <2> QED
    BY <2>1 DEF UsedKept

<1>RpcKeptSide.
  ASSUME NEW w \in Writes, RpcFrame(w), UNCHANGED <<generation, replicas, worker>>, slips \subseteq slips',
         \A s \in Storages : EmptyKept(s), DeleteTargets' = DeleteTargets,
         slips' \cap Losses = {} => UsedKept(w)
  PROVE  KeptSide'
  <2> USE <1>RpcKeptSide
  <2>1. \A v \in Writes : v # w => UsedKept(v)
    BY <1>SameUsed DEF RpcFrame
  <2>2. \A k \in Workers : StageKept(k) /\ DoneKept(k)
    BY <1>SameStage
  <2> QED
    BY <2>1, <2>2, <1>KeptFrame

<1>SameEmpty.
  ASSUME NEW s, disk'[s] = disk[s]
  PROVE  EmptyKept(s)
    BY <1>SameEmpty DEF EmptyKept

<1>RoutingKeptSide.
  ASSUME NEW w \in Writes,
         GetPrimary(w) \/ GetConsistentStorages(w) \/ GetHostAssignments(w) \/ Vote(w) \/ FinalizerLost(w)
  PROVE  KeptSide'
  <2> USE <1>RoutingKeptSide
  <2>1. /\ Quiet(w) /\ slips \subseteq slips' /\ (slips' \cap Losses = {} => UsedKept(w))
    <3>1. CASE GetPrimary(w)
      BY <3>1, GetPrimaryEffect DEF GetPrimary, UsedKept
    <3>2. CASE GetConsistentStorages(w)
      BY <3>2, GetConsistentStoragesEffect DEF GetConsistentStorages, UsedKept
    <3>3. CASE GetHostAssignments(w)
      <4>1. /\ Quiet(w) /\ rpc'[w].at # "commit" /\ slips \subseteq slips'
            /\ "dropped" \notin slips' /\ rpc'[w].at = "vote" => DeleteTargets \cap Used(w)' = {}
        BY <3>3, GetHostAssignmentsEffect
      <4>2. "dropped" \in Losses
        BY SMT DEF Losses
      <4> QED
        BY <4>1, <4>2 DEF UsedKept
    <3>4. CASE Vote(w)
      BY <3>4, VoteEffect DEF Vote, UsedKept
    <3>6. CASE FinalizerLost(w)
      BY <3>6, FinalizerLostEffect DEF FinalizerLost, UsedKept
    <3> QED
      BY <3>1, <3>2, <3>3, <3>4, <3>6
  <2>2. UNCHANGED <<generation, replicas, disk, worker, queue>>
    BY DEF GetPrimary, GetConsistentStorages, GetHostAssignments, Vote, FinalizerLost, store, jobs
  <2>3. \A s \in Storages : EmptyKept(s)
    BY <2>2, <1>SameEmpty
  <2> QED
    BY <2>1, <2>2, <2>3, <1>SameTargets, <1>RpcKeptSide DEF Quiet

<1>CommitKeptSide.
  ASSUME NEW w \in Writes, NEW s \in Storages, Commit(w, s)
  PROVE  KeptSide'
  <2> USE <1>CommitKeptSide
  <2>1. Quiet(w) /\ rpc'[w].at = rpc[w].at /\ Used(w)' = Used(w) /\ Committed(w, s)
    BY CommitEffect
  <2>2. /\ UNCHANGED <<generation, replicas, worker, slips, queue>>
        /\ disk \in [Storages -> SUBSET (Writes \cup {Created})]
    BY StoreSideNow DEF Commit, store, jobs, StoreSide, StoreTypes
  <2>3. \A t \in Storages : EmptyKept(t)
    <3>1. CASE disk' = disk
      BY <3>1, <1>SameEmpty
    <3>2. CASE disk[s] # {} /\ disk' = [disk EXCEPT ![s] = disk[s] \cup {w}]
      <4>1. disk'[s] = disk[s] \cup {w} /\ \A t \in Storages : t # s => disk'[t] = disk[t]
        BY <2>2, <3>2
      <4> QED
        BY <3>2, <4>1 DEF EmptyKept
    <3> QED
      BY <2>1, <3>1, <3>2 DEF Committed
  <2>4. UsedKept(w)
    BY <2>1 DEF UsedKept
  <2> QED
    BY <2>1, <2>2, <2>3, <2>4, <1>SameTargets, <1>RpcKeptSide DEF Quiet

<1>EnqueueKeptSide.
  ASSUME NEW w \in Writes, NEW s \in Storages, Enqueue(w, s)
  PROVE  KeptSide'
  <2> USE <1>EnqueueKeptSide
  <2>1. Quiet(w) /\ UsedKept(w)
    BY EnqueueEffect DEF UsedKept
  <2>2. UNCHANGED <<generation, replicas, worker, slips, disk>>
    BY DEF Enqueue, store
  <2>3. queue' = queue \/ queue' = queue \cup {NewJob("update", rpc[w].primary, s)}
    BY DEF Enqueue
  <2>4. NewJob("update", rpc[w].primary, s).change # "delete_replica"
    BY SMT DEF NewJob
  <2>5. DeleteTargets' = DeleteTargets
    BY <2>3, <2>4 DEF DeleteTargets
  <2>6. \A t \in Storages : EmptyKept(t)
    BY <2>2, <1>SameEmpty
  <2> QED
    BY <2>1, <2>2, <2>5, <2>6, <1>RpcKeptSide DEF Quiet

\* The storages at the new generation are used by the RPC: none of them is going
\* to be removed.
<1>IncrementKeptSide.
  ASSUME NEW w \in Writes, IncrementGeneration(w)
  PROVE  KeptSide'
  <2> USE <1>IncrementKeptSide
  <2>1. UNCHANGED <<disk, worker, slips, queue>>
    BY DEF IncrementGeneration, jobs
  <2>2. /\ RpcFrame(w) /\ UsedKept(w) /\ rpc[w].at = "commit"
        /\ \/ UNCHANGED <<replicas, generation>>
           \/ \E L : Increments(w, L)
    BY IncrementEffect DEF UsedKept
  <2>3. DeleteTargets' = DeleteTargets /\ \A s \in Storages : EmptyKept(s)
    BY <2>1, <1>SameTargets, <1>SameEmpty
  <2>4. CASE UNCHANGED <<replicas, generation>>
    BY <2>1, <2>2, <2>3, <2>4, <1>RpcKeptSide
  <2>5. ASSUME NEW L, Increments(w, L), slips' \cap Losses = {}
        PROVE  KeptInv'
    <3>1. KeptInv
      BY <2>1, <2>5 DEF Inv, ReplicationInv
    <3>2. /\ L # {} /\ L \subseteq Used(w) /\ L \subseteq Consistent /\ generation' = generation + 1
          /\ replicas' = [s \in Storages |-> IF s \in L THEN generation + 1 ELSE replicas[s]]
      BY <2>5 DEF Increments
    <3>3. generation # NoRow /\ \A s \in L : s \in Storages /\ replicas[s] # NoRow
      BY <3>2 DEF Consistent
    <3>4. generation \in Nat \cup {NoRow}
      BY StoreSideNow DEF StoreSide, StoreTypes
    <3>5. generation + 1 # NoRow
      BY SMT, <3>3, <3>4 DEF NoRow
    <3>6. L \subseteq Consistent'
      BY <3>2, <3>3, <3>5 DEF Consistent
    <3>7. L \cap DeleteTargets = {}
      BY <2>2, <3>1, <3>2 DEF KeptInv
    <3>8. Consistent' # {} /\ \A t \in DeleteTargets' : Consistent' \ {t} # {}
      <4>1. PICK s \in L : TRUE
        BY <3>2
      <4> QED
        BY <2>3, <3>6, <3>7, <4>1
    <3>9. \A s \in Storages : replicas[s] = NoRow => replicas'[s] = NoRow
      BY <3>2, <3>3
    <3>10. \A k \in Workers : Keeps(k)'
      BY <2>1, <2>3, <3>1, <3>9, <1>SameStage, <1>EmptyKeeps
    <3>11. \A v \in Writes : rpc'[v].at \in {"vote", "commit"} => DeleteTargets' \cap Used(v)' = {}
      BY <2>2, <2>3, <3>1, <1>SameUsed, <1>UsedNext DEF RpcFrame
    <3>12. \A s \in Storages : disk'[s] = {} => s \in DeleteTargets' \/ replicas'[s] = NoRow
      BY <2>3, <3>1, <3>9 DEF KeptInv, EmptyKept
    <3> QED
      BY <3>8, <3>10, <3>11, <3>12, <1>KeptNext
  <2> QED
    BY <2>2, <2>4, <2>5 DEF KeptSide

\* Steps of a worker between batches.
<1>BatchStage.
  ASSUME NEW k \in Workers, Others(k), worker'[k].at \notin Stages \ {"event"}, worker'[k].done \subseteq worker[k].done
  PROVE  \A o \in Workers : StageKept(o) /\ DoneKept(o)
  <2> USE <1>BatchStage
  <2>1. StageKept(k)
    BY SMT DEF StageKept, Stages
  <2>2. DoneKept(k)
    BY DEF DoneKept
  <2> QED
    BY <2>1, <2>2, <1>SameStage DEF Others

<1>DequeueKeptSide.
  ASSUME NEW k \in Workers, (\E t \in Storages : Dequeue(k, t)) \/ WorkerDies(k)
  PROVE  KeptSide'
  <2> USE <1>DequeueKeptSide
  <2>1. /\ Others(k) /\ worker'[k].at \notin Stages \ {"event"}
        /\ UNCHANGED <<generation, replicas, disk, rpc, slips>>
    BY BatchEffect
  <2>2. worker'[k].done = {}
    BY DequeueWorker, DiesWorker
  <2>3. DeleteTargets' = DeleteTargets
    <3>1. CASE WorkerDies(k)
      BY <3>1, <1>SameTargets DEF WorkerDies, jobs
    <3>2. ASSUME NEW t \in Storages, Dequeue(k, t)
          PROVE  DeleteTargets' = DeleteTargets
      <4> DEFINE free == {q \in queue : q.target = t /\ q.state \in {"ready", "failed"}}
                 C == {q \in free : \A o \in free : o.change = q.change => q.id <= o.id}
      <4>1. queue' = (queue \ C) \cup {Taken(q) : q \in C} /\ C \subseteq queue
        BY <3>2 DEF Dequeue
      <4> HIDE DEF C
      <4>2. \A q \in Jobs : Taken(q).target = q.target /\ Taken(q).change = q.change
        BY SMT DEF Taken, Jobs
      <4>3. queue \subseteq Jobs
        BY DEF Inv, ReplicationInv, TypeOK
      <4>4. \A q \in C : Taken(q).target = q.target /\ Taken(q).change = q.change
        BY <4>1, <4>2, <4>3
      <4>5. DeleteTargets' \subseteq DeleteTargets
        <5>1. ASSUME NEW p \in queue', p.change = "delete_replica"
              PROVE  \E q \in queue : q.change = "delete_replica" /\ q.target = p.target
          BY <4>1, <4>4, <5>1
        <5> QED
          BY <5>1 DEF DeleteTargets
      <4>6. ASSUME NEW q \in queue, q.change = "delete_replica"
            PROVE  \E p \in queue' : p.change = "delete_replica" /\ p.target = q.target
        <5>1. CASE q \in C
          BY <4>1, <4>4, <4>6, <5>1
        <5>2. CASE q \notin C
          BY <4>1, <4>6, <5>2
        <5> QED
          BY <5>1, <5>2
      <4>7. DeleteTargets \subseteq DeleteTargets'
        BY <4>6 DEF DeleteTargets
      <4> QED
        BY <4>5, <4>7
    <3> QED
      BY <3>1, <3>2
  <2>4. \A o \in Workers : StageKept(o) /\ DoneKept(o)
    BY <2>1, <2>2, <1>BatchStage
  <2>5. (\A s \in Storages : EmptyKept(s)) /\ \A w \in Writes : UsedKept(w)
    BY <2>1, <1>SameEmpty, <1>SameUsed
  <2> QED
    BY <2>1, <2>3, <2>4, <2>5, <1>KeptFrame

<1>OneDelete.
  /\ \A q, r \in queue : q.change = "delete_replica" /\ r.change = "delete_replica" => q = r
  /\ \A s, t \in DeleteTargets : s = t
  <2>1. \A q, r \in queue : q.change = "delete_replica" /\ r.change = "delete_replica" => q = r
    BY DEF Inv, ReplicationInv, QueueInv
  <2> QED
    BY <2>1 DEF DeleteTargets

\* A deletion leaves the queue once the row of the replica is gone.
<1>AcknowledgeKeptSide.
  ASSUME NEW k \in Workers, NEW state \in EndStates, Acknowledge(k, state)
  PROVE  KeptSide'
  <2> USE <1>AcknowledgeKeptSide
  <2> DEFINE acked == {e \in worker[k].done : e.state = state}
             existing == {q \in queue : q.state = "in_progress" /\ \E e \in acked : Row(e) = Row(q)}
             similar == {q \in queue : q.state = "ready" /\ \E e \in existing :
                           q.id < e.before /\ q.target = e.target /\ q.change = e.change /\ q.source = e.source}
             gone == (IF state = "failed" THEN {} ELSE existing) \cup (IF state = "completed" THEN similar ELSE {})
             kept == existing \ gone
  <2> SUFFICES ASSUME slips' \cap Losses = {}
               PROVE  KeptInv'
    BY DEF KeptSide
  <2>1. queue' = (queue \ (gone \cup kept)) \cup {WithState(q, state) : q \in kept}
    BY DEF Acknowledge
  <2>2. /\ Others(k) /\ worker'[k].at \notin Stages \ {"event"}
        /\ UNCHANGED <<generation, replicas, disk, rpc, slips>>
    BY BatchEffect
  <2>3. worker'[k].done \subseteq worker[k].done
    BY AcknowledgeWorker
  <2>4. KeptInv /\ HeldInv /\ QueueInv /\ queue \subseteq Jobs /\ worker[k].done \subseteq Jobs
    <3>1. "stale" \notin slips
      BY <2>2 DEF Losses
    <3> QED
      BY <2>2, <3>1, Working DEF Inv, ReplicationInv, TypeOK
  <2>5. kept \subseteq queue /\ gone \subseteq queue /\ existing \subseteq queue
    OBVIOUS
  <2>14. /\ \A q \in gone : q \in similar \/ (q \in existing /\ state # "failed")
         /\ \A q \in similar : q.state = "ready" /\ \E e \in existing : q.change = e.change
         /\ \A q \in existing : q.state = "in_progress" /\ \E e \in worker[k].done : e.state = state /\ Row(e) = Row(q)
    OBVIOUS
  <2> HIDE DEF gone, kept, existing, similar
  <2>6. \A q \in Jobs : WithState(q, state).target = q.target /\ WithState(q, state).change = q.change
    BY StateOnly
  <2>7. DeleteTargets' \subseteq DeleteTargets
    <3>1. ASSUME NEW p \in queue', p.change = "delete_replica"
          PROVE  \E q \in queue : q.change = "delete_replica" /\ q.target = p.target
      BY ZenonT(40), <2>1, <2>4, <2>5, <2>6, <3>1
    <3> QED
      BY <3>1 DEF DeleteTargets
  \* The deletions that leave the queue.
  <2>8. ASSUME NEW q \in gone, q.change = "delete_replica", disk[q.target] = {}
        PROVE  replicas[q.target] = NoRow
    <3>1. q \notin similar
      <4>1. SUFFICES ASSUME q \in similar PROVE FALSE
        OBVIOUS
      <4>2. PICK e \in existing : q.change = e.change
        BY <2>14, <4>1
      <4>3. q = e
        BY <2>5, <2>8, <4>2, <1>OneDelete
      <4>4. q.state = "ready" /\ e.state = "in_progress"
        BY <2>14, <4>1
      <4> QED
        BY SMT, <4>3, <4>4
    <3>2. q \in existing /\ state # "failed"
      BY <2>8, <2>14, <3>1
    <3>3. PICK e \in worker[k].done : e.state = state /\ Row(e) = Row(q)
      BY <2>14, <3>2
    <3>4. WithState(e, "in_progress") \in queue
      BY <2>4 DEF HeldInv, Owns
    <3>5. /\ Row(WithState(e, "in_progress")) = Row(e) /\ WithState(e, "in_progress").change = e.change
          /\ WithState(e, "in_progress").target = e.target
      BY <2>4, StateOnly
    <3>6. WithState(e, "in_progress") = q
      BY <2>4, <2>5, <3>2, <3>3, <3>4, <3>5 DEF QueueInv
    <3>7. e.change = "delete_replica" /\ e.target = q.target
      BY <2>8, <3>5, <3>6
    <3> QED
      BY <2>4, <2>8, <3>2, <3>3, <3>7 DEF KeptInv, Keeps
  <2>9. ASSUME NEW s \in Storages, disk'[s] = {}
        PROVE  s \in DeleteTargets' \/ replicas'[s] = NoRow
    <3>1. disk[s] = {} /\ (s \in DeleteTargets \/ replicas[s] = NoRow)
      BY <2>2, <2>4, <2>9 DEF KeptInv
    <3>2. ASSUME s \in DeleteTargets, replicas[s] # NoRow
          PROVE  s \in DeleteTargets'
      <4>1. PICK q \in queue : q.change = "delete_replica" /\ q.target = s
        BY <3>2 DEF DeleteTargets
      <4>2. q \notin gone
        BY <2>8, <3>1, <3>2, <4>1
      <4>3. \E p \in queue' : p.change = "delete_replica" /\ p.target = s
        <5>1. CASE q \in kept
          BY <2>1, <2>4, <2>6, <4>1, <5>1
        <5>2. CASE q \notin kept
          BY <2>1, <4>1, <4>2, <5>2
        <5> QED
          BY <5>1, <5>2
      <4> QED
        BY <4>3 DEF DeleteTargets
    <3> QED
      BY <2>2, <3>1, <3>2
  <2>10. \A s \in Storages : EmptyKept(s)
    BY <2>2, <1>SameEmpty
  <2>11. \A o \in Workers : Keeps(o)'
    BY <2>2, <2>3, <2>4, <2>10, <1>BatchStage, <1>EmptyKeeps
  <2>12. \A w \in Writes : rpc'[w].at \in {"vote", "commit"} => DeleteTargets' \cap Used(w)' = {}
    BY <2>2, <2>4, <2>7, <1>SameUsed, <1>UsedNext
  <2>13. generation' # NoRow => Consistent' # {} /\ \A t \in DeleteTargets' : Consistent' \ {t} # {}
    <3>1. Consistent' = Consistent
      BY <2>2 DEF Consistent
    <3> QED
      BY <2>2, <2>4, <2>7, <3>1 DEF KeptInv
  <2> QED
    BY <2>9, <2>11, <2>12, <2>13, <1>KeptNext

\* A deletion is never given up: its attempts are not counted.
<1>StaleKeptSide.
  ASSUME NEW rows, AcknowledgeStale(rows)
  PROVE  KeptSide'
  <2> USE <1>StaleKeptSide
  <2> DEFINE stale == {q \in queue : Row(q) \in rows}
             retried == {q \in stale : q.attempt >= 1}
             dropped == {q \in stale : q.attempt = 0}
  <2>1. queue' = (queue \ (retried \cup dropped)) \cup {WithState(q, "failed") : q \in retried}
    BY DEF AcknowledgeStale
  <2>2. slips \subseteq slips' /\ UNCHANGED <<generation, replicas, rpc, worker, disk>>
    BY OutsideEffect DEF AcknowledgeStale
  <2>3. retried \subseteq queue /\ (\A q \in dropped : q.attempt = 0) /\ queue \subseteq Jobs
    BY DEF Inv, ReplicationInv, TypeOK
  <2> HIDE DEF retried, dropped
  <2>4. \A q \in Jobs : WithState(q, "failed").target = q.target /\ WithState(q, "failed").change = q.change
    BY StateOnly DEF EndStates
  <2>5. ASSUME slips' \cap Losses = {}
        PROVE  DeleteTargets' = DeleteTargets
    <3>1. "stale" \notin slips
      BY <2>2, <2>5 DEF Losses
    <3>2. \A q \in queue : q.attempt >= (IF q.change = "update" /\ q.state = "in_progress" THEN 0 ELSE 1)
      BY <3>1 DEF Inv, ReplicationInv, HeldInv
    <3>3. \A q \in queue : q.change = "delete_replica" => q.attempt >= 1
      BY <3>2
    <3>4. ASSUME NEW p \in queue', p.change = "delete_replica"
          PROVE  \E q \in queue : q.change = "delete_replica" /\ q.target = p.target
      BY ZenonT(40), <2>1, <2>3, <2>4, <3>4
    <3>5. ASSUME NEW q \in queue, q.change = "delete_replica"
          PROVE  \E p \in queue' : p.change = "delete_replica" /\ p.target = q.target
      <4>1. q \notin dropped
        <5>1. q.attempt >= 1
          BY <3>3, <3>5
        <5>2. q.attempt # 0
          BY SMT, <5>1
        <5> QED
          BY <2>3, <5>2
      <4>2. CASE q \in retried
        BY <2>1, <2>3, <2>4, <3>5, <4>2
      <4>3. CASE q \notin retried
        BY <2>1, <3>5, <4>1, <4>3
      <4> QED
        BY <4>2, <4>3
    <3>6. DeleteTargets' \subseteq DeleteTargets
      BY <3>4 DEF DeleteTargets
    <3>7. DeleteTargets \subseteq DeleteTargets'
      BY <3>5 DEF DeleteTargets
    <3> QED
      BY <3>6, <3>7
  <2>6. \A o \in Workers : StageKept(o) /\ DoneKept(o)
    BY <2>2, <1>SameStage
  <2>7. (\A s \in Storages : EmptyKept(s)) /\ \A w \in Writes : UsedKept(w)
    BY <2>2, <1>SameEmpty, <1>SameUsed
  <2> QED
    BY <2>2, <2>5, <2>6, <2>7, <1>KeptFrame

<1>AdminKeptSide.
  ASSUME \/ (\E f \in Resizes : SetReplicationFactor(f))
         \/ \E s \in Storages : Unhealthy(s) \/ Healthy(s) \/ RepositoryLost(s)
  PROVE  KeptSide'
  <2> USE <1>AdminKeptSide
  <2>1. slips \subseteq slips' /\ UNCHANGED <<generation, replicas, rpc, worker>>
    BY OutsideEffect
  <2>2. CASE \E s \in Storages : RepositoryLost(s)
    <3>1. "lost" \in slips' /\ "lost" \in Losses
      BY <2>2 DEF RepositoryLost, Losses
    <3> QED
      BY <3>1 DEF KeptSide
  <2>3. CASE UNCHANGED <<disk, queue>>
    <3>1. \A o \in Workers : StageKept(o) /\ DoneKept(o)
      BY <2>1, <1>SameStage
    <3>2. (\A s \in Storages : EmptyKept(s)) /\ (\A w \in Writes : UsedKept(w)) /\ DeleteTargets' = DeleteTargets
      BY <2>1, <2>3, <1>SameEmpty, <1>SameUsed, <1>SameTargets
    <3> QED
      BY <2>1, <3>1, <3>2, <1>KeptFrame
  <2> QED
    BY <2>2, <2>3 DEF SetReplicationFactor, Unhealthy, Healthy, jobs

\* The reconciler removes a replica only if an assigned storage is as far.
<1>ReconcileKeptSide.
  ASSUME reconcile
  PROVE  KeptSide'
  <2> USE <1>ReconcileKeptSide
  <2> SUFFICES ASSUME slips' \cap Losses = {}
               PROVE  KeptInv'
    BY DEF KeptSide
  <2> DEFINE targets == IF update_sources = {} THEN {} ELSE update_targets
  <2>1. PICK source \in [targets -> update_sources],
             drop \in IF delete_jobs = {} THEN {{}} ELSE {{s} : s \in delete_jobs} :
               /\ queue' = queue \cup {NewJob("update", source[t], t) : t \in targets}
                                 \cup {NewJob("delete_replica", NoStorage, s) : s \in drop}
               /\ slips' = IF \E w \in Writes : rpc[w].at \in {"vote", "commit"} /\ Used(w) \cap drop # {}
                           THEN slips \cup {"dropped"} ELSE slips
    BY DEF reconcile
  <2>2. drop \subseteq delete_jobs
    BY <2>1
  <2>3. slips \subseteq slips' /\ UNCHANGED <<generation, replicas, rpc, worker, disk>> /\ generation # NoRow
    BY OutsideEffect DEF reconcile
  <2>4. KeptInv
    BY <2>3 DEF Inv, ReplicationInv
  <2>5. \A w \in Writes : rpc[w].at \in {"vote", "commit"} => Used(w) \cap drop = {}
    <3>1. "dropped" \notin slips'
      BY DEF Losses
    <3> QED
      BY <2>1, <3>1
  <2>6. \A s, t : NewJob("update", s, t).change # "delete_replica"
    BY SMT DEF NewJob
  <2>7. \A s : /\ NewJob("delete_replica", NoStorage, s).change = "delete_replica"
               /\ NewJob("delete_replica", NoStorage, s).target = s
    BY SMT DEF NewJob
  <2> HIDE DEF targets
  <2>8. DeleteTargets' \subseteq DeleteTargets \cup drop
    <3>1. ASSUME NEW p \in queue', p.change = "delete_replica"
          PROVE  p.target \in DeleteTargets \cup drop
      <4>1. CASE p \in queue
        BY <3>1, <4>1 DEF DeleteTargets
      <4>2. CASE \E t \in drop : p = NewJob("delete_replica", NoStorage, t)
        BY <2>7, <4>2
      <4>3. CASE \E t \in targets : p = NewJob("update", source[t], t)
        BY <2>6, <3>1, <4>3
      <4> QED
        BY <2>1, <4>1, <4>2, <4>3
    <3> QED
      BY <3>1 DEF DeleteTargets
  <2>9. DeleteTargets \subseteq DeleteTargets'
    BY <2>1 DEF DeleteTargets
  <2>10. Consistent' = Consistent
    BY <2>3 DEF Consistent
  <2>11. ASSUME NEW t \in drop
         PROVE  Consistent \ {t} # {}
    <3>1. /\ assignments # {} /\ t \notin assignments /\ t \in healthy
          /\ \A x \in Storages : x \in assignments => replicas[t] <= replicas[x]
      BY <2>2 DEF delete_jobs
    <3>2. /\ assignments \subseteq Storages /\ healthy \subseteq Storages /\ generation \in Nat \cup {NoRow}
          /\ replicas \in [Storages -> Nat \cup {NoRow}] /\ StoreInv
      BY StoreSideNow DEF StoreSide, StoreTypes
    <3>3. PICK x \in Storages : x \in assignments /\ x # t /\ replicas[t] <= replicas[x]
      BY <3>1, <3>2
    <3>4. PICK c \in Consistent : TRUE
      BY <2>3, <2>4 DEF KeptInv
    <3>5. CASE c # t
      BY <3>4, <3>5
    <3>6. CASE c = t
      <4>1. replicas[t] = generation /\ replicas[x] <= generation /\ replicas[x] \in Nat \cup {NoRow}
        BY <3>2, <3>6 DEF Consistent, StoreInv
      <4>2. replicas[x] = generation
        BY SMT, <3>2, <3>3, <4>1 DEF NoRow
      <4>3. x \in Consistent
        BY <2>3, <4>2 DEF Consistent
      <4> QED
        BY <3>3, <4>3
    <3> QED
      BY <3>5, <3>6
  <2>12. generation' # NoRow => Consistent' # {} /\ \A t \in DeleteTargets' : Consistent' \ {t} # {}
    BY <2>3, <2>4, <2>8, <2>10, <2>11 DEF KeptInv
  <2>13. \A w \in Writes : rpc'[w].at \in {"vote", "commit"} => DeleteTargets' \cap Used(w)' = {}
    <3>1. \A w \in Writes : Used(w)' = Used(w)
      BY <2>3 DEF Used
    <3>2. ASSUME NEW w \in Writes, rpc[w].at \in {"vote", "commit"}
          PROVE  DeleteTargets' \cap Used(w) = {}
      <4>1. DeleteTargets \cap Used(w) = {} /\ Used(w) \cap drop = {}
        BY <2>4, <2>5, <3>2 DEF KeptInv
      <4> QED
        BY <2>8, <4>1
    <3> QED
      BY <2>3, <3>1, <3>2
  <2>14. \A s \in Storages : disk'[s] = {} => s \in DeleteTargets' \/ replicas'[s] = NoRow
    BY <2>3, <2>4, <2>9 DEF KeptInv
  <2>15. \A k \in Workers : Keeps(k)'
    BY <2>3, <2>4, <1>SameStage, <1>SameEmpty, <1>EmptyKeeps
  <2> QED
    BY <2>12, <2>13, <2>14, <2>15, <1>KeptNext

<1>WorkerKeptNext.
  ASSUME NEW k \in Workers, WorkerStep(k), KeptInv,
         generation' # NoRow => Consistent' # {} /\ \A t \in DeleteTargets : Consistent' \ {t} # {},
         \A s \in Storages : disk'[s] = {} => s \in DeleteTargets \/ replicas'[s] = NoRow,
         \A o \in Workers : Keeps(o)'
  PROVE  KeptInv'
  <2> USE <1>WorkerKeptNext
  <2>1. queue' = queue /\ rpc' = rpc
    BY StepsMove, WorkerTypes DEF Moves
  <2>2. DeleteTargets' = DeleteTargets /\ \A w \in Writes : UsedKept(w)
    BY <2>1, <1>SameTargets, <1>SameUsed
  <2>3. \A w \in Writes : rpc'[w].at \in {"vote", "commit"} => DeleteTargets' \cap Used(w)' = {}
    BY <2>2, <1>UsedNext
  <2> QED
    BY <2>2, <2>3, <1>KeptNext

\* Without lost jobs every job of a worker is in the queue.
<1>JobRuns.
  ASSUME HeldInv, NEW k \in Workers, worker[k].at \in Stages
  PROVE  /\ Job(k) \in queue /\ Job(k).state = "in_progress"
         /\ Job(k).change = "delete_replica" => Job(k).target \in DeleteTargets /\ Job(k).attempt >= 1
  <2> USE <1>JobRuns
  <2>1. Job(k) \in worker[k].batch
    BY Working
  <2>2. Job(k) \in queue /\ Job(k).state = "in_progress"
    BY <2>1 DEF HeldInv, Owns, Running
  <2>3. Job(k).attempt >= (IF Job(k).change = "update" /\ Job(k).state = "in_progress" THEN 0 ELSE 1)
    BY <2>2 DEF HeldInv
  <2> QED
    BY <2>2, <2>3 DEF DeleteTargets

<1>EndedKept.
  ASSUME NEW k \in Workers, worker[k].at \in Stages, NEW state \in EndStates, Ended(k, state)
  PROVE  /\ Others(k) /\ StageKept(k)
         /\ Job(k).change = "update" \/ state = "failed" => DoneKept(k)
  <2> USE <1>EndedKept
  <2>1. worker'[k].at \in {"ack", "event"} /\ Others(k) /\ worker'[k].done = worker[k].done \cup {WithState(Job(k), state)}
    BY DEF Ended
  <2>2. StageKept(k)
    BY SMT, <2>1 DEF StageKept
  <2>3. WithState(Job(k), state).change = Job(k).change /\ WithState(Job(k), state).state = state
    BY ZenonT(40), Working, StateOnly
  <2>4. Job(k).change = "update" => Job(k).change # "delete_replica"
    BY SMT
  <2> QED
    BY <2>1, <2>2, <2>3, <2>4 DEF DoneKept

\* A deletion that fails is tried again.
<1>FailsKept.
  ASSUME HeldInv, NEW k \in Workers, worker[k].at \in Stages, handleNodeEventFails(k)
  PROVE  Others(k) /\ StageKept(k) /\ DoneKept(k)
  <2> USE <1>FailsKept
  <2>1. PICK state \in {"failed", "dead"} : Ended(k, state) /\ (state = "dead" => Job(k).attempt <= 0)
    BY FailsEffect
  <2>2. /\ Job(k).change = "delete_replica" => Job(k).attempt >= 1
        /\ Job(k).change \in {"update", "delete_replica"} /\ Job(k).attempt \in Int
    BY <1>JobRuns, Working
  <2>3. Job(k).change = "update" \/ state = "failed"
    <3>1. CASE Job(k).change = "delete_replica"
      BY SMT, <2>1, <2>2, <3>1
    <3> QED
      BY <2>2, <3>1
  <2> QED
    BY <2>1, <2>3, <1>EndedKept DEF EndStates

<1>WentKept.
  ASSUME NEW k \in Workers, NEW stage \in {"copy", "remove", "drop"}, NEW gen, Went(k, stage, gen)
  PROVE  Others(k) /\ StageKept(k) /\ DoneKept(k)
  <2> USE <1>WentKept
  <2>1. worker'[k].at # "invalid" /\ worker'[k].at # "set"
    BY SMT DEF Went
  <2> QED
    BY <2>1 DEF Went, StageKept, DoneKept

\* The invariants of a step without losses.
<1>WithoutLosses.
  ASSUME slips \subseteq slips', slips' \cap Losses = {}
  PROVE  KeptInv /\ HeldInv /\ \A k \in Workers : Behind(k)
  <2> USE <1>WithoutLosses
  <2>1. slips \cap Losses = {} /\ "stale" \in Losses
    BY DEF Losses
  <2>2. "stale" \notin slips
    BY <2>1
  <2> QED
    BY <2>1, <2>2 DEF Inv, ReplicationInv

<1>WorkerKeptFrame.
  ASSUME NEW k \in Workers, WorkerStep(k), UNCHANGED <<generation, replicas, disk>>,
         HeldInv => Others(k) /\ StageKept(k) /\ DoneKept(k)
  PROVE  KeptSide'
  <2> USE <1>WorkerKeptFrame
  <2> SUFFICES ASSUME slips' \cap Losses = {}
               PROVE  KeptInv'
    BY DEF KeptSide
  <2>1. KeptInv /\ HeldInv
    BY WorkerTypes, <1>WithoutLosses
  <2>2. Consistent' = Consistent
    BY DEF Consistent
  <2>3. \A o \in Workers : StageKept(o) /\ DoneKept(o)
    BY <2>1, <1>SameStage DEF Others
  <2>4. \A o \in Workers : Keeps(o)'
    BY <2>1, <2>3, <1>SameEmpty, <1>EmptyKeeps
  <2>5. generation' # NoRow => Consistent' # {} /\ \A t \in DeleteTargets : Consistent' \ {t} # {}
    BY <2>1, <2>2 DEF KeptInv
  <2>6. \A s \in Storages : disk'[s] = {} => s \in DeleteTargets \/ replicas'[s] = NoRow
    BY <2>1 DEF KeptInv
  <2> QED
    BY <2>1, <2>4, <2>5, <2>6, <1>WorkerKeptNext

<1>StartEventKeptSide.
  ASSUME NEW k \in Workers, StartEvent(k)
  PROVE  KeptSide'
  <2> USE <1>StartEventKeptSide
  <2>1. UNCHANGED <<generation, replicas, disk>> /\ worker[k].at \in Stages /\ WorkerStep(k)
    BY StartEventEffect, StageIs DEF WorkerStep
  <2>2. CASE handleNodeEventFails(k)
    BY <2>1, <2>2, <1>FailsKept, <1>WorkerKeptFrame
  <2>3. CASE Ends(k, "completed") /\ Job(k).change = "update"
    <3>1. Ended(k, "completed") /\ "completed" \in EndStates
      BY <2>1, <2>3, StepEffect DEF EndStates
    <3> QED
      BY <2>1, <2>3, <3>1, <1>EndedKept, <1>WorkerKeptFrame
  <2>4. CASE \E stage \in {"copy", "remove", "drop"} : \E gen : Went(k, stage, gen)
    BY <2>1, <2>4, <1>WentKept, <1>WorkerKeptFrame
  <2> QED
    BY <2>2, <2>3, <2>4, StartEventEffect DEF Begins

<1>EventFailsKeptSide.
  ASSUME NEW k \in Workers, EventFails(k)
  PROVE  KeptSide'
  <2> USE <1>EventFailsKeptSide
  <2>1. /\ worker[k].at \in Stages /\ handleNodeEventFails(k) /\ UNCHANGED <<generation, replicas, disk>> /\ WorkerStep(k)
    BY StageIs DEF EventFails, store, WorkerStep
  <2> QED
    BY <2>1, <1>FailsKept, <1>WorkerKeptFrame

\* A copy gives its target a repository.
<1>CopiesToKept.
  ASSUME NEW k \in Workers, ReplicateRepository(k), CopiesTo(k), slips' \cap Losses = {}
  PROVE  KeptInv'
  <2> USE <1>CopiesToKept
  <2> DEFINE t == Job(k).target
  <2>1. /\ UNCHANGED <<generation, replicas>> /\ worker[k].at = "copy" /\ worker[k].at \in Stages
        /\ WorkerStep(k) /\ Job(k).change = "update"
    BY ReplicateEffect
  <2>2. KeptInv
    BY <2>1, WorkerTypes, <1>WithoutLosses
  <2>3. /\ disk'[t] # {} /\ \A s \in Storages : s # t => disk'[s] = disk[s]
    <3>1. disk \in [Storages -> SUBSET (Writes \cup {Created})] /\ t \in Storages
      BY <2>1, Working DEF Inv, ReplicationInv, TypeOK
    <3> QED
      BY <3>1 DEF CopiesTo
  <2>4. \A s \in Storages : disk'[s] = {} => s # t /\ disk[s] = {}
    BY <2>3
  <2>5. \A s \in Storages : disk[s] # {} => disk'[s] # {}
    BY <2>3
  <2>6. \A o \in Workers : o # k /\ worker[o].at = "invalid" => Job(o).source # t
    <3>1. "restored" \notin CopySlips(k)
      BY DEF CopiesTo, Losses
    <3> QED
      BY <3>1 DEF CopySlips
  <2>7. Consistent' = Consistent
    BY <2>1 DEF Consistent
  <2>8. \A o \in Workers : DoneKept(o) => DoneKeeps(o)
    <3>1. TAKE o \in Workers
    <3>2. Keeps(o)
      BY <2>2 DEF KeptInv
    <3>3. \A e \in worker[o].done : e.change = "delete_replica" /\ disk'[e.target] = {}
              => disk[e.target] = {} /\ (replicas[e.target] = NoRow => replicas'[e.target] = NoRow)
      BY <2>1, <2>4, <1>JobStorages
    <3> QED
      BY <3>2, <3>3, <1>DoneNext
  <2>9. ASSUME NEW o \in Workers, o # k, Others(k)
        PROVE  Keeps(o)'
    <3>1. Keeps(o) /\ StageKept(o) /\ DoneKeeps(o)
      BY <2>2, <2>8, <2>9, <1>SameStage DEF KeptInv, Others
    <3>2. worker[o].at = "invalid" /\ disk[Job(o).source] = {} => disk'[Job(o).source] = {}
      BY <2>3, <2>6, <2>9, <1>JobStorages
    <3>3. worker[o].at = "set" /\ disk[Job(o).target] # {} => disk'[Job(o).target] # {}
      BY <2>5, <1>JobStorages
    <3> QED
      BY <3>1, <3>2, <3>3, <1>KeepsKept
  <2>10. Keeps(k)' /\ Others(k)
    <3>1. CASE Ended(k, "completed")
      <4>1. "completed" \in EndStates /\ "copy" # "invalid" /\ "copy" # "set"
        BY SMT DEF EndStates
      <4>2. Others(k) /\ StageKept(k) /\ DoneKept(k)
        BY <2>1, <3>1, <4>1, <1>EndedKept
      <4>3. Keeps(k) /\ DoneKeeps(k)
        BY <2>2, <2>8, <4>2 DEF KeptInv
      <4> QED
        BY <2>1, <4>1, <4>2, <4>3, <1>KeepsKept
    <3>2. CASE Went(k, "set", worker[k].gen)
      <4>1. Others(k) /\ worker'[k].at = "set" /\ Job(k)' = Job(k) /\ worker'[k].done = worker[k].done
        BY <3>2, WentSame DEF Went
      <4>2. worker'[k].at # "invalid"
        BY SMT, <4>1
      <4>3. DoneKeeps(k)
        BY <2>8, <4>1 DEF DoneKept
      <4> QED
        BY <2>3, <4>1, <4>2, <4>3 DEF Keeps, DoneKeeps
    <3> QED
      BY <3>1, <3>2 DEF CopiesTo
  <2>11. generation' # NoRow => Consistent' # {} /\ \A x \in DeleteTargets : Consistent' \ {x} # {}
    BY <2>1, <2>2, <2>7 DEF KeptInv
  <2>12. \A s \in Storages : disk'[s] = {} => s \in DeleteTargets \/ replicas'[s] = NoRow
    BY <2>1, <2>2, <2>4 DEF KeptInv
  <2> QED
    BY <2>1, <2>2, <2>9, <2>10, <2>11, <2>12, <1>WorkerKeptNext

\* A source that has no repository is found to be invalid.
<1>ReplicateKeptSide.
  ASSUME NEW k \in Workers, ReplicateRepository(k)
  PROVE  KeptSide'
  <2> USE <1>ReplicateKeptSide
  <2>1. CASE CopiesTo(k)
    BY <2>1, <1>CopiesToKept DEF KeptSide
  <2>2. ASSUME disk[Job(k).source] = {}, UNCHANGED <<disk, slips>>, Went(k, "invalid", worker[k].gen),
               slips' \cap Losses = {}
        PROVE  KeptInv'
    <3>1. UNCHANGED <<generation, replicas>> /\ WorkerStep(k) /\ worker[k].at \in Stages
      BY ReplicateEffect
    <3>2. KeptInv
      BY <2>2, <3>1, WorkerTypes, <1>WithoutLosses
    <3>3. Others(k) /\ worker'[k].at = "invalid" /\ Job(k)' = Job(k) /\ worker'[k].done = worker[k].done
      BY <2>2, WentSame DEF Went
    <3>4. Keeps(k)'
      <4>1. worker'[k].at # "set"
        BY SMT, <3>3
      <4> QED
        BY <2>2, <3>1, <3>2, <3>3, <4>1 DEF KeptInv, Keeps
    <3>5. \A o \in Workers : o # k => Keeps(o)'
      BY <2>2, <3>1, <3>2, <3>3, <1>SameStage, <1>SameEmpty, <1>EmptyKeeps DEF Others
    <3>6. generation' # NoRow => Consistent' # {} /\ \A x \in DeleteTargets : Consistent' \ {x} # {}
      BY <3>1, <3>2 DEF KeptInv, Consistent
    <3>7. \A s \in Storages : disk'[s] = {} => s \in DeleteTargets \/ replicas'[s] = NoRow
      BY <2>2, <3>1, <3>2 DEF KeptInv
    <3> QED
      BY <3>1, <3>2, <3>4, <3>5, <3>6, <3>7, <1>WorkerKeptNext
  <2> QED
    BY <2>1, <2>2, ReplicateEffect DEF KeptSide

\* The row that is written is behind, and its storage has the repository.
<1>SetGenerationKeptSide.
  ASSUME NEW k \in Workers, SetGeneration(k)
  PROVE  KeptSide'
  <2> USE <1>SetGenerationKeptSide
  <2> DEFINE t == Job(k).target
  <2>1. /\ UNCHANGED <<generation, disk, slips>> /\ worker[k].at = "set" /\ WorkerStep(k)
        /\ worker[k].at \in Stages /\ t \in Storages /\ Ended(k, "completed") /\ Job(k).change = "update"
        /\ IF generation = NoRow THEN UNCHANGED replicas
           ELSE replicas' = [replicas EXCEPT ![t] = worker[k].gen]
    BY SetGenerationEffect
  <2>2. Others(k) /\ StageKept(k) /\ DoneKept(k)
    BY <2>1, <1>EndedKept DEF EndStates
  <2>3. CASE UNCHANGED replicas
    BY <2>1, <2>2, <2>3, <1>WorkerKeptFrame
  <2>4. ASSUME generation # NoRow, replicas' = [replicas EXCEPT ![t] = worker[k].gen], slips' \cap Losses = {}
        PROVE  KeptInv'
    <3>1. KeptInv /\ Behind(k) /\ replicas \in [Storages -> Nat \cup {NoRow}] /\ generation \in Nat \cup {NoRow}
      BY <2>1, <2>4, WorkerTypes, <1>WithoutLosses DEF Inv, ReplicationInv, TypeOK
    <3>2. disk[t] # {} /\ replicas[t] < generation
      BY <2>1, <2>4, <3>1 DEF KeptInv, Keeps, Behind
    <3>3. \A s \in Storages : s # t => replicas'[s] = replicas[s]
      BY <2>4, <3>1
    <3>4. t \notin Consistent
      <4>1. replicas[t] # generation
        BY SMT, <2>1, <3>1, <3>2 DEF NoRow
      <4> QED
        BY <4>1 DEF Consistent
    <3>5. Consistent \subseteq Consistent'
      BY <2>1, <3>3, <3>4 DEF Consistent
    <3>6. \A o \in Workers : StageKept(o) /\ DoneKept(o)
      BY <2>2, <1>SameStage DEF Others
    <3>7. \A s \in Storages : disk[s] = {} => replicas'[s] = replicas[s]
      BY <3>2, <3>3
    <3>8. \A o \in Workers : Keeps(o)'
      BY <2>1, <3>1, <3>6, <3>7, <1>SameEmpty, <1>EmptyKeeps
    <3>9. generation' # NoRow => Consistent' # {} /\ \A x \in DeleteTargets : Consistent' \ {x} # {}
      BY <2>4, <3>1, <3>5 DEF KeptInv
    <3>10. \A s \in Storages : disk'[s] = {} => s \in DeleteTargets \/ replicas'[s] = NoRow
      BY <2>1, <3>1, <3>7 DEF KeptInv
    <3> QED
      BY <2>1, <3>1, <3>8, <3>9, <3>10, <1>WorkerKeptNext
  <2> QED
    BY <2>1, <2>3, <2>4 DEF KeptSide

\* While a worker runs a deletion, no worker has completed one.
<1>NoDeleteDone.
  ASSUME HeldInv, NEW k \in Workers, worker[k].at \in Stages, Job(k).change = "delete_replica",
         NEW o \in Workers, NEW e \in worker[o].done
  PROVE  e.change # "delete_replica"
  <2> USE <1>NoDeleteDone
  <2> SUFFICES ASSUME e.change = "delete_replica"
               PROVE  FALSE
    OBVIOUS
  <2>1. Job(k) \in queue /\ Job(k).state = "in_progress" /\ Job(k) \in worker[k].batch
    BY <1>JobRuns, Working
  <2>2. WithState(e, "in_progress") \in queue /\ e.state \in {"completed", "failed", "dead"}
        /\ \A x \in HeldBy(o) : Row(e) = Row(x) => e = x
    BY DEF HeldInv, Owns
  <2>3. /\ WithState(e, "in_progress").change = e.change /\ WithState(e, "in_progress").target = e.target
        /\ Row(WithState(e, "in_progress")) = Row(e)
    BY StateOnly, Working
  <2>4. WithState(e, "in_progress") = Job(k)
    BY <2>1, <2>2, <2>3, <1>OneDelete
  <2>5. o = k
    <3>1. e \in HeldBy(o) /\ Job(k) \in HeldBy(k) /\ e.target = Job(k).target
      BY <2>1, <2>3, <2>4 DEF HeldBy
    <3> QED
      BY <3>1 DEF HeldInv
  <2>6. e = Job(k)
    BY <2>1, <2>2, <2>3, <2>4, <2>5 DEF HeldBy
  <2>7. "in_progress" \notin {"completed", "failed", "dead"}
    BY SMT
  <2> QED
    BY <2>1, <2>2, <2>6, <2>7

\* A storage that loses the repository is the target of the deletion.
<1>RemoveKeptSide.
  ASSUME NEW k \in Workers, RemoveRepository(k)
  PROVE  KeptSide'
  <2> USE <1>RemoveKeptSide
  <2> DEFINE t == Job(k).target
  <2>1. /\ UNCHANGED <<generation, replicas, slips>> /\ WorkerStep(k) /\ worker[k].at = "remove"
        /\ worker[k].at \in Stages /\ Job(k).change = "delete_replica" /\ t \in Storages
    BY RemoveEffect
  <2>2. CASE handleNodeEventFails(k) /\ UNCHANGED disk
    BY <2>1, <2>2, <1>FailsKept, <1>WorkerKeptFrame
  <2>3. ASSUME disk' = [disk EXCEPT ![t] = {}], Went(k, "drop", NoRow), slips' \cap Losses = {}
        PROVE  KeptInv'
    <3>1. KeptInv /\ HeldInv
      BY <2>1, <2>3, WorkerTypes, <1>WithoutLosses
    <3>2. t \in DeleteTargets
      BY <2>1, <3>1, <1>JobRuns
    <3>3. disk'[t] = {} /\ \A s \in Storages : s # t => disk'[s] = disk[s]
      <4>1. disk \in [Storages -> SUBSET (Writes \cup {Created})]
        BY DEF Inv, ReplicationInv, TypeOK
      <4> QED
        BY <2>1, <2>3, <4>1
    <3>4. \A o \in Workers : StageKept(o) /\ DoneKept(o)
      BY <2>3, <1>WentKept, <1>SameStage DEF Others
    <3>5. ASSUME NEW o \in Workers
          PROVE  Keeps(o)'
      <4>1. Keeps(o)
        BY <3>1 DEF KeptInv
      <4>2. \A e \in worker[o].done : e.change # "delete_replica"
        BY <2>1, <3>1, <1>NoDeleteDone
      <4>3. DoneKeeps(o)
        BY <3>4, <4>2 DEF DoneKeeps, DoneKept
      <4>4. worker[o].at = "invalid" /\ disk[Job(o).source] = {} => disk'[Job(o).source] = {}
        BY <3>3, <1>JobStorages
      <4>5. worker[o].at = "set" => Job(o).target # t
        <5>1. worker[o].at = "set" => o # k /\ worker[o].at \in Stages
          BY SMT, <2>1 DEF Stages
        <5>2. /\ Job(k) \in HeldBy(k)
              /\ worker[o].at = "set" => Job(o) \in HeldBy(o)
          BY <2>1, <5>1, Working DEF HeldBy
        <5> QED
          BY <3>1, <5>1, <5>2 DEF HeldInv
      <4>6. worker[o].at = "set" /\ disk[Job(o).target] # {} => disk'[Job(o).target] # {}
        BY <3>3, <4>5, <1>JobStorages
      <4> QED
        BY <3>4, <4>1, <4>3, <4>4, <4>6, <1>KeepsKept
    <3>6. generation' # NoRow => Consistent' # {} /\ \A x \in DeleteTargets : Consistent' \ {x} # {}
      BY <2>1, <3>1 DEF KeptInv, Consistent
    <3>7. \A s \in Storages : disk'[s] = {} => s \in DeleteTargets \/ replicas'[s] = NoRow
      BY <2>1, <3>1, <3>2, <3>3 DEF KeptInv
    <3> QED
      BY <2>1, <3>1, <3>5, <3>6, <3>7, <1>WorkerKeptNext
  <2> QED
    BY <2>2, <2>3, RemoveEffect DEF KeptSide

\* A row that goes is not the last one at the latest generation.
<1>LowersKept.
  ASSUME KeptInv, NEW s, Lowers(s), s \in DeleteTargets \/ replicas[s] = NoRow
  PROVE  /\ generation' # NoRow => Consistent' # {} /\ \A t \in DeleteTargets : Consistent' \ {t} # {}
         /\ \A o \in Storages : replicas[o] = NoRow => replicas'[o] = NoRow
         /\ replicas'[s] = NoRow
  <2> USE <1>LowersKept
  <2>1. /\ replicas'[s] = NoRow /\ \A o \in Storages : o # s => replicas'[o] = replicas[o]
        /\ generation' # NoRow => generation' = generation
    <3>1. replicas \in [Storages -> Nat \cup {NoRow}]
      BY DEF Inv, ReplicationInv, TypeOK
    <3> QED
      BY <3>1 DEF Lowers
  <2>2. ASSUME generation' # NoRow
        PROVE  Consistent' # {} /\ \A t \in DeleteTargets : Consistent' \ {t} # {}
    <3>1. Consistent # {} /\ (\A t \in DeleteTargets : Consistent \ {t} # {}) /\ generation' = generation
      BY <2>1, <2>2 DEF KeptInv
    <3>2. Consistent \ {s} \subseteq Consistent'
      BY <2>1, <3>1 DEF Consistent
    <3>3. CASE s \in DeleteTargets
      <4>1. \A x, y \in DeleteTargets : x = y
        BY <1>OneDelete
      <4> QED
        BY <3>1, <3>2, <3>3, <4>1
    <3>4. CASE replicas[s] = NoRow
      <4>1. s \notin Consistent
        BY <2>2, <3>1, <3>4 DEF Consistent
      <4> QED
        BY <3>1, <3>2, <4>1
    <3> QED
      BY <3>3, <3>4
  <2> QED
    BY <2>1, <2>2

<1>DeletesKeptSide.
  ASSUME NEW k \in Workers, DeleteInvalidRepository(k) \/ DeleteReplica(k)
  PROVE  KeptSide'
  <2> USE <1>DeletesKeptSide
  <2>1. UNCHANGED <<disk, slips>> /\ WorkerStep(k) /\ worker[k].at \in Stages /\ Ended(k, "completed")
    BY DeletesEffect
  <2> SUFFICES ASSUME slips' \cap Losses = {}
               PROVE  KeptInv'
    BY DEF KeptSide
  <2>2. KeptInv /\ HeldInv
    BY <2>1, WorkerTypes, <1>WithoutLosses
  <2>3. /\ Others(k) /\ StageKept(k) /\ (Job(k).change = "update" => DoneKept(k))
        /\ \A o \in Workers : o # k => StageKept(o) /\ DoneKept(o)
    BY <2>1, <1>EndedKept, <1>SameStage DEF EndStates, Others
  <2>4. ASSUME NEW s, Lowers(s), s \in DeleteTargets \/ replicas[s] = NoRow, Keeps(k)'
        PROVE  KeptInv'
    <3>1. /\ generation' # NoRow => Consistent' # {} /\ \A t \in DeleteTargets : Consistent' \ {t} # {}
          /\ \A o \in Storages : replicas[o] = NoRow => replicas'[o] = NoRow
      BY <2>2, <2>4, <1>LowersKept
    <3>2. \A o \in Workers : o # k => Keeps(o)'
      BY <2>1, <2>2, <2>3, <3>1, <1>SameEmpty, <1>EmptyKeeps
    <3>3. \A o \in Storages : disk'[o] = {} => o \in DeleteTargets \/ replicas'[o] = NoRow
      BY <2>1, <2>2, <3>1 DEF KeptInv
    <3> QED
      BY <2>1, <2>2, <2>4, <3>1, <3>2, <3>3, <1>WorkerKeptNext
  <2>5. CASE worker[k].at = "invalid" /\ Lowers(Job(k).source) /\ Job(k).change = "update"
    <3>1. disk[Job(k).source] = {} /\ Job(k).source \in Storages
      BY <2>2, <2>5 DEF KeptInv, Keeps, Lowers
    <3>2. Job(k).source \in DeleteTargets \/ replicas[Job(k).source] = NoRow
      BY <2>2, <3>1 DEF KeptInv
    <3>3. \A o \in Storages : replicas[o] = NoRow => replicas'[o] = NoRow
      BY <2>2, <2>5, <3>2, <1>LowersKept
    <3>4. Keeps(k)'
      BY <2>1, <2>2, <2>3, <2>5, <3>3, <1>SameEmpty, <1>EmptyKeeps
    <3> QED
      BY <2>4, <2>5, <3>2, <3>4
  <2>6. CASE Lowers(Job(k).target) /\ Job(k).change = "delete_replica"
    <3>1. Job(k).target \in DeleteTargets
      BY <2>1, <2>2, <2>6, <1>JobRuns
    <3>2. /\ replicas'[Job(k).target] = NoRow
          /\ \A o \in Storages : replicas[o] = NoRow => replicas'[o] = NoRow
      BY <2>2, <2>6, <3>1, <1>LowersKept
    <3>3. WithState(Job(k), "completed").target = Job(k).target
      BY <2>1, Working, StateOnly DEF EndStates
    <3>4. worker'[k].at # "invalid" /\ worker'[k].at # "set"
      BY SMT, <2>1 DEF Ended
    <3>5. ASSUME NEW e \in worker'[k].done, e.change = "delete_replica", e.state # "failed", disk'[e.target] = {}
          PROVE  replicas'[e.target] = NoRow
      <4>1. CASE e = WithState(Job(k), "completed")
        BY <3>2, <3>3, <4>1
      <4>2. CASE e \in worker[k].done
        <5>1. replicas[e.target] = NoRow /\ e.target \in Storages
          BY <2>1, <2>2, <3>5, <4>2, <1>JobStorages DEF KeptInv, Keeps
        <5> QED
          BY <3>2, <5>1
      <4> QED
        BY <2>1, <3>5, <4>1, <4>2 DEF Ended
    <3>6. Keeps(k)'
      BY <3>4, <3>5 DEF Keeps
    <3> QED
      BY <2>4, <2>6, <3>1, <3>6
  <2> QED
    BY <2>5, <2>6, DeletesEffect

<1>WorkerStepKeptSide.
  ASSUME NEW k \in Workers, WorkerStep(k)
  PROVE  KeptSide'
    BY <1>WorkerStepKeptSide, <1>StartEventKeptSide, <1>ReplicateKeptSide, <1>SetGenerationKeptSide,
       <1>DeletesKeptSide, <1>RemoveKeptSide,
       <1>EventFailsKeptSide DEF WorkerStep
<1>1. ASSUME NEW k \in Workers, ProcessBacklog(k) \/ EventFails(k) \/ WorkerDies(k)
      PROVE  KeptSide'
  BY <1>1, <1>WorkerStepKeptSide, <1>DequeueKeptSide, <1>AcknowledgeKeptSide DEF ProcessBacklog, WorkerStep, EndStates
<1>2. ASSUME NEW w \in Writes, Mutator(w) \/ FinalizerLost(w)
      PROVE  KeptSide'
  BY <1>2, <1>RoutingKeptSide, <1>CommitKeptSide, <1>EnqueueKeptSide, <1>IncrementKeptSide DEF Mutator
<1>3. ASSUME UNCHANGED vars
      PROVE  KeptSide'
  <2>1. UNCHANGED <<generation, replicas, disk, rpc, queue, worker, slips>>
    BY <1>3 DEF vars
  <2> QED
    BY <2>1 DEF Inv, ReplicationInv, KeptSide, KeptInv, Keeps, Consistent, DeleteTargets, Used, Job
<1> QED
  BY <1>1, <1>2, <1>3, <1>StaleKeptSide, <1>AdminKeptSide, <1>ReconcileKeptSide DEF Next

---------------------------------------------------------------------------
(* Every step preserves the inductive invariant.                           *)

Sides == QueueSide /\ StoreSide /\ GenSide /\ KeptSide

\* The four sides make up the invariant.
LEMMA SidesInv == Sides /\ Least => Inv
<1> SUFFICES ASSUME Sides, Least
             PROVE  Inv
  BY SMT
<1>1. QueueSide /\ StoreSide /\ GenSide /\ KeptSide
  BY DEF Sides
<1>2. TypeOK
  BY <1>1 DEF QueueSide, StoreSide, StoreTypes, TypeOK
<1>3. ReplicationInv
  BY <1>1, <1>2 DEF QueueSide, StoreSide, GenSide, KeptSide, ReplicationInv
<1> QED
  BY <1>1, <1>3 DEF Inv, QueueSide

\* The initial state: one replica at the first generation, no job and no RPC.
LEMMA InitSides ==
  ASSUME Init
  PROVE  Sides
<1>1. /\ generation = 0 /\ replicas = [s \in Storages |-> 0] /\ primary \in Storages /\ assignments = {}
      /\ healthy = Storages /\ disk = [s \in Storages |-> {Created}] /\ rpc = [w \in Writes |-> NewRPC]
      /\ queue = {} /\ jobLocks = {} /\ acquired = {} /\ worker = [k \in Workers |-> Idle]
      /\ faults = MaxFaults /\ slips = {}
  BY DEF Init
<1>2. /\ NewRPC \in RPCs /\ NewRPC.produced = NoRow /\ NewRPC.at = "new"
      /\ NewRPC.pending = {} /\ NewRPC.applied = {}
  BY SMT DEF NewRPC, RPCs, NoRow
<1>3. /\ Idle \in WorkerStates /\ Idle.at = "idle" /\ Idle.batch = {} /\ Idle.done = {} /\ Idle.gen = NoRow
  BY SMT DEF Idle, WorkerStates, NoRow
<1>4. /\ \A k \in Workers : worker[k] = Idle /\ HeldBy(k) = {}
      /\ worker \in [Workers -> WorkerStates]
  BY <1>1, <1>3 DEF HeldBy
<1>5. rpc \in [Writes -> RPCs] /\ \A w \in Writes : rpc[w] = NewRPC
  BY <1>1, <1>2
<1>6. "idle" \notin Stages /\ "idle" # "ack" /\ NoRow \in Nat \cup {NoRow} /\ 0 \in Nat /\ 0 # NoRow /\ NoRow <= 0
  BY SMT DEF Stages, NoRow
<1>7. QueueSide
  <2>1. \A k \in Workers : Fits(k)
    <3>1. TAKE k \in Workers
    <3>2. worker[k].at = "idle" /\ HeldBy(k) = {}
      BY <1>3, <1>4
    <3>3. /\ worker[k].at # "ack" /\ worker[k].at \notin Stages
          /\ worker[k].at \notin {"copy", "set", "invalid"} /\ worker[k].at \notin {"remove", "drop"}
      BY SMT, <3>2 DEF Stages
    <3> QED
      BY <3>2, <3>3 DEF Fits
  <2>2. Running = {} /\ {Row(q) : q \in Running} = {} /\ {l[2] : l \in jobLocks} = {}
    <3>1. Running = {}
      BY <1>1 DEF Running
    <3> QED
      BY <1>1, <3>1
  <2>3. QueueInv
    BY <1>1, <2>2 DEF QueueInv
  <2>4. \A k \in Workers : Owns(k)
    BY <1>3, <1>4 DEF Owns
  <2>5. HeldInv
    BY <1>1, <1>4, <2>2, <2>4 DEF HeldInv
  <2>6. Numbered
    BY <1>1, <1>4, <1>6 DEF Numbered, Below
  <2> QED
    BY <1>1, <1>4, <2>1, <2>3, <2>5, <2>6 DEF QueueSide
<1>8. StoreSide
  <2>1. StoreTypes
    <3>1. disk \in [Storages -> SUBSET (Writes \cup {Created})]
      BY <1>1
    <3>2. replicas \in [Storages -> Nat \cup {NoRow}] /\ generation \in Nat \cup {NoRow}
      BY <1>1, <1>6
    <3>3. faults \in Nat
      BY <1>1, ReplicationAssumption
    <3> QED
      BY <1>1, <1>5, <3>1, <3>2, <3>3 DEF StoreTypes
  <2>2. StoreInv
    <3>1. 0 <= 0
      BY SMT
    <3> QED
      BY <1>1, <1>3, <1>4, <1>6, <3>1 DEF StoreInv
  <2>3. \A w \in Writes : Finalizes(w)
    <3>1. TAKE w \in Writes
    <3>2. rpc[w].produced = NoRow /\ rpc[w].at = "new" /\ rpc[w].pending = {} /\ rpc[w].applied = {}
      BY <1>2, <1>5
    <3>3. rpc[w].at # "commit" /\ rpc[w].at \notin {"consistent", "assignments", "vote", "commit", "enqueue"}
      BY SMT, <3>2
    <3> QED
      BY <3>2, <3>3 DEF Finalizes
  <2>4. \A k \in Workers : Behind(k)
    <3>1. \A k \in Workers : worker[k].at = "idle"
      BY <1>3, <1>4
    <3> QED
      BY SMT, <3>1 DEF Behind
  <2> QED
    BY <2>1, <2>2, <2>3, <2>4 DEF StoreSide
<1>9. GenerationInv
  <2>1. \A w \in Writes : rpc[w].produced = NoRow /\ rpc[w].at = "new"
    BY <1>2, <1>5
  <2>2. \A s, gen : Holds(s, gen)
    BY <2>1 DEF Holds
  <2>3. \A w \in Writes : rpc[w].at # "commit" /\ rpc[w].produced <= generation
    <3>1. "new" # "commit"
      BY SMT
    <3> QED
      BY <1>1, <1>6, <2>1, <3>1
  <2> QED
    BY <2>2, <2>3 DEF GenerationInv, GenerationGuarantee, Copies
<1>10. KeptInv
  <2>1. DeleteTargets = {}
    BY <1>1 DEF DeleteTargets
  <2>2. primary \in Consistent
    BY <1>1, <1>6 DEF Consistent
  <2>3. \A s \in Storages : disk[s] # {}
    BY <1>1
  <2>4. \A k \in Workers : Keeps(k)
    <3>1. TAKE k \in Workers
    <3>2. worker[k].at = "idle" /\ worker[k].done = {}
      BY <1>3, <1>4
    <3>3. worker[k].at # "invalid" /\ worker[k].at # "set"
      BY SMT, <3>2
    <3> QED
      BY <3>2, <3>3 DEF Keeps
  <2> QED
    BY <2>1, <2>2, <2>3, <2>4 DEF KeptInv
<1> QED
  BY <1>7, <1>8, <1>9, <1>10 DEF Sides, GenSide, KeptSide

\* Every step of the coordinators, the replication managers, the reconciler, the
\* administrator and the storages preserves the inductive invariant.
LEMMA ReplicationStep ==
  ASSUME Inv, [Next]_vars
  PROVE  Sides'
  BY QueueStep, StoreStep, GenerationStep, KeptStep DEF Sides

---------------------------------------------------------------------------
(* The theorems.                                                           *)

LOCAL INSTANCE WellFoundedInduction

\* The naturals are well-founded.
LEMMA LeastNatural == Least
<1> SUFFICES ASSUME NEW T, T \subseteq Nat, T # {}
             PROVE  \E n \in T : \A m \in T : n <= m
  BY DEF Least
<1>1. \E n \in T : \A m \in T : ~ (<<m, n>> \in OpToRel(<, Nat))
  BY NatLessThanWellFounded, WFMin
<1>2. PICK n \in T : \A m \in T : ~ (<<m, n>> \in OpToRel(<, Nat))
  BY <1>1
<1>3. \A m \in T : n <= m
  <2>1. TAKE m \in T
  <2>2. m \in Nat /\ n \in Nat
    BY SMT
  <2>3. ~ (m < n)
    BY <1>2, <2>2 DEF OpToRel
  <2> QED
    BY SMT, <2>2, <2>3
<1> QED
  BY SMT, <1>3

\* ReplicationInv is an invariant for any storages, writes and Praefect nodes and
\* any number of faults, whatever the order in which RPCs are routed and
\* committed, jobs are dequeued, run, acknowledged and taken back, and the
\* reconciler and the administrator step in.
THEOREM ReplicationInvariant == Spec => []ReplicationInv
<1>1. Init => Sides
  BY InitSides
<1>2. Sides => Inv
  BY SidesInv, LeastNatural
<1>3. Sides /\ [Next]_vars => Sides'
  BY <1>2, ReplicationStep
<1>4. Sides => ReplicationInv
  BY <1>2 DEF Inv
<1> QED
  BY <1>1, <1>3, <1>4, PTL DEF Spec

\* The tables of the replication queue agree after any Dequeue, Acknowledge and
\* AcknowledgeStale: a lock is acquired exactly as long as it has job locks, a job
\* lock belongs to a job in progress, and, unless a job was taken from a living
\* worker, every job in progress has its lock and at most one worker has jobs of
\* one storage.
THEOREM ReplicationLocksMatch == Spec => []LocksMatch
<1>1. ReplicationInv => LocksMatch
  <2> SUFFICES ASSUME ReplicationInv
               PROVE  LocksMatch
    OBVIOUS
  <2>1. TypeOK /\ QueueInv /\ ("stale" \notin slips => HeldInv)
    BY DEF ReplicationInv
  <2>2. ASSUME HeldInv, NEW t \in Storages, NEW k \in Busy(t), NEW l \in Busy(t)
        PROVE  k = l
    <3>1. /\ k \in Workers /\ (\E e \in HeldBy(k) : e.target = t)
          /\ l \in Workers /\ (\E e \in HeldBy(l) : e.target = t)
      BY <2>2 DEF Busy, HeldBy
    <3> QED
      BY <2>2, <3>1 DEF HeldInv
  <2>3. HeldInv => jobLocks = {Row(q) : q \in Running}
    BY DEF HeldInv
  <2>4. acquired = {l[2] : l \in jobLocks} /\ jobLocks \subseteq {Row(q) : q \in Running}
    BY <2>1 DEF QueueInv
  <2> QED
    BY <2>1, <2>2, <2>3, <2>4 DEF LocksMatch
<1> QED
  BY <1>1, ReplicationInvariant, PTL

\* A replica recorded at a generation holds every write that produced this
\* generation or an earlier one: IncrementGeneration and SetGeneration record only
\* what the storages have, unless ReplicateRepository overwrote a storage during
\* a commit or under another copy, or a job ran twice.
THEOREM ReplicationGeneration == Spec => []GenerationUnlessRaced
<1>1. ReplicationInv => GenerationUnlessRaced
  BY DEF ReplicationInv, GenerationInv, GenerationUnlessRaced
<1> QED
  BY <1>1, ReplicationInvariant, PTL

\* Neither the deletions of the reconciler nor DeleteInvalidRepository remove the
\* row of the last replica at the latest generation while the repository exists,
\* unless a repository was lost or a storage about to be removed was used.
THEOREM ReplicationLatestKept == Spec => []LatestKept
<1>1. ReplicationInv => LatestKept
  BY DEF ReplicationInv, KeptInv, LatestKept
<1> QED
  BY <1>1, ReplicationInvariant, PTL
=============================================================================
