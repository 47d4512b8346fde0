---------------------------- MODULE Replication ----------------------------
(***************************************************************************)
(* How Praefect keeps the replicas of one repository up to date.  Mutator  *)
(* RPCs are routed (router_per_repository.go), committed by the storages   *)
(* that took part in the vote, and finalized (coordinator.go): the         *)
(* generations of the updated replicas are incremented and replication     *)
(* jobs are queued for the others.  The replication managers of the        *)
(* Praefect nodes (replicator.go) take jobs from the queue                 *)
(* (datastore/queue.go), copy or remove replicas and record the result     *)
(* (datastore/repository_store.go).  The reconciler (reconciler.go) queues *)
(* jobs for whatever is still missing or superfluous.                      *)
(*                                                                         *)
(* Every SQL statement is one step, every call of a Gitaly node is one     *)
(* step.  disk is what the Gitaly nodes hold: the set of writes, with      *)
(* Created for the repository itself, {} when there is no repository.      *)
(* A row that does not exist has generation NoRow.                         *)
(***************************************************************************)
EXTENDS Integers, FiniteSets, FiniteSetsExt

CONSTANTS Storages, Writes, Workers,
          Created,        \* the creation of the repository
          NoStorage,
          MaxAttempt,     \* attempt of a new row of replication_queue
          MaxFaults,      \* bound on failures and administrative changes
          Resizes         \* replication factors an administrator may set

ASSUME ReplicationAssumption ==
  /\ MaxAttempt \in Nat \ {0} /\ MaxFaults \in Nat
  /\ Created \notin Writes /\ NoStorage \notin Storages

VARIABLES
  generation,   \* repositories.generation
  replicas,     \* storage_repositories.generation of every storage
  primary,      \* repositories.primary
  assignments,  \* repository_assignments; {} if there is no row
  healthy,      \* the storages the health checks find healthy
  disk,         \* what the Gitaly nodes hold
  rpc,          \* the mutator RPC of every write
  queue,        \* replication_queue
  jobLocks,     \* replication_queue_job_lock
  acquired,     \* the targets whose replication_queue_lock is acquired
  worker,       \* processBacklog of every Praefect node
  faults,       \* how many failures and administrative changes may still happen
  slips         \* which of the events named at Slips have happened

store == <<generation, replicas, primary, assignments>>
jobs == <<queue, jobLocks, acquired>>
vars == <<generation, replicas, primary, assignments, healthy, disk,
          rpc, queue, jobLocks, acquired, worker, faults, slips>>

NoRow == -1
Stages == {"event", "copy", "set", "invalid", "remove", "drop"}
Idle == [at |-> "idle", batch |-> {}, gen |-> NoRow, done |-> {}]
NewRPC == [at |-> "new", primary |-> NoStorage, healthy |-> {},
           consistent |-> {}, voters |-> {}, pending |-> {}, applied |-> {},
           outdated |-> {}, produced |-> NoRow]

Init ==
  /\ generation = 0
  /\ replicas = [s \in Storages |-> 0]
  /\ primary \in Storages
  /\ assignments = {}
  /\ healthy = Storages
  /\ disk = [s \in Storages |-> {Created}]
  /\ rpc = [w \in Writes |-> NewRPC]
  /\ queue = {} /\ jobLocks = {} /\ acquired = {}
  /\ worker = [k \in Workers |-> Idle]
  /\ faults = MaxFaults
  /\ slips = {}

\* What the properties exempt.  "stale": a job was taken from a worker that
\* still runs, because its health updates failed.  "crossed": a storage was
\* overwritten by ReplicateRepository while a write was being committed to it.
\* "replaced": a storage was overwritten with an earlier generation than another
\* worker had read for it and was about to copy.  "dropped": a mutator RPC used a
\* storage whose deletion was scheduled.  "restored": a storage that another
\* worker had found without the repository got it back before that worker removed
\* the storage's row.  "lost": a Gitaly node lost the repository.
Races == {"stale", "crossed", "replaced"}
Losses == {"stale", "dropped", "restored", "lost"}
Slips == Races \cup Losses

\* The storages a mutator RPC changes.
Used(w) == rpc[w].voters \cup {rpc[w].primary}

Fault == faults > 0 /\ faults' = faults - 1

---------------------------------------------------------------------------
\* Queries of the repository store and views of the database.

Consistent == {s \in Storages : generation # NoRow /\ replicas[s] = generation}
Assigned == IF assignments = {} THEN Storages ELSE assignments
DeleteTargets == {j.target : j \in {q \in queue : q.change = "delete_replica"}}

valid_primaries ==
  LET candidates == (Consistent \cap healthy) \ DeleteTargets
  IN  IF candidates \cap assignments = {} THEN candidates
      ELSE candidates \cap assignments

---------------------------------------------------------------------------
\* A mutator RPC: routing, voting, commit on the storages, finalizer.

GetPrimary(w) ==
  /\ rpc[w].at = "new" /\ healthy # {}
  /\ \E p \in IF primary \in valid_primaries \/ valid_primaries = {}
              THEN {primary} ELSE valid_primaries :
       /\ primary' = p
       /\ rpc' = [rpc EXCEPT ![w] = [@ EXCEPT
              !.at = IF p \in healthy THEN "consistent" ELSE "done",
              !.primary = p, !.healthy = healthy]]
  /\ UNCHANGED <<generation, replicas, assignments, healthy, disk, jobs, worker, faults, slips>>

GetConsistentStorages(w) ==
  /\ rpc[w].at = "consistent"
  /\ rpc' = [rpc EXCEPT ![w] = [@ EXCEPT
         !.at = IF rpc[w].primary \in Consistent THEN "assignments" ELSE "done",
         !.consistent = Consistent]]
  /\ UNCHANGED <<store, healthy, disk, jobs, worker, faults, slips>>

GetHostAssignments(w) ==
  LET r == rpc[w]
      voters == Assigned \cap r.consistent \cap r.healthy
  IN  /\ r.at = "assignments"
      /\ rpc' = [rpc EXCEPT ![w] = [@ EXCEPT
             !.at = IF r.primary \in Assigned THEN "vote" ELSE "done",
             !.voters = voters, !.outdated = Assigned \ voters,
             !.healthy = {}, !.consistent = {}]]
      /\ slips' = IF r.primary \in Assigned /\ (voters \cup {r.primary}) \cap DeleteTargets # {}
                  THEN slips \cup {"dropped"} ELSE slips
      /\ UNCHANGED <<store, healthy, disk, jobs, worker, faults>>

\* The voting transaction ends.  Either no change is taken to have happened, or
\* the storages of committers, the primary among them, have been told to commit,
\* or the primary did not commit and may yet have changed.
Vote(w) ==
  /\ rpc[w].at = "vote"
  /\ \/ rpc' = [rpc EXCEPT ![w] = [@ EXCEPT !.at = "done", !.outdated = {}, !.voters = {}]]
     \/ \E committers \in SUBSET rpc[w].voters :
          /\ committers = {} \/ rpc[w].primary \in committers
          /\ \E changed \in {committers, committers \cup {rpc[w].primary}} :
             rpc' = [rpc EXCEPT ![w] = [@ EXCEPT
                 !.at = "commit", !.voters = committers, !.pending = changed,
                 !.outdated = rpc[w].outdated \cup (rpc[w].voters \ (committers \cup {rpc[w].primary}))]]
  /\ UNCHANGED <<store, healthy, disk, jobs, worker, faults, slips>>

\* One storage commits the write, or fails to.
Commit(w, s) ==
  /\ s \in rpc[w].pending
  /\ \/ /\ disk[s] # {}
        /\ disk' = [disk EXCEPT ![s] = @ \cup {w}]
        /\ rpc' = [rpc EXCEPT ![w] = [@ EXCEPT
               !.pending = rpc[w].pending \ {s}, !.applied = rpc[w].applied \cup {s}]]
        /\ UNCHANGED faults
     \/ /\ IF disk[s] # {} THEN Fault ELSE UNCHANGED faults
        /\ rpc' = [rpc EXCEPT ![w] = [@ EXCEPT !.pending = rpc[w].pending \ {s}]]
        /\ UNCHANGED disk
  /\ UNCHANGED <<store, healthy, jobs, worker, slips>>

\* The finalizer increments the generations of the primary and of the
\* secondaries that committed and ended like the primary, as far as they have
\* the latest generation; it is an error if none has.
IncrementGeneration(w) ==
  LET r == rpc[w]
      updated == {s \in r.voters : (s \in r.applied) = (r.primary \in r.applied)}
      atLatest == (updated \cup {r.primary}) \cap Consistent
      outdated == (r.outdated \cup r.voters) \ (updated \cup {r.primary})
  IN  /\ r.at = "commit" /\ r.pending = {}
      /\ IF atLatest = {}
         THEN rpc' = [rpc EXCEPT ![w] = [NewRPC EXCEPT !.at = "done"]] /\ UNCHANGED <<replicas, generation>>
         ELSE /\ replicas' = [s \in Storages |-> IF s \in atLatest THEN generation + 1 ELSE replicas[s]]
              /\ generation' = generation + 1
              /\ rpc' = [rpc EXCEPT ![w] = [NewRPC EXCEPT
                     !.at = IF outdated = {} THEN "done" ELSE "enqueue",
                     !.primary = r.primary, !.applied = r.applied, !.outdated = outdated,
                     !.produced = generation + 1]]
      /\ UNCHANGED <<primary, assignments, healthy, disk, jobs, worker, faults, slips>>

\* Jobs are numbered in the order of creation, for each target on its own:
\* jobs of different targets have different locks and are never compared.
HeldBy(k) == worker[k].batch \cup worker[k].done
NextId(t) ==
  1 + Max({0} \cup UNION {{j.id, j.before - 1} :
             j \in {q \in queue \cup UNION {HeldBy(k) : k \in Workers} : q.target = t}})

NewJob(change, source, target) ==
  [id |-> NextId(target), change |-> change, source |-> source, target |-> target,
   attempt |-> MaxAttempt, state |-> "ready", before |-> 0]

\* Jobs are queued one by one; a similar job that is still ready makes the new one superfluous.
Enqueue(w, s) ==
  /\ rpc[w].at = "enqueue" /\ s \in rpc[w].outdated
  /\ rpc' = [rpc EXCEPT ![w] = [@ EXCEPT
         !.at = IF rpc[w].outdated = {s} THEN "done" ELSE "enqueue", !.outdated = rpc[w].outdated \ {s}]]
  /\ queue' = IF \E q \in queue : q.state = "ready" /\ q.target = s /\ q.change = "update"
              THEN queue ELSE queue \cup {NewJob("update", rpc[w].primary, s)}
  /\ UNCHANGED <<store, healthy, disk, jobLocks, acquired, worker, faults, slips>>

\* The Praefect node that serves the RPC dies, or its database calls fail.
\* Storages that have been told to commit still do.
FinalizerLost(w) ==
  /\ rpc[w].at \in {"commit", "enqueue"} /\ Fault
  /\ rpc' = [rpc EXCEPT ![w] = [@ EXCEPT !.at = "lost"]]
  /\ UNCHANGED <<store, healthy, disk, jobs, worker, slips>>

---------------------------------------------------------------------------
\* The replication manager of one Praefect node.

Row(q) == <<q.id, q.target>>
WithState(q, state) == [q EXCEPT !.state = state]

\* Mutant: jobs that other workers have locked are not skipped.
DequeueLocked(k, t) ==
  LET candidates == {q \in queue : q.target = t /\ q.state \in {"ready", "failed"}}
  IN  /\ worker[k].at = "idle" /\ t \in healthy /\ candidates # {}
      /\ queue' = (queue \ candidates) \cup {WithState(q, "in_progress") : q \in candidates}
      /\ jobLocks' = jobLocks \cup {Row(q) : q \in candidates}
      /\ acquired' = acquired \cup {t}
      /\ worker' = [worker EXCEPT ![k] = [Idle EXCEPT !.at = "event", !.batch = candidates]]
      /\ UNCHANGED <<store, healthy, disk, rpc, faults, slips>>

Taken(q) ==
  [q EXCEPT !.state = "in_progress", !.before = NextId(q.target),
            !.attempt = IF q.change = "delete_replica" THEN @ ELSE @ - 1]

\* A worker takes the oldest job of either kind that waits for a storage, if no
\* other worker has jobs for it.
Dequeue(k, t) ==
  LET free == {q \in queue : q.target = t /\ q.state \in {"ready", "failed"}}
      candidates == {q \in free : \A o \in free : o.change = q.change => q.id <= o.id}
      taken == {Taken(q) : q \in candidates}
  IN  /\ worker[k].at = "idle" /\ t \in healthy /\ candidates # {}
      /\ t \notin acquired /\ \A l \in jobLocks : l[2] # t
      /\ queue' = (queue \ candidates) \cup taken
      /\ jobLocks' = jobLocks \cup {Row(q) : q \in candidates}
      /\ acquired' = acquired \cup {t}
      /\ worker' = [worker EXCEPT ![k] = [at |-> "event", batch |-> taken, gen |-> NoRow, done |-> {}]]
      /\ UNCHANGED <<store, healthy, disk, rpc, faults, slips>>

\* The events of a batch are handled in the order of their ids.
First(batch) == CHOOSE e \in batch : \A o \in batch : e.id <= o.id
Job(k) == First(worker[k].batch)

Goes(k, stage, gen) == worker' = [worker EXCEPT ![k] = [@ EXCEPT !.at = stage, !.gen = gen]]

\* The event ends in a state and the worker goes on to the next event.
Ends(k, state) ==
  worker' = [worker EXCEPT ![k] =
     [at |-> IF @.batch = {Job(k)} THEN "ack" ELSE "event", batch |-> @.batch \ {Job(k)},
      gen |-> NoRow, done |-> @.done \cup {WithState(Job(k), state)}]]

handleNodeEventFails(k) == Ends(k, IF Job(k).attempt <= 0 THEN "dead" ELSE "failed")

\* GetReplicatedGeneration, or on to the removal.
StartEvent(k) ==
  LET job == Job(k)
  IN  /\ worker[k].at = "event"
      /\ IF generation = NoRow THEN handleNodeEventFails(k)
         ELSE IF job.change = "delete_replica" THEN Goes(k, "remove", NoRow)
         ELSE IF replicas[job.target] # NoRow /\ replicas[job.target] >= replicas[job.source]
              THEN Ends(k, "completed")
              ELSE Goes(k, "copy", replicas[job.source])
      /\ UNCHANGED <<store, healthy, disk, rpc, jobs, faults, slips>>

\* What a copy to a storage undoes for the RPCs and the other workers.
CopySlips(k) ==
  LET t == Job(k).target
      Sources(stage) == {o \in Workers \ {k} : worker[o].at = stage /\ Job(o).source = t}
  IN  (IF \E w \in Writes : rpc[w].at = "commit" /\ t \in Used(w) THEN {"crossed"} ELSE {})
        \cup (IF \E o \in Sources("copy") : worker[o].gen > worker[k].gen THEN {"replaced"} ELSE {})
        \cup (IF Sources("invalid") # {} THEN {"restored"} ELSE {})

\* ReplicateRepository makes the target what the source is.
ReplicateRepository(k) ==
  LET job == Job(k)
  IN  /\ worker[k].at = "copy"
      /\ IF disk[job.source] = {}
         THEN Goes(k, "invalid", worker[k].gen) /\ UNCHANGED <<disk, slips>>
         ELSE /\ disk' = [disk EXCEPT ![job.target] = disk[job.source]]
              /\ slips' = slips \cup CopySlips(k)
              /\ IF worker[k].gen = NoRow THEN Ends(k, "completed")
                 ELSE Goes(k, "set", worker[k].gen)
      /\ UNCHANGED <<store, healthy, rpc, jobs, faults>>

\* Mutant: the generation the source has after the copy is recorded.
SetGenerationLate(k) ==
  LET job == Job(k)
  IN  /\ worker[k].at = "set"
      /\ replicas' = [replicas EXCEPT ![job.target] = replicas[job.source]]
      /\ Ends(k, "completed")
      /\ UNCHANGED <<generation, primary, assignments, healthy, disk, rpc, jobs, faults, slips>>

\* The target gets the generation the source had before the copy.
SetGeneration(k) ==
  LET t == Job(k).target
  IN  /\ worker[k].at = "set"
      /\ IF generation = NoRow THEN UNCHANGED <<replicas, generation>>
         ELSE /\ replicas' = [replicas EXCEPT ![t] = worker[k].gen]
              /\ generation' = IF worker[k].gen > generation THEN worker[k].gen ELSE generation
      /\ Ends(k, "completed")
      /\ UNCHANGED <<primary, assignments, healthy, disk, rpc, jobs, faults, slips>>

DeleteInvalidRepository(k) ==
  LET s == Job(k).source
  IN  /\ worker[k].at = "invalid"
      /\ replicas' = [replicas EXCEPT ![s] = NoRow]
      /\ generation' = IF \A o \in Storages \ {s} : replicas[o] = NoRow THEN NoRow ELSE generation
      /\ Ends(k, "completed")
      /\ UNCHANGED <<primary, assignments, healthy, disk, rpc, jobs, faults, slips>>

\* RemoveRepository fails if there is no repository.
RemoveRepository(k) ==
  LET t == Job(k).target
  IN  /\ worker[k].at = "remove"
      /\ IF disk[t] = {} THEN handleNodeEventFails(k) /\ UNCHANGED disk
         ELSE disk' = [disk EXCEPT ![t] = {}] /\ Goes(k, "drop", NoRow)
      /\ UNCHANGED <<store, healthy, rpc, jobs, faults, slips>>

DeleteReplica(k) ==
  /\ worker[k].at = "drop"
  /\ replicas' = [replicas EXCEPT ![Job(k).target] = NoRow]
  /\ Ends(k, "completed")
  /\ UNCHANGED <<generation, primary, assignments, healthy, disk, rpc, jobs, faults, slips>>

\* Any call made for an event may fail.
EventFails(k) ==
  /\ worker[k].at \in Stages
  /\ Fault /\ handleNodeEventFails(k)
  /\ UNCHANGED <<store, healthy, disk, rpc, jobs, slips>>

\* Mutant: the job locks go and the locks stay.
ReleaseNone(rows) == jobLocks' = jobLocks \ rows /\ acquired' = acquired

\* The rows removed from replication_queue_job_lock release the locks that have none left.
Release(rows) ==
  /\ jobLocks' = jobLocks \ rows
  /\ acquired' = acquired \ {t \in Storages : (\E l \in rows : l[2] = t)
                                              /\ \A l \in jobLocks \ rows : l[2] # t}

Acknowledge(k, state) ==
  LET acked == {e \in worker[k].done : e.state = state}
      existing == {q \in queue : q.state = "in_progress" /\ \E e \in acked : Row(e) = Row(q)}
      similar == {q \in queue : q.state = "ready" /\ \E e \in existing :
                    q.id < e.before /\ q.target = e.target /\ q.change = e.change /\ q.source = e.source}
      gone == (IF state = "failed" THEN {} ELSE existing) \cup (IF state = "completed" THEN similar ELSE {})
      kept == existing \ gone
  IN  /\ worker[k].at = "ack" /\ acked # {}
      /\ queue' = (queue \ (gone \cup kept)) \cup {WithState(q, state) : q \in kept}
      /\ Release({Row(q) : q \in existing \cup gone} \cap jobLocks)
      /\ worker' = [worker EXCEPT ![k] =
             [at |-> IF @.done = acked THEN "idle" ELSE "ack", batch |-> {}, gen |-> NoRow, done |-> @.done \ acked]]
      /\ UNCHANGED <<store, healthy, disk, rpc, faults, slips>>

WorkerDies(k) ==
  /\ worker[k].at # "idle" /\ Fault
  /\ worker' = [worker EXCEPT ![k] = Idle]
  /\ UNCHANGED <<store, healthy, disk, rpc, jobs, slips>>

\* The job locks whose health identifier a living worker updates.
Held == {Row(q) : q \in UNION {HeldBy(k) : k \in Workers}}

AcknowledgeStale(rows) ==
  /\ rows # {} /\ rows \subseteq jobLocks
  /\ IF rows \cap Held = {} THEN UNCHANGED <<faults, slips>> ELSE Fault /\ slips' = slips \cup {"stale"}
  /\ LET stale == {q \in queue : Row(q) \in rows}
         retried == {q \in stale : q.attempt >= 1}
     IN  queue' = (queue \ (retried \cup {q \in stale : q.attempt = 0}))
                    \cup {WithState(q, "failed") : q \in retried}
  /\ Release(rows)
  /\ UNCHANGED <<store, healthy, disk, rpc, worker>>

---------------------------------------------------------------------------
\* The reconciler.

\* Mutant: the generations of the assigned storages are not looked at.
delete_jobs_newest ==
  {s \in healthy : /\ replicas[s] # NoRow
                   /\ assignments # {} /\ s \notin assignments
                   /\ \A q \in queue : q.source # s /\ q.target # s /\ q.change # "delete_replica"}

\* Mutant: several replicas may go at a time.
delete_jobs_several ==
  {s \in healthy : /\ replicas[s] # NoRow
                   /\ assignments # {} /\ s \notin assignments
                   /\ \A x \in Storages : x \in assignments \/ replicas[x] # NoRow => replicas[s] <= replicas[x]
                   /\ \A q \in queue : q.source # s /\ q.target # s}

\* The replicas that may go: not assigned, behind or level with every other one
\* and every assigned storage, not used by a job, and no other replica is going.
delete_jobs ==
  {s \in healthy : /\ replicas[s] # NoRow
                   /\ assignments # {} /\ s \notin assignments
                   /\ \A x \in Storages : x \in assignments \/ replicas[x] # NoRow => replicas[s] <= replicas[x]
                   /\ \A q \in queue : q.source # s /\ q.target # s /\ q.change # "delete_replica"}
update_targets ==
  {t \in healthy \cap Assigned : /\ t \notin Consistent
                                 /\ \A q \in queue : ~(q.target = t /\ q.change = "update")}
update_sources == (Consistent \cap healthy) \ DeleteTargets

reconcile ==
  /\ generation # NoRow /\ Cardinality(healthy) >= 2
  /\ LET targets == IF update_sources = {} THEN {} ELSE update_targets
     IN  /\ targets # {} \/ delete_jobs # {}
         /\ \E source \in [targets -> update_sources],
              drop \in IF delete_jobs = {} THEN {{}} ELSE {{s} : s \in delete_jobs} :
              /\ queue' = queue \cup {NewJob("update", source[t], t) : t \in targets}
                              \cup {NewJob("delete_replica", NoStorage, s) : s \in drop}
              /\ slips' = IF \E w \in Writes : rpc[w].at \in {"vote", "commit"} /\ Used(w) \cap drop # {}
                          THEN slips \cup {"dropped"} ELSE slips
  /\ UNCHANGED <<store, healthy, disk, rpc, jobLocks, acquired, worker, faults>>

---------------------------------------------------------------------------
\* The administrator, the health checks and the disks.

SetReplicationFactor(factor) ==
  LET existing == Cardinality(assignments)
  IN  /\ generation # NoRow /\ Fault
      /\ \E new \in SUBSET Storages :
           /\ Cardinality(new) = factor
           /\ IF existing <= factor
              THEN assignments \subseteq new /\ (existing < factor => primary \in new)
              ELSE new \subseteq assignments /\ (primary \in assignments => primary \in new)
           /\ new # assignments
           /\ assignments' = new
      /\ UNCHANGED <<generation, replicas, primary, healthy, disk, rpc, jobs, worker, slips>>

Unhealthy(s) ==
  /\ s \in healthy /\ Fault
  /\ healthy' = healthy \ {s}
  /\ UNCHANGED <<store, disk, rpc, jobs, worker, slips>>

Healthy(s) ==
  /\ s \notin healthy
  /\ healthy' = healthy \cup {s}
  /\ UNCHANGED <<store, disk, rpc, jobs, worker, faults, slips>>

RepositoryLost(s) ==
  /\ disk[s] # {} /\ Fault
  /\ disk' = [disk EXCEPT ![s] = {}]
  /\ slips' = slips \cup {"lost"}
  /\ UNCHANGED <<store, healthy, rpc, jobs, worker>>

Mutator(w) ==
  \/ GetPrimary(w) \/ GetConsistentStorages(w) \/ GetHostAssignments(w)
  \/ Vote(w) \/ IncrementGeneration(w) \/ (\E s \in Storages : Commit(w, s) \/ Enqueue(w, s))

ProcessBacklog(k) ==
  \/ \E t \in Storages : Dequeue(k, t)
  \/ StartEvent(k) \/ ReplicateRepository(k) \/ SetGeneration(k)
  \/ DeleteInvalidRepository(k) \/ RemoveRepository(k) \/ DeleteReplica(k)
  \/ \E state \in {"completed", "failed", "dead"} : Acknowledge(k, state)

Next ==
  \/ \E w \in Writes : Mutator(w) \/ FinalizerLost(w)
  \/ \E k \in Workers : ProcessBacklog(k) \/ EventFails(k) \/ WorkerDies(k)
  \/ \E rows \in SUBSET jobLocks : AcknowledgeStale(rows)
  \/ reconcile
  \/ \E f \in Resizes : SetReplicationFactor(f)
  \/ \E s \in Storages : Unhealthy(s) \/ Healthy(s) \/ RepositoryLost(s)

Spec == Init /\ [][Next]_vars

\* The workers and the reconciler run in loops, and a job lock that no worker
\* keeps alive is stale once its time is over.
Fairness ==
  /\ \A k \in Workers : WF_vars(ProcessBacklog(k))
  /\ WF_vars(\E rows \in SUBSET (jobLocks \ Held) : AcknowledgeStale(rows))
  /\ WF_vars(reconcile)

FairSpec == Spec /\ Fairness

---------------------------------------------------------------------------
\* Properties.

Jobs == [id : Nat, change : {"update", "delete_replica"}, source : Storages \cup {NoStorage},
         target : Storages, attempt : Int, before : Nat,
         state : {"ready", "in_progress", "failed", "completed", "dead"}]

WorkerStates == [at : Stages \cup {"idle", "ack"}, batch : SUBSET Jobs,
                 gen : Nat \cup {NoRow}, done : SUBSET Jobs]
RPCs == [at : {"new", "consistent", "assignments", "vote", "commit", "enqueue", "done", "lost"},
         primary : Storages \cup {NoStorage}, healthy : SUBSET Storages,
         consistent : SUBSET Storages, voters : SUBSET Storages, pending : SUBSET Storages,
         applied : SUBSET Storages, outdated : SUBSET Storages, produced : Nat \cup {NoRow}]

TypeOK ==
  /\ generation \in Nat \cup {NoRow}
  /\ replicas \in [Storages -> Nat \cup {NoRow}]
  /\ primary \in Storages /\ assignments \subseteq Storages /\ healthy \subseteq Storages
  /\ disk \in [Storages -> SUBSET (Writes \cup {Created})]
  /\ queue \subseteq Jobs /\ jobLocks \subseteq Nat \X Storages /\ acquired \subseteq Storages
  /\ rpc \in [Writes -> RPCs] /\ worker \in [Workers -> WorkerStates]
  /\ faults \in Nat
  /\ slips \subseteq Slips

Running == {q \in queue : q.state = "in_progress"}
Busy(t) == {k \in Workers : \E e \in worker[k].batch : e.target = t}

\* The three tables of the queue agree after any sequence of Dequeue, Acknowledge
\* and AcknowledgeStale calls of several Praefect nodes: a lock is acquired
\* exactly as long as it has job locks, and a job lock belongs to a job in
\* progress.  Unless a job was taken from a living worker, every job in progress
\* has its job lock, and one repository of a storage is worked on by one worker.
LocksMatch ==
  /\ TypeOK
  /\ acquired = {l[2] : l \in jobLocks}
  /\ jobLocks \subseteq {Row(q) : q \in Running}
  /\ "stale" \notin slips =>
       /\ jobLocks = {Row(q) : q \in Running}
       /\ \A t \in Storages : \A k, l \in Busy(t) : k = l

\* A storage holds the writes of the generations up to a given one, if it holds
\* the repository.
Holds(s, gen) ==
  \A w \in Writes :
     rpc[w].produced # NoRow /\ rpc[w].primary \in rpc[w].applied /\ gen >= rpc[w].produced
       => disk[s] = {} \/ w \in disk[s]

\* A replica recorded at the generation a write produced, or at a later one,
\* holds the write: what virtual_storage.md says generations guarantee.
GenerationGuarantee == \A s \in Storages : Holds(s, replicas[s])

\* The guarantee holds, through failed commits, lost finalizers, retried jobs,
\* elections, changed assignments and lost repositories, unless one of the
\* races happened.
GenerationUnlessRaced == slips \cap Races = {} => GenerationGuarantee

\* As long as the repository exists, some replica is at its latest generation:
\* a deletion runs long after the reconciler scheduled it, through elections,
\* changes of the assignment, retries and crashes, and a source found without the
\* repository loses its row, but the last replica at the latest generation stays.
\* Exempt are the events of Losses: a storage that lost the repository, a job
\* taken from a worker that still runs, a mutator RPC that uses a storage whose
\* deletion is scheduled, and an invalid source that got the repository back.
LatestKept == slips \cap Losses = {} /\ generation # NoRow => Consistent # {}

\* LatestKept without the exemption of mutator RPCs.  This does not hold: a write
\* routed before the deletion was scheduled may make the storage the only one at
\* the latest generation (MCReplicationDropped.cfg).
LatestKeptByWrites ==
  slips \cap (Losses \ {"dropped"}) = {} /\ generation # NoRow => Consistent # {}

---------------------------------------------------------------------------
\* The inductive invariant behind LocksMatch, GenerationUnlessRaced and LatestKept.

\* What a worker holds fits where it is: one target, the kind of job its stage is for.
Fits(k) ==
  /\ worker[k].at = "idle" => HeldBy(k) = {}
  /\ worker[k].at = "ack" => worker[k].batch = {}
  /\ worker[k].at \in Stages => worker[k].batch # {}
  /\ worker[k].at \in {"copy", "set", "invalid"} => Job(k).change = "update"
  /\ worker[k].at \in {"remove", "drop"} => Job(k).change = "delete_replica"
  /\ \A e \in HeldBy(k) : e.change = "update" => e.source \in Storages
  /\ \A e, o \in HeldBy(k) : e.target = o.target

\* A row of the queue is known by its number and target, a repository loses one
\* replica at a time, and the tables agree.
QueueInv ==
  /\ \A q, r \in queue : Row(q) = Row(r) => q = r
  /\ \A q, r \in queue : q.change = "delete_replica" /\ r.change = "delete_replica" => q = r
  /\ \A q \in queue : q.change = "update" => q.source \in Storages
  /\ \A q \in queue : q.state \in {"ready", "in_progress", "failed"}
  /\ acquired = {l[2] : l \in jobLocks}
  /\ jobLocks \subseteq {Row(q) : q \in Running}

\* As long as no job was taken from a living worker, a worker's jobs are the ones
\* in progress under its locks, and no other worker has jobs of their storage.
Owns(k) ==
  /\ worker[k].batch \subseteq Running
  /\ \A e \in worker[k].done :
       /\ WithState(e, "in_progress") \in queue
       /\ e.state \in {"completed", "failed", "dead"}
       /\ e.state = "failed" => e.attempt >= 1
       /\ \A o \in HeldBy(k) : Row(e) = Row(o) => e = o

HeldInv ==
  /\ jobLocks = {Row(q) : q \in Running}
  /\ \A q \in queue : q.attempt >= (IF q.change = "update" /\ q.state = "in_progress" THEN 0 ELSE 1)
  /\ \A k \in Workers : Owns(k)
  /\ \A k, l \in Workers : \A e \in HeldBy(k), o \in HeldBy(l) : e.target = o.target => k = l

\* The columns of the repository store stay in order.
StoreInv ==
  /\ \A s \in Storages : replicas[s] <= generation
  /\ generation # NoRow => \A k \in Workers : worker[k].gen <= generation

\* An RPC has produced a generation only once its storages are done.
Finalizes(w) ==
  /\ rpc[w].produced # NoRow => rpc[w].at \in {"enqueue", "done", "lost"} /\ rpc[w].pending = {}
  /\ rpc[w].at \in {"new", "consistent", "assignments", "vote"} => rpc[w].pending = {} /\ rpc[w].applied = {}
  /\ rpc[w].at = "commit" => rpc[w].pending \cup rpc[w].applied \subseteq Used(w)
  /\ rpc[w].at \in {"consistent", "assignments", "vote", "commit", "enqueue"} => rpc[w].primary \in Storages

\* A worker copies to a replica that is behind both the repository and the source.
Behind(k) ==
  worker[k].at \in {"copy", "set"} /\ generation # NoRow =>
     replicas[Job(k).target] < generation /\ replicas[Job(k).target] <= worker[k].gen

\* What a worker read of its source is true of it, and of the target once copied.
Copies(k) ==
  /\ worker[k].at = "copy" => Holds(Job(k).source, worker[k].gen)
  /\ worker[k].at = "set" => Holds(Job(k).target, worker[k].gen)

GenerationInv ==
  /\ GenerationGuarantee
  /\ \A k \in Workers : Copies(k)
  /\ \A w \in Writes : generation # NoRow => rpc[w].produced <= generation
  /\ \A w \in Writes :
       rpc[w].at = "commit" => \A s \in rpc[w].applied : disk[s] = {} \/ w \in disk[s]

\* A worker that found its source without the repository is right, and one that
\* removed a replica also removed its row.
Keeps(k) ==
  /\ worker[k].at = "invalid" => disk[Job(k).source] = {}
  /\ worker[k].at = "set" => disk[Job(k).target] # {}
  /\ \A e \in worker[k].done :
       e.change = "delete_replica" /\ e.state # "failed" /\ disk[e.target] = {} => replicas[e.target] = NoRow

\* A storage that is going to be removed is neither the only one at the latest
\* generation nor used by an RPC; a storage without the repository has no row or
\* is being removed.
KeptInv ==
  /\ generation # NoRow => Consistent # {} /\ \A t \in DeleteTargets : Consistent \ {t} # {}
  /\ \A w \in Writes : rpc[w].at \in {"vote", "commit"} => DeleteTargets \cap Used(w) = {}
  /\ \A s \in Storages : disk[s] = {} => s \in DeleteTargets \/ replicas[s] = NoRow
  /\ \A k \in Workers : Keeps(k)

ReplicationInv ==
  /\ TypeOK /\ (\A k \in Workers : Fits(k)) /\ QueueInv
  /\ StoreInv /\ (\A w \in Writes : Finalizes(w))
  /\ "stale" \notin slips => HeldInv /\ \A k \in Workers : Behind(k)
  /\ slips \cap Races = {} => GenerationInv
  /\ slips \cap Losses = {} => KeptInv

\* Once faults and writes are over every healthy assigned storage gets to the
\* latest generation, if a healthy source is left and two storages are healthy:
\* lost jobs are rescheduled by the reconciler and dead workers' locks released.
Converges ==
  <>[](Cardinality(healthy) >= 2 /\ update_sources # {} => Assigned \cap healthy \subseteq Consistent)
=============================================================================
