# A TLA+ model of Gitaly and Praefect

Gitaly stores Git repositories and serves them over gRPC. Praefect is a proxy in
front of several Gitaly nodes that keeps replicas of a repository in step. This
directory models the parts of both whose correctness depends on interleavings,
crashes and partial failures, checks small instances with TLC, and proves the
central properties for all sizes with TLAPS. `PROJECT.json` lists the
components, the runs, the source lines behind every definition, the hazards and
the theorems.

## The system and what is modelled

| Part | Source (below `internal/`) | Module |
|---|---|---|
| Transaction manager of a partition: snapshots, conflict checks, write-ahead log, application | `gitaly/storage/storagemgr/partition/transaction_manager.go`, `conflict/` | `TransactionManager` |
| Write-ahead log on disk | `gitaly/storage/storagemgr/partition/log/` | `LogManager`, abstract: `WriteAheadLog` |
| Voting of replicas on reference changes, classification of secondaries | `praefect/transactions/`, `praefect/coordinator.go` | `VotingTransaction` |
| Partition manager: instances of partitions and handles to them | `gitaly/storage/storagemgr/partition_manager.go` | `PartitionManager` |
| Replication: routing, generations, replication queue, replicator, reconciler | `praefect/coordinator.go`, `praefect/replicator.go`, `praefect/router_per_repository.go`, `praefect/reconciler/`, `praefect/datastore/` | `Replication` |
| Concurrency limiter, resizable semaphore, adaptive limit | `limiter/` | `ConcurrencyLimiter` |
| Stream cache and its pipe | `streamcache/` | `StreamCache` |
| Partition assigner, snapshot manager, file system and key-value conflicts, log entry archiver, repository write lock, disk cache, cat-file cache, bundle generation, Raft replica | see "Not modelled" | not modelled |
| RPC services, Git access, hooks, housekeeping, backups, transport, process management, CLI | the rest | not modelled: no protocol state of their own |

A partition is a repository and its object pool. Its transaction manager appends
entries to the log manager's log and tells it what has been applied; the log
keeps every entry until it has been applied and, if there is a consumer (the
archiver), consumed. `TransactionManager` uses the log as the sequence that
`WriteAheadLog` promises, and `LogManager` shows that files and directories keep
the promise. The partition manager of a storage starts, shares and stops the
transaction managers of its partitions; `PartitionManager` sees one as something
that runs until it is closed or fails. With Praefect in front, the nodes that execute a change call back
to vote on it; `VotingTransaction` is one such request. `Replication` takes its
outcome as given and follows several requests, and the jobs that repair what they
left outdated. On a Gitaly node, requests for packs are limited by a
`ConcurrencyLimiter` and their results shared through a `StreamCache`; the two meet
only in that creating an entry may wait for a token or be refused one, which
`StreamCache` leaves to chance.

## TransactionManager

State. `log`, `repo` and `storedLSN` are durable. `run` is the control point of
the goroutine in `Run`; `current`, `todo`, `prepared` are its locals. `locks`,
`committed`, `history` and `appliedLSN` are the fields of the manager with these
names. `tx` has a record per transaction: its control point, its snapshot and
the LSN it is of, the committed entry it is registered with, its updates and its
result. `versions` is a history variable: the contents of the repository as of
every LSN. A `sync.WaitGroup` and the count of readers of a committed entry are
modelled as the sets of those who are counted.

Actions. `Begin`, `StartSnapshot`, one `CopyReference` per reference,
`FinishBegin` and their aborts are `TransactionManager.Begin`. `Commit`,
`Rollback`, `ReceiveResult`, `AbandonResult` and the others up to `Admit` are the
client's half of a commit. `Admit`, `Prepare`, `RejectConflict`, `Reject`,
`AppendLogEntry`, `PushCommittedEntry`, `CommitPrepared`, `FinishAdmitted` are
`processTransaction`, split wherever it releases a lock that a client may take.
`StartApply`, `ApplyOperation`, `storeAppliedLSN`, `NotifyApplied` are
`applyLogEntry`. `Close`, `RunStops`, `RunFails`, `Crash` and `Initialize` end
and start the manager. Every check of `processTransaction` that is not about
reference conflicts is the nondeterministic `Reject`. The queue of completed
transactions only wakes `Run` up and is left out. `Commit` excludes updates that
do not change the reference, as `UpdateReferences` drops them. A writer that updates
no reference (only keys, or nothing) is admitted and logged like any other; `MaxBare`
bounds how many of its entries the log has. An append that fails is one of the
outcomes of `Reject`: `Run` gives the transaction the error and goes on. What the
append may leave behind on disk is covered by `LogManager`. `Prepare` of the reference
conflicts is modelled without its branch for the deletion of a repository
(`conflict/manager.go:79-99`).

Runs.

* `tm_safety`: two transactions, two references with two values, three entries.
  Two writers and three entries are what it takes for one writer's snapshot to be
  two entries behind while the other's entry is dropped. Checks
  `SnapshotIsolation`, `NoLostUpdate`, `HistoryIsCurrent`, `WalkComplete`,
  `LocksReady`, `RepositoryIsReplay`. Here every writer updates a reference.
* `tm_liveness`: two transactions, one reference, two entries, one of which may
  update no reference. Checks `BeginReturns`, `CommitReturnsUnlessClosed`,
  `LogIsApplied`, and the inductive invariant `CommitInv` of the proofs, from which
  the invariants of `tm_safety` and `NoSnapshotDuringApply` follow.
  Goroutines that can go on do (weak fairness). `Admit` is strongly fair per
  transaction since senders on a channel are served in turn. Nothing is assumed
  of cancellations, failures, `Close` and crashes.

A disagreement, which `CommitReturnsUnlessClosed` exempts: a transaction received
by a closing manager gets no result (`transaction_manager.go:1183`), contrary to
the comments at lines 936 and 1693 and to the test at
`transaction_manager_test.go:533`. `MCTransactionManagerHang.cfg` shows it. Other
remarks: a commit is
acknowledged when it has been appended, before it is applied, contrary to the
comments on `TransactionManager` and `Run`. Two more deviations from comments are
harmless to safety, as `WalkComplete` and `HistoryIsCurrent` show: a writer
that begins between the append of an entry and its push to `committedEntries` is
registered with an entry older than its snapshot, contrary to the comment in
`updateCommittedEntry`; and an eviction between `Prepare` and `Commit` leaves a
reference in the history that no LSN evicts any more, contrary to the comment on
`History`.

Proofs (`TransactionManagerProofs`).
`SnapshotIsolation` alone is not inductive:
that a reference has the value of the snapshot's LSN when it is copied follows
from the repository being clean at that moment, which follows from the lock of
the LSN, which `applyLogEntry` waits for. `SnapshotInv` therefore adds: the
applied and stored LSNs agree and `versions` is the replay of the log (`LSNInv`);
who holds which lock and which lock is marked applied (`LockInv`); how far the
entry in progress has been applied (`ApplyInv`). From it, for any number of
transactions, references, values and entries, follow `SnapshotIsolation`,
`RepositoryIsReplay`, `LocksReady` and `NoSnapshotDuringApply`.

`NoLostUpdate` is about entries that are in the log already, while the conflict
check compares with a history that forgets: finishing a transaction evicts the
references of the entries nobody reads any more. `CommitInv` says why it never
forgets too much. Committed entries are consecutive up to the last one pushed
(`EntriesInv`), every writer between `Begin` and its finish is a reader of one at
or before its snapshot (`ReadersInv`), and so a reference the history does not know
has not changed since the snapshot of any such writer; one it knows has its present
value since the LSN recorded for it, or, where that LSN was evicted between `Prepare`
and `Commit`, since all of these snapshots (`HistoryInv`). `PreparedInv` carries
this from the check to the append, while other transactions finish and evict.
`NoLostUpdate`, `HistoryIsCurrent` and `WalkComplete` follow. The proofs use no
assumption but `ConstantsAssumption`. That `FirstRead`, the first entry with a reader,
exists is proved once, by well-founded induction on the naturals
(`FirstReadAlways`); the step lemmas have it as a hypothesis. Writers without
reference updates are covered by all of these theorems.

## LogManager and WriteAheadLog

`wal` is the directory as processes see it, `disks` the set of states it may have
after a power loss: all states since the last sync of the directory, since
directory operations are assumed to reach the disk in order. `storedLSN` and
`consumed` are the durable positions of the two consumers; acknowledging the
application is one step with storing the LSN because the database syncs its
writes. `mutex` says who is inside the manager's critical section, `pruner` is
the control point of the pruning task, `notifyQueue` and `pruningSignal` are its
channels, of capacity one. With `Raft = TRUE` a replica may delete trailing
entries that have not been applied; that Raft replaces no applied entry is
assumed of it.

Run. `log` (Raft, three LSNs, fairness): `CommittedIsDurable`, `NoGap`,
`AppliedIsAppended`, the inductive `LogInv`, which includes the types and from which
`PruneFindsEntry` follows, and `PruningHappens`. The pruning task is strongly fair
since the mutex it needs is released again and again. Three LSNs allow one entry to
be pruned, one to be applied and one to be in progress at the same time. One content
is enough: these properties compare LSNs. Two contents matter for the refinement,
`ImplementsLog`: without Raft, `LogManager` implements `WriteAheadLog`, mapping what
any disk holds up to the appended LSN to the committed entries and what is beyond to
an entry in limbo, which a recovery may commit or a crash may drop. It is proved
(`LogRefinement`), and `MCLogManager.cfg` checks it with two contents.

Violation. `log_truncation_is_durable`: `DeleteTrailingLogEntries` syncs the
parent of `wal/`, so deleted entries can come back. Remarks without a run: the
pruning task reports an error with a blocking send into `notifyQueue`, which
nobody reads once `Run` of the transaction manager has returned; if the queue is
full `Close` waits for the task forever. A comment in `createStateDirectory` expects `MkdirAll` to fail for a directory that exists; it
never does.

Proofs (`LogManagerProofs`). `LogInv` says that whatever part of the moves since
the last sync has reached the disk, `wal/` is an interval of LSNs that agrees with
the memory up to the last pruned entry and entries past the appended LSN. It is
proved inductive for all numbers of contents and LSNs, with and without Raft;
`CommittedIsDurable`, `NoGap`, `AppliedIsAppended` and `PruneFindsEntry` follow,
and, without Raft, the refinement of `WriteAheadLog`.

## VotingTransaction

`subtransactions` is the sequence of subtransactions with the vote and the result
of every node and whether the done channel is closed; the vote counts are derived
from the votes. `call` is each node's `VoteTransaction` call, `rpc` and
`errByNode` its proxied RPC, `outcome` what the request's finalizer decides.
`told` is a history variable: how many votes of a node were answered with
"commit".

A vote is two steps, since the lock of the transaction is released between
choosing the subtransaction and voting in it, and its answer a third. The error
handler of a node's RPC and `cancelNodeVoter` are one step. A node may keep voting
after Praefect has given up on it. A node whose vote is answered with an error
makes its RPC fail. Replication targets outside the transaction are left out. The
repository write lock is too: the model is the code with the feature flag
`PraefectSerializedWrite` disabled.

`newTransaction` refuses a voter it is given twice and thresholds of at
most half or more than all of the weights; the coordinator's voters and threshold always
pass, so there is no action for it.

Runs. `voting`: a primary and two secondaries, two values, two subtransactions, as
a reference update has. Checks `CommittedWithPrimary`, `AnswersStand`,
`DecisionsStand`, `NothingChanged`, `UpdatedAgrees`, the inductive `VotingInv`, and
`VotesReturnUnlessBehind`: every vote is answered unless an RPC fails on a secondary
that is behind (`LeftBehind`). `MCVotingTransactionFour.cfg` checks the safety
properties with three secondaries, where the threshold needs two of them and one can
fail without deciding the vote. A finished request stops, hence no deadlock check.
Votes, answers and RPCs go on (weak fairness); a context ends only with its RPC, and
an RPC that fails on the primary fails on the secondaries too. `VotesAlike`, a
condition of the liveness property and not a part of the specification, says that an
RPC votes as often on every node it succeeds on: otherwise a secondary that succeeds
early leaves the others waiting until their context ends.

Violation. `voting_votes_return` checks `VotesReturn`, which has no exemption:
`cancelNodeVoter` is said to cancel the voters of "all pending subtransactions"
(`transaction.go:323-324`) and the coordinator relies on it to release blocked voters
(`coordinator.go:513-514`), but it returns at the first that is already done (line
350). A secondary that fails before it has voted in a first subtransaction that the
others have committed stays outstanding in the second one, and the primary may wait
for it until its own context ends. The same happens after a secondary was outvoted,
where `getPendingNodeSubtransactions` returns an error.

Other remarks: equal errors do not
imply equal changes, as `coordinator.go` assumes, since a voter whose context ends
after quorum gets an error and keeps its committed result. A secondary that fails after its last
vote has `cancelNodeVoter` create one more subtransaction, which the primary does
not commit; all secondaries are outdated then, for none of the reasons the comment
on `getUpdatedAndOutdatedSecondaries` lists. `cancelNodeVoter` is one step, though it
reads and cancels a subtransaction under two acquisitions of its lock.

Proofs (`VotingTransactionProofs`, which begins with the effect of each action on
the sequence of subtransactions). That nobody commits without the primary rests on the weights: a set of nodes that reaches the threshold contains
the primary, whatever the number of secondaries. That decisions stand also needs
to know when a subtransaction that is done without a commit can no longer reach a
quorum: no vote has enough `Supporters`, those who have cast it and those who may
still do so (`Coherent`). `NodeInv` ties a node's calls to the sequence: it votes in
the order of the subtransactions and at most one ahead of its answers. `FinalInv`
says that the finalizer leaves nothing undecided, so nothing that it has read
changes afterwards. `VotingInv` is their conjunction, proved inductive for any
number of nodes, values, errors and subtransactions; all safety
properties of `voting` follow.

## PartitionManager

`activePartitions`, `inactivePartitions` and `closingPartitions` are the maps of
the storage manager; the second is a sequence in LRU order. `ptn` has a record per
instance of a partition: the control point of its goroutine, its reference count
and whether it is closing. `client` is what each caller of `startPartition` does;
`closer` is `Close`. Whatever is done under the mutex is one step. An instance is
allocated by `StartNew` and may be allocated again when nothing refers to it.
`startPartition` is `StartRefused`, `StartNew`, `StartExisting`, `SetupSucceeds`,
`SetupFails` and `Join`; closing a handle is `Release`, `ReleaseReplaced` or
`ReleaseLast`; the goroutine of an instance is `RunReturns`, `Deregister`,
`CleanUp` and `Done`; `Close` is `CloseManager`, `CloseAll` and `CloseDone`. Run may
return at any time; why is the transaction manager's business. The branch of
`startPartition` that waits for a closing instance has no action: the second
conjunct of `ExclusiveUnlessEvicted` shows that no client gets there.

Runs. `pm_safety`: two partitions, two clients, three instances, one place on
standby, which is the least that makes an eviction, a restart of the evicted
partition and a shared instance happen together. `Counted`: reference counts are
exact. `FilesKept`: the files of a stopped instance are removed when its last
handle is closed, or the storage is. `ExclusiveUnlessEvicted`: as long as a partition
has not been evicted it has one instance, which the manager knows. `pm_liveness`:
one partition, two clients, three instances. `StartReturns` holds although a
client may keep its handle forever; `CloseReturns` too. Goroutines go on and a
closed instance returns from `Run` (weak fairness); nothing makes a client close
its handle.

A disagreement, which `ExclusiveUnlessEvicted` exempts: an evicted partition is
started again while the evicted instance still runs (`partition_manager.go:435`,
against the comment at lines 269-271), and the goroutine of the latter then deletes
the new instance from the maps, out of reach of `Close`. `MCPartitionManagerOne.cfg`
shows it. A remark without a configuration: if
Run of an instance fails and the last handle is closed before `Deregister`, the
instance goes on standby and is removed from there without being closed, so its
goroutine and its files stay until the storage is closed, contrary to the comment
before the wait for `closing`.

Proofs (`PartitionManagerProofs`). `Counted`, `FilesKept` and
`ExclusiveUnlessEvicted` hold for any number of clients (finite, so that handles can
be counted), partitions and instances and any positive size of the standby list, with no
other assumption than `ConstantsAssumption`. `FilesKept` is not inductive: that
an instance whose files are removed gets no handle again rests on its being in
neither map from the moment it is closed (`ClosingInv`), that on an instance being
filed only under its own partition and in one map at a time (`ActiveInv`,
`StandbyInv`, `StandbyOnce`), and that it was closed without users on the counts,
which in turn have a client counted only by the instance it waits for or holds
(`ClientsInv`). `RegisteredInv` extends the first conjunct of `ExclusiveUnlessEvicted`
to instances whose `Run` has returned but that have not yet taken themselves out of
the maps. `PartitionInv` is the conjunction; TLC checked it on the instance of
`pm_safety` before it was proved.

## Replication

`generation`, `replicas`, `primary` and `assignments` are the tables of the
repository store, for one repository; `queue`, `jobLocks` and `acquired` those of
the replication queue. `disk` is what each Gitaly node holds, a set of writes.
`rpc` is the mutator RPC of each write, `worker` the `processBacklog` of each
Praefect node. `slips` records the events that properties exempt. Every SQL statement and every call of a Gitaly
node is one step. Simplifications: `Dequeue` takes any jobs of a storage that are
ready, without the limit of the batch; `StartEvent` is one step for the queries of
the replica path (`replicator.go:604`) and of the source's generation
(`replicator.go:57`), of which only the second reads what the model has; and
`healthy` is both the view of the router and that of the database.

A mutator is `GetPrimary`, `GetConsistentStorages`, `GetHostAssignments` (routing),
`Vote`, one `Commit` per node, `IncrementGeneration` and one `Enqueue` per outdated
secondary; `FinalizerLost` is a Praefect that dies or fails in between. `Vote` picks
any outcome that `VotingTransaction` allows to matter here: which nodes commit. A
worker takes jobs by `Dequeue` and goes through `StartEvent`, `ReplicateRepository`
and `SetGeneration`, or `RemoveRepository` and `DeleteReplica`, to `Acknowledge`; it
may fail, die, or have its jobs taken by `AcknowledgeStale`. `reconcile` is the one
statement of the reconciler. `SetReplicationFactor`, `Unhealthy`, `Healthy` and
`RepositoryLost` are the surroundings.

Runs. `replication`: two storages, two writes, two Praefect nodes, two attempts per
job, one failure or administrative change (`MaxFaults`) at any point. Two writes
are what it takes for one to commit while a job started by the other copies.
`LocksMatch`: the three tables of the queue agree. `GenerationUnlessRaced`: a
replica recorded at a generation holds the write that produced it, unless one of
`Races` has happened: a job was taken from a worker that still runs, a storage was
overwritten while a write was committed to it, or it was overwritten with an earlier
generation than another worker was about to copy from it. `Converges`: replication
catches up. Workers and reconciler run in
loops (weak fairness), and a job lock that nobody renews becomes stale; nothing is
assumed of RPCs, and of health only what `Converges` says. Finished writes and an
empty queue are a legal end, hence no deadlock check. With one failure a job does not
run out of attempts; `MCReplicationAttempts.cfg` has one write and two failures, so
that it does.

`replication_removal`: three storages, one write, one Praefect node, four failures or
administrative changes. `LatestKept`: some replica stays at the latest generation
although the reconciler schedules deletions from a snapshot that is old when the job
runs. Exempt are `Losses`: a Gitaly node lost the repository, a job was taken from a
worker that still runs, an RPC used a storage whose deletion was scheduled, or a
storage that a worker had found without the repository got it back before its row was
removed. With four such events the factor can be reduced, a storage fail to
commit, another be elected and the factor be changed again before the deletion runs:
without the reconciler's guard on generations, or the one that lets a repository lose
one replica at a time, the run fails; with fewer events it does not. (The third guard,
that no job uses the replica, protects these jobs and not the latest generation.)
The search ends where an exempt event happens (`BeforeLoss`), since `LatestKept` says
nothing after it, and permutes the storages.

A disagreement, which `GenerationUnlessRaced` exempts: "the generations guarantee that the
repository has replicated up the changes that produced a given generation number"
(`doc/virtual_storage.md:63-64`), but a job that copies to a storage while that
storage commits a write of its own takes the write away, and the storage is then
counted as updated (`replicator.go:77`). Besides an earlier vote that left the
storage outdated, and so queued the job, no failure is needed.
`MCReplicationRace.cfg` shows it. Other remarks:

* A `delete_replica` job whose `RemoveRepository` succeeded and whose
  `DeleteReplica` failed never completes: every retry finds no repository.
* A deletion scheduled while an RPC is in flight that was routed to the storage can
  remove the only latest replica: `LatestKeptByWrites`, which does not exempt this,
  is violated by `MCReplicationDropped.cfg`.
* A Praefect that dies after the nodes have committed and before
  `IncrementGeneration` leaves replicas that differ at the same generation. The
  comment at `coordinator.go:1109` accepts this, and `GenerationGuarantee` says
  nothing of a write without a generation.
* If `IncrementGeneration` refuses a write to outdated nodes, the write stays on
  disk.
* The late `Acknowledge` of a worker whose jobs were declared stale completes
  the job of the worker that has taken it.
* A job that is out of attempts below zero and then goes stale stays in progress
  without a lock.

Left out: creating, renaming and removing repositories, accessors, jobs of the kind
`delete`, which are no longer scheduled, and the repository's replica paths.

Proofs (`ReplicationStepProofs`, `ReplicationProofs`). `LocksMatch`,
`GenerationUnlessRaced` and `LatestKept` hold for any storages, writes and Praefect
nodes, any number of attempts and faults, from `ReplicationAssumption`. The inductive
`ReplicationInv` has four sides. The queue: a row is known by its number and target,
there is one deletion at a time, and as long as no job was taken from a living worker,
a worker's jobs are those in progress under its locks, and no other worker has jobs of
the same storage (`QueueInv`, `Fits`, `HeldInv`). The store: no generation exceeds
the repository's, and a worker copies only to a replica that is behind (`StoreInv`,
`Finalizes`, `Behind`). What generations guarantee: what a worker has read of its
source is still true when it records it for the target (`GenerationInv`). And what is
kept: a storage that is going to be removed is never the only one at the latest
generation, nor used by an RPC, and a storage without the repository has no row or is
being removed (`KeptInv`). Two facts on numbers are carried along: jobs have a highest
number (`Numbered`), so a new one is fresh, and sets of naturals have a least element
(`Least`), so that a batch has a first job. TLC checked `ReplicationInv` on small
instances before it was proved.

## ConcurrencyLimiter

One limiting key. `limiter` is its entry in `limitsByKey`: the reference count and
the two semaphores, each with the fields of `resizableSemaphore`, its waiters front
first. `call` is where each call of `Limit` is; `current` is the adaptive limit,
`hook` how far its update hook is, `backoff` and `event` belong to the calculator.
Every section under one mutex is a step. `Limit`, `GetConcurrencyLimit`,
`CreateQueueTokens`, `CreateConcurrencyTokens`, `Insert`, `TryAcquire`, `Acquire`,
`StopWaiter`, `ReleaseQueueToken`, `Release` and `PutConcurrencyLimit` are a call;
`SetLastBackoffEvent`, `ReadBackoffEvent`, `Update`, `ResizeTokens` and
`ResizeEvicted` are load monitor, calculator and hook.

Run. `limiter`: three calls, limits from 1 to 2, a queue of one; so there can be a call
that runs, one that waits and one that is refused, while the limit moves both ways.
`TokensExact`, `NoIdleToken`, `SizesFollow`, `LimitReturns`. Larger instances
checked once: the invariants with four calls and limits up to 4, `LimitReturns`
with limits up to 3. Steps of a call are strongly fair: a Go mutex hands over to a
goroutine that has waited long, and the wait for a token has a deadline. An update
that has begun ends. Nothing is assumed of the limited function, the load monitor
and the timer.

Remarks. The list of waiters is "a FIFO list" (`resizable_semaphore.go:35`), but
waiters are pushed to and served from its front (line 73), so only the deadline
bounds the wait of the first. The update hook walks `limitsByKey` without its mutex: a
limiter created across an update keeps the old sizes, contrary to
`concurrency_limiter.go:171`; `SizesFollow` exempts it (`raced`). That Go may stop
a process that walks a map while it is written is outside the model. Were the
hook to take the mutex, it would deadlock with `getConcurrencyLimit`, which reads
the limit with it held. A backoff event between the reading and the resetting of
`adaptive_calculator.go:178` is lost. Left out: limits of zero and queues without
a length, a wait without a deadline, other backoff factors than 1/2, several keys,
the dual limiter, the conditions of the load monitor.

Proofs (`ConcurrencyLimiterProofs`). `TokensExact`, `NoIdleToken` and `SizesFollow`
hold for any finite set of calls, any limits from 1 on and any positive length of the
queue, which is what `LimiterAssumption` says. `LimiterInv` is the inductive
invariant. To the three and the types it adds that no waiter is listed twice and none
waits for a queue token (`WaitersInv`: a waiter that is woken gets exactly one token);
that one call at a time makes a limiter, only when there is none, and that without one
nobody uses it (`CreationInv`: an insertion replaces no limiter in use, and starts
with the right counts); and that the hook, between its two resizes, works on the
limiter of the map, whose queue has its new size already, unless that limiter was
evicted, in which case there is none until the update has ended (`HookInv`). The lemmas
about a semaphore say what `NotifyWaiters`, `Released`, `Resized` and `Without` do to
its tokens and its list. A step moves one call together with its tokens; where it also
lets waiters in, as many tokens are taken as calls leave the list. TLC checked
`LimiterInv` on the instance of `limiter` before it was proved.

## StreamCache

`index` is the map of entries, `entry` the entries with their pipe and the control
point of the goroutine that creates them, `client` the calls of `Fetch`. `Fetch` is
`GetStreamHit`, `GetStreamMiss` or `GetStreamError`, then `Read`, `WaitReadable`,
`Notified`, `EndOfFile` and `Wait`; `ReadFails` and `WaitCanceled` are where it
notices that its client has hung up. The creating goroutine is `Write`,
`WaitWritable`, `WriterNotified`, `SetPosition`, `CreateReturns`, `Close`, `Delete`,
`SetError`. `Clean` evicts an entry, `RemoveFile` is the file store. Cursors count
chunks. `signals` are the notifications of an entry's cursors that have not been taken: a
channel holds one, so further ones are dropped, and one may be stale when it is
taken. What nobody looks at any more (`rcursor` once `create` has returned, the
file of an entry that is not in the index, an entry without readers) is reset.

Run. `stream_cache`: two clients of one key, contents of two chunks, with
backpressure: the second client may share the entry of the first, be refused by a
pipe that is being abandoned, or follow a failed or evicted entry. `ServedComplete`,
`ReadersKeepPipe`, `PrunedBeforeTold`, `FetchReturns`. Checked once: the same without
backpressure, and the invariants with three clients and one chunk. Clients take
what they are sent and `create` goes on (weak fairness); that clients hang up
or `create` fails is not counted on. All clients served is a legal end, hence no deadlock check.

Remarks. A creator that fails deletes whatever entry its key has by then
(`cache.go:316`), which may be a newer one: work is done twice, no reader is
harmed. Left out: `minOccurrences`, `Stop`, `sendfile`, panics of `create`. That
closing the pipe's file fails (`p.w.Close()`) is no outcome of its own; like an error
of `create`, it would be the entry's error.

Proofs (`StreamCacheProofs`). `ServedComplete`, `ReadersKeepPipe` and
`PrunedBeforeTold` hold for any clients, keys and length of the contents, with and
without backpressure, from `CacheAssumption`. A Fetch succeeds where its entry is done
without an error and it has seen the end of the file, so `CacheInv` says what both
mean: the pipe of an entry is closed with everything in the file that was written,
all of the contents unless there is an error, and broken only without readers
(`Sound`); the readers of an entry are the Fetches that read from it, and one that
waits for `create` has read what is written (`ReadersInv`); the index has no entry
whose waiters may be told of an error (`IndexInv`). A step is a composition of a few
small changes (a reader joins, gets on or leaves; the entry's goroutine gets on; a
key is removed; garbage is collected), each shown to preserve the invariant. TLC
checked `CacheInv` on the instance of `stream_cache` before it was proved.

## Disagreements and runs

`log_truncation_is_durable` and `voting_votes_return` are runs that are expected to
fail. The other disagreements described above are each named as an exemption in a
passing run; their configurations are kept, and TLC reports the violation with

    tlc -config MCTransactionManagerHang.cfg MCTransactionManager
    tlc -config MCPartitionManagerOne.cfg MCPartitionManager
    tlc -config MCReplicationRace.cfg MCReplication
    tlc -config MCReplicationDropped.cfg MCReplication

Three more configurations check larger or other instances without an error:
`MCLogManager.cfg` (the refinement), `MCVotingTransactionFour.cfg` (three secondaries)
and `MCReplicationAttempts.cfg` (jobs out of attempts).

## What TLAPS does not prove

Liveness is model-checked only: it rests on fairness and `ENABLED`.

## Not modelled

* File system and key-value conflicts: one nondeterministic outcome (`Reject`) of
  `TransactionManager`. So the hazards at `transaction_manager.go:1998` and
  `fshistory/tree.go:245` are listed without a property.
* Snapshot manager: every transaction has a snapshot of its own; sharing and
  caching are left out.
* Partition assigner: the partition of a repository is an input of
  `PartitionManager`.
* Log entry archiver and Raft replica: present as the consumer and the truncating
  caller of `LogManager`; their own loops are not. Consensus is an external library.
* Repository write lock: see `VotingTransaction`.
* Disk cache, bundle generation: not undertaken. The cat-file cache is a list
  under one mutex.
* RPC services, Git access, hooks, housekeeping and the rest, as in the table.

These could be modelled; snapshot manager and archiver, composed with
`WriteAheadLog`, would be next.
