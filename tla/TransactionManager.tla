------------------------- MODULE TransactionManager -------------------------
(***************************************************************************)
(* The transaction manager of one partition                                *)
(* (internal/gitaly/storage/storagemgr/partition/transaction_manager.go).  *)
(*                                                                         *)
(* Clients begin transactions, read a snapshot of the repository, and      *)
(* commit reference updates.  One goroutine, Run, admits the committing    *)
(* transactions one at a time, checks them for conflicts, appends them to  *)
(* the write-ahead log and applies the log to the repository.  The log,    *)
(* the repository and the stored applied LSN survive a crash; everything   *)
(* else is memory of the process.                                          *)
(*                                                                         *)
(* A repository is a function from references to values.  The remaining    *)
(* checks of processTransaction (objects, files, key-values, housekeeping) *)
(* are one nondeterministic rejection here, see Reject.                    *)
(***************************************************************************)
EXTENDS Naturals, Sequences, FiniteSets

CONSTANTS
  Txns,       \* identities of transactions; one is reused once it has finished
  Refs,       \* references of the repository
  Values,     \* values of a reference
  InitValue,  \* value of every reference in the empty log
  NoValue,    \* stands for "not updated", "not read yet", "not in the history"
  NoTxn,      \* Run is not processing a transaction
  MaxLSN,     \* bound on the length of the log
  MaxBare     \* no writer that updates no reference once the log has so many

ASSUME ConstantsAssumption ==
  /\ IsFiniteSet(Txns) /\ NoTxn \notin Txns
  /\ InitValue \in Values /\ NoValue \notin Values
  /\ MaxLSN \in Nat /\ MaxBare \in Nat

VARIABLES
  \* Durable state.
  log,        \* the entries of the write-ahead log; log[l] has LSN l
  repo,       \* the repository, modified while a log entry is applied
  storedLSN,  \* value of keyAppliedLSN in the database
  \* Memory of the manager.
  run,        \* control point of the goroutine executing Run
  closing,    \* whether mgr.ctx has been cancelled
  current,    \* the transaction processTransaction has received
  todo,       \* references of the entry being applied that are not written yet
  appliedLSN, \* mgr.appliedLSN
  locks,      \* mgr.snapshotLocks
  committed,  \* mgr.committedEntries, front first
  history,    \* mgr.conflictMgr: the reference history of the repository
  prepared,   \* root of the prepared reference transaction
  \* Transactions.
  tx,
  \* History variable, used in properties only.
  versions    \* versions[l + 1] is the repository as of LSN l

durable == <<log, repo, storedLSN, versions>>
vars == <<log, repo, storedLSN, run, closing, current, todo, appliedLSN, locks,
          committed, history, prepared, tx, versions>>

-----------------------------------------------------------------------------
LSNs == 0..MaxLSN
MaybeValues == Values \cup {NoValue}
Updates == [Refs -> MaybeValues]
Updated(u) == {r \in Refs : u[r] # NoValue}
BareEntries == {l \in DOMAIN log : Updated(log[l].update) = {}}

\* The contents s with the update u on top.
Overlay(s, u) == [r \in Refs |-> IF u[r] = NoValue THEN s[r] ELSE u[r]]

Nothing == [r \in Refs |-> NoValue]
EmptyHistory == [root |-> Nothing, lsn |-> [r \in Refs |-> 0], updaters |-> {}]

IdleTx == [pc |-> "idle", write |-> FALSE, lsn |-> 0, entry |-> 0,
           snapshot |-> Nothing, update |-> Nothing, result |-> "none", commitLSN |-> 0]

appendedLSN == Len(log)

-----------------------------------------------------------------------------
(* Snapshot locks.  A WaitGroup is the set of the transactions in it.      *)

NewLock == [applied |-> FALSE, snapshotters |-> {}]

createSnapshotLockIfNeeded(ls, lsn) ==
  [l \in DOMAIN ls \cup {lsn} |-> IF l \in DOMAIN ls THEN ls[l] ELSE NewLock]

\* activeSnapshotters.Add(1) on the lock of an LSN.
SnapshotterAdd(ls, lsn, t) ==
  [ls EXCEPT ![lsn] = [applied |-> ls[lsn].applied,
                       snapshotters |-> ls[lsn].snapshotters \cup {t}]]

\* activeSnapshotters.Done(): the transaction holds the lock itself, which
\* stays reachable only from it once the lock is deleted from the map.
SnapshotterDone(t) ==
  locks' = [l \in DOMAIN locks |->
              IF l = tx[t].lsn
                THEN [applied |-> locks[l].applied,
                      snapshotters |-> locks[l].snapshotters \ {t}]
                ELSE locks[l]]

-----------------------------------------------------------------------------
(* Committed entries.  snapshotReaders is the set of the writers counted;  *)
(* logged is FALSE for the placeholder of a snapshot whose entry is nil.   *)

updateCommittedEntry(t, lsn) ==
  IF committed # <<>>
    THEN [committed EXCEPT ![Len(committed)].readers = @ \cup {t}]
    ELSE <<[lsn |-> lsn, logged |-> FALSE, readers |-> {t}]>>

Unread(c, t, lsn) ==
  [i \in DOMAIN c |->
     IF c[i].lsn = lsn THEN [c[i] EXCEPT !.readers = @ \ {t}] ELSE c[i]]

\* Mutant: entries are dropped although older writers still read them.
FirstReadIgnored(c) == Len(c) + 1

\* Position of the first entry that still has readers.
FirstRead(c) ==
  CHOOSE i \in 1..(Len(c) + 1) :
    /\ \A j \in 1..(i - 1) : c[j].readers = {}
    /\ i <= Len(c) => c[i].readers # {}

\* EvictLSN for every LSN of a set.  The references an LSN was the last to
\* update leave the history; a history no LSN updates any more is dropped.
EvictLSNs(h, lsns) ==
  LET updaters == h.updaters \ lsns
      evicted == {r \in Refs : h.lsn[r] \in h.updaters \cap lsns}
  IN  IF updaters = {} /\ h.updaters # {}
        THEN EmptyHistory
        ELSE [root |-> [r \in Refs |-> IF r \in evicted THEN NoValue ELSE h.root[r]],
              lsn |-> [r \in Refs |-> IF r \in evicted THEN 0 ELSE h.lsn[r]],
              updaters |-> updaters]

cleanCommittedEntry(t) ==
  LET c == Unread(committed, t, tx[t].entry)
      first == FirstRead(c)
  IN  /\ committed' = SubSeq(c, first, Len(c))
      /\ history' = EvictLSNs(history, {c[j].lsn : j \in 1..(first - 1)})

\* transaction.finish: a writer releases its committed entry.
finish(t) ==
  IF tx[t].write
    THEN cleanCommittedEntry(t)
    ELSE UNCHANGED <<committed, history>>

-----------------------------------------------------------------------------
(* Begin.                                                                  *)

\* The section under mgr.mutex: pick the snapshot, join its lock and, as a
\* writer, register as a reader of the last committed entry.
Begin(t, write) ==
  /\ tx[t].pc = "idle"
  /\ run # "down"
  /\ tx' = [tx EXCEPT ![t] =
       [IdleTx EXCEPT !.pc = "begun", !.write = write, !.lsn = appendedLSN,
          !.entry = IF write
                      THEN LET c == updateCommittedEntry(t, appendedLSN)
                           IN  c[Len(c)].lsn
                      ELSE 0]]
  /\ locks' = SnapshotterAdd(createSnapshotLockIfNeeded(locks, appendedLSN), appendedLSN, t)
  /\ committed' = IF write THEN updateCommittedEntry(t, appendedLSN) ELSE committed
  /\ UNCHANGED <<durable, run, closing, current, todo, appliedLSN, history, prepared>>

\* Mutant: Begin does not wait for its LSN to be applied.
StartSnapshotUnapplied(t) ==
  /\ tx[t].pc = "begun"
  /\ tx' = [tx EXCEPT ![t].pc = "snapshotting"]
  /\ UNCHANGED <<durable, run, closing, current, todo, appliedLSN, locks,
                 committed, history, prepared>>

\* readReady: the snapshot's LSN has been applied.
StartSnapshot(t) ==
  /\ tx[t].pc = "begun"
  /\ locks[tx[t].lsn].applied
  /\ tx' = [tx EXCEPT ![t].pc = "snapshotting"]
  /\ UNCHANGED <<durable, run, closing, current, todo, appliedLSN, locks,
                 committed, history, prepared>>

\* The snapshot is copied file by file while Run goes on.
CopyReference(t, r) ==
  /\ tx[t].pc = "snapshotting"
  /\ tx[t].snapshot[r] = NoValue
  /\ tx' = [tx EXCEPT ![t].snapshot[r] = repo[r]]
  /\ UNCHANGED <<durable, run, closing, current, todo, appliedLSN, locks,
                 committed, history, prepared>>

\* Begin returns the transaction and leaves the lock.
FinishBegin(t) ==
  /\ tx[t].pc = "snapshotting"
  /\ \A r \in Refs : tx[t].snapshot[r] # NoValue
  /\ tx' = [tx EXCEPT ![t].pc = "open"]
  /\ SnapshotterDone(t)
  /\ UNCHANGED <<durable, run, closing, current, todo, appliedLSN, committed,
                 history, prepared>>

\* Begin fails: its deferred functions finish the transaction.
AbortBegin(t) ==
  /\ tx' = [tx EXCEPT ![t] = IdleTx]
  /\ SnapshotterDone(t)
  /\ finish(t)
  /\ UNCHANGED <<durable, run, closing, current, todo, appliedLSN, prepared>>

\* The client's context is cancelled or taking the snapshot fails.
BeginCancelled(t) ==
  /\ tx[t].pc \in {"begun", "snapshotting"}
  /\ AbortBegin(t)

\* ErrTransactionProcessingStopped while waiting for the snapshot.
BeginStopped(t) ==
  /\ tx[t].pc = "begun"
  /\ closing
  /\ AbortBegin(t)

-----------------------------------------------------------------------------
(* The client's calls on an open transaction.                              *)

\* finishUnadmitted and the return to the client.
Return(t) ==
  /\ tx' = [tx EXCEPT ![t] = IdleTx]
  /\ finish(t)
  /\ UNCHANGED <<durable, run, closing, current, todo, appliedLSN, locks, prepared>>

\* Rollback, Commit of a read-only transaction, or a Commit that fails to stage
\* the entry.
Rollback(t) ==
  /\ tx[t].pc = "open"
  /\ Return(t)

\* UpdateReferences drops updates to the value already seen; Commit stages the
\* rest and offers the transaction for admission.  A writer that updates no
\* reference, because it only writes keys or nothing at all, is logged too.
Commit(t, u) ==
  /\ tx[t].pc = "open"
  /\ tx[t].write
  /\ \A r \in Updated(u) : u[r] # tx[t].snapshot[r]
  /\ Updated(u) = {} => Cardinality(BareEntries) < MaxBare
  /\ tx' = [tx EXCEPT ![t] = [@ EXCEPT !.pc = "queued", !.update = u]]
  /\ UNCHANGED <<durable, run, closing, current, todo, appliedLSN, locks,
                 committed, history, prepared>>

\* The client's context is cancelled before the admission.
CommitCancelled(t) ==
  /\ tx[t].pc = "queued"
  /\ Return(t)

\* The manager is stopped before the admission.
CommitStopped(t) ==
  /\ tx[t].pc = "queued"
  /\ closing
  /\ Return(t)

\* Commit returns.  Run may still have to finish the transaction.
ReturnAdmitted(t) ==
  /\ tx' = [tx EXCEPT ![t] = IF current = t THEN [@ EXCEPT !.pc = "returned"] ELSE IdleTx]
  /\ UNCHANGED <<durable, run, closing, current, todo, appliedLSN, locks,
                 committed, history, prepared>>

\* Commit returns the result sent by Run.
ReceiveResult(t) ==
  /\ tx[t].pc = "admitted"
  /\ tx[t].result # "none"
  /\ ReturnAdmitted(t)

\* The client's context is cancelled while it waits for the result.
AbandonResult(t) ==
  /\ tx[t].pc = "admitted"
  /\ ReturnAdmitted(t)

-----------------------------------------------------------------------------
(* Run: processTransaction.                                                *)

\* The loop of Run processes a transaction only if there is nothing to apply.
Admit(t) ==
  /\ run = "loop" /\ appliedLSN = appendedLSN
  /\ tx[t].pc = "queued"
  /\ ~closing
  /\ tx' = [tx EXCEPT ![t].pc = "admitted"]
  /\ run' = "admitted"
  /\ current' = t
  /\ UNCHANGED <<durable, closing, todo, appliedLSN, locks, committed, history, prepared>>

\* The select received the transaction although ctx is done: the check after
\* it returns, and the deferred function finishes the transaction.
AdmitWhileClosing(t) ==
  /\ run = "loop" /\ appliedLSN = appendedLSN
  /\ tx[t].pc = "queued"
  /\ closing
  /\ tx' = [tx EXCEPT ![t].pc = "admitted"]
  /\ finish(t)
  /\ run' = "exited"
  /\ UNCHANGED <<durable, closing, current, todo, appliedLSN, locks, prepared>>

\* Mutant: references are not checked for conflicts.
ConflictingUnchecked(t) == FALSE

\* A reference conflicts if the history has another value for it than the
\* one the transaction has seen.
Conflicting(t) ==
  \E r \in Updated(tx[t].update) :
    history.root[r] \notin {NoValue, tx[t].snapshot[r]}

\* Mutant: the update is prepared in the history itself, not in a clone.
PrepareInPlace ==
  /\ run = "admitted"
  /\ ~Conflicting(current)
  /\ prepared' = Overlay(history.root, tx[current].update)
  /\ history' = [history EXCEPT !.root = prepared']
  /\ run' = "prepared"
  /\ UNCHANGED <<durable, closing, current, todo, appliedLSN, locks, committed, tx>>

\* conflictMgr.Prepare, in a section of mgr.mutex of its own.
Prepare ==
  /\ run = "admitted"
  /\ ~Conflicting(current)
  /\ prepared' = Overlay(history.root, tx[current].update)
  /\ run' = "prepared"
  /\ UNCHANGED <<durable, closing, current, todo, appliedLSN, locks, committed,
                 history, tx>>

\* Mutant: a rejected transaction is sent no result.
SendNothing ==
  /\ prepared' = Nothing
  /\ run' = "finishing"
  /\ UNCHANGED <<durable, closing, current, todo, appliedLSN, locks, committed, history, tx>>

SendError ==
  /\ tx' = [tx EXCEPT ![current].result = "error"]
  /\ prepared' = Nothing
  /\ run' = "finishing"
  /\ UNCHANGED <<durable, closing, current, todo, appliedLSN, locks, committed, history>>

\* Prepare fails with a reference conflict.
RejectConflict ==
  /\ run = "admitted"
  /\ Conflicting(current)
  /\ SendError

\* Any other check, or appending the entry, fails.
Reject ==
  /\ run \in {"admitted", "prepared"}
  /\ SendError

\* logManager.AppendLogEntry: from here on new transactions read the entry.
AppendLogEntry ==
  /\ run = "prepared"
  /\ appendedLSN < MaxLSN
  /\ log' = Append(log, [update |-> tx[current].update, base |-> tx[current].lsn])
  /\ versions' = Append(versions, Overlay(versions[Len(versions)], tx[current].update))
  /\ run' = "appended"
  /\ UNCHANGED <<repo, storedLSN, closing, current, todo, appliedLSN,
                 locks, committed, history, prepared, tx>>

\* committedEntries.PushBack, in a section of mgr.mutex of its own.
PushCommittedEntry ==
  /\ run = "appended"
  /\ committed' = Append(committed, [lsn |-> appendedLSN, logged |-> TRUE, readers |-> {}])
  /\ run' = "pushed"
  /\ UNCHANGED <<durable, closing, current, todo, appliedLSN, locks, history, prepared, tx>>

\* The prepared root replaces the history's, and the LSN becomes the last to
\* have updated its references.  Without reference updates Prepare returned a
\* transaction that commits nothing.
CommitUpdates(h, root, u, lsn) ==
  IF Updated(u) = {}
    THEN h
    ELSE [root |-> root,
          lsn |-> [r \in Refs |-> IF r \in Updated(u) THEN lsn ELSE h.lsn[r]],
          updaters |-> h.updaters \cup {lsn}]

\* preparedTX.Commit under mgr.mutex, then the result is sent.
CommitPrepared ==
  /\ run = "pushed"
  /\ history' = CommitUpdates(history, prepared, tx[current].update, appendedLSN)
  /\ prepared' = Nothing
  /\ tx' = [tx EXCEPT ![current] = [@ EXCEPT !.result = "ok", !.commitLSN = appendedLSN]]
  /\ run' = "finishing"
  /\ UNCHANGED <<durable, closing, current, todo, appliedLSN, locks, committed>>

\* The deferred transaction.finish(true).
FinishAdmitted ==
  /\ run = "finishing"
  /\ finish(current)
  /\ current' = NoTxn
  /\ run' = "loop"
  /\ tx' = [tx EXCEPT ![current] = IF @.pc = "returned" THEN IdleTx ELSE @]
  /\ UNCHANGED <<durable, closing, todo, appliedLSN, locks, prepared>>

-----------------------------------------------------------------------------
(* Run: applyLogEntry.                                                     *)

\* Mutant: all snapshotters are waited for, those of later LSNs included.
StartApplyWaitForAll ==
  /\ run = "loop" /\ appliedLSN < appendedLSN
  /\ \A l \in DOMAIN locks : locks[l].snapshotters = {}
  /\ locks' = [l \in DOMAIN locks \ {appliedLSN} |-> locks[l]]
  /\ todo' = Updated(log[appliedLSN + 1].update)
  /\ run' = "applying"
  /\ UNCHANGED <<durable, closing, current, appliedLSN, committed, history, prepared, tx>>

\* Wait for the snapshotters of the previous LSN and drop its lock.
StartApply ==
  /\ run = "loop" /\ appliedLSN < appendedLSN
  /\ locks[appliedLSN].snapshotters = {}
  /\ locks' = [l \in DOMAIN locks \ {appliedLSN} |-> locks[l]]
  /\ todo' = Updated(log[appliedLSN + 1].update)
  /\ run' = "applying"
  /\ UNCHANGED <<durable, closing, current, appliedLSN, committed, history, prepared, tx>>

ApplyOperation(r) ==
  /\ run = "applying"
  /\ r \in todo
  /\ repo' = [repo EXCEPT ![r] = log[appliedLSN + 1].update[r]]
  /\ todo' = todo \ {r}
  /\ UNCHANGED <<log, storedLSN, versions, run, closing, current, appliedLSN,
                 locks, committed, history, prepared, tx>>

\* Mutant: the applied LSN is stored before all operations are performed.
storeAppliedLSNEarly ==
  /\ run = "applying"
  /\ storedLSN' = appliedLSN + 1
  /\ appliedLSN' = appliedLSN + 1
  /\ run' = "stored"
  /\ UNCHANGED <<log, repo, versions, closing, current, todo, locks,
                 committed, history, prepared, tx>>

storeAppliedLSN ==
  /\ run = "applying"
  /\ todo = {}
  /\ storedLSN' = appliedLSN + 1
  /\ appliedLSN' = appliedLSN + 1
  /\ run' = "stored"
  /\ UNCHANGED <<log, repo, versions, closing, current, todo, locks,
                 committed, history, prepared, tx>>

\* Mutant: the waiting transactions are not woken.
NotifyNobody ==
  /\ run = "stored"
  /\ locks' = createSnapshotLockIfNeeded(locks, appliedLSN)
  /\ run' = "loop"
  /\ UNCHANGED <<durable, closing, current, todo, appliedLSN, committed, history,
                 prepared, tx>>

\* Wake the transactions that wait for the entry before their snapshot.
NotifyApplied ==
  /\ run = "stored"
  /\ LET ls == createSnapshotLockIfNeeded(locks, appliedLSN)
     IN  locks' = [ls EXCEPT ![appliedLSN] =
                     [applied |-> TRUE, snapshotters |-> ls[appliedLSN].snapshotters]]
  /\ run' = "loop"
  /\ UNCHANGED <<durable, closing, current, todo, appliedLSN, committed, history,
                 prepared, tx>>

-----------------------------------------------------------------------------
(* The manager's life.                                                     *)

\* The partition is closed.
Close ==
  /\ run # "down"
  /\ ~closing
  /\ closing' = TRUE
  /\ UNCHANGED <<durable, run, current, todo, appliedLSN, locks, committed,
                 history, prepared, tx>>

\* ctx.Done() received by processTransaction.
RunStops ==
  /\ run = "loop" /\ appliedLSN = appendedLSN
  /\ closing
  /\ run' = "exited"
  /\ UNCHANGED <<durable, closing, current, todo, appliedLSN, locks, committed,
                 history, prepared, tx>>

\* Applying an entry, the log manager or a clean-up worker fails: Run returns
\* the error and cancels mgr.ctx.
RunFails ==
  /\ run \in {"loop", "applying"}
  /\ run' = "exited"
  /\ closing' = TRUE
  /\ UNCHANGED <<durable, current, todo, appliedLSN, locks, committed, history,
                 prepared, tx>>

\* The process dies: the transactions and the manager's memory are gone.
Crash ==
  /\ run # "down"
  /\ run' = "down"
  /\ closing' = FALSE
  /\ current' = NoTxn
  /\ todo' = {}
  /\ appliedLSN' = 0
  /\ locks' = << >>
  /\ committed' = << >>
  /\ history' = EmptyHistory
  /\ prepared' = Nothing
  /\ tx' = [t \in Txns |-> IdleTx]
  /\ UNCHANGED durable

\* Mutant: recovered locks are opened although their entries are not applied.
InitializeAllApplied ==
  /\ run = "down"
  /\ appliedLSN' = storedLSN
  /\ locks' = [l \in storedLSN..appendedLSN |-> [applied |-> TRUE, snapshotters |-> {}]]
  /\ run' = "loop"
  /\ UNCHANGED <<durable, closing, current, todo, committed, history, prepared, tx>>

\* NewTransactionManager and initialize.
Initialize ==
  /\ run = "down"
  /\ appliedLSN' = storedLSN
  /\ locks' = [l \in storedLSN..appendedLSN |->
                 [applied |-> l = storedLSN, snapshotters |-> {}]]
  /\ run' = "loop"
  /\ UNCHANGED <<durable, closing, current, todo, committed, history, prepared, tx>>

-----------------------------------------------------------------------------
Init ==
  /\ log = << >>
  /\ repo = [r \in Refs |-> InitValue]
  /\ storedLSN = 0
  /\ run = "down"
  /\ closing = FALSE
  /\ current = NoTxn
  /\ todo = {}
  /\ appliedLSN = 0
  /\ locks = << >>
  /\ committed = << >>
  /\ history = EmptyHistory
  /\ prepared = Nothing
  /\ tx = [t \in Txns |-> IdleTx]
  /\ versions = <<[r \in Refs |-> InitValue]>>

\* The steps of the goroutine executing Run.
RunStep ==
  \/ \E t \in Txns : Admit(t) \/ AdmitWhileClosing(t)
  \/ Prepare
  \/ RejectConflict
  \/ Reject
  \/ AppendLogEntry
  \/ PushCommittedEntry
  \/ CommitPrepared
  \/ FinishAdmitted
  \/ StartApply
  \/ \E r \in Refs : ApplyOperation(r)
  \/ storeAppliedLSN
  \/ NotifyApplied
  \/ RunStops

\* The steps by which Begin takes the snapshot.
SnapshotStep(t) ==
  \/ StartSnapshot(t)
  \/ \E r \in Refs : CopyReference(t, r)
  \/ FinishBegin(t)

ClientStep(t) ==
  \/ \E write \in BOOLEAN : Begin(t, write)
  \/ SnapshotStep(t)
  \/ BeginCancelled(t)
  \/ BeginStopped(t)
  \/ Rollback(t)
  \/ \E u \in Updates : Commit(t, u)
  \/ CommitCancelled(t)
  \/ CommitStopped(t)
  \/ ReceiveResult(t)
  \/ AbandonResult(t)

Next ==
  \/ RunStep
  \/ RunFails
  \/ \E t \in Txns : ClientStep(t)
  \/ Close
  \/ Crash
  \/ Initialize

Spec == Init /\ [][Next]_vars

\* Goroutines are scheduled fairly.  The admission queue is an unbuffered
\* channel whose waiting senders are served in order.  Nothing makes a client
\* give up, Run fail, the partition close, or the process crash.
Fairness ==
  /\ WF_vars(RunStep)
  /\ \A t \in Txns :
       /\ WF_vars(SnapshotStep(t))
       /\ WF_vars(BeginStopped(t))
       /\ WF_vars(CommitStopped(t))
       /\ WF_vars(ReceiveResult(t))
       /\ SF_vars(Admit(t))

FairSpec == Spec /\ Fairness

-----------------------------------------------------------------------------
(* Properties.                                                             *)

Entry == [update : [Refs -> MaybeValues], base : LSNs]
Lock == [applied : BOOLEAN, snapshotters : SUBSET Txns]
History == [root : [Refs -> MaybeValues], lsn : [Refs -> LSNs], updaters : SUBSET LSNs]
CommittedEntry == [lsn : LSNs, logged : BOOLEAN, readers : SUBSET Txns]
Tx == [pc : {"idle", "begun", "snapshotting", "open", "queued", "admitted", "returned"},
       write : BOOLEAN, lsn : LSNs, entry : LSNs, snapshot : [Refs -> MaybeValues],
       update : [Refs -> MaybeValues], result : {"none", "ok", "error"},
       commitLSN : LSNs]

\* Every variable has its type; the log is within its bound.
TypeOK ==
  /\ log \in Seq(Entry) /\ Len(log) <= MaxLSN
  /\ repo \in [Refs -> Values]
  /\ storedLSN \in LSNs /\ appliedLSN \in LSNs
  /\ run \in {"down", "loop", "admitted", "prepared", "appended", "pushed",
              "finishing", "applying", "stored", "exited"}
  /\ closing \in BOOLEAN
  /\ current \in Txns \cup {NoTxn}
  /\ todo \in SUBSET Refs
  /\ DOMAIN locks \in SUBSET LSNs /\ \A l \in DOMAIN locks : locks[l] \in Lock
  /\ committed \in Seq(CommittedEntry)
  /\ history \in History
  /\ prepared \in [Refs -> MaybeValues]
  /\ tx \in [Txns -> Tx]
  /\ versions \in Seq([Refs -> Values]) /\ Len(versions) = Len(log) + 1

\* Begin promises a snapshot of all that was committed before it and of
\* nothing later: whatever has been copied so far, while Run keeps committing
\* and applying, is the repository as of exactly the snapshot's LSN.
SnapshotIsolation ==
  \A t \in Txns :
    /\ tx[t].pc \in {"snapshotting", "open", "queued", "admitted"} =>
         \A r \in Refs : tx[t].snapshot[r] \in {NoValue, versions[tx[t].lsn + 1][r]}
    /\ tx[t].pc \in {"open", "queued", "admitted"} =>
         \A r \in Refs : tx[t].snapshot[r] # NoValue

\* The conflict check keeps updates from being lost: the value an entry
\* replaces is the one its transaction saw in its snapshot, however many
\* entries were committed in between and whatever was evicted from the history.
NoLostUpdate ==
  \A l \in 1..Len(log) : \A r \in Updated(log[l].update) :
    versions[l][r] = versions[log[l].base + 1][r]

\* The history disagrees with the end of the log about no reference, so no
\* transaction is rejected because of a value that is not there.
HistoryIsCurrent ==
  run \notin {"appended", "pushed"} =>
    \A r \in Refs : history.root[r] \in {NoValue, versions[Len(versions)][r]}

\* A writer between Begin and its finish.
Registered(t) ==
  /\ tx[t].write
  /\ \/ tx[t].pc \in {"begun", "snapshotting", "open", "queued"}
     \/ current = t

\* The LSN of the last entry pushed to committedEntries.
PushedLSN == IF run = "appended" THEN Len(log) - 1 ELSE Len(log)

\* While a writer is between Begin and its finish, every entry committed after
\* its snapshot is still in committedEntries and has its content: the walk over
\* them (walkCommittedEntries) misses none and never returns errCommittedEntryGone.
WalkComplete ==
  \A t \in Txns : Registered(t) =>
    /\ \A l \in (tx[t].lsn + 1)..PushedLSN :
         \E i \in DOMAIN committed : committed[i].lsn = l
    /\ \A i \in DOMAIN committed : committed[i].lsn > tx[t].lsn => committed[i].logged

\* applyLogEntry dereferences the lock of the previous LSN and closes the
\* applied channel of the next one: the first is always there, and the second
\* has not been closed before (closing it twice would panic).
LocksReady ==
  /\ run = "loop" => appliedLSN \in DOMAIN locks /\ locks[appliedLSN].applied
  /\ run \in {"loop", "applying", "stored"} =>
       \A l \in DOMAIN locks :
         locks[l].applied => l = appliedLSN /\ run = "loop"

\* The repository is the replay of the log up to the applied LSN, save for
\* references of the one entry that is being applied or whose application was
\* cut short by a crash or an error, and is repeated after the restart.
RepositoryIsReplay ==
  \A r \in Refs :
    \/ repo[r] = versions[storedLSN + 1][r]
    \/ storedLSN < Len(log) /\ repo[r] = versions[storedLSN + 2][r]

\* A snapshot is copied only while the repository is not being written: no
\* snapshotter of the applied LSN is active while an entry is applied.
NoSnapshotDuringApply ==
  run \in {"applying", "stored"} => \A t \in Txns : tx[t].pc # "snapshotting"

\* Begin returns: the log is applied up to the snapshot, or the manager stops.
BeginReturns ==
  \A t \in Txns : tx[t].pc \in {"begun", "snapshotting"} ~> tx[t].pc \notin {"begun", "snapshotting"}

\* Commit returns, as long as the manager is not stopped.
CommitReturnsUnlessClosed ==
  \A t \in Txns :
    tx[t].pc \in {"queued", "admitted"} ~> (tx[t].pc \notin {"queued", "admitted"} \/ closing)

\* Every appended entry is applied, as long as the manager is not stopped.
LogIsApplied ==
  \A l \in 1..MaxLSN : (Len(log) >= l) ~> (storedLSN >= l \/ closing \/ run = "down")

-----------------------------------------------------------------------------
(* The inductive invariant behind SnapshotIsolation.                       *)

Snapshotting(t) == tx[t].pc \in {"begun", "snapshotting"}

\* The repository is exactly the replay of the log up to the stored LSN.
Clean == \A r \in Refs : repo[r] = versions[storedLSN + 1][r]

\* The control points of processTransaction after the admission.
Processing == {"admitted", "prepared", "appended", "pushed", "finishing"}

LSNInv ==
  /\ storedLSN <= Len(log)
  /\ run # "down" => appliedLSN = storedLSN
  /\ run = "applying" => storedLSN < Len(log)
  /\ \A t \in Txns : tx[t].lsn <= Len(log)
  /\ \A l \in 1..Len(log) : versions[l + 1] = Overlay(versions[l], log[l].update)
  /\ run \in Processing => current \in Txns

\* A lock is held by those who wait for it or snapshot under it; it is applied
\* only for the applied LSN, and only while no entry is being applied.
LockInv ==
  /\ run = "down" => \A t \in Txns : tx[t].pc = "idle"
  /\ \A t \in Txns : tx[t].pc = "begun" => \A r \in Refs : tx[t].snapshot[r] = NoValue
  /\ \A t \in Txns : Snapshotting(t) =>
       /\ tx[t].lsn \in DOMAIN locks
       /\ t \in locks[tx[t].lsn].snapshotters
       /\ tx[t].pc = "snapshotting" => locks[tx[t].lsn].applied
       /\ locks[tx[t].lsn].applied => Clean
  /\ \A l \in DOMAIN locks :
       /\ run # "down"
       /\ l >= appliedLSN
       /\ run = "applying" => l > appliedLSN
       /\ locks[l].applied => l = appliedLSN /\ run \notin {"applying", "stored"}
  /\ run \in Processing \cup {"loop"} =>
       appliedLSN \in DOMAIN locks /\ locks[appliedLSN].applied

\* While an entry is applied, the references written so far have their new
\* value; once its LSN is stored, all of them do.
ApplyInv ==
  /\ run = "applying" =>
       \A r \in Refs :
         /\ r \in todo => log[storedLSN + 1].update[r] # NoValue
         /\ r \notin todo => repo[r] = versions[storedLSN + 2][r]
  /\ run = "stored" => Clean

\* SnapshotIsolation is not inductive: what a copied reference is worth depends
\* on the locks that keep Run from applying the next entry meanwhile.
SnapshotInv ==
  TypeOK /\ LSNInv /\ LockInv /\ ApplyInv /\ RepositoryIsReplay /\ SnapshotIsolation

\* cleanCommittedEntry stops: the first entry with readers, or the end of the
\* list, exists.  A fact about FirstRead, which the proofs start from.
FirstReadExists ==
  \A c \in Seq(CommittedEntry) :
    /\ FirstRead(c) \in 1..(Len(c) + 1)
    /\ \A j \in 1..(FirstRead(c) - 1) : c[j].readers = {}
    /\ FirstRead(c) <= Len(c) => c[FirstRead(c)].readers # {}

-----------------------------------------------------------------------------
(* The inductive invariant behind NoLostUpdate, HistoryIsCurrent and       *)
(* WalkComplete.                                                           *)

\* Up to which LSN the history knows the log.
HistoryLSN == IF run \in {"appended", "pushed"} THEN Len(log) - 1 ELSE Len(log)

\* Only a write transaction is offered for admission.
QueuedInv == \A t \in Txns : tx[t].pc = "queued" => tx[t].write

\* The transaction Run processes, if any, is an admitted writer, and what it saw
\* is kept although its client may have gone.
CurrentInv ==
  \A t \in Txns : current = t =>
    /\ run \in Processing
    /\ tx[t].write /\ tx[t].pc \in {"admitted", "returned"}
    /\ \A r \in Refs : tx[t].snapshot[r] = versions[tx[t].lsn + 1][r]

\* The committed entries are consecutive up to the last one pushed, and only the
\* first of them can be a placeholder.
EntriesInv ==
  \A i \in DOMAIN committed :
    /\ committed[i].lsn + (Len(committed) - i) = PushedLSN
    /\ ~committed[i].logged => i = 1

\* A registered writer is a reader of a committed entry at or before its
\* snapshot.
ReadersInv ==
  \A t \in Txns : Registered(t) =>
    /\ tx[t].entry <= tx[t].lsn
    /\ \E i \in DOMAIN committed :
         committed[i].lsn = tx[t].entry /\ t \in committed[i].readers

\* The snapshots the history has to be compared with, and its own.
HistorySnapshots ==
  {HistoryLSN} \cup {tx[t].lsn : t \in {x \in Txns : Registered(x) /\ tx[x].lsn <= HistoryLSN}}

\* A reference the history does not know has not changed since the snapshot of
\* any registered writer.  One that it knows has its present value since the
\* LSN recorded for it, or, if that was evicted while the value was being
\* prepared, since all of these snapshots.
HistoryInv ==
  /\ \A l \in history.updaters : l <= HistoryLSN
  /\ \A k \in HistorySnapshots : \A r \in Refs :
       IF history.root[r] = NoValue
         THEN versions[k + 1][r] = versions[HistoryLSN + 1][r]
         ELSE (history.lsn[r] \in history.updaters => history.lsn[r] <= k)
                => versions[k + 1][r] = history.root[r]

\* From Prepare to CommitPrepared other transactions may finish and have the
\* history evict references that are still in the prepared root.
PreparedInv ==
  /\ run \in {"prepared", "appended", "pushed"} =>
       \A r \in Refs :
         /\ tx[current].update[r] # NoValue =>
              /\ prepared[r] = tx[current].update[r]
              /\ versions[HistoryLSN + 1][r] = versions[tx[current].lsn + 1][r]
         /\ tx[current].update[r] = NoValue =>
              IF prepared[r] = NoValue
                THEN history.root[r] = NoValue
                ELSE prepared[r] = versions[HistoryLSN + 1][r]
  /\ run \in {"appended", "pushed"} =>
       Len(log) > 0 /\ log[Len(log)].update = tx[current].update

\* NoLostUpdate rests on what the committed entries retain of the history for
\* every writer between its Begin and its finish.
CommitInv ==
  /\ SnapshotInv
  /\ QueuedInv /\ CurrentInv /\ EntriesInv /\ ReadersInv
  /\ HistoryInv /\ PreparedInv
  /\ \A l \in 1..Len(log) : log[l].base < l
  /\ NoLostUpdate

-----------------------------------------------------------------------------
(* What comments and tests of the code say, and the code does not do.      *)

\* The comments on Run and on closed: when Run returns, all transactions that
\* wait for a result are released.
AdmittedReturns ==
  \A t \in Txns : tx[t].pc = "admitted" ~> tx[t].pc # "admitted"

=============================================================================
