----------------------------- MODULE LogManager -----------------------------
(***************************************************************************)
(* The write-ahead log of one partition on disk                            *)
(* (internal/gitaly/storage/storagemgr/partition/log/log_manager.go).      *)
(*                                                                         *)
(* A log entry is a directory below wal/, named by its LSN.  It is moved   *)
(* there to append it and moved away to delete it.  A move is durable once *)
(* wal/ has been synced.  The moves reach the disk in their order, so what *)
(* a power loss leaves is one of the states the directory went through     *)
(* since it was last synced.                                               *)
(*                                                                         *)
(* Three goroutines use the log: the one that appends entries and applies  *)
(* them, the one that prunes entries (pruneLogEntries), and the consumer   *)
(* that acknowledges what it has archived.                                 *)
(***************************************************************************)
EXTENDS Naturals

CONSTANTS
  Entries,   \* contents of log entries
  Raft,      \* whether a Raft replica owns the log, which may delete trailing entries
  MaxLSN     \* bound on the LSN of an entry

ASSUME ConstantsAssumption ==
  /\ Raft \in BOOLEAN
  /\ MaxLSN \in Nat

VARIABLES
  \* Durable state.
  disks,       \* the states of wal/ since it was last synced, the current one included
  storedLSN,   \* the applied LSN in the database
  consumed,    \* the last LSN the consumer has archived
  \* State of the operating system.
  wal,         \* wal/ as processes see it: LSN |-> content
  \* Memory of the manager.
  state,       \* "down", "up", "failed" once the Raft replica has stopped, or "closing"
  appendedLSN, \* kept while the manager is down, but Initialize does not read it
  oldestLSN,
  position,    \* the positions tracked: of the application and of the consumer
  mutex,       \* what the goroutine that holds mgr.mutex is doing: "free" if there is none
  truncateFrom,\* argument of the DeleteTrailingLogEntries in progress, 0 if none
  pruner,      \* control point of pruneLogEntries
  pruningSignal,
  notifyQueue, \* the channel of capacity 1 that Run listens to
  \* Memory of the consumer.
  notified,    \* the last LSN the consumer has been notified of
  \* History variable, used in properties only.
  truncated    \* LSN from which entries were deleted last, 0 once it is assigned anew

vars == <<disks, wal, storedLSN, consumed, state, appendedLSN, oldestLSN, position,
          mutex, truncateFrom, pruner, pruningSignal, notifyQueue, notified,
          truncated>>

-----------------------------------------------------------------------------
LSNs == 1..MaxLSN

Without(d, l) == [k \in DOMAIN d \ {l} |-> d[k]]
With(d, l, e) == [k \in DOMAIN d \cup {l} |-> IF k = l THEN e ELSE d[k]]

\* os.Rename of an entry into or out of wal/.
Rename(d) ==
  /\ wal' = d
  /\ disks' = disks \cup {d}

\* SyncParent of an entry.
Sync ==
  /\ disks' = {wal}
  /\ UNCHANGED wal

Minimum(S) == CHOOSE l \in S : \A k \in S : l <= k
Maximum(S) == CHOOSE l \in S : \A k \in S : l >= k

LowWaterMark == Minimum({appendedLSN + 1, position.applied + 1, position.consumer + 1})

-----------------------------------------------------------------------------
(* Start.                                                                  *)

\* Mutant: the state directory is synced only if it is new.
InitializeUnsynced ==
  LET oldest == IF DOMAIN wal = {} THEN storedLSN + 1 ELSE Minimum(DOMAIN wal)
  IN  /\ state = "down"
      /\ state' = "up"
      /\ oldestLSN' = oldest
      /\ appendedLSN' = IF DOMAIN wal = {} THEN storedLSN ELSE Maximum(DOMAIN wal)
      /\ position' = [applied |-> storedLSN, consumer |-> oldest - 1]
      /\ pruner' = "idle"
      /\ pruningSignal' = TRUE
      /\ notifyQueue' = "empty"
      /\ notified' = Maximum({notified, appendedLSN'})
      /\ UNCHANGED <<disks, wal, storedLSN, consumed, mutex, truncateFrom, truncated>>

\* The first and the last entry found in wal/ delimit the log.  MkdirAll does
\* not fail on a directory that exists, so createStateDirectory always syncs.
Initialize ==
  LET oldest == IF DOMAIN wal = {} THEN storedLSN + 1 ELSE Minimum(DOMAIN wal)
  IN  /\ state = "down"
      /\ Sync
      /\ state' = "up"
      /\ oldestLSN' = oldest
      /\ appendedLSN' = IF DOMAIN wal = {} THEN storedLSN ELSE Maximum(DOMAIN wal)
      /\ position' = [applied |-> storedLSN, consumer |-> oldest - 1]
      /\ pruner' = "idle"
      /\ pruningSignal' = TRUE
      /\ notifyQueue' = "empty"
      /\ notified' = Maximum({notified, appendedLSN'})
      /\ UNCHANGED <<storedLSN, consumed, mutex, truncateFrom, truncated>>

-----------------------------------------------------------------------------
(* CompareAndAppendLogEntry.                                               *)

\* The entry is moved into wal/, which fails if an entry is left there from an
\* append that failed.
AppendMove(e) ==
  /\ state = "up" /\ mutex = "free"
  /\ appendedLSN < MaxLSN
  /\ appendedLSN + 1 \notin DOMAIN wal
  /\ Rename(With(wal, appendedLSN + 1, e))
  /\ mutex' = "append"
  /\ truncated' = 0
  /\ UNCHANGED <<storedLSN, consumed, state, appendedLSN, oldestLSN, position,
                 truncateFrom, pruner, pruningSignal, notifyQueue, notified>>

\* Mutant: the entry is acknowledged without syncing its directory.
AppendUnsynced ==
  /\ mutex = "append"
  /\ appendedLSN' = appendedLSN + 1
  /\ mutex' = "free"
  /\ notified' = Maximum({notified, appendedLSN'})
  /\ UNCHANGED <<disks, wal, storedLSN, consumed, state, oldestLSN, position,
                 truncateFrom, pruner, pruningSignal, notifyQueue, truncated>>

\* wal/ is synced and the entry acknowledged.
AppendSync ==
  /\ mutex = "append"
  /\ Sync
  /\ appendedLSN' = appendedLSN + 1
  /\ mutex' = "free"
  /\ notified' = Maximum({notified, appendedLSN'})
  /\ UNCHANGED <<storedLSN, consumed, state, oldestLSN, position, truncateFrom,
                 pruner, pruningSignal, notifyQueue, truncated>>

\* Syncing fails: the entry is left where it is.  Run rejects the transaction
\* and goes on; a Raft replica stops.
AppendFails ==
  /\ mutex = "append"
  /\ mutex' = "free"
  /\ state' = IF Raft THEN "failed" ELSE state
  /\ UNCHANGED <<disks, wal, storedLSN, consumed, appendedLSN, oldestLSN, position,
                 truncateFrom, pruner, pruningSignal, notifyQueue, notified,
                 truncated>>

-----------------------------------------------------------------------------
(* DeleteTrailingLogEntries, for a Raft replica.  Raft never replaces an   *)
(* entry it has committed, so none that has been applied or is being       *)
(* applied.                                                                *)

DeleteTrailing(from) ==
  /\ Raft
  /\ state = "up" /\ mutex = "free"
  /\ storedLSN < from /\ from <= appendedLSN
  /\ from >= LowWaterMark
  /\ mutex' = "truncate"
  /\ truncateFrom' = from
  /\ UNCHANGED <<disks, wal, storedLSN, consumed, state, appendedLSN, oldestLSN,
                 position, pruner, pruningSignal, notifyQueue, notified, truncated>>

\* Mutant: the entries are moved away from the first to the last.
DeleteTrailingMoveFirst ==
  LET l == Minimum({k \in DOMAIN wal : k >= truncateFrom})
  IN  /\ mutex = "truncate"
      /\ appendedLSN >= truncateFrom
      /\ Rename(Without(wal, l))
      /\ appendedLSN' = IF l = appendedLSN THEN truncateFrom - 1 ELSE appendedLSN
      /\ UNCHANGED <<storedLSN, consumed, state, oldestLSN, position, mutex,
                     truncateFrom, pruner, pruningSignal, notifyQueue, notified,
                     truncated>>

\* From the last entry to the first.
DeleteTrailingMove ==
  /\ mutex = "truncate"
  /\ appendedLSN >= truncateFrom
  /\ Rename(Without(wal, appendedLSN))
  /\ appendedLSN' = appendedLSN - 1
  /\ UNCHANGED <<storedLSN, consumed, state, oldestLSN, position, mutex, truncateFrom,
                 pruner, pruningSignal, notifyQueue, notified, truncated>>

\* SyncParent of wal/ syncs its parent and not wal/ itself.
DeleteTrailingDone ==
  /\ mutex = "truncate"
  /\ appendedLSN < truncateFrom
  /\ mutex' = "free"
  /\ truncated' = truncateFrom
  /\ truncateFrom' = 0
  /\ UNCHANGED <<disks, wal, storedLSN, consumed, state, appendedLSN, oldestLSN,
                 position, pruner, pruningSignal, notifyQueue, notified>>

\* A move or the sync fails, and the Raft replica stops.
DeleteTrailingFails ==
  /\ mutex = "truncate"
  /\ mutex' = "free"
  /\ truncateFrom' = 0
  /\ state' = "failed"
  /\ UNCHANGED <<disks, wal, storedLSN, consumed, appendedLSN, oldestLSN, position,
                 pruner, pruningSignal, notifyQueue, notified, truncated>>

-----------------------------------------------------------------------------
(* AcknowledgePosition.                                                    *)

\* Run applies the next entry, stores its LSN and acknowledges it.  Without
\* Raft it is Run itself that appends.
AcknowledgeApplied ==
  /\ state \in {"up", "failed"}
  /\ mutex = "append" => Raft
  /\ mutex = "truncate" => position.applied + 1 < truncateFrom
  /\ position.applied < appendedLSN
  /\ storedLSN' = position.applied + 1
  /\ position' = [position EXCEPT !.applied = @ + 1]
  /\ pruningSignal' = TRUE
  /\ UNCHANGED <<disks, wal, consumed, state, appendedLSN, oldestLSN, mutex,
                 truncateFrom, pruner, notifyQueue, notified, truncated>>

\* Mutant: the position is acknowledged without waking the pruning task.
AcknowledgeConsumedQuietly(l) ==
  /\ state # "down"
  /\ position.consumer < l /\ l <= notified
  /\ consumed' = IF l > consumed THEN l ELSE consumed
  /\ position' = [position EXCEPT !.consumer = l]
  /\ notifyQueue' = IF notifyQueue = "empty" THEN "nil" ELSE notifyQueue
  /\ UNCHANGED <<disks, wal, storedLSN, state, appendedLSN, oldestLSN, mutex,
                 truncateFrom, pruner, pruningSignal, notified, truncated>>

\* The consumer acknowledges what it has archived, in the order of the LSNs;
\* Run is notified.
AcknowledgeConsumed(l) ==
  /\ state # "down"
  /\ position.consumer < l /\ l <= notified
  /\ consumed' = IF l > consumed THEN l ELSE consumed
  /\ position' = [position EXCEPT !.consumer = l]
  /\ pruningSignal' = TRUE
  /\ notifyQueue' = IF notifyQueue = "empty" THEN "nil" ELSE notifyQueue
  /\ UNCHANGED <<disks, wal, storedLSN, state, appendedLSN, oldestLSN, mutex,
                 truncateFrom, pruner, notified, truncated>>

\* Run receives from the notification queue; an error makes it return.
Listen ==
  /\ state = "up" /\ mutex = "free"
  /\ notifyQueue # "empty"
  /\ notifyQueue' = "empty"
  /\ state' = IF notifyQueue = "error" THEN "closing" ELSE state
  /\ UNCHANGED <<disks, wal, storedLSN, consumed, appendedLSN, oldestLSN, position,
                 mutex, truncateFrom, pruner, pruningSignal, notified, truncated>>

-----------------------------------------------------------------------------
(* pruneLogEntries.                                                        *)

PrunerWakes ==
  /\ pruner = "idle" /\ pruningSignal
  /\ state # "down"
  /\ pruningSignal' = FALSE
  /\ pruner' = "checking"
  /\ UNCHANGED <<disks, wal, storedLSN, consumed, state, appendedLSN, oldestLSN,
                 position, mutex, truncateFrom, notifyQueue, notified, truncated>>

\* LowWaterMark takes the mutex; the rest of the loop does not.
PruneCheck ==
  /\ pruner = "checking" /\ mutex = "free"
  /\ pruner' = IF oldestLSN < LowWaterMark THEN "deleting" ELSE "idle"
  /\ UNCHANGED <<disks, wal, storedLSN, consumed, state, appendedLSN, oldestLSN,
                 position, mutex, truncateFrom, pruningSignal, notifyQueue, notified,
                 truncated>>

\* DeleteLogEntry moves the oldest entry away.
PruneMove ==
  /\ pruner = "deleting"
  /\ oldestLSN \in DOMAIN wal
  /\ Rename(Without(wal, oldestLSN))
  /\ pruner' = "moved"
  /\ UNCHANGED <<storedLSN, consumed, state, appendedLSN, oldestLSN, position, mutex,
                 truncateFrom, pruningSignal, notifyQueue, notified, truncated>>

\* Mutant: the deletion is not synced.
PruneUnsynced ==
  /\ pruner = "moved"
  /\ oldestLSN' = oldestLSN + 1
  /\ pruner' = "checking"
  /\ UNCHANGED <<disks, wal, storedLSN, consumed, state, appendedLSN, position, mutex,
                 truncateFrom, pruningSignal, notifyQueue, notified, truncated>>

PruneSync ==
  /\ pruner = "moved"
  /\ Sync
  /\ oldestLSN' = oldestLSN + 1
  /\ pruner' = "checking"
  /\ UNCHANGED <<storedLSN, consumed, state, appendedLSN, position, mutex,
                 truncateFrom, pruningSignal, notifyQueue, notified, truncated>>

\* DeleteLogEntry fails before the move, or in one of the steps after it.
PruneFails ==
  /\ \/ pruner = "deleting" /\ UNCHANGED <<disks, wal>>
     \/ pruner = "moved" /\ (Sync \/ UNCHANGED <<disks, wal>>)
  /\ pruner' = "reporting"
  /\ UNCHANGED <<storedLSN, consumed, state, appendedLSN, oldestLSN, position, mutex,
                 truncateFrom, pruningSignal, notifyQueue, notified, truncated>>

\* The error is sent to Run, which blocks while the queue is full.
PruneReport ==
  /\ pruner = "reporting"
  /\ notifyQueue = "empty"
  /\ notifyQueue' = "error"
  /\ pruner' = "stopped"
  /\ UNCHANGED <<disks, wal, storedLSN, consumed, state, appendedLSN, oldestLSN,
                 position, mutex, truncateFrom, pruningSignal, notified, truncated>>

PrunerStops ==
  /\ pruner = "idle"
  /\ state = "closing"
  /\ pruner' = "stopped"
  /\ UNCHANGED <<disks, wal, storedLSN, consumed, state, appendedLSN, oldestLSN,
                 position, mutex, truncateFrom, pruningSignal, notifyQueue, notified,
                 truncated>>

-----------------------------------------------------------------------------
(* Stop.                                                                   *)

\* Run returns; its deferred Close stops the Raft replica, if there is one, and
\* cancels the context of the log manager.
Close ==
  /\ state \in {"up", "failed"} /\ mutex = "free"
  /\ state' = "closing"
  /\ UNCHANGED <<disks, wal, storedLSN, consumed, appendedLSN, oldestLSN, position,
                 mutex, truncateFrom, pruner, pruningSignal, notifyQueue, notified,
                 truncated>>

\* Close has waited for the pruning task.
Closed ==
  /\ state = "closing"
  /\ pruner = "stopped"
  /\ state' = "down"
  /\ UNCHANGED <<disks, wal, storedLSN, consumed, appendedLSN, oldestLSN, position,
                 mutex, truncateFrom, pruner, pruningSignal, notifyQueue, notified,
                 truncated>>

Stopped ==
  /\ state' = "down"
  /\ mutex' = "free"
  /\ truncateFrom' = 0
  /\ pruner' = "stopped"
  /\ notified' = 0
  /\ UNCHANGED <<storedLSN, consumed, appendedLSN, oldestLSN, position, pruningSignal,
                 notifyQueue, truncated>>

\* The process dies; the operating system still has what was not synced.
ProcessCrash ==
  /\ state # "down"
  /\ Stopped
  /\ UNCHANGED <<disks, wal>>

\* The power fails, while the manager runs or is down.
PowerLoss ==
  /\ wal' \in disks
  /\ disks' = {wal'}
  /\ Stopped

-----------------------------------------------------------------------------
Init ==
  /\ wal = << >>
  /\ disks = {wal}
  /\ storedLSN = 0
  /\ consumed = 0
  /\ state = "down"
  /\ appendedLSN = 0
  /\ oldestLSN = 1
  /\ position = [applied |-> 0, consumer |-> 0]
  /\ mutex = "free"
  /\ truncateFrom = 0
  /\ pruner = "stopped"
  /\ pruningSignal = FALSE
  /\ notifyQueue = "empty"
  /\ notified = 0
  /\ truncated = 0

\* The goroutine that holds the mutex gets on.
MutexStep == AppendSync \/ DeleteTrailingMove \/ DeleteTrailingDone

\* The pruning task gets on.
PrunerStep ==
  PrunerWakes \/ PruneCheck \/ PruneMove \/ PruneSync \/ PruneReport \/ PrunerStops

Next ==
  \/ Initialize
  \/ \E e \in Entries : AppendMove(e)
  \/ AppendFails
  \/ DeleteTrailingFails
  \/ \E from \in LSNs : DeleteTrailing(from)
  \/ MutexStep
  \/ AcknowledgeApplied
  \/ \E l \in LSNs : AcknowledgeConsumed(l)
  \/ Listen
  \/ PrunerStep
  \/ PruneFails
  \/ Close
  \/ Closed
  \/ ProcessCrash
  \/ PowerLoss

Spec == Init /\ [][Next]_vars

\* Started operations go on; Run listens while it waits for transactions.
Fairness ==
  /\ WF_vars(MutexStep)
  /\ SF_vars(PrunerStep)
  /\ WF_vars(Listen)
  /\ WF_vars(Closed)

FairSpec == Spec /\ Fairness

-----------------------------------------------------------------------------
(* Properties.                                                             *)

Dirs == UNION {[D -> Entries] : D \in SUBSET LSNs}

\* Every variable has its type.
TypeOK ==
  /\ disks \in SUBSET Dirs /\ wal \in disks
  /\ storedLSN \in 0..MaxLSN /\ consumed \in 0..MaxLSN
  /\ state \in {"down", "up", "failed", "closing"}
  /\ appendedLSN \in 0..MaxLSN /\ oldestLSN \in 1..(MaxLSN + 1)
  /\ position \in [applied : 0..MaxLSN, consumer : 0..MaxLSN]
  /\ mutex \in {"free", "append", "truncate"}
  /\ truncateFrom \in 0..MaxLSN
  /\ pruner \in {"idle", "checking", "deleting", "moved", "reporting", "stopped"}
  /\ pruningSignal \in BOOLEAN
  /\ notifyQueue \in {"empty", "nil", "error"}
  /\ notified \in 0..MaxLSN
  /\ truncated \in 0..MaxLSN

\* An entry that has been committed and is not applied yet, or not consumed
\* yet, is found by the next start, wherever the process or the power fails.
CommittedIsDurable ==
  \A l \in LSNs :
    (l <= appendedLSN /\ (l > storedLSN \/ l > consumed)) =>
      \A d \in disks : l \in DOMAIN d

\* Initialize takes the log to be all from the first to the last entry it
\* finds: no crash leaves a gap between them.
NoGap ==
  \A d \in disks : \A l, k \in DOMAIN d : l..k \subseteq DOMAIN d

\* The log restarts at the LSN it had: an entry appended after a restart
\* never gets an LSN that has been applied before.
AppliedIsAppended == state # "down" => storedLSN <= appendedLSN

\* The pruning task always finds the entry it is about to delete, though it
\* compared the low-water mark earlier and holds no lock.
PruneFindsEntry == pruner = "deleting" => oldestLSN \in DOMAIN wal

\* Entries that have been applied and consumed are removed eventually, though
\* the signals that wake the pruning task may coalesce.
PruningHappens ==
  \A l \in LSNs :
    (state = "up" /\ l < LowWaterMark) ~>
      (l \notin DOMAIN wal \/ state # "up" \/ pruner \in {"reporting", "stopped"})

-----------------------------------------------------------------------------
(* The inductive invariant that the proofs use.                            *)

\* What a restart may find is what the memory says, but for the last deletion
\* of the pruning task and for entries past the appended LSN.
IsLog(d) ==
  \E lo \in {oldestLSN, oldestLSN + 1}, hi \in appendedLSN..MaxLSN :
    /\ DOMAIN d = lo..hi
    /\ lo <= storedLSN + 1 /\ lo <= consumed + 1
    /\ ~Raft => hi <= appendedLSN + 1

\* What wal/ holds at each control point of the goroutines that move entries.
ControlInv ==
  /\ state # "down" =>
       /\ position.applied = storedLSN
       /\ position.consumer <= consumed
       /\ appendedLSN + 2 \notin DOMAIN wal
  /\ state = "down" => pruner = "stopped"
  /\ mutex # "free" => state = "up"
  /\ mutex = "append" => appendedLSN + 1 \in DOMAIN wal
  /\ mutex = "truncate" => Raft /\ storedLSN < truncateFrom
  /\ (Raft /\ state = "up" /\ mutex # "append") => appendedLSN + 1 \notin DOMAIN wal
  /\ (pruner \in {"idle", "checking", "deleting"} /\ oldestLSN <= appendedLSN) =>
       oldestLSN \in DOMAIN wal
  /\ pruner \in {"deleting", "moved"} => oldestLSN <= storedLSN /\ oldestLSN <= consumed
  /\ pruner = "moved" => oldestLSN \notin DOMAIN wal

\* Without Raft nothing but pruning removes an entry.
StableInv ==
  ~Raft =>
    /\ consumed <= appendedLSN /\ notified <= appendedLSN
    /\ \A c, d \in disks : \A l \in DOMAIN c \cap DOMAIN d : c[l] = d[l]
    /\ \A d \in disks : appendedLSN + 1 \in DOMAIN d => appendedLSN + 1 \in DOMAIN wal

\* The inductive invariant: whatever subset of the moves since the last sync
\* has reached the disk, wal/ is a log that agrees with the memory.
LogInv ==
  /\ TypeOK
  /\ storedLSN <= appendedLSN
  /\ \A d \in disks : IsLog(d)
  /\ ControlInv
  /\ StableInv

-----------------------------------------------------------------------------
(* The manager of a partition without Raft implements WriteAheadLog.  An   *)
(* entry is gone once no power loss can bring it back.                     *)

Present(l) == \E d \in disks : l \in DOMAIN d
Content(l) == (CHOOSE d \in disks : l \in DOMAIN d)[l]

entries == [l \in {k \in LSNs : Present(k) /\ k <= appendedLSN} |-> Content(l)]
limbo == [l \in {k \in LSNs : Present(k) /\ k > appendedLSN} |-> Content(l)]

Log == INSTANCE WriteAheadLog
         WITH next <- appendedLSN + 1, applied <- storedLSN

\* Through crashes, power losses, failed syncs and pruning, the log keeps the
\* promises of WriteAheadLog.
ImplementsLog == Log!Spec

-----------------------------------------------------------------------------
(* What comments of the code say, and the code does not do.                *)

\* The comment in DeleteTrailingLogEntries: after the fsync at its end, the
\* deletion of the trailing entries is persistent.
TruncationIsDurable ==
  (state = "up" /\ mutex = "free" /\ truncated # 0) => appendedLSN < truncated

=============================================================================
