-------------------------- MODULE PartitionManager --------------------------
(***************************************************************************)
(* The life cycle of the partitions of one storage                         *)
(* (internal/gitaly/storage/storagemgr/partition_manager.go).              *)
(*                                                                         *)
(* A client that needs a partition gets a handle to the running instance   *)
(* of it, or starts one.  An instance without handles is kept on standby;  *)
(* the oldest one is evicted if there are too many.  An instance may also  *)
(* stop because of an error, while there are handles to it.  Its goroutine *)
(* takes it out of the maps and removes its files once the handles have    *)
(* been closed.                                                            *)
(*                                                                         *)
(* Everything done under the mutex of the manager is one step.             *)
(***************************************************************************)
EXTENDS Naturals, FiniteSets, Sequences

CONSTANTS
  Partitions,  \* identifiers of partitions
  Clients,     \* goroutines that use partitions, one handle at a time
  Instances,   \* instances of partitions, reused once garbage: a bound of the model
  NoPartition,
  NoInstance,
  maxInactivePartitions

ASSUME ConstantsAssumption ==
  /\ IsFiniteSet(Clients)
  /\ NoInstance \notin Instances /\ NoPartition \notin Partitions
  /\ maxInactivePartitions \in Nat \ {0}

VARIABLES
  closed,              \* sm.closed
  activePartitions,    \* partition -> instance
  inactivePartitions,  \* the instances on standby, the least recently used first
  closingPartitions,   \* the instances being closed
  ptn,                 \* the instances
  client,              \* what each client does, for which partition and instance
  closer,              \* control point of Close
  \* History variable, used in properties only.
  evicted              \* the partitions an instance of which was evicted

vars == <<closed, activePartitions, inactivePartitions, closingPartitions, ptn,
          client, closer, evicted>>

\* An instance: the control point of its goroutine, its reference count, and
\* whether its closing channel is closed.
Unused == [id |-> NoPartition, run |-> "unused", referenceCount |-> 0, closing |-> FALSE]

Idle == [pc |-> "idle", id |-> NoPartition, on |-> NoInstance]

-----------------------------------------------------------------------------
(* Helpers.                                                                *)

\* close of some instances.  It cancels their Run.
Closed(S) == [k \in Instances |->
                IF k \in S THEN [ptn[k] EXCEPT !.closing = TRUE] ELSE ptn[k]]

Standby == {inactivePartitions[i] : i \in DOMAIN inactivePartitions}

\* The instances somebody can still get hold of.
Reachable ==
  {client[c].on : c \in Clients} \cup closingPartitions
  \cup Standby \cup {activePartitions[p] : p \in Partitions}

\* The instances that can be allocated, since nothing refers to them.
Garbage == {k \in Instances : ptn[k].run \in {"unused", "failed", "done"}} \ Reachable

\* The instance that has to make room for another one on standby.
Full == Len(inactivePartitions) = maxInactivePartitions
Evicted == IF Full THEN {Head(inactivePartitions)} ELSE {}

OnStandby(p) == {k \in Standby : ptn[k].id = p}

\* Mutant: the identifier of the partition is ignored.
WithoutAny(p) == <<>>

\* The cache has one instance of a partition at most.
Without(p) ==
  LET s == inactivePartitions
      i == CHOOSE i \in DOMAIN s : ptn[s[i]].id = p
  IN  IF OnStandby(p) = {}
        THEN s
        ELSE SubSeq(s, 1, i - 1) \o SubSeq(s, i + 1, Len(s))

Returns(c) == client' = [client EXCEPT ![c] = Idle]
Goes(c, pc, k) == client' = [client EXCEPT ![c].pc = pc, ![c].on = k]

-----------------------------------------------------------------------------
(* startPartition.                                                         *)

\* A client asks for a partition.
Request(c, p) ==
  /\ client[c].pc = "idle"
  /\ client' = [client EXCEPT ![c] = [pc |-> "lookup", id |-> p, on |-> NoInstance]]
  /\ UNCHANGED <<closed, activePartitions, inactivePartitions, closingPartitions,
                 ptn, closer, evicted>>

\* Nothing is started or handed out once the manager is closed.
StartRefused(c) ==
  /\ client[c].pc = "lookup"
  /\ closed
  /\ Returns(c)
  /\ UNCHANGED <<closed, activePartitions, inactivePartitions, closingPartitions,
                 ptn, closer, evicted>>

\* The partition is not running: the client is to set it up.
StartNew(c, k) ==
  LET p == client[c].id
  IN  /\ client[c].pc = "lookup"
      /\ ~closed
      /\ activePartitions[p] = NoInstance /\ OnStandby(p) = {}
      /\ k \in Garbage
      /\ ptn' = [ptn EXCEPT ![k] = [id |-> p, run |-> "initializing",
                                    referenceCount |-> 1, closing |-> FALSE]]
      /\ activePartitions' = [activePartitions EXCEPT ![p] = k]
      /\ Goes(c, "setup", k)
      /\ UNCHANGED <<closed, inactivePartitions, closingPartitions, closer, evicted>>

\* Mutant: the reference is counted only once the instance is initialized.
StartExistingUncounted(c, k) ==
  LET p == client[c].id
  IN  /\ client[c].pc = "lookup"
      /\ ~closed
      /\ k = activePartitions[p] \/ k \in OnStandby(p)
      /\ activePartitions' = [activePartitions EXCEPT ![p] = k]
      /\ inactivePartitions' = IF k = activePartitions[p] THEN inactivePartitions ELSE Without(p)
      /\ Goes(c, "joining", k)
      /\ UNCHANGED <<closed, closingPartitions, ptn, closer, evicted>>

\* The partition is running or on standby.  It would be waited for
\* if it were closing, but ExclusiveUnlessEvicted shows that it never is.
StartExisting(c, k) ==
  LET p == client[c].id
  IN  /\ client[c].pc = "lookup"
      /\ ~closed
      /\ \/ k = activePartitions[p]
         \/ activePartitions[p] = NoInstance /\ k \in OnStandby(p)
      /\ ~ptn[k].closing
      /\ ptn' = [ptn EXCEPT ![k].referenceCount = @ + 1]
      /\ activePartitions' = [activePartitions EXCEPT ![p] = k]
      /\ inactivePartitions' = IF k = activePartitions[p] THEN inactivePartitions ELSE Without(p)
      /\ Goes(c, "joining", k)
      /\ UNCHANGED <<closed, closingPartitions, closer, evicted>>

SetupSucceeds(c) ==
  LET k == client[c].on
  IN  /\ client[c].pc = "setup"
      /\ ptn' = [ptn EXCEPT ![k].run = "running"]
      /\ Goes(c, "holding", k)
      /\ UNCHANGED <<closed, activePartitions, inactivePartitions, closingPartitions,
                     closer, evicted>>

\* Mutant: those who wait for the instance are not told.
SetupFailsSilently(c) ==
  /\ client[c].pc = "setup"
  /\ activePartitions' = [activePartitions EXCEPT ![client[c].id] = NoInstance]
  /\ Returns(c)
  /\ UNCHANGED <<closed, inactivePartitions, closingPartitions, ptn, closer, evicted>>

\* Whatever instance the partition has by now is taken out of the map.
SetupFails(c) ==
  LET k == client[c].on
  IN  /\ client[c].pc = "setup"
      /\ ptn' = [ptn EXCEPT ![k].run = "failed"]
      /\ activePartitions' = [activePartitions EXCEPT ![client[c].id] = NoInstance]
      /\ Returns(c)
      /\ UNCHANGED <<closed, inactivePartitions, closingPartitions, closer, evicted>>

\* Somebody else has set up the instance, or failed to.
Join(c) ==
  LET k == client[c].on
  IN  /\ client[c].pc = "joining"
      /\ ptn[k].run # "initializing"
      /\ IF ptn[k].run = "failed" THEN Returns(c) ELSE Goes(c, "holding", k)
      /\ UNCHANGED <<closed, activePartitions, inactivePartitions, closingPartitions,
                     ptn, closer, evicted>>

-----------------------------------------------------------------------------
(* partitionHandle.Close.                                                  *)

\* There are other handles.
Release(c) ==
  LET k == client[c].on
  IN  /\ client[c].pc = "holding"
      /\ ptn[k].referenceCount > 1
      /\ ptn' = [ptn EXCEPT ![k].referenceCount = @ - 1]
      /\ Returns(c)
      /\ UNCHANGED <<closed, activePartitions, inactivePartitions, closingPartitions,
                     closer, evicted>>

\* The instance is not the partition's any more.
ReleaseReplaced(c) ==
  LET k == client[c].on
  IN  /\ client[c].pc = "holding"
      /\ ptn[k].referenceCount = 1
      /\ activePartitions[client[c].id] # k
      /\ ptn' = [ptn EXCEPT ![k].referenceCount = 0, ![k].closing = TRUE]
      /\ Returns(c)
      /\ UNCHANGED <<closed, activePartitions, inactivePartitions, closingPartitions,
                     closer, evicted>>

\* The instance goes on standby, and may push out the oldest one.
ReleaseLast(c) ==
  LET k == client[c].on
  IN  /\ client[c].pc = "holding"
      /\ ptn[k].referenceCount = 1
      /\ activePartitions[client[c].id] = k
      /\ ptn' = [Closed(Evicted) EXCEPT ![k].referenceCount = 0]
      /\ closingPartitions' = closingPartitions \cup Evicted
      /\ inactivePartitions' = Append(IF Full THEN Tail(inactivePartitions) ELSE inactivePartitions, k)
      /\ activePartitions' = [activePartitions EXCEPT ![client[c].id] = NoInstance]
      /\ evicted' = evicted \cup {ptn[j].id : j \in Evicted}
      /\ Returns(c)
      /\ UNCHANGED <<closed, closer>>

-----------------------------------------------------------------------------
(* The goroutine of an instance.                                           *)

\* Run has been cancelled, or fails.
RunReturns(k) ==
  /\ ptn[k].run = "running"
  /\ ptn' = [ptn EXCEPT ![k].run = "returned"]
  /\ UNCHANGED <<closed, activePartitions, inactivePartitions, closingPartitions,
                 client, closer, evicted>>

\* The partition is taken out of the maps, by its identifier.
Deregister(k) ==
  LET p == ptn[k].id
  IN  /\ ptn[k].run = "returned"
      /\ activePartitions' = [activePartitions EXCEPT ![p] = NoInstance]
      /\ inactivePartitions' = Without(p)
      /\ closingPartitions' = closingPartitions \cup {k}
      /\ ptn' = [ptn EXCEPT ![k].run = "finished"]
      /\ UNCHANGED <<closed, client, closer, evicted>>

\* Mutant: the files are removed although there are handles.
CleanUpAtOnce(k) ==
  /\ ptn[k].run = "finished"
  /\ ptn' = [ptn EXCEPT ![k].run = "cleaned"]
  /\ UNCHANGED <<closed, activePartitions, inactivePartitions, closingPartitions,
                 client, closer, evicted>>

\* Its snapshots, staging and snapshot directories are removed.
CleanUp(k) ==
  /\ ptn[k].run = "finished"
  /\ ptn[k].closing
  /\ ptn' = [ptn EXCEPT ![k].run = "cleaned"]
  /\ UNCHANGED <<closed, activePartitions, inactivePartitions, closingPartitions,
                 client, closer, evicted>>

Done(k) ==
  /\ ptn[k].run = "cleaned"
  /\ ptn' = [ptn EXCEPT ![k].run = "done"]
  /\ closingPartitions' = closingPartitions \ {k}
  /\ UNCHANGED <<closed, activePartitions, inactivePartitions, client, closer, evicted>>

-----------------------------------------------------------------------------
(* Close of the manager.                                                   *)

CloseManager ==
  /\ closer = "open"
  /\ closed' = TRUE
  /\ closer' = "initializing"
  /\ UNCHANGED <<activePartitions, inactivePartitions, closingPartitions, ptn, client,
                 evicted>>

\* Mutant: without the loop over the instances that are stopping.
CloseAllButClosing ==
  /\ closer = "initializing"
  /\ \A k \in Instances : ptn[k].run # "initializing"
  /\ ptn' = Closed(Standby \cup {activePartitions[p] : p \in Partitions})
  /\ closer' = "waiting"
  /\ UNCHANGED <<closed, activePartitions, inactivePartitions, closingPartitions,
                 client, evicted>>

\* No instance is being initialized any more: all that are known are closed.
CloseAll ==
  /\ closer = "initializing"
  /\ \A k \in Instances : ptn[k].run # "initializing"
  /\ ptn' = Closed(closingPartitions \cup Standby
                   \cup {activePartitions[p] : p \in Partitions})
  /\ closer' = "waiting"
  /\ UNCHANGED <<closed, activePartitions, inactivePartitions, closingPartitions,
                 client, evicted>>

Running(k) == ptn[k].run \in {"running", "returned", "finished", "cleaned"}

CloseDone ==
  /\ closer = "waiting"
  /\ \A k \in Instances : ~Running(k)
  /\ closer' = "closed"
  /\ UNCHANGED <<closed, activePartitions, inactivePartitions, closingPartitions, ptn,
                 client, evicted>>

-----------------------------------------------------------------------------
Init ==
  /\ closed = FALSE
  /\ activePartitions = [p \in Partitions |-> NoInstance]
  /\ inactivePartitions = <<>>
  /\ closingPartitions = {}
  /\ ptn = [k \in Instances |-> Unused]
  /\ client = [c \in Clients |-> Idle]
  /\ closer = "open"
  /\ evicted = {}

StartStep(c) ==
  \/ StartRefused(c)
  \/ \E k \in Instances : StartNew(c, k) \/ StartExisting(c, k)
  \/ SetupSucceeds(c)
  \/ SetupFails(c)
  \/ Join(c)

RunStep(k) ==
  \/ ptn[k].closing /\ RunReturns(k)
  \/ Deregister(k)
  \/ CleanUp(k)
  \/ Done(k)

CloseStep == CloseAll \/ CloseDone

Next ==
  \/ \E c \in Clients :
       \/ \E p \in Partitions : Request(c, p)
       \/ StartStep(c)
       \/ Release(c)
       \/ ReleaseReplaced(c)
       \/ ReleaseLast(c)
  \/ \E k \in Instances : RunReturns(k) \/ RunStep(k)
  \/ CloseManager
  \/ CloseStep

Spec == Init /\ [][Next]_vars

\* Goroutines go on.  A Run that is cancelled returns; nothing makes a client
\* close its handle or the manager close.
FairSpec ==
  /\ Spec
  /\ \A c \in Clients : WF_vars(StartStep(c))
  /\ \A k \in Instances : WF_vars(RunStep(k))
  /\ WF_vars(CloseStep)

-----------------------------------------------------------------------------
(* Properties.                                                             *)

Partition ==
  [id : Partitions \cup {NoPartition},
   run : {"unused", "initializing", "failed", "running", "returned", "finished", "cleaned", "done"},
   referenceCount : Nat, closing : BOOLEAN]
Client ==
  [pc : {"idle", "lookup", "setup", "joining", "holding"},
   id : Partitions \cup {NoPartition}, on : Instances \cup {NoInstance}]

\* Every variable has its type.
TypeOK ==
  /\ closed \in BOOLEAN
  /\ activePartitions \in [Partitions -> Instances \cup {NoInstance}]
  /\ inactivePartitions \in Seq(Instances)
  /\ Len(inactivePartitions) <= maxInactivePartitions
  /\ closingPartitions \in SUBSET Instances
  /\ ptn \in [Instances -> Partition]
  /\ client \in [Clients -> Client]
  /\ closer \in {"open", "initializing", "waiting", "closed"}
  /\ evicted \in SUBSET Partitions

Using == {"setup", "joining", "holding"}
Users(k) == {c \in Clients : client[c].pc \in Using /\ client[c].on = k}

\* The reference count of an instance is the number of handles to it, given
\* out or about to be: it neither wraps around nor keeps an instance alive,
\* whatever map the instance is in and whether or not it has stopped meanwhile.
Counted ==
  /\ TypeOK
  /\ \A k \in Instances : ptn[k].run \notin {"unused", "failed"} =>
       ptn[k].referenceCount = Cardinality(Users(k))

\* The comment before the removal of the files of an instance: all handles to
\* it have been closed, so that no transaction uses them, unless the storage
\* as a whole is closed.
FilesKept ==
  \A k \in Instances : (ptn[k].run \in {"cleaned", "done"} /\ Users(k) # {}) => closed

Live(p) == {k \in Instances : ptn[k].id = p /\ ptn[k].run \in {"initializing", "running"}}

\* One transaction manager at a time works on the log and the repositories of
\* a partition, and the manager keeps track of it, until an instance of the
\* partition is evicted from standby.  A client never comes across an instance
\* that is closing: whatever was closed, be it evicted or stopped, is in neither
\* of the maps any more.
ExclusiveUnlessEvicted ==
  /\ \A p \in Partitions \ evicted :
       \A k \in Live(p) : Live(p) = {k} /\ (activePartitions[p] = k \/ k \in Standby)
  /\ ~closed => \A k \in Instances :
       ptn[k].closing => k \notin Standby /\ \A p \in Partitions : activePartitions[p] # k

-----------------------------------------------------------------------------
(* The inductive invariant.                                                *)

\* What a client waits for or holds is an instance of the partition it asked
\* for.  The one that sets it up is alone in that, and whoever has a handle
\* has one to an instance that was set up.
ClientsInv ==
  /\ \A c \in Clients : client[c].pc \in Using =>
       /\ client[c].on \in Instances
       /\ ptn[client[c].on].id = client[c].id
       /\ ptn[client[c].on].run # "unused"
       /\ client[c].pc = "setup" => ptn[client[c].on].run = "initializing"
       /\ client[c].pc = "holding" => ptn[client[c].on].run \notin {"initializing", "failed"}
  /\ \A c \in Clients : client[c].pc # "idle" => client[c].id \in Partitions
  /\ \A c, d \in Clients :
       (client[c].pc = "setup" /\ client[d].pc = "setup" /\ client[c].on = client[d].on) => c = d

\* An instance is filed under its own identifier until it takes itself out.
ActiveInv ==
  \A p \in Partitions : activePartitions[p] # NoInstance =>
    /\ ptn[activePartitions[p]].id = p
    /\ ptn[activePartitions[p]].run \in {"initializing", "running", "returned"}

\* Nobody uses an instance on standby, and its partition is not in the other map.
StandbyInv ==
  \A k \in Standby :
    /\ ptn[k].run \in {"running", "returned"}
    /\ ptn[k].referenceCount = 0
    /\ ptn[k].id \in Partitions
    /\ activePartitions[ptn[k].id] = NoInstance

\* A partition is on standby once.
StandbyOnce ==
  \A i, j \in DOMAIN inactivePartitions :
    ptn[inactivePartitions[i]].id = ptn[inactivePartitions[j]].id => i = j

\* While the manager is open, an instance that is closed has no users and is in
\* neither of the maps, so that it gets none.
ClosingInv ==
  /\ closer # "open" => closed
  /\ \A k \in Instances : ptn[k].run # "unused" => ptn[k].id \in Partitions
  /\ \A k \in Instances : ptn[k].run \in {"cleaned", "done"} => ptn[k].closing
  /\ ~closed => \A k \in Instances : ptn[k].closing =>
       Users(k) = {} /\ k \notin Standby /\ \A p \in Partitions : activePartitions[p] # k

\* The instances of a partition that still will take themselves out of the maps.
Registered(p) ==
  {k \in Instances : ptn[k].id = p /\ ptn[k].run \in {"initializing", "running", "returned"}}

\* An instance is in one of the maps until it takes itself out, and is then the
\* only one of its partition, unless one was evicted.
RegisteredInv ==
  \A p \in Partitions \ evicted : \A k \in Registered(p) :
    Registered(p) = {k} /\ (activePartitions[p] = k \/ k \in Standby)

\* Handles, maps and closing agree.
PartitionInv ==
  /\ Counted /\ ClientsInv
  /\ ActiveInv /\ StandbyInv /\ StandbyOnce
  /\ ClosingInv /\ RegisteredInv

\* Whoever asks for a partition gets a handle or an error, unless the model
\* runs out of instances.
StartReturns ==
  \A c \in Clients :
    client[c].pc = "lookup" ~> client[c].pc \in {"idle", "holding"} \/ Garbage = {}

\* Close returns once all partitions have stopped, unless one was evicted.
CloseReturns ==
  closer = "initializing" ~> closer = "closed" \/ evicted # {}

-----------------------------------------------------------------------------
(* What a comment of the code says, and the code does not do.              *)

\* The comment on managerFinished: whoever finds a partition closing waits
\* until it is safe to start another instance of it.
OneRunning ==
  \A p \in Partitions : \A j, k \in Live(p) : j = k

=============================================================================
