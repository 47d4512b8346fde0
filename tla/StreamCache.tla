---------------------------- MODULE StreamCache -----------------------------
(***************************************************************************)
(* The stream cache of internal/streamcache.  A Fetch finds the entry of   *)
(* its key or makes one, whose contents a goroutine then creates; readers  *)
(* follow the writer through a file.  A Fetch makes at most one entry, so  *)
(* entries are named by the client that made them.                         *)
(*                                                                         *)
(* Every section of code under one mutex is one step.  Contents are        *)
(* Chunks writes long; a cursor is the number of chunks, with Done as a    *)
(* flag.  create, which may first wait for a token of the limiter, or be   *)
(* refused one, is what calls Write.                                       *)
(***************************************************************************)
EXTENDS Integers

CONSTANTS Clients, Keys, NoEntry, NoKey,
          Writer,          \* the subscriber of rcursor
          Chunks,          \* how many writes the contents take
          Backpressure     \* cfg.Backpressure

ASSUME CacheAssumption ==
  /\ Chunks \in Nat /\ Backpressure \in BOOLEAN
  /\ NoEntry \notin Clients /\ NoKey \notin Keys /\ Writer \notin Clients

VARIABLES
  index,    \* the entry of every key, or NoEntry
  entry,    \* every entry: its pipe, and where its goroutine is
  client    \* every Fetch

vars == <<index, entry, client>>

NotYet ==
  [key |-> NoKey, at |-> "none", err |-> "none", file |-> FALSE,
   written |-> 0,        \* how much of the contents is in the file
   wcursor |-> 0, rcursor |-> 0, readers |-> {},
   signals |-> {},       \* whose notifier has a notification, of which it holds one
   wdone |-> FALSE,      \* wcursor.Done before rcursor.Done: there was a time without readers
   rdone |-> FALSE]      \* rcursor.Done: the writer is closed
NewEntry(k, c) ==
  [NotYet EXCEPT !.key = k, !.at = "create", !.file = TRUE, !.readers = {c}]

\* An entry that nothing refers to any more is as good as none, and nobody opens
\* the file of one that is not in the index.
Collected(i, ent) ==
  [e \in Clients |-> IF \E k \in Keys : i[k] = e THEN ent[e]
                     ELSE IF ent[e].at = "done" /\ ent[e].readers = {} THEN NotYet
                     ELSE [ent[e] EXCEPT !.file = FALSE]]

Init ==
  /\ index = [k \in Keys |-> NoEntry]
  /\ entry = [c \in Clients |-> NotYet]
  /\ client = [c \in Clients |-> [at |-> "new", entry |-> NoEntry, position |-> 0]]

---------------------------------------------------------------------------
\* Fetch

\* Mutant: the file is there.
CanOpenFile(e) == entry[e].file

CanOpenReader(e) == entry[e].file /\ ~(entry[e].wdone /\ ~entry[e].rdone)

\* getStream finds an entry whose pipe can be read ...
GetStreamHit(c, k) ==
  LET e == index[k]
  IN  /\ client[c].at = "new" /\ e # NoEntry /\ CanOpenReader(e)
      /\ entry' = [entry EXCEPT ![e].readers = @ \cup {c}]
      /\ client' = [client EXCEPT ![c].at = "read", ![c].entry = e]
      /\ UNCHANGED index

\* ... or makes a new one, in place of one that cannot be read.
GetStreamMiss(c, k) ==
  /\ client[c].at = "new" /\ (index[k] # NoEntry => ~CanOpenReader(index[k]))
  /\ index' = [index EXCEPT ![k] = c]
  /\ entry' = Collected(index', [entry EXCEPT ![c] = NewEntry(k, c)])
  /\ client' = [client EXCEPT ![c].at = "read", ![c].entry = c]

\* ... or cannot make one: createFile fails.
GetStreamError(c, k) ==
  /\ client[c].at = "new" /\ (index[k] # NoEntry => ~CanOpenReader(index[k]))
  /\ index' = [index EXCEPT ![k] = NoEntry]
  /\ client' = [client EXCEPT ![c].at = "error"]
  /\ entry' = Collected(index', entry)

\* SetPosition of rcursor, which notifies the writer if it grows; nobody looks at
\* rcursor once create has returned.
Advanced(en, position) ==
  IF en.at \in {"create", "held"} /\ Backpressure /\ position > en.rcursor
  THEN [en EXCEPT !.rcursor = position, !.signals = @ \cup {Writer}] ELSE en

\* Fetch returns and closes its reader, which has got to position.
Return(c, result, position) ==
  LET e == client[c].entry
      left == [Advanced(entry[e], position) EXCEPT !.readers = @ \ {c}, !.signals = @ \ {c},
                                                   !.wdone = @ \/ (entry[e].readers = {c} /\ ~entry[e].rdone)]
  IN  /\ client' = [client EXCEPT ![c].at = result, ![c].entry = NoEntry,
                                  ![c].position = IF result = "ok" THEN @ ELSE 0]
      /\ entry' = Collected(index, [entry EXCEPT ![e] = left])

Readable(c) == LET e == client[c].entry
               IN  IF client[c].position < entry[e].wcursor
                   THEN (client[c].position + 1)..entry[e].written ELSE {}

\* What is read can be more than wcursor tells.
Read(c) ==
  /\ client[c].at = "read"
  /\ \E n \in Readable(c) :
       /\ client' = [client EXCEPT ![c].position = n]
       /\ entry' = [entry EXCEPT ![client[c].entry] = Advanced(@, n)]
  /\ UNCHANGED index

\* That the client has hung up is noticed when it is sent something: in sendfile,
\* before the position is advanced, or in Copy, after it.
ReadFails(c) ==
  /\ client[c].at = "read"
  /\ \E n \in Readable(c) : \E position \in {client[c].position, n} : Return(c, "error", position)
  /\ UNCHANGED index

\* waitReadable: nothing to read, so the reader waits for a notification ...
WaitReadable(c) ==
  /\ client[c].at = "read" /\ client[c].position >= entry[client[c].entry].wcursor
  /\ client' = [client EXCEPT ![c].at = "blocked"]
  /\ UNCHANGED <<index, entry>>

\* ... takes one and looks again ...
Notified(c) ==
  LET e == client[c].entry
  IN  /\ client[c].at = "blocked" /\ c \in entry[e].signals
      /\ entry' = [entry EXCEPT ![e].signals = @ \ {c}]
      /\ client' = [client EXCEPT ![c].at = "read"]
      /\ UNCHANGED index

\* ... or finds the writer closed: what there is can still be read.
EndOfFile(c) ==
  LET e == client[c].entry
  IN  /\ client[c].at = "blocked" /\ entry[e].rdone
      /\ IF client[c].position < entry[e].wcursor
         THEN client' = [client EXCEPT ![c].at = "read"] /\ UNCHANGED entry
         ELSE /\ client' = [client EXCEPT ![c].at = "wait"]
              /\ entry' = [entry EXCEPT ![e].signals = @ \ {c}]
      /\ UNCHANGED index

\* Mutant: the error of create is not looked at.
WaitDone(c) ==
  LET e == client[c].entry
  IN  /\ client[c].at = "wait"
      /\ entry[e].at = "done" /\ Return(c, "ok", 0)
      /\ UNCHANGED index

\* waiter.Wait
Wait(c) ==
  LET e == client[c].entry
  IN  /\ client[c].at = "wait"
      /\ entry[e].at = "done" /\ Return(c, IF entry[e].err = "none" THEN "ok" ELSE "error", 0)
      /\ UNCHANGED index

\* ... or the context of the Fetch ends first.
WaitCanceled(c) ==
  /\ client[c].at = "wait"
  /\ Return(c, "error", 0)
  /\ UNCHANGED index

---------------------------------------------------------------------------
\* The goroutine of an entry: create calls Write, runCreate closes the pipe,
\* a failed entry is taken from the index, the waiters are told.

\* The writer may not get ahead of the fastest reader; that all readers have
\* gone it learns while it waits for one, or without backpressure before it writes.
CanWrite(e) == IF Backpressure THEN entry[e].wcursor <= entry[e].rcursor ELSE ~entry[e].wdone
WrongCloseOrder(e) == entry[e].wdone /\ (Backpressure => entry[e].at = "held")

\* create is between two calls of Write.
Creating(e) == entry[e].at = "create" /\ entry[e].wcursor = entry[e].written

Write(e) ==
  /\ Creating(e) /\ entry[e].written < Chunks /\ CanWrite(e)
  /\ entry' = [entry EXCEPT ![e].written = @ + 1]
  /\ UNCHANGED <<index, client>>

\* Write waits for a reader to get on ...
WaitWritable(e) ==
  /\ Backpressure /\ Creating(e) /\ entry[e].written < Chunks /\ ~CanWrite(e)
  /\ entry' = [entry EXCEPT ![e].at = "held"]
  /\ UNCHANGED <<index, client>>

\* ... and looks again.
WriterNotified(e) ==
  /\ entry[e].at = "held" /\ Writer \in entry[e].signals
  /\ entry' = [entry EXCEPT ![e].at = "create", ![e].signals = @ \ {Writer}]
  /\ UNCHANGED <<index, client>>

\* Mutant: only the position is set.
SetPositionSilently(e) ==
  /\ entry[e].wcursor < entry[e].written
  /\ entry' = [entry EXCEPT ![e].wcursor = entry[e].written]
  /\ UNCHANGED <<index, client>>

\* SetPosition of wcursor, which notifies the readers.
SetPosition(e) ==
  /\ entry[e].wcursor < entry[e].written
  /\ entry' = [entry EXCEPT ![e].wcursor = entry[e].written, ![e].signals = @ \cup entry[e].readers]
  /\ UNCHANGED <<index, client>>

\* create returns an error, or not.
CreateReturns(e, err) ==
  /\ CASE err = "none" -> Creating(e) /\ entry[e].written = Chunks
       [] err = "order" -> WrongCloseOrder(e) /\ (Creating(e) \/ entry[e].at = "held") /\ entry[e].written < Chunks
       [] err = "create" -> Creating(e)
  /\ entry' = [entry EXCEPT ![e].at = "close", ![e].err = err, ![e].rcursor = 0,
                            ![e].signals = @ \ {Writer}]
  /\ UNCHANGED <<index, client>>

\* Mutant: only an error of create takes the entry from the index.
CloseUnpruned(e) ==
  /\ entry[e].at = "close"
  /\ LET err == IF entry[e].err = "none" /\ entry[e].wdone THEN "order" ELSE entry[e].err
     IN  entry' = [entry EXCEPT ![e].rdone = ~entry[e].wdone, ![e].err = err,
                                ![e].at = IF entry[e].err = "none" THEN "set" ELSE "delete"]
  /\ UNCHANGED <<index, client>>

\* runCreate closes the pipe, whatever create returned.  Closing fails when all
\* readers have gone, and leaves rcursor as it is.
Close(e) ==
  /\ entry[e].at = "close"
  /\ LET err == IF entry[e].err = "none" /\ entry[e].wdone THEN "order" ELSE entry[e].err
     IN  entry' = [entry EXCEPT ![e].rdone = ~entry[e].wdone, ![e].err = err,
                                ![e].at = IF err = "none" THEN "set" ELSE "delete"]
  /\ UNCHANGED <<index, client>>

\* Whatever entry the key has by now is taken from the index.
Delete(e) ==
  /\ entry[e].at = "delete"
  /\ index' = [index EXCEPT ![entry[e].key] = NoEntry]
  /\ entry' = Collected(index', [entry EXCEPT ![e].at = "set"])
  /\ UNCHANGED client

SetError(e) ==
  /\ entry[e].at = "set"
  /\ entry' = Collected(index, [entry EXCEPT ![e].at = "done"])
  /\ UNCHANGED <<index, client>>

---------------------------------------------------------------------------
\* clean evicts an old entry.  cleanWalk, or clean, removes an old file; the file
\* of an entry that is not in the index is not looked for again, and not modelled.
Clean(k) ==
  /\ index[k] # NoEntry
  /\ index' = [index EXCEPT ![k] = NoEntry]
  /\ entry' = Collected(index', entry)
  /\ UNCHANGED client

RemoveFile(e) ==
  /\ \E k \in Keys : index[k] = e
  /\ entry[e].file
  /\ entry' = [entry EXCEPT ![e].file = FALSE]
  /\ UNCHANGED <<index, client>>

---------------------------------------------------------------------------
Fetch(c) == \/ \E k \in Keys : GetStreamHit(c, k) \/ GetStreamMiss(c, k) \/ GetStreamError(c, k)
            \/ Read(c) \/ WaitReadable(c) \/ Notified(c) \/ EndOfFile(c) \/ Wait(c)

\* What the goroutine of an entry does unless create fails of its own.
Creation(e) == \/ Write(e) \/ WaitWritable(e) \/ WriterNotified(e) \/ SetPosition(e) \/ CreateReturns(e, "none") \/ CreateReturns(e, "order")
               \/ Close(e) \/ Delete(e) \/ SetError(e)

Next == \/ \E c \in Clients : Fetch(c) \/ ReadFails(c) \/ WaitCanceled(c) \/ Creation(c) \/ CreateReturns(c, "create") \/ RemoveFile(c)
        \/ \E k \in Keys : Clean(k)

Spec == Init /\ [][Next]_vars

\* Clients take what they are sent, and create goes on when it can; that clients
\* hang up or create fails of its own is not counted on.
Fairness == \A c \in Clients : WF_vars(Fetch(c)) /\ WF_vars(Creation(c))
FairSpec == Spec /\ Fairness

---------------------------------------------------------------------------
Entry == [key : Keys \cup {NoKey},
          at : {"none", "create", "held", "close", "delete", "set", "done"},
          err : {"none", "order", "create"}, file : BOOLEAN,
          written : 0..Chunks, wcursor : 0..Chunks, rcursor : 0..Chunks,
          readers : SUBSET Clients, signals : SUBSET (Clients \cup {Writer}),
          wdone : BOOLEAN, rdone : BOOLEAN]
Client == [at : {"new", "read", "blocked", "wait", "ok", "error"},
           entry : Clients \cup {NoEntry}, position : 0..Chunks]

\* Every variable has its type, and no cursor is past the contents.
TypeOK ==
  /\ index \in [Keys -> Clients \cup {NoEntry}]
  /\ entry \in [Clients -> Entry]
  /\ client \in [Clients -> Client]

\* A Fetch that returns without an error has delivered all of the contents, also
\* when they were made for another client that has hung up, evicted or removed
\* while they were read, or when create failed halfway, which readers see as the
\* end of the file.
ServedComplete ==
  \A c \in Clients : client[c].at = "ok" => client[c].position = Chunks

\* The pipe of an entry is broken only when nobody reads from it: a client that
\* joins while the last reader leaves is either counted by the writer, or refused
\* by OpenReader and given an entry of its own.  No reader sees the writer fail
\* because other readers left.
ReadersKeepPipe ==
  \A e \in Clients :
     (entry[e].wdone /\ ~entry[e].rdone) \/ entry[e].err = "order" => entry[e].readers = {}

\* "the waiter is only unblocked when the cache key has already been pruned from
\* the cache" (cache.go:308): a Fetch that is made after one failed does not meet
\* the failed entry.
PrunedBeforeTold ==
  \A k \in Keys : index[k] # NoEntry =>
     entry[index[k]].key = k /\ ~(entry[index[k]].at = "done" /\ entry[index[k]].err # "none")

\* The inductive invariant behind the three.

\* The pipe of an entry: what create has written is in the file when the pipe is
\* closed, all of it unless there is an error, and the writer is the one that is
\* closed first unless the readers were.
Sound(en) ==
  /\ en.wcursor <= en.written
  /\ en.at # "create" => en.wcursor = en.written
  /\ en.at = "none" => en.readers = {}
  /\ en.at \in {"none", "create", "held"} => en.err = "none"
  /\ en.at \in {"none", "create", "held", "close"} => ~en.rdone
  /\ en.at \in {"delete", "set", "done"} => (en.rdone <=> ~en.wdone)
  /\ en.at \notin {"none", "create", "held"} /\ en.err = "none" => en.written = Chunks
  /\ en.err = "order" => en.wdone /\ ~en.rdone
  /\ en.wdone /\ ~en.rdone => en.readers = {}

Reading(c) == client[c].at \in {"read", "blocked", "wait"}

\* The readers of a pipe are the Fetches that read from it; none has got past what
\* is written, and one that waits for create has got that far.
ReadersInv ==
  /\ \A e \in Clients : entry[e].readers = {c \in Clients : Reading(c) /\ client[c].entry = e}
  /\ \A c \in Clients : Reading(c) =>
       LET en == entry[client[c].entry]
       IN  /\ client[c].entry # NoEntry
           /\ client[c].position <= en.written
           /\ client[c].at = "wait" => en.rdone /\ client[c].position = en.written

\* The index has entries of its keys, but not one whose waiters may be told of an
\* error; a Fetch that has not begun has made none.
IndexInv ==
  /\ \A k \in Keys : index[k] # NoEntry =>
       LET en == entry[index[k]]
       IN  en.key = k /\ en.at # "none" /\ (en.at \in {"set", "done"} => en.err = "none")
  /\ \A c \in Clients : client[c].at = "new" => entry[c] = NotYet /\ client[c].position = 0

CacheInv == TypeOK /\ (\A e \in Clients : Sound(entry[e])) /\ ReadersInv /\ IndexInv /\ ServedComplete

\* Every Fetch returns: a reader always learns that the writer has made progress
\* or has closed the pipe, and a writer held back by backpressure that a reader
\* has caught up or that all have gone.
FetchReturns ==
  \A c \in Clients : (client[c].at = "read") ~> (client[c].at \in {"ok", "error"})
=============================================================================
