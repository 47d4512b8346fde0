------------------------- MODULE ConcurrencyLimiter -------------------------
(***************************************************************************)
(* The concurrency limiter of internal/limiter for one limiting key, with  *)
(* its two resizable semaphores, the adaptive limit that resizes them and  *)
(* the calculator that adapts the limit.                                   *)
(*                                                                         *)
(* A semaphore is the record of resizableSemaphore; waiters is its list,   *)
(* front first.  Every section of code under one mutex is one step.  A     *)
(* caller goes through Limit again and again:                              *)
(*   idle -> limit -> (queueSize -> size -> insert ->) admit -> acquire    *)
(*   -> (waiting ->) running -> exit -> release -> put -> idle             *)
(* or, without a token, admit -> put and waiting -> timedOut -> put.       *)
(***************************************************************************)
EXTENDS Integers, FiniteSets, Sequences

CONSTANTS Calls,
          MaxQueueLength,
          MinLimit, InitialLimit, MaxLimit,   \* AdaptiveSetting
          NoLimiter

Semaphores == [size : Nat, current : Nat, leftover : Nat, waiters : Seq(Calls)]
Limiters == [refcount : Nat, queue : Semaphores, tokens : Semaphores]

ASSUME LimiterAssumption ==
  /\ IsFiniteSet(Calls) /\ NoLimiter \notin Limiters
  /\ MaxQueueLength \in Nat \ {0}
  /\ MinLimit \in Nat \ {0} /\ InitialLimit \in MinLimit..MaxLimit /\ MaxLimit \in Nat

VARIABLES
  current,    \* AdaptiveLimit.current
  hook,       \* "idle"; "tokens" between the two Resize calls of the update hook;
              \* "evicted" if the limiter it works on is no longer in the map
  backoff,    \* lastBackoffEvent is set
  event,      \* what calibrateLimits has read of it, or "none"
  limiter,    \* limitsByKey[key]: [refcount, queue, tokens]
  call,       \* where every call of Limit is, with the sizes it has read
  raced       \* the limiter was created across an update

vars == <<current, hook, backoff, event, limiter, call, raced>>

NewSemaphore(size) == [size |-> size, current |-> 0, leftover |-> 0, waiters |-> <<>>]
Count(s) == s.current + s.leftover
Waiting(s) == {s.waiters[i] : i \in DOMAIN s.waiters}

\* notifyWaiters lets in as many waiters as there is room for, from the front.
Free(s) == IF Count(s) >= s.size THEN 0
           ELSE IF s.size - Count(s) < Len(s.waiters) THEN s.size - Count(s) ELSE Len(s.waiters)
NotifyWaiters(s) ==
  [s EXCEPT !.current = @ + Free(s), !.waiters = SubSeq(@, Free(s) + 1, Len(@))]

Released(s) ==
  IF s.leftover > 0 THEN [s EXCEPT !.leftover = @ - 1] ELSE [s EXCEPT !.current = @ - 1]

\* Mutant: the waiters are not told that there is room.
ResizedSilently(s, size) ==
  IF size = s.size THEN s
  ELSE IF size > Count(s)
       THEN [s EXCEPT !.size = size, !.leftover = 0, !.current = Count(s)]
       ELSE [s EXCEPT !.size = size, !.current = size, !.leftover = Count(s) - size]

Resized(s, size) ==
  IF size = s.size THEN s
  ELSE IF size > Count(s)
       THEN NotifyWaiters([s EXCEPT !.size = size, !.leftover = 0, !.current = Count(s)])
       ELSE [s EXCEPT !.size = size, !.current = size, !.leftover = Count(s) - size]

Init ==
  /\ current = InitialLimit /\ hook = "idle"
  /\ backoff = FALSE /\ event = "none"
  /\ limiter = NoLimiter
  /\ call = [c \in Calls |-> [at |-> "idle", queueSize |-> 0, size |-> 0]]
  /\ raced = FALSE

Go(c, at) == call' = [call EXCEPT ![c].at = at]
LimitUnchanged == UNCHANGED <<current, hook, backoff, event, raced>>

\* When the tokens become s, the waiters gone from the list have a token.
Awake(s) ==
  LET woken == Waiting(limiter.tokens) \ Waiting(s)
  IN  [c \in Calls |-> IF c \in woken THEN [call[c] EXCEPT !.at = "running"] ELSE call[c]]

---------------------------------------------------------------------------
\* AdaptiveLimit.Current waits for an update to end.  getConcurrencyLimit holds
\* the mutex m from the lookup to the insertion.
Unlocked == \A c \in Calls : call[c].at \notin {"queueSize", "size", "insert"}

Limit(c) ==
  /\ call[c].at = "idle" /\ hook = "idle"
  /\ Go(c, "limit")
  /\ LimitUnchanged /\ UNCHANGED limiter

GetConcurrencyLimit(c) ==
  /\ call[c].at = "limit" /\ Unlocked
  /\ IF limiter = NoLimiter THEN Go(c, "queueSize") /\ UNCHANGED limiter
     ELSE Go(c, "admit") /\ limiter' = [limiter EXCEPT !.refcount = @ + 1]
  /\ LimitUnchanged

CreateQueueTokens(c) ==
  /\ call[c].at = "queueSize" /\ hook = "idle"
  /\ call' = [call EXCEPT ![c].at = "size", ![c].queueSize = current + MaxQueueLength]
  /\ LimitUnchanged /\ UNCHANGED limiter

CreateConcurrencyTokens(c) ==
  /\ call[c].at = "size" /\ hook = "idle"
  /\ call' = [call EXCEPT ![c].at = "insert", ![c].size = current]
  /\ LimitUnchanged /\ UNCHANGED limiter

Insert(c) ==
  /\ call[c].at = "insert"
  /\ limiter' = [refcount |-> 1, queue |-> NewSemaphore(call[c].queueSize),
                 tokens |-> NewSemaphore(call[c].size)]
  /\ call' = [call EXCEPT ![c] = [at |-> "admit", queueSize |-> 0, size |-> 0]]
  /\ raced' = (call[c].size # current \/ call[c].queueSize # current + MaxQueueLength)
  /\ UNCHANGED <<current, hook, backoff, event>>

\* Mutant: a call waits for its queue token.
TryAcquireWaiting(c) ==
  /\ call[c].at = "admit" /\ Count(limiter.queue) < limiter.queue.size
  /\ Go(c, "acquire")
  /\ limiter' = [limiter EXCEPT !.queue.current = @ + 1]
  /\ LimitUnchanged

\* queueTokens.TryAcquire
TryAcquire(c) ==
  /\ call[c].at = "admit"
  /\ IF Count(limiter.queue) < limiter.queue.size /\ limiter.queue.waiters = <<>>
     THEN Go(c, "acquire") /\ limiter' = [limiter EXCEPT !.queue.current = @ + 1]
     ELSE Go(c, "put") /\ UNCHANGED limiter
  /\ LimitUnchanged

\* concurrencyTokens.Acquire: a waiter goes to the front of the list.  With a
\* token free, maxQueueWait may have passed already.
Acquire(c) ==
  /\ call[c].at = "acquire"
  /\ IF Count(limiter.tokens) < limiter.tokens.size
     THEN \/ Go(c, "running") /\ limiter' = [limiter EXCEPT !.tokens.current = @ + 1]
          \/ Go(c, "timedOut") /\ UNCHANGED limiter
     ELSE Go(c, "waiting") /\ limiter' = [limiter EXCEPT !.tokens.waiters = <<c>> \o @]
  /\ LimitUnchanged

\* The list without a waiter.
Without(s, c) ==
  LET i == CHOOSE j \in DOMAIN s.waiters : s.waiters[j] = c
  IN  [s EXCEPT !.waiters = SubSeq(@, 1, i - 1) \o SubSeq(@, i + 1, Len(@))]

\* stopWaiter after maxQueueWait.
StopWaiter(c) ==
  /\ call[c].at = "waiting"
  /\ LET left == Without(limiter.tokens, c)
         s == IF Head(limiter.tokens.waiters) = c THEN NotifyWaiters(left) ELSE left
     IN  /\ limiter' = [limiter EXCEPT !.tokens = s]
         /\ call' = [Awake(s) EXCEPT ![c].at = "timedOut"]
  /\ LimitUnchanged

\* Mutant: a call that timed out keeps its queue token.
ReleaseQueueTokenOnExit(c) ==
  /\ call[c].at \in {"timedOut", "exit"}
  /\ limiter' = IF call[c].at = "exit" THEN [limiter EXCEPT !.queue = Released(@)] ELSE limiter
  /\ Go(c, IF call[c].at = "exit" THEN "release" ELSE "put")
  /\ LimitUnchanged

\* The queue token goes back first: after a timeout, and when the function has
\* returned.  Nobody waits for queue tokens.
ReleaseQueueToken(c) ==
  /\ call[c].at \in {"timedOut", "exit"}
  /\ limiter' = [limiter EXCEPT !.queue = Released(@)]
  /\ Go(c, IF call[c].at = "exit" THEN "release" ELSE "put")
  /\ LimitUnchanged

Release(c) ==
  /\ call[c].at = "release"
  /\ LET s == NotifyWaiters(Released(limiter.tokens))
     IN  /\ limiter' = [limiter EXCEPT !.tokens = s]
         /\ call' = [Awake(s) EXCEPT ![c].at = "put"]
  /\ LimitUnchanged

PutConcurrencyLimit(c) ==
  /\ call[c].at = "put" /\ Unlocked
  /\ Go(c, "idle")
  /\ limiter' = IF limiter.refcount = 1 THEN NoLimiter ELSE [limiter EXCEPT !.refcount = @ - 1]
  /\ raced' = (raced /\ limiter.refcount > 1)
  /\ hook' = IF hook = "tokens" /\ limiter.refcount = 1 THEN "evicted" ELSE hook
  /\ UNCHANGED <<current, backoff, event>>

---------------------------------------------------------------------------
\* The load monitor reports pressure.
SetLastBackoffEvent ==
  /\ ~backoff /\ backoff' = TRUE
  /\ UNCHANGED <<current, hook, event, limiter, call, raced>>

ReadBackoffEvent ==
  /\ event = "none" /\ hook = "idle"
  /\ event' = IF backoff THEN "decrease" ELSE "increase"
  /\ UNCHANGED <<current, hook, backoff, limiter, call, raced>>

\* int(floor(current * BackoffFactor)), with the factor 1/2.
NewLimit == IF event = "increase" THEN IF current < MaxLimit THEN current + 1 ELSE MaxLimit
            ELSE IF current \div 2 > MinLimit THEN current \div 2 ELSE MinLimit

Calibrated == event' = "none" /\ backoff' = FALSE

\* Mutant: the hook resizes the concurrency tokens only.
UpdateTokens ==
  /\ event # "none" /\ hook = "idle"
  /\ current' = NewLimit
  /\ IF NewLimit = current \/ limiter = NoLimiter
     THEN Calibrated /\ UNCHANGED hook
     ELSE hook' = "tokens" /\ UNCHANGED <<event, backoff>>
  /\ UNCHANGED <<limiter, call, raced>>

\* Update runs the hook: the queue tokens are resized, then the concurrency
\* tokens.  The hook does not take the mutex of limitsByKey.
Update ==
  /\ event # "none" /\ hook = "idle"
  /\ current' = NewLimit
  /\ IF NewLimit = current \/ limiter = NoLimiter
     THEN Calibrated /\ UNCHANGED <<hook, limiter>>
     ELSE /\ hook' = "tokens"
          /\ limiter' = [limiter EXCEPT !.queue = Resized(@, NewLimit + MaxQueueLength)]
          /\ UNCHANGED <<event, backoff>>
  /\ UNCHANGED <<call, raced>>

ResizeTokens ==
  /\ hook = "tokens"
  /\ LET s == Resized(limiter.tokens, current)
     IN  limiter' = [limiter EXCEPT !.tokens = s] /\ call' = Awake(s)
  /\ hook' = "idle" /\ Calibrated
  /\ UNCHANGED <<current, raced>>

\* The limiter has gone, and its tokens are resized for nobody.  Another one is
\* made only with the limit's mutex, when the update has ended.
ResizeEvicted ==
  /\ hook = "evicted"
  /\ hook' = "idle" /\ Calibrated
  /\ UNCHANGED <<current, limiter, call, raced>>

Calibration == SetLastBackoffEvent \/ ReadBackoffEvent \/ Update \/ ResizeTokens \/ ResizeEvicted

\* The limited function returns.
FunctionReturns(c) ==
  /\ call[c].at = "running"
  /\ Go(c, "exit")
  /\ LimitUnchanged /\ UNCHANGED limiter

CallStep(c) ==
  \/ GetConcurrencyLimit(c) \/ CreateQueueTokens(c) \/ CreateConcurrencyTokens(c) \/ Insert(c)
  \/ TryAcquire(c) \/ Acquire(c) \/ StopWaiter(c)
  \/ ReleaseQueueToken(c) \/ Release(c) \/ PutConcurrencyLimit(c)

Next == Calibration \/ \E c \in Calls : Limit(c) \/ CallStep(c) \/ FunctionReturns(c)

Spec == Init /\ [][Next]_vars

\* Goroutines run, Go's mutexes hand over to who has waited long, the wait for a
\* token has a deadline, and an update that has begun ends.  Nothing is assumed of
\* the limited function, of the load monitor or of the calibration timer.
Fairness == (\A c \in Calls : SF_vars(CallStep(c))) /\ WF_vars(ResizeTokens \/ ResizeEvicted)
FairSpec == Spec /\ Fairness

---------------------------------------------------------------------------
CallAt(stages) == {c \in Calls : call[c].at \in stages}

\* The calls that use the limiter, those that hold a queue token, and those that
\* hold a concurrency token.
Users == CallAt({"admit", "acquire", "waiting", "timedOut", "running", "exit", "release", "put"})
Queued == CallAt({"acquire", "waiting", "timedOut", "running", "exit"})
Holders == CallAt({"running", "exit", "release"})

\* Tokens are neither lost nor made up, whatever resizes, timeouts and releases
\* fall together: the queue tokens taken are those of the calls from their
\* admission to the end of the function, the concurrency tokens those of the calls
\* that run it or are about to release, every waiter is once in the list, and
\* refcount counts the calls that use the limiter (putConcurrencyLimit panics on
\* a wrong one).  Release on a semaphore without tokens would wrap a uint.
TokensExact ==
  limiter # NoLimiter =>
     /\ limiter.queue \in Semaphores /\ limiter.tokens \in Semaphores
     /\ limiter.refcount = Cardinality(Users)
     /\ Count(limiter.queue) = Cardinality(Queued)
     /\ Count(limiter.tokens) = Cardinality(Holders)
     /\ Waiting(limiter.tokens) = CallAt({"waiting"})
     /\ Len(limiter.tokens.waiters) = Cardinality(CallAt({"waiting"}))

\* No call waits while a token is free: "the queue always moved up when a slot is
\* available or when a waiter's context is cancelled" (resizable_semaphore.go:146),
\* on which TryAcquire relies, and with which Resize skips the waiters unless the
\* size grows beyond the tokens taken.
NoIdleToken ==
  limiter # NoLimiter /\ limiter.tokens.waiters # <<>> => Count(limiter.tokens) >= limiter.tokens.size

\* After an update both semaphores have the size that belongs to the limit
\* (concurrency_limiter.go:171), but for a limiter that was created across the
\* update: the sizes it was given were read before, and the hook, which does not
\* take the mutex, has missed it.
SizesFollow ==
  limiter # NoLimiter /\ hook = "idle" /\ ~raced =>
     limiter.tokens.size = current /\ limiter.queue.size = current + MaxQueueLength

\* What TokensExact, NoIdleToken and SizesFollow need to be inductive: the types,
\* WaitersInv, CreationInv and HookInv.  LimiterInv is all of them.
Call == [at : {"idle", "limit", "queueSize", "size", "insert", "admit", "acquire", "waiting",
               "timedOut", "running", "exit", "release", "put"},
         queueSize : Nat, size : Nat]
TypeOK ==
  /\ current \in MinLimit..MaxLimit /\ hook \in {"idle", "tokens", "evicted"}
  /\ backoff \in BOOLEAN /\ event \in {"none", "increase", "decrease"}
  /\ limiter \in Limiters \cup {NoLimiter}
  /\ call \in [Calls -> Call] /\ raced \in BOOLEAN

\* Nobody waits for queue tokens, and nobody waits twice.
WaitersInv ==
  limiter # NoLimiter =>
     /\ limiter.queue.waiters = <<>>
     /\ \A i, j \in DOMAIN limiter.tokens.waiters :
          limiter.tokens.waiters[i] = limiter.tokens.waiters[j] => i = j

\* One call at a time makes a limiter, when there is none; without one nobody uses
\* it.
CreationInv ==
  /\ \A c, d \in CallAt({"queueSize", "size", "insert"}) : c = d
  /\ CallAt({"queueSize", "size", "insert"}) # {} => limiter = NoLimiter
  /\ limiter = NoLimiter => Users = {} /\ ~raced

\* The update hook works on the limiter that is in the map, unless that was evicted
\* meanwhile: then there is none until the update has ended.
HookInv ==
  /\ hook = "tokens" => limiter # NoLimiter
  /\ hook = "tokens" /\ ~raced => limiter.queue.size = current + MaxQueueLength
  /\ hook = "evicted" => limiter = NoLimiter /\ CallAt({"size", "insert"}) = {}

LimiterInv ==
  /\ TypeOK /\ TokensExact /\ NoIdleToken /\ SizesFollow
  /\ WaitersInv /\ CreationInv /\ HookInv

\* A call that enters Limit gets to run its function, or comes back refused, even
\* if the functions that run never return, and whatever the calculator does: no
\* order of the mutexes of the limiter, the limit and the semaphores deadlocks.
LimitReturns ==
  \A c \in Calls : (call[c].at = "limit") ~> (call[c].at \in {"running", "idle"})
=============================================================================
