------------------------- MODULE ReplicationStepProofs ----------------------
(***************************************************************************)
(* The steps of replication, for any storages, writes, Praefect nodes and  *)
(* any number of faults: what each of them does to the tables of Praefect  *)
(* and to the workers, and that every one preserves the first two sides of *)
(* the inductive invariant, the queue (QueueStep) and the store of         *)
(* generations (StoreStep).  A fact only one of these lemmas needs is a    *)
(* named step of its proof; the ones both need, and ReplicationProofs, are *)
(* lemmas of their own.                                                    *)
(***************************************************************************)
EXTENDS Replication, TLAPS

USE Zenon

\* No job of the queue or of a worker is numbered above n.
Below(n) ==
  /\ \A j \in queue : j.id <= n /\ j.before <= n
  /\ \A k \in Workers : \A j \in HeldBy(k) : j.id <= n /\ j.before <= n

\* The jobs have a highest number, so that the number of a new one is fresh.
Numbered == \E n \in Nat : Below(n)

\* Every non-empty set of naturals has a least element, which LeastNatural of
\* ReplicationProofs proves: a worker's batch then has a first job, and the numbers
\* of the jobs of a storage a maximum.
Least == \A T \in SUBSET Nat : T # {} => \E n \in T : \A m \in T : n <= m

Inv == ReplicationInv /\ Numbered /\ Least

---------------------------------------------------------------------------
(* Operators.                                                              *)

\* The job a worker is at is one of its batch.
LEMMA FirstIn ==
  ASSUME Least, NEW batch \in SUBSET Jobs, batch # {}
  PROVE  First(batch) \in batch
<1> DEFINE T == {e.id : e \in batch}
<1>1. T \subseteq Nat /\ T # {}
  BY SMT DEF Jobs
<1>2. PICK n \in T : \A m \in T : n <= m
  BY <1>1 DEF Least
<1>3. \E e \in batch : \A o \in batch : e.id <= o.id
  BY <1>2
<1> QED
  BY <1>3 DEF First

---------------------------------------------------------------------------
(* What a worker's moves do to its record.                                 *)

Others(k) == \A o \in Workers : o # k => worker'[o] = worker[o]

EndStates == {"completed", "failed", "dead"}

Went(k, stage, gen) ==
  /\ worker' \in [Workers -> WorkerStates] /\ Others(k)
  /\ worker'[k].at = stage /\ worker'[k].gen = gen
  /\ worker'[k].batch = worker[k].batch /\ worker'[k].done = worker[k].done

Ended(k, state) ==
  /\ worker' \in [Workers -> WorkerStates] /\ Others(k)
  /\ Job(k) \in worker[k].batch
  /\ worker'[k].at = IF worker[k].batch = {Job(k)} THEN "ack" ELSE "event"
  /\ worker'[k].gen = NoRow
  /\ worker'[k].batch = worker[k].batch \ {Job(k)}
  /\ worker'[k].done = worker[k].done \cup {WithState(Job(k), state)}

\* A worker that goes on to a stage of its job changes only where it is.
LEMMA GoesEffect ==
  ASSUME worker \in [Workers -> WorkerStates], NEW k \in Workers,
         NEW stage \in Stages, NEW gen \in Nat \cup {NoRow}, Goes(k, stage, gen)
  PROVE  Went(k, stage, gen)
<1> DEFINE r == [worker[k] EXCEPT !.at = stage, !.gen = gen]
<1>1. worker' = [worker EXCEPT ![k] = r]
  BY DEF Goes
<1>2. r \in WorkerStates /\ r.at = stage /\ r.gen = gen /\ r.batch = worker[k].batch /\ r.done = worker[k].done
  BY DEF WorkerStates
<1> HIDE DEF r
<1>3. worker'[k] = r /\ worker' \in [Workers -> WorkerStates] /\ Others(k)
  BY SMT, <1>1, <1>2 DEF Others
<1> QED
  BY <1>2, <1>3 DEF Went

\* A job that ends leaves the batch with its state; the worker goes on with the
\* next one or acknowledges.
LEMMA EndsEffect ==
  ASSUME Least, worker \in [Workers -> WorkerStates], NEW k \in Workers,
         worker[k].batch # {}, NEW state \in EndStates, Ends(k, state)
  PROVE  Ended(k, state)
<1>1. worker[k] \in WorkerStates /\ worker[k].batch \in SUBSET Jobs /\ worker[k].done \in SUBSET Jobs
  BY SMT DEF WorkerStates
<1>2. Job(k) \in worker[k].batch
  BY <1>1, FirstIn DEF Job
<1>3. Job(k) \in Jobs
  BY <1>1, <1>2
<1> DEFINE at == IF worker[k].batch = {Job(k)} THEN "ack" ELSE "event"
           e == WithState(Job(k), state)
           batch == worker[k].batch \ {Job(k)}
           done == worker[k].done \cup {e}
           r == [at |-> at, batch |-> batch, gen |-> NoRow, done |-> done]
<1>4. e \in Jobs
  BY SMT, <1>3 DEF Jobs, EndStates, WithState
<1>5. worker' = [worker EXCEPT ![k] = r]
  BY DEF Ends
<1>6. /\ at \in Stages \cup {"idle", "ack"} /\ batch \in SUBSET Jobs
      /\ NoRow \in Nat \cup {NoRow} /\ done \in SUBSET Jobs
  <2> HIDE DEF e
  <2> QED
    BY SMT, <1>1, <1>4 DEF Stages
<1> HIDE DEF e, at, batch, done
<1>7. /\ r \in WorkerStates
      /\ r.at = at /\ r.gen = NoRow /\ r.batch = batch /\ r.done = done
  BY SMT, <1>6 DEF WorkerStates
<1> HIDE DEF r
<1>8. /\ worker'[k] = r /\ worker' \in [Workers -> WorkerStates]
      /\ \A o \in Workers : o # k => worker'[o] = worker[o]
  BY SMT, <1>5, <1>7
<1> QED
  BY <1>2, <1>7, <1>8 DEF e, at, batch, done, Ended, Others

\* What the steps between Dequeue and Acknowledge have in common.
Moves(k) ==
  /\ worker[k].at \in Stages /\ UNCHANGED <<queue, jobLocks, acquired>>
  /\ \/ \E stage \in Stages, gen \in Nat \cup {NoRow} :
          /\ Went(k, stage, gen)
          /\ stage \in {"copy", "set", "invalid"} => Job(k).change = "update"
          /\ stage \in {"remove", "drop"} => Job(k).change = "delete_replica"
     \/ \E state \in EndStates : Ended(k, state) /\ (state = "failed" => Job(k).attempt >= 1)

WorkerStep(k) ==
  \/ StartEvent(k) \/ ReplicateRepository(k) \/ SetGeneration(k)
  \/ DeleteInvalidRepository(k) \/ RemoveRepository(k) \/ DeleteReplica(k) \/ EventFails(k)

\* A worker at a stage has a job of its batch, of the kind the stage is for.
LEMMA Working ==
  ASSUME Inv, NEW k \in Workers
  PROVE  /\ worker \in [Workers -> WorkerStates] /\ worker[k] \in WorkerStates /\ Fits(k)
         /\ worker[k].gen \in Nat \cup {NoRow}
         /\ worker[k].batch \subseteq Jobs /\ worker[k].done \subseteq Jobs /\ HeldBy(k) \subseteq Jobs
         /\ worker[k].at \in Stages =>
              /\ worker[k].batch # {}
              /\ Job(k) \in worker[k].batch /\ Job(k) \in Jobs /\ Job(k) \in HeldBy(k)
              /\ Job(k).target \in Storages /\ Job(k).attempt \in Int
              /\ Job(k).change \in {"update", "delete_replica"}
              /\ Job(k).change = "update" => Job(k).source \in Storages
<1>1. worker \in [Workers -> WorkerStates] /\ worker[k] \in WorkerStates /\ Fits(k)
  BY DEF Inv, ReplicationInv, TypeOK
<1>2. worker[k].batch \subseteq Jobs /\ worker[k].done \subseteq Jobs /\ worker[k].gen \in Nat \cup {NoRow}
  BY SMT, <1>1 DEF WorkerStates
<1>3. HeldBy(k) \subseteq Jobs
  BY <1>2 DEF HeldBy
<1>4. ASSUME worker[k].at \in Stages
      PROVE  worker[k].batch # {} /\ Job(k) \in worker[k].batch /\ Job(k) \in Jobs /\ Job(k) \in HeldBy(k)
  <2>1. worker[k].batch # {}
    BY <1>1, <1>4 DEF Fits
  <2> QED
    BY <1>2, <2>1, FirstIn DEF Inv, Job, HeldBy
<1>5. \A e \in Jobs : e.target \in Storages /\ e.attempt \in Int /\ e.change \in {"update", "delete_replica"}
  BY SMT DEF Jobs
<1> QED
  BY <1>1, <1>2, <1>3, <1>4, <1>5 DEF Fits

\* A job that fails is retried or dead, by its attempts.
LEMMA FailsEffect ==
  ASSUME Inv, NEW k \in Workers, worker[k].at \in Stages, handleNodeEventFails(k)
  PROVE  \E state \in {"failed", "dead"} : /\ Ended(k, state)
                                           /\ state = "failed" => Job(k).attempt >= 1
                                           /\ state = "dead" => Job(k).attempt <= 0
<1>1. /\ worker \in [Workers -> WorkerStates] /\ worker[k].batch # {} /\ Job(k).attempt \in Int
  BY Working
<1>4. "dead" # "failed" /\ (~(Job(k).attempt <= 0) => Job(k).attempt >= 1)
  BY SMT, <1>1
<1>2. CASE Job(k).attempt <= 0
  <2>1. Ends(k, "dead")
    BY <1>2 DEF handleNodeEventFails
  <2>2. Ended(k, "dead")
    BY <1>1, <2>1, EndsEffect DEF Inv, EndStates
  <2> QED
    BY <1>2, <1>4, <2>2
<1>3. CASE ~(Job(k).attempt <= 0)
  <2>1. Ends(k, "failed")
    BY <1>3 DEF handleNodeEventFails
  <2>2. Ended(k, "failed")
    BY <1>1, <2>1, EndsEffect DEF Inv, EndStates
  <2> QED
    BY <1>3, <1>4, <2>2
<1> QED
  BY SMT, <1>2, <1>3

\* What each of the steps does to the worker.
LEMMA StepEffect ==
  ASSUME Inv, NEW k \in Workers, worker[k].at \in Stages
  PROVE  /\ \A stage \in Stages, gen \in Nat \cup {NoRow} : Goes(k, stage, gen) => Went(k, stage, gen)
         /\ Ends(k, "completed") => Ended(k, "completed")
<1>1. worker \in [Workers -> WorkerStates] /\ worker[k].batch # {}
  BY Working
<1> QED
  BY <1>1, GoesEffect, EndsEffect DEF Inv, EndStates

\* Every step of a worker at a job moves its record in one of these ways.
LEMMA StepsMove ==
  ASSUME Inv, NEW k \in Workers, WorkerStep(k)
  PROVE  Moves(k)
<1>1. worker[k].at \in Stages
  BY DEF WorkerStep, StartEvent, ReplicateRepository, SetGeneration,
       DeleteInvalidRepository, RemoveRepository, DeleteReplica, EventFails, Stages
<1>2. UNCHANGED <<queue, jobLocks, acquired>>
  BY DEF WorkerStep, StartEvent, ReplicateRepository, SetGeneration,
       DeleteInvalidRepository, RemoveRepository, DeleteReplica, EventFails, jobs
<1> DEFINE Going(stage, gen) == Goes(k, stage, gen) /\ gen \in Nat \cup {NoRow}
<1>3. /\ Fits(k) /\ worker[k].gen \in Nat \cup {NoRow} /\ NoRow \in Nat \cup {NoRow}
      /\ Job(k).change \in {"update", "delete_replica"}
      /\ Job(k).change = "update" => Job(k).source \in Storages
  BY <1>1, Working
<1>4. Job(k).change = "update" => replicas[Job(k).source] \in Nat \cup {NoRow}
  BY <1>3 DEF Inv, ReplicationInv, TypeOK
<1>5. \/ handleNodeEventFails(k) \/ Ends(k, "completed")
      \/ Going("remove", NoRow) /\ Job(k).change = "delete_replica"
      \/ Going("drop", NoRow) /\ Job(k).change = "delete_replica"
      \/ \E gen \in Nat \cup {NoRow} :
            (Going("copy", gen) \/ Going("set", gen) \/ Going("invalid", gen)) /\ Job(k).change = "update"
  <2>1. CASE StartEvent(k)
    BY <2>1, <1>3, <1>4 DEF StartEvent
  <2>2. CASE ReplicateRepository(k)
    <3>1. Job(k).change = "update"
      BY <1>3, <2>2 DEF Fits, ReplicateRepository
    <3> QED
      BY <2>2, <1>3, <3>1 DEF ReplicateRepository
  <2>3. CASE SetGeneration(k) \/ DeleteInvalidRepository(k) \/ DeleteReplica(k) \/ EventFails(k)
    BY <2>3 DEF SetGeneration, DeleteInvalidRepository, DeleteReplica, EventFails
  <2>4. CASE RemoveRepository(k)
    <3>1. Job(k).change = "delete_replica"
      BY <1>3, <2>4 DEF Fits, RemoveRepository
    <3> QED
      BY <2>4, <1>3, <3>1 DEF RemoveRepository
  <2> QED
    BY <2>1, <2>2, <2>3, <2>4 DEF WorkerStep
<1>6. CASE handleNodeEventFails(k)
  BY <1>1, <1>2, <1>6, FailsEffect DEF Moves, EndStates
<1>7. CASE Ends(k, "completed")
  <2>1. "completed" \in EndStates /\ "completed" # "failed"
    BY SMT DEF EndStates
  <2> QED
    BY <1>1, <1>2, <1>7, <2>1, StepEffect DEF Moves
<1>8. CASE \E stage \in {"remove", "drop"} : Going(stage, NoRow) /\ Job(k).change = "delete_replica"
  <2>1. PICK stage \in {"remove", "drop"} : Going(stage, NoRow) /\ Job(k).change = "delete_replica"
    BY <1>8
  <2>2. stage \in Stages /\ stage \notin {"copy", "set", "invalid"}
    BY SMT DEF Stages
  <2> QED
    BY <1>1, <1>2, <2>1, <2>2, StepEffect DEF Moves
<1>9. CASE \E stage \in {"copy", "set", "invalid"}, gen \in Nat \cup {NoRow} : Going(stage, gen) /\ Job(k).change = "update"
  <2>1. PICK stage \in {"copy", "set", "invalid"}, gen \in Nat \cup {NoRow} : Going(stage, gen) /\ Job(k).change = "update"
    BY <1>9
  <2>2. stage \in Stages /\ stage \notin {"remove", "drop"}
    BY SMT DEF Stages
  <2> QED
    BY <1>1, <1>2, <2>1, <2>2, StepEffect DEF Moves
<1> HIDE DEF Going
<1> QED
  BY <1>5, <1>6, <1>7, <1>8, <1>9

---------------------------------------------------------------------------
(* The jobs of the queue and of the workers.                               *)

\* A job whose state was set is the same job.
LEMMA StateOnly ==
  ASSUME NEW e \in Jobs, NEW state \in EndStates \cup {"ready", "in_progress"}
  PROVE  LET f == WithState(e, state)
         IN  /\ f \in Jobs /\ Row(f) = Row(e) /\ f.state = state
             /\ f.id = e.id /\ f.before = e.before /\ f.target = e.target /\ f.source = e.source
             /\ f.change = e.change /\ f.attempt = e.attempt
             /\ WithState(f, e.state) = e
<1>1. WithState(e, state) \in Jobs
  BY SMT DEF WithState, Jobs, EndStates
<1>2. WithState(e, state).state = state
  BY SMT DEF WithState, Jobs
<1>3. LET f == WithState(e, state)
      IN  /\ f.id = e.id /\ f.before = e.before /\ f.target = e.target /\ f.source = e.source
          /\ f.change = e.change /\ f.attempt = e.attempt
  BY SMT DEF WithState, Jobs
<1>4. WithState(WithState(e, state), e.state) = e
  BY DEF WithState, Jobs
<1> QED
  BY <1>1, <1>2, <1>3, <1>4 DEF Row

\* The workers that a step leaves alone.
LEMMA SameWorker ==
  ASSUME NEW o \in Workers, worker'[o] = worker[o]
  PROVE  /\ Job(o)' = Job(o) /\ HeldBy(o)' = HeldBy(o)
         /\ Fits(o) => Fits(o)'
<1>1. Job(o)' = Job(o) /\ HeldBy(o)' = HeldBy(o)
  BY DEF Job, HeldBy
<1> QED
  BY <1>1 DEF Fits

\* Every job a worker holds after a step is one it held, but for the state.
Kin(o) ==
  \A j \in HeldBy(o)' : \E e \in HeldBy(o) :
     /\ j.id = e.id /\ j.before = e.before
     /\ j.target = e.target /\ j.source = e.source /\ j.change = e.change

\* The part of the invariant that is about the queue and the workers' jobs.
QueueSide ==
  /\ queue \subseteq Jobs /\ jobLocks \subseteq Nat \X Storages /\ acquired \subseteq Storages
  /\ worker \in [Workers -> WorkerStates]
  /\ (\A k \in Workers : Fits(k)) /\ QueueInv /\ ("stale" \notin slips => HeldInv) /\ Numbered

\* The part of the invariant about the queue.
LEMMA QueueSideNow ==
  ASSUME Inv
  PROVE  QueueSide
  BY DEF Inv, ReplicationInv, TypeOK, QueueSide

---------------------------------------------------------------------------
(* New jobs.                                                               *)

IsNew(j, change, source, target) ==
  /\ j \in Jobs /\ j.id = NextId(target) /\ j.change = change /\ j.source = source
  /\ j.target = target /\ j.attempt = MaxAttempt /\ j.state = "ready" /\ j.before = 0

\* Jobs that may be added to the queue.
Fresh(N) ==
  /\ \A j \in N : /\ j \in Jobs /\ j.state = "ready" /\ j.attempt = MaxAttempt
                  /\ j.id = NextId(j.target) /\ j.before = 0
                  /\ j.change = "update" => j.source \in Storages
                  /\ j.change = "delete_replica" => \A q \in queue : q.change # "delete_replica"
  /\ \A i, j \in N : i.target = j.target => i = j
  /\ \A i, j \in N : i.change = "delete_replica" /\ j.change = "delete_replica" => i = j

---------------------------------------------------------------------------
(* Taking and acknowledging jobs.                                          *)

IsTaken(p, q) ==
  /\ p \in Jobs /\ Row(p) = Row(q) /\ p.id = q.id /\ p.target = q.target
  /\ p.source = q.source /\ p.change = q.change
  /\ p.state = "in_progress" /\ p.before = NextId(q.target)
  /\ p.attempt = IF q.change = "delete_replica" THEN q.attempt ELSE q.attempt - 1

\* Jobs leave the queue, or go back to waiting, together with their job locks.
Gone(rows, back) ==
  /\ queue' \subseteq queue \cup {WithState(q, "failed") : q \in back}
  /\ back \subseteq queue /\ back \cap queue' \subseteq {WithState(q, "failed") : q \in back}
  /\ Release(rows)
  /\ \A q \in Running : Row(q) \in jobLocks \ rows => q \in queue'

\* What Acknowledge does to the worker: it lays down the acknowledged jobs.
LEMMA AcknowledgeWorker ==
  ASSUME Inv, NEW k \in Workers, NEW state, Acknowledge(k, state)
  PROVE  /\ worker' \in [Workers -> WorkerStates] /\ Others(k) /\ worker[k].batch = {}
         /\ worker'[k].batch = {} /\ worker'[k].gen = NoRow
         /\ worker'[k].done = {e \in worker[k].done : e.state # state}
         /\ worker'[k].at = "ack" \/ (worker'[k].at = "idle" /\ worker'[k].done = {})
<1> DEFINE acked == {e \in worker[k].done : e.state = state}
           at == IF worker[k].done = acked THEN "idle" ELSE "ack"
           done == worker[k].done \ acked
           r == [at |-> at, batch |-> {}, gen |-> NoRow, done |-> done]
<1>1. worker' = [worker EXCEPT ![k] = r]
  BY DEF Acknowledge
<1>2. /\ worker[k].at = "ack" /\ worker \in [Workers -> WorkerStates]
      /\ worker[k].done \subseteq Jobs /\ Fits(k)
  BY Working DEF Acknowledge
<1>3. worker[k].batch = {}
  BY <1>2 DEF Fits
<1>4. done \in SUBSET Jobs /\ done = {e \in worker[k].done : e.state # state}
  BY <1>2
<1>5. at \in {"idle", "ack"} /\ (at = "idle" => done = {})
  OBVIOUS
<1> HIDE DEF acked, at, done
<1>6. r \in WorkerStates /\ r.at = at /\ r.batch = {} /\ r.gen = NoRow /\ r.done = done
  BY SMT, <1>4, <1>5 DEF WorkerStates
<1> HIDE DEF r
<1>7. worker'[k] = r /\ worker' \in [Workers -> WorkerStates] /\ Others(k)
  BY SMT, <1>1, <1>2, <1>6 DEF Others
<1> QED
  BY <1>3, <1>4, <1>5, <1>6, <1>7

\* No step of a coordinator, a replication manager or the reconciler takes the
\* tables of the queue and what the workers hold apart.
LEMMA QueueStep ==
  ASSUME Inv, [Next]_vars
  PROVE  QueueSide'

\* A set of integers with a natural in it and a bound has a maximum.
<1>MaxExists.
  ASSUME Least, NEW S, S \subseteq Int, 0 \in S, NEW n \in Nat, \A y \in S : y <= n
  PROVE  Max(S) \in S /\ Max(S) \in Nat /\ \A y \in S : y <= Max(S)
  <2> USE <1>MaxExists
  <2> DEFINE T == {m \in Nat : \A y \in S : y <= m}
  <2>1. T \subseteq Nat /\ T # {}
    OBVIOUS
  <2>2. PICK m \in T : \A l \in T : m <= l
    BY <2>1 DEF Least
  <2>3. m \in Nat /\ \A y \in S : y <= m
    BY <2>2
  <2>4. m \in S
    <3>1. CASE m = 0
      BY SMT, <3>1
    <3>2. CASE m # 0
      <4>1. m - 1 \in Nat /\ ~(m <= m - 1)
        BY SMT, <2>3, <3>2
      <4>2. PICK y \in S : ~(y <= m - 1)
        BY <2>2, <4>1
      <4>3. y = m
        BY SMT, <2>3, <4>1, <4>2
      <4> QED
        BY SMT, <4>3
    <3> QED
      BY SMT, <3>1, <3>2
  <2>5. \A y \in S : m >= y
    BY SMT, <2>3
  <2>6. Max(S) \in S /\ \A y \in S : Max(S) >= y
    <3> HIDE DEF T
    <3> QED
      BY <2>4, <2>5 DEF Max
  <2>7. Max(S) \in Int /\ Max(S) >= 0
    BY <2>6
  <2> QED
    BY SMT, <2>6, <2>7

\* The number of a new job is above every number of its target, in the queue and
\* with the workers.
<1>NextIdFresh.
  ASSUME Least, TypeOK, NEW n \in Nat, Below(n), NEW t \in Storages
  PROVE  /\ NextId(t) \in Nat /\ NextId(t) <= n + 1
         /\ \A j \in queue : j.target = t => j.id < NextId(t)
         /\ \A k \in Workers : \A j \in HeldBy(k) : j.target = t => j.id < NextId(t)
  <2> USE <1>NextIdFresh
  <2> DEFINE K == {q \in queue \cup UNION {HeldBy(k) : k \in Workers} : q.target = t}
             S == {0} \cup UNION {{j.id, j.before - 1} : j \in K}
  <2>1. \A k \in Workers : HeldBy(k) \subseteq Jobs
    BY SMT DEF TypeOK, WorkerStates, HeldBy
  <2>2. \A j \in K : j \in Jobs /\ j.id <= n /\ j.before <= n
    BY <2>1 DEF TypeOK, Below
  <2> HIDE DEF K
  <2>3. \A j \in K : j.id \in Nat /\ j.before \in Nat /\ j.id <= n /\ j.before - 1 <= n
    BY SMT, <2>2 DEF Jobs
  <2>4. S \subseteq Int /\ 0 \in S /\ \A y \in S : y <= n
    BY SMT, <2>3
  <2>6. \A j \in K : j.id \in S
    BY SMT
  <2> HIDE DEF S
  <2>5. Max(S) \in S /\ Max(S) \in Nat /\ \A y \in S : y <= Max(S)
    BY <2>4, <1>MaxExists
  <2>7. NextId(t) = 1 + Max(S)
    BY DEF NextId, S, K
  <2>8. NextId(t) \in Nat /\ NextId(t) <= n + 1
    BY SMT, <2>4, <2>5, <2>7
  <2>9. \A j \in K : j.id < NextId(t)
    BY SMT, <2>3, <2>5, <2>6, <2>7
  <2> QED
    BY <2>8, <2>9 DEF K

<1>OthersFrame.
  ASSUME NEW k, Others(k), NEW o \in Workers, o # k
  PROVE  /\ worker'[o] = worker[o] /\ Job(o)' = Job(o) /\ HeldBy(o)' = HeldBy(o)
         /\ Fits(o) => Fits(o)'
    BY <1>OthersFrame, SameWorker DEF Others

\* The jobs a worker holds after an event has ended.
<1>HeldAfter.
  ASSUME NEW k \in Workers, worker[k].at \in Stages, NEW state \in EndStates, Ended(k, state)
  PROVE  LET f == WithState(Job(k), state)
         IN  /\ HeldBy(k)' = (worker[k].batch \ {Job(k)}) \cup worker[k].done \cup {f}
             /\ Row(f) = Row(Job(k)) /\ f.id = Job(k).id /\ f.before = Job(k).before /\ f.target = Job(k).target
             /\ f.source = Job(k).source /\ f.change = Job(k).change /\ f.attempt = Job(k).attempt
             /\ f.state = state /\ WithState(f, Job(k).state) = Job(k)
  <2> USE <1>HeldAfter
  <2> DEFINE f == WithState(Job(k), state)
  <2>1. Job(k) \in Jobs
    BY Working
  <2>2. /\ Row(f) = Row(Job(k)) /\ f.id = Job(k).id /\ f.before = Job(k).before /\ f.target = Job(k).target
        /\ f.source = Job(k).source /\ f.change = Job(k).change /\ f.attempt = Job(k).attempt
        /\ f.state = state /\ WithState(f, Job(k).state) = Job(k)
    BY <2>1, StateOnly
  <2>3. HeldBy(k)' = (worker[k].batch \ {Job(k)}) \cup worker[k].done \cup {f}
    BY DEF Ended, HeldBy
  <2> QED
    BY <2>2, <2>3

<1>SameKin.
  ASSUME NEW o \in Workers, worker'[o] = worker[o]
  PROVE  Kin(o)
    BY <1>SameKin, SameWorker DEF Kin

<1>KinApart.
  ASSUME HeldInv, \A o \in Workers : Kin(o)
  PROVE  \A k, l \in Workers : \A e \in HeldBy(k)', o \in HeldBy(l)' : e.target = o.target => k = l
  <2> USE <1>KinApart
  <2>1. \A i, l \in Workers : \A e \in HeldBy(i), o \in HeldBy(l) : e.target = o.target => i = l
    BY DEF HeldInv
  <2>2. TAKE i, l \in Workers
  <2>3. TAKE e \in HeldBy(i)', o \in HeldBy(l)'
  <2>4. PICK d \in HeldBy(i), p \in HeldBy(l) : e.target = d.target /\ o.target = p.target
    BY DEF Kin
  <2> QED
    BY <2>1, <2>4

<1>OwnsFrame.
  ASSUME NEW o \in Workers, worker'[o] = worker[o], Owns(o), worker[o].batch \subseteq Running',
         \A e \in worker[o].done : WithState(e, "in_progress") \in queue'
  PROVE  Owns(o)'
  <2> USE <1>OwnsFrame
  <2>1. HeldBy(o)' = HeldBy(o)
    BY SameWorker
  <2> QED
    BY <2>1 DEF Owns

<1>MovesKin.
  ASSUME NEW k \in Workers, Moves(k)
  PROVE  \A o \in Workers : Kin(o)
  <2> USE <1>MovesKin
  <2>1. worker[k].at \in Stages /\ Job(k) \in HeldBy(k) /\ Others(k)
    BY Working DEF Moves, Went, Ended
  <2>2. \A o \in Workers : o # k => Kin(o)
    BY <2>1, <1>OthersFrame DEF Kin
  <2>3. CASE \E stage, gen : Went(k, stage, gen)
    <3>1. HeldBy(k)' = HeldBy(k)
      BY <2>3 DEF Went, HeldBy
    <3> QED
      BY ZenonT(40), <2>2, <3>1 DEF Kin
  <2>4. CASE \E state \in EndStates : Ended(k, state)
    <3>1. PICK state \in EndStates : Ended(k, state)
      BY <2>4
    <3> DEFINE f == WithState(Job(k), state)
    <3>2. /\ HeldBy(k)' = (worker[k].batch \ {Job(k)}) \cup worker[k].done \cup {f}
          /\ f.id = Job(k).id /\ f.before = Job(k).before /\ f.target = Job(k).target
          /\ f.source = Job(k).source /\ f.change = Job(k).change
      BY <2>1, <3>1, <1>HeldAfter
    <3> HIDE DEF f
    <3>3. \A j \in HeldBy(k)' : j = f \/ j \in HeldBy(k)
      BY <3>2 DEF HeldBy
    <3> QED
      BY <2>1, <2>2, <3>2, <3>3 DEF Kin
  <2> QED
    BY <2>3, <2>4 DEF Moves

<1>MovesFits.
  ASSUME NEW k \in Workers, Moves(k)
  PROVE  \A o \in Workers : Fits(o)'
  <2> USE <1>MovesFits
  <2>1. /\ \A o \in Workers : Fits(o)
        /\ worker[k].at \in Stages /\ worker[k].batch # {} /\ Job(k) \in worker[k].batch
    BY Working DEF Moves
  <2>2. Others(k)
    BY DEF Moves, Went, Ended
  <2>5. Kin(k)
    BY <1>MovesKin
  <2> SUFFICES Fits(k)'
    BY <2>1, <2>2, <1>OthersFrame
  <2>3. ASSUME NEW stage \in Stages, NEW gen, Went(k, stage, gen),
               stage \in {"copy", "set", "invalid"} => Job(k).change = "update",
               stage \in {"remove", "drop"} => Job(k).change = "delete_replica"
        PROVE  Fits(k)'
    <3>1. stage # "idle" /\ stage # "ack"
      BY SMT DEF Stages
    <3>2. Job(k)' = Job(k) /\ HeldBy(k)' = HeldBy(k)
      BY <2>3 DEF Went, Job, HeldBy
    <3> QED
      BY ZenonT(40), <2>1, <2>3, <3>1, <3>2 DEF Went, Fits
  <2>4. ASSUME NEW state \in EndStates, Ended(k, state)
        PROVE  Fits(k)'
    <3>1. /\ \A e \in HeldBy(k)' : e.change = "update" => e.source \in Storages
          /\ \A e, o \in HeldBy(k)' : e.target = o.target
      <4>1. /\ \A e \in HeldBy(k) : e.change = "update" => e.source \in Storages
            /\ \A e, o \in HeldBy(k) : e.target = o.target
        BY <2>1 DEF Fits
      <4>2. \A e \in HeldBy(k)' : e.change = "update" => e.source \in Storages
        BY <2>5, <4>1 DEF Kin
      <4>3. \A e, o \in HeldBy(k)' : e.target = o.target
        <5>1. TAKE e, o \in HeldBy(k)'
        <5>2. PICK d, p \in HeldBy(k) : e.target = d.target /\ o.target = p.target
          BY <2>5 DEF Kin
        <5> QED
          BY <4>1, <5>2
      <4> QED
        BY <4>2, <4>3
    <3>2. CASE worker[k].batch = {Job(k)}
      <4>1. worker'[k].at = "ack" /\ worker'[k].batch = {}
        BY <2>4, <3>2 DEF Ended
      <4>2. "ack" \notin Stages /\ Stages \subseteq {"event", "copy", "set", "invalid", "remove", "drop"}
        BY SMT DEF Stages
      <4> QED
        BY <3>1, <4>1, <4>2 DEF Fits
    <3>3. CASE worker[k].batch # {Job(k)}
      <4>1. worker'[k].at = "event" /\ worker'[k].batch # {}
        BY <2>1, <2>4, <3>3 DEF Ended
      <4> QED
        BY <3>1, <4>1 DEF Fits
    <3> QED
      BY SMT, <3>2, <3>3
  <2> QED
    BY <2>3, <2>4 DEF Moves

<1>MovesNumbered.
  ASSUME NEW k \in Workers, Moves(k)
  PROVE  Numbered'
  <2> USE <1>MovesNumbered
  <2>1. PICK n \in Nat : Below(n)
    BY DEF Inv, Numbered
  <2>2. queue' = queue /\ \A o \in Workers : Kin(o)
    BY <1>MovesKin DEF Moves
  <2>3. Below(n)'
    BY <2>1, <2>2 DEF Below, Kin
  <2> QED
    BY <2>3 DEF Numbered

<1>MovesHeld.
  ASSUME HeldInv, NEW k \in Workers, Moves(k)
  PROVE  HeldInv'
  <2> USE <1>MovesHeld
  <2>1. /\ worker[k].at \in Stages /\ Job(k) \in worker[k].batch /\ Job(k) \in HeldBy(k) /\ Job(k) \in Jobs
        /\ queue' = queue /\ jobLocks' = jobLocks /\ Others(k)
    BY Working DEF Moves, Went, Ended
  <2>2. Running' = Running
    BY <2>1 DEF Running
  <2>3. ASSUME NEW o \in Workers, o # k
        PROVE  Owns(o)'
    <3>1. worker'[o] = worker[o]
      BY <2>1, <2>3 DEF Others
    <3>2. Owns(o)
      BY DEF HeldInv
    <3>3. worker[o].batch \subseteq Running' /\ \A e \in worker[o].done : WithState(e, "in_progress") \in queue'
      BY <2>1, <2>2, <3>2 DEF Owns
    <3> QED
      BY <3>1, <3>2, <3>3, <1>OwnsFrame
  <2>4. Owns(k)'
    <3>1. Owns(k)
      BY DEF HeldInv
    <3>2. CASE \E stage, gen : Went(k, stage, gen)
      <4>1. worker'[k].batch = worker[k].batch /\ worker'[k].done = worker[k].done /\ HeldBy(k)' = HeldBy(k)
        BY <3>2 DEF Went, HeldBy
      <4> QED
        BY <2>1, <2>2, <3>1, <4>1 DEF Owns
    <3>3. CASE \E state \in EndStates : Ended(k, state) /\ (state = "failed" => Job(k).attempt >= 1)
      <4>1. PICK state \in EndStates : Ended(k, state) /\ (state = "failed" => Job(k).attempt >= 1)
        BY <3>3
      <4> DEFINE f == WithState(Job(k), state)
      <4>2. /\ HeldBy(k)' = (worker[k].batch \ {Job(k)}) \cup worker[k].done \cup {f}
            /\ Row(f) = Row(Job(k)) /\ f.target = Job(k).target /\ f.attempt = Job(k).attempt
            /\ f.state = state /\ WithState(f, Job(k).state) = Job(k)
        BY <2>1, <4>1, <1>HeldAfter
      <4>3. /\ worker'[k].batch = worker[k].batch \ {Job(k)}
            /\ worker'[k].done = worker[k].done \cup {f}
        BY <4>1 DEF Ended
      <4> HIDE DEF f
      <4>4. Job(k) \in queue /\ Job(k).state = "in_progress" /\ \A q, r \in queue : Row(q) = Row(r) => q = r
        BY <2>1, <3>1 DEF Owns, Running, Inv, ReplicationInv, QueueInv
      <4>5. \A e \in worker[k].batch \ {Job(k)} : Row(e) # Row(Job(k))
        BY <3>1, <4>4 DEF Owns, Running
      <4>6. \A e \in worker[k].done : Row(e) # Row(Job(k))
        <5>1. TAKE e \in worker[k].done
        <5>2. SUFFICES ASSUME Row(e) = Row(Job(k)) PROVE FALSE
          BY SMT
        <5>3. e = Job(k) /\ e.state \in {"completed", "failed", "dead"}
          BY <2>1, <3>1, <5>2 DEF Owns
        <5> QED
          BY SMT, <4>4, <5>3
      <4>7. worker'[k].batch \subseteq Running'
        BY <2>2, <3>1, <4>3 DEF Owns
      <4>8. ASSUME NEW e \in worker'[k].done
            PROVE  /\ WithState(e, "in_progress") \in queue'
                   /\ e.state \in {"completed", "failed", "dead"}
                   /\ e.state = "failed" => e.attempt >= 1
                   /\ \A o \in HeldBy(k)' : Row(e) = Row(o) => e = o
        <5>1. CASE e = f
          BY <5>1, <2>1, <4>1, <4>2, <4>4, <4>5, <4>6 DEF EndStates
        <5>2. CASE e \in worker[k].done
          BY <5>2, <2>1, <3>1, <4>2, <4>6 DEF Owns, HeldBy
        <5> QED
          BY <4>3, <5>1, <5>2
      <4> QED
        BY <4>7, <4>8 DEF Owns
    <3> QED
      BY <3>2, <3>3 DEF Moves
  <2>5. \A i, l \in Workers : \A e \in HeldBy(i)', o \in HeldBy(l)' : e.target = o.target => i = l
    BY <1>MovesKin, <1>KinApart
  <2> QED
    BY <2>1, <2>2, <2>3, <2>4, <2>5 DEF HeldInv

<1>QueueFrame.
  ASSUME UNCHANGED <<queue, jobLocks, acquired, worker>>, slips \subseteq slips'
  PROVE  QueueSide'
  <2> USE <1>QueueFrame
  <2>1. QueueSide
    BY QueueSideNow
  <2>2. queue' = queue /\ jobLocks' = jobLocks /\ acquired' = acquired /\ worker' = worker
    OBVIOUS
  <2>3. \A k \in Workers : worker'[k] = worker[k] /\ HeldBy(k)' = HeldBy(k) /\ Kin(k)
    BY <2>2, SameWorker, <1>SameKin
  <2>4. Running' = Running
    BY <2>2 DEF Running
  <2>5. \A k \in Workers : Fits(k)'
    BY <2>1, <2>3, SameWorker DEF QueueSide
  <2>6. QueueInv'
    BY <2>1, <2>2, <2>4 DEF QueueInv, QueueSide
  <2>7. ASSUME "stale" \notin slips'
        PROVE  HeldInv'
    <3>1. HeldInv
      BY <2>1, <2>7 DEF QueueSide
    <3>2. ASSUME NEW k \in Workers PROVE Owns(k)'
      <4>1. Owns(k)
        BY <3>1 DEF HeldInv
      <4>2. worker[k].batch \subseteq Running' /\ \A e \in worker[k].done : WithState(e, "in_progress") \in queue'
        BY <2>2, <2>4, <4>1 DEF Owns
      <4> QED
        BY <2>3, <4>1, <4>2, <1>OwnsFrame
    <3>3. \A k, l \in Workers : \A e \in HeldBy(k)', o \in HeldBy(l)' : e.target = o.target => k = l
      BY <2>3, <3>1, <1>KinApart
    <3> QED
      BY <2>2, <2>4, <3>1, <3>2, <3>3 DEF HeldInv
  <2>8. Numbered'
    BY <2>1, <2>2, <2>3 DEF QueueSide, Numbered, Below
  <2> QED
    BY <2>1, <2>2, <2>5, <2>6, <2>7, <2>8 DEF QueueSide

<1>MovesQueueSide.
  ASSUME NEW k \in Workers, Moves(k), slips \subseteq slips'
  PROVE  QueueSide'
  <2> USE <1>MovesQueueSide
  <2>1. QueueSide
    BY QueueSideNow
  <2>2. queue' = queue /\ jobLocks' = jobLocks /\ acquired' = acquired /\ worker' \in [Workers -> WorkerStates]
    BY DEF Moves, Went, Ended
  <2>3. Running' = Running
    BY <2>2 DEF Running
  <2>4. QueueInv'
    BY <2>1, <2>2, <2>3 DEF QueueInv, QueueSide
  <2>5. "stale" \notin slips' => HeldInv'
    BY <2>1, <1>MovesHeld DEF QueueSide
  <2>6. (\A o \in Workers : Fits(o)') /\ Numbered'
    BY <1>MovesFits, <1>MovesNumbered
  <2> QED
    BY <2>1, <2>2, <2>4, <2>5, <2>6 DEF QueueSide

<1>RowParts.
  ASSUME NEW e, NEW f, Row(e) = Row(f)
  PROVE  e.id = f.id /\ e.target = f.target
    BY <1>RowParts, SMT DEF Row

\* The locks follow the job locks when rows are removed.
<1>ReleaseEffect.
  ASSUME NEW rows, Release(rows)
  PROVE  /\ jobLocks' = jobLocks \ rows /\ jobLocks' \subseteq Nat \X Storages
         /\ acquired' \subseteq Storages /\ acquired' = {l[2] : l \in jobLocks'}
  <2> USE <1>ReleaseEffect
  <2>1. /\ jobLocks \subseteq Nat \X Storages /\ acquired \subseteq Storages
        /\ acquired = {l[2] : l \in jobLocks}
    BY DEF Inv, ReplicationInv, TypeOK, QueueInv
  <2>2. /\ jobLocks' = jobLocks \ rows
        /\ acquired' = acquired \ {t \in Storages : (\E l \in rows : l[2] = t)
                                                    /\ \A l \in jobLocks \ rows : l[2] # t}
    BY DEF Release
  <2>3. acquired' \subseteq {l[2] : l \in jobLocks'}
    BY <2>1, <2>2
  <2>4. {l[2] : l \in jobLocks'} \subseteq acquired'
    BY <2>1, <2>2
  <2> QED
    BY <2>1, <2>2, <2>3, <2>4

<1>NewJobIs.
  ASSUME NEW change \in {"update", "delete_replica"}, NEW source \in Storages \cup {NoStorage},
         NEW target \in Storages, NextId(target) \in Nat
  PROVE  IsNew(NewJob(change, source, target), change, source, target)
    BY <1>NewJobIs, SMT, ReplicationAssumption DEF NewJob, Jobs, IsNew

<1>AddJobs.
  ASSUME NEW N, Fresh(N), queue' = queue \cup N, slips \subseteq slips',
         UNCHANGED <<jobLocks, acquired, worker>>
  PROVE  QueueSide'
  <2> USE <1>AddJobs
  <2>1. QueueSide /\ TypeOK
    BY QueueSideNow DEF Inv, ReplicationInv
  <2>2. jobLocks' = jobLocks /\ acquired' = acquired /\ worker' = worker
    OBVIOUS
  <2>3. \A k \in Workers : worker'[k] = worker[k] /\ HeldBy(k)' = HeldBy(k) /\ Kin(k)
    BY <2>2, SameWorker, <1>SameKin
  <2>4. PICK n \in Nat : Below(n)
    BY DEF Inv, Numbered
  <2>5. Running' = Running
    <3>1. \A j \in N : j.state # "in_progress"
      BY SMT DEF Fresh
    <3> QED
      BY <3>1 DEF Running
  <2>6. \A k \in Workers : Fits(k)'
    BY <2>1, <2>3, SameWorker DEF QueueSide
  <2>7. \A q \in queue, j \in N : Row(q) # Row(j)
    <3>1. TAKE q \in queue, j \in N
    <3>2. SUFFICES ASSUME Row(q) = Row(j) PROVE FALSE
      BY SMT
    <3>3. q.id = j.id /\ q.target = j.target
      BY <3>2, <1>RowParts
    <3>4. j \in Jobs /\ j.id = NextId(j.target) /\ j.target \in Storages
      BY SMT DEF Fresh, Jobs
    <3>5. NextId(j.target) \in Nat /\ q.id < NextId(j.target)
      BY <2>1, <2>4, <3>3, <3>4, <1>NextIdFresh DEF Inv
    <3> QED
      BY SMT, <3>3, <3>4, <3>5
  <2>8. QueueInv'
    <3>1. \A q, r \in queue' : Row(q) = Row(r) => q = r
      <4>1. TAKE q, r \in queue'
      <4>2. HAVE Row(q) = Row(r)
      <4>3. q.target = r.target
        BY <4>2, <1>RowParts
      <4> QED
        BY <2>1, <2>7, <4>2, <4>3 DEF QueueSide, QueueInv, Fresh
    <3>2. \A q, r \in queue' : q.change = "delete_replica" /\ r.change = "delete_replica" => q = r
      BY ZenonT(40), <2>1 DEF QueueSide, QueueInv, Fresh
    <3>3. \A q \in queue' : q.change = "update" => q.source \in Storages
      BY <2>1 DEF QueueSide, QueueInv, Fresh
    <3>4. \A q \in queue' : q.state \in {"ready", "in_progress", "failed"}
      BY <2>1 DEF QueueSide, QueueInv, Fresh
    <3> QED
      BY <2>1, <2>2, <2>5, <3>1, <3>2, <3>3, <3>4 DEF QueueSide, QueueInv
  <2>9. ASSUME "stale" \notin slips'
        PROVE  HeldInv'
    <3>1. HeldInv
      BY <2>1, <2>9 DEF QueueSide
    <3>2. ASSUME NEW k \in Workers PROVE Owns(k)'
      <4>1. Owns(k)
        BY <3>1 DEF HeldInv
      <4>2. worker[k].batch \subseteq Running' /\ \A e \in worker[k].done : WithState(e, "in_progress") \in queue'
        BY <2>2, <2>5, <4>1 DEF Owns
      <4> QED
        BY <2>3, <4>1, <4>2, <1>OwnsFrame
    <3>3. \A k, l \in Workers : \A e \in HeldBy(k)', o \in HeldBy(l)' : e.target = o.target => k = l
      BY <2>3, <3>1, <1>KinApart
    <3>4. \A q \in queue' : q.attempt >= (IF q.change = "update" /\ q.state = "in_progress" THEN 0 ELSE 1)
      <4>1. \A q \in N : q.attempt >= 1 /\ q.state # "in_progress"
        BY SMT, ReplicationAssumption DEF Fresh
      <4> QED
        BY <3>1, <4>1 DEF HeldInv
    <3> QED
      BY <2>2, <2>5, <3>1, <3>2, <3>3, <3>4 DEF HeldInv
  <2>10. Numbered'
    <3>1. \A j \in N : j.id <= n + 1 /\ j.before <= n + 1
      <4>1. TAKE j \in N
      <4>2. j.id = NextId(j.target) /\ j.target \in Storages /\ j.before = 0
        BY SMT DEF Fresh, Jobs
      <4>3. NextId(j.target) <= n + 1
        BY <2>1, <2>4, <4>2, <1>NextIdFresh DEF Inv
      <4> QED
        BY SMT, <4>2, <4>3
    <3>2. \A j \in Jobs : j.id <= n /\ j.before <= n => j.id <= n + 1 /\ j.before <= n + 1
      BY SMT DEF Jobs
    <3>3. \A k \in Workers : HeldBy(k) \subseteq Jobs
      BY Working
    <3>4. Below(n + 1)'
      BY <2>1, <2>3, <2>4, <3>1, <3>2, <3>3 DEF Below, QueueSide
    <3>5. n + 1 \in Nat
      BY SMT
    <3> QED
      BY <3>4, <3>5 DEF Numbered
  <2>11. queue' \subseteq Jobs
    BY <2>1 DEF QueueSide, Fresh
  <2> QED
    BY <2>1, <2>2, <2>6, <2>8, <2>9, <2>10, <2>11 DEF QueueSide

<1>EnqueueQueueSide.
  ASSUME NEW w \in Writes, NEW s \in Storages, Enqueue(w, s)
  PROVE  QueueSide'
  <2> USE <1>EnqueueQueueSide
  <2> DEFINE j == NewJob("update", rpc[w].primary, s)
  <2>1. rpc[w].primary \in Storages
    BY DEF Inv, ReplicationInv, Finalizes, Enqueue
  <2>2. NextId(s) \in Nat
    BY <1>NextIdFresh DEF Inv, ReplicationInv, Numbered
  <2>9. "update" \in {"update", "delete_replica"} /\ rpc[w].primary \in Storages \cup {NoStorage}
    BY <2>1
  <2>3. IsNew(j, "update", rpc[w].primary, s)
    BY <2>2, <2>9, <1>NewJobIs
  <2>4. "update" # "delete_replica"
    BY SMT
  <2>5. UNCHANGED <<jobLocks, acquired, worker>> /\ slips' = slips
    BY DEF Enqueue
  <2>6. queue' = queue \/ queue' = queue \cup {j}
    BY DEF Enqueue
  <2> HIDE DEF j
  <2>7. Fresh({j})
    BY <2>1, <2>3, <2>4 DEF Fresh, IsNew
  <2>8. CASE queue' = queue
    BY <2>5, <2>8, <1>QueueFrame
  <2> QED
    BY <2>5, <2>6, <2>7, <2>8, <1>AddJobs

<1>ReconcileQueueSide.
  ASSUME reconcile
  PROVE  QueueSide'
  <2> USE <1>ReconcileQueueSide
  <2> DEFINE targets == IF update_sources = {} THEN {} ELSE update_targets
  <2>1. PICK source \in [targets -> update_sources],
             drop \in IF delete_jobs = {} THEN {{}} ELSE {{s} : s \in delete_jobs} :
               /\ queue' = queue \cup {NewJob("update", source[t], t) : t \in targets}
                                 \cup {NewJob("delete_replica", NoStorage, s) : s \in drop}
               /\ slips \subseteq slips'
    BY DEF reconcile
  <2> DEFINE U == {NewJob("update", source[t], t) : t \in targets}
             R == {NewJob("delete_replica", NoStorage, s) : s \in drop}
             N == U \cup R
  <2>2. healthy \subseteq Storages /\ UNCHANGED <<jobLocks, acquired, worker>>
    BY DEF Inv, ReplicationInv, TypeOK, reconcile
  <2>3. \A t \in targets : t \in Storages /\ t \in Assigned /\ source[t] \in Storages
    BY <2>1, <2>2 DEF update_targets, update_sources, Consistent
  <2>4. /\ drop \subseteq delete_jobs /\ \A s, r \in drop : s = r
        /\ \A s \in drop : s \in Storages /\ s \notin Assigned /\ \A q \in queue : q.change # "delete_replica"
    <3>1. drop \subseteq delete_jobs /\ \A s, r \in drop : s = r
      BY <2>1
    <3> QED
      BY <2>2, <3>1 DEF delete_jobs, Assigned
  <2>5. \A t \in Storages : NextId(t) \in Nat
    BY <1>NextIdFresh DEF Inv, ReplicationInv, Numbered
  <2> HIDE DEF targets
  <2>6. \A j \in U : /\ j.target \in targets /\ j = NewJob("update", source[j.target], j.target)
                     /\ IsNew(j, "update", source[j.target], j.target)
    <3>1. "update" \in {"update", "delete_replica"} /\ \A t \in targets : source[t] \in Storages \cup {NoStorage}
      BY <2>3
    <3>2. \A t \in targets : IsNew(NewJob("update", source[t], t), "update", source[t], t)
      BY <2>3, <2>5, <3>1, <1>NewJobIs
    <3>3. \A t \in targets : NewJob("update", source[t], t).target = t
      BY <3>2 DEF IsNew
    <3> QED
      BY <3>2, <3>3
  <2>7. \A j \in R : /\ j.target \in drop /\ j = NewJob("delete_replica", NoStorage, j.target)
                     /\ IsNew(j, "delete_replica", NoStorage, j.target)
    <3>1. "delete_replica" \in {"update", "delete_replica"} /\ NoStorage \in Storages \cup {NoStorage}
      OBVIOUS
    <3>2. \A s \in drop : IsNew(NewJob("delete_replica", NoStorage, s), "delete_replica", NoStorage, s)
      BY <2>4, <2>5, <3>1, <1>NewJobIs
    <3>3. \A s \in drop : NewJob("delete_replica", NoStorage, s).target = s
      BY <3>2 DEF IsNew
    <3> QED
      BY <3>2, <3>3
  <2> HIDE DEF U, R
  <2>8. "update" # "delete_replica"
    BY SMT
  <2>9. \A i, j \in N : i.target = j.target => i = j
    <3>1. \A i, j \in U : i.target = j.target => i = j
      BY <2>6
    <3>2. \A i, j \in R : i.target = j.target => i = j
      BY <2>7
    <3>3. \A i \in U, j \in R : i.target # j.target
      BY <2>3, <2>4, <2>6, <2>7
    <3> QED
      BY <3>1, <3>2, <3>3
  <2>10. \A i, j \in N : i.change = "delete_replica" /\ j.change = "delete_replica" => i = j
    <3>1. \A i \in U : i.change # "delete_replica"
      BY <2>6, <2>8 DEF IsNew
    <3>2. \A i, j \in R : i.target = j.target
      BY <2>4, <2>7
    <3> QED
      BY <2>9, <3>1, <3>2
  <2>11. \A j \in N : /\ j \in Jobs /\ j.state = "ready" /\ j.attempt = MaxAttempt
                      /\ j.id = NextId(j.target) /\ j.before = 0
                      /\ j.change = "update" => j.source \in Storages
                      /\ j.change = "delete_replica" => \A q \in queue : q.change # "delete_replica"
    <3>1. ASSUME NEW j \in U
          PROVE  /\ j \in Jobs /\ j.state = "ready" /\ j.attempt = MaxAttempt
                 /\ j.id = NextId(j.target) /\ j.before = 0
                 /\ j.source \in Storages /\ j.change # "delete_replica"
      BY <2>3, <2>6, <2>8 DEF IsNew
    <3>2. ASSUME NEW j \in R
          PROVE  /\ j \in Jobs /\ j.state = "ready" /\ j.attempt = MaxAttempt
                 /\ j.id = NextId(j.target) /\ j.before = 0
                 /\ j.change # "update" /\ \A q \in queue : q.change # "delete_replica"
      BY <2>4, <2>7, <2>8 DEF IsNew
    <3> QED
      BY <3>1, <3>2
  <2>12. queue' = queue \cup N
    BY <2>1 DEF U, R
  <2> HIDE DEF N
  <2>13. Fresh(N)
    BY <2>9, <2>10, <2>11 DEF Fresh
  <2> QED
    BY <2>1, <2>2, <2>12, <2>13, <1>AddJobs

<1>TakenIs.
  ASSUME NEW q \in Jobs, NextId(q.target) \in Nat
  PROVE  IsTaken(Taken(q), q)
  <2> USE <1>TakenIs
  <2> DEFINE n == NextId(q.target)
             a == IF q.change = "delete_replica" THEN q.attempt ELSE q.attempt - 1
  <2>1. a \in Int
    BY SMT DEF Jobs
  <2>2. Taken(q) = [q EXCEPT !.state = "in_progress", !.before = n, !.attempt = a]
    BY DEF Taken
  <2> HIDE DEF a, n
  <2>3. n \in Nat
    BY DEF n
  <2>4. Taken(q) \in Jobs
    BY <2>1, <2>2, <2>3 DEF Jobs
  <2>5. /\ Taken(q).id = q.id /\ Taken(q).target = q.target
        /\ Taken(q).source = q.source /\ Taken(q).change = q.change
        /\ Taken(q).state = "in_progress" /\ Taken(q).before = n /\ Taken(q).attempt = a
    BY SMT, <2>2 DEF Jobs
  <2> QED
    BY <2>4, <2>5 DEF IsTaken, Row, n, a

\* As long as no job was taken from a living worker, every job a worker holds is
\* in progress and locked.
<1>HeldLocked.
  ASSUME HeldInv, NEW k \in Workers, NEW e \in HeldBy(k)
  PROVE  /\ Row(e) \in jobLocks /\ e.target \in acquired
         /\ \E q \in Running : Row(q) = Row(e)
  <2> USE <1>HeldLocked
  <2>1. Owns(k) /\ worker[k].done \subseteq Jobs
    BY Working DEF HeldInv
  <2>2. \E q \in Running : Row(q) = Row(e)
    <3>1. CASE e \in worker[k].batch
      BY <2>1, <3>1 DEF Owns
    <3>2. CASE e \in worker[k].done
      <4>1. WithState(e, "in_progress") \in queue
        BY <2>1, <3>2 DEF Owns
      <4>2. Row(WithState(e, "in_progress")) = Row(e) /\ WithState(e, "in_progress").state = "in_progress"
        BY <2>1, <3>2, StateOnly
      <4> QED
        BY <4>1, <4>2 DEF Running
    <3> QED
      BY <3>1, <3>2 DEF HeldBy
  <2>3. Row(e) \in jobLocks
    BY <2>2 DEF HeldInv
  <2>4. Row(e)[2] = e.target
    BY SMT DEF Row
  <2>5. acquired = {l[2] : l \in jobLocks}
    BY DEF Inv, ReplicationInv, QueueInv
  <2>6. e.target \in acquired
    BY <2>3, <2>4, <2>5
  <2> QED
    BY <2>2, <2>3, <2>6

<1>DequeueQueueSide.
  ASSUME NEW k \in Workers, NEW t \in Storages, Dequeue(k, t)
  PROVE  QueueSide'
  <2> USE <1>DequeueQueueSide
  <2> DEFINE free == {q \in queue : q.target = t /\ q.state \in {"ready", "failed"}}
             C == {q \in free : \A o \in free : o.change = q.change => q.id <= o.id}
             T == {Taken(q) : q \in C}
             r == [at |-> "event", batch |-> T, gen |-> NoRow, done |-> {}]
  <2>1. /\ C # {} /\ t \notin acquired /\ slips' = slips
        /\ queue' = (queue \ C) \cup T
        /\ jobLocks' = jobLocks \cup {Row(q) : q \in C} /\ acquired' = acquired \cup {t}
        /\ worker' = [worker EXCEPT ![k] = r]
    BY DEF Dequeue
  <2>2. /\ C \subseteq queue
        /\ \A q \in C : q.target = t /\ q.state # "in_progress" /\ q.state \in {"ready", "failed"}
    OBVIOUS
  <2>3. QueueSide /\ TypeOK /\ QueueInv /\ queue \subseteq Jobs
    BY QueueSideNow DEF Inv, ReplicationInv, TypeOK
  <2>4. PICK n \in Nat : Below(n)
    BY DEF Inv, Numbered
  <2>5. NextId(t) \in Nat /\ NextId(t) <= n + 1
    BY <2>3, <2>4, <1>NextIdFresh DEF Inv
  <2> HIDE DEF C
  <2>6. \A p \in T : \E q \in C : p = Taken(q) /\ IsTaken(p, q)
    BY <2>2, <2>3, <2>5, <1>TakenIs
  <2>7. \A q \in C : \E p \in T : p = Taken(q) /\ IsTaken(p, q)
    BY <2>2, <2>3, <2>5, <1>TakenIs
  <2>8. T # {} /\ T \subseteq Jobs /\ {Row(q) : q \in T} = {Row(q) : q \in C}
    <3>1. T # {}
      BY <2>1
    <3>2. T \subseteq Jobs
      BY <2>6 DEF IsTaken
    <3>3. \A p \in T : Row(p) \in {Row(q) : q \in C}
      <4>1. TAKE p \in T
      <4>2. PICK q \in C : IsTaken(p, q)
        BY <2>6
      <4> QED
        BY <4>2 DEF IsTaken
    <3>4. \A q \in C : Row(q) \in {Row(p) : p \in T}
      BY <2>7 DEF IsTaken
    <3> QED
      BY <3>1, <3>2, <3>3, <3>4
  <2>9. /\ worker' \in [Workers -> WorkerStates] /\ Others(k)
        /\ worker'[k].at = "event" /\ worker'[k].batch = T /\ worker'[k].done = {}
    <3>1. worker \in [Workers -> WorkerStates]
      BY DEF Inv, ReplicationInv, TypeOK
    <3> HIDE DEF T
    <3>2. r \in WorkerStates /\ r.at = "event" /\ r.batch = T /\ r.done = {}
      BY SMT, <2>8 DEF WorkerStates, Stages
    <3> HIDE DEF r
    <3>3. worker'[k] = r /\ worker' \in [Workers -> WorkerStates] /\ Others(k)
      BY SMT, <2>1, <3>1, <3>2 DEF Others
    <3> QED
      BY <3>2, <3>3
  <2> HIDE DEF T
  <2>10. HeldBy(k)' = T
    BY <2>9 DEF HeldBy
  <2>11. Running' = Running \cup T
    <3>1. \A p \in T : p.state = "in_progress"
      BY <2>6 DEF IsTaken
    <3> QED
      BY <2>1, <2>2, <3>1 DEF Running
  <2>12. \A o \in Workers : Fits(o)'
    <3>1. \A e \in T : e.target = t /\ (e.change = "update" => e.source \in Storages)
      <4>1. TAKE e \in T
      <4>2. PICK q \in C : IsTaken(e, q)
        BY <2>6
      <4>3. q.target = t /\ (q.change = "update" => q.source \in Storages)
        BY <2>2, <2>3 DEF QueueInv
      <4> QED
        BY <4>2, <4>3 DEF IsTaken
    <3>2. Fits(k)'
      BY <2>8, <2>9, <2>10, <3>1 DEF Fits
    <3> QED
      BY <2>3, <2>9, <3>2, <1>OthersFrame DEF QueueSide
  <2>13. QueueInv'
    <3> DEFINE From(p, q) == /\ Row(p) = Row(q) /\ p.change = q.change /\ p.source = q.source
                             /\ p = IF q \in C THEN Taken(q) ELSE q
    <3>1. \A p \in queue' : \E q \in queue : From(p, q)
      BY <2>1, <2>2, <2>6 DEF IsTaken
    <3> HIDE DEF From
    <3>2. \A p, q \in queue' : Row(p) = Row(q) => p = q
      <4>1. TAKE p, q \in queue'
      <4>2. HAVE Row(p) = Row(q)
      <4>3. PICK c \in queue : From(p, c)
        BY <3>1
      <4>4. PICK d \in queue : From(q, d)
        BY <3>1
      <4>5. c = d
        BY <2>3, <4>2, <4>3, <4>4 DEF QueueInv, From
      <4> QED
        BY <4>3, <4>4, <4>5 DEF From
    <3>3. \A p, q \in queue' : p.change = "delete_replica" /\ q.change = "delete_replica" => p = q
      <4>1. TAKE p, q \in queue'
      <4>2. HAVE p.change = "delete_replica" /\ q.change = "delete_replica"
      <4>3. PICK c \in queue : From(p, c)
        BY <3>1
      <4>4. PICK d \in queue : From(q, d)
        BY <3>1
      <4>5. c = d
        BY <2>3, <4>2, <4>3, <4>4 DEF QueueInv, From
      <4> QED
        BY <4>3, <4>4, <4>5 DEF From
    <3>4. \A q \in queue' : q.change = "update" => q.source \in Storages
      BY <2>3, <3>1 DEF QueueInv, From
    <3>5. \A q \in queue' : q.state \in {"ready", "in_progress", "failed"}
      BY <2>1, <2>3, <2>6 DEF QueueInv, IsTaken
    <3>6. acquired' = {l[2] : l \in jobLocks'}
      <4>1. \A q \in C : Row(q)[2] = t
        BY SMT, <2>2 DEF Row
      <4>2. acquired = {l[2] : l \in jobLocks}
        BY <2>3 DEF QueueInv
      <4>3. \A x \in acquired' : x \in {l[2] : l \in jobLocks'}
        BY <2>1, <4>1, <4>2
      <4>4. \A l \in jobLocks' : l[2] \in acquired'
        BY <2>1, <4>1, <4>2
      <4> QED
        BY <4>3, <4>4
    <3>7. jobLocks' \subseteq {Row(q) : q \in Running'}
      BY <2>1, <2>3, <2>8, <2>11 DEF QueueInv
    <3> QED
      BY <3>2, <3>3, <3>4, <3>5, <3>6, <3>7 DEF QueueInv
  <2>14. ASSUME "stale" \notin slips'
         PROVE  HeldInv'
    <3>1. HeldInv
      BY <2>1, <2>3, <2>14 DEF QueueSide
    <3>2. jobLocks' = {Row(q) : q \in Running'}
      <4>1. jobLocks = {Row(q) : q \in Running}
        BY <3>1 DEF HeldInv
      <4>2. jobLocks' = {Row(q) : q \in Running} \cup {Row(q) : q \in T}
        BY <2>1, <2>8, <4>1
      <4> QED
        BY <2>11, <4>2
    <3>3. \A q \in queue' : q.attempt >= (IF q.change = "update" /\ q.state = "in_progress" THEN 0 ELSE 1)
      <4>1. ASSUME NEW p \in T
            PROVE  p.attempt >= (IF p.change = "update" /\ p.state = "in_progress" THEN 0 ELSE 1)
        <5>1. PICK q \in C : IsTaken(p, q)
          BY <2>6
        <5>2. q.attempt >= 1 /\ q \in Jobs
          BY <2>2, <2>3, <3>1 DEF HeldInv
        <5>3. q.attempt \in Int /\ p.state = "in_progress" /\ p.change = q.change
              /\ q.change \in {"update", "delete_replica"}
              /\ p.attempt = IF q.change = "delete_replica" THEN q.attempt ELSE q.attempt - 1
          BY SMT, <5>1, <5>2 DEF Jobs, IsTaken
        <5> QED
          BY SMT, <5>2, <5>3
      <4> QED
        BY <2>1, <3>1, <4>1 DEF HeldInv
    <3>4. ASSUME NEW o \in Workers, o # k
          PROVE  Owns(o)'
      <4>1. Owns(o) /\ worker'[o] = worker[o] /\ worker[o].done \subseteq Jobs
        BY <2>9, <3>1, <3>4, Working DEF HeldInv, Others
      <4>2. worker[o].batch \subseteq Running'
        BY <2>11, <4>1 DEF Owns
      <4>3. \A e \in worker[o].done : WithState(e, "in_progress") \in queue'
        <5>1. TAKE e \in worker[o].done
        <5>2. WithState(e, "in_progress") \in queue
          BY <4>1 DEF Owns
        <5>3. WithState(e, "in_progress").state = "in_progress"
          BY <4>1, StateOnly
        <5> QED
          BY <2>1, <2>2, <5>2, <5>3
      <4> QED
        BY <4>1, <4>2, <4>3, <1>OwnsFrame
    <3>5. Owns(k)'
      BY <2>9, <2>11 DEF Owns
    <3>6. \A i, l \in Workers : \A e \in HeldBy(i)', o \in HeldBy(l)' : e.target = o.target => i = l
      <4>1. \A e \in T : e.target = t
        BY <2>2, <2>6 DEF IsTaken
      <4>2. \A o \in Workers : o # k => HeldBy(o)' = HeldBy(o) /\ \A e \in HeldBy(o) : e.target # t
        <5>1. TAKE o \in Workers
        <5>2. HAVE o # k
        <5>3. HeldBy(o)' = HeldBy(o)
          BY <2>9, <5>2, <1>OthersFrame
        <5> QED
          BY <2>1, <3>1, <5>3, <1>HeldLocked
      <4>3. \A i, l \in Workers : \A e \in HeldBy(i), o \in HeldBy(l) : e.target = o.target => i = l
        BY <3>1 DEF HeldInv
      <4>4. TAKE i, l \in Workers
      <4>5. TAKE e \in HeldBy(i)', o \in HeldBy(l)'
      <4>6. CASE i = k
        BY <2>10, <4>1, <4>2, <4>6
      <4>7. CASE i # k /\ l = k
        BY <2>10, <4>1, <4>2, <4>7
      <4>8. CASE i # k /\ l # k
        <5>1. e \in HeldBy(i) /\ o \in HeldBy(l)
          BY <4>2, <4>8
        <5> QED
          BY <4>3, <5>1
      <4> QED
        BY <4>6, <4>7, <4>8
    <3> QED
      BY <3>2, <3>3, <3>4, <3>5, <3>6 DEF HeldInv
  <2>15. Numbered'
    <3>1. \A j \in Jobs : j.id <= n /\ j.before <= n => j.id <= n + 1 /\ j.before <= n + 1
      BY SMT DEF Jobs
    <3>2. \A p \in T : p.id <= n + 1 /\ p.before <= n + 1
      <4>1. TAKE p \in T
      <4>2. PICK q \in C : IsTaken(p, q)
        BY <2>6
      <4>3. p.id = q.id /\ p.before = NextId(t) /\ q \in Jobs /\ q.id <= n /\ q.before <= n
        BY <2>2, <2>3, <2>4, <4>2 DEF IsTaken, Below
      <4> QED
        BY <2>5, <3>1, <4>3
    <3>3. \A o \in Workers : HeldBy(o) \subseteq Jobs /\ (o # k => HeldBy(o)' = HeldBy(o))
      BY <2>9, Working, <1>OthersFrame
    <3>4. \A o \in Workers : \A j \in HeldBy(o)' : j.id <= n + 1 /\ j.before <= n + 1
      BY <2>4, <2>10, <3>1, <3>2, <3>3 DEF Below
    <3>5. Below(n + 1)'
      BY <2>1, <2>3, <2>4, <3>1, <3>2, <3>4 DEF Below
    <3>6. n + 1 \in Nat
      BY SMT
    <3> QED
      BY <3>5, <3>6 DEF Numbered
  <2>16. queue' \subseteq Jobs /\ jobLocks' \subseteq Nat \X Storages /\ acquired' \subseteq Storages
    <3>1. \A q \in C : Row(q) \in Nat \X Storages
      BY SMT, <2>2, <2>3 DEF Row, Jobs
    <3> QED
      BY <2>1, <2>3, <2>8, <3>1 DEF QueueSide
  <2> QED
    BY <2>9, <2>12, <2>13, <2>14, <2>15, <2>16 DEF QueueSide

<1>DiesQueueSide.
  ASSUME NEW k \in Workers, WorkerDies(k)
  PROVE  QueueSide'
  <2> USE <1>DiesQueueSide
  <2>1. /\ QueueSide /\ slips' = slips /\ queue' = queue /\ jobLocks' = jobLocks /\ acquired' = acquired
        /\ worker \in [Workers -> WorkerStates] /\ worker' = [worker EXCEPT ![k] = Idle]
    BY QueueSideNow DEF WorkerDies, jobs, QueueSide
  <2>2. Idle \in WorkerStates /\ Idle.at = "idle" /\ Idle.batch = {} /\ Idle.done = {}
    BY SMT DEF Idle, WorkerStates
  <2>3. worker'[k] = Idle /\ worker' \in [Workers -> WorkerStates] /\ Others(k)
    <3> HIDE DEF Idle
    <3> QED
      BY SMT, <2>1, <2>2 DEF Others
  <2>4. HeldBy(k)' = {}
    BY <2>2, <2>3 DEF HeldBy
  <2>5. Running' = Running
    BY <2>1 DEF Running
  <2>6. \A o \in Workers : Kin(o)
    BY <2>3, <2>4, <1>SameKin DEF Kin, Others
  <2>7. \A o \in Workers : Fits(o)'
    <3>1. "idle" \notin Stages
      BY SMT DEF Stages
    <3>2. Fits(k)'
      BY <2>2, <2>3, <2>4, <3>1 DEF Fits
    <3> QED
      BY <2>1, <2>3, <3>2, <1>OthersFrame DEF QueueSide
  <2>8. QueueInv'
    BY <2>1, <2>5 DEF QueueInv, QueueSide
  <2>9. ASSUME "stale" \notin slips'
        PROVE  HeldInv'
    <3>1. HeldInv
      BY <2>1, <2>9 DEF QueueSide
    <3>2. ASSUME NEW o \in Workers, o # k
          PROVE  Owns(o)'
      <4>1. Owns(o) /\ worker'[o] = worker[o]
        BY <2>3, <3>1, <3>2 DEF HeldInv, Others
      <4>2. worker[o].batch \subseteq Running' /\ \A e \in worker[o].done : WithState(e, "in_progress") \in queue'
        BY <2>1, <2>5, <4>1 DEF Owns
      <4> QED
        BY <4>1, <4>2, <1>OwnsFrame
    <3>3. Owns(k)'
      BY <2>2, <2>3 DEF Owns
    <3>4. \A i, l \in Workers : \A e \in HeldBy(i)', o \in HeldBy(l)' : e.target = o.target => i = l
      BY <2>6, <3>1, <1>KinApart
    <3> QED
      BY <2>1, <2>5, <3>1, <3>2, <3>3, <3>4 DEF HeldInv
  <2>10. Numbered'
    BY <2>1, <2>6 DEF QueueSide, Numbered, Below, Kin
  <2> QED
    BY <2>1, <2>3, <2>7, <2>8, <2>9, <2>10 DEF QueueSide

<1>GoneQueue.
  ASSUME NEW rows, NEW back, Gone(rows, back)
  PROVE  /\ QueueInv' /\ queue' \subseteq Jobs
         /\ jobLocks' \subseteq Nat \X Storages /\ acquired' \subseteq Storages
         /\ \A n \in Nat : (\A j \in queue : j.id <= n /\ j.before <= n) => \A j \in queue' : j.id <= n /\ j.before <= n
  <2> USE <1>GoneQueue
  <2>1. QueueInv /\ queue \subseteq Jobs
    BY DEF Inv, ReplicationInv, TypeOK
  <2>2. /\ jobLocks' = jobLocks \ rows /\ jobLocks' \subseteq Nat \X Storages
        /\ acquired' \subseteq Storages /\ acquired' = {l[2] : l \in jobLocks'}
    BY <1>ReleaseEffect DEF Gone
  <2> DEFINE From(p, q) == /\ Row(p) = Row(q) /\ p.change = q.change /\ p.source = q.source
                           /\ p.id = q.id /\ p.before = q.before
                           /\ p \in Jobs /\ p.state \in {q.state, "failed"}
                           /\ p = IF q \in back THEN WithState(q, "failed") ELSE q
  <2>3. ASSUME NEW p \in queue'
        PROVE  \E q \in queue : From(p, q)
    <3>1. CASE \E q \in back : p = WithState(q, "failed")
      <4>1. PICK q \in back : p = WithState(q, "failed")
        BY <3>1
      <4>2. q \in queue /\ q \in Jobs /\ "failed" \in EndStates \cup {"ready", "in_progress"}
        BY <2>1 DEF Gone, EndStates
      <4>3. /\ p \in Jobs /\ Row(p) = Row(q) /\ p.state = "failed" /\ p.id = q.id /\ p.before = q.before
            /\ p.change = q.change /\ p.source = q.source
        BY <4>1, <4>2, StateOnly
      <4> QED
        BY <4>1, <4>2, <4>3
    <3>2. CASE p \in queue /\ p \notin back
      BY <2>1, <3>2
    <3> QED
      BY <3>1, <3>2 DEF Gone
  <2> HIDE DEF From
  <2>4. \A p, q \in queue' : Row(p) = Row(q) => p = q
    <3>1. TAKE p, q \in queue'
    <3>2. HAVE Row(p) = Row(q)
    <3>3. PICK c \in queue : From(p, c)
      BY <2>3
    <3>4. PICK d \in queue : From(q, d)
      BY <2>3
    <3>5. c = d
      BY <2>1, <3>2, <3>3, <3>4 DEF QueueInv, From
    <3> QED
      BY <3>3, <3>4, <3>5 DEF From
  <2>5. \A p, q \in queue' : p.change = "delete_replica" /\ q.change = "delete_replica" => p = q
    <3>1. TAKE p, q \in queue'
    <3>2. HAVE p.change = "delete_replica" /\ q.change = "delete_replica"
    <3>3. PICK c \in queue : From(p, c)
      BY <2>3
    <3>4. PICK d \in queue : From(q, d)
      BY <2>3
    <3>5. c = d
      BY <2>1, <3>2, <3>3, <3>4 DEF QueueInv, From
    <3> QED
      BY <3>3, <3>4, <3>5 DEF From
  <2>6. ASSUME NEW p \in queue'
        PROVE  /\ p \in Jobs /\ (p.change = "update" => p.source \in Storages)
               /\ p.state \in {"ready", "in_progress", "failed"}
    <3>1. PICK q \in queue : From(p, q)
      BY <2>3
    <3>2. (q.change = "update" => q.source \in Storages) /\ q.state \in {"ready", "in_progress", "failed"}
      BY <2>1 DEF QueueInv
    <3> QED
      BY <3>1, <3>2 DEF From
  <2>7. jobLocks' \subseteq {Row(q) : q \in Running'}
    <3>1. ASSUME NEW l \in jobLocks'
          PROVE  \E q \in Running' : l = Row(q)
      <4>1. PICK q \in Running : l = Row(q)
        BY <2>1, <2>2 DEF QueueInv
      <4>2. q \in queue' /\ q.state = "in_progress"
        BY <2>2, <4>1 DEF Gone, Running
      <4> QED
        BY <4>1, <4>2 DEF Running
    <3> QED
      BY <3>1
  <2>8. ASSUME NEW n \in Nat, \A j \in queue : j.id <= n /\ j.before <= n, NEW p \in queue'
        PROVE  p.id <= n /\ p.before <= n
    BY <2>3, <2>8 DEF From
  <2>9. QueueInv'
    BY <2>2, <2>4, <2>5, <2>6, <2>7 DEF QueueInv
  <2> QED
    BY <2>2, <2>6, <2>8, <2>9

\* With HeldInv: exactly the jobs under the rows stop being in progress.
<1>GoneHeld.
  ASSUME HeldInv, NEW rows, NEW back, Gone(rows, back),
         \A q \in queue' : q.state = "in_progress" => Row(q) \notin rows,
         \A q \in back : q.attempt >= 1
  PROVE  /\ jobLocks' = {Row(q) : q \in Running'}
         /\ \A q \in Running : Row(q) \notin rows => q \in Running'
         /\ \A q \in queue' : q.attempt >= (IF q.change = "update" /\ q.state = "in_progress" THEN 0 ELSE 1)
  <2> USE <1>GoneHeld
  <2>1. queue \subseteq Jobs /\ jobLocks = {Row(q) : q \in Running}
    BY DEF Inv, ReplicationInv, TypeOK, HeldInv
  <2>2. jobLocks' = jobLocks \ rows
    BY DEF Gone, Release
  <2>3. \A q \in Running : Row(q) \notin rows => q \in Running'
    BY <2>1 DEF Gone, Running
  <2>4. ASSUME NEW q \in back
        PROVE  LET f == WithState(q, "failed") IN f.state # "in_progress" /\ f.attempt = q.attempt
    <3>1. q \in Jobs /\ "failed" \in EndStates \cup {"ready", "in_progress"}
      BY <2>1 DEF Gone, EndStates
    <3>2. WithState(q, "failed").state = "failed" /\ WithState(q, "failed").attempt = q.attempt
      BY <3>1, StateOnly
    <3> QED
      BY SMT, <3>2
  <2>5. \A q \in Running' : q \in Running /\ Row(q) \notin rows
    BY <2>4 DEF Gone, Running
  <2>6. \A q \in Running' : Row(q) \in jobLocks'
    BY <2>1, <2>2, <2>5
  <2>7. \A l \in jobLocks' : \E q \in Running' : l = Row(q)
    BY <2>1, <2>2, <2>3
  <2>8. ASSUME NEW q \in queue'
        PROVE  q.attempt >= (IF q.change = "update" /\ q.state = "in_progress" THEN 0 ELSE 1)
    <3>1. CASE q \in queue
      BY <3>1 DEF HeldInv
    <3>2. CASE \E p \in back : q = WithState(p, "failed")
      BY <2>4, <3>2
    <3> QED
      BY <3>1, <3>2 DEF Gone
  <2> QED
    BY <2>3, <2>6, <2>7, <2>8

<1>StaleQueueSide.
  ASSUME NEW rows, AcknowledgeStale(rows)
  PROVE  QueueSide'
  <2> USE <1>StaleQueueSide
  <2> DEFINE stale == {q \in queue : Row(q) \in rows}
             retried == {q \in stale : q.attempt >= 1}
             dropped == {q \in stale : q.attempt = 0}
  <2>1. /\ QueueSide /\ queue' = (queue \ (retried \cup dropped)) \cup {WithState(q, "failed") : q \in retried}
        /\ Release(rows) /\ worker' = worker /\ rows \subseteq jobLocks
        /\ slips \subseteq slips' /\ ("stale" \notin slips' => rows \cap Held = {})
    BY QueueSideNow DEF AcknowledgeStale
  <2>2. /\ retried \subseteq queue
        /\ \A q \in retried \cup dropped : Row(q) \in rows
        /\ \A q \in retried : q.attempt >= 1
    OBVIOUS
  <2>3. Gone(rows, retried)
    <3> HIDE DEF retried, dropped
    <3>1. queue' \subseteq queue \cup {WithState(q, "failed") : q \in retried}
      BY <2>1
    <3>2. retried \cap queue' \subseteq {WithState(q, "failed") : q \in retried}
      BY <2>1
    <3>3. \A q \in Running : Row(q) \in jobLocks \ rows => q \in queue'
      BY <2>1, <2>2 DEF Running
    <3> QED
      BY <2>1, <2>2, <3>1, <3>2, <3>3 DEF Gone
  <2>4. /\ QueueInv' /\ queue' \subseteq Jobs
        /\ jobLocks' \subseteq Nat \X Storages /\ acquired' \subseteq Storages
        /\ \A n \in Nat : (\A j \in queue : j.id <= n /\ j.before <= n) => \A j \in queue' : j.id <= n /\ j.before <= n
    BY <2>3, <1>GoneQueue
  <2>5. \A k \in Workers : worker'[k] = worker[k] /\ HeldBy(k)' = HeldBy(k) /\ Kin(k)
    BY <2>1, SameWorker, <1>SameKin
  <2>6. \A k \in Workers : Fits(k)'
    BY <2>1, <2>5, SameWorker DEF QueueSide
  <2>7. Numbered'
    BY <2>1, <2>4, <2>5 DEF QueueSide, Numbered, Below
  <2>8. ASSUME "stale" \notin slips'
        PROVE  HeldInv'
    <3>1. HeldInv
      BY <2>1, <2>8 DEF QueueSide
    <3>2. ASSUME NEW q \in queue', q.state = "in_progress"
          PROVE  Row(q) \notin rows
      <4>1. SUFFICES ASSUME Row(q) \in rows PROVE FALSE
        BY SMT
      <4>2. CASE q \in queue /\ q \notin retried \cup dropped
        <5>1. q.attempt \in Int /\ q.attempt >= 0
          <6>1. q.attempt >= (IF q.change = "update" /\ q.state = "in_progress" THEN 0 ELSE 1) /\ q \in Jobs
            BY <2>1, <3>1, <4>2 DEF HeldInv, QueueSide
          <6>2. q.attempt \in Int
            BY SMT, <6>1 DEF Jobs
          <6> QED
            BY SMT, <6>1, <6>2
        <5>2. ~(q.attempt >= 1) /\ ~(q.attempt = 0)
          BY <4>1, <4>2
        <5> QED
          BY SMT, <5>1, <5>2
      <4>3. CASE \E p \in retried : q = WithState(p, "failed")
        <5>1. PICK p \in retried : q = WithState(p, "failed")
          BY <4>3
        <5>2. p \in Jobs /\ "failed" \in EndStates \cup {"ready", "in_progress"}
          BY <2>1, <2>2 DEF QueueSide, EndStates
        <5>3. q.state = "failed"
          BY <5>1, <5>2, StateOnly
        <5> QED
          BY SMT, <3>2, <5>3
      <4> QED
        BY <2>1, <4>2, <4>3
    <3>3. /\ jobLocks' = {Row(q) : q \in Running'}
          /\ \A q \in Running : Row(q) \notin rows => q \in Running'
          /\ \A q \in queue' : q.attempt >= (IF q.change = "update" /\ q.state = "in_progress" THEN 0 ELSE 1)
      <4> HIDE DEF retried
      <4> QED
        BY <2>2, <2>3, <3>1, <3>2, <1>GoneHeld
    <3>4. ASSUME NEW k \in Workers
          PROVE  Owns(k)'
      <4>1. Owns(k) /\ worker[k].done \subseteq Jobs
        BY <3>1, Working DEF HeldInv
      <4>2. \A e \in HeldBy(k) : Row(e) \notin rows
        BY <2>1, <2>8 DEF Held
      <4>3. worker[k].batch \subseteq Running'
        BY <3>3, <4>1, <4>2 DEF Owns, HeldBy
      <4>4. \A e \in worker[k].done : WithState(e, "in_progress") \in queue'
        <5>1. TAKE e \in worker[k].done
        <5>2. WithState(e, "in_progress").state = "in_progress" /\ Row(WithState(e, "in_progress")) = Row(e)
          BY <4>1, StateOnly
        <5>3. WithState(e, "in_progress") \in Running
          BY <4>1, <5>2 DEF Owns, Running
        <5>4. WithState(e, "in_progress") \in Running'
          BY <3>3, <4>2, <5>2, <5>3 DEF HeldBy
        <5> QED
          BY <5>4 DEF Running
      <4> QED
        BY <2>5, <4>1, <4>3, <4>4, <1>OwnsFrame
    <3>5. \A k, l \in Workers : \A e \in HeldBy(k)', o \in HeldBy(l)' : e.target = o.target => k = l
      BY <2>5, <3>1, <1>KinApart
    <3> QED
      BY <3>3, <3>4, <3>5 DEF HeldInv
  <2> QED
    BY <2>1, <2>4, <2>6, <2>7, <2>8 DEF QueueSide

<1>AcknowledgeQueueSide.
  ASSUME NEW k \in Workers, NEW state \in EndStates, Acknowledge(k, state)
  PROVE  QueueSide'
  <2> USE <1>AcknowledgeQueueSide
  <2> DEFINE acked == {e \in worker[k].done : e.state = state}
             existing == {q \in queue : q.state = "in_progress" /\ \E e \in acked : Row(e) = Row(q)}
             similar == {q \in queue : q.state = "ready" /\ \E e \in existing :
                           q.id < e.before /\ q.target = e.target /\ q.change = e.change /\ q.source = e.source}
             gone == (IF state = "failed" THEN {} ELSE existing) \cup (IF state = "completed" THEN similar ELSE {})
             kept == existing \ gone
             rows == {Row(q) : q \in existing \cup gone} \cap jobLocks
  <2>1. /\ QueueSide /\ QueueInv /\ queue \subseteq Jobs /\ slips' = slips /\ Release(rows)
        /\ queue' = (queue \ (gone \cup kept)) \cup {WithState(q, state) : q \in kept}
    BY QueueSideNow DEF Acknowledge, QueueSide
  <2>2. /\ worker' \in [Workers -> WorkerStates] /\ Others(k) /\ worker[k].batch = {}
        /\ worker'[k].batch = {}
        /\ worker'[k].done = {e \in worker[k].done : e.state # state}
        /\ worker'[k].at = "ack" \/ (worker'[k].at = "idle" /\ worker'[k].done = {})
    BY AcknowledgeWorker
  <2>3. /\ existing \subseteq queue /\ similar \subseteq queue
        /\ \A q \in existing : q.state = "in_progress" /\ \E e \in acked : Row(e) = Row(q)
        /\ \A q \in similar : q.state # "in_progress"
    OBVIOUS
  <2> HIDE DEF existing, similar
  <2>4. \/ state = "failed" /\ gone = {}
        \/ state # "failed" /\ existing \subseteq gone /\ gone \subseteq existing \cup similar
    <3>1. CASE state = "failed"
      <4>1. state # "completed"
        BY SMT, <3>1
      <4>2. \A x : x \notin gone
        BY <3>1, <4>1
      <4> QED
        BY <3>1, <4>2
    <3>2. CASE state # "failed"
      BY <3>2
    <3> QED
      BY SMT, <3>1, <3>2
  <2> HIDE DEF gone
  <2>5. /\ existing \subseteq gone \cup kept /\ gone \cup kept \subseteq existing \cup similar
        /\ kept \subseteq existing /\ (state # "failed" => kept = {})
        /\ gone \cup kept \subseteq queue
    BY <2>3, <2>4
  <2> HIDE DEF kept
  <2>6. queue' = (queue \ (gone \cup kept)) \cup {WithState(q, "failed") : q \in kept}
    BY <2>1, <2>5
  <2>7. \A q \in gone \cup kept : Row(q) \in jobLocks => Row(q) \in rows
    BY <2>5
  <2>8. \A l \in rows : \E q \in gone \cup kept : l = Row(q)
    BY <2>5
  <2>18. \A q \in existing : Row(q) \in jobLocks => Row(q) \in rows
    OBVIOUS
  <2> HIDE DEF rows
  <2>9. Gone(rows, kept)
    <3>1. queue' \subseteq queue \cup {WithState(q, "failed") : q \in kept}
      BY <2>6
    <3>2. kept \cap queue' \subseteq {WithState(q, "failed") : q \in kept}
      BY <2>6
    <3>3. \A q \in Running : Row(q) \in jobLocks \ rows => q \in queue'
      BY <2>6, <2>7 DEF Running
    <3> QED
      BY <2>1, <2>5, <3>1, <3>2, <3>3 DEF Gone
  <2>10. /\ QueueInv' /\ queue' \subseteq Jobs
         /\ jobLocks' \subseteq Nat \X Storages /\ acquired' \subseteq Storages
         /\ \A n \in Nat : (\A j \in queue : j.id <= n /\ j.before <= n) => \A j \in queue' : j.id <= n /\ j.before <= n
    BY <2>9, <1>GoneQueue
  <2>11. HeldBy(k)' \subseteq HeldBy(k) /\ HeldBy(k)' = worker'[k].done
    BY <2>2 DEF HeldBy
  <2>12. \A o \in Workers : Kin(o)
    BY <2>2, <2>11, <1>SameKin DEF Kin, Others
  <2>13. \A o \in Workers : Fits(o)'
    <3>1. Fits(k)'
      <4>1. /\ \A e \in HeldBy(k) : e.change = "update" => e.source \in Storages
            /\ \A e, o \in HeldBy(k) : e.target = o.target
        BY <2>1 DEF QueueSide, Fits
      <4>2. /\ \A e \in HeldBy(k)' : e.change = "update" => e.source \in Storages
            /\ \A e, o \in HeldBy(k)' : e.target = o.target
        BY <2>11, <4>1
      <4>3. worker'[k].at \notin Stages /\ worker'[k].at \notin {"copy", "set", "invalid", "remove", "drop"}
            /\ (worker'[k].at = "idle" => HeldBy(k)' = {})
        BY SMT, <2>2, <2>11 DEF Stages
      <4> QED
        BY <2>2, <4>2, <4>3 DEF Fits
    <3> QED
      BY <2>1, <2>2, <3>1, <1>OthersFrame DEF QueueSide
  <2>14. Numbered'
    <3>1. PICK n \in Nat : Below(n)
      BY <2>1 DEF QueueSide, Numbered
    <3>2. Below(n)'
      BY <2>10, <2>12, <3>1 DEF Below, Kin
    <3> QED
      BY <3>2 DEF Numbered
  <2>15. ASSUME "stale" \notin slips'
         PROVE  HeldInv'
    <3>1. HeldInv
      BY <2>1, <2>15 DEF QueueSide
    <3>2. ASSUME NEW q \in queue', q.state = "in_progress"
          PROVE  Row(q) \notin rows
      <4>1. CASE q \in queue /\ q \notin gone \cup kept
        BY <2>1, <2>5, <2>8, <4>1 DEF QueueInv
      <4>2. CASE \E p \in kept : q = WithState(p, "failed")
        <5>1. PICK p \in kept : q = WithState(p, "failed")
          BY <4>2
        <5>2. p \in Jobs /\ "failed" \in EndStates \cup {"ready", "in_progress"}
          BY <2>1, <2>5 DEF EndStates
        <5>3. q.state = "failed"
          BY <5>1, <5>2, StateOnly
        <5> QED
          BY SMT, <3>2, <5>3
      <4> QED
        BY <2>6, <4>1, <4>2
    <3>3. ASSUME NEW q \in kept
          PROVE  q.attempt >= 1
      <4>1. PICK e \in worker[k].done : e.state = "failed" /\ Row(e) = Row(q)
        BY <2>3, <2>5
      <4>2. e \in Jobs /\ WithState(e, "in_progress") \in queue /\ e.attempt >= 1
        BY <3>1, <4>1, Working DEF HeldInv, Owns
      <4>3. Row(WithState(e, "in_progress")) = Row(e) /\ WithState(e, "in_progress").attempt = e.attempt
        BY <4>2, StateOnly
      <4>4. WithState(e, "in_progress") = q
        BY <2>1, <2>5, <4>1, <4>2, <4>3 DEF QueueInv
      <4> QED
        BY <4>2, <4>3, <4>4
    <3>4. /\ jobLocks' = {Row(q) : q \in Running'}
          /\ \A q \in Running : Row(q) \notin rows => q \in Running'
          /\ \A q \in queue' : q.attempt >= (IF q.change = "update" /\ q.state = "in_progress" THEN 0 ELSE 1)
      BY <2>9, <3>1, <3>2, <3>3, <1>GoneHeld
    <3>5. \A l \in rows, q \in Running : l = Row(q) => \E e \in worker[k].done : e.state = state /\ Row(e) = Row(q)
      <4>1. TAKE l \in rows, q \in Running
      <4>2. HAVE l = Row(q)
      <4>3. PICK x \in gone \cup kept : l = Row(x)
        BY <2>8
      <4>4. x = q /\ q.state = "in_progress"
        BY <2>1, <2>5, <4>2, <4>3 DEF QueueInv, Running
      <4>5. x \in existing
        BY <2>3, <2>5, <4>3, <4>4
      <4> QED
        BY <2>3, <4>4, <4>5
    <3>6. ASSUME NEW o \in Workers, NEW e \in HeldBy(o)', NEW q \in Running, Row(q) = Row(e)
          PROVE  q \in Running'
      <4> SUFFICES ASSUME Row(q) \in rows PROVE FALSE
        BY <3>4
      <4>1. PICK d \in worker[k].done : d.state = state /\ Row(d) = Row(q)
        BY <3>5
      <4>2. CASE o = k
        <5>1. e \in worker[k].done /\ e.state # state /\ e \in HeldBy(k)
          BY <2>2, <2>11, <4>2
        <5>2. Owns(k)
          BY <3>1 DEF HeldInv
        <5>3. Row(e) = Row(d) /\ d \in worker[k].done
          BY <3>6, <4>1
        <5> QED
          BY <4>1, <5>1, <5>2, <5>3 DEF Owns
      <4>3. CASE o # k
        <5>1. e \in HeldBy(o) /\ d \in HeldBy(k) /\ e.target = d.target
          BY <2>2, <3>6, <4>1, <4>3, <1>OthersFrame, <1>RowParts DEF HeldBy
        <5> QED
          BY <3>1, <4>3, <5>1 DEF HeldInv
      <4> QED
        BY SMT, <4>2, <4>3
    <3>7. ASSUME NEW o \in Workers
          PROVE  /\ worker'[o].batch \subseteq Running'
                 /\ \A e \in worker'[o].done : WithState(e, "in_progress") \in queue'
      <4>1. /\ Owns(o) /\ worker[o].done \subseteq Jobs
            /\ worker'[o].batch \subseteq worker[o].batch /\ worker'[o].done \subseteq worker[o].done
        BY <2>2, <3>1, Working DEF HeldInv, Others
      <4>2. worker'[o].batch \subseteq HeldBy(o)' /\ worker'[o].done \subseteq HeldBy(o)'
        BY DEF HeldBy
      <4>3. worker'[o].batch \subseteq Running'
        BY <3>6, <4>1, <4>2 DEF Owns
      <4>4. \A e \in worker'[o].done : WithState(e, "in_progress") \in queue'
        <5>1. TAKE e \in worker'[o].done
        <5>2. WithState(e, "in_progress").state = "in_progress" /\ Row(WithState(e, "in_progress")) = Row(e)
          BY <4>1, StateOnly
        <5>3. WithState(e, "in_progress") \in Running
          BY <4>1, <5>2 DEF Owns, Running
        <5>4. WithState(e, "in_progress") \in Running'
          BY <3>6, <4>2, <5>2, <5>3
        <5> QED
          BY <5>4 DEF Running
      <4> QED
        BY <4>3, <4>4
    <3>8. ASSUME NEW o \in Workers
          PROVE  Owns(o)'
      <4>1. Owns(o)
        BY <3>1 DEF HeldInv
      <4>2. CASE o = k
        <5>1. \A e \in worker'[k].done : e \in worker[k].done
          BY <2>2
        <5> QED
          BY <2>2, <2>11, <3>7, <4>1, <4>2, <5>1 DEF Owns
      <4>3. CASE o # k
        <5>1. worker'[o] = worker[o]
          BY <2>2, <4>3 DEF Others
        <5> QED
          BY <3>7, <4>1, <5>1, <1>OwnsFrame
      <4> QED
        BY SMT, <4>2, <4>3
    <3>9. \A i, l \in Workers : \A e \in HeldBy(i)', o \in HeldBy(l)' : e.target = o.target => i = l
      BY <2>12, <3>1, <1>KinApart
    <3> QED
      BY <3>4, <3>8, <3>9 DEF HeldInv
  <2> QED
    BY <2>1, <2>2, <2>10, <2>13, <2>14, <2>15 DEF QueueSide
<1>1. ASSUME NEW k \in Workers, WorkerStep(k)
      PROVE  QueueSide'
  <2>1. slips \subseteq slips'
    BY <1>1 DEF WorkerStep, StartEvent, ReplicateRepository, SetGeneration, DeleteInvalidRepository,
         RemoveRepository, DeleteReplica, EventFails
  <2> QED
    BY <1>1, <2>1, StepsMove, <1>MovesQueueSide
<1>2. ASSUME NEW w \in Writes,
             \/ GetPrimary(w) \/ GetConsistentStorages(w) \/ GetHostAssignments(w) \/ Vote(w)
             \/ IncrementGeneration(w) \/ (\E s \in Storages : Commit(w, s)) \/ FinalizerLost(w)
      PROVE  QueueSide'
  <2>1. UNCHANGED <<queue, jobLocks, acquired, worker>> /\ slips \subseteq slips'
    BY <1>2 DEF GetPrimary, GetConsistentStorages, GetHostAssignments, Vote, IncrementGeneration, Commit,
         FinalizerLost, jobs
  <2> QED
    BY <2>1, <1>QueueFrame
<1>3. ASSUME \/ \E f \in Resizes : SetReplicationFactor(f)
             \/ \E s \in Storages : Unhealthy(s) \/ Healthy(s) \/ RepositoryLost(s)
             \/ UNCHANGED vars
      PROVE  QueueSide'
  <2>1. UNCHANGED <<queue, jobLocks, acquired, worker>> /\ slips \subseteq slips'
    BY <1>3 DEF SetReplicationFactor, Unhealthy, Healthy, RepositoryLost, jobs, vars
  <2> QED
    BY <2>1, <1>QueueFrame
<1>4. ASSUME NEW k \in Workers, ProcessBacklog(k) \/ EventFails(k) \/ WorkerDies(k)
      PROVE  QueueSide'
  BY <1>1, <1>4, <1>DequeueQueueSide, <1>AcknowledgeQueueSide, <1>DiesQueueSide DEF ProcessBacklog, WorkerStep, EndStates
<1>5. ASSUME NEW w \in Writes, Mutator(w) \/ FinalizerLost(w)
      PROVE  QueueSide'
  BY <1>2, <1>5, <1>EnqueueQueueSide DEF Mutator
<1> QED
  BY <1>3, <1>4, <1>5, <1>ReconcileQueueSide, <1>StaleQueueSide DEF Next

---------------------------------------------------------------------------
(* The steps of a mutator RPC.                                             *)

RpcFrame(w) == rpc' \in [Writes -> RPCs] /\ \A v \in Writes : v # w => rpc'[v] = rpc[v]

\* A step of an RPC that produces no generation.
Quiet(w) ==
  /\ RpcFrame(w) /\ Finalizes(w)'
  /\ rpc'[w].produced = rpc[w].produced
  /\ rpc[w].produced # NoRow => rpc'[w].primary = rpc[w].primary /\ rpc'[w].applied = rpc[w].applied

\* What the invariant says of one RPC.
LEMMA RpcNow ==
  ASSUME Inv, NEW w \in Writes
  PROVE  /\ rpc \in [Writes -> RPCs] /\ rpc[w] \in RPCs /\ Finalizes(w)
         /\ rpc[w].primary \in Storages \cup {NoStorage}
         /\ rpc[w].voters \subseteq Storages /\ rpc[w].applied \subseteq Storages
         /\ rpc[w].pending \subseteq Storages /\ rpc[w].outdated \subseteq Storages
         /\ rpc[w].produced \in Nat \cup {NoRow}
         /\ rpc[w].at \in {"new", "consistent", "assignments", "vote", "commit"} => rpc[w].produced = NoRow
<1>1. rpc \in [Writes -> RPCs] /\ rpc[w] \in RPCs /\ Finalizes(w)
  BY DEF Inv, ReplicationInv, TypeOK
<1>2. /\ rpc[w].primary \in Storages \cup {NoStorage}
      /\ rpc[w].voters \subseteq Storages /\ rpc[w].applied \subseteq Storages
      /\ rpc[w].pending \subseteq Storages /\ rpc[w].outdated \subseteq Storages
      /\ rpc[w].produced \in Nat \cup {NoRow}
  BY SMT, <1>1 DEF RPCs
<1>3. rpc[w].at \in {"new", "consistent", "assignments", "vote", "commit"} => rpc[w].produced = NoRow
  BY SMT, <1>1 DEF Finalizes
<1> QED
  BY <1>1, <1>2, <1>3

\* An RPC that changes leaves the others alone.
LEMMA RpcSet ==
  ASSUME Inv, NEW w \in Writes, NEW r \in RPCs, rpc' = [rpc EXCEPT ![w] = r]
  PROVE  RpcFrame(w) /\ rpc'[w] = r
<1>1. rpc \in [Writes -> RPCs]
  BY RpcNow
<1> QED
  BY SMT, <1>1 DEF RpcFrame

\* The sets of storages of a routing are storages.
LEMMA StorageSets ==
  ASSUME Inv
  PROVE  /\ Consistent \subseteq Storages /\ Assigned \subseteq Storages /\ healthy \subseteq Storages
         /\ primary \in Storages /\ valid_primaries \subseteq Storages
         /\ update_sources \subseteq Storages /\ DeleteTargets \subseteq Storages
<1>1. /\ healthy \subseteq Storages /\ primary \in Storages /\ assignments \subseteq Storages /\ queue \subseteq Jobs
  BY DEF Inv, ReplicationInv, TypeOK
<1>2. Consistent \subseteq Storages
  BY DEF Consistent
<1>3. Assigned \subseteq Storages
  BY <1>1 DEF Assigned
<1>4. valid_primaries \subseteq Storages /\ update_sources \subseteq Storages
  BY <1>2 DEF valid_primaries, update_sources
<1>5. \A j \in Jobs : j.target \in Storages
  BY SMT DEF Jobs
<1>6. DeleteTargets \subseteq Storages
  BY <1>1, <1>5 DEF DeleteTargets
<1> QED
  BY <1>1, <1>2, <1>3, <1>4, <1>6

\* Routing may elect another primary and changes no replica.
LEMMA GetPrimaryEffect ==
  ASSUME Inv, NEW w \in Writes, GetPrimary(w)
  PROVE  Quiet(w) /\ primary' \in Storages /\ rpc'[w].at \notin {"vote", "commit"}
<1>1. PICK p \in IF primary \in valid_primaries \/ valid_primaries = {} THEN {primary} ELSE valid_primaries :
         /\ primary' = p
         /\ rpc' = [rpc EXCEPT ![w] = [rpc[w] EXCEPT
              !.at = IF p \in healthy THEN "consistent" ELSE "done",
              !.primary = p, !.healthy = healthy]]
  BY DEF GetPrimary
<1>2. p \in Storages /\ healthy \subseteq Storages
  BY StorageSets
<1> DEFINE at == IF p \in healthy THEN "consistent" ELSE "done"
           r == [rpc[w] EXCEPT !.at = at, !.primary = p, !.healthy = healthy]
<1>3. at \in {"consistent", "done"}
  OBVIOUS
<1> HIDE DEF at
<1>4. rpc[w] \in RPCs /\ rpc[w].at = "new" /\ Finalizes(w) /\ rpc[w].produced = NoRow
  BY RpcNow DEF GetPrimary
<1>5. /\ r \in RPCs /\ r.at = at /\ r.primary = p /\ r.pending = rpc[w].pending /\ r.applied = rpc[w].applied
      /\ r.produced = rpc[w].produced
  BY <1>2, <1>3, <1>4 DEF RPCs
<1>6. rpc' = [rpc EXCEPT ![w] = r]
  BY <1>1 DEF at
<1> HIDE DEF r
<1>7. RpcFrame(w) /\ rpc'[w] = r
  BY <1>5, <1>6, RpcSet
<1>8. rpc[w].pending = {} /\ rpc[w].applied = {}
  BY <1>4 DEF Finalizes
<1>9. Finalizes(w)'
  BY SMT, <1>2, <1>3, <1>4, <1>5, <1>7, <1>8 DEF Finalizes
<1>10. rpc'[w].at \notin {"vote", "commit"}
  BY SMT, <1>3, <1>5, <1>7
<1> QED
  BY <1>1, <1>2, <1>4, <1>5, <1>7, <1>9, <1>10 DEF Quiet

\* Reading the consistent storages changes only the RPC.
LEMMA GetConsistentStoragesEffect ==
  ASSUME Inv, NEW w \in Writes, GetConsistentStorages(w)
  PROVE  Quiet(w) /\ rpc'[w].at \notin {"vote", "commit"}
<1> DEFINE at == IF rpc[w].primary \in Consistent THEN "assignments" ELSE "done"
           r == [rpc[w] EXCEPT !.at = at, !.consistent = Consistent]
<1>1. rpc' = [rpc EXCEPT ![w] = r] /\ rpc[w].at = "consistent"
  BY DEF GetConsistentStorages
<1>2. Consistent \subseteq Storages
  BY StorageSets
<1>3. at \in {"assignments", "done"}
  OBVIOUS
<1> HIDE DEF at
<1>4. rpc[w] \in RPCs /\ Finalizes(w) /\ rpc[w].produced = NoRow
  BY <1>1, RpcNow
<1>5. /\ r \in RPCs /\ r.at = at /\ r.primary = rpc[w].primary /\ r.pending = rpc[w].pending
      /\ r.applied = rpc[w].applied /\ r.produced = rpc[w].produced
  BY <1>2, <1>3, <1>4 DEF RPCs
<1> HIDE DEF r
<1>7. RpcFrame(w) /\ rpc'[w] = r
  BY <1>1, <1>5, RpcSet
<1>8. rpc[w].pending = {} /\ rpc[w].applied = {} /\ rpc[w].primary \in Storages
  BY <1>1, <1>4 DEF Finalizes
<1>9. Finalizes(w)'
  BY SMT, <1>3, <1>4, <1>5, <1>7, <1>8 DEF Finalizes
<1>10. rpc'[w].at \notin {"vote", "commit"}
  BY SMT, <1>3, <1>5, <1>7
<1> QED
  BY <1>4, <1>5, <1>7, <1>9, <1>10 DEF Quiet

\* The assignments fix the storages of the RPC, none of which is about to be
\* removed unless one was dropped from them before.
LEMMA GetHostAssignmentsEffect ==
  ASSUME Inv, NEW w \in Writes, GetHostAssignments(w)
  PROVE  /\ Quiet(w) /\ rpc'[w].at # "commit" /\ slips \subseteq slips' /\ slips' \subseteq Slips
         /\ "dropped" \notin slips' /\ rpc'[w].at = "vote" => DeleteTargets \cap Used(w)' = {}
<1> DEFINE at == IF rpc[w].primary \in Assigned THEN "vote" ELSE "done"
           voters == Assigned \cap rpc[w].consistent \cap rpc[w].healthy
           outdated == Assigned \ voters
           r == [rpc[w] EXCEPT !.at = at, !.voters = voters, !.outdated = outdated, !.healthy = {}, !.consistent = {}]
<1>1. /\ rpc' = [rpc EXCEPT ![w] = r] /\ rpc[w].at = "assignments"
      /\ slips' = IF rpc[w].primary \in Assigned /\ (voters \cup {rpc[w].primary}) \cap DeleteTargets # {}
                  THEN slips \cup {"dropped"} ELSE slips
  BY DEF GetHostAssignments
<1>2. voters \subseteq Storages /\ outdated \subseteq Storages
  BY StorageSets
<1>3. at \in {"vote", "done"} /\ (at = "vote" => rpc[w].primary \in Assigned)
  OBVIOUS
<1>11. slips \subseteq slips' /\ slips' \subseteq Slips
  <2>1. slips \subseteq Slips
    BY DEF Inv, ReplicationInv, TypeOK
  <2> QED
    BY <1>1, <2>1 DEF Slips, Losses
<1>12. "dropped" \notin slips' /\ at = "vote" => (voters \cup {rpc[w].primary}) \cap DeleteTargets = {}
  BY <1>1, <1>3
<1> HIDE DEF at, voters, outdated
<1>4. rpc[w] \in RPCs /\ Finalizes(w) /\ rpc[w].produced = NoRow
  BY <1>1, RpcNow
<1>5. /\ r \in RPCs /\ r.at = at /\ r.primary = rpc[w].primary /\ r.pending = rpc[w].pending
      /\ r.applied = rpc[w].applied /\ r.produced = rpc[w].produced /\ r.voters = voters
  BY <1>2, <1>3, <1>4 DEF RPCs
<1> HIDE DEF r
<1>7. RpcFrame(w) /\ rpc'[w] = r
  BY <1>1, <1>5, RpcSet
<1>8. rpc[w].pending = {} /\ rpc[w].applied = {} /\ rpc[w].primary \in Storages
  BY <1>1, <1>4 DEF Finalizes
<1>9. Finalizes(w)'
  BY SMT, <1>3, <1>4, <1>5, <1>7, <1>8 DEF Finalizes
<1>10. rpc'[w].at # "commit"
  BY SMT, <1>3, <1>5, <1>7
<1>13. "dropped" \notin slips' /\ rpc'[w].at = "vote" => DeleteTargets \cap Used(w)' = {}
  BY <1>5, <1>7, <1>12 DEF Used
<1> QED
  BY <1>4, <1>5, <1>7, <1>9, <1>10, <1>11, <1>13 DEF Quiet

\* A vote narrows the storages of the RPC and changes no replica.
LEMMA VoteEffect ==
  ASSUME Inv, NEW w \in Writes, Vote(w)
  PROVE  /\ Quiet(w) /\ rpc[w].at = "vote" /\ Used(w)' \subseteq Used(w) /\ rpc'[w].applied = {}
<1>1. rpc[w] \in RPCs /\ Finalizes(w) /\ rpc[w].produced = NoRow /\ rpc[w].at = "vote"
  BY RpcNow DEF Vote
<1>2. rpc[w].pending = {} /\ rpc[w].applied = {} /\ rpc[w].primary \in Storages
  BY <1>1 DEF Finalizes
<1>3. rpc[w].voters \subseteq Storages /\ rpc[w].outdated \subseteq Storages
  BY RpcNow
<1>4. CASE rpc' = [rpc EXCEPT ![w] = [rpc[w] EXCEPT !.at = "done", !.outdated = {}, !.voters = {}]]
  <2> DEFINE r == [rpc[w] EXCEPT !.at = "done", !.outdated = {}, !.voters = {}]
  <2>1. /\ r \in RPCs /\ r.at = "done" /\ r.primary = rpc[w].primary /\ r.pending = rpc[w].pending
        /\ r.applied = rpc[w].applied /\ r.produced = rpc[w].produced /\ r.voters = {}
    BY <1>1 DEF RPCs
  <2>2. rpc' = [rpc EXCEPT ![w] = r]
    BY <1>4
  <2> HIDE DEF r
  <2>3. RpcFrame(w) /\ rpc'[w] = r
    BY <2>1, <2>2, RpcSet
  <2>4. Finalizes(w)'
    BY SMT, <1>1, <1>2, <2>1, <2>3 DEF Finalizes
  <2> QED
    BY <1>1, <1>2, <2>1, <2>3, <2>4 DEF Quiet, Used
<1>5. ASSUME NEW committers \in SUBSET rpc[w].voters,
             NEW changed \in {committers, committers \cup {rpc[w].primary}},
             rpc' = [rpc EXCEPT ![w] = [rpc[w] EXCEPT
                 !.at = "commit", !.voters = committers, !.pending = changed,
                 !.outdated = rpc[w].outdated \cup (rpc[w].voters \ (committers \cup {rpc[w].primary}))]]
      PROVE  Quiet(w) /\ Used(w)' \subseteq Used(w) /\ rpc'[w].applied = {}
  <2> DEFINE outdated == rpc[w].outdated \cup (rpc[w].voters \ (committers \cup {rpc[w].primary}))
             r == [rpc[w] EXCEPT !.at = "commit", !.voters = committers, !.pending = changed, !.outdated = outdated]
  <2>5. outdated \subseteq Storages
    BY <1>3
  <2>6. changed \subseteq Storages /\ committers \subseteq Storages /\ changed \subseteq committers \cup {rpc[w].primary}
    BY <1>2, <1>3
  <2>2. rpc' = [rpc EXCEPT ![w] = r]
    BY <1>5
  <2> HIDE DEF outdated
  <2>1. /\ r \in RPCs /\ r.at = "commit" /\ r.primary = rpc[w].primary /\ r.pending = changed
        /\ r.applied = rpc[w].applied /\ r.produced = rpc[w].produced /\ r.voters = committers
    BY <1>1, <2>5, <2>6 DEF RPCs
  <2> HIDE DEF r
  <2>3. RpcFrame(w) /\ rpc'[w] = r
    BY <2>1, <2>2, RpcSet
  <2>7. Used(w)' = committers \cup {rpc[w].primary}
    BY <2>1, <2>3 DEF Used
  <2>4. Finalizes(w)'
    BY SMT, <1>1, <1>2, <2>1, <2>3, <2>6, <2>7 DEF Finalizes
  <2> QED
    BY <1>1, <1>2, <2>1, <2>3, <2>4, <2>7 DEF Quiet, Used
<1>6. \/ rpc' = [rpc EXCEPT ![w] = [rpc[w] EXCEPT !.at = "done", !.outdated = {}, !.voters = {}]]
      \/ \E committers \in SUBSET rpc[w].voters :
           \E changed \in {committers, committers \cup {rpc[w].primary}} :
             rpc' = [rpc EXCEPT ![w] = [rpc[w] EXCEPT
                 !.at = "commit", !.voters = committers, !.pending = changed,
                 !.outdated = rpc[w].outdated \cup (rpc[w].voters \ (committers \cup {rpc[w].primary}))]]
  BY DEF Vote
<1> QED
  BY <1>1, <1>4, <1>5, <1>6

\* The count of faults stays a natural number.
LEMMA FaultCounts ==
  ASSUME Inv, Fault
  PROVE  faults' \in Nat
<1>1. faults \in Nat
  BY DEF Inv, ReplicationInv, TypeOK
<1> QED
  BY SMT, <1>1 DEF Fault

\* What a commit on one storage changes.
Committed(w, s) ==
  \/ /\ disk[s] # {} /\ disk' = [disk EXCEPT ![s] = disk[s] \cup {w}]
     /\ rpc'[w].applied = rpc[w].applied \cup {s}
  \/ disk' = disk /\ rpc'[w].applied = rpc[w].applied

\* A commit applies the write on one storage, or leaves it out.
LEMMA CommitEffect ==
  ASSUME Inv, NEW w \in Writes, NEW s \in Storages, Commit(w, s)
  PROVE  /\ Quiet(w) /\ rpc'[w].at = rpc[w].at /\ Used(w)' = Used(w)
         /\ Committed(w, s) /\ faults' \in Nat
<1>1. /\ rpc[w] \in RPCs /\ Finalizes(w) /\ s \in rpc[w].pending
      /\ rpc[w].pending \subseteq Storages /\ rpc[w].applied \subseteq Storages
  BY RpcNow DEF Commit
<1>2. /\ rpc[w].produced = NoRow
      /\ rpc[w].at \notin {"new", "consistent", "assignments", "vote"}
      /\ rpc[w].at \in {"commit", "enqueue"} => rpc[w].primary \in Storages
      /\ rpc[w].at = "commit" => rpc[w].pending \cup rpc[w].applied \subseteq Used(w)
  BY SMT, <1>1 DEF Finalizes
<1> DEFINE pending == rpc[w].pending \ {s}
           r(applied) == [rpc[w] EXCEPT !.pending = pending, !.applied = applied]
<1>3. ASSUME NEW applied, applied \in {rpc[w].applied, rpc[w].applied \cup {s}}, rpc' = [rpc EXCEPT ![w] = r(applied)]
      PROVE  Quiet(w) /\ rpc'[w].at = rpc[w].at /\ Used(w)' = Used(w) /\ rpc'[w].applied = applied
  <2>1. /\ pending \subseteq Storages /\ applied \subseteq Storages
        /\ pending \cup applied \subseteq rpc[w].pending \cup rpc[w].applied
    BY <1>1, <1>3
  <2> HIDE DEF pending
  <2>2. /\ r(applied) \in RPCs /\ r(applied).at = rpc[w].at /\ r(applied).primary = rpc[w].primary
        /\ r(applied).pending = pending /\ r(applied).applied = applied
        /\ r(applied).produced = rpc[w].produced /\ r(applied).voters = rpc[w].voters
    BY <1>1, <2>1 DEF RPCs
  <2> HIDE DEF r
  <2>3. RpcFrame(w) /\ rpc'[w] = r(applied)
    BY <1>3, <2>2, RpcSet
  <2>4. Used(w)' = Used(w)
    BY <2>2, <2>3 DEF Used
  <2>5. rpc[w].at = "commit" => pending \cup applied \subseteq Used(w)
    BY <1>2, <2>1
  <2>6. Finalizes(w)'
    BY SMT, <1>2, <2>2, <2>3, <2>4, <2>5 DEF Finalizes
  <2> QED
    BY <1>2, <2>2, <2>3, <2>4, <2>6 DEF Quiet
<1>4. CASE /\ disk[s] # {} /\ disk' = [disk EXCEPT ![s] = disk[s] \cup {w}]
           /\ rpc' = [rpc EXCEPT ![w] = r(rpc[w].applied \cup {s})] /\ UNCHANGED faults
  <2>1. faults' \in Nat
    BY <1>4 DEF Inv, ReplicationInv, TypeOK
  <2> HIDE DEF r
  <2> QED
    BY <1>3, <1>4, <2>1 DEF Committed
<1>5. CASE /\ IF disk[s] # {} THEN Fault ELSE UNCHANGED faults
           /\ rpc' = [rpc EXCEPT ![w] = [rpc[w] EXCEPT !.pending = pending]] /\ UNCHANGED disk
  <2>1. faults' \in Nat
    BY <1>5, FaultCounts DEF Inv, ReplicationInv, TypeOK
  <2>2. [rpc[w] EXCEPT !.pending = pending] = r(rpc[w].applied)
    BY <1>1 DEF RPCs
  <2> HIDE DEF r
  <2> QED
    BY <1>3, <1>5, <2>1, <2>2 DEF Committed
<1> QED
  BY <1>4, <1>5 DEF Commit

\* A coordinator that enqueues its jobs changes no storage.
LEMMA EnqueueEffect ==
  ASSUME Inv, NEW w \in Writes, NEW s \in Storages, Enqueue(w, s)
  PROVE  Quiet(w) /\ rpc'[w].at \notin {"vote", "commit"}
<1> DEFINE at == IF rpc[w].outdated = {s} THEN "done" ELSE "enqueue"
           outdated == rpc[w].outdated \ {s}
           r == [rpc[w] EXCEPT !.at = at, !.outdated = outdated]
<1>1. rpc' = [rpc EXCEPT ![w] = r] /\ rpc[w].at = "enqueue"
  BY DEF Enqueue
<1>2. /\ rpc[w] \in RPCs /\ Finalizes(w) /\ rpc[w].outdated \subseteq Storages
  BY RpcNow
<1>3. at \in {"done", "enqueue"} /\ outdated \subseteq Storages
  BY <1>1, <1>2
<1> HIDE DEF at, outdated
<1>5. /\ r \in RPCs /\ r.at = at /\ r.primary = rpc[w].primary /\ r.pending = rpc[w].pending
      /\ r.applied = rpc[w].applied /\ r.produced = rpc[w].produced
  BY <1>2, <1>3 DEF RPCs
<1> HIDE DEF r
<1>7. RpcFrame(w) /\ rpc'[w] = r
  BY <1>1, <1>5, RpcSet
<1>9. Finalizes(w)'
  BY SMT, <1>1, <1>2, <1>3, <1>5, <1>7 DEF Finalizes
<1>10. rpc'[w].at \notin {"vote", "commit"}
  BY SMT, <1>3, <1>5, <1>7
<1> QED
  BY <1>5, <1>7, <1>9, <1>10 DEF Quiet

\* A lost finalizer changes no storage and no table.
LEMMA FinalizerLostEffect ==
  ASSUME Inv, NEW w \in Writes, FinalizerLost(w)
  PROVE  Quiet(w) /\ rpc'[w].at \notin {"vote", "commit"}
<1> DEFINE r == [rpc[w] EXCEPT !.at = "lost"]
<1>1. rpc' = [rpc EXCEPT ![w] = r] /\ rpc[w].at \in {"commit", "enqueue"}
  BY DEF FinalizerLost
<1>2. /\ rpc[w] \in RPCs /\ Finalizes(w)
  BY RpcNow
<1>5. /\ r \in RPCs /\ r.at = "lost" /\ r.primary = rpc[w].primary /\ r.pending = rpc[w].pending
      /\ r.applied = rpc[w].applied /\ r.produced = rpc[w].produced
  BY <1>2 DEF RPCs
<1> HIDE DEF r
<1>7. RpcFrame(w) /\ rpc'[w] = r
  BY <1>1, <1>5, RpcSet
<1>9. Finalizes(w)'
  BY SMT, <1>1, <1>2, <1>5, <1>7 DEF Finalizes
<1>10. rpc'[w].at \notin {"vote", "commit"}
  BY SMT, <1>5, <1>7
<1> QED
  BY <1>5, <1>7, <1>9, <1>10 DEF Quiet

\* The finalizer raises the generation of the storages of L.
Increments(w, L) ==
  /\ L # {} /\ L \subseteq Used(w) /\ L \subseteq Consistent
  /\ replicas' = [s \in Storages |-> IF s \in L THEN generation + 1 ELSE replicas[s]]
  /\ generation' = generation + 1
  /\ rpc'[w].produced = generation + 1 /\ rpc'[w].primary = rpc[w].primary /\ rpc'[w].applied = rpc[w].applied
  /\ rpc[w].primary \in rpc[w].applied => L \subseteq rpc[w].applied

\* IncrementGeneration produces the next generation for the storages it is given.
LEMMA IncrementEffect ==
  ASSUME Inv, NEW w \in Writes, IncrementGeneration(w)
  PROVE  /\ RpcFrame(w) /\ Finalizes(w)' /\ rpc'[w].at \notin {"vote", "commit"} /\ rpc[w].at = "commit"
         /\ \/ rpc'[w].produced = NoRow /\ UNCHANGED <<replicas, generation>>
            \/ \E L : Increments(w, L)
<1> DEFINE updated == {s \in rpc[w].voters : (s \in rpc[w].applied) = (rpc[w].primary \in rpc[w].applied)}
           L == (updated \cup {rpc[w].primary}) \cap Consistent
           outdated == (rpc[w].outdated \cup rpc[w].voters) \ (updated \cup {rpc[w].primary})
           at == IF outdated = {} THEN "done" ELSE "enqueue"
           r == [NewRPC EXCEPT !.at = at, !.primary = rpc[w].primary, !.applied = rpc[w].applied,
                               !.outdated = outdated, !.produced = generation + 1]
<1>1. /\ rpc[w].at = "commit"
      /\ IF L = {}
         THEN rpc' = [rpc EXCEPT ![w] = [NewRPC EXCEPT !.at = "done"]] /\ UNCHANGED <<replicas, generation>>
         ELSE /\ replicas' = [s \in Storages |-> IF s \in L THEN generation + 1 ELSE replicas[s]]
              /\ generation' = generation + 1
              /\ rpc' = [rpc EXCEPT ![w] = r]
  BY DEF IncrementGeneration
<1>2. /\ rpc[w] \in RPCs /\ Finalizes(w) /\ rpc[w].outdated \subseteq Storages /\ rpc[w].voters \subseteq Storages
      /\ rpc[w].applied \subseteq Storages /\ generation \in Nat \cup {NoRow}
  BY RpcNow DEF Inv, ReplicationInv, TypeOK
<1>3. rpc[w].primary \in Storages
  BY <1>1, <1>2 DEF Finalizes
<1>4. CASE L = {}
  <2> DEFINE d == [NewRPC EXCEPT !.at = "done"]
  <2>1. d \in RPCs /\ d.at = "done" /\ d.produced = NoRow
    BY SMT DEF NewRPC, RPCs
  <2>2. rpc' = [rpc EXCEPT ![w] = d] /\ UNCHANGED <<replicas, generation>>
    BY <1>1, <1>4
  <2> HIDE DEF d
  <2>3. RpcFrame(w) /\ rpc'[w] = d
    BY <2>1, <2>2, RpcSet
  <2>4. Finalizes(w)'
    BY SMT, <2>1, <2>3 DEF Finalizes
  <2>5. rpc'[w].at \notin {"vote", "commit"}
    BY SMT, <2>1, <2>3
  <2> QED
    BY <1>1, <2>1, <2>2, <2>3, <2>4, <2>5
<1>5. CASE L # {}
  <2>1. generation \in Nat /\ generation + 1 \in Nat
    BY SMT, <1>2, <1>5 DEF Consistent
  <2>2. L \subseteq Used(w) /\ L \subseteq Consistent
    BY DEF Used
  <2>3. rpc[w].primary \in rpc[w].applied => L \subseteq rpc[w].applied
    OBVIOUS
  <2>4. outdated \subseteq Storages /\ at \in {"done", "enqueue"}
    BY <1>2
  <2>5. /\ rpc' = [rpc EXCEPT ![w] = r] /\ generation' = generation + 1
        /\ replicas' = [s \in Storages |-> IF s \in L THEN generation + 1 ELSE replicas[s]]
    BY <1>1, <1>5
  <2> HIDE DEF L, outdated, at
  <2>6. NewRPC \in RPCs /\ NewRPC.pending = {}
    BY SMT DEF NewRPC, RPCs
  <2> HIDE DEF NewRPC
  <2>7. /\ r.at = at /\ r.primary = rpc[w].primary /\ r.pending = {} /\ r.applied = rpc[w].applied
        /\ r.produced = generation + 1 /\ r \in RPCs
    BY <1>2, <1>3, <2>1, <2>4, <2>6 DEF RPCs
  <2> HIDE DEF r
  <2>9. RpcFrame(w) /\ rpc'[w] = r
    BY <2>5, <2>7, RpcSet
  <2>10. Finalizes(w)'
    BY SMT, <1>3, <2>4, <2>7, <2>9 DEF Finalizes
  <2>11. rpc'[w].at \notin {"vote", "commit"}
    BY SMT, <2>4, <2>7, <2>9
  <2>12. Increments(w, L)
    BY <1>5, <2>2, <2>3, <2>5, <2>7, <2>9 DEF Increments
  <2> QED
    BY <1>1, <2>9, <2>10, <2>11, <2>12
<1> QED
  BY SMT, <1>4, <1>5

---------------------------------------------------------------------------
(* The store and the workers that copy.                                    *)

StoreTypes ==
  /\ generation \in Nat \cup {NoRow}
  /\ replicas \in [Storages -> Nat \cup {NoRow}]
  /\ primary \in Storages /\ assignments \subseteq Storages /\ healthy \subseteq Storages
  /\ disk \in [Storages -> SUBSET (Writes \cup {Created})]
  /\ rpc \in [Writes -> RPCs] /\ faults \in Nat
  /\ slips \subseteq Slips

StoreSide ==
  /\ StoreTypes /\ StoreInv /\ (\A w \in Writes : Finalizes(w))
  /\ "stale" \notin slips => \A k \in Workers : Behind(k)

\* The part of the invariant about the store of generations.
LEMMA StoreSideNow ==
  ASSUME Inv
  PROVE  StoreSide
  BY DEF Inv, ReplicationInv, TypeOK, StoreSide, StoreTypes

\* A worker that does not begin a copy.
Calm(o) ==
  \/ worker'[o].gen = NoRow /\ worker'[o].at \notin {"copy", "set"}
  \/ /\ worker'[o].gen = worker[o].gen /\ Job(o)' = Job(o)
     /\ worker'[o].at \in {"copy", "set"} => worker[o].at \in {"copy", "set"}

StoreRises ==
  /\ generation' \in Nat \cup {NoRow}
  /\ generation' = NoRow \/ (generation # NoRow /\ generation <= generation')

\* A worker the step leaves alone learns no new generation.
LEMMA SameCalm ==
  ASSUME NEW o \in Workers, worker'[o] = worker[o]
  PROVE  Calm(o)
  BY SameWorker DEF Calm

\* A worker whose job ends learns no new generation.
LEMMA EndedCalm ==
  ASSUME NEW k \in Workers, NEW state, Ended(k, state)
  PROVE  \A o \in Workers : Calm(o)
<1>1. Calm(k)
  BY SMT DEF Ended, Calm
<1> QED
  BY <1>1, SameCalm DEF Ended, Others

\* A worker that dequeues starts with an empty record and its batch.
LEMMA DequeueWorker ==
  ASSUME Inv, NEW k \in Workers, NEW t \in Storages, Dequeue(k, t)
  PROVE  /\ worker[k].at = "idle" /\ Others(k)
         /\ worker'[k].at = "event" /\ worker'[k].gen = NoRow /\ worker'[k].done = {}
<1> DEFINE free == {q \in queue : q.target = t /\ q.state \in {"ready", "failed"}}
           C == {q \in free : \A o \in free : o.change = q.change => q.id <= o.id}
           T == {Taken(q) : q \in C}
           r == [at |-> "event", batch |-> T, gen |-> NoRow, done |-> {}]
<1>1. worker[k].at = "idle" /\ worker' = [worker EXCEPT ![k] = r]
  BY DEF Dequeue
<1> HIDE DEF T
<1>2. r.at = "event" /\ r.gen = NoRow /\ r.done = {}
  BY SMT
<1>3. worker \in [Workers -> WorkerStates]
  BY Working
<1> HIDE DEF r
<1>4. worker'[k] = r /\ Others(k)
  BY <1>1, <1>3 DEF Others
<1> QED
  BY <1>1, <1>2, <1>4

\* A worker that dies loses its batch.
LEMMA DiesWorker ==
  ASSUME Inv, NEW k \in Workers, WorkerDies(k)
  PROVE  Others(k) /\ worker'[k].at = "idle" /\ worker'[k].gen = NoRow /\ worker'[k].done = {}
<1>1. worker \in [Workers -> WorkerStates] /\ worker' = [worker EXCEPT ![k] = Idle]
  BY Working DEF WorkerDies
<1>2. Idle.at = "idle" /\ Idle.gen = NoRow /\ Idle.done = {}
  BY SMT DEF Idle
<1>3. worker'[k] = Idle /\ Others(k)
  BY <1>1 DEF Others
<1> QED
  BY <1>2, <1>3

\* Dequeuing, acknowledging and dying change only the queue and the worker.
LEMMA BatchEffect ==
  ASSUME Inv, NEW k \in Workers,
         (\E t \in Storages : Dequeue(k, t)) \/ (\E state \in EndStates : Acknowledge(k, state)) \/ WorkerDies(k)
  PROVE  /\ Others(k) /\ worker'[k].gen = NoRow /\ worker'[k].at \notin Stages \ {"event"}
         /\ UNCHANGED <<generation, replicas, primary, disk, rpc, slips>>
<1>1. UNCHANGED <<generation, replicas, primary, assignments, healthy, disk, rpc, slips>>
  BY DEF Dequeue, Acknowledge, WorkerDies, store
<1>3. Others(k) /\ worker'[k].gen = NoRow /\ worker'[k].at \in {"event", "idle", "ack"}
  <2>1. CASE \E t \in Storages : Dequeue(k, t)
    BY <2>1, DequeueWorker
  <2>2. CASE \E state \in EndStates : Acknowledge(k, state)
    BY <2>2, AcknowledgeWorker
  <2>3. CASE WorkerDies(k)
    BY <2>3, DiesWorker
  <2> QED
    BY <2>1, <2>2, <2>3
<1>4. worker'[k].at \notin Stages \ {"event"}
  BY SMT, <1>3 DEF Stages
<1> QED
  BY <1>1, <1>3, <1>4

\* The reconciler, the administrator, the health checks, lost disks and stale locks.
LEMMA OutsideEffect ==
  ASSUME Inv,
         \/ (\E rows : AcknowledgeStale(rows)) \/ reconcile
         \/ (\E f \in Resizes : SetReplicationFactor(f))
         \/ \E s \in Storages : Unhealthy(s) \/ Healthy(s) \/ RepositoryLost(s)
  PROVE  slips \subseteq slips' /\ slips' \subseteq Slips /\ UNCHANGED <<generation, replicas, primary, rpc, worker>>
<1>1. UNCHANGED <<generation, replicas, primary, rpc, worker>>
  BY DEF AcknowledgeStale, reconcile, SetReplicationFactor, Unhealthy, Healthy, RepositoryLost, store
<1>2. slips \subseteq Slips
  BY StoreSideNow DEF StoreSide, StoreTypes
<1>3. slips \subseteq slips' /\ slips' \subseteq Slips
  <2>1. slips' \in {slips} \cup {slips \cup {x} : x \in {"stale", "dropped", "lost"}}
    BY DEF AcknowledgeStale, reconcile, SetReplicationFactor, Unhealthy, Healthy, RepositoryLost
  <2> QED
    BY SMT, <1>2, <2>1 DEF Slips, Races, Losses
<1> QED
  BY <1>1, <1>3

\* A worker that goes on keeps its job, and the others learn no new generation.
LEMMA WentSame ==
  ASSUME NEW k \in Workers, NEW stage, NEW gen, Went(k, stage, gen)
  PROVE  Job(k)' = Job(k) /\ HeldBy(k)' = HeldBy(k) /\ \A o \in Workers : o # k => Calm(o)
<1>1. Job(k)' = Job(k) /\ HeldBy(k)' = HeldBy(k)
  BY DEF Went, Job, HeldBy
<1> QED
  BY <1>1, SameCalm DEF Went, Others

\* A step of a worker tells the stage it is at.
LEMMA StageIs ==
  ASSUME NEW k \in Workers
  PROVE  /\ StartEvent(k) => worker[k].at = "event" /\ worker[k].at \in Stages
         /\ ReplicateRepository(k) => worker[k].at = "copy" /\ worker[k].at \in Stages
         /\ SetGeneration(k) => worker[k].at = "set" /\ worker[k].at \in Stages
         /\ DeleteInvalidRepository(k) => worker[k].at = "invalid" /\ worker[k].at \in Stages
         /\ RemoveRepository(k) => worker[k].at = "remove" /\ worker[k].at \in Stages
         /\ DeleteReplica(k) => worker[k].at = "drop" /\ worker[k].at \in Stages
         /\ EventFails(k) => worker[k].at \in Stages
  BY DEF StartEvent, ReplicateRepository, SetGeneration, DeleteInvalidRepository,
       RemoveRepository, DeleteReplica, EventFails, Stages

\* The parts of the state that a worker's steps leave in order.
LEMMA WorkerTypes ==
  ASSUME Inv, NEW k \in Workers, WorkerStep(k)
  PROVE  /\ UNCHANGED <<primary, assignments, healthy, rpc>> /\ faults' \in Nat
         /\ slips \subseteq slips' /\ slips' \subseteq Slips
         /\ disk' \in [Storages -> SUBSET (Writes \cup {Created})]
         /\ \A v \in Writes : Finalizes(v)'
<1>1. UNCHANGED <<primary, assignments, healthy, rpc>>
  BY DEF WorkerStep, StartEvent, ReplicateRepository, SetGeneration, DeleteInvalidRepository,
       RemoveRepository, DeleteReplica, EventFails, store
<1>2. /\ faults \in Nat /\ slips \subseteq Slips /\ disk \in [Storages -> SUBSET (Writes \cup {Created})]
  BY StoreSideNow DEF StoreSide, StoreTypes
<1>3. faults' \in Nat
  <2>1. UNCHANGED faults \/ Fault
    BY DEF WorkerStep, StartEvent, ReplicateRepository, SetGeneration, DeleteInvalidRepository,
       RemoveRepository, DeleteReplica, EventFails
  <2> QED
    BY <1>2, <2>1, FaultCounts
<1>4. slips \subseteq slips' /\ slips' \subseteq Slips
  <2>1. slips' = slips \/ slips' = slips \cup CopySlips(k)
    BY DEF WorkerStep, StartEvent, ReplicateRepository, SetGeneration, DeleteInvalidRepository,
       RemoveRepository, DeleteReplica, EventFails
  <2>2. CopySlips(k) \subseteq {"crossed", "replaced", "restored"}
    BY DEF CopySlips
  <2>3. {"crossed", "replaced", "restored"} \subseteq Slips
    BY SMT DEF Slips, Races, Losses
  <2> QED
    BY <1>2, <2>1, <2>2, <2>3
<1>5. disk' \in [Storages -> SUBSET (Writes \cup {Created})]
  <2>1. \/ disk' = disk \/ disk' = [disk EXCEPT ![Job(k).target] = {}]
        \/ ReplicateRepository(k) /\ disk' = [disk EXCEPT ![Job(k).target] = disk[Job(k).source]]
    BY DEF WorkerStep, StartEvent, ReplicateRepository, SetGeneration, DeleteInvalidRepository,
       RemoveRepository, DeleteReplica, EventFails
  <2>2. CASE ReplicateRepository(k) /\ disk' = [disk EXCEPT ![Job(k).target] = disk[Job(k).source]]
    <3>1. worker[k].at = "copy" /\ Fits(k) /\ worker[k].at \in Stages
      BY <2>2, StageIs, Working
    <3>2. Job(k).source \in Storages
      BY <3>1, Working DEF Fits
    <3>3. disk[Job(k).source] \in SUBSET (Writes \cup {Created})
      BY <1>2, <3>2
    <3> QED
      BY <1>2, <2>2, <3>3
  <2> QED
    BY <1>2, <2>1, <2>2
<1>6. ASSUME NEW v \in Writes
      PROVE  Finalizes(v)'
  <2>1. Used(v)' = Used(v)
    BY <1>1 DEF Used
  <2>2. Finalizes(v)
    BY DEF Inv, ReplicationInv
  <2> QED
    BY <1>1, <2>1, <2>2 DEF Finalizes
<1> QED
  BY <1>1, <1>3, <1>4, <1>5, <1>6

\* A worker starts to copy a newer generation.
Begins(k) ==
  /\ generation # NoRow /\ Job(k).change = "update"
  /\ ~(replicas[Job(k).target] # NoRow /\ replicas[Job(k).target] >= replicas[Job(k).source])
  /\ Went(k, "copy", replicas[Job(k).source])

\* Starting an event reads the generation of the source, or ends the job.
LEMMA StartEventEffect ==
  ASSUME Inv, NEW k \in Workers, StartEvent(k)
  PROVE  /\ UNCHANGED <<generation, replicas, disk, slips>>
         /\ \/ handleNodeEventFails(k) \/ (Ends(k, "completed") /\ Job(k).change = "update")
            \/ Went(k, "remove", NoRow) \/ Begins(k)
<1>1. /\ UNCHANGED <<generation, replicas, disk, slips>>
      /\ \/ handleNodeEventFails(k) \/ (Ends(k, "completed") /\ Job(k).change # "delete_replica")
         \/ Goes(k, "remove", NoRow)
         \/ /\ generation # NoRow /\ Job(k).change # "delete_replica"
            /\ ~(replicas[Job(k).target] # NoRow /\ replicas[Job(k).target] >= replicas[Job(k).source])
            /\ Goes(k, "copy", replicas[Job(k).source])
  BY DEF StartEvent, store
<1>2. worker[k].at \in Stages
  BY StageIs
<1>3. /\ Job(k).change \in {"update", "delete_replica"} /\ (Job(k).change = "update" => Job(k).source \in Storages)
      /\ replicas \in [Storages -> Nat \cup {NoRow}]
  BY <1>2, Working, StoreSideNow DEF StoreSide, StoreTypes
<1>4. Job(k).change # "delete_replica" => Job(k).change = "update" /\ replicas[Job(k).source] \in Nat \cup {NoRow}
  BY <1>3
<1>5. Goes(k, "remove", NoRow) => Went(k, "remove", NoRow)
  BY <1>2, StepEffect DEF Stages
<1>6. Job(k).change # "delete_replica" /\ Goes(k, "copy", replicas[Job(k).source])
        => Went(k, "copy", replicas[Job(k).source])
  BY <1>2, <1>4, StepEffect DEF Stages
<1> QED
  BY <1>1, <1>4, <1>5, <1>6 DEF Begins

\* A worker copies the repository to its target.
CopiesTo(k) ==
  /\ disk[Job(k).source] # {} /\ disk' = [disk EXCEPT ![Job(k).target] = disk[Job(k).source]]
  /\ slips' = slips \cup CopySlips(k)
  /\ Ended(k, "completed") \/ Went(k, "set", worker[k].gen)

\* ReplicateRepository makes the target a copy of the source, or fails.
LEMMA ReplicateEffect ==
  ASSUME Inv, NEW k \in Workers, ReplicateRepository(k)
  PROVE  /\ UNCHANGED <<generation, replicas>> /\ worker[k].at = "copy" /\ WorkerStep(k)
         /\ worker[k].at \in Stages /\ Job(k).change = "update"
         /\ \/ CopiesTo(k)
            \/ /\ disk[Job(k).source] = {} /\ UNCHANGED <<disk, slips>>
               /\ Went(k, "invalid", worker[k].gen)
<1>1. worker[k].at = "copy" /\ worker[k].at \in Stages /\ WorkerStep(k)
  BY StageIs DEF WorkerStep
<1>2. worker[k].gen \in Nat \cup {NoRow} /\ Fits(k)
  BY Working
<1>3. /\ Goes(k, "invalid", worker[k].gen) => Went(k, "invalid", worker[k].gen)
      /\ Goes(k, "set", worker[k].gen) => Went(k, "set", worker[k].gen)
      /\ Ends(k, "completed") => Ended(k, "completed")
  BY <1>1, <1>2, StepEffect DEF Stages
<1>4. UNCHANGED <<generation, replicas>>
  BY DEF ReplicateRepository, store
<1>5. CASE disk[Job(k).source] = {}
  BY <1>1, <1>2, <1>3, <1>4, <1>5 DEF ReplicateRepository, Fits
<1>6. CASE disk[Job(k).source] # {}
  BY <1>1, <1>2, <1>3, <1>4, <1>6 DEF ReplicateRepository, Fits, CopiesTo
<1> QED
  BY <1>5, <1>6

\* The target gets the generation that the worker read.
LEMMA SetGenerationEffect ==
  ASSUME Inv, NEW k \in Workers, SetGeneration(k)
  PROVE  /\ UNCHANGED <<generation, disk, slips>> /\ worker[k].at = "set" /\ WorkerStep(k)
         /\ worker[k].at \in Stages /\ Job(k).target \in Storages /\ Ended(k, "completed") /\ Job(k).change = "update"
         /\ IF generation = NoRow THEN UNCHANGED replicas
            ELSE replicas' = [replicas EXCEPT ![Job(k).target] = worker[k].gen]
<1>1. worker[k].at = "set" /\ worker[k].at \in Stages /\ WorkerStep(k)
  BY StageIs DEF WorkerStep
<1>2. worker[k].gen \in Nat \cup {NoRow} /\ Fits(k) /\ Job(k).target \in Storages
  BY <1>1, Working
<1>3. Ends(k, "completed") /\ UNCHANGED <<disk, slips>>
  BY DEF SetGeneration
<1>4. Ended(k, "completed") /\ Job(k).change = "update"
  BY <1>1, <1>2, <1>3, StepEffect DEF Fits
<1>5. generation \in Nat \cup {NoRow} /\ (generation # NoRow => worker[k].gen <= generation)
  BY DEF Inv, ReplicationInv, TypeOK, StoreInv
<1>6. generation # NoRow => ~(worker[k].gen > generation)
  BY SMT, <1>2, <1>5 DEF NoRow
<1>7. CASE generation = NoRow
  BY <1>1, <1>2, <1>3, <1>4, <1>7 DEF SetGeneration
<1>8. CASE generation # NoRow
  BY <1>1, <1>2, <1>3, <1>4, <1>6, <1>8 DEF SetGeneration
<1> QED
  BY <1>7, <1>8

\* A replica's row goes.
Lowers(s) ==
  /\ s \in Storages /\ replicas' = [replicas EXCEPT ![s] = NoRow]
  /\ \/ generation' = generation
     \/ generation' = NoRow /\ \A o \in Storages \ {s} : replicas[o] = NoRow

\* A deleted row is the only one that changes; the generation stays, or goes with
\* the repository.
LEMMA LowersEffect ==
  ASSUME Inv, NEW s, Lowers(s)
  PROVE  /\ StoreRises /\ generation' \in Nat \cup {NoRow} /\ s \in Storages
         /\ replicas'[s] = NoRow /\ \A o \in Storages : o # s => replicas'[o] = replicas[o]
<1>1. generation \in Nat \cup {NoRow} /\ replicas \in [Storages -> Nat \cup {NoRow}]
  BY StoreSideNow DEF StoreSide, StoreTypes
<1>2. s \in Storages /\ replicas'[s] = NoRow /\ \A o \in Storages : o # s => replicas'[o] = replicas[o]
  BY <1>1 DEF Lowers
<1>3. StoreRises /\ generation' \in Nat \cup {NoRow}
  BY SMT, <1>1 DEF Lowers, StoreRises, NoRow
<1> QED
  BY <1>2, <1>3

\* Which rows a worker deletes, and for which job.
LEMMA DeletesEffect ==
  ASSUME Inv, NEW k \in Workers, DeleteInvalidRepository(k) \/ DeleteReplica(k)
  PROVE  /\ UNCHANGED <<disk, slips>> /\ WorkerStep(k) /\ worker[k].at \in Stages /\ Ended(k, "completed")
         /\ \/ worker[k].at = "invalid" /\ Lowers(Job(k).source) /\ Job(k).change = "update"
            \/ /\ worker[k].at = "drop" /\ Lowers(Job(k).target) /\ Job(k).change = "delete_replica"
               /\ generation' = generation
<1>1. /\ WorkerStep(k) /\ worker[k].at \in Stages /\ Ends(k, "completed") /\ UNCHANGED <<disk, slips>>
  BY StageIs DEF DeleteInvalidRepository, DeleteReplica, WorkerStep
<1>2. Ended(k, "completed") /\ Fits(k) /\ Job(k).target \in Storages
  BY <1>1, StepEffect, Working
<1>3. CASE DeleteInvalidRepository(k)
  <2>1. worker[k].at = "invalid" /\ Job(k).change = "update"
    BY <1>2, <1>3, StageIs DEF Fits
  <2>2. Job(k).source \in Storages
    BY <1>1, <2>1, Working
  <2>3. Lowers(Job(k).source)
    BY <1>3, <2>2 DEF DeleteInvalidRepository, Lowers
  <2> QED
    BY <1>1, <1>2, <2>1, <2>3
<1>4. CASE DeleteReplica(k)
  <2>1. worker[k].at = "drop" /\ Job(k).change = "delete_replica"
    BY <1>2, <1>4, StageIs DEF Fits
  <2>2. Lowers(Job(k).target) /\ generation' = generation
    BY <1>2, <1>4 DEF DeleteReplica, Lowers
  <2> QED
    BY <1>1, <1>2, <2>1, <2>2
<1> QED
  BY <1>3, <1>4

\* RemoveRepository empties the target of a deletion, or fails.
LEMMA RemoveEffect ==
  ASSUME Inv, NEW k \in Workers, RemoveRepository(k)
  PROVE  /\ UNCHANGED <<generation, replicas, slips>> /\ WorkerStep(k) /\ worker[k].at = "remove"
         /\ worker[k].at \in Stages /\ Job(k).change = "delete_replica" /\ Job(k).target \in Storages
         /\ \/ handleNodeEventFails(k) /\ UNCHANGED disk
            \/ disk' = [disk EXCEPT ![Job(k).target] = {}] /\ Went(k, "drop", NoRow)
<1>1. /\ UNCHANGED <<generation, replicas, slips>> /\ WorkerStep(k) /\ worker[k].at = "remove" /\ worker[k].at \in Stages
      /\ \/ handleNodeEventFails(k) /\ UNCHANGED disk
         \/ disk' = [disk EXCEPT ![Job(k).target] = {}] /\ Goes(k, "drop", NoRow)
  BY StageIs DEF RemoveRepository, WorkerStep, store
<1>2. Fits(k) /\ Job(k).target \in Storages
  BY <1>1, Working
<1>3. Job(k).change = "delete_replica"
  BY <1>1, <1>2 DEF Fits
<1>4. Goes(k, "drop", NoRow) => Went(k, "drop", NoRow)
  BY <1>1, StepEffect DEF Stages
<1> QED
  BY <1>1, <1>2, <1>3, <1>4

\* The store of generations and what the RPCs and the workers know of it survive
\* every step.
LEMMA StoreStep ==
  ASSUME Inv, [Next]_vars
  PROVE  StoreSide'

<1>CalmGen.
  ASSUME StoreRises, NEW o \in Workers, Calm(o), generation' # NoRow
  PROVE  worker'[o].gen <= generation'
  <2> USE <1>CalmGen
  <2>1. /\ worker[o].gen \in Nat \cup {NoRow} /\ generation \in Nat \cup {NoRow}
        /\ generation # NoRow => worker[o].gen <= generation
    BY Working DEF Inv, ReplicationInv, TypeOK, StoreInv
  <2>2. worker'[o].gen \in {NoRow, worker[o].gen}
    BY DEF Calm
  <2> QED
    BY SMT, <2>1, <2>2 DEF StoreRises, NoRow

<1>CalmBehind.
  ASSUME StoreRises, NEW o \in Workers, Calm(o), Behind(o),
         worker[o].at \in {"copy", "set"} => replicas'[Job(o).target] \in {NoRow, replicas[Job(o).target]}
  PROVE  Behind(o)'
  <2> USE <1>CalmBehind
  <2> SUFFICES ASSUME worker'[o].at \in {"copy", "set"}, generation' # NoRow
               PROVE  replicas'[Job(o).target'] < generation' /\ replicas'[Job(o).target'] <= worker'[o].gen
    BY DEF Behind
  <2>1. worker'[o].gen = worker[o].gen /\ Job(o)' = Job(o) /\ worker[o].at \in {"copy", "set"}
    BY DEF Calm
  <2>2. generation # NoRow /\ generation <= generation' /\ generation' \in Nat \cup {NoRow}
    BY DEF StoreRises
  <2>3. replicas[Job(o).target] < generation /\ replicas[Job(o).target] <= worker[o].gen
    BY <2>1, <2>2 DEF Behind
  <2>4. /\ worker[o].gen \in Nat \cup {NoRow} /\ generation \in Nat \cup {NoRow} /\ worker[o].at \in Stages
        /\ replicas \in [Storages -> Nat \cup {NoRow}]
    BY <2>1, Working DEF Inv, ReplicationInv, TypeOK, Stages
  <2>5. Job(o).target \in Storages
    BY <2>4, Working
  <2>6. replicas[Job(o).target] \in Nat \cup {NoRow}
    BY <2>4, <2>5
  <2> DEFINE x == replicas[Job(o).target]
             y == replicas'[Job(o).target]
  <2>7. x < generation /\ x <= worker[o].gen /\ x \in Nat \cup {NoRow} /\ y \in {NoRow, x}
    BY <2>1, <2>3, <2>6
  <2> HIDE DEF x, y
  <2>8. y < generation' /\ y <= worker[o].gen
    BY SMT, <2>2, <2>4, <2>7 DEF NoRow
  <2> QED
    BY <2>1, <2>8 DEF y

\* The steps that leave the generations alone.
<1>StoreFrame.
  ASSUME UNCHANGED <<generation, replicas>>, slips \subseteq slips', \A o \in Workers : Calm(o)
  PROVE  StoreInv' /\ ("stale" \notin slips' => \A o \in Workers : Behind(o)')
  <2> USE <1>StoreFrame
  <2>1. StoreRises
    <3>1. generation \in Nat \cup {NoRow} /\ generation' = generation
      BY DEF Inv, ReplicationInv, TypeOK
    <3> QED
      BY SMT, <3>1 DEF StoreRises, NoRow
  <2>2. StoreInv'
    BY <2>1, <1>CalmGen DEF Inv, ReplicationInv, StoreInv
  <2>3. ASSUME "stale" \notin slips', NEW o \in Workers
        PROVE  Behind(o)'
    <3>1. Behind(o)
      BY <2>3 DEF Inv, ReplicationInv
    <3> QED
      BY <2>1, <3>1, <1>CalmBehind
  <2> QED
    BY <2>2, <2>3

<1>FinalizesFrame.
  ASSUME NEW w \in Writes, RpcFrame(w), Finalizes(w)'
  PROVE  rpc' \in [Writes -> RPCs] /\ \A v \in Writes : Finalizes(v)'
  <2> USE <1>FinalizesFrame
  <2>1. ASSUME NEW v \in Writes, rpc'[v] = rpc[v]
        PROVE  Finalizes(v)'
    <3>1. Used(v)' = Used(v)
      BY <2>1 DEF Used
    <3>2. Finalizes(v)
      BY DEF Inv, ReplicationInv
    <3> QED
      BY <2>1, <3>1, <3>2 DEF Finalizes
  <2> QED
    BY <2>1 DEF RpcFrame

\* The RPC steps that leave the generations and the disks alone.
<1>QuietStoreSide.
  ASSUME NEW w \in Writes, Quiet(w), UNCHANGED <<generation, replicas, assignments, healthy, disk, worker>>,
         primary' \in Storages, faults' \in Nat, slips \subseteq slips', slips' \subseteq Slips
  PROVE  StoreSide'
  <2> USE <1>QuietStoreSide
  <2>1. \A o \in Workers : Calm(o)
    BY SameCalm
  <2>2. StoreInv' /\ ("stale" \notin slips' => \A o \in Workers : Behind(o)')
    BY <2>1, <1>StoreFrame
  <2>3. rpc' \in [Writes -> RPCs] /\ \A v \in Writes : Finalizes(v)'
    BY <1>FinalizesFrame DEF Quiet
  <2>4. StoreTypes'
    BY <2>3, StoreSideNow DEF StoreSide, StoreTypes
  <2> QED
    BY <2>2, <2>3, <2>4 DEF StoreSide

<1>RoutingStoreSide.
  ASSUME NEW w \in Writes,
         \/ GetPrimary(w) \/ GetConsistentStorages(w) \/ GetHostAssignments(w) \/ Vote(w)
         \/ (\E s \in Storages : Enqueue(w, s)) \/ FinalizerLost(w)
  PROVE  StoreSide'
  <2> USE <1>RoutingStoreSide
  <2>1. primary \in Storages /\ faults \in Nat /\ slips \subseteq Slips
    BY DEF Inv, ReplicationInv, TypeOK
  <2>2. CASE GetPrimary(w)
    <3>1. UNCHANGED <<generation, replicas, assignments, healthy, disk, worker, faults, slips>>
      BY <2>2 DEF GetPrimary
    <3>2. Quiet(w) /\ primary' \in Storages
      BY <2>2, GetPrimaryEffect
    <3> QED
      BY <2>1, <3>1, <3>2, <1>QuietStoreSide
  <2>3. CASE GetConsistentStorages(w)
    <3>1. UNCHANGED <<generation, replicas, primary, assignments, healthy, disk, worker, faults, slips>>
      BY <2>3 DEF GetConsistentStorages, store
    <3>2. Quiet(w)
      BY <2>3, GetConsistentStoragesEffect
    <3> QED
      BY <2>1, <3>1, <3>2, <1>QuietStoreSide
  <2>4. CASE GetHostAssignments(w)
    <3>1. UNCHANGED <<generation, replicas, primary, assignments, healthy, disk, worker, faults>>
      BY <2>4 DEF GetHostAssignments, store
    <3>2. Quiet(w) /\ slips \subseteq slips' /\ slips' \subseteq Slips
      BY <2>4, GetHostAssignmentsEffect
    <3> QED
      BY <2>1, <3>1, <3>2, <1>QuietStoreSide
  <2>5. CASE Vote(w)
    <3>1. UNCHANGED <<generation, replicas, primary, assignments, healthy, disk, worker, faults, slips>>
      BY <2>5 DEF Vote, store
    <3>2. Quiet(w)
      BY <2>5, VoteEffect
    <3> QED
      BY <2>1, <3>1, <3>2, <1>QuietStoreSide
  <2>6. ASSUME NEW s \in Storages, Enqueue(w, s)
        PROVE  StoreSide'
    <3>1. UNCHANGED <<generation, replicas, primary, assignments, healthy, disk, worker, faults, slips>>
      BY <2>6 DEF Enqueue, store
    <3>2. Quiet(w)
      BY <2>6, EnqueueEffect
    <3> QED
      BY <2>1, <3>1, <3>2, <1>QuietStoreSide
  <2>7. CASE FinalizerLost(w)
    <3>1. UNCHANGED <<generation, replicas, primary, assignments, healthy, disk, worker, slips>>
      BY <2>7 DEF FinalizerLost, store
    <3>2. Quiet(w) /\ faults' \in Nat
      BY <2>7, FinalizerLostEffect, FaultCounts DEF FinalizerLost
    <3> QED
      BY <2>1, <3>1, <3>2, <1>QuietStoreSide
  <2> QED
    BY <2>2, <2>3, <2>4, <2>5, <2>6, <2>7

<1>CommitStoreSide.
  ASSUME NEW w \in Writes, NEW s \in Storages, Commit(w, s)
  PROVE  StoreSide'
  <2> USE <1>CommitStoreSide
  <2>1. UNCHANGED <<generation, replicas, primary, assignments, healthy, worker, slips>>
    BY DEF Commit, store
  <2>2. Quiet(w) /\ Committed(w, s) /\ faults' \in Nat
    BY CommitEffect
  <2>3. StoreInv' /\ ("stale" \notin slips' => \A o \in Workers : Behind(o)')
    BY <2>1, SameCalm, <1>StoreFrame
  <2>4. rpc' \in [Writes -> RPCs] /\ \A v \in Writes : Finalizes(v)'
    BY <2>2, <1>FinalizesFrame DEF Quiet
  <2>5. disk' \in [Storages -> SUBSET (Writes \cup {Created})]
    <3>1. disk \in [Storages -> SUBSET (Writes \cup {Created})]
      BY DEF Inv, ReplicationInv, TypeOK
    <3>2. disk[s] \cup {w} \in SUBSET (Writes \cup {Created})
      BY <3>1
    <3> QED
      BY <2>2, <3>1, <3>2 DEF Committed
  <2>6. StoreTypes'
    BY <2>1, <2>2, <2>4, <2>5, StoreSideNow DEF StoreSide, StoreTypes
  <2> QED
    BY <2>3, <2>4, <2>6 DEF StoreSide

<1>IncrementStoreSide.
  ASSUME NEW w \in Writes, IncrementGeneration(w)
  PROVE  StoreSide'
  <2> USE <1>IncrementStoreSide
  <2>1. UNCHANGED <<primary, assignments, healthy, disk, worker, faults, slips>>
    BY DEF IncrementGeneration
  <2>2. /\ RpcFrame(w) /\ Finalizes(w)'
        /\ UNCHANGED <<replicas, generation>> \/ \E L : Increments(w, L)
    BY IncrementEffect
  <2>3. rpc' \in [Writes -> RPCs] /\ \A v \in Writes : Finalizes(v)'
    BY <2>2, <1>FinalizesFrame
  <2>4. StoreSide /\ \A o \in Workers : Calm(o)
    BY <2>1, SameCalm, StoreSideNow
  <2>5. CASE UNCHANGED <<replicas, generation>>
    <3>1. StoreInv' /\ ("stale" \notin slips' => \A o \in Workers : Behind(o)')
      BY <2>1, <2>4, <2>5, <1>StoreFrame
    <3>2. StoreTypes'
      BY <2>1, <2>3, <2>4, <2>5 DEF StoreSide, StoreTypes
    <3> QED
      BY <2>3, <3>1, <3>2 DEF StoreSide
  <2>6. ASSUME NEW L, Increments(w, L)
        PROVE  StoreSide'
    <3>1. /\ L \subseteq Consistent /\ L # {} /\ generation' = generation + 1
          /\ replicas' = [s \in Storages |-> IF s \in L THEN generation + 1 ELSE replicas[s]]
      BY <2>6 DEF Increments
    <3>2. generation \in Nat \cup {NoRow} /\ replicas \in [Storages -> Nat \cup {NoRow}]
      BY <2>4 DEF StoreSide, StoreTypes
    <3>3. generation # NoRow /\ \A s \in L : s \in Storages /\ replicas[s] = generation
      BY <3>1 DEF Consistent
    <3>4. generation \in Nat /\ generation + 1 \in Nat
      BY SMT, <3>2, <3>3
    <3>5. StoreRises
      BY SMT, <3>1, <3>4 DEF StoreRises, NoRow
    <3>6. \A s \in Storages : IF s \in L THEN replicas'[s] = generation + 1 ELSE replicas'[s] = replicas[s]
      BY <3>1
    <3>7. replicas' \in [Storages -> Nat \cup {NoRow}]
      BY <3>1, <3>2, <3>4
    <3>8. \A s \in Storages : replicas'[s] <= generation'
      <4>1. TAKE s \in Storages
      <4>2. replicas[s] <= generation /\ replicas[s] \in Nat \cup {NoRow}
        BY <2>4, <3>2 DEF StoreSide, StoreInv
      <4> QED
        BY SMT, <3>1, <3>4, <3>6, <4>2 DEF NoRow
    <3>9. StoreInv'
      BY <2>4, <3>5, <3>8, <1>CalmGen DEF StoreInv
    <3>10. ASSUME "stale" \notin slips', NEW o \in Workers
           PROVE  Behind(o)'
      <4>1. Behind(o)
        BY <2>1, <2>4, <3>10 DEF StoreSide
      <4>2. ASSUME worker[o].at \in {"copy", "set"}
            PROVE  replicas'[Job(o).target] = replicas[Job(o).target]
        <5>1. worker[o].at \in Stages
          BY SMT, <4>2 DEF Stages
        <5>2. Job(o).target \in Storages
          BY <5>1, Working
        <5>3. replicas[Job(o).target] < generation
          BY <3>3, <4>1, <4>2 DEF Behind
        <5>4. replicas[Job(o).target] # generation
          BY SMT, <3>2, <5>2, <5>3
        <5> QED
          BY <3>3, <3>6, <5>2, <5>4
      <4> QED
        BY <2>4, <3>5, <4>1, <4>2, <1>CalmBehind
    <3>11. StoreTypes'
      BY <2>1, <2>3, <2>4, <3>1, <3>4, <3>7 DEF StoreSide, StoreTypes
    <3> QED
      BY <2>3, <3>9, <3>10, <3>11 DEF StoreSide
  <2> QED
    BY <2>2, <2>5, <2>6

\* The steps that leave the store and the RPCs alone.
<1>CalmStoreSide.
  ASSUME UNCHANGED <<generation, replicas, primary, rpc>>, \A o \in Workers : Calm(o),
         assignments' \subseteq Storages, healthy' \subseteq Storages,
         disk' \in [Storages -> SUBSET (Writes \cup {Created})],
         faults' \in Nat, slips \subseteq slips', slips' \subseteq Slips
  PROVE  StoreSide'
  <2> USE <1>CalmStoreSide
  <2>1. StoreInv' /\ ("stale" \notin slips' => \A o \in Workers : Behind(o)')
    BY <1>StoreFrame
  <2>2. ASSUME NEW v \in Writes
        PROVE  Finalizes(v)'
    <3>1. Used(v)' = Used(v)
      BY DEF Used
    <3>2. Finalizes(v)
      BY DEF Inv, ReplicationInv
    <3> QED
      BY <3>1, <3>2 DEF Finalizes
  <2>3. StoreTypes'
    BY StoreSideNow DEF StoreSide, StoreTypes
  <2> QED
    BY <2>1, <2>2, <2>3 DEF StoreSide

<1>BatchStoreSide.
  ASSUME NEW k \in Workers,
         (\E t \in Storages : Dequeue(k, t)) \/ (\E state \in EndStates : Acknowledge(k, state)) \/ WorkerDies(k)
  PROVE  StoreSide'
  <2> USE <1>BatchStoreSide
  <2>1. UNCHANGED <<generation, replicas, primary, assignments, healthy, disk, rpc, slips>>
    BY DEF Dequeue, Acknowledge, WorkerDies, store
  <2>2. faults' \in Nat
    <3>1. faults \in Nat
      BY StoreSideNow DEF StoreSide, StoreTypes
    <3>2. CASE \E t \in Storages : Dequeue(k, t)
      BY <3>1, <3>2 DEF Dequeue
    <3>3. CASE \E state \in EndStates : Acknowledge(k, state)
      BY <3>1, <3>3 DEF Acknowledge
    <3>4. CASE WorkerDies(k)
      BY <3>4, FaultCounts DEF WorkerDies
    <3> QED
      BY <3>2, <3>3, <3>4
  <2>3. Others(k) /\ worker'[k].gen = NoRow /\ worker'[k].at \notin Stages \ {"event"}
    BY BatchEffect
  <2>4. Calm(k)
    BY SMT, <2>3 DEF Calm, Stages
  <2>5. \A o \in Workers : Calm(o)
    BY <2>3, <2>4, SameCalm DEF Others
  <2> QED
    BY <2>1, <2>2, <2>5, StoreSideNow, <1>CalmStoreSide DEF StoreSide, StoreTypes

<1>OutsideStoreSide.
  ASSUME \/ (\E rows : AcknowledgeStale(rows)) \/ reconcile
         \/ (\E f \in Resizes : SetReplicationFactor(f))
         \/ \E s \in Storages : Unhealthy(s) \/ Healthy(s) \/ RepositoryLost(s)
  PROVE  StoreSide'
  <2> USE <1>OutsideStoreSide
  <2>1. UNCHANGED <<generation, replicas, primary, rpc, worker>>
    BY OutsideEffect
  <2>2. /\ faults \in Nat /\ slips \subseteq Slips /\ healthy \subseteq Storages /\ assignments \subseteq Storages
        /\ disk \in [Storages -> SUBSET (Writes \cup {Created})]
    BY StoreSideNow DEF StoreSide, StoreTypes
  <2>3. faults' \in Nat
    BY <2>2, FaultCounts DEF AcknowledgeStale, reconcile, SetReplicationFactor, Unhealthy, Healthy, RepositoryLost
  <2>4. slips \subseteq slips' /\ slips' \subseteq Slips
    BY OutsideEffect
  <2>5. healthy' \subseteq Storages /\ assignments' \subseteq Storages
    BY <2>2 DEF AcknowledgeStale, reconcile, SetReplicationFactor, Unhealthy, Healthy, RepositoryLost, store
  <2>6. disk' \in [Storages -> SUBSET (Writes \cup {Created})]
    <3>1. \A s \in Storages : [disk EXCEPT ![s] = {}] \in [Storages -> SUBSET (Writes \cup {Created})]
      BY <2>2
    <3>2. disk' = disk \/ \E s \in Storages : disk' = [disk EXCEPT ![s] = {}]
      BY DEF AcknowledgeStale, reconcile, SetReplicationFactor, Unhealthy, Healthy, RepositoryLost
    <3> QED
      BY <2>2, <3>1, <3>2
  <2>7. \A o \in Workers : Calm(o)
    BY <2>1, SameCalm
  <2> QED
    BY <2>1, <2>3, <2>4, <2>5, <2>6, <2>7, <1>CalmStoreSide

<1>WentCalm.
  ASSUME NEW k \in Workers, NEW stage, NEW gen, Went(k, stage, gen),
         \/ gen = NoRow /\ stage \notin {"copy", "set"}
         \/ gen = worker[k].gen /\ worker[k].at = "copy"
  PROVE  \A o \in Workers : Calm(o)
  <2> USE <1>WentCalm
  <2>1. Calm(k)
    BY WentSame DEF Calm, Went
  <2> QED
    BY <2>1, WentSame

\* An event that fails, or ends otherwise.
<1>EndCalm.
  ASSUME NEW k \in Workers, worker[k].at \in Stages, handleNodeEventFails(k) \/ Ends(k, "completed")
  PROVE  \A o \in Workers : Calm(o)
  <2> USE <1>EndCalm
  <2>1. \E state : Ended(k, state)
    BY FailsEffect, StepEffect
  <2> QED
    BY <2>1, EndedCalm

\* What is left to show for a worker's step.
<1>WorkerStoreSide.
  ASSUME NEW k \in Workers, WorkerStep(k),
         generation' \in Nat \cup {NoRow}, replicas' \in [Storages -> Nat \cup {NoRow}], StoreInv',
         "stale" \notin slips' => \A o \in Workers : Behind(o)'
  PROVE  StoreSide'
  <2> USE <1>WorkerStoreSide
  <2>1. StoreTypes'
    BY WorkerTypes, StoreSideNow DEF StoreSide, StoreTypes
  <2> QED
    BY <2>1, WorkerTypes DEF StoreSide

<1>CalmWorkerStoreSide.
  ASSUME NEW k \in Workers, WorkerStep(k), UNCHANGED <<generation, replicas>>, \A o \in Workers : Calm(o)
  PROVE  StoreSide'
  <2> USE <1>CalmWorkerStoreSide
  <2>1. StoreInv' /\ ("stale" \notin slips' => \A o \in Workers : Behind(o)')
    BY WorkerTypes, <1>StoreFrame
  <2> QED
    BY <2>1, StoreSideNow, <1>WorkerStoreSide DEF StoreSide, StoreTypes

<1>StartEventStoreSide.
  ASSUME NEW k \in Workers, StartEvent(k)
  PROVE  StoreSide'
  <2> USE <1>StartEventStoreSide
  <2>1. /\ UNCHANGED <<generation, replicas>> /\ worker[k].at \in Stages /\ WorkerStep(k)
    BY StartEventEffect, StageIs DEF WorkerStep
  <2>2. CASE handleNodeEventFails(k) \/ Ends(k, "completed")
    BY <2>1, <2>2, <1>EndCalm, <1>CalmWorkerStoreSide
  <2>3. CASE Went(k, "remove", NoRow)
    <3>1. "remove" \notin {"copy", "set"}
      BY SMT
    <3> QED
      BY <2>1, <2>3, <3>1, <1>WentCalm, <1>CalmWorkerStoreSide
  <2>4. CASE Begins(k)
    <3> DEFINE t == Job(k).target
               s == Job(k).source
    <3>1. /\ generation # NoRow /\ Job(k).change = "update"
          /\ ~(replicas[t] # NoRow /\ replicas[t] >= replicas[s])
          /\ Went(k, "copy", replicas[s])
      BY <2>4 DEF Begins
    <3>2. /\ t \in Storages /\ s \in Storages
          /\ generation \in Nat \cup {NoRow} /\ replicas \in [Storages -> Nat \cup {NoRow}] /\ StoreInv
      BY <2>1, <3>1, Working, StoreSideNow DEF StoreSide, StoreTypes
    <3>3. /\ replicas[t] \in Nat \cup {NoRow} /\ replicas[s] \in Nat \cup {NoRow}
          /\ replicas[s] <= generation
      BY <3>2 DEF StoreInv
    <3>4. Job(k)' = Job(k) /\ worker'[k].gen = replicas[s] /\ \A o \in Workers : o # k => Calm(o)
      BY <3>1, WentSame DEF Went
    <3> HIDE DEF t, s
    <3>5. replicas[t] < generation /\ replicas[t] <= replicas[s]
      BY SMT, <3>1, <3>2, <3>3 DEF NoRow
    <3>6. StoreRises
      BY SMT, <2>1, <3>2 DEF StoreRises, NoRow
    <3>7. StoreInv'
      BY <2>1, <3>2, <3>3, <3>4, <3>6, <1>CalmGen DEF StoreInv
    <3>8. Behind(k)'
      BY <2>1, <3>4, <3>5 DEF Behind, t
    <3>9. ASSUME "stale" \notin slips', NEW o \in Workers
          PROVE  Behind(o)'
      <4>1. Behind(o)
        BY <3>9, StartEventEffect, StoreSideNow DEF StoreSide
      <4> QED
        BY <2>1, <3>4, <3>6, <3>8, <4>1, <1>CalmBehind
    <3> QED
      BY <2>1, <3>2, <3>7, <3>9, <1>WorkerStoreSide
  <2> QED
    BY <2>2, <2>3, <2>4, StartEventEffect

<1>ReplicateStoreSide.
  ASSUME NEW k \in Workers, ReplicateRepository(k)
  PROVE  StoreSide'
  <2> USE <1>ReplicateStoreSide
  <2>1. \A o \in Workers : Calm(o)
    <3>1. CASE Ended(k, "completed")
      BY <3>1, EndedCalm
    <3>2. CASE \E stage : Went(k, stage, worker[k].gen)
      BY <3>2, <1>WentCalm, ReplicateEffect
    <3> QED
      BY <3>1, <3>2, ReplicateEffect DEF CopiesTo
  <2> QED
    BY <2>1, ReplicateEffect, <1>CalmWorkerStoreSide

<1>SetGenerationStoreSide.
  ASSUME NEW k \in Workers, SetGeneration(k)
  PROVE  StoreSide'
  <2> USE <1>SetGenerationStoreSide
  <2>1. \A o \in Workers : Calm(o)
    BY SetGenerationEffect, EndedCalm
  <2>2. CASE generation = NoRow
    BY <2>1, <2>2, SetGenerationEffect, <1>CalmWorkerStoreSide
  <2>3. CASE generation # NoRow
    <3> DEFINE t == Job(k).target
    <3>1. /\ replicas' = [replicas EXCEPT ![t] = worker[k].gen] /\ generation' = generation /\ t \in Storages
          /\ worker[k].at \in Stages /\ Ended(k, "completed") /\ WorkerStep(k) /\ slips' = slips
      BY <2>3, SetGenerationEffect
    <3>2. /\ generation \in Nat \cup {NoRow} /\ replicas \in [Storages -> Nat \cup {NoRow}] /\ StoreInv
          /\ worker[k].gen \in Nat \cup {NoRow}
      BY Working, StoreSideNow DEF StoreSide, StoreTypes
    <3>3. /\ replicas' \in [Storages -> Nat \cup {NoRow}]
          /\ \A s \in Storages : s # t => replicas'[s] = replicas[s]
          /\ replicas'[t] = worker[k].gen
      BY <3>1, <3>2
    <3>4. StoreRises
      BY SMT, <2>3, <3>1, <3>2 DEF StoreRises, NoRow
    <3>5. StoreInv'
      BY <2>1, <2>3, <3>1, <3>2, <3>3, <3>4, <1>CalmGen DEF StoreInv
    <3>6. ASSUME "stale" \notin slips', NEW o \in Workers
          PROVE  Behind(o)'
      <4>1. CASE o = k
        <5>1. worker'[k].at \notin {"copy", "set"}
          BY SMT, <3>1 DEF Ended
        <5> QED
          BY <4>1, <5>1 DEF Behind
      <4>2. CASE o # k
        <5>1. HeldInv /\ Behind(o)
          BY <3>1, <3>6 DEF Inv, ReplicationInv
        <5>2. ASSUME worker[o].at \in {"copy", "set"}
              PROVE  replicas'[Job(o).target] = replicas[Job(o).target]
          <6>1. worker[o].at \in Stages
            BY <5>2 DEF Stages
          <6>2. Job(o) \in HeldBy(o) /\ Job(k) \in HeldBy(k) /\ Job(o).target \in Storages
            BY <3>1, <6>1, Working
          <6>3. Job(o).target # t
            BY <4>2, <5>1, <6>2 DEF HeldInv
          <6> QED
            BY <3>3, <6>2, <6>3
        <5> QED
          BY <2>1, <3>4, <5>1, <5>2, <1>CalmBehind
      <4> QED
        BY <4>1, <4>2
    <3> QED
      BY <3>1, <3>2, <3>3, <3>5, <3>6, <1>WorkerStoreSide
  <2> QED
    BY <2>2, <2>3

<1>LowersStoreSide.
  ASSUME NEW k \in Workers, WorkerStep(k), NEW s, Lowers(s), \A o \in Workers : Calm(o)
  PROVE  StoreSide'
  <2> USE <1>LowersStoreSide
  <2>1. /\ generation \in Nat \cup {NoRow} /\ replicas \in [Storages -> Nat \cup {NoRow}] /\ StoreInv
        /\ slips \subseteq slips'
    BY WorkerTypes, StoreSideNow DEF StoreSide, StoreTypes
  <2>2. /\ StoreRises /\ generation' \in Nat \cup {NoRow} /\ s \in Storages
        /\ replicas'[s] = NoRow /\ \A o \in Storages : o # s => replicas'[o] = replicas[o]
    BY LowersEffect
  <2>3. replicas' \in [Storages -> Nat \cup {NoRow}]
    BY <2>1 DEF Lowers
  <2>4. \A o \in Storages : replicas'[o] <= generation'
    <3>1. TAKE o \in Storages
    <3>2. NoRow <= generation'
      BY SMT, <2>2 DEF NoRow
    <3>3. CASE o = s \/ generation' = NoRow
      BY <2>2, <3>2, <3>3, <2>1 DEF Lowers, StoreInv
    <3>4. CASE o # s /\ generation' = generation
      BY <2>1, <2>2, <3>4 DEF StoreInv
    <3> QED
      BY <3>3, <3>4 DEF Lowers
  <2>5. StoreInv'
    BY <2>2, <2>4, <1>CalmGen DEF StoreInv
  <2>6. ASSUME "stale" \notin slips', NEW o \in Workers
        PROVE  Behind(o)'
    <3>1. Behind(o)
      BY <2>1, <2>6 DEF Inv, ReplicationInv
    <3>2. ASSUME worker[o].at \in {"copy", "set"}
          PROVE  replicas'[Job(o).target] \in {NoRow, replicas[Job(o).target]}
      <4>1. worker[o].at \in Stages
        BY <3>2 DEF Stages
      <4>2. Job(o).target \in Storages
        BY <4>1, Working
      <4> QED
        BY <2>2, <4>2
    <3> QED
      BY <2>2, <3>1, <3>2, <1>CalmBehind
  <2> QED
    BY <2>2, <2>3, <2>5, <2>6, <1>WorkerStoreSide

<1>WorkerStepStoreSide.
  ASSUME NEW k \in Workers, WorkerStep(k)
  PROVE  StoreSide'
  <2> USE <1>WorkerStepStoreSide
  <2>1. CASE DeleteInvalidRepository(k) \/ DeleteReplica(k)
    <3>1. \A o \in Workers : Calm(o)
      BY <2>1, DeletesEffect, EndedCalm
    <3> QED
      BY <2>1, <3>1, DeletesEffect, <1>LowersStoreSide
  <2>2. CASE RemoveRepository(k)
    <3>1. CASE handleNodeEventFails(k)
      BY <2>2, <3>1, RemoveEffect, <1>EndCalm, <1>CalmWorkerStoreSide
    <3>2. CASE Went(k, "drop", NoRow)
      <4>1. "drop" \notin {"copy", "set"}
        BY SMT
      <4> QED
        BY <2>2, <3>2, <4>1, RemoveEffect, <1>WentCalm, <1>CalmWorkerStoreSide
    <3> QED
      BY <2>2, <3>1, <3>2, RemoveEffect
  <2>3. CASE EventFails(k)
    <3>1. worker[k].at \in Stages /\ handleNodeEventFails(k) /\ UNCHANGED <<generation, replicas>>
      BY <2>3, StageIs DEF EventFails, store
    <3> QED
      BY <3>1, <1>EndCalm, <1>CalmWorkerStoreSide
  <2> QED
    BY <2>1, <2>2, <2>3, <1>StartEventStoreSide, <1>ReplicateStoreSide, <1>SetGenerationStoreSide DEF WorkerStep
<1>1. ASSUME NEW k \in Workers, ProcessBacklog(k) \/ EventFails(k) \/ WorkerDies(k)
      PROVE  StoreSide'
  BY <1>1, <1>WorkerStepStoreSide, <1>BatchStoreSide DEF ProcessBacklog, WorkerStep, EndStates
<1>2. ASSUME NEW w \in Writes, Mutator(w) \/ FinalizerLost(w)
      PROVE  StoreSide'
  BY <1>2, <1>RoutingStoreSide, <1>CommitStoreSide, <1>IncrementStoreSide DEF Mutator
<1>3. ASSUME UNCHANGED vars
      PROVE  StoreSide'
  <2>1. UNCHANGED <<generation, replicas, primary, assignments, healthy, disk, rpc, worker, faults, slips>>
    BY <1>3 DEF vars
  <2>2. StoreTypes /\ \A o \in Workers : Calm(o)
    BY <2>1, SameCalm, StoreSideNow DEF StoreSide
  <2> QED
    BY <2>1, <2>2, <1>CalmStoreSide DEF StoreTypes
<1> QED
  BY <1>1, <1>2, <1>3, <1>OutsideStoreSide DEF Next
=============================================================================
