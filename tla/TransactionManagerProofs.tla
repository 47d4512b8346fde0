---------------------- MODULE TransactionManagerProofs ----------------------
(***************************************************************************)
(* Theorems about the transaction manager, for any transactions,           *)
(* references, values and any bound on the log: first why every step       *)
(* preserves SnapshotInv (the steps of a transaction, those of Run and     *)
(* those that apply entries, with crashes and restarts), then why every    *)
(* step preserves CommitInv, the invariant of the conflict check, given    *)
(* that it preserves SnapshotInv.                                          *)
(***************************************************************************)
EXTENDS TransactionManager, Integers, TLAPS

USE Zenon

LEMMA LenProperties ==
  ASSUME NEW S, NEW s \in Seq(S)
  PROVE  Len(s) \in Nat /\ s \in [1..Len(s) -> S] /\ DOMAIN s = 1..Len(s)
  BY SMTT(40)

LEMMA EmptySeq ==
  ASSUME NEW S
  PROVE  /\ << >> \in Seq(S) /\ Len(<< >>) = 0
         /\ \A s \in Seq(S) : s = << >> <=> Len(s) = 0
  BY SMTT(40)

\* The constants that stand for nothing are well typed.
LEMMA NothingType ==
  /\ Nothing \in [Refs -> MaybeValues]
  /\ EmptyHistory \in History
  /\ IdleTx \in Tx
<1>1. Nothing \in [Refs -> MaybeValues]
  BY DEF Nothing, MaybeValues
<1>2. 0 \in LSNs
  BY SMTT(40), ConstantsAssumption DEF LSNs
<1> QED
  BY <1>1, <1>2 DEF EmptyHistory, IdleTx, Tx, History

-----------------------------------------------------------------------------
(* Why every step preserves SnapshotInv.                                   *)

\* The steps of a transaction (Begin, the snapshot, Commit, the return), those of
\* Run (admission, the conflict check, the append) and those that apply entries,
\* with crashes and restarts, preserve SnapshotInv.
LEMMA SnapshotPreserved ==
  ASSUME FirstReadExists, SnapshotInv, [Next]_vars
  PROVE  SnapshotInv'

<1>IsASeq.
  ASSUME NEW S, NEW n \in Nat, NEW s, s = [i \in 1..n |-> s[i]], \A i \in 1..n : s[i] \in S
  PROVE  s \in Seq(S) /\ Len(s) = n
    BY <1>IsASeq, SMTT(40)

<1>ElementOfSeq.
  ASSUME NEW S, NEW s \in Seq(S), NEW i \in 1..Len(s)
  PROVE  s[i] \in S
    BY <1>ElementOfSeq, SMTT(40)

<1>ExceptSeq.
  ASSUME NEW S, NEW s \in Seq(S), NEW i \in 1..Len(s), NEW e \in S
  PROVE  /\ [s EXCEPT ![i] = e] \in Seq(S) /\ Len([s EXCEPT ![i] = e]) = Len(s)
         /\ \A j \in 1..Len(s) : [s EXCEPT ![i] = e][j] = IF j = i THEN e ELSE s[j]
    BY <1>ExceptSeq, SMTT(40)

<1>AppendProperties.
  ASSUME NEW S, NEW s \in Seq(S), NEW e \in S
  PROVE  /\ Append(s, e) \in Seq(S) /\ Len(Append(s, e)) = Len(s) + 1
         /\ \A i \in 1..Len(s) : Append(s, e)[i] = s[i]
         /\ Append(s, e)[Len(s) + 1] = e
         /\ Append(s, e) # << >>
    BY <1>AppendProperties, SMTT(40)

<1>SubSeqProperties.
  ASSUME NEW S, NEW s \in Seq(S), NEW m \in 1..(Len(s) + 1), NEW n \in (m - 1)..Len(s)
  PROVE  /\ SubSeq(s, m, n) \in Seq(S) /\ Len(SubSeq(s, m, n)) = n - m + 1
         /\ \A i \in 1..(n - m + 1) : SubSeq(s, m, n)[i] = s[m + i - 1]
    BY <1>SubSeqProperties, SMTT(40)

\* The contents of a repository overlaid with an update are such contents.
<1>OverlayType.
  ASSUME NEW s \in [Refs -> Values], NEW u \in [Refs -> MaybeValues]
  PROVE  Overlay(s, u) \in [Refs -> Values]
    BY <1>OverlayType DEF Overlay, MaybeValues

\* Evicting LSNs keeps the history well typed.
<1>EvictType.
  ASSUME NEW h \in History, NEW lsns
  PROVE  EvictLSNs(h, lsns) \in History
  <2> USE <1>EvictType
  <2>1. 0 \in LSNs /\ NoValue \in MaybeValues
    BY SMTT(40), ConstantsAssumption DEF LSNs, MaybeValues
  <2> QED
    BY <2>1, NothingType DEF EvictLSNs, History

\* transaction.finish keeps the committed entries and the history well typed.
<1>FinishType.
  ASSUME FirstReadExists, TypeOK, NEW t \in Txns, finish(t)
  PROVE  /\ committed' \in Seq(CommittedEntry)
         /\ history' \in History
  <2> USE <1>FinishType
  <2>1. committed \in Seq(CommittedEntry) /\ history \in History
    BY DEF TypeOK, History
  <2>2. CASE ~ tx[t].write
    BY <2>1, <2>2 DEF finish
  <2>3. CASE tx[t].write
    <3> DEFINE c == Unread(committed, t, tx[t].entry)
               first == FirstRead(c)
    <3>1. c \in Seq(CommittedEntry)
      <4>1. \A i \in 1..Len(committed) : committed[i] \in CommittedEntry
        BY <2>1, <1>ElementOfSeq
      <4>2. DOMAIN committed = 1..Len(committed) /\ Len(committed) \in Nat
        BY <2>1, LenProperties
      <4>3. \A i \in 1..Len(committed) : c[i] \in CommittedEntry
        BY <4>1, <4>2 DEF Unread, CommittedEntry
      <4>4. c = [i \in 1..Len(committed) |-> c[i]]
        BY <4>2 DEF Unread
      <4> QED
        BY ZenonT(40), <4>2, <4>3, <4>4, <1>IsASeq
    <3>2. first \in 1..(Len(c) + 1) /\ Len(c) \in Nat
      BY <3>1, LenProperties DEF FirstReadExists
    <3>3. committed' = SubSeq(c, first, Len(c))
      BY <2>3 DEF finish, cleanCommittedEntry
    <3>4. history' = EvictLSNs(history, {c[j].lsn : j \in 1..(first - 1)})
      BY <2>3 DEF finish, cleanCommittedEntry
    <3> HIDE DEF c, first
    <3>5. \A i \in first..Len(c) : c[i] \in CommittedEntry
      BY SMTT(40), <3>1, <3>2, <1>ElementOfSeq
    <3>6. committed' \in Seq(CommittedEntry)
      BY SMTT(40), <3>2, <3>3, <3>5, <1>SubSeqProperties
    <3> QED
      BY <2>1, <3>4, <3>6, <1>EvictType
  <2> QED
    BY <2>2, <2>3

\* Steps that neither touch the log, the repository and the locks nor take a
\* snapshot preserve the invariant.
<1>FramePreserves.
  ASSUME SnapshotInv, TypeOK',
         UNCHANGED <<log, repo, storedLSN, versions, todo, appliedLSN, locks>>,
         \/ run' = run
         \/ run' = "exited" /\ run # "down"
         \/ run \in Processing \cup {"loop"} /\ run' \in Processing \cup {"loop"},
         run' \in Processing => current' \in Txns,
         \A t \in Txns :
           \/ tx'[t].pc = "idle" /\ tx'[t].lsn = 0 /\ ~ Snapshotting(t)
           \/ /\ tx'[t].lsn = tx[t].lsn /\ tx'[t].snapshot = tx[t].snapshot
              /\ \/ tx'[t].pc = tx[t].pc
                 \/ /\ tx[t].pc \in {"open", "queued", "admitted"}
                    /\ tx'[t].pc \in {"queued", "admitted", "returned"}
  PROVE  SnapshotInv'
  <2> USE <1>FramePreserves
  <2> USE DEF SnapshotInv
  <2>1. LSNInv'
    <3>1. \A t \in Txns : tx'[t].lsn <= Len(log)
      <4>1. Len(log) \in Nat
        BY LenProperties DEF TypeOK
      <4> QED
        BY SMTT(40), <4>1 DEF LSNInv
    <3> QED
      BY <3>1 DEF LSNInv, Processing
  <2>2. Clean' <=> Clean
    BY DEF Clean
  <2>3. LockInv'
    <3>1. \A t \in Txns : Snapshotting(t)' =>
            Snapshotting(t) /\ tx'[t].lsn = tx[t].lsn /\ tx'[t].pc = tx[t].pc
      BY DEF Snapshotting
    <3>2. run' = "down" => run = "down" /\ \A t \in Txns : tx'[t].pc = "idle"
      BY DEF LockInv, Processing
    <3> QED
      BY SMTT(40), <2>2, <3>1, <3>2 DEF LockInv, Processing
  <2>4. ApplyInv' /\ RepositoryIsReplay'
    BY <2>2 DEF ApplyInv, RepositoryIsReplay, Processing
  <2>5. SnapshotIsolation'
    BY ZenonT(40) DEF SnapshotIsolation, Snapshotting
  <2> QED
    BY <2>1, <2>3, <2>4, <2>5

\* Replacing the record of one transaction.
<1>SetTx.
  ASSUME TypeOK, NEW t \in Txns, NEW e \in Tx, tx' = [tx EXCEPT ![t] = e]
  PROVE  /\ tx' \in [Txns -> Tx]
         /\ tx'[t] = e
         /\ \A x \in Txns : x # t => tx'[x] = tx[x]
    BY <1>SetTx DEF TypeOK

\* Begin joins the lock of the appended LSN: if that is applied already, the
\* whole log is, and the repository is clean.
<1>BeginPreserves.
  ASSUME SnapshotInv, NEW t \in Txns, NEW write \in BOOLEAN, Begin(t, write)
  PROVE  SnapshotInv'
  <2> USE <1>BeginPreserves
  <2> USE DEF SnapshotInv
  <2>0. /\ Len(log) \in LSNs /\ Len(log) \in Nat
        /\ storedLSN \in Nat /\ appliedLSN \in Nat /\ appliedLSN = storedLSN
        /\ UNCHANGED <<log, repo, storedLSN, versions, run, closing, current, todo,
                       appliedLSN, history, prepared>>
    BY SMTT(40), ConstantsAssumption, LenProperties DEF TypeOK, LSNs, Begin, durable, LSNInv
  <2>1. /\ updateCommittedEntry(t, Len(log)) \in Seq(CommittedEntry)
        /\ updateCommittedEntry(t, Len(log)) # << >>
    <3>1. CASE committed = << >>
      BY SMTT(40), <2>0, <3>1 DEF updateCommittedEntry, CommittedEntry
    <3>2. CASE committed # << >>
      <4> DEFINE n == Len(committed)
                 e == [committed[n] EXCEPT !.readers = @ \cup {t}]
      <4>1. committed \in Seq(CommittedEntry) /\ n \in 1..Len(committed)
        BY SMTT(40), <3>2, LenProperties, EmptySeq DEF TypeOK
      <4>2. committed[n] \in CommittedEntry
        BY <4>1, <1>ElementOfSeq
      <4>3. e \in CommittedEntry
        BY <4>2 DEF CommittedEntry
      <4>4. updateCommittedEntry(t, Len(log)) = [committed EXCEPT ![n] = e]
        BY <3>2 DEF updateCommittedEntry
      <4> HIDE DEF n, e
      <4>5. /\ [committed EXCEPT ![n] = e] \in Seq(CommittedEntry)
            /\ Len([committed EXCEPT ![n] = e]) = Len(committed)
        BY SMTT(40), <4>1, <4>3, <1>ExceptSeq
      <4> QED
        BY <3>2, <4>1, <4>4, <4>5, LenProperties, EmptySeq
    <3> QED
      BY <3>1, <3>2
  <2>2. \A u \in Txns : u # t => tx'[u] = tx[u]
    BY DEF Begin, TypeOK
  <2>3. /\ tx'[t].pc = "begun" /\ tx'[t].lsn = Len(log)
        /\ tx'[t].snapshot = Nothing
        /\ tx' \in [Txns -> Tx]
    <3> DEFINE c == updateCommittedEntry(t, Len(log))
               e == IF write THEN c[Len(c)].lsn ELSE 0
    <3>1. e \in LSNs
      <4>1. c[Len(c)] \in CommittedEntry
        BY SMTT(40), <2>1, LenProperties, <1>ElementOfSeq, EmptySeq
      <4> QED
        BY SMTT(40), <4>1, ConstantsAssumption DEF CommittedEntry, LSNs
    <3>2. tx' = [tx EXCEPT ![t] = [IdleTx EXCEPT !.pc = "begun", !.write = write,
                                                !.lsn = Len(log), !.entry = e]]
      BY DEF Begin, appendedLSN
    <3> HIDE DEF e
    <3> QED
      BY <2>0, <3>1, <3>2, NothingType DEF TypeOK, IdleTx, Tx
  <2>4. /\ DOMAIN locks' = DOMAIN locks \cup {Len(log)}
        /\ \A l \in DOMAIN locks' : locks'[l] \in Lock
        /\ \A l \in DOMAIN locks : /\ locks'[l].applied = locks[l].applied
                                   /\ locks[l].snapshotters \subseteq locks'[l].snapshotters
        /\ Len(log) \notin DOMAIN locks => locks'[Len(log)].applied = FALSE
        /\ t \in locks'[Len(log)].snapshotters
    <3> DEFINE ls == createSnapshotLockIfNeeded(locks, Len(log))
    <3>1. locks' = SnapshotterAdd(ls, Len(log), t)
      BY DEF Begin, appendedLSN
    <3>2. \A l \in DOMAIN locks : locks[l] \in Lock
      BY DEF TypeOK
    <3> HIDE DEF ls
    <3>3. /\ DOMAIN ls = DOMAIN locks \cup {Len(log)}
          /\ \A l \in DOMAIN ls : ls[l] \in Lock
          /\ \A l \in DOMAIN locks : ls[l] = locks[l]
          /\ Len(log) \notin DOMAIN locks => ls[Len(log)].applied = FALSE
      BY <3>2 DEF ls, createSnapshotLockIfNeeded, NewLock, Lock
    <3>4. /\ DOMAIN locks' = DOMAIN ls
          /\ \A l \in DOMAIN ls : l # Len(log) => locks'[l] = ls[l]
          /\ locks'[Len(log)] = [applied |-> ls[Len(log)].applied,
                                 snapshotters |-> ls[Len(log)].snapshotters \cup {t}]
      BY <3>1, <3>3 DEF SnapshotterAdd
    <3>5. /\ locks'[Len(log)] \in Lock
          /\ locks'[Len(log)].applied = ls[Len(log)].applied
          /\ locks'[Len(log)].snapshotters = ls[Len(log)].snapshotters \cup {t}
      BY SMTT(40), <3>3, <3>4 DEF Lock
    <3> QED
      BY <3>3, <3>4, <3>5
  <2>5. TypeOK'
    <3>2. committed' \in Seq(CommittedEntry)
      BY <2>1 DEF Begin, TypeOK, appendedLSN
    <3> QED
      BY <2>0, <2>3, <2>4, <3>2 DEF TypeOK
  <2>6. LSNInv'
    BY SMTT(40), <2>0, <2>2, <2>3 DEF LSNInv
  <2>7. Clean' <=> Clean
    BY <2>0 DEF Clean
  <2>8. LockInv'
    <3>1. storedLSN = Len(log) => Clean
      BY SMTT(40), <2>0 DEF RepositoryIsReplay, Clean
    <3> QED
      BY SMTT(40), <2>0, <2>2, <2>3, <2>4, <2>7, <3>1
         DEF LockInv, Snapshotting, LSNInv, Begin, TypeOK, Lock, Nothing
  <2>9. ApplyInv' /\ RepositoryIsReplay'
    BY ZenonT(40), <2>0, <2>7 DEF ApplyInv, RepositoryIsReplay
  <2>10. SnapshotIsolation'
    BY ZenonT(40), <2>0, <2>2, <2>3 DEF SnapshotIsolation
  <2> QED
    BY <2>5, <2>6, <2>8, <2>9, <2>10

\* A snapshotter whose LSN is applied starts copying a clean repository.
<1>StartSnapshotPreserves.
  ASSUME SnapshotInv, NEW t \in Txns, StartSnapshot(t)
  PROVE  SnapshotInv'
  <2> USE <1>StartSnapshotPreserves
  <2> DEFINE e == [tx[t] EXCEPT !.pc = "snapshotting"]
  <2>1. TypeOK /\ tx[t] \in Tx /\ LSNInv /\ LockInv /\ ApplyInv /\ RepositoryIsReplay /\ SnapshotIsolation
    BY DEF SnapshotInv, TypeOK
  <2>2. /\ e \in Tx /\ e.pc = "snapshotting"
        /\ e.lsn = tx[t].lsn /\ e.snapshot = tx[t].snapshot
    BY <2>1 DEF Tx
  <2>3. /\ tx' = [tx EXCEPT ![t] = e]
        /\ tx[t].pc = "begun" /\ locks[tx[t].lsn].applied
        /\ UNCHANGED <<log, repo, storedLSN, run, closing, current, todo, appliedLSN,
                       locks, committed, history, prepared, versions>>
    BY DEF StartSnapshot, durable
  <2> HIDE DEF e
  <2>4. tx' \in [Txns -> Tx] /\ tx'[t] = e /\ \A x \in Txns : x # t => tx'[x] = tx[x]
    BY ZenonT(40), <2>1, <2>2, <2>3, <1>SetTx
  <2>5. TypeOK'
    BY <2>1, <2>3, <2>4 DEF TypeOK
  <2>6. LSNInv' /\ ApplyInv' /\ RepositoryIsReplay' /\ (Clean' <=> Clean)
    <3>1. LSNInv'
      BY <2>1, <2>2, <2>3, <2>4 DEF LSNInv
    <3>2. Clean' <=> Clean
      BY <2>3 DEF Clean
    <3>3. ApplyInv'
      BY <2>1, <2>3, <3>2 DEF ApplyInv
    <3>4. RepositoryIsReplay'
      BY ZenonT(40), <2>1, <2>3 DEF RepositoryIsReplay
    <3> QED
      BY <3>1, <3>2, <3>3, <3>4
  <2>7. LockInv'
    <3>1. \A x \in Txns : /\ tx'[x].lsn = tx[x].lsn
                          /\ tx'[x].snapshot = tx[x].snapshot
                          /\ x # t => tx'[x].pc = tx[x].pc
                          /\ Snapshotting(x)' <=> Snapshotting(x)
      BY ZenonT(40), <2>2, <2>3, <2>4 DEF Snapshotting
    <3> QED
      BY ZenonT(40), <2>1, <2>2, <2>3, <2>4, <2>6, <3>1 DEF LockInv
  <2>8. SnapshotIsolation'
    <3>1. \A r \in Refs : tx[t].snapshot[r] = NoValue
      BY <2>1, <2>3 DEF LockInv
    <3>2. ASSUME NEW x \in Txns, x # t
          PROVE  tx'[x] = tx[x]
      BY <2>4, <3>2
    <3> QED
      BY SMTT(40), <2>1, <2>2, <2>3, <2>4, <3>1, <3>2 DEF SnapshotIsolation
  <2> QED
    BY <2>5, <2>6, <2>7, <2>8 DEF SnapshotInv

\* What is copied is the value as of the applied LSN, which is the snapshot's.
<1>CopyReferencePreserves.
  ASSUME SnapshotInv, NEW t \in Txns, NEW r \in Refs, CopyReference(t, r)
  PROVE  SnapshotInv'
  <2> USE <1>CopyReferencePreserves
  <2> DEFINE e == [tx[t] EXCEPT !.snapshot = [tx[t].snapshot EXCEPT ![r] = repo[r]]]
  <2>1. TypeOK /\ tx[t] \in Tx /\ LSNInv /\ LockInv /\ ApplyInv /\ RepositoryIsReplay /\ SnapshotIsolation
    BY DEF SnapshotInv, TypeOK
  <2>2. tx[t].snapshot \in [Refs -> MaybeValues] /\ repo[r] \in MaybeValues
    BY <2>1 DEF TypeOK, Tx, MaybeValues
  <2>3. /\ e \in Tx /\ e.pc = tx[t].pc /\ e.lsn = tx[t].lsn
        /\ e.snapshot = [tx[t].snapshot EXCEPT ![r] = repo[r]]
    BY <2>1, <2>2 DEF Tx
  <2>4. /\ tx' = [tx EXCEPT ![t] = e]
        /\ tx[t].pc = "snapshotting"
        /\ UNCHANGED <<log, repo, storedLSN, run, closing, current, todo, appliedLSN,
                       locks, committed, history, prepared, versions>>
    BY DEF CopyReference, durable
  <2> HIDE DEF e
  <2>5. tx' \in [Txns -> Tx] /\ tx'[t] = e /\ \A x \in Txns : x # t => tx'[x] = tx[x]
    BY ZenonT(40), <2>1, <2>3, <2>4, <1>SetTx
  <2>6. TypeOK'
    BY <2>1, <2>4, <2>5 DEF TypeOK
  <2>7. LSNInv' /\ ApplyInv' /\ RepositoryIsReplay' /\ (Clean' <=> Clean)
    BY ZenonT(40), <2>1, <2>3, <2>4, <2>5 DEF LSNInv, ApplyInv, RepositoryIsReplay, Clean
  <2>8. LockInv'
    BY ZenonT(40), <2>1, <2>3, <2>4, <2>5, <2>7 DEF LockInv, Snapshotting
  <2>9. SnapshotIsolation'
    <3>1. repo[r] = versions[tx[t].lsn + 1][r]
      <4>1. tx[t].lsn \in DOMAIN locks /\ locks[tx[t].lsn].applied /\ Clean
        BY <2>1, <2>4 DEF LockInv, Snapshotting
      <4>2. tx[t].lsn = appliedLSN /\ appliedLSN = storedLSN
        BY <2>1, <4>1 DEF LockInv, LSNInv
      <4> QED
        BY <4>1, <4>2 DEF Clean
    <3>2. \A q \in Refs : e.snapshot[q] \in {NoValue, versions[tx[t].lsn + 1][q]}
      BY <2>1, <2>2, <2>3, <2>4, <3>1 DEF SnapshotIsolation
    <3> QED
      BY ZenonT(40), <2>1, <2>3, <2>4, <2>5, <3>2 DEF SnapshotIsolation
  <2> QED
    BY <2>6, <2>7, <2>8, <2>9 DEF SnapshotInv

\* A snapshotter leaves its lock; the others stay in theirs.
<1>SnapshotterDoneProperties.
  ASSUME TypeOK, NEW t \in Txns, SnapshotterDone(t)
  PROVE  /\ DOMAIN locks' = DOMAIN locks
         /\ \A l \in DOMAIN locks :
              /\ locks'[l] \in Lock
              /\ locks'[l].applied = locks[l].applied
              /\ locks[l].snapshotters \ {t} \subseteq locks'[l].snapshotters
    BY <1>SnapshotterDoneProperties DEF SnapshotterDone, TypeOK, Lock

\* Begin returns, with the transaction or with an error.
<1>EndBeginPreserves.
  ASSUME FirstReadExists, SnapshotInv, NEW t \in Txns, Snapshotting(t),
         FinishBegin(t) \/ AbortBegin(t)
  PROVE  SnapshotInv'
  <2> USE <1>EndBeginPreserves
  <2>1. TypeOK /\ tx[t] \in Tx /\ LSNInv /\ LockInv /\ ApplyInv /\ RepositoryIsReplay /\ SnapshotIsolation
    BY DEF SnapshotInv, TypeOK
  <2>2. /\ SnapshotterDone(t)
        /\ UNCHANGED <<log, repo, storedLSN, run, closing, current, todo, appliedLSN,
                       prepared, versions>>
    BY DEF FinishBegin, AbortBegin, durable
  <2>3. \E e \in Tx :
          /\ tx' = [tx EXCEPT ![t] = e]
          /\ \/ e.pc = "idle" /\ e.lsn = 0
             \/ /\ e.pc = "open" /\ e.lsn = tx[t].lsn /\ e.snapshot = tx[t].snapshot
                /\ tx[t].pc = "snapshotting" /\ \A r \in Refs : tx[t].snapshot[r] # NoValue
    <3>1. CASE FinishBegin(t)
      <4> DEFINE e == [tx[t] EXCEPT !.pc = "open"]
      <4>1. e \in Tx /\ e.pc = "open" /\ e.lsn = tx[t].lsn /\ e.snapshot = tx[t].snapshot
        BY <2>1 DEF Tx
      <4>2. /\ tx' = [tx EXCEPT ![t] = e] /\ tx[t].pc = "snapshotting"
            /\ \A r \in Refs : tx[t].snapshot[r] # NoValue
        BY <3>1 DEF FinishBegin
      <4> HIDE DEF e
      <4> QED
        BY <4>1, <4>2
    <3>2. CASE AbortBegin(t)
      <4>1. IdleTx \in Tx /\ IdleTx.pc = "idle" /\ IdleTx.lsn = 0
        BY NothingType DEF IdleTx
      <4>2. tx' = [tx EXCEPT ![t] = IdleTx]
        BY <3>2 DEF AbortBegin
      <4> QED
        BY <4>1, <4>2
    <3> QED
      BY <3>1, <3>2
  <2>4. PICK e \in Tx :
          /\ tx' = [tx EXCEPT ![t] = e]
          /\ \/ e.pc = "idle" /\ e.lsn = 0
             \/ /\ e.pc = "open" /\ e.lsn = tx[t].lsn /\ e.snapshot = tx[t].snapshot
                /\ tx[t].pc = "snapshotting" /\ \A r \in Refs : tx[t].snapshot[r] # NoValue
    BY <2>3
  <2>5. tx' \in [Txns -> Tx] /\ tx'[t] = e /\ \A x \in Txns : x # t => tx'[x] = tx[x]
    BY ZenonT(40), <2>1, <2>4, <1>SetTx
  <2>6. /\ DOMAIN locks' = DOMAIN locks
        /\ \A l \in DOMAIN locks :
             /\ locks'[l] \in Lock
             /\ locks'[l].applied = locks[l].applied
             /\ locks[l].snapshotters \ {t} \subseteq locks'[l].snapshotters
    BY <2>1, <2>2, <1>SnapshotterDoneProperties
  <2>7. TypeOK'
    <3>1. committed' \in Seq(CommittedEntry) /\ history' \in History
      <4>1. CASE FinishBegin(t)
        BY <2>1, <4>1 DEF FinishBegin, TypeOK, History
      <4>2. CASE AbortBegin(t)
        BY ZenonT(40), <2>1, <4>2, <1>FinishType DEF AbortBegin
      <4> QED
        BY <4>1, <4>2
    <3> QED
      BY <2>1, <2>2, <2>5, <2>6, <3>1 DEF TypeOK, History
  <2>8. LSNInv' /\ ApplyInv' /\ RepositoryIsReplay' /\ (Clean' <=> Clean)
    <3>1. Len(log) \in Nat
      BY <2>1, LenProperties DEF TypeOK
    <3> QED
      BY SMTT(40), <2>1, <2>2, <2>4, <2>5, <3>1 DEF LSNInv, ApplyInv, RepositoryIsReplay, Clean
  <2>9. LockInv'
    <3>1. \A x \in Txns : Snapshotting(x)' => x # t /\ Snapshotting(x) /\ tx'[x] = tx[x]
      BY <2>4, <2>5 DEF Snapshotting
    <3>2. run # "down"
      <4>1. tx[t].lsn \in DOMAIN locks
        BY <2>1 DEF LockInv
      <4> QED
        BY ZenonT(40), <2>1, <4>1 DEF LockInv
    <3>3. /\ \A x \in Txns : (tx[x].pc = "begun")' => \A r \in Refs : tx'[x].snapshot[r] = NoValue
          /\ \A x \in Txns : Snapshotting(x)' =>
               /\ tx'[x].lsn \in DOMAIN locks'
               /\ x \in locks'[tx'[x].lsn].snapshotters
               /\ tx'[x].pc = "snapshotting" => locks'[tx'[x].lsn].applied
               /\ locks'[tx'[x].lsn].applied => Clean'
      BY ZenonT(40), <2>1, <2>4, <2>5, <2>6, <2>8, <3>1 DEF LockInv
    <3>4. \A l \in DOMAIN locks' :
            /\ run' # "down"
            /\ l >= appliedLSN'
            /\ run' = "applying" => l > appliedLSN'
            /\ locks'[l].applied => l = appliedLSN' /\ run' \notin {"applying", "stored"}
      BY ZenonT(40), <2>1, <2>2, <2>6 DEF LockInv
    <3> QED
      BY <2>1, <2>2, <2>6, <3>2, <3>3, <3>4 DEF LockInv, Processing
  <2>10. SnapshotIsolation'
    BY <2>1, <2>2, <2>4, <2>5 DEF SnapshotIsolation
  <2> QED
    BY <2>7, <2>8, <2>9, <2>10 DEF SnapshotInv

\* Commit offers the transaction for admission.
<1>CommitPreserves.
  ASSUME SnapshotInv, NEW t \in Txns, NEW u \in Updates, Commit(t, u)
  PROVE  SnapshotInv'
  <2> USE <1>CommitPreserves
  <2> DEFINE e == [tx[t] EXCEPT !.pc = "queued", !.update = u]
  <2>1. TypeOK /\ tx[t] \in Tx /\ u \in [Refs -> MaybeValues]
    BY DEF SnapshotInv, TypeOK, Updates
  <2>2. /\ e \in Tx /\ e.pc = "queued"
        /\ e.lsn = tx[t].lsn /\ e.snapshot = tx[t].snapshot
    BY <2>1 DEF Tx
  <2>3. /\ tx' = [tx EXCEPT ![t] = e]
        /\ tx[t].pc = "open"
        /\ UNCHANGED <<log, repo, storedLSN, run, closing, current, todo, appliedLSN,
                       locks, committed, history, prepared, versions>>
    BY DEF Commit, durable
  <2> HIDE DEF e
  <2>4. tx' \in [Txns -> Tx] /\ tx'[t] = e /\ \A x \in Txns : x # t => tx'[x] = tx[x]
    BY <2>1, <2>2, <2>3, <1>SetTx
  <2>5. TypeOK'
    BY <2>1, <2>3, <2>4 DEF TypeOK
  <2>6. run' \in Processing => current' \in Txns
    BY <2>3 DEF SnapshotInv, LSNInv
  <2>7. \A x \in Txns : /\ tx'[x].lsn = tx[x].lsn /\ tx'[x].snapshot = tx[x].snapshot
                        /\ \/ tx'[x].pc = tx[x].pc
                           \/ /\ tx[x].pc \in {"open", "queued", "admitted"}
                              /\ tx'[x].pc \in {"queued", "admitted", "returned"}
    BY <2>2, <2>3, <2>4
  <2> QED
    BY <2>3, <2>5, <2>6, <2>7, <1>FramePreserves

\* Rollback, and Commit returning before the admission.
<1>ReturnPreserves.
  ASSUME FirstReadExists, SnapshotInv, NEW t \in Txns, tx[t].pc \in {"open", "queued"}, Return(t)
  PROVE  SnapshotInv'
  <2> USE <1>ReturnPreserves
  <2>1. TypeOK /\ IdleTx \in Tx /\ IdleTx.pc = "idle" /\ IdleTx.lsn = 0
    BY NothingType DEF SnapshotInv, IdleTx
  <2>2. /\ tx' = [tx EXCEPT ![t] = IdleTx]
        /\ finish(t)
        /\ UNCHANGED <<log, repo, storedLSN, run, closing, current, todo, appliedLSN,
                       locks, prepared, versions>>
    BY DEF Return, durable
  <2>3. tx' \in [Txns -> Tx] /\ tx'[t] = IdleTx /\ \A x \in Txns : x # t => tx'[x] = tx[x]
    BY <2>1, <2>2, <1>SetTx
  <2>4. TypeOK'
    <3>1. committed' \in Seq(CommittedEntry) /\ history' \in History
      BY <2>1, <2>2, <1>FinishType
    <3> QED
      BY <2>1, <2>2, <2>3, <3>1 DEF TypeOK, History
  <2>5. run' \in Processing => current' \in Txns
    BY <2>2 DEF SnapshotInv, LSNInv
  <2>6. \A x \in Txns :
          \/ tx'[x].pc = "idle" /\ tx'[x].lsn = 0 /\ ~ Snapshotting(x)
          \/ tx'[x].lsn = tx[x].lsn /\ tx'[x].snapshot = tx[x].snapshot /\ tx'[x].pc = tx[x].pc
    BY <2>1, <2>3 DEF Snapshotting
  <2> QED
    BY <2>2, <2>4, <2>5, <2>6, <1>FramePreserves

\* Commit returning after the admission, with a result or without.
<1>ReturnAdmittedPreserves.
  ASSUME SnapshotInv, NEW t \in Txns, tx[t].pc = "admitted", ReturnAdmitted(t)
  PROVE  SnapshotInv'
  <2> USE <1>ReturnAdmittedPreserves
  <2> DEFINE e == IF current = t THEN [tx[t] EXCEPT !.pc = "returned"] ELSE IdleTx
  <2>1. TypeOK /\ tx[t] \in Tx /\ IdleTx \in Tx /\ IdleTx.pc = "idle" /\ IdleTx.lsn = 0
    BY NothingType DEF SnapshotInv, IdleTx, TypeOK
  <2>2. /\ e \in Tx
        /\ \/ e.pc = "idle" /\ e.lsn = 0
           \/ e.pc = "returned" /\ e.lsn = tx[t].lsn /\ e.snapshot = tx[t].snapshot
    <3>1. CASE current = t
      BY <2>1, <3>1 DEF Tx
    <3>2. CASE current # t
      BY <2>1, <3>2
    <3> QED
      BY <3>1, <3>2
  <2>3. /\ tx' = [tx EXCEPT ![t] = e]
        /\ UNCHANGED <<log, repo, storedLSN, run, closing, current, todo, appliedLSN,
                       locks, committed, history, prepared, versions>>
    BY DEF ReturnAdmitted, durable
  <2> HIDE DEF e
  <2>4. tx' \in [Txns -> Tx] /\ tx'[t] = e /\ \A x \in Txns : x # t => tx'[x] = tx[x]
    BY <2>1, <2>2, <2>3, <1>SetTx
  <2>5. TypeOK'
    BY <2>1, <2>3, <2>4 DEF TypeOK
  <2>6. run' \in Processing => current' \in Txns
    BY <2>3 DEF SnapshotInv, LSNInv
  <2>7. \A x \in Txns :
          \/ tx'[x].pc = "idle" /\ tx'[x].lsn = 0 /\ ~ Snapshotting(x)
          \/ /\ tx'[x].lsn = tx[x].lsn /\ tx'[x].snapshot = tx[x].snapshot
             /\ \/ tx'[x].pc = tx[x].pc
                \/ /\ tx[x].pc \in {"open", "queued", "admitted"}
                   /\ tx'[x].pc \in {"queued", "admitted", "returned"}
    BY <2>2, <2>4 DEF Snapshotting
  <2> QED
    BY <2>3, <2>5, <2>6, <2>7, <1>FramePreserves

\* Run receives a transaction, and stops if ctx is done.
<1>AdmitPreserves.
  ASSUME FirstReadExists, SnapshotInv, NEW t \in Txns, Admit(t) \/ AdmitWhileClosing(t)
  PROVE  SnapshotInv'
  <2> USE <1>AdmitPreserves
  <2> DEFINE e == [tx[t] EXCEPT !.pc = "admitted"]
  <2>1. TypeOK /\ tx[t] \in Tx
    BY DEF SnapshotInv, TypeOK
  <2>2. /\ e \in Tx /\ e.pc = "admitted"
        /\ e.lsn = tx[t].lsn /\ e.snapshot = tx[t].snapshot
    BY <2>1 DEF Tx
  <2>3. /\ tx' = [tx EXCEPT ![t] = e]
        /\ tx[t].pc = "queued"
        /\ run = "loop"
        /\ \/ run' = "admitted" /\ current' = t
           \/ run' = "exited" /\ current' = current
        /\ \/ committed' = committed /\ history' = history
           \/ finish(t)
        /\ UNCHANGED <<log, repo, storedLSN, closing, todo, appliedLSN, locks, prepared, versions>>
    <3>1. CASE Admit(t)
      <4>1. tx' = [tx EXCEPT ![t] = e]
        BY <3>1 DEF Admit
      <4>2. /\ tx[t].pc = "queued" /\ run = "loop"
            /\ run' = "admitted" /\ current' = t
            /\ UNCHANGED <<committed, history, log, repo, storedLSN, closing, todo,
                           appliedLSN, locks, prepared, versions>>
        BY <3>1 DEF Admit, durable
      <4> HIDE DEF e
      <4> QED
        BY <4>1, <4>2
    <3>2. CASE AdmitWhileClosing(t)
      BY <3>2 DEF AdmitWhileClosing, durable
    <3> QED
      BY <3>1, <3>2
  <2> HIDE DEF e
  <2>4. tx' \in [Txns -> Tx] /\ tx'[t] = e /\ \A x \in Txns : x # t => tx'[x] = tx[x]
    BY <2>1, <2>2, <2>3, <1>SetTx
  <2>5. TypeOK'
    <3>1. committed' \in Seq(CommittedEntry) /\ history' \in History
      <4>1. CASE finish(t)
        BY <2>1, <4>1, <1>FinishType
      <4>2. CASE committed' = committed /\ history' = history
        BY <2>1, <4>2 DEF TypeOK, History
      <4> QED
        BY <2>3, <4>1, <4>2
    <3>2. run' \in {"admitted", "exited"} /\ current' \in Txns \cup {NoTxn}
      BY <2>1, <2>3 DEF TypeOK
    <3> QED
      BY <2>1, <2>3, <2>4, <3>1, <3>2 DEF TypeOK, History
  <2>6. run' \in Processing => current' \in Txns
    BY <2>3 DEF Processing
  <2>7. \A x \in Txns : /\ tx'[x].lsn = tx[x].lsn /\ tx'[x].snapshot = tx[x].snapshot
                        /\ \/ tx'[x].pc = tx[x].pc
                           \/ /\ tx[x].pc \in {"open", "queued", "admitted"}
                              /\ tx'[x].pc \in {"queued", "admitted", "returned"}
    BY <2>2, <2>3, <2>4
  <2>8. \/ run' = "exited" /\ run # "down"
        \/ run \in Processing \cup {"loop"} /\ run' \in Processing \cup {"loop"}
    BY <2>3 DEF Processing
  <2> QED
    BY <2>3, <2>5, <2>6, <2>7, <2>8, <1>FramePreserves

\* The steps of processTransaction that leave the log and the locks alone.
<1>ProcessPreserves.
  ASSUME SnapshotInv,
         Prepare \/ RejectConflict \/ Reject \/ PushCommittedEntry \/ CommitPrepared
  PROVE  SnapshotInv'
  <2> USE <1>ProcessPreserves
  <2>1. TypeOK /\ run \in Processing /\ current \in Txns /\ tx[current] \in Tx
    BY DEF SnapshotInv, TypeOK, LSNInv, Processing, Prepare, RejectConflict, Reject,
           PushCommittedEntry, CommitPrepared
  <2>2. Len(log) \in LSNs
    BY SMTT(40), <2>1, LenProperties, ConstantsAssumption DEF TypeOK, LSNs
  <2>3. /\ run' \in Processing
        /\ UNCHANGED <<log, repo, storedLSN, closing, current, todo, appliedLSN, locks, versions>>
    BY DEF Prepare, RejectConflict, Reject, SendError, PushCommittedEntry, CommitPrepared,
           durable, Processing
  <2>4. \E e \in Tx : /\ tx' = [tx EXCEPT ![current] = e]
                      /\ e.pc = tx[current].pc /\ e.lsn = tx[current].lsn
                      /\ e.snapshot = tx[current].snapshot
    <3>1. CASE Prepare \/ PushCommittedEntry
      <4>1. tx' = [tx EXCEPT ![current] = tx[current]]
        BY <2>1, <3>1 DEF TypeOK, Prepare, PushCommittedEntry
      <4> QED
        BY <2>1, <4>1
    <3>2. CASE SendError
      <4> DEFINE e == [tx[current] EXCEPT !.result = "error"]
      <4>1. e \in Tx /\ e.pc = tx[current].pc /\ e.lsn = tx[current].lsn
                     /\ e.snapshot = tx[current].snapshot
        BY <2>1 DEF Tx
      <4>2. tx' = [tx EXCEPT ![current] = e]
        BY <3>2 DEF SendError
      <4> QED
        BY <4>1, <4>2
    <3>3. CASE CommitPrepared
      <4> DEFINE e == [tx[current] EXCEPT !.result = "ok", !.commitLSN = Len(log)]
      <4>1. e \in Tx /\ e.pc = tx[current].pc /\ e.lsn = tx[current].lsn
                     /\ e.snapshot = tx[current].snapshot
        BY <2>1, <2>2 DEF Tx
      <4>2. tx' = [tx EXCEPT ![current] = e]
        BY <3>3 DEF CommitPrepared, appendedLSN
      <4> QED
        BY <4>1, <4>2
    <3> QED
      BY <3>1, <3>2, <3>3 DEF RejectConflict, Reject
  <2>5. PICK e \in Tx : /\ tx' = [tx EXCEPT ![current] = e]
                        /\ e.pc = tx[current].pc /\ e.lsn = tx[current].lsn
                        /\ e.snapshot = tx[current].snapshot
    BY <2>4
  <2>6. /\ tx' \in [Txns -> Tx] /\ tx'[current] = e
        /\ \A x \in Txns : x # current => tx'[x] = tx[x]
    BY <2>1, <2>5, <1>SetTx
  <2>7. prepared' \in [Refs -> MaybeValues]
    <3>1. CASE Prepare
      <4>1. /\ history.root \in [Refs -> MaybeValues] /\ tx[current].update \in [Refs -> MaybeValues]
            /\ prepared' = Overlay(history.root, tx[current].update)
        BY <2>1, <3>1 DEF TypeOK, Tx, Prepare, History
      <4> QED
        BY <4>1 DEF Overlay
    <3>2. CASE SendError \/ CommitPrepared
      BY <3>2, NothingType DEF SendError, CommitPrepared
    <3>3. CASE PushCommittedEntry
      BY <2>1, <3>3 DEF TypeOK, PushCommittedEntry
    <3> QED
      BY <3>1, <3>2, <3>3 DEF RejectConflict, Reject
  <2>8. history' \in History
    <3>1. CASE CommitPrepared
      BY <2>1, <2>2, <3>1 DEF TypeOK, CommitPrepared, CommitUpdates, History, appendedLSN
    <3>2. CASE UNCHANGED history
      BY <2>1, <3>2 DEF TypeOK, History
    <3> QED
      BY <3>1, <3>2 DEF Prepare, RejectConflict, Reject, SendError, PushCommittedEntry
  <2>9. committed' \in Seq(CommittedEntry)
    <3>1. CASE PushCommittedEntry
      <4> DEFINE c == [lsn |-> Len(log), logged |-> TRUE, readers |-> {}]
      <4>1. c \in CommittedEntry /\ committed \in Seq(CommittedEntry)
        BY <2>1, <2>2 DEF CommittedEntry, TypeOK
      <4>2. committed' = Append(committed, c)
        BY <3>1 DEF PushCommittedEntry, appendedLSN
      <4> QED
        BY <4>1, <4>2, <1>AppendProperties
    <3>2. CASE UNCHANGED committed
      BY <2>1, <3>2 DEF TypeOK
    <3> QED
      BY <3>1, <3>2 DEF Prepare, RejectConflict, Reject, SendError, CommitPrepared
  <2>10. TypeOK'
    BY <2>1, <2>3, <2>6, <2>7, <2>8, <2>9 DEF TypeOK, History, Processing
  <2>11. \A x \in Txns : /\ tx'[x].lsn = tx[x].lsn /\ tx'[x].snapshot = tx[x].snapshot
                         /\ tx'[x].pc = tx[x].pc
    BY <2>5, <2>6
  <2> QED
    BY <2>1, <2>3, <2>10, <2>11, <1>FramePreserves

\* Appending an entry leaves the earlier versions alone.
<1>AppendPreserves.
  ASSUME SnapshotInv, AppendLogEntry
  PROVE  SnapshotInv'
  <2> USE <1>AppendPreserves
  <2> DEFINE entry == [update |-> tx[current].update, base |-> tx[current].lsn]
             version == Overlay(versions[Len(versions)], tx[current].update)
  <2>1. TypeOK /\ LSNInv /\ LockInv /\ ApplyInv /\ RepositoryIsReplay /\ SnapshotIsolation
    BY DEF SnapshotInv
  <2>2. /\ run = "prepared" /\ run' = "appended"
        /\ Len(log) < MaxLSN
        /\ log' = Append(log, entry)
        /\ versions' = Append(versions, version)
        /\ UNCHANGED <<repo, storedLSN, closing, current, todo, appliedLSN, locks,
                       committed, history, prepared, tx>>
    BY DEF AppendLogEntry, appendedLSN
  <2>3. current \in Txns /\ tx[current] \in Tx
    BY <2>1, <2>2 DEF LSNInv, Processing, TypeOK
  <2>4. entry \in Entry
    BY <2>3 DEF Tx, Entry
  <2>5. /\ log \in Seq(Entry) /\ Len(log) \in Nat
        /\ versions \in Seq([Refs -> Values]) /\ Len(versions) = Len(log) + 1
    BY <2>1, LenProperties DEF TypeOK
  <2>6. version \in [Refs -> Values]
    <3>1. versions[Len(versions)] \in [Refs -> Values]
      BY SMTT(40), <2>5, <1>ElementOfSeq
    <3>2. tx[current].update \in [Refs -> MaybeValues]
      BY <2>3 DEF Tx
    <3> QED
      BY <3>1, <3>2, <1>OverlayType
  <2>7. entry.update = tx[current].update
    OBVIOUS
  <2>8. version = Overlay(versions[Len(log) + 1], entry.update)
    BY <2>5, <2>7
  <2> HIDE DEF entry, version
  <2>9. /\ log' \in Seq(Entry) /\ Len(log') = Len(log) + 1
        /\ \A i \in 1..Len(log) : log'[i] = log[i]
        /\ log'[Len(log) + 1] = entry
    BY SMTT(40), <2>2, <2>4, <2>5, <1>AppendProperties
  <2>10. /\ versions' \in Seq([Refs -> Values]) /\ Len(versions') = Len(versions) + 1
         /\ \A i \in 1..Len(versions) : versions'[i] = versions[i]
         /\ versions'[Len(versions) + 1] = version
    BY SMTT(40), <2>2, <2>5, <2>6, <1>AppendProperties
  <2>11. storedLSN \in Nat /\ storedLSN <= Len(log)
    BY SMTT(40), <2>1, ConstantsAssumption DEF TypeOK, LSNInv, LSNs
  <2>12. TypeOK'
    <3>1. Len(log') <= MaxLSN
      BY SMTT(40), <2>2, <2>5, <2>9, ConstantsAssumption
    <3> QED
      BY <2>1, <2>2, <2>5, <2>9, <2>10, <3>1 DEF TypeOK
  <2>13. LSNInv'
    <3>1. \A l \in 1..Len(log') : versions'[l + 1] = Overlay(versions'[l], log'[l].update)
      <4>1. TAKE l \in 1..Len(log')
      <4>2. CASE l \in 1..Len(log)
        <5>1. l \in 1..Len(versions) /\ l + 1 \in 1..Len(versions)
          BY SMTT(40), <2>5, <4>2
        <5> QED
          BY <2>1, <2>9, <2>10, <4>2, <5>1 DEF LSNInv
      <4>3. CASE l = Len(log) + 1
        <5>1. l \in 1..Len(versions) /\ l + 1 = Len(versions) + 1
          BY SMTT(40), <2>5, <4>3
        <5> QED
          BY <2>8, <2>9, <2>10, <4>3, <5>1
      <4> QED
        BY SMTT(40), <2>5, <2>9, <4>2, <4>3
    <3>2. \A t \in Txns : tx[t].lsn <= Len(log')
      <4>1. \A t \in Txns : tx[t].lsn \in Nat
        BY SMTT(40), <2>1, ConstantsAssumption DEF TypeOK, Tx, LSNs
      <4> QED
        BY SMTT(40), <2>1, <2>5, <2>9, <4>1 DEF LSNInv
    <3> QED
      BY SMTT(40), <2>1, <2>2, <2>3, <2>5, <2>9, <2>11, <3>1, <3>2 DEF LSNInv
  <2>14. \A r \in Refs : versions'[storedLSN + 1][r] = versions[storedLSN + 1][r]
    BY SMTT(40), <2>5, <2>10, <2>11
  <2>15. Clean' <=> Clean
    BY <2>2, <2>14 DEF Clean
  <2>16. LockInv'
    BY <2>1, <2>2, <2>15 DEF LockInv, Snapshotting, Processing
  <2>17. ApplyInv' /\ RepositoryIsReplay'
    <3>1. storedLSN < Len(log) => storedLSN + 2 \in 1..Len(versions)
      BY SMTT(40), <2>5, <2>11
    <3>2. storedLSN < Len(log) => storedLSN < Len(log')
      BY SMTT(40), <2>5, <2>9, <2>11
    <3>3. ApplyInv'
      BY <2>2 DEF ApplyInv
    <3> QED
      BY <2>1, <2>2, <2>10, <2>14, <3>1, <3>2, <3>3 DEF RepositoryIsReplay
  <2>18. SnapshotIsolation'
    <3>1. \A t \in Txns : tx[t].lsn + 1 \in 1..Len(versions)
      BY SMTT(40), <2>1, <2>5, ConstantsAssumption DEF LSNInv, TypeOK, Tx, LSNs
    <3>2. \A t \in Txns : versions'[tx[t].lsn + 1] = versions[tx[t].lsn + 1]
      BY <2>10, <3>1
    <3> QED
      BY <2>1, <2>2, <3>2 DEF SnapshotIsolation
  <2> QED
    BY <2>12, <2>13, <2>16, <2>17, <2>18 DEF SnapshotInv

\* The deferred finish of the processed transaction.
<1>FinishAdmittedPreserves.
  ASSUME FirstReadExists, SnapshotInv, FinishAdmitted
  PROVE  SnapshotInv'
  <2> USE <1>FinishAdmittedPreserves
  <2> DEFINE e == IF tx[current].pc = "returned" THEN IdleTx ELSE tx[current]
  <2>1. /\ TypeOK /\ run = "finishing" /\ current \in Txns /\ tx[current] \in Tx
        /\ IdleTx \in Tx /\ IdleTx.pc = "idle" /\ IdleTx.lsn = 0
    BY NothingType DEF SnapshotInv, TypeOK, LSNInv, Processing, FinishAdmitted, IdleTx
  <2>2. e \in Tx
    BY <2>1
  <2>3. /\ tx' = [tx EXCEPT ![current] = e]
        /\ finish(current) /\ run' = "loop" /\ current' = NoTxn
        /\ UNCHANGED <<log, repo, storedLSN, closing, todo, appliedLSN, locks, prepared, versions>>
    BY DEF FinishAdmitted, durable
  <2>4. /\ tx' \in [Txns -> Tx] /\ tx'[current] = e
        /\ \A x \in Txns : x # current => tx'[x] = tx[x]
    BY <2>1, <2>2, <2>3, <1>SetTx
  <2>5. TypeOK'
    <3>1. committed' \in Seq(CommittedEntry) /\ history' \in History
      BY <2>1, <2>3, <1>FinishType
    <3> QED
      BY <2>1, <2>3, <2>4, <3>1 DEF TypeOK, History
  <2>6. \A x \in Txns :
          \/ tx'[x].pc = "idle" /\ tx'[x].lsn = 0 /\ ~ Snapshotting(x)
          \/ tx'[x].lsn = tx[x].lsn /\ tx'[x].snapshot = tx[x].snapshot /\ tx'[x].pc = tx[x].pc
    BY <2>1, <2>4 DEF Snapshotting
  <2>7. /\ run \in Processing \cup {"loop"} /\ run' \in Processing \cup {"loop"}
        /\ run' \in Processing => current' \in Txns
    BY <2>1, <2>3 DEF Processing
  <2> QED
    BY ZenonT(40), <2>3, <2>5, <2>6, <2>7, <1>FramePreserves

\* Run stops or fails, or the partition is closed.
<1>StopPreserves.
  ASSUME SnapshotInv, Close \/ RunStops \/ RunFails
  PROVE  SnapshotInv'
  <2> USE <1>StopPreserves
  <2>1. /\ \/ run' = run
           \/ run' = "exited" /\ run # "down"
        /\ closing' \in BOOLEAN
        /\ UNCHANGED <<log, repo, storedLSN, current, todo, appliedLSN, locks, committed,
                       history, prepared, tx, versions>>
    BY DEF Close, RunStops, RunFails, durable, SnapshotInv, TypeOK
  <2>2. TypeOK'
    BY <2>1 DEF SnapshotInv, TypeOK
  <2>3. run' \in Processing => current' \in Txns
    BY <2>1 DEF SnapshotInv, LSNInv, Processing
  <2> QED
    BY <2>1, <2>2, <2>3, <1>FramePreserves

\* The facts about LSNs and versions that the steps of applyLogEntry use.
<1>NextVersion.
  ASSUME SnapshotInv, storedLSN < Len(log), NEW r \in Refs
  PROVE  /\ storedLSN + 1 \in 1..Len(log)
         /\ log[storedLSN + 1].update \in [Refs -> MaybeValues]
         /\ versions[storedLSN + 2][r] =
              IF log[storedLSN + 1].update[r] = NoValue
                THEN versions[storedLSN + 1][r]
                ELSE log[storedLSN + 1].update[r]
  <2> USE <1>NextVersion
  <2>1. storedLSN \in Nat /\ Len(log) \in Nat /\ log \in Seq(Entry)
    BY SMTT(40), LenProperties, ConstantsAssumption DEF SnapshotInv, TypeOK, LSNs
  <2>2. storedLSN + 1 \in 1..Len(log) /\ (storedLSN + 1) + 1 = storedLSN + 2
    BY SMTT(40), <2>1
  <2>3. log[storedLSN + 1] \in Entry
    BY <2>1, <2>2, <1>ElementOfSeq
  <2>4. versions[storedLSN + 2] = Overlay(versions[storedLSN + 1], log[storedLSN + 1].update)
    <3>1. \A l \in 1..Len(log) : versions[l + 1] = Overlay(versions[l], log[l].update)
      BY DEF SnapshotInv, LSNInv
    <3>2. versions[(storedLSN + 1) + 1] = Overlay(versions[storedLSN + 1], log[storedLSN + 1].update)
      BY <2>2, <3>1
    <3> QED
      BY <2>2, <3>2
  <2> QED
    BY <2>2, <2>3, <2>4 DEF Overlay, Entry

\* No snapshotter is left at the applied LSN when its lock is dropped.
<1>StartApplyPreserves.
  ASSUME SnapshotInv, StartApply
  PROVE  SnapshotInv'
  <2> USE <1>StartApplyPreserves
  <2>1. TypeOK /\ LSNInv /\ LockInv /\ ApplyInv /\ RepositoryIsReplay /\ SnapshotIsolation
    BY DEF SnapshotInv
  <2>2. /\ run = "loop" /\ run' = "applying"
        /\ appliedLSN < Len(log) /\ appliedLSN = storedLSN
        /\ locks[appliedLSN].snapshotters = {}
        /\ locks' = [l \in DOMAIN locks \ {appliedLSN} |-> locks[l]]
        /\ todo' = Updated(log[storedLSN + 1].update)
        /\ UNCHANGED <<log, repo, storedLSN, closing, current, appliedLSN, committed,
                       history, prepared, tx, versions>>
    BY <2>1 DEF StartApply, appendedLSN, durable, LSNInv
  <2>3. TypeOK'
    <3>1. todo' \in SUBSET Refs
      BY <2>2 DEF Updated
    <3> QED
      BY <2>1, <2>2, <3>1 DEF TypeOK
  <2>4. LSNInv' /\ RepositoryIsReplay' /\ SnapshotIsolation' /\ (Clean' <=> Clean)
    BY <2>1, <2>2 DEF LSNInv, RepositoryIsReplay, SnapshotIsolation, Clean, Processing
  <2>5. ApplyInv'
    <3>1. SUFFICES ASSUME NEW r \in Refs
                   PROVE  /\ r \in todo' => log[storedLSN + 1].update[r] # NoValue
                          /\ r \notin todo' => repo[r] = versions[storedLSN + 2][r]
      BY <2>2 DEF ApplyInv
    <3>2. versions[storedLSN + 2][r] =
            IF log[storedLSN + 1].update[r] = NoValue
              THEN versions[storedLSN + 1][r]
              ELSE log[storedLSN + 1].update[r]
      BY <2>2, <1>NextVersion
    <3> QED
      BY <2>1, <2>2, <3>2 DEF ApplyInv, RepositoryIsReplay, Updated
  <2>6. LockInv'
    <3>1. \A t \in Txns : Snapshotting(t) => tx[t].lsn # appliedLSN
      BY <2>1, <2>2 DEF LockInv
    <3>2. \A l \in DOMAIN locks' : l \in DOMAIN locks /\ l # appliedLSN /\ locks'[l] = locks[l]
      BY <2>2
    <3>3. \A t \in Txns : Snapshotting(t) => tx[t].lsn \in DOMAIN locks'
      BY <2>1, <2>2, <3>1 DEF LockInv
    <3>4. \A l \in DOMAIN locks : l \in Nat /\ appliedLSN \in Nat
      BY SMTT(40), <2>1, ConstantsAssumption DEF TypeOK, LSNs
    <3>5. \A l \in DOMAIN locks' :
            /\ run' # "down"
            /\ l >= appliedLSN'
            /\ run' = "applying" => l > appliedLSN'
            /\ locks'[l].applied => l = appliedLSN' /\ run' \notin {"applying", "stored"}
      BY SMTT(40), <2>1, <2>2, <3>2, <3>4 DEF LockInv
    <3>6. \A t \in Txns : Snapshotting(t)' <=> Snapshotting(t)
      BY <2>2 DEF Snapshotting
    <3> QED
      BY ZenonT(40), <2>1, <2>2, <2>4, <3>2, <3>3, <3>5, <3>6 DEF LockInv, Processing
  <2> QED
    BY <2>3, <2>4, <2>5, <2>6 DEF SnapshotInv

\* One reference of the entry is written while nobody copies the repository.
<1>ApplyOperationPreserves.
  ASSUME SnapshotInv, NEW r \in Refs, ApplyOperation(r)
  PROVE  SnapshotInv'
  <2> USE <1>ApplyOperationPreserves
  <2>1. TypeOK /\ LSNInv /\ LockInv /\ ApplyInv /\ RepositoryIsReplay /\ SnapshotIsolation
    BY DEF SnapshotInv
  <2>2. /\ run = "applying" /\ appliedLSN = storedLSN /\ storedLSN < Len(log)
        /\ r \in todo
        /\ repo' = [repo EXCEPT ![r] = log[storedLSN + 1].update[r]]
        /\ todo' = todo \ {r}
        /\ UNCHANGED <<log, storedLSN, run, closing, current, appliedLSN, locks,
                       committed, history, prepared, tx, versions>>
    BY <2>1 DEF ApplyOperation, LSNInv
  <2>3. /\ log[storedLSN + 1].update[r] # NoValue
        /\ log[storedLSN + 1].update[r] \in Values
        /\ versions[storedLSN + 2][r] = log[storedLSN + 1].update[r]
    BY <2>1, <2>2, <1>NextVersion DEF ApplyInv, MaybeValues
  <2>4. /\ repo' \in [Refs -> Values]
        /\ repo'[r] = versions[storedLSN + 2][r]
        /\ \A q \in Refs : q # r => repo'[q] = repo[q]
    BY <2>1, <2>2, <2>3 DEF TypeOK
  <2>5. TypeOK'
    BY <2>1, <2>2, <2>4 DEF TypeOK
  <2>6. LSNInv' /\ SnapshotIsolation' /\ RepositoryIsReplay' /\ ApplyInv'
    BY ZenonT(40), <2>1, <2>2, <2>4 DEF LSNInv, SnapshotIsolation, RepositoryIsReplay, ApplyInv
  <2>7. LockInv'
    <3>1. \A l \in DOMAIN locks : ~ locks[l].applied
      BY <2>1, <2>2 DEF LockInv
    <3>2. \A t \in Txns : Snapshotting(t)' <=> Snapshotting(t)
      BY <2>2 DEF Snapshotting
    <3>3. \A t \in Txns : Snapshotting(t) =>
            /\ tx[t].lsn \in DOMAIN locks /\ t \in locks[tx[t].lsn].snapshotters
            /\ tx[t].pc # "snapshotting" /\ ~ locks[tx[t].lsn].applied
      BY <2>1, <3>1 DEF LockInv
    <3>4. run' \notin Processing \cup {"loop"} /\ run' # "down"
      BY <2>2 DEF Processing
    <3> QED
      BY ZenonT(40), <2>1, <2>2, <3>1, <3>2, <3>3, <3>4 DEF LockInv
  <2> QED
    BY <2>5, <2>6, <2>7 DEF SnapshotInv

\* The entry is applied: the repository is clean at the next LSN.
<1>StoreAppliedPreserves.
  ASSUME SnapshotInv, storeAppliedLSN
  PROVE  SnapshotInv'
  <2> USE <1>StoreAppliedPreserves
  <2>1. TypeOK /\ LSNInv /\ LockInv /\ ApplyInv /\ RepositoryIsReplay /\ SnapshotIsolation
    BY DEF SnapshotInv
  <2>2. /\ run = "applying" /\ run' = "stored"
        /\ appliedLSN = storedLSN /\ storedLSN < Len(log) /\ todo = {}
        /\ storedLSN' = storedLSN + 1 /\ appliedLSN' = storedLSN + 1
        /\ UNCHANGED <<log, repo, closing, current, todo, locks, committed, history,
                       prepared, tx, versions>>
    BY <2>1 DEF storeAppliedLSN, LSNInv
  <2>3. /\ storedLSN \in Nat /\ Len(log) \in Nat /\ Len(log) <= MaxLSN
        /\ storedLSN' + 1 = storedLSN + 2
    BY SMTT(40), <2>1, <2>2, LenProperties, ConstantsAssumption DEF TypeOK, LSNs
  <2>4. TypeOK'
    <3>1. storedLSN' \in LSNs /\ appliedLSN' \in LSNs
      BY SMTT(40), <2>2, <2>3, ConstantsAssumption DEF LSNs
    <3> QED
      BY <2>1, <2>2, <3>1 DEF TypeOK
  <2>5. LSNInv'
    <3>1. storedLSN' <= Len(log)
      BY SMTT(40), <2>2, <2>3
    <3> QED
      BY <2>1, <2>2, <3>1 DEF LSNInv, Processing
  <2>6. Clean'
    BY <2>1, <2>2, <2>3 DEF Clean, ApplyInv
  <2>7. ApplyInv'
    BY <2>2, <2>6 DEF ApplyInv
  <2>r. RepositoryIsReplay'
    BY <2>2, <2>6 DEF RepositoryIsReplay, Clean
  <2>8. LockInv'
    <3>1. \A l \in DOMAIN locks : l \in Nat /\ l > storedLSN /\ ~ locks[l].applied
      BY SMTT(40), <2>1, <2>2, ConstantsAssumption DEF LockInv, TypeOK, LSNs
    <3>2. \A l \in DOMAIN locks : l >= storedLSN + 1
      BY SMTT(40), <2>3, <3>1
    <3> QED
      BY ZenonT(40), <2>1, <2>2, <2>6, <3>1, <3>2 DEF LockInv, Snapshotting, Processing
  <2>9. SnapshotIsolation'
    BY <2>1, <2>2 DEF SnapshotIsolation
  <2> QED
    BY <2>4, <2>5, <2>7, <2>r, <2>8, <2>9 DEF SnapshotInv

\* The lock of the applied LSN is opened for the snapshotters waiting on it.
<1>NotifyAppliedPreserves.
  ASSUME SnapshotInv, NotifyApplied
  PROVE  SnapshotInv'
  <2> USE <1>NotifyAppliedPreserves
  <2> DEFINE ls == createSnapshotLockIfNeeded(locks, appliedLSN)
  <2>1. TypeOK /\ LSNInv /\ LockInv /\ ApplyInv /\ RepositoryIsReplay /\ SnapshotIsolation
    BY DEF SnapshotInv
  <2>2. /\ run = "stored" /\ run' = "loop" /\ appliedLSN = storedLSN /\ Clean
        /\ locks' = [ls EXCEPT ![appliedLSN] =
                       [applied |-> TRUE, snapshotters |-> ls[appliedLSN].snapshotters]]
        /\ UNCHANGED <<log, repo, storedLSN, closing, current, todo, appliedLSN, committed,
                       history, prepared, tx, versions>>
    BY <2>1 DEF NotifyApplied, durable, LSNInv, ApplyInv
  <2>3. \A l \in DOMAIN locks : locks[l] \in Lock
    BY <2>1 DEF TypeOK
  <2> HIDE DEF ls
  <2>4. /\ DOMAIN ls = DOMAIN locks \cup {appliedLSN}
        /\ \A l \in DOMAIN ls : ls[l] \in Lock
        /\ \A l \in DOMAIN locks : ls[l] = locks[l]
    BY <2>3 DEF ls, createSnapshotLockIfNeeded, NewLock, Lock
  <2>5. /\ DOMAIN locks' = DOMAIN locks \cup {appliedLSN}
        /\ locks'[appliedLSN] = [applied |-> TRUE, snapshotters |-> ls[appliedLSN].snapshotters]
        /\ \A l \in DOMAIN locks : l # appliedLSN => locks'[l] = locks[l]
    BY ZenonT(40), <2>2, <2>4
  <2>6. /\ locks'[appliedLSN] \in Lock /\ locks'[appliedLSN].applied
        /\ appliedLSN \in DOMAIN locks =>
             locks'[appliedLSN].snapshotters = locks[appliedLSN].snapshotters
    BY SMTT(40), <2>4, <2>5 DEF Lock
  <2>7. TypeOK'
    BY <2>1, <2>2, <2>3, <2>5, <2>6 DEF TypeOK
  <2>8. LSNInv' /\ ApplyInv' /\ RepositoryIsReplay' /\ SnapshotIsolation' /\ Clean'
    <3>1. LSNInv'
      BY <2>1, <2>2 DEF LSNInv, Processing
    <3>2. Clean' /\ ApplyInv'
      BY <2>1, <2>2 DEF ApplyInv, Clean
    <3>3. RepositoryIsReplay'
      BY <2>1, <2>2 DEF RepositoryIsReplay
    <3>4. SnapshotIsolation'
      BY ZenonT(40), <2>1, <2>2 DEF SnapshotIsolation
    <3> QED
      BY <3>1, <3>2, <3>3, <3>4
  <2>9. LockInv'
    <3>1. \A t \in Txns : Snapshotting(t)' =>
            /\ tx'[t].lsn \in DOMAIN locks'
            /\ t \in locks'[tx'[t].lsn].snapshotters
            /\ tx'[t].pc = "snapshotting" => locks'[tx'[t].lsn].applied
            /\ locks'[tx'[t].lsn].applied => Clean'
      BY SMTT(40), <2>1, <2>2, <2>5, <2>6, <2>8 DEF LockInv, Snapshotting
    <3>2. appliedLSN \in Nat
      BY SMTT(40), <2>1, ConstantsAssumption DEF TypeOK, LSNs
    <3>3. \A l \in DOMAIN locks' : /\ l >= appliedLSN
                                   /\ locks'[l].applied => l = appliedLSN
      BY SMTT(40), <2>1, <2>2, <2>5, <3>2 DEF LockInv
    <3> QED
      BY SMTT(40), <2>1, <2>2, <2>5, <2>6, <3>1, <3>3 DEF LockInv, Processing
  <2> QED
    BY <2>7, <2>8, <2>9 DEF SnapshotInv

\* After a crash nobody holds a snapshot; the repository may be between two
\* versions.
<1>CrashPreserves.
  ASSUME SnapshotInv, Crash
  PROVE  SnapshotInv'
  <2> USE <1>CrashPreserves
  <2>1. TypeOK /\ LSNInv /\ RepositoryIsReplay
    BY DEF SnapshotInv
  <2>2. /\ run' = "down" /\ closing' = FALSE /\ current' = NoTxn /\ todo' = {}
        /\ appliedLSN' = 0 /\ locks' = << >> /\ committed' = << >>
        /\ history' = EmptyHistory /\ prepared' = Nothing
        /\ tx' = [t \in Txns |-> IdleTx]
        /\ UNCHANGED <<log, repo, storedLSN, versions>>
    BY DEF Crash, durable
  <2>3. \A t \in Txns : tx'[t].pc = "idle" /\ tx'[t].lsn = 0
    BY <2>2 DEF IdleTx
  <2>4. DOMAIN locks' = {}
    BY SMTT(40), <2>2
  <2>5. TypeOK'
    <3>1. tx' \in [Txns -> Tx]
      BY <2>2, NothingType
    <3>2. appliedLSN' \in LSNs
      BY SMTT(40), <2>2, ConstantsAssumption DEF LSNs
    <3>3. committed' \in Seq(CommittedEntry)
      BY <2>2, EmptySeq
    <3> QED
      BY <2>1, <2>2, <2>4, <3>1, <3>2, <3>3, NothingType DEF TypeOK, History
  <2>6. LSNInv'
    <3>1. Len(log) \in Nat
      BY <2>1, LenProperties DEF TypeOK
    <3>2. \A t \in Txns : tx'[t].lsn <= Len(log)
      BY SMTT(40), <2>3, <3>1
    <3>3. /\ storedLSN <= Len(log)
          /\ \A l \in 1..Len(log) : versions[l + 1] = Overlay(versions[l], log[l].update)
      BY <2>1 DEF LSNInv
    <3>4. run' # "applying" /\ run' \notin Processing /\ run' = "down"
      BY <2>2 DEF Processing
    <3>5. log' = log /\ versions' = versions /\ storedLSN' = storedLSN
      BY <2>2
    <3>6. \A l \in 1..Len(log') : versions'[l + 1] = Overlay(versions'[l], log'[l].update)
      BY <3>3, <3>5
    <3> QED
      BY <3>2, <3>3, <3>4, <3>5, <3>6 DEF LSNInv
  <2>7. LockInv' /\ SnapshotIsolation'
    BY ZenonT(40), <2>2, <2>3, <2>4 DEF LockInv, SnapshotIsolation, Snapshotting, Processing
  <2>8. ApplyInv' /\ RepositoryIsReplay'
    BY <2>1, <2>2 DEF ApplyInv, RepositoryIsReplay
  <2> QED
    BY <2>5, <2>6, <2>7, <2>8 DEF SnapshotInv

\* Initialization recovers the locks; the repository may still be between two
\* versions, but no transaction can hold the lock of the stored LSN then.
<1>InitializePreserves.
  ASSUME SnapshotInv, Initialize
  PROVE  SnapshotInv'
  <2> USE <1>InitializePreserves
  <2>1. TypeOK /\ LSNInv /\ LockInv /\ ApplyInv /\ RepositoryIsReplay /\ SnapshotIsolation
    BY DEF SnapshotInv
  <2>2. /\ run = "down" /\ run' = "loop" /\ appliedLSN' = storedLSN
        /\ locks' = [l \in storedLSN..Len(log) |-> [applied |-> l = storedLSN, snapshotters |-> {}]]
        /\ UNCHANGED <<log, repo, storedLSN, closing, current, todo, committed, history,
                       prepared, tx, versions>>
    BY DEF Initialize, durable, appendedLSN
  <2>3. /\ storedLSN \in Nat /\ Len(log) \in Nat /\ Len(log) <= MaxLSN
        /\ storedLSN <= Len(log)
    BY SMTT(40), <2>1, LenProperties, ConstantsAssumption DEF TypeOK, LSNs, LSNInv
  <2>4. /\ DOMAIN locks' = storedLSN..Len(log)
        /\ storedLSN \in DOMAIN locks'
        /\ \A l \in DOMAIN locks' : /\ l \in LSNs /\ l >= storedLSN
                                    /\ locks'[l] \in Lock
                                    /\ locks'[l].applied <=> l = storedLSN
    <3>1. DOMAIN locks' = storedLSN..Len(log) /\ storedLSN \in DOMAIN locks'
      BY SMTT(40), <2>2, <2>3
    <3>2. \A l \in DOMAIN locks' : l \in LSNs /\ l >= storedLSN
      BY SMTT(40), <2>3, <3>1, ConstantsAssumption DEF LSNs
    <3>3. \A l \in DOMAIN locks' : locks'[l] = [applied |-> l = storedLSN, snapshotters |-> {}]
      BY <2>2, <3>1
    <3>4. \A l \in DOMAIN locks' : /\ locks'[l] \in Lock
                                   /\ locks'[l].applied <=> l = storedLSN
      <4>1. TAKE l \in DOMAIN locks'
      <4>2. CASE l = storedLSN
        <5>1. locks'[l] = [applied |-> TRUE, snapshotters |-> {}]
          BY <3>3, <4>2
        <5> QED
          BY SMTT(40), <4>2, <5>1 DEF Lock
      <4>3. CASE l # storedLSN
        <5>1. locks'[l] = [applied |-> FALSE, snapshotters |-> {}]
          <6>1. (l = storedLSN) = FALSE
            BY <4>3
          <6> QED
            BY <3>3, <6>1
        <5> QED
          BY SMTT(40), <4>3, <5>1 DEF Lock
      <4> QED
        BY <4>2, <4>3
    <3> QED
      BY <3>1, <3>2, <3>4
  <2>5. TypeOK'
    BY <2>1, <2>2, <2>4 DEF TypeOK
  <2>6. LSNInv' /\ ApplyInv' /\ RepositoryIsReplay' /\ SnapshotIsolation'
    BY ZenonT(40), <2>1, <2>2 DEF LSNInv, ApplyInv, RepositoryIsReplay, SnapshotIsolation, Processing
  <2>7. LockInv'
    <3>1. \A t \in Txns : tx'[t].pc = "idle"
      BY <2>1, <2>2 DEF LockInv
    <3>2. run' # "down" /\ run' \notin {"applying", "stored"}
      BY <2>2
    <3>3. \A t \in Txns : tx'[t].pc # "begun" /\ ~Snapshotting(t)'
      BY <3>1 DEF Snapshotting
    <3>4. \A l \in DOMAIN locks' :
            /\ l >= appliedLSN'
            /\ locks'[l].applied => l = appliedLSN'
      BY <2>2, <2>4
    <3>5. appliedLSN' \in DOMAIN locks' /\ locks'[appliedLSN'].applied
      BY <2>2, <2>4
    <3> QED
      BY <3>2, <3>3, <3>4, <3>5 DEF LockInv
  <2> QED
    BY <2>5, <2>6, <2>7 DEF SnapshotInv

\* One step for every action.
<1>1. CASE RunStep
  <2>1. ASSUME NEW t \in Txns, Admit(t) \/ AdmitWhileClosing(t) PROVE SnapshotInv'
    BY <2>1, <1>AdmitPreserves
  <2>2. CASE Prepare \/ RejectConflict \/ Reject \/ PushCommittedEntry \/ CommitPrepared
    BY <2>2, <1>ProcessPreserves
  <2>3. CASE AppendLogEntry
    BY <2>3, <1>AppendPreserves
  <2>4. CASE FinishAdmitted
    BY <2>4, <1>FinishAdmittedPreserves
  <2>5. CASE StartApply
    BY <2>5, <1>StartApplyPreserves
  <2>6. ASSUME NEW r \in Refs, ApplyOperation(r) PROVE SnapshotInv'
    BY <2>6, <1>ApplyOperationPreserves
  <2>7. CASE storeAppliedLSN
    BY <2>7, <1>StoreAppliedPreserves
  <2>8. CASE NotifyApplied
    BY <2>8, <1>NotifyAppliedPreserves
  <2>9. CASE RunStops
    BY <2>9, <1>StopPreserves
  <2> QED
    BY <1>1, <2>1, <2>2, <2>3, <2>4, <2>5, <2>6, <2>7, <2>8, <2>9 DEF RunStep
<1>2. ASSUME NEW t \in Txns, ClientStep(t) PROVE SnapshotInv'
  <2>1. ASSUME NEW write \in BOOLEAN, Begin(t, write) PROVE SnapshotInv'
    BY <2>1, <1>BeginPreserves
  <2>2. CASE StartSnapshot(t)
    BY <2>2, <1>StartSnapshotPreserves
  <2>3. ASSUME NEW r \in Refs, CopyReference(t, r) PROVE SnapshotInv'
    BY <2>3, <1>CopyReferencePreserves
  <2>4. CASE FinishBegin(t) \/ BeginCancelled(t) \/ BeginStopped(t)
    <3>1. Snapshotting(t) /\ (FinishBegin(t) \/ AbortBegin(t))
      BY <2>4 DEF FinishBegin, BeginCancelled, BeginStopped, Snapshotting
    <3> QED
      BY <3>1, <1>EndBeginPreserves
  <2>5. CASE Rollback(t) \/ CommitCancelled(t) \/ CommitStopped(t)
    <3>1. tx[t].pc \in {"open", "queued"} /\ Return(t)
      BY <2>5 DEF Rollback, CommitCancelled, CommitStopped
    <3> QED
      BY <3>1, <1>ReturnPreserves
  <2>6. ASSUME NEW u \in Updates, Commit(t, u) PROVE SnapshotInv'
    BY <2>6, <1>CommitPreserves
  <2>7. CASE ReceiveResult(t) \/ AbandonResult(t)
    <3>1. tx[t].pc = "admitted" /\ ReturnAdmitted(t)
      BY <2>7 DEF ReceiveResult, AbandonResult
    <3> QED
      BY <3>1, <1>ReturnAdmittedPreserves
  <2> QED
    BY <1>2, <2>1, <2>2, <2>3, <2>4, <2>5, <2>6, <2>7 DEF ClientStep, SnapshotStep
<1>3. CASE Close \/ RunFails
  BY <1>3, <1>StopPreserves
<1>4. CASE Crash
  BY <1>4, <1>CrashPreserves
<1>5. CASE Initialize
  BY <1>5, <1>InitializePreserves
<1>6. CASE UNCHANGED vars
  <2>1. TypeOK'
    BY <1>6 DEF vars, SnapshotInv, TypeOK
  <2>2. run' \in Processing => current' \in Txns
    BY <1>6 DEF vars, SnapshotInv, LSNInv
  <2>3. UNCHANGED <<log, repo, storedLSN, versions, todo, appliedLSN, locks, run, tx>>
    BY <1>6 DEF vars
  <2> QED
    BY <2>1, <2>2, <2>3, <1>FramePreserves
<1> QED
  BY <1>1, <1>2, <1>3, <1>4, <1>5, <1>6 DEF Next

-----------------------------------------------------------------------------
(* Why every step preserves CommitInv.                                     *)

\* What the type invariant says of the parts the conflict check reads.
LEMMA CommitTypes ==
  ASSUME SnapshotInv
  PROVE  /\ Len(log) \in Nat /\ Len(versions) = Len(log) + 1
         /\ \A k \in 0..Len(log) : versions[k + 1] \in [Refs -> Values]
         /\ committed \in Seq(CommittedEntry) /\ Len(committed) \in Nat
         /\ DOMAIN committed = 1..Len(committed)
         /\ \A i \in DOMAIN committed : committed[i] \in CommittedEntry /\ committed[i].lsn \in Nat
         /\ tx \in [Txns -> Tx]
         /\ \A t \in Txns : tx[t].lsn \in Nat /\ tx[t].entry \in Nat /\ tx[t].lsn <= Len(log)
         /\ history \in History /\ prepared \in [Refs -> MaybeValues]
<1>1. TypeOK /\ LSNInv
  BY DEF SnapshotInv
<1>2. LSNs \subseteq Nat
  BY SMTT(40), ConstantsAssumption DEF LSNs
<1>3. /\ Len(log) \in Nat /\ Len(versions) = Len(log) + 1 /\ Len(committed) \in Nat
      /\ DOMAIN committed = 1..Len(committed)
  BY SMTT(40), <1>1 DEF TypeOK
<1>4. \A k \in 0..Len(log) : versions[k + 1] \in [Refs -> Values]
  BY SMTT(40), <1>1, <1>3 DEF TypeOK
<1>5. \A i \in DOMAIN committed : committed[i] \in CommittedEntry /\ committed[i].lsn \in Nat
  <2>1. \A i \in DOMAIN committed : committed[i] \in CommittedEntry
    BY SMTT(40), <1>1, <1>3 DEF TypeOK
  <2> QED
    BY <1>2, <2>1 DEF CommittedEntry
<1>6. tx \in [Txns -> Tx]
  BY <1>1 DEF TypeOK
<1>7. \A t \in Txns : tx[t].lsn \in Nat /\ tx[t].entry \in Nat /\ tx[t].lsn <= Len(log)
  BY <1>1, <1>2, <1>6 DEF Tx, LSNInv
<1> QED
  BY <1>1, <1>3, <1>4, <1>5, <1>6, <1>7 DEF TypeOK, History

\* The history agrees with the log where it knows a reference.
LEMMA HistoryAgrees ==
  ASSUME CommitInv
  PROVE  \A r \in Refs : history.root[r] # NoValue => versions[HistoryLSN + 1][r] = history.root[r]
<1>1. HistoryLSN \in HistorySnapshots
  BY DEF HistorySnapshots
<1> QED
  BY <1>1 DEF CommitInv, HistoryInv

\* Every step preserves CommitInv, the invariant of the conflict check, given that
\* it preserves SnapshotInv.
LEMMA CommitPreserved ==
  ASSUME FirstReadExists, CommitInv, [Next]_vars
  PROVE  CommitInv'

\* Steps that leave the log, the committed entries and the history alone, and
\* register nobody, preserve what CommitInv says of them.
<1>Retained.
  ASSUME CommitInv, SnapshotInv', QueuedInv',
         UNCHANGED <<log, versions, committed, history>>,
         PushedLSN' = PushedLSN, HistoryLSN' = HistoryLSN,
         \A t \in Txns : Registered(t)' =>
           Registered(t) /\ tx'[t].lsn = tx[t].lsn /\ tx'[t].entry = tx[t].entry,
         CurrentInv', PreparedInv'
  PROVE  CommitInv'
  <2> USE <1>Retained
  <2>1. EntriesInv'
    BY DEF CommitInv, EntriesInv
  <2>2. ReadersInv'
    BY DEF CommitInv, ReadersInv
  <2>3. HistorySnapshots' \subseteq HistorySnapshots
    BY DEF HistorySnapshots
  <2>4. HistoryInv'
    BY <2>3 DEF CommitInv, HistoryInv
  <2>5. (\A l \in 1..Len(log) : log[l].base < l)' /\ NoLostUpdate'
    BY DEF CommitInv, NoLostUpdate
  <2> QED
    BY <2>1, <2>2, <2>4, <2>5 DEF CommitInv

\* A step of one client that does not finish its transaction.
<1>ClientKeeps.
  ASSUME CommitInv, SnapshotInv', QueuedInv', NEW t \in Txns,
         UNCHANGED <<log, versions, run, current, committed, history, prepared>>,
         \A x \in Txns : x # t => tx'[x] = tx[x],
         current = t =>
           /\ tx'[t].write = tx[t].write /\ tx'[t].pc \in {"admitted", "returned"}
           /\ tx'[t].lsn = tx[t].lsn /\ tx'[t].entry = tx[t].entry
           /\ tx'[t].snapshot = tx[t].snapshot /\ tx'[t].update = tx[t].update,
         Registered(t)' =>
           Registered(t) /\ tx'[t].lsn = tx[t].lsn /\ tx'[t].entry = tx[t].entry
  PROVE  CommitInv'
  <2> USE <1>ClientKeeps
  <2>1. PushedLSN' = PushedLSN /\ HistoryLSN' = HistoryLSN
    BY DEF PushedLSN, HistoryLSN
  <2>2. \A x \in Txns : Registered(x)' =>
          Registered(x) /\ tx'[x].lsn = tx[x].lsn /\ tx'[x].entry = tx[x].entry
    BY DEF Registered
  <2>3. CurrentInv'
    BY SMTT(40) DEF CommitInv, CurrentInv
  <2>4. PreparedInv'
    <3>1. run \in Processing => current \in Txns
      BY DEF CommitInv, SnapshotInv, LSNInv
    <3>2. run \in Processing => tx'[current].update = tx[current].update /\ tx'[current].lsn = tx[current].lsn
      BY <3>1
    <3> QED
      BY ZenonT(40), <2>1, <3>2 DEF CommitInv, PreparedInv, Processing
  <2> QED
    BY <2>1, <2>2, <2>3, <2>4, <1>Retained

\* A step of Run that leaves no update prepared.
<1>RunKeeps.
  ASSUME CommitInv, SnapshotInv', QueuedInv',
         UNCHANGED <<log, versions, committed, history>>,
         run \notin {"appended", "pushed"}, run' \notin {"prepared", "appended", "pushed"},
         \A t \in Txns : Registered(t)' =>
           Registered(t) /\ tx'[t].lsn = tx[t].lsn /\ tx'[t].entry = tx[t].entry,
         CurrentInv'
  PROVE  CommitInv'
  <2> USE <1>RunKeeps
  <2>1. PushedLSN' = PushedLSN /\ HistoryLSN' = HistoryLSN
    BY DEF PushedLSN, HistoryLSN
  <2>2. PreparedInv'
    BY DEF PreparedInv
  <2> QED
    BY <2>1, <2>2, <1>Retained

\* cleanCommittedEntry drops entries from the front only, up to the first one
\* with a reader: the entries of the other registered writers stay, and every
\* LSN that is evicted is older than those.
<1>CleanCommittedEntryFacts.
  ASSUME FirstReadExists, CommitInv, NEW t \in Txns, cleanCommittedEntry(t)
  PROVE  /\ \A i \in DOMAIN committed' :
              /\ committed'[i].lsn + (Len(committed') - i) = PushedLSN
              /\ ~committed'[i].logged => i = 1
         /\ \A x \in Txns \ {t} : Registered(x) =>
              \E i \in DOMAIN committed' :
                committed'[i].lsn = tx[x].entry /\ x \in committed'[i].readers
         /\ \E lsns :
              /\ history' = EvictLSNs(history, lsns)
              /\ \A x \in Txns \ {t} : Registered(x) => \A l \in lsns : l < tx[x].entry
  <2> USE <1>CleanCommittedEntryFacts
  <2> DEFINE n == Len(committed)
             c == Unread(committed, t, tx[t].entry)
             first == FirstRead(c)
             lsns == {c[j].lsn : j \in 1..(first - 1)}
  <2>1. /\ n \in Nat /\ DOMAIN committed = 1..n /\ Len(log) \in Nat
        /\ \A i \in 1..n : committed[i] \in CommittedEntry /\ committed[i].lsn \in Nat
    BY CommitTypes DEF CommitInv
  <2>2. /\ \A i \in 1..n : c[i] \in CommittedEntry
        /\ \A i \in 1..n : c[i].lsn = committed[i].lsn /\ c[i].logged = committed[i].logged
        /\ \A i \in 1..n : \A x \in Txns \ {t} : x \in committed[i].readers => x \in c[i].readers
    BY <2>1 DEF Unread, CommittedEntry
  <2>3. c \in Seq(CommittedEntry) /\ Len(c) = n
    <3>1. c = [i \in 1..n |-> c[i]]
      BY <2>1 DEF Unread
    <3> HIDE DEF c
    <3> QED
      BY SMTT(40), <2>1, <2>2, <3>1
  <2>4. committed' = SubSeq(c, first, Len(c)) /\ history' = EvictLSNs(history, lsns)
    BY DEF cleanCommittedEntry
  <2>5. /\ first \in 1..(n + 1)
        /\ \A j \in 1..(first - 1) : c[j].readers = {}
    BY <2>3 DEF FirstReadExists
  <2> HIDE DEF c, first, n
  <2>6. /\ Len(committed') = n + 1 - first /\ DOMAIN committed' = 1..(n + 1 - first)
        /\ \A i \in 1..(n + 1 - first) : committed'[i] = c[i + first - 1]
    <3>1. \A i \in first..n : c[i] \in CommittedEntry
      BY SMTT(40), <2>1, <2>2, <2>5
    <3> QED
      BY SMTT(40), <2>1, <2>3, <2>4, <2>5, <3>1
  <2>7. \A i \in 1..n : c[i].lsn + (n - i) = PushedLSN /\ (~c[i].logged => i = 1)
    BY <2>1, <2>2 DEF CommitInv, EntriesInv, n
  <2>8. ASSUME NEW i \in DOMAIN committed'
        PROVE  /\ committed'[i].lsn + (Len(committed') - i) = PushedLSN
               /\ ~committed'[i].logged => i = 1
    <3>1. i \in 1..(n + 1 - first)
      BY <2>6
    <3>2. i + first - 1 \in 1..n /\ n - (i + first - 1) = Len(committed') - i
      BY SMTT(40), <2>1, <2>5, <2>6, <3>1
    <3>3. i + first - 1 = 1 => i = 1
      BY SMTT(40), <2>5, <3>1
    <3> QED
      BY <2>6, <2>7, <3>1, <3>2, <3>3
  <2>9. ASSUME NEW x \in Txns \ {t}, Registered(x)
        PROVE  /\ \E i \in DOMAIN committed' :
                    committed'[i].lsn = tx[x].entry /\ x \in committed'[i].readers
               /\ \A l \in lsns : l < tx[x].entry
    <3>1. PICK i \in 1..n : committed[i].lsn = tx[x].entry /\ x \in committed[i].readers
      BY <2>1, <2>9 DEF CommitInv, ReadersInv
    <3>2. c[i].lsn = tx[x].entry /\ x \in c[i].readers
      BY <2>2, <3>1
    <3>3. ~(i \in 1..(first - 1))
      BY <2>5, <3>2
    <3>4. i >= first
      BY SMTT(40), <2>1, <2>5, <3>3
    <3>5. \E j \in DOMAIN committed' :
            committed'[j].lsn = tx[x].entry /\ x \in committed'[j].readers
      <4>1. i - first + 1 \in 1..(n + 1 - first) /\ (i - first + 1) + first - 1 = i
        BY SMTT(40), <2>1, <2>5, <3>4
      <4> QED
        BY <2>6, <3>2, <4>1
    <3>6. ASSUME NEW l \in lsns PROVE l < tx[x].entry
      <4>1. PICK j \in 1..(first - 1) : l = c[j].lsn
        BY <3>6
      <4>2. j \in 1..n /\ j < i /\ i \in 1..n
        BY SMTT(40), <2>1, <2>5, <3>4, <4>1
      <4>3. /\ c[j].lsn + (n - j) = PushedLSN /\ c[i].lsn + (n - i) = PushedLSN
            /\ c[j].lsn \in Nat /\ c[i].lsn \in Nat
        BY <2>1, <2>2, <2>7, <4>2
      <4> QED
        BY SMTT(40), <2>1, <3>2, <4>1, <4>2, <4>3
    <3> QED
      BY <3>5, <3>6
  <2> QED
    BY ZenonT(40), <2>4, <2>8, <2>9

\* Evicting LSNs older than the snapshots of all registered writers keeps the
\* history right: what it forgets has not changed since any of them.
<1>EvictKeepsHistory.
  ASSUME CommitInv, NEW lsns, history' = EvictLSNs(history, lsns),
         UNCHANGED <<log, versions>>, HistoryLSN' = HistoryLSN,
         \A x \in Txns : Registered(x)' =>
           /\ Registered(x) /\ tx'[x].lsn = tx[x].lsn /\ tx'[x].entry = tx[x].entry
           /\ \A l \in lsns : l < tx[x].entry
  PROVE  /\ HistoryInv'
         /\ \A r \in Refs : history.root[r] = NoValue => history'.root[r] = NoValue
  <2> USE <1>EvictKeepsHistory
  <2>1. /\ history \in History /\ history.updaters \subseteq Nat
        /\ \A x \in Txns : tx[x].lsn \in Nat /\ tx[x].entry \in Nat
        /\ history.lsn \in [Refs -> LSNs]
    BY SMTT(40), CommitTypes, ConstantsAssumption DEF CommitInv, History, LSNs
  <2>2. HistoryLSN \in Int
    BY SMTT(40), CommitTypes DEF CommitInv, HistoryLSN
  <2>3. /\ \A l \in history.updaters : l <= HistoryLSN
        /\ \A k \in HistorySnapshots : \A r \in Refs :
             IF history.root[r] = NoValue
               THEN versions[k + 1][r] = versions[HistoryLSN + 1][r]
               ELSE (history.lsn[r] \in history.updaters => history.lsn[r] <= k)
                      => versions[k + 1][r] = history.root[r]
    BY DEF CommitInv, HistoryInv
  <2>4. HistoryLSN \in HistorySnapshots
    BY DEF HistorySnapshots
  <2>5. ASSUME NEW k \in HistorySnapshots'
        PROVE  k \in HistorySnapshots /\ \A l \in history.updaters \cap lsns : l <= k
    <3>1. CASE k = HistoryLSN
      BY <2>3, <2>4, <3>1
    <3>2. CASE k # HistoryLSN
      <4>1. PICK x \in Txns : Registered(x)' /\ tx'[x].lsn <= HistoryLSN /\ k = tx'[x].lsn
        BY <2>5, <3>2 DEF HistorySnapshots
      <4>2. tx[x].entry <= tx[x].lsn /\ k = tx[x].lsn
        BY <4>1 DEF CommitInv, ReadersInv
      <4>3. k \in HistorySnapshots
        BY <4>1, <4>2 DEF HistorySnapshots
      <4>4. \A l \in history.updaters \cap lsns : l <= k
        BY SMTT(40), <2>1, <4>1, <4>2
      <4> QED
        BY <4>3, <4>4
    <3> QED
      BY <3>1, <3>2
  <2>6. \A r \in Refs : history.root[r] # NoValue => versions[HistoryLSN + 1][r] = history.root[r]
    BY <2>3, <2>4
  \* What a forgotten reference was worth for the snapshot k.
  <2>7. ASSUME NEW k \in HistorySnapshots', NEW r \in Refs,
               history.lsn[r] \in history.updaters => history.lsn[r] \in lsns
        PROVE  versions[k + 1][r] = versions[HistoryLSN + 1][r]
    <3>1. k \in HistorySnapshots /\ (history.lsn[r] \in history.updaters => history.lsn[r] <= k)
      BY <2>5, <2>7
    <3> QED
      BY <2>3, <2>6, <3>1
  <2>8. CASE history.updaters \ lsns = {} /\ history.updaters # {}
    <3>1. history' = EmptyHistory
      BY <2>8 DEF EvictLSNs
    <3>2. history'.updaters = {} /\ \A r \in Refs : history'.root[r] = NoValue
      BY SMTT(40), <3>1 DEF EmptyHistory, Nothing
    <3>3. ASSUME NEW k \in HistorySnapshots', NEW r \in Refs
          PROVE  versions[k + 1][r] = versions[HistoryLSN + 1][r]
      BY <2>7, <2>8
    <3> QED
      BY <3>2, <3>3 DEF HistoryInv
  <2>9. CASE ~(history.updaters \ lsns = {} /\ history.updaters # {})
    <3> DEFINE gone == {r \in Refs : history.lsn[r] \in history.updaters \cap lsns}
    <3>1. history' = [root |-> [r \in Refs |-> IF r \in gone THEN NoValue ELSE history.root[r]],
                      lsn |-> [r \in Refs |-> IF r \in gone THEN 0 ELSE history.lsn[r]],
                      updaters |-> history.updaters \ lsns]
      BY <2>9 DEF EvictLSNs
    <3>2. /\ history'.updaters = history.updaters \ lsns
          /\ \A r \in Refs : r \in gone => history'.root[r] = NoValue
          /\ \A r \in Refs : r \notin gone =>
               history'.root[r] = history.root[r] /\ history'.lsn[r] = history.lsn[r]
      BY SMTT(40), <3>1
    <3>3. \A l \in history'.updaters : l <= HistoryLSN
      BY <2>3, <3>2
    <3>4. ASSUME NEW k \in HistorySnapshots', NEW r \in Refs
          PROVE  IF history'.root[r] = NoValue
                   THEN versions[k + 1][r] = versions[HistoryLSN + 1][r]
                   ELSE (history'.lsn[r] \in history'.updaters => history'.lsn[r] <= k)
                          => versions[k + 1][r] = history'.root[r]
      <4>1. CASE r \in gone
        BY <2>7, <3>2, <4>1
      <4>2. CASE r \notin gone
        <5>1. k \in HistorySnapshots
          BY <2>5
        <5>2. history'.lsn[r] \in history'.updaters <=> history.lsn[r] \in history.updaters
          BY <3>2, <4>2
        <5> QED
          BY ZenonT(40), <2>3, <3>2, <4>2, <5>1, <5>2
      <4> QED
        BY <4>1, <4>2
    <3> HIDE DEF gone
    <3> QED
      BY ZenonT(40), <3>2, <3>3, <3>4 DEF HistoryInv
  <2> QED
    BY <2>8, <2>9

\* A step that finishes a transaction preserves the invariant.
<1>FinishKeeps.
  ASSUME FirstReadExists, CommitInv, SnapshotInv', QueuedInv', NEW t \in Txns, finish(t), ~Registered(t)',
         UNCHANGED <<log, versions, prepared>>,
         \A x \in Txns : x # t => tx'[x] = tx[x],
         \/ UNCHANGED <<run, current>> /\ current # t
         \/ /\ run \notin {"prepared", "appended", "pushed"}
            /\ run' \notin {"prepared", "appended", "pushed"}
            /\ current' \notin Txns
  PROVE  CommitInv'
  <2> USE <1>FinishKeeps
  <2>1. PushedLSN' = PushedLSN /\ HistoryLSN' = HistoryLSN
    BY DEF PushedLSN, HistoryLSN
  <2>2. \A x \in Txns : Registered(x)' =>
          x # t /\ Registered(x) /\ tx'[x].lsn = tx[x].lsn /\ tx'[x].entry = tx[x].entry
    BY DEF Registered
  <2>3. CurrentInv'
    BY SMTT(40) DEF CommitInv, CurrentInv
  <2>4. run' \in {"prepared", "appended", "pushed"} =>
          /\ UNCHANGED <<run, current>> /\ current \in Txns
          /\ tx'[current] = tx[current]
    BY DEF CommitInv, SnapshotInv, LSNInv, Processing
  <2>5. CASE ~tx[t].write
    <3>1. UNCHANGED <<committed, history>>
      BY ZenonT(40), <2>5 DEF finish
    <3>2. PreparedInv'
      BY ZenonT(40), <2>1, <2>4, <3>1 DEF CommitInv, PreparedInv
    <3> QED
      BY <2>1, <2>2, <2>3, <3>1, <3>2, <1>Retained
  <2>6. CASE tx[t].write
    <3>1. cleanCommittedEntry(t)
      BY <2>6 DEF finish
    <3>2. /\ \A i \in DOMAIN committed' :
                /\ committed'[i].lsn + (Len(committed') - i) = PushedLSN
                /\ ~committed'[i].logged => i = 1
          /\ \A x \in Txns \ {t} : Registered(x) =>
               \E i \in DOMAIN committed' :
                 committed'[i].lsn = tx[x].entry /\ x \in committed'[i].readers
      BY <3>1, <1>CleanCommittedEntryFacts
    <3>3. PICK lsns :
            /\ history' = EvictLSNs(history, lsns)
            /\ \A x \in Txns \ {t} : Registered(x) => \A l \in lsns : l < tx[x].entry
      BY <3>1, <1>CleanCommittedEntryFacts
    <3>4. /\ HistoryInv'
          /\ \A r \in Refs : history.root[r] = NoValue => history'.root[r] = NoValue
      BY <2>1, <2>2, <3>3, <1>EvictKeepsHistory
    <3>5. EntriesInv'
      BY <2>1, <3>2 DEF EntriesInv
    <3>6. ReadersInv'
      BY <2>2, <3>2 DEF CommitInv, ReadersInv
    <3>7. PreparedInv'
      BY SMTT(40), <2>1, <2>4, <3>4 DEF CommitInv, PreparedInv
    <3>8. (\A l \in 1..Len(log) : log[l].base < l)' /\ NoLostUpdate'
      BY DEF CommitInv, NoLostUpdate
    <3> QED
      BY ZenonT(40), <2>3, <3>4, <3>5, <3>6, <3>7, <3>8 DEF CommitInv
  <2> QED
    BY <2>5, <2>6

\* Begin registers a writer with the last committed entry, or with a placeholder
\* for the end of the log.  While an entry is appended but not pushed there is
\* always one, since the transaction Run processes is registered itself.
<1>BeginKeeps.
  ASSUME CommitInv, SnapshotInv', QueuedInv', NEW t \in Txns, NEW write \in BOOLEAN, Begin(t, write)
  PROVE  CommitInv'
  <2> USE <1>BeginKeeps
  <2> DEFINE n == Len(committed)
             c == updateCommittedEntry(t, Len(log))
  <2>1. /\ n \in Nat /\ DOMAIN committed = 1..n /\ Len(log) \in Nat
        /\ committed \in Seq(CommittedEntry) /\ tx \in [Txns -> Tx]
        /\ \A i \in 1..n : committed[i] \in CommittedEntry /\ committed[i].lsn \in Nat
    BY ZenonT(40), CommitTypes DEF CommitInv
  <2>2. /\ UNCHANGED <<log, versions, run, current, history, prepared>>
        /\ tx[t].pc = "idle" /\ current # t
        /\ committed' = IF write THEN c ELSE committed
        /\ \A x \in Txns : x # t => tx'[x] = tx[x]
    BY <2>1 DEF Begin, durable, appendedLSN, CommitInv, CurrentInv
  <2>3. /\ tx'[t].pc = "begun" /\ tx'[t].write = write /\ tx'[t].lsn = Len(log)
        /\ write => tx'[t].entry = c[Len(c)].lsn
    BY <2>1 DEF Begin, appendedLSN, IdleTx
  <2> HIDE DEF c, n
  <2>4. CASE ~write
    <3>1. ~Registered(t)'
      BY <2>3, <2>4 DEF Registered
    <3> QED
      BY <2>2, <2>4, <3>1, <1>ClientKeeps
  <2>5. CASE write
    <3>1. PushedLSN' = PushedLSN /\ HistoryLSN' = HistoryLSN
      BY <2>2 DEF PushedLSN, HistoryLSN
    <3>2. /\ Len(c) \in Nat \ {0} /\ DOMAIN c = 1..Len(c)
          /\ \A i \in 1..Len(c) : c[i].lsn + (Len(c) - i) = PushedLSN /\ (~c[i].logged => i = 1)
          /\ c[Len(c)].lsn = PushedLSN /\ t \in c[Len(c)].readers
          /\ \A i \in 1..n : \A x \in Txns : x \in committed[i].readers =>
               i \in 1..Len(c) /\ c[i].lsn = committed[i].lsn /\ x \in c[i].readers
      <4>1. CASE committed = << >>
        <5>1. run # "appended"
          <6>1. run = "appended" => current \in Txns /\ Registered(current)
            BY DEF CommitInv, SnapshotInv, LSNInv, Processing, CurrentInv, Registered
          <6>2. DOMAIN committed = {}
            BY SMTT(40), <4>1
          <6> QED
            BY <6>1, <6>2 DEF CommitInv, ReadersInv
        <5>2. c = <<[lsn |-> Len(log), logged |-> FALSE, readers |-> {t}]>> /\ n = 0
          BY <4>1 DEF c, n, updateCommittedEntry
        <5>3. PushedLSN = Len(log)
          BY <5>1 DEF PushedLSN
        <5> QED
          BY SMTT(40), <2>1, <5>2, <5>3
      <4>2. CASE committed # << >>
        <5>1. n \in 1..n
          BY SMTT(40), <2>1, <4>2 DEF n
        <5>2. c = [committed EXCEPT ![n].readers = @ \cup {t}]
          BY <4>2 DEF c, n, updateCommittedEntry
        <5>3. Len(c) = n /\ DOMAIN c = 1..n
          BY SMTT(40), <2>1, <5>2 DEF n
        <5>4. \A i \in 1..n : /\ c[i].lsn = committed[i].lsn /\ c[i].logged = committed[i].logged
                              /\ committed[i].readers \subseteq c[i].readers
          BY <2>1, <5>1, <5>2 DEF CommittedEntry
        <5>5. t \in c[n].readers
          BY <2>1, <5>1, <5>2 DEF CommittedEntry
        <5>6. \A i \in 1..n : c[i].lsn + (n - i) = PushedLSN /\ (~c[i].logged => i = 1)
          BY <2>1, <5>4 DEF CommitInv, EntriesInv, n
        <5>7. c[n].lsn = PushedLSN
          BY SMTT(40), <2>1, <5>1, <5>4, <5>6
        <5>8. \A i \in 1..n : \A x \in Txns : x \in committed[i].readers =>
                i \in 1..Len(c) /\ c[i].lsn = committed[i].lsn /\ x \in c[i].readers
          BY <5>3, <5>4
        <5>9. Len(c) \in Nat \ {0} /\ DOMAIN c = 1..Len(c)
          BY SMTT(40), <2>1, <5>1, <5>3
        <5> QED
          BY <5>3, <5>5, <5>6, <5>7, <5>8, <5>9
      <4> QED
        BY <4>1, <4>2
    <3>3. EntriesInv'
      BY <2>2, <2>5, <3>1, <3>2 DEF EntriesInv
    <3>4. PushedLSN <= Len(log) /\ HistoryLSN <= Len(log)
      BY SMTT(40), <2>1 DEF PushedLSN, HistoryLSN
    <3>5. ReadersInv'
      <4> SUFFICES ASSUME NEW x \in Txns, Registered(x)'
                   PROVE  /\ tx'[x].entry <= tx'[x].lsn
                          /\ \E i \in DOMAIN c : c[i].lsn = tx'[x].entry /\ x \in c[i].readers
        BY <2>2, <2>5 DEF ReadersInv
      <4>1. CASE x = t
        BY SMTT(40), <2>3, <2>5, <3>2, <3>4, <4>1
      <4>2. CASE x # t
        <5>1. Registered(x) /\ tx'[x] = tx[x]
          BY <2>2, <4>2 DEF Registered
        <5>2. PICK i \in 1..n : committed[i].lsn = tx[x].entry /\ x \in committed[i].readers
          BY <2>1, <5>1 DEF CommitInv, ReadersInv
        <5>3. tx[x].entry <= tx[x].lsn
          BY <5>1 DEF CommitInv, ReadersInv
        <5> QED
          BY <3>2, <5>1, <5>2, <5>3
      <4> QED
        BY <4>1, <4>2
    <3>6. HistorySnapshots' \subseteq HistorySnapshots
      <4> SUFFICES ASSUME NEW k \in HistorySnapshots', k # HistoryLSN
                   PROVE  k \in HistorySnapshots
        BY DEF HistorySnapshots
      <4>1. PICK x \in Txns : Registered(x)' /\ tx'[x].lsn <= HistoryLSN /\ k = tx'[x].lsn
        BY <3>1 DEF HistorySnapshots
      <4>2. HistoryLSN \in Int
        BY SMTT(40), <2>1 DEF HistoryLSN
      <4>3. x # t
        BY SMTT(40), <2>1, <2>3, <3>4, <4>1, <4>2
      <4>4. Registered(x) /\ tx'[x] = tx[x]
        BY <2>2, <4>1, <4>3 DEF Registered
      <4> QED
        BY <4>1, <4>4 DEF HistorySnapshots
    <3>7. HistoryInv'
      BY <2>2, <3>1, <3>6 DEF CommitInv, HistoryInv
    <3>8. CurrentInv'
      BY SMTT(40), <2>2 DEF CommitInv, CurrentInv
    <3>9. PreparedInv'
      <4>1. run \in Processing => current \in Txns /\ tx'[current] = tx[current]
        BY <2>2 DEF CommitInv, SnapshotInv, LSNInv
      <4> QED
        BY ZenonT(40), <2>2, <3>1, <4>1 DEF CommitInv, PreparedInv, Processing
    <3>10. (\A l \in 1..Len(log) : log[l].base < l)' /\ NoLostUpdate'
      BY <2>2 DEF CommitInv, NoLostUpdate
    <3> QED
      BY <3>3, <3>5, <3>7, <3>8, <3>9, <3>10 DEF CommitInv
  <2> QED
    BY <2>4, <2>5

\* The steps between Begin and the finish of a transaction.
<1>ClientStepKeeps.
  ASSUME FirstReadExists, CommitInv, SnapshotInv', QueuedInv', NEW t \in Txns, ClientStep(t)
  PROVE  CommitInv'
  <2> USE <1>ClientStepKeeps
  <2>1. tx \in [Txns -> Tx]
    BY CommitTypes DEF CommitInv
  <2>2. tx[t].pc \notin {"admitted", "returned"} => current # t
    BY DEF CommitInv, CurrentInv
  <2>3. ASSUME NEW write \in BOOLEAN, Begin(t, write) PROVE CommitInv'
    BY <2>3, <1>BeginKeeps
  <2>4. CASE SnapshotStep(t)
    <3>1. UNCHANGED <<log, versions, run, current, committed, history, prepared>>
      BY <2>4 DEF SnapshotStep, StartSnapshot, CopyReference, FinishBegin, durable
    <3>2. tx[t].pc \in {"begun", "snapshotting"}
      BY <2>4 DEF SnapshotStep, StartSnapshot, CopyReference, FinishBegin
    <3>3. /\ \A x \in Txns : x # t => tx'[x] = tx[x]
          /\ tx'[t].write = tx[t].write /\ tx'[t].lsn = tx[t].lsn /\ tx'[t].entry = tx[t].entry
      BY SMTT(40), <2>1, <2>4 DEF SnapshotStep, StartSnapshot, CopyReference, FinishBegin, Tx
    <3>4. Registered(t)' => Registered(t)
      BY <3>2, <3>3 DEF Registered
    <3> QED
      BY <2>2, <3>1, <3>2, <3>3, <3>4, <1>ClientKeeps
  <2>5. ASSUME NEW u \in Updates, Commit(t, u) PROVE CommitInv'
    <3>1. /\ UNCHANGED <<log, versions, run, current, committed, history, prepared>>
          /\ tx[t].pc = "open"
      BY <2>5 DEF Commit, durable
    <3>2. /\ \A x \in Txns : x # t => tx'[x] = tx[x]
          /\ tx'[t].write = tx[t].write /\ tx'[t].lsn = tx[t].lsn /\ tx'[t].entry = tx[t].entry
      BY ZenonT(40), <2>1, <2>5 DEF Commit, Tx
    <3>3. Registered(t)' => Registered(t)
      BY <3>1, <3>2 DEF Registered
    <3> QED
      BY <2>2, <3>1, <3>2, <3>3, <1>ClientKeeps
  <2>6. CASE ReceiveResult(t) \/ AbandonResult(t)
    <3>1. ReturnAdmitted(t) /\ tx[t].pc = "admitted"
      BY <2>6 DEF ReceiveResult, AbandonResult
    <3>2. UNCHANGED <<log, versions, run, current, committed, history, prepared>>
      BY <3>1 DEF ReturnAdmitted, durable
    <3>3. \A x \in Txns : x # t => tx'[x] = tx[x]
      BY <2>1, <3>1 DEF ReturnAdmitted
    <3>4. current = t =>
             /\ tx'[t].write = tx[t].write /\ tx'[t].pc \in {"admitted", "returned"}
             /\ tx'[t].lsn = tx[t].lsn /\ tx'[t].entry = tx[t].entry
             /\ tx'[t].snapshot = tx[t].snapshot /\ tx'[t].update = tx[t].update
      BY <2>1, <3>1 DEF ReturnAdmitted, Tx
    <3>5. current # t => ~Registered(t)'
      BY <2>1, <3>1, <3>2 DEF ReturnAdmitted, Registered, IdleTx
    <3>6. Registered(t)' => current = t /\ Registered(t)
      BY <3>2, <3>4, <3>5 DEF Registered
    <3> QED
      BY <3>2, <3>3, <3>4, <3>6, <1>ClientKeeps
  <2>7. CASE BeginCancelled(t) \/ BeginStopped(t) \/ Rollback(t) \/ CommitCancelled(t) \/ CommitStopped(t)
    <3>1. /\ tx[t].pc \in {"begun", "snapshotting", "open", "queued"}
          /\ AbortBegin(t) \/ Return(t)
      BY <2>7 DEF BeginCancelled, BeginStopped, Rollback, CommitCancelled, CommitStopped
    <3>2. /\ finish(t) /\ tx' = [tx EXCEPT ![t] = IdleTx]
          /\ UNCHANGED <<log, versions, run, current, prepared>>
      BY <3>1 DEF AbortBegin, Return, durable
    <3>3. (\A x \in Txns : x # t => tx'[x] = tx[x]) /\ tx'[t] = IdleTx
      BY <2>1, <3>2
    <3>4. ~Registered(t)'
      BY SMTT(40), <3>3 DEF Registered, IdleTx
    <3> QED
      BY <2>2, <3>1, <3>2, <3>3, <3>4, <1>FinishKeeps
  <2> QED
    BY <2>3, <2>4, <2>5, <2>6, <2>7 DEF ClientStep

\* The conflict check: the references to be updated have the value of the
\* transaction's snapshot at the end of the log.
<1>PrepareKeeps.
  ASSUME CommitInv, SnapshotInv', QueuedInv', Prepare
  PROVE  CommitInv'
  <2> USE <1>PrepareKeeps
  <2>1. /\ UNCHANGED <<log, versions, current, committed, history, tx>>
        /\ run = "admitted" /\ run' = "prepared" /\ ~Conflicting(current)
        /\ prepared' = Overlay(history.root, tx[current].update)
    BY DEF Prepare, durable
  <2>2. /\ PushedLSN' = PushedLSN /\ HistoryLSN' = HistoryLSN
        /\ HistoryLSN = Len(log)
    BY <2>1 DEF PushedLSN, HistoryLSN
  <2>3. CurrentInv'
    BY <2>1 DEF CommitInv, CurrentInv, Processing
  <2>4. /\ current \in Txns /\ Registered(current)
        /\ \A r \in Refs : tx[current].snapshot[r] = versions[tx[current].lsn + 1][r]
    BY <2>1 DEF CommitInv, SnapshotInv, LSNInv, CurrentInv, Processing, Registered
  <2>5. tx[current].lsn \in HistorySnapshots
    BY <2>2, <2>4, CommitTypes DEF HistorySnapshots, CommitInv
  <2>6. PreparedInv'
    <3> SUFFICES ASSUME NEW r \in Refs
                 PROVE  /\ tx[current].update[r] # NoValue =>
                             /\ prepared'[r] = tx[current].update[r]
                             /\ versions[HistoryLSN + 1][r] = versions[tx[current].lsn + 1][r]
                        /\ tx[current].update[r] = NoValue =>
                             IF prepared'[r] = NoValue
                               THEN history.root[r] = NoValue
                               ELSE prepared'[r] = versions[HistoryLSN + 1][r]
      BY <2>1, <2>2 DEF PreparedInv
    <3>1. prepared'[r] = IF tx[current].update[r] = NoValue THEN history.root[r] ELSE tx[current].update[r]
      BY <2>1 DEF Overlay
    <3>2. tx[current].update[r] # NoValue => history.root[r] \in {NoValue, tx[current].snapshot[r]}
      BY <2>1 DEF Conflicting, Updated
    <3>3. history.root[r] = NoValue => versions[tx[current].lsn + 1][r] = versions[HistoryLSN + 1][r]
      BY <2>5 DEF CommitInv, HistoryInv
    <3>4. history.root[r] # NoValue => versions[HistoryLSN + 1][r] = history.root[r]
      BY HistoryAgrees
    <3> QED
      BY <2>4, <3>1, <3>2, <3>3, <3>4
  <2> QED
    BY <2>1, <2>2, <2>3, <2>6, <1>Retained DEF Registered

\* The new entry replaces values its transaction has seen.
<1>AppendKeeps.
  ASSUME CommitInv, SnapshotInv', QueuedInv', AppendLogEntry
  PROVE  CommitInv'
  <2> USE <1>AppendKeeps
  <2> DEFINE n == Len(log)
             e == [update |-> tx[current].update, base |-> tx[current].lsn]
             v == Overlay(versions[Len(versions)], tx[current].update)
  <2>1. /\ UNCHANGED <<current, committed, history, prepared, tx>>
        /\ run = "prepared" /\ run' = "appended"
        /\ log' = Append(log, e) /\ versions' = Append(versions, v)
    BY DEF AppendLogEntry
  <2>2. /\ n \in Nat /\ Len(versions) = n + 1 /\ log \in Seq(Entry)
        /\ versions \in Seq([Refs -> Values])
        /\ \A t \in Txns : tx[t].lsn \in Nat /\ tx[t].lsn <= n
    BY CommitTypes DEF CommitInv, SnapshotInv, TypeOK
  <2> HIDE DEF e, v
  <2>3. /\ Len(log') = n + 1 /\ log'[n + 1] = e
        /\ \A l \in 1..n : log'[l] = log[l]
        /\ \A k \in 1..(n + 1) : versions'[k] = versions[k]
    BY SMTT(40), <2>1, <2>2
  <2> HIDE DEF n
  <2>4. /\ PushedLSN = n /\ HistoryLSN = n
        /\ PushedLSN' = n /\ HistoryLSN' = n
    BY SMTT(40), <2>1, <2>2, <2>3 DEF PushedLSN, HistoryLSN, n
  <2>5. \A t \in Txns : (Registered(t)' <=> Registered(t)) /\ versions'[tx[t].lsn + 1] = versions[tx[t].lsn + 1]
    BY SMTT(40), <2>1, <2>2, <2>3 DEF Registered
  <2>6. current \in Txns
    BY <2>1 DEF CommitInv, SnapshotInv, LSNInv, Processing
  <2>7. EntriesInv' /\ ReadersInv'
    BY <2>1, <2>4, <2>5 DEF CommitInv, EntriesInv, ReadersInv
  <2>8. CurrentInv'
    BY <2>1, <2>5, ZenonT(40) DEF CommitInv, CurrentInv, Processing
  <2>9. HistoryInv'
    <3>1. HistorySnapshots' = HistorySnapshots
      BY <2>1, <2>4, <2>5 DEF HistorySnapshots
    <3>2. \A k \in HistorySnapshots : versions'[k + 1] = versions[k + 1]
      BY SMTT(40), <2>2, <2>3, <2>4 DEF HistorySnapshots
    <3>3. HistoryLSN' = HistoryLSN /\ HistoryLSN \in HistorySnapshots
      BY <2>4 DEF HistorySnapshots
    <3> QED
      BY <2>1, <3>1, <3>2, <3>3, ZenonT(40) DEF CommitInv, HistoryInv
  <2>10. \A r \in Refs : tx[current].update[r] # NoValue =>
           versions[n + 1][r] = versions[tx[current].lsn + 1][r]
    BY <2>1, <2>4 DEF CommitInv, PreparedInv
  <2>11. PreparedInv'
    <3>1. versions'[n + 1] = versions[n + 1]
      BY SMTT(40), <2>2, <2>3
    <3>2. log'[Len(log')].update = tx'[current'].update /\ Len(log') > 0
      BY SMTT(40), <2>1, <2>2, <2>3 DEF e
    <3>3. \A r \in Refs :
           /\ tx[current].update[r] # NoValue =>
                /\ prepared[r] = tx[current].update[r]
                /\ versions[n + 1][r] = versions[tx[current].lsn + 1][r]
           /\ tx[current].update[r] = NoValue =>
                IF prepared[r] = NoValue
                  THEN history.root[r] = NoValue
                  ELSE prepared[r] = versions[n + 1][r]
      BY <2>1, <2>4 DEF CommitInv, PreparedInv
    <3> QED
      BY <2>1, <2>4, <2>5, <2>6, <3>1, <3>2, <3>3, ZenonT(40) DEF PreparedInv
  <2>12. (\A l \in 1..Len(log) : log[l].base < l)'
    <3>1. e.base < n + 1
      BY SMTT(40), <2>2, <2>6 DEF e
    <3> QED
      BY SMTT(40), <2>2, <2>3, <3>1 DEF CommitInv, n
  <2>13. NoLostUpdate'
    <3> SUFFICES ASSUME NEW l \in 1..(n + 1), NEW r \in Updated(log'[l].update)
                 PROVE  versions'[l][r] = versions'[log'[l].base + 1][r]
      BY ZenonT(40), <2>3 DEF NoLostUpdate
    <3>1. CASE l = n + 1
      <4>1. r \in Refs /\ tx[current].update[r] # NoValue /\ log'[l].base = tx[current].lsn
        BY SMTT(40), <2>3, <3>1 DEF Updated, e
      <4> QED
        BY ZenonT(40), <2>2, <2>3, <2>5, <2>6, <2>10, <3>1, <4>1
    <3>2. CASE l \in 1..n
      <4>1. log'[l] = log[l] /\ log[l].base < l /\ versions[l][r] = versions[log[l].base + 1][r]
        BY <2>3, <3>2 DEF CommitInv, NoLostUpdate, n
      <4>2. log[l].base + 1 \in 1..(n + 1) /\ l \in 1..(n + 1)
        <5>1. log[l].base \in Nat
          <6>1. log[l] \in Entry
            BY SMTT(40), <2>2, <3>2 DEF n
          <6> QED
            BY SMTT(40), <6>1, ConstantsAssumption DEF Entry, LSNs
        <5> QED
          BY SMTT(40), <2>2, <3>2, <4>1, <5>1
      <4> QED
        BY <2>3, <4>1, <4>2
    <3> QED
      BY SMTT(40), <2>2, <3>1, <3>2
  <2> QED
    BY <2>7, <2>8, <2>9, <2>11, <2>12, <2>13 DEF CommitInv

\* The entry becomes the last of the committed entries.
<1>PushKeeps.
  ASSUME CommitInv, SnapshotInv', QueuedInv', PushCommittedEntry
  PROVE  CommitInv'
  <2> USE <1>PushKeeps
  <2> DEFINE n == Len(committed)
             e == [lsn |-> Len(log), logged |-> TRUE, readers |-> {}]
  <2>1. /\ UNCHANGED <<log, versions, current, history, prepared, tx>>
        /\ run = "appended" /\ run' = "pushed" /\ committed' = Append(committed, e)
    BY DEF PushCommittedEntry, durable, appendedLSN
  <2>2. /\ Len(log) \in Nat /\ committed \in Seq(CommittedEntry) /\ n \in Nat
        /\ DOMAIN committed = 1..n
        /\ \A i \in 1..n : committed[i].lsn \in Nat
    BY CommitTypes DEF CommitInv
  <2> HIDE DEF e
  <2>3. /\ Len(committed') = n + 1 /\ DOMAIN committed' = 1..(n + 1) /\ committed'[n + 1] = e
        /\ \A i \in 1..n : committed'[i] = committed[i]
    BY SMTT(40), <2>1, <2>2
  <2> HIDE DEF n
  <2>4. /\ PushedLSN = Len(log) - 1 /\ PushedLSN' = Len(log) /\ HistoryLSN' = HistoryLSN
        /\ \A t \in Txns : Registered(t)' <=> Registered(t)
    BY <2>1 DEF PushedLSN, HistoryLSN, Registered
  <2>5. EntriesInv'
    <3>1. ASSUME NEW i \in DOMAIN committed'
          PROVE  /\ committed'[i].lsn + (Len(committed') - i) = PushedLSN'
                 /\ ~committed'[i].logged => i = 1
      <4>1. i \in 1..(n + 1)
        BY <2>3
      <4>2. CASE i = n + 1
        BY SMTT(40), <2>2, <2>3, <2>4, <4>2 DEF e
      <4>3. CASE i \in 1..n
        <5>1. committed[i].lsn + (n - i) = Len(log) - 1 /\ (~committed[i].logged => i = 1)
          BY <2>2, <2>4, <4>3 DEF CommitInv, EntriesInv, n
        <5>2. /\ committed'[i] = committed[i] /\ committed[i].lsn \in Nat
              /\ Len(committed') = n + 1 /\ PushedLSN' = Len(log)
          BY <2>2, <2>3, <2>4, <4>3
        <5>3. committed[i].lsn + ((n + 1) - i) = Len(log)
          BY SMTT(40), <2>2, <4>3, <5>1, <5>2
        <5> QED
          BY <5>1, <5>2, <5>3
      <4> QED
        BY SMTT(40), <2>2, <4>1, <4>2, <4>3
    <3> QED
      BY <3>1 DEF EntriesInv
  <2>6. ReadersInv'
    <3>1. \A i \in DOMAIN committed : i \in DOMAIN committed' /\ committed'[i] = committed[i]
      BY SMTT(40), <2>2, <2>3
    <3> QED
      BY <2>1, <2>4, <3>1 DEF CommitInv, ReadersInv
  <2>7. HistoryInv'
    <3>1. HistorySnapshots' = HistorySnapshots
      BY <2>1, <2>4 DEF HistorySnapshots
    <3> QED
      BY <2>1, <2>4, <3>1 DEF CommitInv, HistoryInv
  <2>8. CurrentInv' /\ PreparedInv'
    BY ZenonT(40), <2>1, <2>4 DEF CommitInv, CurrentInv, PreparedInv, Processing
  <2>9. (\A l \in 1..Len(log) : log[l].base < l)' /\ NoLostUpdate'
    BY <2>1 DEF CommitInv, NoLostUpdate
  <2> QED
    BY <2>5, <2>6, <2>7, <2>8, <2>9 DEF CommitInv

\* The history learns the update: the values it held before are still those of
\* the log, the updated ones are the new version's.
<1>CommitPreparedKeeps.
  ASSUME CommitInv, SnapshotInv', QueuedInv', CommitPrepared
  PROVE  CommitInv'
  <2> USE <1>CommitPreparedKeeps
  <2> DEFINE n == Len(log)
             u == tx[current].update
  <2>1. /\ UNCHANGED <<log, versions, current, committed>>
        /\ run = "pushed" /\ run' = "finishing"
        /\ history' = CommitUpdates(history, prepared, u, n)
        /\ tx' = [tx EXCEPT ![current] = [@ EXCEPT !.result = "ok", !.commitLSN = n]]
    BY DEF CommitPrepared, durable, appendedLSN
  <2>2. n \in Nat /\ tx \in [Txns -> Tx] /\ current \in Txns /\ history \in History
    BY <2>1, CommitTypes DEF CommitInv, SnapshotInv, LSNInv, Processing
  <2>3. \A t \in Txns :
          /\ tx'[t].lsn = tx[t].lsn /\ tx'[t].entry = tx[t].entry /\ tx'[t].write = tx[t].write
          /\ tx'[t].pc = tx[t].pc /\ tx'[t].snapshot = tx[t].snapshot
    BY <2>1, <2>2 DEF Tx
  <2>4. \A t \in Txns : Registered(t)' <=> Registered(t)
    BY <2>1, <2>3 DEF Registered
  <2>5. /\ PushedLSN' = n /\ PushedLSN = n /\ HistoryLSN = n - 1 /\ HistoryLSN' = n
        /\ n > 0 /\ log[n].update = u
    BY <2>1 DEF PushedLSN, HistoryLSN, CommitInv, PreparedInv
  <2>6. EntriesInv' /\ ReadersInv'
    <3>1. EntriesInv'
      BY <2>1, <2>5 DEF CommitInv, EntriesInv
    <3>2. ReadersInv'
      BY <2>1, <2>3, <2>4 DEF CommitInv, ReadersInv
    <3> QED
      BY <3>1, <3>2
  <2>7. CurrentInv'
    BY <2>1, <2>3, SMTT(40) DEF CommitInv, CurrentInv, Processing
  <2>8. PreparedInv'
    BY ZenonT(40), <2>1 DEF PreparedInv
  <2>9. versions[n + 1] = Overlay(versions[n], u)
    BY SMTT(40), <2>2, <2>5 DEF CommitInv, SnapshotInv, LSNInv
  <2>10. \/ /\ history'.root = prepared
            /\ history'.updaters = history.updaters \cup {n}
            /\ \A r \in Refs : history'.lsn[r] = IF u[r] # NoValue THEN n ELSE history.lsn[r]
         \/ history' = history /\ \A r \in Refs : u[r] = NoValue
    <3>1. CASE Updated(u) = {}
      <4>1. history' = history
        BY <2>1, <3>1 DEF CommitUpdates
      <4>2. \A r \in Refs : u[r] = NoValue
        BY <3>1 DEF Updated
      <4> QED
        BY <4>1, <4>2
    <3>2. CASE Updated(u) # {}
      BY <2>1, <3>2 DEF CommitUpdates, Updated
    <3> QED
      BY <3>1, <3>2
  <2> HIDE DEF n, u
  <2>11. \A r \in Refs :
           /\ u[r] # NoValue => prepared[r] = u[r]
           /\ u[r] = NoValue => IF prepared[r] = NoValue
                                  THEN history.root[r] = NoValue
                                  ELSE prepared[r] = versions[n][r]
    BY SMTT(40), <2>1, <2>2, <2>5 DEF CommitInv, PreparedInv, u
  <2>12. HistoryInv'
    <3>1. \A l \in history'.updaters : l <= HistoryLSN'
      <4>1. \A l \in history.updaters : l <= HistoryLSN /\ l \in Nat
        BY SMTT(40), <2>2, ConstantsAssumption DEF CommitInv, HistoryInv, History, LSNs
      <4> QED
        BY SMTT(40), <2>2, <2>5, <2>10, <4>1
    <3>2. ASSUME NEW k \in HistorySnapshots', NEW r \in Refs
          PROVE  IF history'.root[r] = NoValue
                   THEN versions'[k + 1][r] = versions'[HistoryLSN' + 1][r]
                   ELSE (history'.lsn[r] \in history'.updaters => history'.lsn[r] <= k)
                          => versions'[k + 1][r] = history'.root[r]
      <4>1. k = n \/ k \in HistorySnapshots
        <5>1. k = n \/ \E t \in Txns : Registered(t) /\ k = tx[t].lsn /\ tx[t].lsn <= n
          BY <2>3, <2>4, <2>5 DEF HistorySnapshots
        <5>2. \A t \in Txns : tx[t].lsn \in Nat
          BY CommitTypes DEF CommitInv
        <5> QED
          BY SMTT(40), <2>2, <2>5, <5>1, <5>2 DEF HistorySnapshots
      <4>2. k \in HistorySnapshots => k \in Nat /\ k <= n - 1
        <5>1. \A t \in Txns : tx[t].lsn \in Nat
          BY CommitTypes DEF CommitInv
        <5> QED
          BY SMTT(40), <2>2, <2>5, <5>1 DEF HistorySnapshots
      <4>3. versions[n + 1][r] = IF u[r] = NoValue THEN versions[n][r] ELSE u[r]
        BY <2>9 DEF Overlay
      <4>4. NoValue \notin Values /\ (prepared[r] # NoValue => prepared[r] = versions[n + 1][r])
        BY <2>11, <4>3, ConstantsAssumption
      <4>5. CASE history' = history /\ \A q \in Refs : u[q] = NoValue
        <5>1. versions[n + 1][r] = versions[n][r]
          BY <4>3, <4>5
        <5>2. CASE k = n
          <6>1. history.root[r] # NoValue => versions[n][r] = history.root[r]
            BY SMTT(40), <2>2, <2>5, HistoryAgrees
          <6> QED
            BY <2>1, <2>5, <4>5, <5>1, <5>2, <6>1
        <5>3. CASE k \in HistorySnapshots
          <6>1. IF history.root[r] = NoValue
                  THEN versions[k + 1][r] = versions[n][r]
                  ELSE (history.lsn[r] \in history.updaters => history.lsn[r] <= k)
                         => versions[k + 1][r] = history.root[r]
            BY SMTT(40), <2>2, <2>5, <5>3 DEF CommitInv, HistoryInv
          <6> QED
            BY <2>1, <2>5, <4>5, <5>1, <6>1
        <5> QED
          BY <4>1, <5>2, <5>3
      <4> DEFINE replaced ==
                   /\ history'.root = prepared
                   /\ history'.updaters = history.updaters \cup {n}
                   /\ \A q \in Refs : history'.lsn[q] = IF u[q] # NoValue THEN n ELSE history.lsn[q]
      <4>6. CASE replaced /\ k = n
        BY <2>1, <2>5, <4>4, <4>6
      <4>7. CASE replaced /\ k \in HistorySnapshots
        <5>1. IF history.root[r] = NoValue
                THEN versions[k + 1][r] = versions[n][r]
                ELSE (history.lsn[r] \in history.updaters => history.lsn[r] <= k)
                       => versions[k + 1][r] = history.root[r]
          BY SMTT(40), <2>2, <2>5, <4>7 DEF CommitInv, HistoryInv
        <5>2. history.root[r] # NoValue => versions[n][r] = history.root[r]
          BY SMTT(40), <2>2, <2>5, HistoryAgrees
        <5>3. CASE u[r] # NoValue
          BY SMTT(40), <2>2, <2>5, <4>7, <2>11, <4>2, <5>3
        <5>4. CASE u[r] = NoValue /\ prepared[r] = NoValue
          BY <2>1, <2>5, <4>7, <2>11, <4>3, <5>1, <5>4
        <5>5. CASE u[r] = NoValue /\ prepared[r] # NoValue
          BY ZenonT(40), <2>1, <2>5, <4>7, <2>11, <5>1, <5>2, <5>5
        <5> QED
          BY <5>3, <5>4, <5>5
      <4> QED
        BY <2>10, <4>1, <4>5, <4>6, <4>7
    <3> QED
      BY <3>1, <3>2 DEF HistoryInv
  <2>13. (\A l \in 1..Len(log) : log[l].base < l)' /\ NoLostUpdate'
    BY <2>1 DEF CommitInv, NoLostUpdate
  <2> QED
    BY <2>6, <2>7, <2>8, <2>12, <2>13 DEF CommitInv

\* An error result: the update that was prepared is dropped.
<1>SendErrorKeeps.
  ASSUME CommitInv, SnapshotInv', QueuedInv', run \in {"admitted", "prepared"}, SendError
  PROVE  CommitInv'
  <2> USE <1>SendErrorKeeps
  <2>1. /\ UNCHANGED <<log, versions, committed, history, current>> /\ run' = "finishing"
        /\ tx' = [tx EXCEPT ![current].result = "error"]
    BY ZenonT(40) DEF SendError, durable
  <2>2. tx \in [Txns -> Tx] /\ current \in Txns
    BY CommitTypes DEF CommitInv, SnapshotInv, LSNInv, Processing
  <2>3. \A t \in Txns :
          /\ tx'[t].lsn = tx[t].lsn /\ tx'[t].entry = tx[t].entry /\ tx'[t].write = tx[t].write
          /\ tx'[t].pc = tx[t].pc /\ tx'[t].snapshot = tx[t].snapshot
    BY ZenonT(40), <2>1, <2>2 DEF Tx
  <2>4. CurrentInv'
    BY <2>1, <2>3, SMTT(40) DEF CommitInv, CurrentInv, Processing
  <2>5. \A t \in Txns : Registered(t)' =>
          Registered(t) /\ tx'[t].lsn = tx[t].lsn /\ tx'[t].entry = tx[t].entry
    BY <2>1, <2>3 DEF Registered
  <2> QED
    BY <2>1, <2>4, <2>5, <1>RunKeeps

\* A transaction is admitted with its snapshot complete.
<1>AdmitKeeps.
  ASSUME CommitInv, SnapshotInv', QueuedInv', NEW t \in Txns, Admit(t)
  PROVE  CommitInv'
  <2> USE <1>AdmitKeeps
  <2>1. /\ UNCHANGED <<log, versions, committed, history>>
        /\ run = "loop" /\ run' = "admitted" /\ current' = t /\ tx[t].pc = "queued"
        /\ tx' = [tx EXCEPT ![t].pc = "admitted"]
    BY DEF Admit, durable
  <2>2. tx \in [Txns -> Tx]
    BY CommitTypes DEF CommitInv
  <2>3. /\ \A x \in Txns : x # t => tx'[x] = tx[x]
        /\ tx'[t].lsn = tx[t].lsn /\ tx'[t].entry = tx[t].entry /\ tx'[t].write = tx[t].write
        /\ tx'[t].pc = "admitted" /\ tx'[t].snapshot = tx[t].snapshot
    BY ZenonT(40), <2>1, <2>2 DEF Tx
  <2>4. \A r \in Refs : tx[t].snapshot[r] = versions[tx[t].lsn + 1][r]
    BY <2>1 DEF CommitInv, SnapshotInv, SnapshotIsolation
  <2>5. tx[t].write
    BY <2>1 DEF CommitInv, QueuedInv
  <2>6. CurrentInv'
    <3>1. /\ run' \in Processing
          /\ tx'[t].write /\ tx'[t].pc \in {"admitted", "returned"}
          /\ \A r \in Refs : tx'[t].snapshot[r] = versions'[tx'[t].lsn + 1][r]
      BY ZenonT(40), <2>1, <2>3, <2>4, <2>5 DEF Processing
    <3> QED
      BY <2>1, <3>1 DEF CurrentInv
  <2>7. current \notin Txns
    BY <2>1 DEF CommitInv, CurrentInv, Processing
  <2>8. \A x \in Txns : Registered(x)' =>
          Registered(x) /\ tx'[x].lsn = tx[x].lsn /\ tx'[x].entry = tx[x].entry
    BY <2>1, <2>3, <2>5, <2>7 DEF Registered
  <2> QED
    BY <2>1, <2>6, <2>8, <1>RunKeeps

\* Run is done with a transaction, or exits with one in its hands.
<1>FinishAdmittedKeeps.
  ASSUME FirstReadExists, CommitInv, SnapshotInv', QueuedInv',
         FinishAdmitted \/ \E t \in Txns : AdmitWhileClosing(t)
  PROVE  CommitInv'
  <2> USE <1>FinishAdmittedKeeps
  <2>1. tx \in [Txns -> Tx]
    BY CommitTypes DEF CommitInv
  <2>2. NoTxn \notin Txns
    BY ConstantsAssumption
  <2>3. CASE FinishAdmitted
    <3>1. /\ finish(current) /\ UNCHANGED <<log, versions, prepared>>
          /\ run = "finishing" /\ run' = "loop" /\ current' = NoTxn
          /\ tx' = [tx EXCEPT ![current] = IF @.pc = "returned" THEN IdleTx ELSE @]
      BY <2>3 DEF FinishAdmitted, durable
    <3>2. current \in Txns /\ tx[current].pc \in {"admitted", "returned"}
      BY <3>1 DEF CommitInv, SnapshotInv, LSNInv, CurrentInv, Processing
    <3>3. \A x \in Txns : x # current => tx'[x] = tx[x]
      BY <2>1, <3>1, <3>2
    <3>4. tx'[current].pc \in {"admitted", "idle"}
      BY <2>1, <3>1, <3>2 DEF IdleTx
    <3>5. ~(tx'[current].write /\ (tx'[current].pc \in {"begun", "snapshotting", "open", "queued"}
                                    \/ current' = current))
      BY <2>2, <3>1, <3>2, <3>4
    <3>6. ASSUME NEW t \in Txns, t = current PROVE CommitInv'
      <4>1. ~Registered(t)'
        BY <3>5, <3>6 DEF Registered
      <4> QED
        BY <2>2, <3>1, <3>3, <3>6, <4>1, <1>FinishKeeps
    <3> QED
      BY <3>2, <3>6
  <2>4. ASSUME NEW t \in Txns, AdmitWhileClosing(t) PROVE CommitInv'
    <3>1. /\ finish(t) /\ UNCHANGED <<log, versions, prepared, current>>
          /\ run = "loop" /\ run' = "exited" /\ tx' = [tx EXCEPT ![t].pc = "admitted"]
      BY <2>4 DEF AdmitWhileClosing, durable
    <3>2. current \notin Txns
      BY <3>1 DEF CommitInv, CurrentInv, Processing
    <3>3. (\A x \in Txns : x # t => tx'[x] = tx[x]) /\ tx'[t].pc = "admitted"
      BY <2>1, <3>1 DEF Tx
    <3>4. ~Registered(t)'
      BY <3>1, <3>2, <3>3 DEF Registered
    <3> QED
      BY <3>1, <3>2, <3>3, <3>4, <1>FinishKeeps
  <2> QED
    BY <2>3, <2>4

\* Applying the log, stopping and starting: no transaction is being processed.
<1>IdleKeeps.
  ASSUME CommitInv, SnapshotInv', QueuedInv',
         \/ StartApply \/ storeAppliedLSN \/ NotifyApplied \/ RunStops \/ RunFails \/ Initialize
         \/ \E r \in Refs : ApplyOperation(r)
  PROVE  CommitInv'
  <2> USE <1>IdleKeeps
  <2>1. /\ UNCHANGED <<log, versions, committed, history, current, tx>>
        /\ run \in {"loop", "applying", "stored", "down"}
        /\ run' \in {"loop", "applying", "stored", "exited"}
    BY DEF StartApply, storeAppliedLSN, NotifyApplied, RunStops, RunFails, Initialize,
           ApplyOperation, durable
  <2>2. current \notin Txns
    BY <2>1 DEF CommitInv, CurrentInv, Processing
  <2>3. CurrentInv'
    BY <2>1, <2>2 DEF CurrentInv
  <2> QED
    BY <2>1, <2>3, <1>RunKeeps DEF Registered

\* A restart forgets the entries and the history.
<1>CrashKeeps.
  ASSUME CommitInv, SnapshotInv', QueuedInv', Crash
  PROVE  CommitInv'
  <2> USE <1>CrashKeeps
  <2>1. /\ UNCHANGED <<log, versions>> /\ run' = "down" /\ current' = NoTxn
        /\ committed' = << >> /\ history' = EmptyHistory /\ tx' = [t \in Txns |-> IdleTx]
    BY DEF Crash, durable
  <2>2. \A t \in Txns : current' # t /\ ~tx'[t].write
    BY <2>1, ConstantsAssumption DEF IdleTx
  <2>3. CurrentInv' /\ EntriesInv' /\ ReadersInv'
    <3>1. DOMAIN committed' = {}
      BY SMTT(40), <2>1
    <3>2. \A t \in Txns : ~Registered(t)'
      BY <2>2 DEF Registered
    <3> QED
      BY <2>2, <3>1, <3>2 DEF CurrentInv, EntriesInv, ReadersInv
  <2>4. HistorySnapshots' = {HistoryLSN'}
    BY <2>2 DEF HistorySnapshots, Registered
  <2>5. history'.updaters = {} /\ \A r \in Refs : history'.root[r] = NoValue
    BY <2>1 DEF EmptyHistory, Nothing
  <2>6. HistoryInv' /\ PreparedInv'
    BY <2>1, <2>4, <2>5 DEF HistoryInv, PreparedInv
  <2>7. (\A l \in 1..Len(log) : log[l].base < l)' /\ NoLostUpdate'
    BY <2>1 DEF CommitInv, NoLostUpdate
  <2> QED
    BY <2>3, <2>6, <2>7 DEF CommitInv

<1>NextQueuedInv.
  CommitInv /\ [Next]_vars => QueuedInv'
  <2> SUFFICES ASSUME CommitInv, [Next]_vars, NEW t \in Txns, tx'[t].pc = "queued"
               PROVE  tx'[t].write
    BY DEF QueuedInv
  <2>1. tx \in [Txns -> Tx] /\ QueuedInv
    BY CommitTypes DEF CommitInv
  <2>2. CASE UNCHANGED tx
    BY <2>1, <2>2 DEF QueuedInv
  <2>3. ASSUME NEW x \in Txns, ClientStep(x) PROVE tx'[t].write
    <3>1. CASE \E u \in Updates : Commit(x, u)
      BY <2>1, <3>1, SMTT(40) DEF Commit, Tx, QueuedInv
    <3>2. CASE \E write \in BOOLEAN : Begin(x, write)
      <4>1. (\A y \in Txns : y # x => tx'[y] = tx[y]) /\ tx'[x].pc = "begun"
        BY ZenonT(40), <2>1, <3>2 DEF Begin, IdleTx
      <4> QED
        BY <2>1, <4>1 DEF QueuedInv
    <3>3. CASE SnapshotStep(x)
      <4>1. (\A y \in Txns : y # x => tx'[y] = tx[y]) /\ tx'[x].pc \in {"snapshotting", "open"}
        BY ZenonT(40), <2>1, <3>3 DEF SnapshotStep, StartSnapshot, CopyReference, FinishBegin, Tx
      <4> QED
        BY <2>1, <4>1 DEF QueuedInv
    <3>4. CASE AbortBegin(x) \/ Return(x)
      <4>1. (\A y \in Txns : y # x => tx'[y] = tx[y]) /\ tx'[x].pc = "idle"
        BY SMTT(40), <2>1, <3>4 DEF AbortBegin, Return, IdleTx
      <4> QED
        BY <2>1, <4>1 DEF QueuedInv
    <3>5. CASE ReturnAdmitted(x)
      <4>1. (\A y \in Txns : y # x => tx'[y] = tx[y]) /\ tx'[x].pc \in {"returned", "idle"}
        BY <2>1, <3>5 DEF ReturnAdmitted, IdleTx, Tx
      <4> QED
        BY <2>1, <4>1 DEF QueuedInv
    <3> QED
      BY <2>3, <3>1, <3>2, <3>3, <3>4, <3>5 DEF ClientStep, BeginCancelled, BeginStopped,
         Rollback, CommitCancelled, CommitStopped, ReceiveResult, AbandonResult
  <2>4. ASSUME NEW x \in Txns, Admit(x) \/ AdmitWhileClosing(x) PROVE tx'[t].write
    <3>1. tx' = [tx EXCEPT ![x].pc = "admitted"]
      BY <2>4 DEF Admit, AdmitWhileClosing
    <3> QED
      BY <2>1, <3>1, ZenonT(40) DEF Tx, QueuedInv
  <2>5. CASE RejectConflict \/ Reject \/ CommitPrepared \/ FinishAdmitted
    <3>1. CASE RejectConflict \/ Reject
      <4>1. tx' = [tx EXCEPT ![current].result = "error"]
        BY <3>1 DEF RejectConflict, Reject, SendError
      <4> QED
        BY <2>1, <4>1, ZenonT(40) DEF Tx, QueuedInv
    <3>2. CASE CommitPrepared
      <4>1. tx' = [tx EXCEPT ![current] = [@ EXCEPT !.result = "ok", !.commitLSN = appendedLSN]]
        BY <3>2 DEF CommitPrepared
      <4> QED
        BY <2>1, <4>1, ZenonT(40) DEF Tx, QueuedInv
    <3>3. CASE FinishAdmitted
      <4>1. tx' = [tx EXCEPT ![current] = IF @.pc = "returned" THEN IdleTx ELSE @]
        BY <3>3 DEF FinishAdmitted
      <4> QED
        BY <2>1, <4>1 DEF IdleTx, QueuedInv
    <3> QED
      BY <2>5, <3>1, <3>2, <3>3
  <2>6. CASE Crash
    BY <2>6 DEF Crash, IdleTx
  <2>7. UNCHANGED tx \/ (\E x \in Txns : ClientStep(x) \/ Admit(x) \/ AdmitWhileClosing(x))
          \/ RejectConflict \/ Reject \/ CommitPrepared \/ FinishAdmitted \/ Crash
    BY DEF Next, RunStep, vars, Prepare, AppendLogEntry, PushCommittedEntry, StartApply,
           ApplyOperation, storeAppliedLSN, NotifyApplied, RunStops, RunFails, Close, Initialize
  <2> QED
    BY <2>2, <2>3, <2>4, <2>5, <2>6, <2>7

\* One step for every action.
<1>1. SnapshotInv' /\ QueuedInv'
  BY SnapshotPreserved, <1>NextQueuedInv DEF CommitInv
<1>2. CASE \E t \in Txns : ClientStep(t)
  BY <1>1, <1>2, <1>ClientStepKeeps
<1>3. CASE \E t \in Txns : Admit(t)
  BY <1>1, <1>3, <1>AdmitKeeps
<1>4. CASE FinishAdmitted \/ \E t \in Txns : AdmitWhileClosing(t)
  BY <1>1, <1>4, <1>FinishAdmittedKeeps
<1>5. CASE Prepare
  BY <1>1, <1>5, <1>PrepareKeeps
<1>6. CASE RejectConflict \/ Reject
  BY <1>1, <1>6, <1>SendErrorKeeps DEF RejectConflict, Reject
<1>7. CASE AppendLogEntry
  BY <1>1, <1>7, <1>AppendKeeps
<1>8. CASE PushCommittedEntry
  BY <1>1, <1>8, <1>PushKeeps
<1>9. CASE CommitPrepared
  BY <1>1, <1>9, <1>CommitPreparedKeeps
<1>10. CASE \/ StartApply \/ storeAppliedLSN \/ NotifyApplied \/ RunStops \/ RunFails \/ Initialize
            \/ \E r \in Refs : ApplyOperation(r)
  BY <1>1, <1>10, <1>IdleKeeps
<1>11. CASE Crash
  BY <1>1, <1>11, <1>CrashKeeps
<1>12. CASE Close \/ UNCHANGED vars
  <2>1. UNCHANGED <<log, versions, run, current, committed, history, prepared, tx>>
    BY <1>12 DEF Close, durable, vars
  <2>2. /\ PushedLSN' = PushedLSN /\ HistoryLSN' = HistoryLSN
        /\ \A t \in Txns : Registered(t)' <=> Registered(t)
    BY <2>1 DEF PushedLSN, HistoryLSN, Registered
  <2>3. CurrentInv' /\ PreparedInv'
    BY <2>1, <2>2 DEF CommitInv, CurrentInv, PreparedInv
  <2> QED
    BY <1>1, <2>1, <2>2, <2>3, <1>Retained
<1> QED
  BY <1>2, <1>3, <1>4, <1>5, <1>6, <1>7, <1>8, <1>9, <1>10, <1>11, <1>12 DEF Next, RunStep

-----------------------------------------------------------------------------
(* Operators.                                                              *)

LOCAL INSTANCE WellFoundedInduction

\* A non-empty set of naturals has a least element.
LEMMA LeastNatural ==
  ASSUME NEW T, T \subseteq Nat, T # {}
  PROVE  \E n \in T : \A m \in T : n <= m
<1>1. \E n \in T : \A m \in T : ~ (<<m, n>> \in OpToRel(<, Nat))
  BY NatLessThanWellFounded, WFMin
<1>2. PICK n \in T : \A m \in T : ~ (<<m, n>> \in OpToRel(<, Nat))
  BY <1>1
<1>3. \A m \in T : n <= m
  <2>1. TAKE m \in T
  <2>2. m \in Nat /\ n \in Nat
    OBVIOUS
  <2>3. ~ (m < n)
    BY <1>2, <2>2 DEF OpToRel
  <2> QED
    BY SMTT(40), <2>2, <2>3
<1> QED
  BY <1>3

\* cleanCommittedEntry stops: the first entry with readers, or the end of the
\* list, exists.
LEMMA FirstReadAlways == FirstReadExists
<1> SUFFICES ASSUME NEW c \in Seq(CommittedEntry)
        PROVE  /\ FirstRead(c) \in 1..(Len(c) + 1)
               /\ \A j \in 1..(FirstRead(c) - 1) : c[j].readers = {}
               /\ FirstRead(c) <= Len(c) => c[FirstRead(c)].readers # {}
  BY DEF FirstReadExists
<1> DEFINE T == {i \in 1..(Len(c) + 1) : i <= Len(c) => c[i].readers # {}}
<1>1. Len(c) \in Nat
  BY LenProperties
<1>2. T \subseteq Nat /\ Len(c) + 1 \in T
  BY SMTT(40), <1>1
<1>3. PICK i \in T : \A m \in T : i <= m
  BY <1>2, LeastNatural
<1>4. \A j \in 1..(i - 1) : c[j].readers = {}
  <2>1. TAKE j \in 1..(i - 1)
  <2>2. j \in 1..(Len(c) + 1) /\ j <= Len(c) /\ ~ (i <= j)
    BY SMTT(40), <1>1, <1>3
  <2> QED
    BY <1>3, <2>2
<1> HIDE DEF T
<1>5. /\ i \in 1..(Len(c) + 1)
      /\ i <= Len(c) => c[i].readers # {}
  BY <1>3 DEF T
<1> QED
  BY <1>4, <1>5 DEF FirstRead

-----------------------------------------------------------------------------
(* The invariant and what follows from it.                                 *)

\* The invariant holds initially.
LEMMA InitSnapshotInv == Init => SnapshotInv
<1> SUFFICES ASSUME Init PROVE SnapshotInv
  OBVIOUS
<1>1. 0 \in LSNs /\ MaxLSN \in Nat
  BY SMTT(40), ConstantsAssumption DEF LSNs
<1>2. /\ log = << >> /\ Len(log) = 0 /\ log \in Seq(Entry)
      /\ committed \in Seq(CommittedEntry)
  BY EmptySeq DEF Init
<1>3. repo \in [Refs -> Values] /\ repo = [r \in Refs |-> InitValue]
  BY ConstantsAssumption DEF Init
<1>4. versions = <<repo>> /\ Len(versions) = 1 /\ versions \in Seq([Refs -> Values]) /\ versions[1] = repo
  BY SMTT(40), <1>3 DEF Init
<1>5. tx \in [Txns -> Tx] /\ \A t \in Txns : tx[t].pc = "idle" /\ tx[t].lsn = 0
  BY NothingType DEF Init, IdleTx
<1>6. DOMAIN locks = {}
  BY SMTT(40) DEF Init
<1>7. TypeOK
  <2>1. /\ storedLSN \in LSNs /\ appliedLSN \in LSNs /\ run = "down" /\ closing \in BOOLEAN
        /\ current \in Txns \cup {NoTxn} /\ todo \in SUBSET Refs
        /\ history \in History /\ prepared \in [Refs -> MaybeValues]
    BY <1>1, NothingType DEF Init
  <2>2. Len(log) <= MaxLSN /\ Len(versions) = Len(log) + 1
    BY SMTT(40), <1>1, <1>2, <1>4
  <2> QED
    BY <1>2, <1>3, <1>4, <1>5, <1>6, <2>1, <2>2 DEF TypeOK, History
<1>8. LSNInv
  BY SMTT(40), <1>2, <1>5 DEF Init, LSNInv, Processing
<1>9. LockInv /\ ApplyInv /\ SnapshotIsolation
  BY <1>5, <1>6 DEF Init, LockInv, ApplyInv, SnapshotIsolation, Snapshotting, Processing
<1>10. RepositoryIsReplay
  BY SMTT(40), <1>4 DEF Init, RepositoryIsReplay
<1> QED
  BY <1>7, <1>8, <1>9, <1>10 DEF SnapshotInv

\* Every step preserves the invariant.
LEMMA NextSnapshotInv == SnapshotInv /\ [Next]_vars => SnapshotInv'
  BY Zenon, SnapshotPreserved, FirstReadAlways

\* Whatever the transactions, references, values and the length of the log,
\* the invariant holds in every reachable state of the transaction manager.
THEOREM SnapshotInvariance == Spec => []SnapshotInv
BY InitSnapshotInv, NextSnapshotInv, PTL DEF Spec

\* Type correctness.
THEOREM TypeCorrect == Spec => []TypeOK
<1>1. SnapshotInv => TypeOK
  BY DEF SnapshotInv
<1> QED
  BY <1>1, SnapshotInvariance, PTL

\* Begin's promise: a transaction's snapshot is the repository as of exactly
\* its snapshot LSN, although it is copied while Run commits and applies.
THEOREM SnapshotIsolationHolds == Spec => []SnapshotIsolation
<1>1. SnapshotInv => SnapshotIsolation
  BY DEF SnapshotInv
<1> QED
  BY <1>1, SnapshotInvariance, PTL

\* Recovery: through any sequence of crashes and restarts the repository is
\* the replay of the log, but for the one entry that will be applied again.
THEOREM RepositoryIsReplayHolds == Spec => []RepositoryIsReplay
<1>1. SnapshotInv => RepositoryIsReplay
  BY DEF SnapshotInv
<1> QED
  BY <1>1, SnapshotInvariance, PTL

\* applyLogEntry finds the lock it waits on and closes each channel once.
THEOREM LocksReadyHolds == Spec => []LocksReady
<1>1. SnapshotInv => LocksReady
  BY DEF SnapshotInv, LockInv, LocksReady
<1> QED
  BY <1>1, SnapshotInvariance, PTL

\* No snapshot is copied while an entry is being applied.
THEOREM NoSnapshotDuringApplyHolds == Spec => []NoSnapshotDuringApply
<1>1. SnapshotInv => NoSnapshotDuringApply
  BY DEF SnapshotInv, LockInv, NoSnapshotDuringApply, Snapshotting
<1> QED
  BY <1>1, SnapshotInvariance, PTL

-----------------------------------------------------------------------------
(* The conflict check.                                                     *)

LEMMA InitCommitInv == Init => CommitInv
<1> SUFFICES ASSUME Init PROVE CommitInv
  OBVIOUS
<1>1. /\ log = << >> /\ run = "down" /\ current = NoTxn /\ committed = << >>
      /\ history = EmptyHistory /\ tx = [t \in Txns |-> IdleTx]
  BY DEF Init
<1>2. \A t \in Txns : current # t /\ ~tx[t].write
  BY <1>1, ConstantsAssumption DEF IdleTx
<1>3. QueuedInv /\ CurrentInv /\ EntriesInv /\ ReadersInv
  BY SMTT(40), <1>1, <1>2 DEF QueuedInv, CurrentInv, EntriesInv, ReadersInv, Registered, IdleTx
<1>4. HistorySnapshots = {HistoryLSN}
  BY <1>2 DEF HistorySnapshots, Registered
<1>5. history.updaters = {} /\ \A r \in Refs : history.root[r] = NoValue
  BY <1>1 DEF EmptyHistory, Nothing
<1>6. HistoryInv /\ PreparedInv
  BY <1>1, <1>4, <1>5 DEF HistoryInv, PreparedInv
<1>7. (\A l \in 1..Len(log) : log[l].base < l) /\ NoLostUpdate
  BY SMTT(40), <1>1 DEF NoLostUpdate
<1> QED
  BY <1>3, <1>6, <1>7, InitSnapshotInv DEF CommitInv

LEMMA NextCommitInv == CommitInv /\ [Next]_vars => CommitInv'
  BY Zenon, CommitPreserved, FirstReadAlways

\* The inductive invariant of the conflict check: committed entries reach from
\* the oldest registered writer to the end of the log, and for every snapshot
\* still held the history tells what changed since (TransactionManager.
\* updateCommittedEntry, cleanCommittedEntry, and conflict.History).
THEOREM CommitInvariance == Spec => []CommitInv
BY InitCommitInv, NextCommitInv, PTL DEF Spec

\* No lost update: an entry of the log only replaces values its transaction's
\* snapshot had (the conflict check of verifyReferences against the history).
THEOREM NoLostUpdateHolds == Spec => []NoLostUpdate
<1>1. CommitInv => NoLostUpdate
  BY DEF CommitInv
<1> QED
  BY <1>1, CommitInvariance, PTL

\* Whatever value the history holds is the reference's value at the end of the
\* log (conflict.History after commit and EvictLSN).
THEOREM HistoryIsCurrentHolds == Spec => []HistoryIsCurrent
<1>1. CommitInv => HistoryIsCurrent
  <2> SUFFICES ASSUME CommitInv, run \notin {"appended", "pushed"}, NEW r \in Refs
               PROVE  history.root[r] \in {NoValue, versions[Len(versions)][r]}
    BY DEF HistoryIsCurrent
  <2>1. HistoryLSN + 1 = Len(versions)
    BY CommitTypes DEF HistoryLSN, CommitInv
  <2> QED
    BY <2>1, HistoryAgrees
<1> QED
  BY <1>1, CommitInvariance, PTL

\* The walk from a writer's snapshot to the end of the log finds an entry for
\* every LSN in between, each with a log entry behind it (walkCommittedEntries,
\* which stops with an error at one it cannot read).
THEOREM WalkCompleteHolds == Spec => []WalkComplete
<1>1. CommitInv => WalkComplete
  <2> SUFFICES ASSUME CommitInv, NEW t \in Txns, Registered(t)
               PROVE  /\ \A l \in (tx[t].lsn + 1)..PushedLSN :
                           \E i \in DOMAIN committed : committed[i].lsn = l
                      /\ \A i \in DOMAIN committed : committed[i].lsn > tx[t].lsn => committed[i].logged
    BY DEF WalkComplete
  <2>1. /\ Len(committed) \in Nat /\ DOMAIN committed = 1..Len(committed)
        /\ \A i \in DOMAIN committed : committed[i] \in CommittedEntry /\ committed[i].lsn \in Nat
        /\ tx[t].lsn \in Nat /\ tx[t].entry \in Nat /\ PushedLSN \in Int
    BY SMTT(40), CommitTypes DEF CommitInv, PushedLSN
  <2>2. PICK j \in DOMAIN committed : committed[j].lsn = tx[t].entry /\ tx[t].entry <= tx[t].lsn
    BY DEF CommitInv, ReadersInv
  <2>3. \A i \in DOMAIN committed :
          /\ committed[i].lsn + (Len(committed) - i) = PushedLSN
          /\ ~committed[i].logged => i = 1
    BY DEF CommitInv, EntriesInv
  <2>4. ASSUME NEW l \in (tx[t].lsn + 1)..PushedLSN
        PROVE  \E i \in DOMAIN committed : committed[i].lsn = l
    <3> DEFINE i == Len(committed) - (PushedLSN - l)
    <3>1. committed[j].lsn + (Len(committed) - j) = PushedLSN /\ j \in 1..Len(committed)
      BY <2>1, <2>3
    <3>2. i \in 1..Len(committed)
      BY SMTT(40), <2>1, <2>2, <3>1
    <3>3. committed[i].lsn = l
      <4>1. committed[i].lsn + (Len(committed) - i) = PushedLSN /\ committed[i].lsn \in Nat
        BY ZenonT(40), <2>1, <2>3, <3>2
      <4> QED
        BY SMTT(40), <2>1, <4>1
    <3> QED
      BY <2>1, <3>2, <3>3
  <2>5. ASSUME NEW i \in DOMAIN committed, committed[i].lsn > tx[t].lsn
        PROVE  committed[i].logged
    <3>1. /\ committed[j].lsn + (Len(committed) - j) = PushedLSN /\ j \in 1..Len(committed)
          /\ committed[i].lsn + (Len(committed) - i) = PushedLSN /\ i \in 1..Len(committed)
      BY <2>1, <2>3
    <3>2. i > j
      BY SMTT(40), <2>1, <2>2, <2>5, <3>1
    <3>3. i # 1
      BY SMTT(40), <2>1, <3>1, <3>2
    <3> QED
      BY <2>3, <3>3
  <2> QED
    BY <2>4, <2>5
<1> QED
  BY <1>1, CommitInvariance, PTL

=============================================================================
