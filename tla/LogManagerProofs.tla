-------------------------- MODULE LogManagerProofs --------------------------
(***************************************************************************)
(* Proofs about LogManager: the invariant LogInv, what follows from it,    *)
(* and why every step is one of WriteAheadLog.                             *)
(***************************************************************************)
EXTENDS LogManager, TLAPS

-----------------------------------------------------------------------------
(* The operators of the model.                                             *)

\* What Initialize reads off a directory listing that has no gap.
LEMMA IntervalEnds ==
  ASSUME NEW lo \in Nat, NEW hi \in Nat, lo <= hi
  PROVE  Minimum(lo..hi) = lo /\ Maximum(lo..hi) = hi
<1>1. \A k \in lo..hi : lo <= k /\ hi >= k
  OBVIOUS
<1>2. lo \in lo..hi /\ hi \in lo..hi
  OBVIOUS
<1>3. \A x \in lo..hi : (\A k \in lo..hi : x <= k) => x = lo
  BY <1>1, <1>2
<1>4. \A x \in lo..hi : (\A k \in lo..hi : x >= k) => x = hi
  BY <1>1, <1>2
<1> QED
  BY <1>1, <1>2, <1>3, <1>4 DEF Minimum, Maximum

\* An entry past the last one extends the log.
LEMMA IntervalExtended ==
  ASSUME NEW lo \in Nat, NEW hi \in Nat, lo <= hi + 1
  PROVE  (lo..hi) \cup {hi + 1} = lo..(hi + 1)
<1>1. \A x : x \in (lo..hi) \cup {hi + 1} <=> x \in lo..(hi + 1)
  OBVIOUS
<1> QED
  BY <1>1

\* The larger of two LSNs, as used for the consumer's high-water mark.
LEMMA MaximumOfTwo ==
  ASSUME NEW a \in Nat, NEW b \in Nat
  PROVE  /\ Maximum({a, b}) \in {a, b}
         /\ a <= Maximum({a, b}) /\ b <= Maximum({a, b})
<1>1. \E x \in {a, b} : \A k \in {a, b} : x >= k
  <2>1. CASE a <= b
    BY <2>1
  <2>2. CASE b <= a
    BY <2>2
  <2> QED
    BY <2>1, <2>2
<1> QED
  BY <1>1 DEF Maximum

\* No position that is tracked lies below the low-water mark minus one.
LEMMA LowWaterMarkBounds ==
  ASSUME TypeOK
  PROVE  /\ LowWaterMark \in Nat
         /\ LowWaterMark <= appendedLSN + 1
         /\ LowWaterMark <= position.applied + 1
         /\ LowWaterMark <= position.consumer + 1
<1> DEFINE a == appendedLSN + 1
           b == position.applied + 1
           c == position.consumer + 1
           S == {a, b, c}
<1>1. a \in Nat /\ b \in Nat /\ c \in Nat
  BY ConstantsAssumption DEF TypeOK
<1> HIDE DEF a, b, c
<1>2. \E x \in S : \A k \in S : x <= k
  <2>1. CASE a <= b /\ a <= c
    BY <2>1, <1>1
  <2>2. CASE b <= a /\ b <= c
    BY <2>2, <1>1
  <2>3. CASE c <= a /\ c <= b
    BY <2>3, <1>1
  <2> QED
    BY <2>1, <2>2, <2>3, <1>1
<1>3. Minimum(S) \in S /\ \A k \in S : Minimum(S) <= k
  BY <1>2 DEF Minimum
<1>4. LowWaterMark = Minimum(S)
  BY DEF LowWaterMark, a, b, c
<1> QED
  BY <1>1, <1>3, <1>4 DEF a, b, c

\* A directory holds LSNs only.
LEMMA DirDomain ==
  ASSUME NEW d \in Dirs
  PROVE  DOMAIN d \subseteq LSNs
<1>1. PICK D \in SUBSET LSNs : d \in [D -> Entries]
  BY DEF Dirs
<1> QED
  BY <1>1

\* Moving an entry into wal/.
LEMMA WithFacts ==
  ASSUME NEW d \in Dirs, NEW l \in LSNs, NEW e \in Entries
  PROVE  /\ DOMAIN With(d, l, e) = DOMAIN d \cup {l}
         /\ With(d, l, e)[l] = e
         /\ \A k \in DOMAIN d \ {l} : With(d, l, e)[k] = d[k]
         /\ With(d, l, e) \in Dirs
<1>1. PICK D \in SUBSET LSNs : d \in [D -> Entries]
  BY DEF Dirs
<1>2. With(d, l, e) \in [D \cup {l} -> Entries]
  BY <1>1 DEF With
<1>3. With(d, l, e) \in Dirs
  BY <1>2, D \cup {l} \in SUBSET LSNs DEF Dirs
<1> QED
  BY <1>3 DEF With

\* Moving an entry out of wal/.
LEMMA WithoutFacts ==
  ASSUME NEW d \in Dirs, NEW l
  PROVE  /\ DOMAIN Without(d, l) = DOMAIN d \ {l}
         /\ \A k \in DOMAIN d \ {l} : Without(d, l)[k] = d[k]
         /\ Without(d, l) \in Dirs
<1>1. PICK D \in SUBSET LSNs : d \in [D -> Entries]
  BY DEF Dirs
<1>2. Without(d, l) \in [D \ {l} -> Entries]
  BY <1>1 DEF Without
<1>3. Without(d, l) \in Dirs
  BY <1>2, D \ {l} \in SUBSET LSNs DEF Dirs
<1> QED
  BY <1>3 DEF Without

-----------------------------------------------------------------------------
(* The invariant.                                                          *)

\* The bounds of the directory that the process sees.
LEMMA WalBounds ==
  ASSUME LogInv
  PROVE  \E lo, hi \in Nat :
           /\ lo \in {oldestLSN, oldestLSN + 1} /\ 1 <= lo
           /\ appendedLSN <= hi /\ hi <= MaxLSN
           /\ DOMAIN wal = lo..hi
           /\ lo <= storedLSN + 1 /\ lo <= consumed + 1 /\ lo <= hi + 1
           /\ ~Raft => hi <= appendedLSN + 1
<1>1. wal \in disks /\ oldestLSN \in Nat \ {0} /\ appendedLSN \in Nat /\ MaxLSN \in Nat
      /\ storedLSN \in Nat /\ storedLSN <= appendedLSN
  BY ConstantsAssumption DEF LogInv, TypeOK
<1>2. IsLog(wal)
  BY <1>1 DEF LogInv
<1> QED
  BY <1>1, <1>2 DEF IsLog

\* Initialize recovers the bounds of the log from the directory listing.
LEMMA InitializeBounds ==
  ASSUME LogInv, Initialize
  PROVE  /\ DOMAIN wal = oldestLSN'..appendedLSN'
         /\ oldestLSN' \in {oldestLSN, oldestLSN + 1}
         /\ oldestLSN' \in Nat /\ appendedLSN' \in Nat
         /\ 1 <= oldestLSN' /\ oldestLSN' <= MaxLSN + 1
         /\ appendedLSN <= appendedLSN' /\ appendedLSN' <= MaxLSN
         /\ oldestLSN' <= storedLSN + 1 /\ oldestLSN' <= consumed + 1
         /\ ~Raft => appendedLSN' <= appendedLSN + 1
         /\ position' = [applied |-> storedLSN, consumer |-> oldestLSN' - 1]
<1>1. PICK lo, hi \in Nat :
           /\ lo \in {oldestLSN, oldestLSN + 1} /\ 1 <= lo
           /\ appendedLSN <= hi /\ hi <= MaxLSN
           /\ DOMAIN wal = lo..hi
           /\ lo <= storedLSN + 1 /\ lo <= consumed + 1 /\ lo <= hi + 1
           /\ ~Raft => hi <= appendedLSN + 1
  BY WalBounds
<1>2. /\ storedLSN \in Nat /\ appendedLSN \in Nat /\ MaxLSN \in Nat
      /\ storedLSN <= appendedLSN
  BY ConstantsAssumption DEF LogInv, TypeOK
<1>3. oldestLSN' = lo /\ appendedLSN' = hi
  <2>1. CASE lo <= hi
    <3>1. DOMAIN wal # {} /\ Minimum(DOMAIN wal) = lo /\ Maximum(DOMAIN wal) = hi
      BY <1>1, <2>1, IntervalEnds
    <3> QED
      BY <3>1 DEF Initialize
  <2>2. CASE lo = hi + 1
    <3>1. DOMAIN wal = {}
      BY <1>1, <2>2
    <3>2. lo = storedLSN + 1 /\ hi = storedLSN
      BY <1>1, <1>2, <2>2
    <3> QED
      BY <3>1, <3>2 DEF Initialize
  <2> QED
    BY <1>1, <2>1, <2>2
<1>4. position' = [applied |-> storedLSN, consumer |-> oldestLSN' - 1]
  BY DEF Initialize
<1> QED
  BY <1>1, <1>2, <1>3, <1>4

\* Every step keeps every variable in its type.
LEMMA TypeStep ==
  ASSUME LogInv, [Next]_vars
  PROVE  TypeOK'
<1> USE ConstantsAssumption
<1>0. TypeOK
  BY DEF LogInv
<1>1. CASE Initialize
  <2>1. notified' \in 0..MaxLSN
    <3>1. notified' = Maximum({notified, appendedLSN'})
      BY <1>1 DEF Initialize
    <3>2. notified \in 0..MaxLSN /\ appendedLSN' \in 0..MaxLSN
      BY <1>0, <1>1, InitializeBounds DEF TypeOK
    <3> QED
      BY <3>1, <3>2, MaximumOfTwo
  <2>2. position' \in [applied : 0..MaxLSN, consumer : 0..MaxLSN]
    <3>1. oldestLSN' - 1 \in 0..MaxLSN /\ storedLSN \in 0..MaxLSN
      BY SMTT(40), <1>0, <1>1, InitializeBounds DEF TypeOK
    <3> QED
      BY <3>1, <1>1, InitializeBounds
  <2>3. appendedLSN' \in 0..MaxLSN /\ oldestLSN' \in 1..(MaxLSN + 1)
    BY <1>1, InitializeBounds
  <2> QED
    BY <1>0, <1>1, <2>1, <2>2, <2>3 DEF TypeOK, Initialize, Sync
<1>2. ASSUME NEW e \in Entries, AppendMove(e) PROVE TypeOK'
  <2>1. appendedLSN + 1 \in LSNs /\ wal \in Dirs
    BY <1>0, <1>2 DEF TypeOK, AppendMove, LSNs
  <2>2. With(wal, appendedLSN + 1, e) \in Dirs
    BY Zenon, <2>1, WithFacts
  <2> QED
    BY <1>0, <1>2, <2>2 DEF TypeOK, AppendMove, Rename
<1>3. CASE AppendSync
  <2>1. appendedLSN + 1 \in 0..MaxLSN
    <3>1. appendedLSN + 1 \in DOMAIN wal
      BY <1>3 DEF LogInv, ControlInv, AppendSync
    <3>2. DOMAIN wal \subseteq LSNs
      BY <1>0, DirDomain DEF TypeOK
    <3> QED
      BY <3>1, <3>2 DEF LSNs
  <2>2. notified' \in 0..MaxLSN
    BY <1>0, <1>3, <2>1, MaximumOfTwo DEF TypeOK, AppendSync
  <2> QED
    BY <1>0, <1>3, <2>1, <2>2 DEF TypeOK, AppendSync, Sync
<1>4. CASE AppendFails \/ DeleteTrailingFails
  BY <1>0, <1>4 DEF TypeOK, AppendFails, DeleteTrailingFails
<1>5. ASSUME NEW from \in LSNs, DeleteTrailing(from) PROVE TypeOK'
  BY <1>0, <1>5 DEF TypeOK, DeleteTrailing, LSNs
<1>6. CASE DeleteTrailingMove
  <2>1. Without(wal, appendedLSN) \in Dirs
    BY Zenon, <1>0, WithoutFacts DEF TypeOK
  <2>2. appendedLSN - 1 \in 0..MaxLSN
    BY <1>0, <1>6 DEF TypeOK, LogInv, ControlInv, DeleteTrailingMove
  <2> QED
    BY <1>0, <1>6, <2>1, <2>2 DEF TypeOK, DeleteTrailingMove, Rename
<1>7. CASE DeleteTrailingDone
  BY <1>0, <1>7 DEF TypeOK, DeleteTrailingDone
<1>8. CASE AcknowledgeApplied
  BY <1>0, <1>8 DEF TypeOK, AcknowledgeApplied
<1>9. ASSUME NEW l \in LSNs, AcknowledgeConsumed(l) PROVE TypeOK'
  BY <1>0, <1>9 DEF TypeOK, AcknowledgeConsumed, LSNs
<1>10. CASE Listen
  BY <1>0, <1>10 DEF TypeOK, Listen
<1>11. CASE PrunerWakes \/ PruneCheck \/ PruneReport \/ PrunerStops
  BY Zenon, <1>0, <1>11 DEF TypeOK, PrunerWakes, PruneCheck, PruneReport, PrunerStops
<1>12. CASE PruneMove
  <2>1. Without(wal, oldestLSN) \in Dirs
    BY Zenon, <1>0, WithoutFacts DEF TypeOK
  <2> QED
    BY <1>0, <1>12, <2>1 DEF TypeOK, PruneMove, Rename
<1>13. CASE PruneSync
  <2>1. oldestLSN + 1 \in 1..(MaxLSN + 1)
    BY <1>0, <1>13 DEF TypeOK, LogInv, ControlInv, PruneSync
  <2> QED
    BY <1>0, <1>13, <2>1 DEF TypeOK, PruneSync, Sync
<1>14. CASE PruneFails
  BY <1>0, <1>14 DEF TypeOK, PruneFails, Sync
<1>15. CASE Close \/ Closed
  BY <1>0, <1>15 DEF TypeOK, Close, Closed
<1>16. CASE ProcessCrash \/ PowerLoss
  BY <1>0, <1>16 DEF TypeOK, ProcessCrash, PowerLoss, Stopped
<1>17. CASE UNCHANGED vars
  BY <1>0, <1>17 DEF TypeOK, vars
<1> QED
  BY <1>1, <1>2, <1>3, <1>4, <1>5, <1>6, <1>7, <1>8, <1>9, <1>10, <1>11, <1>12, <1>13,
     <1>14, <1>15, <1>16, <1>17 DEF Next, MutexStep, PrunerStep

\* IsLog as a function of the variables it reads.
Shape(d, o, a, s, c) ==
  \E lo \in {o, o + 1}, hi \in a..MaxLSN :
    /\ DOMAIN d = lo..hi
    /\ lo <= s + 1 /\ lo <= c + 1
    /\ ~Raft => hi <= a + 1

\* A directory still is the log when what is outside wal/ only moves forward.
LEMMA ShapeMonotone ==
  ASSUME NEW d, NEW o \in Nat, NEW a \in Nat, NEW s \in Nat, NEW c \in Nat,
         NEW s2 \in Nat, NEW c2 \in Nat, s <= s2, c <= c2,
         Shape(d, o, a, s, c)
  PROVE  Shape(d, o, a, s2, c2)
<1>1. PICK lo \in {o, o + 1}, hi \in a..MaxLSN :
        /\ DOMAIN d = lo..hi
        /\ lo <= s + 1 /\ lo <= c + 1
        /\ ~Raft => hi <= a + 1
  BY DEF Shape
<1>2. lo <= s2 + 1 /\ lo <= c2 + 1
  BY <1>1
<1> QED
  BY <1>1, <1>2 DEF Shape

\* Every step leaves a log in every state that a power loss may restore, and
\* never acknowledges an entry that has not been appended.
LEMMA DiskStep ==
  ASSUME LogInv, [Next]_vars, TypeOK'
  PROVE  storedLSN' <= appendedLSN' /\ (\A d \in disks : IsLog(d))'
<1> DEFINE P(d) == Shape(d, oldestLSN', appendedLSN', storedLSN', consumed')
           Goal == storedLSN' <= appendedLSN' /\ \A d \in disks' : P(d)
<1> SUFFICES Goal
  BY DEF IsLog, Shape
<1>0. /\ storedLSN \in Nat /\ consumed \in Nat /\ oldestLSN \in Nat /\ appendedLSN \in Nat
      /\ MaxLSN \in Nat /\ 1 <= oldestLSN /\ storedLSN <= appendedLSN
      /\ wal \in disks /\ wal \in Dirs
      /\ storedLSN' \in Nat /\ consumed' \in Nat
  BY ConstantsAssumption DEF LogInv, TypeOK
<1>a. \A d \in disks : Shape(d, oldestLSN, appendedLSN, storedLSN, consumed)
  BY DEF LogInv, IsLog, Shape
<1>m. ASSUME oldestLSN' = oldestLSN, appendedLSN' = appendedLSN,
             storedLSN <= storedLSN', consumed <= consumed'
      PROVE  \A d \in disks : P(d)
  BY <1>a, <1>m, <1>0, ShapeMonotone
<1>b. PICK lo, hi \in Nat :
        /\ lo \in {oldestLSN, oldestLSN + 1} /\ 1 <= lo
        /\ appendedLSN <= hi /\ hi <= MaxLSN
        /\ DOMAIN wal = lo..hi
        /\ lo <= storedLSN + 1 /\ lo <= consumed + 1 /\ lo <= hi + 1
        /\ ~Raft => hi <= appendedLSN + 1
  BY WalBounds
<1>s. ASSUME disks' \subseteq disks, oldestLSN' = oldestLSN, appendedLSN' = appendedLSN,
             storedLSN' = storedLSN, consumed <= consumed'
      PROVE  Goal
  BY <1>s, <1>0, <1>m
<1>1. CASE Initialize
  <2>1. disks' = {wal} /\ storedLSN' = storedLSN /\ consumed' = consumed
    BY <1>1 DEF Initialize, Sync
  <2> QED
    BY SMTT(40), <1>0, <1>1, <2>1, InitializeBounds DEF Shape
<1>2. ASSUME NEW e \in Entries, AppendMove(e) PROVE Goal
  <2>1. hi = appendedLSN /\ appendedLSN + 1 \in LSNs
    BY <1>0, <1>b, <1>2 DEF AppendMove, LSNs
  <2>2. DOMAIN With(wal, appendedLSN + 1, e) = lo..(appendedLSN + 1)
    <3>1. DOMAIN With(wal, appendedLSN + 1, e) = DOMAIN wal \cup {appendedLSN + 1}
      BY Zenon, <1>0, <2>1, WithFacts
    <3> QED
      BY Zenon, <1>0, <1>b, <2>1, <3>1, IntervalExtended
  <2>3. P(With(wal, appendedLSN + 1, e))
    BY <1>0, <1>b, <1>2, <2>1, <2>2 DEF Shape, AppendMove, LSNs
  <2>4. \A d \in disks : P(d)
    BY <1>0, <1>2, <1>m DEF AppendMove
  <2> QED
    BY <1>0, <1>2, <2>3, <2>4 DEF AppendMove, Rename
<1>3. CASE AppendSync
  <2>1. appendedLSN + 1 \in DOMAIN wal
    BY <1>3 DEF LogInv, ControlInv, AppendSync
  <2>2. /\ disks' = {wal} /\ appendedLSN' = appendedLSN + 1
        /\ UNCHANGED <<storedLSN, consumed, oldestLSN>>
    BY <1>3 DEF AppendSync, Sync
  <2> QED
    BY <1>0, <1>b, <2>1, <2>2 DEF Shape
<1>4. CASE AppendFails \/ DeleteTrailingFails
  BY <1>0, <1>4, <1>s DEF AppendFails, DeleteTrailingFails
<1>5. ASSUME NEW from \in LSNs, DeleteTrailing(from) PROVE Goal
  BY <1>0, <1>5, <1>s DEF DeleteTrailing
<1>6. CASE DeleteTrailingMove
  <2>1. /\ Raft /\ storedLSN < truncateFrom /\ truncateFrom \in Nat
        /\ appendedLSN + 1 \notin DOMAIN wal
    BY <1>6 DEF LogInv, ControlInv, DeleteTrailingMove, TypeOK
  <2>2. /\ appendedLSN >= truncateFrom /\ appendedLSN' = appendedLSN - 1
        /\ disks' = disks \cup {Without(wal, appendedLSN)}
        /\ UNCHANGED <<storedLSN, consumed, oldestLSN>>
    BY <1>6 DEF DeleteTrailingMove, Rename
  <2>3. hi = appendedLSN /\ lo <= hi /\ storedLSN <= appendedLSN - 1
        /\ appendedLSN - 1 \in Nat
    BY <1>0, <1>b, <2>1, <2>2
  <2>4. DOMAIN Without(wal, appendedLSN) = lo..(appendedLSN - 1)
    <3>1. DOMAIN Without(wal, appendedLSN) = DOMAIN wal \ {appendedLSN}
      BY Zenon, <1>0, WithoutFacts
    <3> QED
      BY <1>0, <1>b, <2>3, <3>1
  <2>5. P(Without(wal, appendedLSN))
    BY <1>0, <1>b, <2>1, <2>2, <2>3, <2>4 DEF Shape
  <2>6. ASSUME NEW d \in disks PROVE P(d)
    <3>1. Shape(d, oldestLSN, appendedLSN, storedLSN, consumed)
      BY <1>a
    <3> QED
      BY <3>1, <1>0, <2>1, <2>2, <2>3 DEF Shape
  <2> QED
    BY <2>2, <2>3, <2>5, <2>6
<1>7. CASE DeleteTrailingDone
  BY <1>0, <1>7, <1>s DEF DeleteTrailingDone
<1>8. CASE AcknowledgeApplied
  <2>1. position.applied = storedLSN
    BY <1>8 DEF LogInv, ControlInv, AcknowledgeApplied
  <2>2. storedLSN' = storedLSN + 1 /\ storedLSN' <= appendedLSN
    BY <1>0, <1>8, <2>1 DEF AcknowledgeApplied
  <2> QED
    BY <1>0, <1>8, <2>2, <1>m DEF AcknowledgeApplied
<1>9. ASSUME NEW l \in LSNs, AcknowledgeConsumed(l) PROVE Goal
  <2>1. consumed <= consumed'
    BY <1>0, <1>9 DEF AcknowledgeConsumed, LSNs
  <2> QED
    BY <1>9, <2>1, <1>s DEF AcknowledgeConsumed
<1>10. CASE Listen
  BY <1>0, <1>10, <1>s DEF Listen
<1>11. CASE PrunerWakes \/ PruneCheck \/ PruneReport \/ PrunerStops
  BY <1>0, <1>11, <1>s DEF PrunerWakes, PruneCheck, PruneReport, PrunerStops
<1>12. CASE PruneMove
  <2>1. oldestLSN <= storedLSN /\ oldestLSN <= consumed
    BY <1>12 DEF LogInv, ControlInv, PruneMove
  <2>2. lo = oldestLSN
    BY <1>0, <1>b, <1>12 DEF PruneMove
  <2>3. DOMAIN Without(wal, oldestLSN) = (oldestLSN + 1)..hi
    <3>1. DOMAIN Without(wal, oldestLSN) = DOMAIN wal \ {oldestLSN}
      BY Zenon, <1>0, WithoutFacts
    <3> QED
      BY <1>0, <1>b, <2>2, <3>1
  <2>4. P(Without(wal, oldestLSN))
    BY <1>0, <1>b, <1>12, <2>1, <2>3 DEF Shape, PruneMove
  <2>5. \A d \in disks : P(d)
    BY <1>0, <1>12, <1>m DEF PruneMove
  <2> QED
    BY <1>0, <1>12, <2>4, <2>5 DEF PruneMove, Rename
<1>13. CASE PruneSync
  <2>1. oldestLSN <= storedLSN /\ oldestLSN \notin DOMAIN wal
    BY <1>13 DEF LogInv, ControlInv, PruneSync
  <2>2. lo = oldestLSN + 1
    BY <1>0, <1>b, <2>1
  <2>3. /\ disks' = {wal} /\ oldestLSN' = oldestLSN + 1
        /\ UNCHANGED <<storedLSN, consumed, appendedLSN>>
    BY <1>13 DEF PruneSync, Sync
  <2> QED
    BY SMTT(40), <1>0, <1>b, <2>2, <2>3 DEF Shape
<1>14. CASE PruneFails
  BY <1>0, <1>14, <1>s DEF PruneFails, Sync
<1>15. CASE Close \/ Closed
  BY <1>0, <1>15, <1>s DEF Close, Closed
<1>16. CASE ProcessCrash \/ PowerLoss
  BY <1>0, <1>16, <1>s DEF ProcessCrash, PowerLoss, Stopped
<1>17. CASE UNCHANGED vars
  BY <1>0, <1>17, <1>s DEF vars
<1> QED
  BY <1>1, <1>2, <1>3, <1>4, <1>5, <1>6, <1>7, <1>8, <1>9, <1>10, <1>11, <1>12, <1>13,
     <1>14, <1>15, <1>16, <1>17 DEF Next, MutexStep, PrunerStep

\* Every step keeps the control points in agreement with wal/.
LEMMA ControlStep ==
  ASSUME LogInv, [Next]_vars, TypeOK'
  PROVE  ControlInv'
<1>0. /\ storedLSN \in Nat /\ consumed \in Nat /\ oldestLSN \in Nat /\ appendedLSN \in Nat
      /\ truncateFrom \in Nat /\ notified \in Nat
      /\ MaxLSN \in Nat /\ 1 <= oldestLSN /\ storedLSN <= appendedLSN
      /\ wal \in disks /\ wal \in Dirs /\ Raft \in BOOLEAN
      /\ position \in [applied : Nat, consumer : Nat]
  BY ConstantsAssumption DEF LogInv, TypeOK
<1>b. PICK lo, hi \in Nat :
        /\ lo \in {oldestLSN, oldestLSN + 1} /\ 1 <= lo
        /\ appendedLSN <= hi /\ hi <= MaxLSN
        /\ DOMAIN wal = lo..hi
        /\ lo <= storedLSN + 1 /\ lo <= consumed + 1 /\ lo <= hi + 1
        /\ ~Raft => hi <= appendedLSN + 1
  BY WalBounds
<1>c. ControlInv
  BY DEF LogInv
<1>1. CASE Initialize
  <2>1. state' = "up" /\ mutex' = mutex /\ pruner' = "idle" /\ mutex = "free"
    BY <1>1, <1>c DEF Initialize, ControlInv
  <2>2. UNCHANGED <<wal, storedLSN, consumed>>
    BY <1>1 DEF Initialize, Sync
  <2>3. position'.applied = storedLSN /\ position'.consumer <= consumed
    BY SMTT(40), <1>0, <1>1, InitializeBounds
  <2> QED
    BY SMTT(60), <1>0, <1>1, <2>1, <2>2, <2>3, InitializeBounds DEF ControlInv
<1>2. ASSUME NEW e \in Entries, AppendMove(e) PROVE ControlInv'
  <2>1. hi = appendedLSN /\ appendedLSN + 1 \in LSNs
    BY <1>0, <1>b, <1>2 DEF AppendMove, LSNs
  <2>2. DOMAIN wal' = DOMAIN wal \cup {appendedLSN + 1}
    BY Zenon, <1>0, <1>2, <2>1, WithFacts DEF AppendMove, Rename
  <2>3. appendedLSN + 2 \notin DOMAIN wal' /\ appendedLSN + 1 \in DOMAIN wal'
    BY <1>0, <1>b, <2>1, <2>2
  <2>4. oldestLSN <= appendedLSN => (oldestLSN \in DOMAIN wal <=> oldestLSN \in DOMAIN wal')
    BY <1>0, <2>2
  <2>5. pruner = "moved" => oldestLSN <= appendedLSN
    BY <1>0, <1>c DEF ControlInv
  <2> QED
    BY <1>0, <1>2, <1>c, <2>2, <2>3, <2>4, <2>5 DEF ControlInv, AppendMove
<1>3. CASE AppendSync
  <2>1. /\ appendedLSN + 1 \in DOMAIN wal /\ appendedLSN + 2 \notin DOMAIN wal
        /\ state = "up"
    BY <1>3, <1>c DEF ControlInv, AppendSync
  <2>2. hi = appendedLSN + 1
    BY <1>0, <1>b, <2>1
  <2>3. appendedLSN + 3 \notin DOMAIN wal
    BY <1>0, <1>b, <2>2
  <2>4. (pruner \in {"idle", "checking", "deleting"} /\ oldestLSN <= appendedLSN + 1) =>
           oldestLSN \in DOMAIN wal
    BY <1>0, <1>c, <2>1 DEF ControlInv
  <2> QED
    BY <1>0, <1>3, <1>c, <2>1, <2>3, <2>4 DEF ControlInv, AppendSync, Sync
<1>4. CASE AppendFails \/ DeleteTrailingFails
  BY <1>0, <1>4, <1>c DEF ControlInv, AppendFails, DeleteTrailingFails
<1>5. ASSUME NEW from \in LSNs, DeleteTrailing(from) PROVE ControlInv'
  BY <1>0, <1>5, <1>c DEF ControlInv, DeleteTrailing
<1>6. CASE DeleteTrailingMove
  <2>1. /\ Raft /\ storedLSN < truncateFrom /\ state = "up"
        /\ appendedLSN + 1 \notin DOMAIN wal
    BY <1>6, <1>c DEF ControlInv, DeleteTrailingMove
  <2>2. DOMAIN wal' = DOMAIN wal \ {appendedLSN}
    BY Zenon, <1>0, <1>6, WithoutFacts DEF DeleteTrailingMove, Rename
  <2>3. appendedLSN' = appendedLSN - 1 /\ storedLSN < appendedLSN
    BY <1>0, <1>6, <2>1 DEF DeleteTrailingMove
  <2>4. appendedLSN' + 1 \notin DOMAIN wal' /\ appendedLSN' + 2 \notin DOMAIN wal'
    BY <1>0, <2>1, <2>2, <2>3
  <2>5. oldestLSN <= appendedLSN' => (oldestLSN \in DOMAIN wal <=> oldestLSN \in DOMAIN wal')
    BY <1>0, <2>2, <2>3
  <2>6. pruner = "moved" => oldestLSN <= appendedLSN'
    BY <1>0, <1>c, <2>3 DEF ControlInv
  <2> QED
    BY <1>0, <1>6, <1>c, <2>1, <2>3, <2>4, <2>5, <2>6 DEF ControlInv, DeleteTrailingMove
<1>7. CASE DeleteTrailingDone
  BY <1>0, <1>7, <1>c DEF ControlInv, DeleteTrailingDone
<1>8. CASE AcknowledgeApplied
  BY <1>0, <1>8, <1>c DEF ControlInv, AcknowledgeApplied
<1>9. ASSUME NEW l \in LSNs, AcknowledgeConsumed(l) PROVE ControlInv'
  <2>1. consumed <= consumed' /\ l <= consumed'
    BY <1>0, <1>9 DEF AcknowledgeConsumed, LSNs
  <2>2. position'.consumer = l /\ position'.applied = position.applied
    BY <1>0, <1>9 DEF AcknowledgeConsumed
  <2>3. consumed' \in Nat
    BY <1>0, <1>9 DEF AcknowledgeConsumed, LSNs
  <2> QED
    BY <1>0, <1>9, <1>c, <2>1, <2>2, <2>3 DEF ControlInv, AcknowledgeConsumed
<1>10. CASE Listen
  BY <1>0, <1>10, <1>c DEF ControlInv, Listen
<1>11. CASE PrunerWakes \/ PruneReport \/ PrunerStops
  BY <1>0, <1>11, <1>c DEF ControlInv, PrunerWakes, PruneReport, PrunerStops
<1>12. CASE PruneCheck
  <2>1. state # "down"
    BY <1>12, <1>c DEF ControlInv, PruneCheck
  <2>2. oldestLSN < LowWaterMark => oldestLSN <= storedLSN /\ oldestLSN <= consumed
    <3>1. TypeOK
      BY DEF LogInv
    <3> QED
      BY <1>0, <1>c, <2>1, <3>1, LowWaterMarkBounds DEF ControlInv
  <2> QED
    BY <1>0, <1>12, <1>c, <2>1, <2>2 DEF ControlInv, PruneCheck
<1>13. CASE PruneMove
  <2>1. DOMAIN wal' = DOMAIN wal \ {oldestLSN}
    BY Zenon, <1>0, <1>13, WithoutFacts DEF PruneMove, Rename
  <2>2. oldestLSN <= storedLSN /\ oldestLSN <= consumed
    BY <1>13, <1>c DEF ControlInv, PruneMove
  <2>3. appendedLSN + 1 \in DOMAIN wal => appendedLSN + 1 \in DOMAIN wal'
    BY <1>0, <2>1, <2>2
  <2> QED
    BY <1>0, <1>13, <1>c, <2>1, <2>2, <2>3 DEF ControlInv, PruneMove
<1>14. CASE PruneSync
  <2>1. oldestLSN <= storedLSN /\ oldestLSN \notin DOMAIN wal
    BY <1>14, <1>c DEF ControlInv, PruneSync
  <2>2. lo = oldestLSN + 1
    BY <1>0, <1>b, <2>1
  <2>3. oldestLSN + 1 <= appendedLSN => oldestLSN + 1 \in DOMAIN wal
    BY <1>0, <1>b, <2>2
  <2> QED
    BY <1>0, <1>14, <1>c, <2>3 DEF ControlInv, PruneSync, Sync
<1>15. CASE PruneFails
  BY <1>0, <1>15, <1>c DEF ControlInv, PruneFails, Sync
<1>16. CASE Close \/ Closed
  BY <1>0, <1>16, <1>c DEF ControlInv, Close, Closed
<1>17. CASE ProcessCrash \/ PowerLoss
  BY <1>0, <1>17, <1>c DEF ControlInv, ProcessCrash, PowerLoss, Stopped
<1>18. CASE UNCHANGED vars
  BY <1>18, <1>c DEF ControlInv, vars
<1> QED
  BY <1>1, <1>2, <1>3, <1>4, <1>5, <1>6, <1>7, <1>8, <1>9, <1>10, <1>11, <1>12, <1>13,
     <1>14, <1>15, <1>16, <1>17, <1>18 DEF Next, MutexStep, PrunerStep

\* Without Raft, every step keeps the contents of entries.
LEMMA StableStep ==
  ASSUME LogInv, [Next]_vars, TypeOK', ~Raft
  PROVE  StableInv'
<1>0. /\ storedLSN \in Nat /\ consumed \in Nat /\ oldestLSN \in Nat /\ appendedLSN \in Nat
      /\ notified \in Nat /\ MaxLSN \in Nat /\ storedLSN <= appendedLSN
      /\ wal \in disks /\ wal \in Dirs /\ disks \subseteq Dirs
  BY ConstantsAssumption DEF LogInv, TypeOK
<1>c. ControlInv
  BY DEF LogInv
<1>i. /\ consumed <= appendedLSN /\ notified <= appendedLSN
      /\ \A c, d \in disks : \A l \in DOMAIN c \cap DOMAIN d : c[l] = d[l]
      /\ \A d \in disks : appendedLSN + 1 \in DOMAIN d => appendedLSN + 1 \in DOMAIN wal
  BY DEF LogInv, StableInv
<1>s. ASSUME disks' \subseteq disks, appendedLSN' = appendedLSN,
             consumed' <= appendedLSN, notified' <= appendedLSN,
             wal' = wal \/ disks' = {wal'}
      PROVE  StableInv'
  BY <1>s, <1>i DEF StableInv
<1>1. CASE Initialize
  <2>1. disks' = {wal} /\ wal' = wal /\ consumed' = consumed
    BY <1>1 DEF Initialize, Sync
  <2>2. notified' = Maximum({notified, appendedLSN'})
    BY <1>1 DEF Initialize
  <2>3. notified' <= appendedLSN' /\ consumed <= appendedLSN'
    BY SMTT(40), <1>0, <1>1, <1>i, <2>2, InitializeBounds, MaximumOfTwo
  <2> QED
    BY <2>1, <2>3 DEF StableInv
<1>2. ASSUME NEW e \in Entries, AppendMove(e) PROVE StableInv'
  <2> DEFINE n == appendedLSN + 1
             w == With(wal, n, e)
  <2>1. n \in LSNs /\ n \notin DOMAIN wal
    BY <1>0, <1>2 DEF AppendMove, LSNs
  <2>2. /\ wal' = w /\ disks' = disks \cup {w}
        /\ UNCHANGED <<appendedLSN, consumed, notified>>
    BY <1>2 DEF AppendMove, Rename
  <2>3. /\ DOMAIN w = DOMAIN wal \cup {n}
        /\ \A k \in DOMAIN wal \ {n} : w[k] = wal[k]
    BY ZenonT(40), <1>0, <2>1, WithFacts
  <2>4. \A d \in disks : n \notin DOMAIN d
    BY <1>i, <2>1
  <2> HIDE DEF n, w
  <2>5. \A d \in disks : \A l \in DOMAIN d \cap DOMAIN w : d[l] = w[l]
    BY <1>0, <1>i, <2>3, <2>4
  <2>6. \A c, d \in disks' : \A l \in DOMAIN c \cap DOMAIN d : c[l] = d[l]
    BY <1>i, <2>2, <2>5
  <2>7. n = appendedLSN' + 1 /\ n \in DOMAIN wal'
    BY <2>2, <2>3 DEF n
  <2> QED
    BY <1>i, <2>2, <2>6, <2>7 DEF StableInv
<1>3. CASE AppendSync
  <2>1. disks' = {wal} /\ wal' = wal /\ consumed' = consumed /\ appendedLSN' = appendedLSN + 1
    BY <1>3 DEF AppendSync, Sync
  <2>2. notified' = Maximum({notified, appendedLSN'})
    BY <1>3 DEF AppendSync
  <2>3. notified' <= appendedLSN' /\ consumed <= appendedLSN'
    BY <1>0, <1>i, <2>1, <2>2, MaximumOfTwo
  <2> QED
    BY <2>1, <2>3 DEF StableInv
<1>4. CASE AppendFails \/ DeleteTrailingFails
  BY <1>i, <1>4, <1>s DEF AppendFails, DeleteTrailingFails
<1>5. CASE (\E from \in LSNs : DeleteTrailing(from)) \/ DeleteTrailingMove \/ DeleteTrailingDone
  BY <1>5, <1>c DEF ControlInv, DeleteTrailing, DeleteTrailingMove, DeleteTrailingDone
<1>6. CASE AcknowledgeApplied
  BY <1>i, <1>6, <1>s DEF AcknowledgeApplied
<1>7. ASSUME NEW l \in LSNs, AcknowledgeConsumed(l) PROVE StableInv'
  <2>1. consumed' <= appendedLSN
    BY <1>0, <1>i, <1>7 DEF AcknowledgeConsumed, LSNs
  <2> QED
    BY <1>i, <1>7, <1>s, <2>1 DEF AcknowledgeConsumed
<1>8. CASE Listen
  BY <1>i, <1>8, <1>s DEF Listen
<1>9. CASE PrunerWakes \/ PruneCheck \/ PruneReport \/ PrunerStops
  BY <1>i, <1>9, <1>s DEF PrunerWakes, PruneCheck, PruneReport, PrunerStops
<1>10. CASE PruneMove
  <2> DEFINE w == Without(wal, oldestLSN)
  <2>1. oldestLSN <= appendedLSN
    BY <1>0, <1>10, <1>c DEF ControlInv, PruneMove
  <2>2. /\ wal' = w /\ disks' = disks \cup {w}
        /\ UNCHANGED <<appendedLSN, consumed, notified>>
    BY <1>10 DEF PruneMove, Rename
  <2>3. /\ DOMAIN w = DOMAIN wal \ {oldestLSN}
        /\ \A k \in DOMAIN wal \ {oldestLSN} : w[k] = wal[k]
    BY <1>0, WithoutFacts
  <2> HIDE DEF w
  <2>4. \A d \in disks : \A l \in DOMAIN d \cap DOMAIN w : d[l] = w[l]
    BY <1>0, <1>i, <2>3
  <2>5. \A c, d \in disks' : \A l \in DOMAIN c \cap DOMAIN d : c[l] = d[l]
    BY <1>i, <2>2, <2>4
  <2>6. appendedLSN + 1 \in DOMAIN wal <=> appendedLSN + 1 \in DOMAIN w
    BY <1>0, <2>1, <2>3
  <2> QED
    BY <1>i, <2>2, <2>5, <2>6 DEF StableInv
<1>11. CASE PruneSync \/ PruneFails
  BY <1>0, <1>i, <1>11, <1>s DEF PruneSync, PruneFails, Sync
<1>12. CASE Close \/ Closed
  BY <1>i, <1>12, <1>s DEF Close, Closed
<1>13. CASE ProcessCrash \/ PowerLoss
  BY <1>0, <1>i, <1>13, <1>s DEF ProcessCrash, PowerLoss, Stopped
<1>14. CASE UNCHANGED vars
  BY <1>i, <1>14, <1>s DEF vars
<1> QED
  BY <1>1, <1>2, <1>3, <1>4, <1>5, <1>6, <1>7, <1>8, <1>9, <1>10, <1>11, <1>12, <1>13,
     <1>14 DEF Next, MutexStep, PrunerStep

\* LogManager keeps LogInv: the strengthening that makes its safety properties
\* inductive.
THEOREM LogInvariance == Spec => []LogInv
<1>1. Init => LogInv
  <2> SUFFICES ASSUME Init PROVE LogInv
    OBVIOUS
  <2>1. wal \in [{} -> Entries] /\ DOMAIN wal = {}
    BY DEF Init
  <2>2. wal \in Dirs
    BY SMTT(40), <2>1 DEF Dirs
  <2>3. TypeOK
    <3>1. 0 \in 0..MaxLSN /\ 1 \in 1..(MaxLSN + 1)
      BY ConstantsAssumption
    <3>2. disks \in SUBSET Dirs /\ wal \in disks
      BY <2>2 DEF Init
    <3>3. position \in [applied : 0..MaxLSN, consumer : 0..MaxLSN]
      BY <3>1 DEF Init
    <3> QED
      BY Zenon, <3>1, <3>2, <3>3 DEF Init, TypeOK
  <2>4. \A d \in disks : IsLog(d)
    <3>1. DOMAIN wal = 1..0
      BY <2>1
    <3>2. IsLog(wal)
      BY SMTT(40), <3>1, ConstantsAssumption DEF Init, IsLog
    <3> QED
      BY <3>2 DEF Init
  <2>5. ControlInv
    BY <2>1 DEF Init, ControlInv
  <2>6. StableInv
    BY DEF Init, StableInv
  <2> QED
    BY <2>3, <2>4, <2>5, <2>6 DEF Init, LogInv
<1>2. LogInv /\ [Next]_vars => LogInv'
  <2> SUFFICES ASSUME LogInv, [Next]_vars PROVE LogInv'
    OBVIOUS
  <2>1. TypeOK'
    BY TypeStep
  <2>2. storedLSN' <= appendedLSN' /\ (\A d \in disks : IsLog(d))'
    BY <2>1, DiskStep
  <2>3. ControlInv'
    BY <2>1, ControlStep
  <2>4. StableInv'
    <3>1. CASE Raft
      BY <3>1 DEF StableInv
    <3>2. CASE ~Raft
      BY <2>1, <3>2, StableStep
    <3> QED
      BY <3>1, <3>2
  <2> QED
    BY <2>1, <2>2, <2>3, <2>4 DEF LogInv
<1> QED
  BY <1>1, <1>2, PTL DEF Spec

\* Every variable of LogManager keeps its type.
THEOREM TypeCorrect == Spec => []TypeOK
<1>1. LogInv => TypeOK
  BY DEF LogInv
<1> QED
  BY <1>1, LogInvariance, PTL

\* A committed entry survives every crash and power loss until it has been
\* applied and consumed, whatever CompareAndAppendLogEntry, pruneLogEntries and
\* DeleteTrailingLogEntries were doing.
THEOREM CommittedIsDurableHolds == Spec => []CommittedIsDurable
<1>1. LogInv => CommittedIsDurable
  <2> SUFFICES ASSUME LogInv, NEW l \in LSNs, l <= appendedLSN,
                      l > storedLSN \/ l > consumed, NEW d \in disks
               PROVE  l \in DOMAIN d
    BY DEF CommittedIsDurable
  <2>1. /\ storedLSN \in Nat /\ consumed \in Nat /\ oldestLSN \in Nat /\ appendedLSN \in Nat
        /\ MaxLSN \in Nat
    BY ConstantsAssumption DEF LogInv, TypeOK
  <2>2. IsLog(d)
    BY DEF LogInv
  <2> QED
    BY <2>1, <2>2 DEF IsLog, LSNs
<1> QED
  BY <1>1, LogInvariance, PTL

\* No state that a power loss may restore has a gap, so what Initialize takes
\* for the log is the log.
THEOREM NoGapHolds == Spec => []NoGap
<1>1. LogInv => NoGap
  <2> SUFFICES ASSUME LogInv, NEW d \in disks, NEW l \in DOMAIN d, NEW k \in DOMAIN d,
                      NEW m \in l..k
               PROVE  m \in DOMAIN d
    BY DEF NoGap
  <2>1. oldestLSN \in Nat /\ appendedLSN \in Nat /\ MaxLSN \in Nat
    BY ConstantsAssumption DEF LogInv, TypeOK
  <2>2. IsLog(d)
    BY DEF LogInv
  <2> QED
    BY <2>1, <2>2 DEF IsLog
<1> QED
  BY <1>1, LogInvariance, PTL

\* The log never restarts below the LSN that has been applied.
THEOREM AppliedIsAppendedHolds == Spec => []AppliedIsAppended
<1>1. LogInv => AppliedIsAppended
  BY DEF LogInv, AppliedIsAppended
<1> QED
  BY <1>1, LogInvariance, PTL

\* DeleteLogEntry, called by the pruning task, finds its entry.
THEOREM PruneFindsEntryHolds == Spec => []PruneFindsEntry
<1>1. LogInv => PruneFindsEntry
  <2> SUFFICES ASSUME LogInv, pruner = "deleting" PROVE oldestLSN \in DOMAIN wal
    BY DEF PruneFindsEntry
  <2>1. storedLSN \in Nat /\ oldestLSN \in Nat /\ appendedLSN \in Nat
    BY ConstantsAssumption DEF LogInv, TypeOK
  <2> QED
    BY <2>1 DEF LogInv, ControlInv
<1> QED
  BY <1>1, LogInvariance, PTL

-----------------------------------------------------------------------------
(* The refinement.                                                         *)

\* The entries that the states in D hold, and those past the appended LSN a.
Committed(D, a) ==
  [l \in {k \in LSNs : (\E d \in D : k \in DOMAIN d) /\ k <= a} |->
     (CHOOSE d \in D : l \in DOMAIN d)[l]]
Pending(D, a) ==
  [l \in {k \in LSNs : (\E d \in D : k \in DOMAIN d) /\ k > a} |->
     (CHOOSE d \in D : l \in DOMAIN d)[l]]

\* The refinement mapping as a function of the variables it reads.
LEMMA Mapping ==
  /\ entries = Committed(disks, appendedLSN) /\ limbo = Pending(disks, appendedLSN)
  /\ entries' = Committed(disks', appendedLSN') /\ limbo' = Pending(disks', appendedLSN')
BY DEF entries, limbo, Present, Content, Committed, Pending

\* Just after a sync the mapping reads wal/.
LEMMA MappingOfOne ==
  ASSUME NEW w \in Dirs, NEW a \in Nat
  PROVE  /\ Committed({w}, a) = [l \in {k \in DOMAIN w : k <= a} |-> w[l]]
         /\ Pending({w}, a) = [l \in {k \in DOMAIN w : k > a} |-> w[l]]
<1>1. DOMAIN w \subseteq LSNs
  BY DirDomain
<1>2. \A l \in DOMAIN w : (CHOOSE d \in {w} : l \in DOMAIN d) = w
  OBVIOUS
<1>3. /\ {k \in LSNs : (\E d \in {w} : k \in DOMAIN d) /\ k <= a} = {k \in DOMAIN w : k <= a}
      /\ {k \in LSNs : (\E d \in {w} : k \in DOMAIN d) /\ k > a} = {k \in DOMAIN w : k > a}
  BY <1>1
<1> QED
  BY <1>2, <1>3 DEF Committed, Pending

\* What the mapping says of an entry that some state holds.
LEMMA MappingOfAny ==
  ASSUME NEW D \in SUBSET Dirs, NEW a \in Nat,
         \A c, d \in D : \A l \in DOMAIN c \cap DOMAIN d : c[l] = d[l]
  PROVE  /\ \A l : l \in DOMAIN Committed(D, a) <=> l <= a /\ \E d \in D : l \in DOMAIN d
         /\ \A l : l \in DOMAIN Pending(D, a) <=> l > a /\ \E d \in D : l \in DOMAIN d
         /\ \A d \in D : \A l \in DOMAIN d : l <= a => Committed(D, a)[l] = d[l]
         /\ \A d \in D : \A l \in DOMAIN d : l > a => Pending(D, a)[l] = d[l]
<1>1. \A d \in D : DOMAIN d \subseteq LSNs
  BY DirDomain
<1>2. \A d \in D : \A l \in DOMAIN d : (CHOOSE c \in D : l \in DOMAIN c)[l] = d[l]
  <2> SUFFICES ASSUME NEW d \in D, NEW l \in DOMAIN d
               PROVE  (CHOOSE c \in D : l \in DOMAIN c)[l] = d[l]
    OBVIOUS
  <2> DEFINE c == CHOOSE c \in D : l \in DOMAIN c
  <2>1. c \in D /\ l \in DOMAIN c
    OBVIOUS
  <2> HIDE DEF c
  <2>2. c[l] = d[l]
    BY <2>1
  <2> QED
    BY <2>2 DEF c
<1> QED
  BY <1>1, <1>2 DEF Committed, Pending

\* The same of the current state.
LEMMA MappingOfAll ==
  ASSUME LogInv, ~Raft
  PROVE  /\ \A l : l \in DOMAIN entries <=> l <= appendedLSN /\ \E d \in disks : l \in DOMAIN d
         /\ \A l : l \in DOMAIN limbo <=> l > appendedLSN /\ \E d \in disks : l \in DOMAIN d
         /\ \A d \in disks : \A l \in DOMAIN d : l <= appendedLSN => entries[l] = d[l]
         /\ \A d \in disks : \A l \in DOMAIN d : l > appendedLSN => limbo[l] = d[l]
<1>1. /\ disks \in SUBSET Dirs /\ appendedLSN \in Nat
      /\ \A c, d \in disks : \A l \in DOMAIN c \cap DOMAIN d : c[l] = d[l]
  BY DEF LogInv, TypeOK, StableInv
<1>2. entries = Committed(disks, appendedLSN) /\ limbo = Pending(disks, appendedLSN)
  BY Mapping
<1> QED
  BY Zenon, <1>1, <1>2, MappingOfAny

\* Once wal/ is in a state w that it went through, the abstract log has lost
\* at most its oldest entry, and that has been applied and consumed.
LEMMA LostOldest ==
  ASSUME LogInv, ~Raft, NEW w \in disks
  PROVE  [l \in {k \in DOMAIN w : k <= appendedLSN} |-> w[l]] \in Log!MayPrune
<1> DEFINE kept == [l \in {k \in DOMAIN w : k <= appendedLSN} |-> w[l]]
<1>0. /\ storedLSN \in Nat /\ consumed \in Nat /\ oldestLSN \in Nat /\ appendedLSN \in Nat
      /\ MaxLSN \in Nat /\ DOMAIN w \subseteq Nat
  BY ConstantsAssumption, DirDomain DEF LogInv, TypeOK, LSNs
<1>1. \A l \in DOMAIN kept : l \in DOMAIN entries /\ entries[l] = kept[l]
  BY MappingOfAll
<1>2. entries = [l \in DOMAIN entries |-> entries[l]]
  BY DEF entries
<1>3. CASE DOMAIN entries \subseteq DOMAIN kept
  <2>1. DOMAIN entries = DOMAIN kept
    BY <1>1, <1>3
  <2>2. kept = entries
    BY <1>1, <1>2, <2>1
  <2> QED
    BY <2>2 DEF Log!MayPrune
<1>4. ASSUME NEW k \in DOMAIN entries, k \notin DOMAIN kept
      PROVE  kept \in Log!MayPrune
  <2>1. PICK d \in disks : k \in DOMAIN d /\ k <= appendedLSN
    BY MappingOfAll
  <2>2. IsLog(d) /\ IsLog(w) /\ k \notin DOMAIN w
    BY <2>1, <1>4 DEF LogInv
  <2>3. /\ k = oldestLSN /\ k <= storedLSN /\ k <= consumed
        /\ \A l \in Nat : (l \in DOMAIN w /\ l <= appendedLSN) <=> l \in (k + 1)..appendedLSN
    BY SMTT(40), <1>0, <2>1, <2>2 DEF IsLog
  <2>4. \A l \in DOMAIN entries : l \in Nat /\ oldestLSN <= l /\ l <= appendedLSN
    <3> SUFFICES ASSUME NEW l \in DOMAIN entries
                 PROVE  l \in Nat /\ oldestLSN <= l /\ l <= appendedLSN
      OBVIOUS
    <3>1. PICK c \in disks : l \in DOMAIN c /\ l <= appendedLSN
      BY MappingOfAll
    <3>2. IsLog(c)
      BY DEF LogInv
    <3> QED
      BY <1>0, <3>1, <3>2 DEF IsLog
  <2>5. DOMAIN kept = DOMAIN entries \ {k}
    <3>1. \A l : l \in DOMAIN kept => l \in DOMAIN entries /\ l # k
      BY <1>1, <1>4
    <3>2. \A l : l \in DOMAIN entries /\ l # k => l \in DOMAIN kept
      BY <1>0, <2>3, <2>4
    <3> QED
      BY <3>1, <3>2
  <2>6. kept = Log!Without(entries, {k})
    BY <1>1, <2>5 DEF Log!Without
  <2> QED
    BY Zenon, <2>3, <2>4, <2>6 DEF Log!MayPrune
<1> QED
  BY <1>3, <1>4

\* At most one entry is pending, the next one, and then wal/ holds it.
LEMMA PendingIsNext ==
  ASSUME LogInv, ~Raft
  PROVE  /\ DOMAIN limbo = IF appendedLSN + 1 \in DOMAIN wal THEN {appendedLSN + 1} ELSE {}
         /\ \A d \in disks : {k \in DOMAIN d : k > appendedLSN} =
              IF appendedLSN + 1 \in DOMAIN d THEN {appendedLSN + 1} ELSE {}
<1>0. /\ oldestLSN \in Nat /\ appendedLSN \in Nat /\ MaxLSN \in Nat /\ wal \in disks
      /\ \A d \in disks : DOMAIN d \subseteq Nat
  BY ConstantsAssumption, DirDomain DEF LogInv, TypeOK, LSNs
<1>1. \A d \in disks : \A k \in DOMAIN d : k > appendedLSN => k = appendedLSN + 1
  <2> SUFFICES ASSUME NEW d \in disks, NEW k \in DOMAIN d, k > appendedLSN
               PROVE  k = appendedLSN + 1
    OBVIOUS
  <2>1. IsLog(d)
    BY DEF LogInv
  <2> QED
    BY <1>0, <2>1 DEF IsLog
<1>2. \A d \in disks : appendedLSN + 1 \in DOMAIN d => appendedLSN + 1 \in DOMAIN wal
  BY DEF LogInv, StableInv
<1>3. \A l : l \in DOMAIN limbo <=> l = appendedLSN + 1 /\ appendedLSN + 1 \in DOMAIN wal
  BY <1>0, <1>1, <1>2, MappingOfAll
<1>4. DOMAIN limbo = IF appendedLSN + 1 \in DOMAIN wal THEN {appendedLSN + 1} ELSE {}
  BY <1>3
<1>5. ASSUME NEW d \in disks
      PROVE  {k \in DOMAIN d : k > appendedLSN} =
               IF appendedLSN + 1 \in DOMAIN d THEN {appendedLSN + 1} ELSE {}
  <2>1. \A k : k \in {j \in DOMAIN d : j > appendedLSN} <=>
                  k = appendedLSN + 1 /\ appendedLSN + 1 \in DOMAIN d
    BY <1>0, <1>1
  <2> QED
    BY <2>1
<1> QED
  BY <1>4, <1>5

\* A state in which nothing but control has changed is the same abstract state.
LEMMA Stutter ==
  ASSUME UNCHANGED <<disks, appendedLSN, storedLSN, consumed>>
  PROVE  UNCHANGED Log!vars
BY Mapping DEF Log!vars

\* Syncing wal/, or losing what was not synced, prunes the abstract log and
\* may drop the pending entry.
LEMMA SyncRefines ==
  ASSUME LogInv, ~Raft, NEW w \in disks, disks' = {w},
         UNCHANGED <<appendedLSN, storedLSN, consumed>>
  PROVE  Log!Prune \/ Log!Drop
<1>0. appendedLSN \in Nat /\ w \in Dirs
  BY DEF LogInv, TypeOK
<1>1. entries' \in Log!MayPrune
  BY Zenon, <1>0, Mapping, MappingOfOne, LostOldest
<1>2. limbo' = [l \in {k \in DOMAIN w : k > appendedLSN} |-> w[l]]
  BY Zenon, <1>0, Mapping, MappingOfOne
<1>3. CASE appendedLSN + 1 \in DOMAIN w
  <2>1. DOMAIN limbo = {appendedLSN + 1} /\ {k \in DOMAIN w : k > appendedLSN} = {appendedLSN + 1}
    BY <1>3, PendingIsNext DEF LogInv, StableInv
  <2>2. limbo[appendedLSN + 1] = w[appendedLSN + 1]
    BY <1>0, <1>3, MappingOfAll
  <2>3. limbo = [l \in DOMAIN limbo |-> limbo[l]]
    BY DEF limbo
  <2>4. limbo' = limbo
    BY <1>2, <2>1, <2>2, <2>3
  <2> QED
    BY <1>1, <2>4 DEF Log!Prune
<1>4. CASE appendedLSN + 1 \notin DOMAIN w
  <2>1. {k \in DOMAIN w : k > appendedLSN} = {}
    BY <1>4, PendingIsNext
  <2>2. limbo' = << >>
    BY <1>2, <2>1
  <2> QED
    BY <1>1, <2>2 DEF Log!Drop
<1> QED
  BY <1>3, <1>4

\* Syncing wal/ and counting the entry that is in it commits that entry.
LEMMA CommitRefines ==
  ASSUME LogInv, ~Raft, disks' = {wal}, appendedLSN' = appendedLSN + 1,
         appendedLSN + 1 \in DOMAIN wal, UNCHANGED <<storedLSN, consumed>>
  PROVE  Log!Commit
<1> DEFINE n == appendedLSN + 1
           kept == [l \in {k \in DOMAIN wal : k <= appendedLSN} |-> wal[l]]
<1>0. appendedLSN \in Nat /\ wal \in Dirs /\ wal \in disks /\ DOMAIN wal \subseteq Nat
  BY DirDomain DEF LogInv, TypeOK, LSNs
<1>1. kept \in Log!MayPrune
  BY <1>0, LostOldest
<1>2. DOMAIN limbo = {n} /\ {k \in DOMAIN wal : k > appendedLSN} = {n}
  BY <1>0, PendingIsNext
<1>3. limbo[n] = wal[n]
  BY <1>0, MappingOfAll
<1>4. entries' = [l \in {k \in DOMAIN wal : k <= n} |-> wal[l]]
  BY Zenon, <1>0, Mapping, MappingOfOne
<1>5. limbo' = [l \in {k \in DOMAIN wal : k > n} |-> wal[l]]
  BY Zenon, <1>0, Mapping, MappingOfOne
<1>6. {k \in DOMAIN wal : k <= n} = DOMAIN kept \cup {n}
  BY <1>0
<1>7. {k \in DOMAIN wal : k > n} = {}
  BY <1>0, <1>2
<1>8. entries' = [l \in DOMAIN kept \cup {n} |-> IF l = n THEN limbo[l] ELSE kept[l]]
  BY <1>3, <1>4, <1>6
<1>9. limbo' = << >>
  BY <1>5, <1>7
<1> QED
  BY <1>1, <1>2, <1>8, <1>9 DEF Log!Commit

\* A move out of wal/ or into it changes nothing for the entries the states
\* before it held.
LEMMA MoveKeeps ==
  ASSUME LogInv, LogInv', ~Raft, NEW w, disks' = disks \cup {w},
         UNCHANGED <<appendedLSN, storedLSN, consumed>>,
         \A l \in DOMAIN w : l <= appendedLSN => \E d \in disks : l \in DOMAIN d
  PROVE  entries' = entries
<1>1. /\ disks' \in SUBSET Dirs /\ appendedLSN' \in Nat
      /\ \A c, d \in disks' : \A l \in DOMAIN c \cap DOMAIN d : c[l] = d[l]
  BY DEF LogInv, TypeOK, StableInv
<1>2. entries' = Committed(disks', appendedLSN')
  BY Mapping
<1>3. /\ \A l : l \in DOMAIN entries' <=> l <= appendedLSN /\ \E d \in disks' : l \in DOMAIN d
      /\ \A d \in disks' : \A l \in DOMAIN d : l <= appendedLSN => entries'[l] = d[l]
  BY Zenon, <1>1, <1>2, MappingOfAny
<1>4. /\ \A l : l \in DOMAIN entries <=> l <= appendedLSN /\ \E d \in disks : l \in DOMAIN d
      /\ \A d \in disks : \A l \in DOMAIN d : l <= appendedLSN => entries[l] = d[l]
  BY MappingOfAll
<1>5. DOMAIN entries' = DOMAIN entries
  <2>1. \A l : l \in DOMAIN entries' <=> l \in DOMAIN entries
    BY <1>3, <1>4
  <2> QED
    BY <2>1
<1>6. \A l \in DOMAIN entries : entries'[l] = entries[l]
  BY <1>3, <1>4
<1>7. entries = [l \in DOMAIN entries |-> entries[l]] /\ entries' = [l \in DOMAIN entries' |-> entries'[l]]
  BY Mapping DEF Committed
<1> QED
  BY <1>5, <1>6, <1>7

\* Every step of the manager is a step of the abstract log or leaves it alone.
LEMMA StepRefines ==
  ASSUME LogInv, LogInv', ~Raft, [Next]_vars
  PROVE  [Log!Next]_(Log!vars)
<1>0. /\ storedLSN \in Nat /\ consumed \in Nat /\ appendedLSN \in Nat /\ MaxLSN \in Nat
      /\ storedLSN <= appendedLSN /\ wal \in disks /\ wal \in Dirs
  BY ConstantsAssumption DEF LogInv, TypeOK
<1>c. ControlInv
  BY DEF LogInv
<1>1. CASE Initialize
  <2>1. disks' = {wal} /\ UNCHANGED <<storedLSN, consumed>>
    BY <1>1 DEF Initialize, Sync
  <2>2. CASE appendedLSN' = appendedLSN
    <3>1. Log!Prune \/ Log!Drop
      BY <1>0, <2>1, <2>2, SyncRefines
    <3> QED
      BY <3>1 DEF Log!Next
  <2>3. CASE appendedLSN' = appendedLSN + 1
    <3>1. appendedLSN + 1 \in DOMAIN wal
      <4>1. oldestLSN' <= storedLSN + 1 /\ DOMAIN wal = oldestLSN'..appendedLSN'
            /\ oldestLSN' \in Nat
        BY <1>1, InitializeBounds
      <4> QED
        BY <1>0, <2>3, <4>1
    <3>2. Log!Commit
      BY <2>1, <2>3, <3>1, CommitRefines
    <3> QED
      BY <3>2 DEF Log!Next
  <2>4. appendedLSN' \in {appendedLSN, appendedLSN + 1}
    BY <1>0, <1>1, InitializeBounds
  <2> QED
    BY <2>2, <2>3, <2>4
<1>2. ASSUME NEW e \in Entries, AppendMove(e) PROVE Log!Offer(e)
  <2> DEFINE n == appendedLSN + 1
             w == With(wal, n, e)
  <2>1. n \in LSNs /\ n \notin DOMAIN wal
    BY <1>0, <1>2 DEF AppendMove, LSNs
  <2>2. disks' = disks \cup {w} /\ UNCHANGED <<appendedLSN, storedLSN, consumed>>
    BY <1>2 DEF AppendMove, Rename
  <2>3. /\ DOMAIN w = DOMAIN wal \cup {n} /\ w[n] = e
        /\ \A k \in DOMAIN wal \ {n} : w[k] = wal[k]
    BY ZenonT(40), <1>0, <2>1, WithFacts
  <2>4. \A d \in disks : n \notin DOMAIN d
    BY <2>1 DEF LogInv, StableInv
  <2>5. DOMAIN limbo = {}
    BY <2>1, PendingIsNext
  <2>6. entries' = entries
    BY <1>0, <2>2, <2>3, MoveKeeps
  <2>7. limbo' = [l \in {n} |-> e]
    <3>1. /\ disks' \in SUBSET Dirs /\ appendedLSN' \in Nat
          /\ \A c, d \in disks' : \A l \in DOMAIN c \cap DOMAIN d : c[l] = d[l]
      BY DEF LogInv, TypeOK, StableInv
    <3>2. limbo' = Pending(disks', appendedLSN)
      BY <2>2, Mapping
    <3>3. /\ \A l : l \in DOMAIN limbo' <=> l > appendedLSN /\ \E d \in disks' : l \in DOMAIN d
          /\ \A d \in disks' : \A l \in DOMAIN d : l > appendedLSN => limbo'[l] = d[l]
      BY Zenon, <2>2, <3>1, <3>2, MappingOfAny
    <3>4. limbo'[n] = e
      BY <1>0, <2>2, <2>3, <3>3
    <3>5. \A l : l \in DOMAIN limbo' <=> l = n
      <4>1. \A d \in disks : \A l \in DOMAIN d : ~(l > appendedLSN)
        BY <2>5, MappingOfAll
      <4>2. w \in disks' /\ n \in DOMAIN w /\ n > appendedLSN
        BY <1>0, <2>2, <2>3
      <4> HIDE DEF n, w
      <4> QED
        BY <1>0, <2>2, <2>3, <3>3, <4>1, <4>2
    <3>6. limbo' = [l \in DOMAIN limbo' |-> limbo'[l]]
      BY <3>2 DEF Pending
    <3> HIDE DEF n, w
    <3>7. DOMAIN limbo' = {n}
      BY <3>5
    <3> QED
      BY <3>4, <3>6, <3>7
  <2> QED
    BY <2>2, <2>5, <2>6, <2>7 DEF Log!Offer
<1>3. CASE AppendSync
  <2>1. appendedLSN + 1 \in DOMAIN wal
    BY <1>3, <1>c DEF ControlInv, AppendSync
  <2>2. Log!Commit
    BY <1>3, <2>1, CommitRefines DEF AppendSync, Sync
  <2> QED
    BY <2>2 DEF Log!Next
<1>4. CASE AppendFails \/ DeleteTrailingFails
  BY <1>4, Stutter DEF AppendFails, DeleteTrailingFails
<1>5. CASE (\E from \in LSNs : DeleteTrailing(from)) \/ DeleteTrailingMove \/ DeleteTrailingDone
  BY <1>5, <1>c DEF ControlInv, DeleteTrailing, DeleteTrailingMove, DeleteTrailingDone
<1>6. CASE AcknowledgeApplied
  <2>1. position.applied = storedLSN
    BY <1>6, <1>c DEF ControlInv, AcknowledgeApplied
  <2>2. storedLSN' = storedLSN + 1 /\ storedLSN + 1 <= appendedLSN
        /\ UNCHANGED <<disks, appendedLSN, consumed>>
    BY <1>0, <1>6, <2>1 DEF AcknowledgeApplied
  <2>3. storedLSN + 1 \in DOMAIN wal
    <3>1. IsLog(wal)
      BY SMTT(40), <1>0 DEF LogInv
    <3> QED
      BY <1>0, <2>2, <3>1 DEF IsLog
  <2>4. storedLSN + 1 \in DOMAIN entries
    BY <1>0, <2>2, <2>3, MappingOfAll
  <2>5. entries' = entries /\ limbo' = limbo
    BY <2>2, Mapping
  <2>6. Log!Apply
    BY <2>2, <2>4, <2>5 DEF Log!Apply
  <2> QED
    BY <2>6 DEF Log!Next
<1>7. ASSUME NEW l \in LSNs, AcknowledgeConsumed(l) PROVE [Log!Next]_(Log!vars)
  <2>1. UNCHANGED <<disks, appendedLSN, storedLSN>> /\ l <= appendedLSN /\ l \in Nat
    BY <1>0, <1>7 DEF AcknowledgeConsumed, LogInv, StableInv, LSNs, TypeOK
  <2>2. CASE l > consumed
    <3>1. consumed' = l
      BY <1>7, <2>2 DEF AcknowledgeConsumed
    <3>2. entries' = entries /\ limbo' = limbo
      BY <2>1, Mapping
    <3>3. Log!Consume(l) /\ l \in 1..((appendedLSN + 1) - 1)
      BY <1>0, <2>1, <2>2, <3>1, <3>2 DEF Log!Consume, LSNs
    <3> QED
      BY <3>3 DEF Log!Next
  <2>3. CASE ~(l > consumed)
    BY <1>7, <2>1, <2>3, Stutter DEF AcknowledgeConsumed
  <2> QED
    BY <2>2, <2>3
<1>8. CASE Listen
  BY <1>8, Stutter DEF Listen
<1>9. CASE PrunerWakes \/ PruneCheck \/ PruneReport \/ PrunerStops
  BY <1>9, Stutter DEF PrunerWakes, PruneCheck, PruneReport, PrunerStops
<1>10. CASE PruneMove
  <2> DEFINE w == Without(wal, oldestLSN)
  <2>1. disks' = disks \cup {w} /\ UNCHANGED <<appendedLSN, storedLSN, consumed>>
    BY <1>10 DEF PruneMove, Rename
  <2>2. /\ DOMAIN w = DOMAIN wal \ {oldestLSN}
        /\ \A k \in DOMAIN wal \ {oldestLSN} : w[k] = wal[k]
    BY <1>0, WithoutFacts
  <2> HIDE DEF w
  <2>3. entries' = entries
    BY <1>0, <2>1, <2>2, MoveKeeps
  <2>4. limbo' = limbo
    <3>1. /\ disks' \in SUBSET Dirs /\ appendedLSN' \in Nat
          /\ \A c, d \in disks' : \A l \in DOMAIN c \cap DOMAIN d : c[l] = d[l]
      BY DEF LogInv, TypeOK, StableInv
    <3>2. limbo' = Pending(disks', appendedLSN)
      BY <2>1, Mapping
    <3>3. /\ \A l : l \in DOMAIN limbo' <=> l > appendedLSN /\ \E d \in disks' : l \in DOMAIN d
          /\ \A d \in disks' : \A l \in DOMAIN d : l > appendedLSN => limbo'[l] = d[l]
      BY Zenon, <2>1, <3>1, <3>2, MappingOfAny
    <3>4. /\ \A l : l \in DOMAIN limbo <=> l > appendedLSN /\ \E d \in disks : l \in DOMAIN d
          /\ \A d \in disks : \A l \in DOMAIN d : l > appendedLSN => limbo[l] = d[l]
      BY MappingOfAll
    <3>5. \A l : l \in DOMAIN limbo' <=> l \in DOMAIN limbo
      BY <1>0, <2>1, <2>2, <3>3, <3>4
    <3>6. DOMAIN limbo' = DOMAIN limbo
      BY <3>5
    <3>7. \A l \in DOMAIN limbo : limbo'[l] = limbo[l]
      <4>1. TAKE l \in DOMAIN limbo
      <4>2. l > appendedLSN /\ \E d \in disks : l \in DOMAIN d
        BY Zenon, <3>4
      <4>3. PICK d \in disks : l \in DOMAIN d
        BY <4>2
      <4>4. limbo[l] = d[l]
        BY Zenon, <3>4, <4>2, <4>3
      <4>5. d \in disks'
        BY <2>1, <4>3
      <4>6. limbo'[l] = d[l]
        BY Zenon, <3>3, <4>2, <4>3, <4>5
      <4> QED
        BY <4>4, <4>6
    <3>8. limbo = [l \in DOMAIN limbo |-> limbo[l]] /\ limbo' = [l \in DOMAIN limbo' |-> limbo'[l]]
      BY Mapping DEF Pending
    <3> QED
      BY <3>6, <3>7, <3>8
  <2> QED
    BY <2>1, <2>3, <2>4 DEF Log!vars
<1>11. CASE PruneSync
  <2>1. Log!Prune \/ Log!Drop
    BY <1>0, <1>11, SyncRefines DEF PruneSync, Sync
  <2> QED
    BY <2>1 DEF Log!Next
<1>12. CASE PruneFails
  <2>1. UNCHANGED <<appendedLSN, storedLSN, consumed>> /\ (disks' = {wal} \/ disks' = disks)
    BY <1>12 DEF PruneFails, Sync
  <2>2. CASE disks' = disks
    BY <2>1, <2>2, Stutter
  <2>3. CASE disks' = {wal}
    <3>1. Log!Prune \/ Log!Drop
      BY <1>0, <2>1, <2>3, SyncRefines
    <3> QED
      BY <3>1 DEF Log!Next
  <2> QED
    BY <2>1, <2>2, <2>3
<1>13. CASE Close \/ Closed
  BY <1>13, Stutter DEF Close, Closed
<1>14. CASE ProcessCrash
  BY <1>14, Stutter DEF ProcessCrash, Stopped
<1>15. CASE PowerLoss
  <2>1. PICK w \in disks : disks' = {w}
    BY <1>15 DEF PowerLoss
  <2>2. UNCHANGED <<appendedLSN, storedLSN, consumed>>
    BY <1>15 DEF PowerLoss, Stopped
  <2>3. Log!Prune \/ Log!Drop
    BY <2>1, <2>2, SyncRefines
  <2> QED
    BY <2>3 DEF Log!Next
<1>16. CASE UNCHANGED vars
  BY <1>16, Stutter DEF vars
<1>17. ASSUME NEW e \in Entries, AppendMove(e) PROVE [Log!Next]_(Log!vars)
  BY <1>2, <1>17 DEF Log!Next
<1> QED
  BY <1>1, <1>3, <1>4, <1>5, <1>6, <1>7, <1>8, <1>9, <1>10, <1>11, <1>12, <1>13, <1>14,
     <1>15, <1>16, <1>17 DEF Next, MutexStep, PrunerStep

\* Without Raft, the manager of the log implements WriteAheadLog: through
\* crashes, power losses and failed syncs, LSNs are consecutive and a committed
\* entry is neither lost nor replaced before it is applied and consumed.
THEOREM LogRefinement == ~Raft => (Spec => ImplementsLog)
<1> SUFFICES ASSUME ~Raft PROVE Spec => ImplementsLog
  OBVIOUS
<1>1. Init => Log!Init
  <2> SUFFICES ASSUME Init PROVE Log!Init
    OBVIOUS
  <2>1. disks = {<< >>} /\ appendedLSN = 0 /\ storedLSN = 0 /\ consumed = 0
    BY DEF Init
  <2>2. {k \in LSNs : (\E d \in disks : k \in DOMAIN d) /\ k <= appendedLSN} = {}
        /\ {k \in LSNs : (\E d \in disks : k \in DOMAIN d) /\ k > appendedLSN} = {}
    BY <2>1
  <2>3. entries = << >> /\ limbo = << >>
    BY <2>2, Mapping DEF Committed, Pending
  <2> QED
    BY <2>1, <2>3 DEF Log!Init
<1>2. LogInv /\ LogInv' /\ [Next]_vars => [Log!Next]_(Log!vars)
  BY StepRefines
<1> QED
  BY <1>1, <1>2, LogInvariance, PTL DEF Spec, ImplementsLog, Log!Spec

=============================================================================
