---------------------- MODULE ConcurrencyLimiterProofs ----------------------
(***************************************************************************)
(* The safety of the concurrency limiter, for any number of calls and any  *)
(* limits: LimiterInv is inductive.                                        *)
(*                                                                         *)
(* Counted is the part of it that relates the semaphores to the calls, as  *)
(* a predicate of a limiter and the places of the calls.  An action that   *)
(* wakes waiters is taken in two parts, both of which preserve Counted:    *)
(* the call moves, with its token, and then the waiters that left the list *)
(* move to running.                                                        *)
(***************************************************************************)
EXTENDS ConcurrencyLimiter, TLAPS, FiniteSetTheorems

UsingAt == {"admit", "acquire", "waiting", "timedOut", "running", "exit", "release", "put"}
QueuedAt == {"acquire", "waiting", "timedOut", "running", "exit"}
HoldingAt == {"running", "exit", "release"}

At(cl, S) == {c \in Calls : cl[c].at \in S}
Distinct(w) == \A i, j \in DOMAIN w : w[i] = w[j] => i = j
NoIdle(s) == s.waiters # << >> => Count(s) >= s.size

Counted(lm, cl) ==
  /\ lm \in Limiters /\ cl \in [Calls -> Call]
  /\ lm.refcount = Cardinality(At(cl, UsingAt))
  /\ Count(lm.queue) = Cardinality(At(cl, QueuedAt))
  /\ Count(lm.tokens) = Cardinality(At(cl, HoldingAt))
  /\ Waiting(lm.tokens) = At(cl, {"waiting"})
  /\ Distinct(lm.tokens.waiters) /\ lm.queue.waiters = << >>

---------------------------------------------------------------------------
\* The facts about sequences that the proofs below cite.
LEMMA SeqProperties ==
  ASSUME NEW S, NEW s \in Seq(S)
  PROVE  /\ Len(s) \in Nat /\ DOMAIN s = 1..Len(s) /\ \A i \in DOMAIN s : s[i] \in S
         /\ s = << >> <=> Len(s) = 0
  OBVIOUS

LEMMA PrefixedProperties ==
  ASSUME NEW S, NEW s \in Seq(S), NEW c \in S
  PROVE  /\ <<c>> \o s \in Seq(S) /\ Len(<<c>> \o s) = Len(s) + 1
         /\ (<<c>> \o s)[1] = c
         /\ \A i \in 1..Len(s) : (<<c>> \o s)[i + 1] = s[i]
  OBVIOUS

LEMMA SuffixProperties ==
  ASSUME NEW S, NEW s \in Seq(S), NEW f \in 0..Len(s)
  PROVE  LET w == SubSeq(s, f + 1, Len(s))
         IN  /\ w \in Seq(S) /\ Len(w) = Len(s) - f
             /\ \A i \in 1..(Len(s) - f) : w[i] = s[f + i]
  OBVIOUS

LEMMA ConcatProperties ==
  ASSUME NEW S, NEW s \in Seq(S), NEW t \in Seq(S)
  PROVE  /\ s \o t \in Seq(S) /\ Len(s \o t) = Len(s) + Len(t)
         /\ \A i \in 1..(Len(s) + Len(t)) : (s \o t)[i] = IF i <= Len(s) THEN s[i] ELSE t[i - Len(s)]
  OBVIOUS

\* Removing one element of a sequence keeps the others in their order.
LEMMA RemoveProperties ==
  ASSUME NEW S, NEW s \in Seq(S), NEW i \in 1..Len(s)
  PROVE  LET w == SubSeq(s, 1, i - 1) \o SubSeq(s, i + 1, Len(s))
         IN  /\ w \in Seq(S)
             /\ Len(w) = Len(s) - 1
             /\ \A j \in 1..(Len(s) - 1) : w[j] = IF j < i THEN s[j] ELSE s[j + 1]
<1> DEFINE a == SubSeq(s, 1, i - 1)
           b == SubSeq(s, i + 1, Len(s))
           w == a \o b
<1>1. /\ a \in Seq(S) /\ Len(a) = i - 1
      /\ \A j \in 1..(i - 1) : a[j] = s[j]
  OBVIOUS
<1>2. /\ b \in Seq(S) /\ Len(b) = Len(s) - i
      /\ \A j \in 1..(Len(s) - i) : b[j] = s[i + j]
  OBVIOUS
<1>3. Len(s) \in Nat
  OBVIOUS
<1> HIDE DEF a, b
<1>4. /\ w \in Seq(S) /\ Len(w) = Len(a) + Len(b)
      /\ \A j \in 1..(Len(a) + Len(b)) : w[j] = IF j <= Len(a) THEN a[j] ELSE b[j - Len(a)]
  BY Zenon, <1>1, <1>2, ConcatProperties
<1> HIDE DEF w
<1>5. Len(w) = Len(s) - 1
  BY <1>1, <1>2, <1>3, <1>4
<1>6. ASSUME NEW j \in 1..(Len(s) - 1)
      PROVE  w[j] = IF j < i THEN s[j] ELSE s[j + 1]
  <2>1. CASE j < i
    <3>1. j \in 1..(Len(a) + Len(b)) /\ j <= Len(a) /\ j \in 1..(i - 1)
      BY <1>1, <1>2, <1>3, <2>1
    <3> QED
      BY <1>1, <1>4, <2>1, <3>1, Zenon
  <2>2. CASE ~(j < i)
    <3>1. /\ j \in 1..(Len(a) + Len(b)) /\ ~(j <= Len(a))
          /\ j - Len(a) \in 1..(Len(s) - i) /\ i + (j - Len(a)) = j + 1
      BY <1>1, <1>2, <1>3, <2>2
    <3> QED
      BY <1>2, <1>4, <2>2, <3>1, Zenon
  <2> QED
    BY <2>1, <2>2
<1> QED
  BY Zenon, <1>4, <1>5, <1>6 DEF w, a, b

\* A list without repetitions, and the elements that a suffix of it lacks.
Members(s) == {s[i] : i \in DOMAIN s}
HasSize(S, n) == IsFiniteSet(S) /\ Cardinality(S) = n
IsSuffix(S, s, f, w) ==
  /\ s \in Seq(S) /\ f \in 0..Len(s) /\ w \in Seq(S) /\ Len(w) = Len(s) - f
  /\ \A i \in 1..(Len(s) - f) : w[i] = s[f + i]

LEMMA SuffixCount ==
  ASSUME NEW S, NEW s, NEW f, NEW w, Distinct(s), IsSuffix(S, s, f, w)
  PROVE  /\ Distinct(w) /\ Members(w) \subseteq Members(s)
         /\ HasSize(Members(s) \ Members(w), f)
<1> DEFINE gone == Members(s) \ Members(w)
<1>0. f \in 0..Len(s) /\ s \in Seq(S) /\ w \in Seq(S) /\ Len(w) = Len(s) - f
  BY DEF IsSuffix
<1>2. /\ Len(s) \in Nat /\ DOMAIN s = 1..Len(s) /\ DOMAIN w = 1..(Len(s) - f)
  BY <1>0, SeqProperties
<1>1. ASSUME NEW i \in DOMAIN w
      PROVE  f + i \in DOMAIN s /\ w[i] = s[f + i] /\ f + i \notin 1..f
  <2>1. f + i \in DOMAIN s /\ f + i \notin 1..f
    BY <1>0, <1>2
  <2>2. w[i] = s[f + i]
    BY <1>2, Zenon DEF IsSuffix
  <2> QED
    BY <2>1, <2>2
<1>3. Distinct(w)
  <2> SUFFICES ASSUME NEW i \in DOMAIN w, NEW j \in DOMAIN w, w[i] = w[j] PROVE i = j
    BY DEF Distinct
  <2>1. /\ f + i \in DOMAIN s /\ f + j \in DOMAIN s /\ w[i] = s[f + i] /\ w[j] = s[f + j]
    BY <1>1, Zenon
  <2>2. f + i = f + j
    BY <2>1, Zenon DEF Distinct
  <2> QED
    BY <1>0, <1>2, <2>2
<1>4. Members(w) \subseteq Members(s)
  BY <1>1, Zenon DEF Members
<1>5. gone = {s[i] : i \in 1..f}
  <2>1. ASSUME NEW i \in DOMAIN s, s[i] \notin Members(w)
        PROVE  i \in 1..f
    <3> SUFFICES ASSUME ~(i \in 1..f) PROVE FALSE
      OBVIOUS
    <3>1. i - f \in DOMAIN w /\ f + (i - f) = i
      BY <1>0, <1>2
    <3>2. w[i - f] = s[i]
      BY <1>1, <3>1
    <3> QED
      BY <2>1, <3>1, <3>2, Zenon DEF Members
  <2>2. ASSUME NEW i \in 1..f
        PROVE  i \in DOMAIN s /\ s[i] \notin Members(w)
    <3>1. i \in DOMAIN s
      BY <1>0, <1>2
    <3>2. ASSUME NEW j \in DOMAIN w PROVE s[i] # w[j]
      BY <1>1, <3>1, Zenon DEF Distinct
    <3> QED
      BY <3>1, <3>2, Zenon DEF Members
  <2> QED
    BY <2>1, <2>2, Zenon DEF Members
<1> DEFINE g == [i \in 1..f |-> s[i]]
<1>6. g \in Bijection(1..f, gone)
  <2>1. \A i \in 1..f : i \in DOMAIN s
    BY <1>0, <1>2
  <2>2. g \in [1..f -> gone] /\ \A e \in gone : \E i \in 1..f : g[i] = e
    BY <1>5
  <2>3. \A i, j \in 1..f : g[i] = g[j] => i = j
    BY <2>1 DEF Distinct
  <2> HIDE DEF g, gone
  <2> QED
    BY <2>2, <2>3 DEF Bijection, Injection, Surjection, IsInjective
<1>7. IsFiniteSet(gone) /\ Cardinality(gone) = f
  <2>1. ExistsBijection(1..f, gone)
    BY <1>6, Zenon DEF ExistsBijection
  <2>2. f \in Nat
    BY <1>0, <1>2
  <2> HIDE DEF gone
  <2> QED
    BY <2>1, <2>2, FS_CountingElements, FS_NatBijection, Zenon
<1> QED
  BY <1>3, <1>4, <1>7, Zenon DEF gone, HasSize

---------------------------------------------------------------------------
\* The operations of a semaphore.

LEMMA SemaphoreFacts ==
  ASSUME NEW s \in Semaphores
  PROVE  /\ s.size \in Nat /\ s.current \in Nat /\ s.leftover \in Nat /\ s.waiters \in Seq(Calls)
         /\ Count(s) \in Nat
  BY DEF Semaphores, Count

\* notifyWaiters takes a token for each waiter that it lets in, and stops only for
\* want of tokens or of waiters.
LEMMA NotifyFacts ==
  ASSUME NEW s \in Semaphores, Distinct(s.waiters)
  PROVE  LET n == NotifyWaiters(s)
         IN  /\ n \in Semaphores /\ n.size = s.size /\ Distinct(n.waiters) /\ NoIdle(n)
             /\ Waiting(n) \subseteq Waiting(s)
             /\ IsFiniteSet(Waiting(s) \ Waiting(n))
             /\ Count(n) = Count(s) + Cardinality(Waiting(s) \ Waiting(n))
             /\ s.waiters = << >> => n.waiters = << >>
<1> DEFINE n == NotifyWaiters(s)
           w == SubSeq(s.waiters, Free(s) + 1, Len(s.waiters))
<1>1. /\ s.size \in Nat /\ s.current \in Nat /\ s.leftover \in Nat /\ s.waiters \in Seq(Calls)
      /\ Len(s.waiters) \in Nat /\ Count(s) = s.current + s.leftover
  BY SemaphoreFacts, SeqProperties DEF Count
<1>2. /\ Free(s) \in 0..Len(s.waiters)
      /\ Free(s) = Len(s.waiters) \/ Count(s) + Free(s) >= s.size
  BY <1>1 DEF Free
<1>3. /\ w \in Seq(Calls) /\ Len(w) = Len(s.waiters) - Free(s)
      /\ \A i \in 1..(Len(s.waiters) - Free(s)) : w[i] = s.waiters[Free(s) + i]
  BY <1>1, <1>2, SuffixProperties, Zenon
<1>4. /\ n = [s EXCEPT !.current = s.current + Free(s), !.waiters = w]
      /\ n.size = s.size /\ n.leftover = s.leftover
      /\ n.current = s.current + Free(s) /\ n.waiters = w
  BY Zenon DEF NotifyWaiters, Semaphores
<1> HIDE DEF w, n
<1>5. n \in Semaphores
  <2>1. s.current + Free(s) \in Nat
    BY <1>1, <1>2
  <2> QED
    BY Zenon, <1>3, <1>4, <2>1 DEF Semaphores
<1>6. Count(n) = Count(s) + Free(s)
  BY <1>1, <1>2, <1>4 DEF Count
<1>7. NoIdle(n)
  BY SMTT(40), <1>1, <1>2, <1>3, <1>4, <1>6, SeqProperties DEF NoIdle
<1>8. s.waiters = << >> => n.waiters = << >>
  BY SMTT(40), <1>1, <1>2, <1>3, <1>4, SeqProperties
<1>9. /\ Distinct(w) /\ Waiting(n) \subseteq Waiting(s) /\ IsFiniteSet(Waiting(s) \ Waiting(n))
      /\ Cardinality(Waiting(s) \ Waiting(n)) = Free(s)
  <2>1. Waiting(s) = Members(s.waiters) /\ Waiting(n) = Members(w)
    BY <1>4, Zenon DEF Waiting, Members
  <2> DEFINE q == s.waiters
             f == Free(s)
  <2>2. /\ q \in Seq(Calls) /\ f \in 0..Len(q) /\ w \in Seq(Calls) /\ Len(w) = Len(q) - f
        /\ Distinct(q)
    BY Zenon, <1>1, <1>2, <1>3
  <2>3. \A i \in 1..(Len(q) - f) : w[i] = q[f + i]
    BY <1>3
  <2> HIDE DEF q, f
  <2>4. IsSuffix(Calls, q, f, w)
    BY <2>2, <2>3 DEF IsSuffix
  <2>5. /\ Distinct(w) /\ Members(w) \subseteq Members(q)
        /\ HasSize(Members(q) \ Members(w), f)
    <3>1. Distinct(q)
      BY <2>2
    <3> QED
      BY <3>1, <2>4, SuffixCount, Zenon
  <2> QED
    BY <2>1, <2>5 DEF q, f, HasSize
<1> QED
  BY <1>4, <1>5, <1>6, <1>7, <1>8, <1>9, Zenon DEF n

\* Release gives one token back, and never below zero.
LEMMA ReleasedFacts ==
  ASSUME NEW s \in Semaphores, Count(s) > 0
  PROVE  /\ Released(s) \in Semaphores /\ Released(s).size = s.size
         /\ Released(s).waiters = s.waiters /\ Count(Released(s)) = Count(s) - 1
<1>1. /\ s.size \in Nat /\ s.current \in Nat /\ s.leftover \in Nat /\ s.waiters \in Seq(Calls)
      /\ Count(s) = s.current + s.leftover
  BY SemaphoreFacts DEF Count
<1>2. CASE s.leftover > 0
  <2>1. Released(s) = [s EXCEPT !.leftover = s.leftover - 1]
    BY <1>2 DEF Released
  <2> QED
    BY <1>1, <1>2, <2>1 DEF Semaphores, Count
<1>3. CASE ~(s.leftover > 0)
  <2>1. Released(s) = [s EXCEPT !.current = s.current - 1]
    BY SMTT(40), <1>3 DEF Released
  <2> QED
    BY SMTT(40), <1>1, <1>3, <2>1 DEF Semaphores, Count
<1> QED
  BY <1>2, <1>3

\* Resize takes and gives back no token but those of the waiters that it lets in.
LEMMA ResizedFacts ==
  ASSUME NEW s \in Semaphores, NEW size \in Nat, Distinct(s.waiters), NoIdle(s)
  PROVE  LET r == Resized(s, size)
         IN  /\ r \in Semaphores /\ r.size = size /\ Distinct(r.waiters) /\ NoIdle(r)
             /\ Waiting(r) \subseteq Waiting(s)
             /\ IsFiniteSet(Waiting(s) \ Waiting(r))
             /\ Count(r) = Count(s) + Cardinality(Waiting(s) \ Waiting(r))
             /\ s.waiters = << >> => r.waiters = << >>
<1> DEFINE r == Resized(s, size)
<1>1. /\ s.size \in Nat /\ s.current \in Nat /\ s.leftover \in Nat /\ s.waiters \in Seq(Calls)
      /\ Count(s) = s.current + s.leftover /\ Count(s) \in Nat
  BY SemaphoreFacts DEF Count
<1>2. ASSUME NEW t, Waiting(t) = Waiting(s), Count(t) = Count(s)
      PROVE  /\ Waiting(t) \subseteq Waiting(s) /\ IsFiniteSet(Waiting(s) \ Waiting(t))
             /\ Count(t) = Count(s) + Cardinality(Waiting(s) \ Waiting(t))
  <2>1. Waiting(s) \ Waiting(t) = {}
    BY Zenon, <1>2
  <2> QED
    <3>1. IsFiniteSet(Waiting(s) \ Waiting(t)) /\ Cardinality(Waiting(s) \ Waiting(t)) = 0
      BY <2>1, FS_EmptySet, Zenon
    <3> QED
      BY <1>1, <1>2, <3>1
<1>3. CASE size = s.size
  <2>1. r = s
    BY <1>3 DEF Resized
  <2>2. /\ Waiting(s) \subseteq Waiting(s) /\ IsFiniteSet(Waiting(s) \ Waiting(s))
        /\ Count(s) = Count(s) + Cardinality(Waiting(s) \ Waiting(s))
    BY <1>2
  <2> QED
    BY Zenon, <1>3, <2>1, <2>2
<1>4. CASE size # s.size /\ size > Count(s)
  <2> DEFINE t == [s EXCEPT !.size = size, !.leftover = 0, !.current = Count(s)]
  <2>1. r = NotifyWaiters(t)
    BY <1>4, Zenon DEF Resized
  <2>2. /\ t \in Semaphores /\ t.size = size /\ t.waiters = s.waiters
        /\ t.current = Count(s) /\ t.leftover = 0
    BY Zenon, <1>1 DEF Semaphores
  <2> HIDE DEF t, r
  <2>3. Count(t) = Count(s) /\ Waiting(t) = Waiting(s)
    BY <1>1, <2>2 DEF Count, Waiting
  <2> QED
    BY <2>1, <2>2, <2>3, NotifyFacts, Zenon DEF r
<1>5. CASE size # s.size /\ ~(size > Count(s))
  <2> DEFINE t == [s EXCEPT !.size = size, !.current = size, !.leftover = Count(s) - size]
  <2>1. r = t
    BY <1>5, Zenon DEF Resized
  <2>2. /\ t \in Semaphores /\ t.size = size /\ t.waiters = s.waiters
        /\ t.current = size /\ t.leftover = Count(s) - size
    <3>1. Count(s) - size \in Nat
      BY <1>1, <1>5
    <3> QED
      BY Zenon, <1>1, <3>1 DEF Semaphores
  <2> HIDE DEF t, r
  <2>3. Count(t) = Count(s) /\ Waiting(t) = Waiting(s)
    BY <1>1, <2>2 DEF Count, Waiting
  <2>4. NoIdle(t)
    BY SMTT(40), <1>1, <1>5, <2>2, <2>3 DEF NoIdle
  <2> QED
    BY <1>2, <2>1, <2>2, <2>3, <2>4, Zenon DEF r
<1> QED
  BY <1>3, <1>4, <1>5

\* Taking one waiter off the list leaves the others.
LEMMA WithoutFacts ==
  ASSUME NEW s \in Semaphores, Distinct(s.waiters), NEW c \in Waiting(s)
  PROVE  LET w == Without(s, c)
         IN  /\ w \in Semaphores /\ w.size = s.size /\ Count(w) = Count(s)
             /\ Distinct(w.waiters) /\ Waiting(w) = Waiting(s) \ {c}
<1> DEFINE i == CHOOSE j \in DOMAIN s.waiters : s.waiters[j] = c
           q == s.waiters
           w == SubSeq(q, 1, i - 1) \o SubSeq(q, i + 1, Len(q))
<1>1. q \in Seq(Calls) /\ Len(q) \in Nat /\ DOMAIN q = 1..Len(q)
  BY SMTT(40), SemaphoreFacts, SeqProperties
<1>2. i \in 1..Len(q) /\ q[i] = c
  BY <1>1 DEF Waiting
<1>3. Without(s, c) = [s EXCEPT !.waiters = w]
  BY Zenon DEF Without
<1> HIDE DEF i, q
<1>4. /\ w \in Seq(Calls) /\ Len(w) = Len(q) - 1
      /\ \A j \in 1..(Len(q) - 1) : w[j] = IF j < i THEN q[j] ELSE q[j + 1]
  BY Zenon, <1>1, <1>2, RemoveProperties
<1> HIDE DEF w
<1>5. DOMAIN w = 1..(Len(q) - 1)
  BY Zenon, <1>4, SeqProperties
<1> DEFINE t == [s EXCEPT !.waiters = w]
<1>6. /\ t \in Semaphores /\ t.size = s.size /\ t.waiters = w
      /\ t.current = s.current /\ t.leftover = s.leftover
  BY Zenon, <1>4, SemaphoreFacts DEF Semaphores
<1> HIDE DEF t
<1> DEFINE at(j) == IF j < i THEN j ELSE j + 1
<1>7. \A j \in DOMAIN w : at(j) \in DOMAIN q /\ at(j) # i /\ w[j] = q[at(j)]
  BY <1>1, <1>2, <1>4, <1>5
<1>8. \A j, l \in DOMAIN w : at(j) = at(l) => j = l
  BY <1>1, <1>2, <1>5
<1>9. \A l \in DOMAIN q : l # i => \E j \in DOMAIN w : at(j) = l
  <2> SUFFICES ASSUME NEW l \in DOMAIN q, l # i PROVE \E j \in DOMAIN w : at(j) = l
    OBVIOUS
  <2>1. CASE l < i
    BY <1>1, <1>2, <1>5, <2>1
  <2>2. CASE ~(l < i)
    <3>1. l - 1 \in DOMAIN w /\ at(l - 1) = l
      BY SMTT(40), <1>1, <1>2, <1>5, <2>2
    <3> QED
      BY <3>1
  <2> QED
    BY <2>1, <2>2
<1> HIDE DEF at
<1>10. Distinct(q) /\ i \in DOMAIN q
  BY SMTT(40), <1>1, <1>2 DEF q
<1>11. Distinct(w)
  BY <1>7, <1>8, <1>10, ZenonT(40) DEF Distinct
<1>12. {w[j] : j \in DOMAIN w} = {q[j] : j \in DOMAIN q} \ {c}
  <2>1. \A j \in DOMAIN w : w[j] \in {q[l] : l \in DOMAIN q} /\ w[j] # c
    BY <1>2, <1>7, <1>10, Zenon DEF Distinct
  <2>2. \A l \in DOMAIN q : q[l] # c => q[l] \in {w[j] : j \in DOMAIN w}
    BY <1>2, <1>7, <1>9, ZenonT(40)
  <2> QED
    BY <2>1, <2>2, Zenon
<1>13. Count(t) = Count(s)
  BY <1>6 DEF Count
<1>14. Waiting(t) = Waiting(s) \ {c}
  BY <1>6, <1>12, Zenon DEF Waiting, q
<1> QED
  BY <1>3, <1>6, <1>11, <1>13, <1>14, Zenon DEF t

---------------------------------------------------------------------------
\* Where the calls are.

LEMMA AtFinite ==
  ASSUME NEW cl, NEW S
  PROVE  IsFiniteSet(At(cl, S)) /\ Cardinality(At(cl, S)) \in Nat
  BY LimiterAssumption, FS_Subset, FS_CardinalityType, Zenon DEF At

\* How the number of the calls in S changes with a call.
Delta(S, from, to) == IF from \notin S /\ to \in S THEN 1
                      ELSE IF from \in S /\ to \notin S THEN -1 ELSE 0

OnlyMoves(cl, new, c) == \A x \in Calls : x # c => new[x].at = cl[x].at

LEMMA Moves ==
  ASSUME NEW cl, NEW new, NEW c \in Calls, NEW S, OnlyMoves(cl, new, c)
  PROVE  Cardinality(At(new, S)) = Cardinality(At(cl, S)) + Delta(S, cl[c].at, new[c].at)
<1>1. IsFiniteSet(At(cl, S)) /\ Cardinality(At(cl, S)) \in Nat
  BY AtFinite
<1>2. CASE new[c].at \in S <=> cl[c].at \in S
  <2>1. At(new, S) = At(cl, S)
    BY <1>2 DEF At, OnlyMoves
  <2>2. Delta(S, cl[c].at, new[c].at) = 0
    BY <1>2 DEF Delta
  <2> QED
    BY <1>1, <2>1, <2>2
<1>3. CASE cl[c].at \notin S /\ new[c].at \in S
  <2>1. At(new, S) = At(cl, S) \cup {c} /\ c \notin At(cl, S)
    BY <1>3 DEF At, OnlyMoves
  <2>2. Cardinality(At(cl, S) \cup {c}) = Cardinality(At(cl, S)) + 1
    BY <1>1, <2>1, FS_AddElement, Zenon
  <2> QED
    BY Zenon, <1>1, <1>3, <2>1, <2>2 DEF Delta
<1>4. CASE cl[c].at \in S /\ new[c].at \notin S
  <2>1. At(new, S) = At(cl, S) \ {c} /\ c \in At(cl, S)
    BY <1>4 DEF At, OnlyMoves
  <2>2. Cardinality(At(cl, S) \ {c}) = Cardinality(At(cl, S)) - 1
    BY <1>1, <2>1, FS_RemoveElement, Zenon
  <2> QED
    BY Zenon, <1>1, <1>4, <2>1, <2>2 DEF Delta
<1> QED
  BY <1>2, <1>3, <1>4, Zenon

LEMMA SomeAt ==
  ASSUME NEW cl, NEW c \in Calls, NEW S, cl[c].at \in S
  PROVE  Cardinality(At(cl, S)) > 0
<1>1. At(cl, S) # {}
  BY DEF At
<1>2. Cardinality(At(cl, S)) # 0 /\ Cardinality(At(cl, S)) \in Nat
  BY <1>1, AtFinite, FS_EmptySet, Zenon
<1> QED
  BY <1>2

\* The list of the tokens is as long as there are waiters.
LEMMA WaitersLength ==
  ASSUME NEW lm, NEW cl, Counted(lm, cl)
  PROVE  Len(lm.tokens.waiters) = Cardinality(At(cl, {"waiting"}))
<1> DEFINE s == lm.tokens.waiters
<1>1. lm.tokens \in Semaphores /\ Distinct(s) /\ Members(s) = At(cl, {"waiting"})
  BY DEF Counted, Limiters, Waiting, Members
<1>2. s \in Seq(Calls) /\ Len(s) \in Nat /\ Len(s) \in 0..Len(s)
  BY <1>1, SemaphoreFacts, SeqProperties
<1> HIDE DEF s
<1> DEFINE w == << >>
<1>3. w \in Seq(Calls) /\ Len(w) = Len(s) - Len(s) /\ DOMAIN w = {} /\ 1..(Len(s) - Len(s)) = {}
  BY <1>2
<1> HIDE DEF w
<1>4. IsSuffix(Calls, s, Len(s), w)
  BY <1>2, <1>3, Zenon DEF IsSuffix
<1>5. HasSize(Members(s) \ Members(w), Len(s))
  BY <1>1, <1>4, SuffixCount, Zenon
<1>6. Members(s) \ Members(w) = Members(s)
  BY <1>3 DEF Members
<1> QED
  BY <1>1, <1>5, <1>6, Zenon DEF s, HasSize

\* The waiters that leave the list run.
LEMMA WakeKeeps ==
  ASSUME NEW lm, NEW cl, Counted(lm, cl),
         NEW s \in Semaphores, Distinct(s.waiters), Waiting(s) \subseteq Waiting(lm.tokens),
         Count(s) = Count(lm.tokens) + Cardinality(Waiting(lm.tokens) \ Waiting(s)),
         NEW l \in Limiters, l.refcount = lm.refcount, l.queue = lm.queue, l.tokens = s,
         NEW new \in [Calls -> Call],
         \A x \in Calls : new[x].at = IF x \in Waiting(lm.tokens) \ Waiting(s) THEN "running"
                                      ELSE cl[x].at
  PROVE  Counted(l, new)
<1> DEFINE W == Waiting(lm.tokens) \ Waiting(s)
<1>1. W \subseteq At(cl, {"waiting"}) /\ Waiting(lm.tokens) = At(cl, {"waiting"})
  BY DEF Counted
<1>2. \A x \in Calls : /\ x \in W => cl[x].at = "waiting" /\ new[x].at = "running"
                       /\ x \notin W => new[x].at = cl[x].at
  BY Zenon, <1>1 DEF At
<1>3. W \subseteq Calls
  BY Zenon, <1>1 DEF At
<1> HIDE DEF W
<1>4. At(new, UsingAt) = At(cl, UsingAt) /\ At(new, QueuedAt) = At(cl, QueuedAt)
  BY <1>2 DEF At, UsingAt, QueuedAt
<1>5. At(new, {"waiting"}) = Waiting(s)
  <2>1. At(new, {"waiting"}) = At(cl, {"waiting"}) \ W
    BY <1>2 DEF At
  <2>2. Waiting(lm.tokens) \ W = Waiting(s)
    BY DEF W
  <2> QED
    BY <1>1, <2>1, <2>2, Zenon
<1>6. At(new, HoldingAt) = At(cl, HoldingAt) \cup W /\ At(cl, HoldingAt) \cap W = {}
  BY Zenon, <1>2, <1>3 DEF At, HoldingAt
<1>7. Cardinality(At(new, HoldingAt)) = Cardinality(At(cl, HoldingAt)) + Cardinality(W)
  <2>1. IsFiniteSet(W) /\ Cardinality(W) \in Nat
    BY <1>3, LimiterAssumption, FS_Subset, FS_CardinalityType, Zenon
  <2>2. IsFiniteSet(At(cl, HoldingAt)) /\ Cardinality(At(cl, HoldingAt)) \in Nat
    BY AtFinite
  <2>3. Cardinality(At(new, HoldingAt))
          = Cardinality(At(cl, HoldingAt)) + Cardinality(W) - Cardinality({})
    <3> DEFINE A == At(cl, HoldingAt)
    <3> HIDE DEF A
    <3>1. Cardinality(A \cup W) = Cardinality(A) + Cardinality(W) - Cardinality(A \cap W)
      BY <2>1, <2>2, FS_Union, Zenon DEF A
    <3> QED
      BY <1>6, <3>1, Zenon DEF A
  <2> QED
    BY <2>1, <2>2, <2>3, FS_EmptySet
<1>8. /\ lm.refcount = Cardinality(At(cl, UsingAt))
      /\ Count(lm.queue) = Cardinality(At(cl, QueuedAt))
      /\ Count(lm.tokens) = Cardinality(At(cl, HoldingAt)) /\ lm.queue.waiters = << >>
  BY Zenon DEF Counted
<1>9. Count(s) = Cardinality(At(new, HoldingAt))
  BY <1>7, <1>8, Zenon DEF W
<1> QED
  BY <1>4, <1>5, <1>8, <1>9, Zenon DEF Counted

---------------------------------------------------------------------------
\* The invariant and its parts.

LEMMA Parts ==
  ASSUME LimiterInv
  PROVE  /\ call \in [Calls -> Call]
         /\ limiter # NoLimiter => Counted(limiter, call) /\ NoIdle(limiter.tokens)
         /\ limiter # NoLimiter => limiter \in Limiters /\ limiter.queue \in Semaphores
                                   /\ limiter.tokens \in Semaphores /\ limiter.refcount \in Nat
         /\ \A c \in Calls : call[c].at \in UsingAt => limiter # NoLimiter
<1>1. call \in [Calls -> Call] /\ limiter \in Limiters \cup {NoLimiter}
  BY DEF LimiterInv, TypeOK
<1>2. ASSUME limiter # NoLimiter
      PROVE  Counted(limiter, call) /\ NoIdle(limiter.tokens)
  <2>1. NoIdle(limiter.tokens)
    BY <1>2 DEF LimiterInv, NoIdleToken, NoIdle
  <2>2. /\ limiter.refcount = Cardinality(At(call, UsingAt))
        /\ Count(limiter.queue) = Cardinality(At(call, QueuedAt))
        /\ Count(limiter.tokens) = Cardinality(At(call, HoldingAt))
        /\ Waiting(limiter.tokens) = At(call, {"waiting"})
    BY <1>2, Zenon DEF LimiterInv, TokensExact, Users, Queued, Holders, CallAt, At,
                       UsingAt, QueuedAt, HoldingAt
  <2>3. Distinct(limiter.tokens.waiters) /\ limiter.queue.waiters = << >>
    BY <1>2, Zenon DEF LimiterInv, WaitersInv, Distinct
  <2> QED
    BY <1>1, <1>2, <2>1, <2>2, <2>3, Zenon DEF Counted
<1>3. ASSUME limiter # NoLimiter
      PROVE  limiter \in Limiters /\ limiter.queue \in Semaphores
             /\ limiter.tokens \in Semaphores /\ limiter.refcount \in Nat
  BY Zenon, <1>1, <1>3 DEF Limiters
<1>4. ASSUME NEW c \in Calls, call[c].at \in UsingAt
      PROVE  limiter # NoLimiter
  <2>1. c \in Users
    BY <1>4 DEF Users, CallAt, UsingAt
  <2> QED
    BY <2>1 DEF LimiterInv, CreationInv
<1> QED
  BY <1>1, <1>2, <1>3, <1>4, Zenon

LEMMA Assembled ==
  ASSUME TypeOK', limiter' # NoLimiter => Counted(limiter', call') /\ NoIdle(limiter'.tokens),
         SizesFollow', CreationInv', HookInv'
  PROVE  LimiterInv'
<1>1. TokensExact' /\ WaitersInv' /\ NoIdleToken'
  <2>1. CASE limiter' = NoLimiter
    BY <2>1 DEF TokensExact, WaitersInv, NoIdleToken
  <2>2. CASE limiter' # NoLimiter
    <3>1. Counted(limiter', call') /\ NoIdle(limiter'.tokens)
      BY Zenon, <2>2
    <3>2. limiter'.queue \in Semaphores /\ limiter'.tokens \in Semaphores
      BY <3>1 DEF Counted, Limiters
    <3>3. Len(limiter'.tokens.waiters) = Cardinality(At(call', {"waiting"}))
      BY <3>1, WaitersLength, Zenon
    <3>4. TokensExact'
      BY <3>1, <3>2, <3>3, Zenon DEF Counted, TokensExact, Users, Queued, Holders, CallAt, At,
                                     UsingAt, QueuedAt, HoldingAt
    <3> QED
      BY <3>1, <3>4, Zenon DEF Counted, Distinct, NoIdle, WaitersInv, NoIdleToken
  <2> QED
    BY Zenon, <2>1, <2>2
<1> QED
  BY <1>1, Zenon DEF LimiterInv

Creating == {"queueSize", "size", "insert"}
SizesStay(lm, l) == l.queue.size = lm.queue.size /\ l.tokens.size = lm.tokens.size

\* A step of a call that uses the limiter, which stays.
LEMMA UserKeeps ==
  ASSUME LimiterInv, limiter # NoLimiter, limiter' \in Limiters,
         Counted(limiter', call'), NoIdle(limiter'.tokens), LimitUnchanged,
         SizesStay(limiter, limiter'),
         \A x \in Calls : call'[x].at \in Creating => call[x].at \in Creating
  PROVE  LimiterInv'
<1>1. limiter' # NoLimiter
  BY LimiterAssumption
<1>2. TypeOK'
  BY Zenon DEF LimiterInv, TypeOK, LimitUnchanged, Counted
<1>3. SizesFollow' /\ HookInv'
  BY <1>1 DEF LimiterInv, SizesFollow, HookInv, LimitUnchanged, SizesStay
<1>4. CreationInv'
  <2>1. \A x \in Calls : call[x].at \notin Creating
    BY Zenon DEF LimiterInv, CreationInv, CallAt, Creating
  <2>2. CallAt({"queueSize", "size", "insert"})' = {}
    BY <2>1, Zenon DEF CallAt, Creating
  <2> QED
    BY <1>1, <2>2, Zenon DEF CreationInv
<1> QED
  BY <1>1, <1>2, <1>3, <1>4, Assembled, ZenonT(40)

WithTokens(lm, t) == [lm EXCEPT !.tokens = t]
WithQueue(lm, q) == [lm EXCEPT !.queue = q]
WithCount(lm, n) == [lm EXCEPT !.refcount = n]

LEMMA WithTokensFacts ==
  ASSUME NEW lm \in Limiters, NEW s \in Semaphores
  PROVE  /\ WithTokens(lm, s) \in Limiters /\ WithTokens(lm, s).tokens = s
         /\ WithTokens(lm, s).queue = lm.queue /\ WithTokens(lm, s).refcount = lm.refcount
  BY DEF Limiters, WithTokens

LEMMA WithQueueFacts ==
  ASSUME NEW lm \in Limiters, NEW s \in Semaphores
  PROVE  /\ WithQueue(lm, s) \in Limiters /\ WithQueue(lm, s).queue = s
         /\ WithQueue(lm, s).tokens = lm.tokens /\ WithQueue(lm, s).refcount = lm.refcount
  BY DEF Limiters, WithQueue

LEMMA WithCountFacts ==
  ASSUME NEW lm \in Limiters, NEW n \in Nat
  PROVE  /\ WithCount(lm, n) \in Limiters /\ WithCount(lm, n).refcount = n
         /\ WithCount(lm, n).queue = lm.queue /\ WithCount(lm, n).tokens = lm.tokens
  BY DEF Limiters, WithCount

Taken(s) == [s EXCEPT !.current = @ + 1]
Prefixed(s, c) == [s EXCEPT !.waiters = <<c>> \o @]

LEMMA TakenFacts ==
  ASSUME NEW s \in Semaphores
  PROVE  /\ Taken(s) \in Semaphores /\ Taken(s).size = s.size /\ Taken(s).waiters = s.waiters
         /\ Count(Taken(s)) = Count(s) + 1
  BY SMTT(40) DEF Taken, Semaphores, Count

LEMMA PrefixedFacts ==
  ASSUME NEW s \in Semaphores, NEW c \in Calls, Distinct(s.waiters), c \notin Waiting(s)
  PROVE  /\ Prefixed(s, c) \in Semaphores /\ Prefixed(s, c).size = s.size
         /\ Count(Prefixed(s, c)) = Count(s)
         /\ Distinct(Prefixed(s, c).waiters) /\ Waiting(Prefixed(s, c)) = Waiting(s) \cup {c}
<1> DEFINE q == s.waiters
           w == <<c>> \o q
           t == Prefixed(s, c)
<1>1. q \in Seq(Calls) /\ Len(q) \in Nat /\ DOMAIN q = 1..Len(q)
  BY SemaphoreFacts, SeqProperties
<1>2. t = [s EXCEPT !.waiters = w]
  BY DEF Prefixed
<1> HIDE DEF q, t
<1>3. /\ w \in Seq(Calls) /\ Len(w) = Len(q) + 1 /\ w[1] = c
      /\ \A i \in 1..Len(q) : w[i + 1] = q[i]
  BY <1>1, PrefixedProperties
<1> HIDE DEF w
<1>4. DOMAIN w = 1..(Len(q) + 1)
  BY Zenon, <1>3, SeqProperties
<1>5. /\ t \in Semaphores /\ t.size = s.size /\ t.waiters = w
      /\ t.current = s.current /\ t.leftover = s.leftover
  BY Zenon, <1>2, <1>3, SemaphoreFacts DEF Semaphores
<1>6. /\ \A i \in DOMAIN w : i = 1 \/ (i - 1 \in DOMAIN q /\ w[i] = q[i - 1])
      /\ \A i \in DOMAIN q : i + 1 \in DOMAIN w /\ w[i + 1] = q[i]
      /\ 1 \in DOMAIN w
  <2>1. ASSUME NEW i \in DOMAIN w, i # 1
        PROVE  i - 1 \in DOMAIN q /\ w[i] = q[i - 1]
    <3>1. i - 1 \in 1..Len(q) /\ (i - 1) + 1 = i
      BY SMTT(40), <1>1, <1>4, <2>1
    <3>2. w[(i - 1) + 1] = q[i - 1]
      BY <1>3, <3>1, Zenon
    <3> QED
      BY Zenon, <1>1, <3>1, <3>2
  <2> QED
    BY SMTT(40), <1>1, <1>3, <1>4, <2>1
<1>7. \A i \in DOMAIN q : q[i] # c
  BY DEF Waiting, q
<1>8. Distinct(w)
  <2> SUFFICES ASSUME NEW i \in DOMAIN w, NEW j \in DOMAIN w, w[i] = w[j] PROVE i = j
    BY DEF Distinct
  <2>1. CASE i = 1 \/ j = 1
    BY SMTT(40), <1>3, <1>6, <1>7, <2>1
  <2>2. CASE i # 1 /\ j # 1
    <3>1. i - 1 \in DOMAIN q /\ j - 1 \in DOMAIN q /\ q[i - 1] = q[j - 1]
      BY <1>6, <2>2, Zenon
    <3>2. Distinct(q)
      BY DEF q
    <3>3. i - 1 = j - 1
      BY <3>1, <3>2, Zenon DEF Distinct
    <3> QED
      BY SMTT(40), <1>1, <1>4, <3>3
  <2> QED
    BY Zenon, <2>1, <2>2
<1>9. {w[i] : i \in DOMAIN w} = {q[i] : i \in DOMAIN q} \cup {c}
  <2>1. \A i \in DOMAIN w : w[i] = c \/ w[i] \in {q[j] : j \in DOMAIN q}
    BY <1>3, <1>6, Zenon
  <2>2. \A i \in DOMAIN q : q[i] \in {w[j] : j \in DOMAIN w}
    BY <1>6, Zenon
  <2>3. c \in {w[j] : j \in DOMAIN w}
    BY <1>3, <1>6, Zenon
  <2> QED
    BY <2>1, <2>2, <2>3, Zenon
<1>10. Waiting(t) = Waiting(s) \cup {c}
  BY <1>5, <1>9, Zenon DEF Waiting, q
<1>11. Count(t) = Count(s)
  BY <1>5, Zenon DEF Count
<1> QED
  BY <1>5, <1>8, <1>10, <1>11, Zenon DEF t

\* One call moves, and its tokens with it.
CountsMove(lm, l, from, to) ==
  /\ l.refcount = lm.refcount + Delta(UsingAt, from, to)
  /\ Count(l.queue) = Count(lm.queue) + Delta(QueuedAt, from, to)
  /\ Count(l.tokens) = Count(lm.tokens) + Delta(HoldingAt, from, to)

LEMMA MoveKeeps ==
  ASSUME NEW lm, NEW cl, Counted(lm, cl), NEW l \in Limiters, NEW new \in [Calls -> Call],
         NEW c \in Calls, OnlyMoves(cl, new, c), CountsMove(lm, l, cl[c].at, new[c].at),
         Waiting(l.tokens) = At(new, {"waiting"}),
         Distinct(l.tokens.waiters), l.queue.waiters = << >>
  PROVE  Counted(l, new)
<1>1. \A S : Cardinality(At(new, S)) = Cardinality(At(cl, S)) + Delta(S, cl[c].at, new[c].at)
  BY Moves, Zenon
<1>2. /\ lm.refcount = Cardinality(At(cl, UsingAt))
      /\ Count(lm.queue) = Cardinality(At(cl, QueuedAt))
      /\ Count(lm.tokens) = Cardinality(At(cl, HoldingAt))
  BY Zenon DEF Counted
<1>3. /\ l.refcount = Cardinality(At(new, UsingAt))
      /\ Count(l.queue) = Cardinality(At(new, QueuedAt))
      /\ Count(l.tokens) = Cardinality(At(new, HoldingAt))
  BY <1>1, <1>2, Zenon DEF CountsMove
<1> QED
  BY <1>3, Zenon DEF Counted

\* A call that holds a token is counted.
LEMMA HeldCounts ==
  ASSUME NEW lm, NEW cl, Counted(lm, cl), NEW c \in Calls
  PROVE  /\ cl[c].at \in QueuedAt => Count(lm.queue) > 0
         /\ cl[c].at \in HoldingAt => Count(lm.tokens) > 0
         /\ cl[c].at \in UsingAt => lm.refcount > 0
  BY SomeAt, Zenon DEF Counted

Stages == {"idle", "limit", "queueSize", "size", "insert", "admit", "acquire", "waiting",
           "timedOut", "running", "exit", "release", "put"}

Moved(cl, c, at) == [cl EXCEPT ![c].at = at]

LEMMA MovedFacts ==
  ASSUME NEW cl \in [Calls -> Call], NEW c \in Calls, NEW at \in Stages
  PROVE  /\ Moved(cl, c, at) \in [Calls -> Call] /\ Moved(cl, c, at)[c].at = at
         /\ OnlyMoves(cl, Moved(cl, c, at), c)
<1> DEFINE r == [cl[c] EXCEPT !.at = at]
<1>1. Moved(cl, c, at) = [cl EXCEPT ![c] = r] /\ cl[c] \in Call
  BY DEF Moved
<1>2. r \in Call /\ r.at = at
  BY <1>1 DEF Call, Stages
<1> HIDE DEF r
<1> QED
  BY Zenon, <1>1, <1>2 DEF OnlyMoves

LEMMA AwakeFacts ==
  ASSUME call \in [Calls -> Call], NEW s
  PROVE  /\ Awake(s) \in [Calls -> Call]
         /\ \A x \in Calls : Awake(s)[x].at =
              IF x \in Waiting(limiter.tokens) \ Waiting(s) THEN "running" ELSE call[x].at
<1> DEFINE woken == Waiting(limiter.tokens) \ Waiting(s)
           r(x) == [call[x] EXCEPT !.at = "running"]
<1>1. \A x \in Calls : call[x] \in Call /\ r(x) \in Call /\ r(x).at = "running"
  BY DEF Call
<1>2. Awake(s) = [x \in Calls |-> IF x \in woken THEN r(x) ELSE call[x]]
  BY DEF Awake
<1> HIDE DEF r, woken
<1>3. /\ Awake(s) \in [Calls -> Call]
      /\ \A x \in Calls : Awake(s)[x].at = IF x \in woken THEN "running" ELSE call[x].at
  BY <1>1, <1>2
<1> QED
  BY <1>3, Zenon DEF woken

\* A step that moves one call, which uses the limiter before or after it.
WaitersMove(lm, l, c, at) ==
  /\ Waiting(l.tokens) = IF at = "waiting" THEN Waiting(lm.tokens) \cup {c} ELSE Waiting(lm.tokens)
  /\ Distinct(l.tokens.waiters) /\ l.queue.waiters = << >> /\ NoIdle(l.tokens)

LEMMA StepKeeps ==
  ASSUME LimiterInv, limiter # NoLimiter, NEW c \in Calls, NEW at \in UsingAt,
         Go(c, at), LimitUnchanged, call[c].at \notin Creating, call[c].at # "waiting",
         limiter' \in Limiters, SizesStay(limiter, limiter'),
         CountsMove(limiter, limiter', call[c].at, at), WaitersMove(limiter, limiter', c, at)
  PROVE  LimiterInv'
<1>1. /\ call' \in [Calls -> Call] /\ call'[c].at = at
      /\ OnlyMoves(call, call', c)
  <2>1. at \in Stages
    BY DEF UsingAt, Stages
  <2>2. call' = Moved(call, c, at)
    BY Zenon DEF Go, Moved
  <2>3. call \in [Calls -> Call]
    BY Parts
  <2>4. /\ Moved(call, c, at) \in [Calls -> Call] /\ Moved(call, c, at)[c].at = at
        /\ OnlyMoves(call, Moved(call, c, at), c)
    BY <2>1, <2>3, MovedFacts, Zenon
  <2> QED
    BY <2>2, <2>4, Zenon
<1>2. Counted(limiter, call)
  BY Zenon, Parts
<1>3. Waiting(limiter'.tokens) = At(call', {"waiting"})
  <2>1. Waiting(limiter.tokens) = At(call, {"waiting"})
    BY <1>2 DEF Counted
  <2> QED
    BY Zenon, <1>1, <2>1 DEF At, OnlyMoves, WaitersMove
<1>4. Counted(limiter', call')
  <2>1. Distinct(limiter'.tokens.waiters) /\ limiter'.queue.waiters = << >>
    BY Zenon DEF WaitersMove
  <2> QED
    BY <1>1, <1>2, <1>3, <2>1, MoveKeeps, ZenonT(40)
<1>5. \A x \in Calls : call'[x].at \in Creating => call[x].at \in Creating
  BY <1>1 DEF UsingAt, Creating, OnlyMoves
<1>6. NoIdle(limiter'.tokens)
  BY Zenon DEF WaitersMove
<1> QED
  BY <1>4, <1>5, <1>6, UserKeeps, Zenon

---------------------------------------------------------------------------
\* The steps of a call that the limiter survives.

LEMMA EnterKeeps ==
  ASSUME LimiterInv, limiter # NoLimiter, NEW c \in Calls, GetConcurrencyLimit(c)
  PROVE  LimiterInv'
<1>1. /\ call[c].at = "limit" /\ Go(c, "admit") /\ LimitUnchanged
      /\ limiter' = WithCount(limiter, limiter.refcount + 1)
  BY Zenon DEF GetConcurrencyLimit, WithCount
<1>2. /\ Counted(limiter, call) /\ NoIdle(limiter.tokens) /\ limiter \in Limiters
      /\ limiter.queue \in Semaphores /\ limiter.tokens \in Semaphores /\ limiter.refcount \in Nat
  BY Parts
<1>3. /\ limiter' \in Limiters /\ limiter'.refcount = limiter.refcount + 1
      /\ limiter'.queue = limiter.queue /\ limiter'.tokens = limiter.tokens
  <2>1. limiter.refcount + 1 \in Nat
    BY <1>2
  <2> QED
    BY <1>1, <1>2, <2>1, WithCountFacts, ZenonT(40)
<1>4. /\ Delta(UsingAt, "limit", "admit") = 1 /\ Delta(QueuedAt, "limit", "admit") = 0
      /\ Delta(HoldingAt, "limit", "admit") = 0
      /\ "admit" \in UsingAt /\ "limit" \notin Creating
  BY Zenon DEF Delta, UsingAt, QueuedAt, HoldingAt, Creating
<1>5. Count(limiter.queue) \in Nat /\ Count(limiter.tokens) \in Nat
  BY Zenon, <1>2, SemaphoreFacts
<1>6. Distinct(limiter.tokens.waiters) /\ limiter.queue.waiters = << >>
  BY <1>2, Zenon DEF Counted
<1> QED
  <2>1. SizesStay(limiter, limiter') /\ limiter' \in Limiters
    BY ZenonT(40), <1>1, <1>2, <1>3, <1>4, <1>5, <1>6 DEF SizesStay
  <2>2. CountsMove(limiter, limiter', "limit", "admit")
    BY SMTT(40), <1>1, <1>2, <1>3, <1>4, <1>5, <1>6 DEF CountsMove
  <2>3. WaitersMove(limiter, limiter', c, "admit")
    BY ZenonT(40), <1>1, <1>2, <1>3, <1>4, <1>5, <1>6 DEF WaitersMove
  <2> QED
    BY ZenonT(40), <1>1, <1>2, <1>3, <1>4, <1>5, <1>6, <2>1, <2>2, <2>3, StepKeeps

LEMMA TryAcquireKeeps ==
  ASSUME LimiterInv, NEW c \in Calls, TryAcquire(c)
  PROVE  LimiterInv'
<1>1. call[c].at = "admit" /\ LimitUnchanged
  BY Zenon DEF TryAcquire
<1>2. limiter # NoLimiter
  BY Zenon, <1>1, Parts DEF UsingAt
<1>3. /\ Counted(limiter, call) /\ NoIdle(limiter.tokens) /\ limiter \in Limiters
      /\ limiter.queue \in Semaphores /\ limiter.tokens \in Semaphores /\ limiter.refcount \in Nat
  BY Zenon, <1>2, Parts
<1>4. Count(limiter.queue) \in Nat /\ Count(limiter.tokens) \in Nat
  BY Zenon, <1>3, SemaphoreFacts
<1>5. Distinct(limiter.tokens.waiters) /\ limiter.queue.waiters = << >>
  BY <1>3, ZenonT(40) DEF Counted
<1>6. CASE Go(c, "acquire") /\ limiter' = WithQueue(limiter, Taken(limiter.queue))
  <2>1. /\ Taken(limiter.queue) \in Semaphores /\ Taken(limiter.queue).size = limiter.queue.size
        /\ Taken(limiter.queue).waiters = limiter.queue.waiters
        /\ Count(Taken(limiter.queue)) = Count(limiter.queue) + 1
    BY <1>3, TakenFacts, Zenon
  <2>2. /\ limiter' \in Limiters /\ limiter'.refcount = limiter.refcount
        /\ limiter'.queue = Taken(limiter.queue) /\ limiter'.tokens = limiter.tokens
    BY <1>3, <1>6, <2>1, WithQueueFacts, Zenon
  <2>3. /\ Delta(UsingAt, "admit", "acquire") = 0 /\ Delta(QueuedAt, "admit", "acquire") = 1
        /\ Delta(HoldingAt, "admit", "acquire") = 0
        /\ "acquire" \in UsingAt /\ "admit" \notin Creating
    BY Zenon DEF Delta, UsingAt, QueuedAt, HoldingAt, Creating
  <2> QED
    <3>1. SizesStay(limiter, limiter') /\ limiter' \in Limiters
      BY ZenonT(40), <1>1, <1>2, <1>3, <1>4, <1>5, <1>6, <2>1, <2>2, <2>3 DEF SizesStay
    <3>2. CountsMove(limiter, limiter', "admit", "acquire")
      BY SMTT(40), <1>1, <1>2, <1>3, <1>4, <1>5, <1>6, <2>1, <2>2, <2>3 DEF CountsMove
    <3>3. WaitersMove(limiter, limiter', c, "acquire")
      BY ZenonT(40), <1>1, <1>2, <1>3, <1>4, <1>5, <1>6, <2>1, <2>2, <2>3 DEF WaitersMove
    <3> QED
      BY SMTT(40), <1>1, <1>2, <1>3, <1>4, <1>5, <1>6, <2>1, <2>2, <2>3, <3>1, <3>2, <3>3, StepKeeps
<1>7. CASE Go(c, "put") /\ limiter' = limiter
  <2>1. /\ Delta(UsingAt, "admit", "put") = 0 /\ Delta(QueuedAt, "admit", "put") = 0
        /\ Delta(HoldingAt, "admit", "put") = 0
        /\ "put" \in UsingAt /\ "admit" \notin Creating
    BY DEF Delta, UsingAt, QueuedAt, HoldingAt, Creating
  <2> QED
    <3>1. SizesStay(limiter, limiter') /\ limiter' \in Limiters
      BY ZenonT(40), <1>1, <1>2, <1>3, <1>4, <1>5, <1>7, <2>1 DEF SizesStay
    <3>2. CountsMove(limiter, limiter', "admit", "put")
      BY SMTT(40), <1>1, <1>2, <1>3, <1>4, <1>5, <1>7, <2>1 DEF CountsMove
    <3>3. WaitersMove(limiter, limiter', c, "put")
      BY ZenonT(40), <1>1, <1>2, <1>3, <1>4, <1>5, <1>7, <2>1 DEF WaitersMove
    <3> QED
      BY ZenonT(40), <1>1, <1>2, <1>3, <1>4, <1>5, <1>7, <2>1, <3>1, <3>2, <3>3, StepKeeps
<1>8. \/ Go(c, "acquire") /\ limiter' = WithQueue(limiter, Taken(limiter.queue))
      \/ Go(c, "put") /\ limiter' = limiter
  BY Zenon DEF TryAcquire, WithQueue, Taken
<1> QED
  BY <1>6, <1>7, <1>8, Zenon

LEMMA AcquireKeeps ==
  ASSUME LimiterInv, NEW c \in Calls, Acquire(c)
  PROVE  LimiterInv'
<1>1. call[c].at = "acquire" /\ LimitUnchanged
  BY Zenon DEF Acquire
<1>2. limiter # NoLimiter
  BY Zenon, <1>1, Parts DEF UsingAt
<1>3. /\ Counted(limiter, call) /\ NoIdle(limiter.tokens) /\ limiter \in Limiters
      /\ limiter.queue \in Semaphores /\ limiter.tokens \in Semaphores /\ limiter.refcount \in Nat
  BY <1>2, Parts
<1>4. /\ Count(limiter.queue) \in Nat /\ Count(limiter.tokens) \in Nat
      /\ limiter.tokens.size \in Nat
  BY Zenon, <1>3, SemaphoreFacts
<1>5. /\ Distinct(limiter.tokens.waiters) /\ limiter.queue.waiters = << >>
      /\ Waiting(limiter.tokens) = At(call, {"waiting"})
  BY <1>3, ZenonT(40) DEF Counted
<1>6. CASE /\ Count(limiter.tokens) < limiter.tokens.size
           /\ Go(c, "running") /\ limiter' = WithTokens(limiter, Taken(limiter.tokens))
  <2> DEFINE s == Taken(limiter.tokens)
  <2>1. /\ s \in Semaphores /\ s.size = limiter.tokens.size
        /\ s.waiters = limiter.tokens.waiters /\ Count(s) = Count(limiter.tokens) + 1
    BY <1>3, TakenFacts, Zenon
  <2> HIDE DEF s
  <2>2. /\ limiter' \in Limiters /\ limiter'.refcount = limiter.refcount
        /\ limiter'.queue = limiter.queue /\ limiter'.tokens = s
    BY <1>3, <1>6, <2>1, WithTokensFacts, Zenon DEF s
  <2>3. /\ Delta(UsingAt, "acquire", "running") = 0 /\ Delta(QueuedAt, "acquire", "running") = 0
        /\ Delta(HoldingAt, "acquire", "running") = 1
        /\ "running" \in UsingAt /\ "acquire" \notin Creating
    BY Zenon DEF Delta, UsingAt, QueuedAt, HoldingAt, Creating
  <2>4. Waiting(s) = Waiting(limiter.tokens) /\ NoIdle(s)
    BY SMTT(40), <1>3, <1>4, <1>6, <2>1 DEF Waiting, NoIdle
  <2> QED
    <3>1. SizesStay(limiter, limiter') /\ limiter' \in Limiters
      BY ZenonT(40), <1>1, <1>2, <1>3, <1>4, <1>5, <1>6, <2>1, <2>2, <2>3, <2>4 DEF SizesStay
    <3>2. CountsMove(limiter, limiter', "acquire", "running")
      BY SMTT(40), <1>1, <1>2, <1>3, <1>4, <1>5, <1>6, <2>1, <2>2, <2>3, <2>4 DEF CountsMove
    <3>3. WaitersMove(limiter, limiter', c, "running")
      BY ZenonT(40), <1>1, <1>2, <1>3, <1>4, <1>5, <1>6, <2>1, <2>2, <2>3, <2>4 DEF WaitersMove
    <3> QED
      BY SMTT(40), <1>1, <1>2, <1>3, <1>4, <1>5, <1>6, <2>1, <2>2, <2>3, <2>4, <3>1, <3>2, <3>3, StepKeeps
<1>7. CASE Go(c, "timedOut") /\ limiter' = limiter
  <2>1. /\ Delta(UsingAt, "acquire", "timedOut") = 0 /\ Delta(QueuedAt, "acquire", "timedOut") = 0
        /\ Delta(HoldingAt, "acquire", "timedOut") = 0
        /\ "timedOut" \in UsingAt /\ "acquire" \notin Creating
    BY ZenonT(40) DEF Delta, UsingAt, QueuedAt, HoldingAt, Creating
  <2> QED
    <3>1. SizesStay(limiter, limiter') /\ limiter' \in Limiters
      BY ZenonT(40), <1>1, <1>2, <1>3, <1>4, <1>5, <1>7, <2>1 DEF SizesStay
    <3>2. CountsMove(limiter, limiter', "acquire", "timedOut")
      BY SMTT(40), <1>1, <1>2, <1>3, <1>4, <1>5, <1>7, <2>1 DEF CountsMove
    <3>3. WaitersMove(limiter, limiter', c, "timedOut")
      BY ZenonT(40), <1>1, <1>2, <1>3, <1>4, <1>5, <1>7, <2>1 DEF WaitersMove
    <3> QED
      BY ZenonT(40), <1>1, <1>2, <1>3, <1>4, <1>5, <1>7, <2>1, <3>1, <3>2, <3>3, StepKeeps
<1>8. CASE /\ ~(Count(limiter.tokens) < limiter.tokens.size)
           /\ Go(c, "waiting") /\ limiter' = WithTokens(limiter, Prefixed(limiter.tokens, c))
  <2> DEFINE s == Prefixed(limiter.tokens, c)
  <2>1. c \notin Waiting(limiter.tokens)
    BY Zenon, <1>1, <1>5 DEF At
  <2>2. /\ s \in Semaphores /\ s.size = limiter.tokens.size /\ Count(s) = Count(limiter.tokens)
        /\ Distinct(s.waiters) /\ Waiting(s) = Waiting(limiter.tokens) \cup {c}
    BY <1>3, <1>5, <2>1, PrefixedFacts, Zenon
  <2> HIDE DEF s
  <2>3. /\ limiter' \in Limiters /\ limiter'.refcount = limiter.refcount
        /\ limiter'.queue = limiter.queue /\ limiter'.tokens = s
    BY <1>3, <1>8, <2>2, WithTokensFacts, ZenonT(40) DEF s
  <2>4. /\ Delta(UsingAt, "acquire", "waiting") = 0 /\ Delta(QueuedAt, "acquire", "waiting") = 0
        /\ Delta(HoldingAt, "acquire", "waiting") = 0
        /\ "waiting" \in UsingAt /\ "acquire" \notin Creating
    BY Zenon DEF Delta, UsingAt, QueuedAt, HoldingAt, Creating
  <2>5. NoIdle(s)
    BY SMTT(40), <1>4, <1>8, <2>2 DEF NoIdle
  <2> QED
    <3>1. SizesStay(limiter, limiter') /\ limiter' \in Limiters
      BY ZenonT(40), <1>1, <1>2, <1>3, <1>4, <1>5, <1>8, <2>2, <2>3, <2>4, <2>5 DEF SizesStay
    <3>2. CountsMove(limiter, limiter', "acquire", "waiting")
      BY SMTT(40), <1>1, <1>2, <1>3, <1>4, <1>5, <1>8, <2>2, <2>3, <2>4, <2>5 DEF CountsMove
    <3>3. WaitersMove(limiter, limiter', c, "waiting")
      BY ZenonT(40), <1>1, <1>2, <1>3, <1>4, <1>5, <1>8, <2>2, <2>3, <2>4, <2>5 DEF WaitersMove
    <3> QED
      BY SMTT(40), <1>1, <1>2, <1>3, <1>4, <1>5, <1>8, <2>2, <2>3, <2>4, <2>5, <3>1, <3>2, <3>3, StepKeeps
<1> QED
  BY <1>6, <1>7, <1>8, Zenon DEF Acquire, WithTokens, Taken, Prefixed

\* The two stages in which the queue token goes back.
LEMMA ReleaseQueueTokenKeeps ==
  ASSUME LimiterInv, NEW c \in Calls, ReleaseQueueToken(c)
  PROVE  LimiterInv'
<1> DEFINE at == IF call[c].at = "exit" THEN "release" ELSE "put"
           q == Released(limiter.queue)
<1>1. /\ call[c].at \in {"timedOut", "exit"} /\ LimitUnchanged /\ Go(c, at)
      /\ limiter' = WithQueue(limiter, q)
  BY Zenon DEF ReleaseQueueToken, WithQueue
<1>2. call[c].at \in QueuedAt /\ call[c].at \in UsingAt /\ at \in UsingAt
  BY Zenon, <1>1 DEF QueuedAt, UsingAt
<1>3. /\ Delta(UsingAt, call[c].at, at) = 0 /\ Delta(QueuedAt, call[c].at, at) = -1
      /\ Delta(HoldingAt, call[c].at, at) = 0
      /\ call[c].at \notin Creating /\ call[c].at # "waiting" /\ at # "waiting"
  BY Zenon, <1>1 DEF Delta, UsingAt, QueuedAt, HoldingAt, Creating
<1> HIDE DEF at, q
<1>4. /\ limiter # NoLimiter
      /\ Counted(limiter, call) /\ NoIdle(limiter.tokens) /\ limiter \in Limiters
      /\ limiter.queue \in Semaphores /\ limiter.tokens \in Semaphores /\ limiter.refcount \in Nat
  BY Zenon, <1>2, Parts
<1>5. Count(limiter.queue) > 0
  BY Zenon, <1>2, <1>4, HeldCounts
<1>6. /\ q \in Semaphores /\ q.size = limiter.queue.size
      /\ q.waiters = limiter.queue.waiters /\ Count(q) = Count(limiter.queue) - 1
  BY <1>4, <1>5, ReleasedFacts, Zenon DEF q
<1>7. /\ limiter' \in Limiters /\ limiter'.refcount = limiter.refcount
      /\ limiter'.queue = q /\ limiter'.tokens = limiter.tokens
  BY <1>1, <1>4, <1>6, WithQueueFacts, Zenon
<1>8. Count(limiter.queue) \in Nat /\ Count(limiter.tokens) \in Nat
  BY Zenon, <1>4, SemaphoreFacts
<1>9. Distinct(limiter.tokens.waiters) /\ limiter.queue.waiters = << >>
  BY <1>4, Zenon DEF Counted
<1> QED
  <2>1. SizesStay(limiter, limiter') /\ limiter' \in Limiters
    BY ZenonT(40), <1>1, <1>2, <1>3, <1>4, <1>6, <1>7, <1>8, <1>9 DEF SizesStay
  <2>2. CountsMove(limiter, limiter', call[c].at, at)
    BY SMTT(40), <1>1, <1>2, <1>3, <1>4, <1>6, <1>7, <1>8, <1>9 DEF CountsMove
  <2>3. WaitersMove(limiter, limiter', c, at)
    BY ZenonT(40), <1>1, <1>2, <1>3, <1>4, <1>6, <1>7, <1>8, <1>9 DEF WaitersMove
  <2> QED
    BY ZenonT(40), <1>1, <1>2, <1>3, <1>4, <1>6, <1>7, <1>8, <1>9, <2>1, <2>2, <2>3, StepKeeps

LEMMA FunctionReturnsKeeps ==
  ASSUME LimiterInv, NEW c \in Calls, FunctionReturns(c)
  PROVE  LimiterInv'
<1>1. call[c].at = "running" /\ LimitUnchanged /\ Go(c, "exit") /\ limiter' = limiter
  BY Zenon DEF FunctionReturns
<1>2. limiter # NoLimiter
  BY Zenon, <1>1, Parts DEF UsingAt
<1>3. /\ Counted(limiter, call) /\ NoIdle(limiter.tokens) /\ limiter \in Limiters
      /\ limiter.queue \in Semaphores /\ limiter.tokens \in Semaphores /\ limiter.refcount \in Nat
  BY <1>2, Parts
<1>4. Count(limiter.queue) \in Nat /\ Count(limiter.tokens) \in Nat
  BY SMTT(40), <1>3, SemaphoreFacts
<1>5. Distinct(limiter.tokens.waiters) /\ limiter.queue.waiters = << >>
  BY <1>3, Zenon DEF Counted
<1>6. /\ Delta(UsingAt, "running", "exit") = 0 /\ Delta(QueuedAt, "running", "exit") = 0
      /\ Delta(HoldingAt, "running", "exit") = 0
      /\ "exit" \in UsingAt /\ "running" \notin Creating
  BY DEF Delta, UsingAt, QueuedAt, HoldingAt, Creating
<1> QED
  <2>1. SizesStay(limiter, limiter') /\ limiter' \in Limiters
    BY ZenonT(40), <1>1, <1>2, <1>3, <1>4, <1>5, <1>6 DEF SizesStay
  <2>2. CountsMove(limiter, limiter', "running", "exit")
    BY SMTT(40), <1>1, <1>2, <1>3, <1>4, <1>5, <1>6 DEF CountsMove
  <2>3. WaitersMove(limiter, limiter', c, "exit")
    BY Zenon, <1>1, <1>2, <1>3, <1>4, <1>5, <1>6 DEF WaitersMove
  <2> QED
    BY ZenonT(40), <1>1, <1>2, <1>3, <1>4, <1>5, <1>6, <2>1, <2>2, <2>3, StepKeeps

---------------------------------------------------------------------------
\* The steps that let waiters in.

\* A call moves, the tokens become t, and then s when waiters are let in.
LEMMA WakeStepKeeps ==
  ASSUME LimiterInv, limiter # NoLimiter, NEW c \in Calls, NEW at \in UsingAt, LimitUnchanged,
         NEW t \in Semaphores, Counted(WithTokens(limiter, t), Moved(call, c, at)),
         c \notin Waiting(t), Waiting(limiter.tokens) \ {c} = Waiting(t),
         NEW s \in Semaphores, s.size = limiter.tokens.size, Distinct(s.waiters), NoIdle(s),
         Waiting(s) \subseteq Waiting(t),
         Count(s) = Count(t) + Cardinality(Waiting(t) \ Waiting(s)),
         limiter' = WithTokens(limiter, s), call' = Moved(Awake(s), c, at)
  PROVE  LimiterInv'
<1>1. /\ call \in [Calls -> Call] /\ limiter \in Limiters /\ at \in Stages
      /\ limiter.refcount \in Nat
  BY Parts DEF UsingAt, Stages
<1> DEFINE m == WithTokens(limiter, t)
           cl == Moved(call, c, at)
           a == Awake(s)
<1>2. /\ m.tokens = t /\ m.queue = limiter.queue /\ m.refcount = limiter.refcount
      /\ limiter' \in Limiters /\ limiter'.tokens = s
      /\ limiter'.queue = limiter.queue /\ limiter'.refcount = limiter.refcount
  BY <1>1, WithTokensFacts, Zenon
<1>3. /\ cl \in [Calls -> Call] /\ cl[c].at = at
      /\ OnlyMoves(call, cl, c)
  BY <1>1, MovedFacts, Zenon
<1>4. /\ a \in [Calls -> Call]
      /\ \A x \in Calls : a[x].at =
           IF x \in Waiting(limiter.tokens) \ Waiting(s) THEN "running" ELSE call[x].at
  BY <1>1, AwakeFacts, ZenonT(40)
<1> HIDE DEF a
<1>5. /\ call' \in [Calls -> Call] /\ call'[c].at = at
      /\ OnlyMoves(a, call', c)
  <2>1. /\ Moved(a, c, at) \in [Calls -> Call] /\ Moved(a, c, at)[c].at = at
        /\ OnlyMoves(a, Moved(a, c, at), c)
    BY <1>1, <1>4, MovedFacts, Zenon
  <2>2. call' = Moved(a, c, at)
    BY Zenon DEF a
  <2> QED
    BY <2>1, <2>2, Zenon
<1> HIDE DEF m, cl
<1>6. \A x \in Calls : call'[x].at = IF x \in Waiting(t) \ Waiting(s) THEN "running" ELSE cl[x].at
  BY ZenonT(40), <1>3, <1>4, <1>5 DEF OnlyMoves
<1>7. Counted(limiter', call')
  <2>1. Counted(m, cl)
    BY ZenonT(40) DEF m, cl
  <2> QED
    BY SMTT(40), <1>2, <1>5, <1>6, <2>1, WakeKeeps
<1>8. \A x \in Calls : call'[x].at \in Creating => call[x].at \in Creating
  BY SMTT(40), <1>3, <1>6 DEF Creating, UsingAt, OnlyMoves
<1>9. SizesStay(limiter, limiter') /\ NoIdle(limiter'.tokens)
  BY Zenon, <1>2 DEF SizesStay
<1> QED
  BY <1>2, <1>7, <1>8, <1>9, UserKeeps, ZenonT(40)

LEMMA ReleaseKeeps ==
  ASSUME LimiterInv, NEW c \in Calls, Release(c)
  PROVE  LimiterInv'
<1> DEFINE t == Released(limiter.tokens)
           s == NotifyWaiters(t)
<1>1. /\ call[c].at = "release" /\ LimitUnchanged
      /\ limiter' = WithTokens(limiter, s) /\ call' = Moved(Awake(s), c, "put")
  BY Zenon DEF Release, WithTokens, Moved
<1>2. limiter # NoLimiter
  BY Zenon, <1>1, Parts DEF UsingAt
<1>3. /\ Counted(limiter, call) /\ limiter \in Limiters /\ call \in [Calls -> Call]
      /\ limiter.queue \in Semaphores /\ limiter.tokens \in Semaphores /\ limiter.refcount \in Nat
  BY Zenon, <1>2, Parts
<1>4. /\ Count(limiter.tokens) > 0 /\ Count(limiter.tokens) \in Nat /\ Count(limiter.queue) \in Nat
  BY Zenon, <1>1, <1>3, HeldCounts, SemaphoreFacts DEF HoldingAt
<1>5. /\ Distinct(limiter.tokens.waiters) /\ limiter.queue.waiters = << >>
      /\ Waiting(limiter.tokens) = At(call, {"waiting"})
  BY <1>3, Zenon DEF Counted
<1>6. /\ t \in Semaphores /\ t.size = limiter.tokens.size
      /\ t.waiters = limiter.tokens.waiters /\ Count(t) = Count(limiter.tokens) - 1
  BY <1>3, <1>4, ReleasedFacts, Zenon
<1> HIDE DEF t
<1>7. /\ s \in Semaphores /\ s.size = t.size /\ Distinct(s.waiters) /\ NoIdle(s)
      /\ Waiting(s) \subseteq Waiting(t)
      /\ Count(s) = Count(t) + Cardinality(Waiting(t) \ Waiting(s))
  BY <1>5, <1>6, NotifyFacts, Zenon
<1> HIDE DEF s
<1> DEFINE m == WithTokens(limiter, t)
           cl == Moved(call, c, "put")
<1>8. /\ m \in Limiters /\ m.tokens = t /\ m.queue = limiter.queue
      /\ m.refcount = limiter.refcount
  BY <1>3, <1>6, WithTokensFacts, Zenon
<1>9. /\ cl \in [Calls -> Call] /\ cl[c].at = "put"
      /\ OnlyMoves(call, cl, c)
  BY ZenonT(40), <1>3, MovedFacts DEF Stages
<1> HIDE DEF m, cl
<1>10. /\ Waiting(t) = Waiting(limiter.tokens) /\ c \notin Waiting(t)
       /\ Waiting(t) = At(cl, {"waiting"})
  <2>1. Waiting(t) = Waiting(limiter.tokens)
    BY <1>6, Zenon DEF Waiting
  <2> QED
    BY Zenon, <1>1, <1>5, <1>9, <2>1 DEF At, OnlyMoves
<1>11. /\ Delta(UsingAt, "release", "put") = 0 /\ Delta(QueuedAt, "release", "put") = 0
       /\ Delta(HoldingAt, "release", "put") = -1 /\ "put" \in UsingAt
  BY DEF Delta, UsingAt, QueuedAt, HoldingAt
<1>12. Counted(m, cl)
  <2>1. CountsMove(limiter, m, call[c].at, cl[c].at)
    BY SMTT(40), <1>1, <1>3, <1>4, <1>6, <1>8, <1>9, <1>11 DEF CountsMove
  <2>2. /\ Waiting(m.tokens) = At(cl, {"waiting"}) /\ Distinct(m.tokens.waiters)
        /\ m.queue.waiters = << >>
    BY <1>5, <1>6, <1>8, <1>10, Zenon
  <2> QED
    BY <1>3, <1>8, <1>9, <2>1, <2>2, MoveKeeps, ZenonT(40)
<1>13. Waiting(limiter.tokens) \ {c} = Waiting(t)
  BY Zenon, <1>10
<1> QED
  BY ZenonT(40), <1>1, <1>2, <1>6, <1>7, <1>10, <1>11, <1>12, <1>13, WakeStepKeeps DEF m, cl

LEMMA StopWaiterKeeps ==
  ASSUME LimiterInv, NEW c \in Calls, StopWaiter(c)
  PROVE  LimiterInv'
<1> DEFINE t == Without(limiter.tokens, c)
           s == IF Head(limiter.tokens.waiters) = c THEN NotifyWaiters(t) ELSE t
<1>1. /\ call[c].at = "waiting" /\ LimitUnchanged
      /\ limiter' = WithTokens(limiter, s) /\ call' = Moved(Awake(s), c, "timedOut")
  BY Zenon DEF StopWaiter, WithTokens, Moved
<1>2. limiter # NoLimiter
  BY Zenon, <1>1, Parts DEF UsingAt
<1>3. /\ Counted(limiter, call) /\ limiter \in Limiters /\ call \in [Calls -> Call]
      /\ NoIdle(limiter.tokens)
      /\ limiter.queue \in Semaphores /\ limiter.tokens \in Semaphores /\ limiter.refcount \in Nat
  BY Zenon, <1>2, Parts
<1>4. /\ Count(limiter.tokens) \in Nat /\ Count(limiter.queue) \in Nat
  BY Zenon, <1>3, SemaphoreFacts
<1>5. /\ Distinct(limiter.tokens.waiters) /\ limiter.queue.waiters = << >>
      /\ Waiting(limiter.tokens) = At(call, {"waiting"})
  BY <1>3, Zenon DEF Counted
<1>6. c \in Waiting(limiter.tokens)
  BY Zenon, <1>1, <1>5 DEF At
<1>7. /\ t \in Semaphores /\ t.size = limiter.tokens.size /\ Count(t) = Count(limiter.tokens)
      /\ Distinct(t.waiters) /\ Waiting(t) = Waiting(limiter.tokens) \ {c}
  BY <1>3, <1>5, <1>6, WithoutFacts, Zenon
<1> HIDE DEF t
<1>8. /\ s \in Semaphores /\ s.size = t.size /\ Distinct(s.waiters) /\ NoIdle(s)
      /\ Waiting(s) \subseteq Waiting(t)
      /\ Count(s) = Count(t) + Cardinality(Waiting(t) \ Waiting(s))
  <2>1. CASE Head(limiter.tokens.waiters) = c
    <3>1. s = NotifyWaiters(t)
      BY <2>1
    <3> HIDE DEF s
    <3> QED
      BY <1>7, <3>1, NotifyFacts, Zenon
  <2>2. CASE Head(limiter.tokens.waiters) # c
    <3>1. s = t
      BY <2>2
    <3> HIDE DEF s
    <3>2. Count(limiter.tokens) >= limiter.tokens.size
      <4>1. limiter.tokens.waiters # << >>
        BY <1>6 DEF Waiting
      <4> QED
        BY <1>3, <4>1, Zenon DEF NoIdle
    <3>3. NoIdle(t)
      BY <1>7, <3>2, Zenon DEF NoIdle
    <3>4. Waiting(t) \ Waiting(t) = {}
      BY Zenon
    <3>5. Count(t) = Count(t) + Cardinality(Waiting(t) \ Waiting(t))
      BY SMTT(40), <1>4, <1>7, <3>4, FS_EmptySet
    <3> QED
      BY <1>7, <3>1, <3>3, <3>5, Zenon
  <2> QED
    BY <2>1, <2>2, Zenon
<1> HIDE DEF s
<1> DEFINE m == WithTokens(limiter, t)
           cl == Moved(call, c, "timedOut")
<1>9. /\ m \in Limiters /\ m.tokens = t /\ m.queue = limiter.queue
      /\ m.refcount = limiter.refcount
  BY <1>3, <1>7, WithTokensFacts, ZenonT(40)
<1>10. /\ cl \in [Calls -> Call] /\ cl[c].at = "timedOut"
       /\ OnlyMoves(call, cl, c)
  BY SMTT(40), <1>3, MovedFacts DEF Stages
<1> HIDE DEF m, cl
<1>11. Waiting(t) = At(cl, {"waiting"}) /\ c \notin Waiting(t)
  BY Zenon, <1>5, <1>7, <1>10 DEF At, OnlyMoves
<1>12. /\ Delta(UsingAt, "waiting", "timedOut") = 0 /\ Delta(QueuedAt, "waiting", "timedOut") = 0
       /\ Delta(HoldingAt, "waiting", "timedOut") = 0 /\ "timedOut" \in UsingAt
  BY DEF Delta, UsingAt, QueuedAt, HoldingAt
<1>13. Counted(m, cl)
  <2>1. CountsMove(limiter, m, call[c].at, cl[c].at)
    BY SMTT(40), <1>1, <1>3, <1>4, <1>7, <1>9, <1>10, <1>12 DEF CountsMove
  <2>2. /\ Waiting(m.tokens) = At(cl, {"waiting"}) /\ Distinct(m.tokens.waiters)
        /\ m.queue.waiters = << >>
    BY <1>5, <1>7, <1>9, <1>11, Zenon
  <2> QED
    BY <1>3, <1>9, <1>10, <2>1, <2>2, MoveKeeps, ZenonT(40)
<1> QED
  BY ZenonT(40), <1>1, <1>2, <1>7, <1>8, <1>11, <1>12, <1>13, WakeStepKeeps DEF m, cl

---------------------------------------------------------------------------
\* The steps before a call uses the limiter, and the last one.

\* A call moves outside the limiter, which does not change.
OutsideStep(c) ==
  /\ LimitUnchanged /\ limiter' = limiter
  /\ call' \in [Calls -> Call] /\ OnlyMoves(call, call', c)
  /\ call[c].at \notin UsingAt /\ call'[c].at \notin UsingAt
  /\ call'[c].at \in Creating =>
       limiter = NoLimiter /\ \A x \in Calls : x # c => call[x].at \notin Creating
  /\ call'[c].at \in {"size", "insert"} => hook = "idle" \/ call[c].at \in {"size", "insert"}

LEMMA OutsideKeeps ==
  ASSUME LimiterInv, NEW c \in Calls, OutsideStep(c)
  PROVE  LimiterInv'
<1>0. LimitUnchanged /\ limiter' = limiter /\ call' \in [Calls -> Call]
  BY DEF OutsideStep
<1>1. TypeOK'
  BY <1>0, Zenon DEF LimiterInv, TypeOK, LimitUnchanged
<1>2. At(call', UsingAt) = At(call, UsingAt)
  BY DEF At, OutsideStep, OnlyMoves
<1>3. ASSUME limiter' # NoLimiter
      PROVE  Counted(limiter', call') /\ NoIdle(limiter'.tokens)
  <2>1. Counted(limiter, call) /\ NoIdle(limiter.tokens)
    BY Zenon, <1>0, <1>3, Parts
  <2>2. \A S \in {QueuedAt, HoldingAt, {"waiting"}} : At(call', S) = At(call, S)
    BY Zenon DEF At, UsingAt, QueuedAt, HoldingAt, OutsideStep, OnlyMoves
  <2> QED
    BY <1>0, <1>2, <2>1, <2>2, Zenon DEF Counted
<1>4. SizesFollow'
  BY Zenon, <1>0 DEF LimiterInv, SizesFollow, LimitUnchanged
<1>5. CreationInv'
  <2>1. /\ \A x, y \in Calls : call[x].at \in Creating /\ call[y].at \in Creating => x = y
        /\ \A x \in Calls : call[x].at \in Creating => limiter = NoLimiter
        /\ limiter = NoLimiter => At(call, UsingAt) = {} /\ ~raced
    BY Zenon DEF LimiterInv, CreationInv, CallAt, Creating, Users, At, UsingAt
  <2>2. /\ \A x, y \in Calls : call'[x].at \in Creating /\ call'[y].at \in Creating => x = y
        /\ \A x \in Calls : call'[x].at \in Creating => limiter = NoLimiter
    BY <2>1, Zenon DEF OutsideStep, OnlyMoves
  <2>3. /\ \A x, y \in CallAt({"queueSize", "size", "insert"})' : x = y
        /\ CallAt({"queueSize", "size", "insert"})' # {} => limiter' = NoLimiter
    BY <1>0, <2>2, Zenon DEF CallAt, Creating
  <2>4. limiter' = NoLimiter => Users' = {} /\ ~raced'
    BY <1>0, <1>2, <2>1, ZenonT(40) DEF Users, CallAt, At, UsingAt, LimitUnchanged
  <2> QED
    BY <2>3, <2>4, Zenon DEF CreationInv
<1>6. HookInv'
  <2>1. ASSUME hook = "evicted"
        PROVE  CallAt({"size", "insert"})' = {}
    <3>1. \A x \in Calls : call[x].at \notin {"size", "insert"}
      BY <2>1, Zenon DEF LimiterInv, HookInv, CallAt
    <3>2. \A x \in Calls : call'[x].at \notin {"size", "insert"}
      BY Zenon, <2>1, <3>1 DEF OutsideStep, OnlyMoves
    <3> QED
      BY <3>2, Zenon DEF CallAt
  <2> QED
    BY <1>0, <2>1, Zenon DEF LimiterInv, HookInv, LimitUnchanged
<1> QED
  BY <1>1, <1>3, <1>4, <1>5, <1>6, Assembled, ZenonT(40)

LEMMA LimitKeeps ==
  ASSUME LimiterInv, NEW c \in Calls, Limit(c)
  PROVE  LimiterInv'
<1>1. call[c].at = "idle" /\ LimitUnchanged /\ limiter' = limiter /\ call' = Moved(call, c, "limit")
  BY ZenonT(40) DEF Limit, Go, Moved
<1>2. /\ call' \in [Calls -> Call] /\ call'[c].at = "limit"
      /\ OnlyMoves(call, call', c)
  BY SMTT(40), <1>1, Parts, MovedFacts DEF Stages
<1>9. OutsideStep(c)
  BY Zenon, <1>1, <1>2 DEF OutsideStep, UsingAt, Creating
<1> QED
  BY <1>9, OutsideKeeps, Zenon

LEMMA LookupKeeps ==
  ASSUME LimiterInv, limiter = NoLimiter, NEW c \in Calls, GetConcurrencyLimit(c)
  PROVE  LimiterInv'
<1>1. /\ call[c].at = "limit" /\ LimitUnchanged /\ limiter' = limiter
      /\ call' = Moved(call, c, "queueSize") /\ \A x \in Calls : call[x].at \notin Creating
  BY Zenon DEF GetConcurrencyLimit, Go, Moved, Unlocked, Creating
<1>2. /\ call' \in [Calls -> Call] /\ call'[c].at = "queueSize"
      /\ OnlyMoves(call, call', c)
  BY SMTT(40), <1>1, Parts, MovedFacts DEF Stages
<1>9. OutsideStep(c)
  BY Zenon, <1>1, <1>2 DEF OutsideStep, UsingAt, Creating
<1> QED
  BY <1>9, OutsideKeeps, Zenon

\* The limiter is made by one call at a time.
LEMMA OneCreates ==
  ASSUME LimiterInv, NEW c \in Calls, call[c].at \in Creating
  PROVE  /\ limiter = NoLimiter /\ \A x \in Calls : x # c => call[x].at \notin Creating
         /\ At(call, UsingAt) = {} /\ ~raced
  BY ZenonT(40) DEF LimiterInv, CreationInv, CallAt, Creating, Users, At, UsingAt

LEMMA CreateQueueTokensKeeps ==
  ASSUME LimiterInv, NEW c \in Calls, CreateQueueTokens(c)
  PROVE  LimiterInv'
<1> DEFINE r == [[call[c] EXCEPT !.at = "size"] EXCEPT !.queueSize = current + MaxQueueLength]
<1>1. /\ call[c].at = "queueSize" /\ hook = "idle" /\ LimitUnchanged /\ limiter' = limiter
      /\ call \in [Calls -> Call] /\ call[c] \in Call /\ current + MaxQueueLength \in Nat
  BY SMTT(40), Parts, LimiterAssumption DEF CreateQueueTokens, LimiterInv, TypeOK
<1>2. call' = [call EXCEPT ![c] = r]
  BY Zenon, <1>1 DEF CreateQueueTokens
<1>3. r \in Call /\ r.at = "size"
  BY Zenon, <1>1 DEF Call
<1> HIDE DEF r
<1>4. /\ call' \in [Calls -> Call] /\ call'[c].at = "size"
      /\ OnlyMoves(call, call', c)
  BY Zenon, <1>1, <1>2, <1>3 DEF OnlyMoves
<1>5. limiter = NoLimiter /\ \A x \in Calls : x # c => call[x].at \notin Creating
  BY Zenon, <1>1, OneCreates DEF Creating
<1>9. OutsideStep(c)
  BY ZenonT(40), <1>1, <1>4, <1>5 DEF OutsideStep, UsingAt, Creating
<1> QED
  BY <1>9, OutsideKeeps, Zenon

LEMMA CreateConcurrencyTokensKeeps ==
  ASSUME LimiterInv, NEW c \in Calls, CreateConcurrencyTokens(c)
  PROVE  LimiterInv'
<1> DEFINE r == [[call[c] EXCEPT !.at = "insert"] EXCEPT !.size = current]
<1>1. /\ call[c].at = "size" /\ hook = "idle" /\ LimitUnchanged /\ limiter' = limiter
      /\ call \in [Calls -> Call] /\ call[c] \in Call /\ current \in Nat
  BY SMTT(40), Parts, LimiterAssumption DEF CreateConcurrencyTokens, LimiterInv, TypeOK
<1>2. call' = [call EXCEPT ![c] = r]
  BY Zenon, <1>1 DEF CreateConcurrencyTokens
<1>3. r \in Call /\ r.at = "insert"
  BY Zenon, <1>1 DEF Call
<1> HIDE DEF r
<1>4. /\ call' \in [Calls -> Call] /\ call'[c].at = "insert"
      /\ OnlyMoves(call, call', c)
  BY Zenon, <1>1, <1>2, <1>3 DEF OnlyMoves
<1>5. limiter = NoLimiter /\ \A x \in Calls : x # c => call[x].at \notin Creating
  BY Zenon, <1>1, OneCreates DEF Creating
<1>9. OutsideStep(c)
  BY Zenon, <1>1, <1>4, <1>5 DEF OutsideStep, UsingAt, Creating
<1> QED
  BY <1>9, OutsideKeeps, Zenon

LEMMA NewSemaphoreFacts ==
  ASSUME NEW n \in Nat
  PROVE  /\ NewSemaphore(n) \in Semaphores /\ NewSemaphore(n).size = n
         /\ Count(NewSemaphore(n)) = 0 /\ NewSemaphore(n).waiters = << >>
         /\ Waiting(NewSemaphore(n)) = {} /\ Distinct(NewSemaphore(n).waiters)
         /\ NoIdle(NewSemaphore(n))
<1>1. /\ NewSemaphore(n) \in Semaphores /\ NewSemaphore(n).size = n
      /\ Count(NewSemaphore(n)) = 0 /\ NewSemaphore(n).waiters = << >>
  BY DEF NewSemaphore, Semaphores, Count
<1>2. DOMAIN << >> = {}
  OBVIOUS
<1> QED
  BY <1>1, <1>2, Zenon DEF Waiting, Distinct, NoIdle

LEMMA InsertKeeps ==
  ASSUME LimiterInv, NEW c \in Calls, Insert(c)
  PROVE  LimiterInv'
<1> DEFINE q == NewSemaphore(call[c].queueSize)
           t == NewSemaphore(call[c].size)
           r == [at |-> "admit", queueSize |-> 0, size |-> 0]
<1>1. /\ call[c].at = "insert" /\ limiter' = [refcount |-> 1, queue |-> q, tokens |-> t]
      /\ call' = [call EXCEPT ![c] = r]
      /\ raced' = (call[c].size # current \/ call[c].queueSize # current + MaxQueueLength)
      /\ UNCHANGED <<current, hook, backoff, event>>
  BY Zenon DEF Insert
<1>2. /\ call \in [Calls -> Call] /\ call[c].queueSize \in Nat /\ call[c].size \in Nat
  BY Parts DEF Call
<1>3. /\ q \in Semaphores /\ q.size = call[c].queueSize /\ Count(q) = 0 /\ q.waiters = << >>
      /\ t \in Semaphores /\ t.size = call[c].size /\ Count(t) = 0 /\ Waiting(t) = {}
      /\ Distinct(t.waiters) /\ NoIdle(t)
  BY <1>2, NewSemaphoreFacts, Zenon
<1>4. r \in Call /\ r.at = "admit"
  BY Zenon DEF Call
<1> HIDE DEF q, t, r
<1>5. /\ limiter' \in Limiters /\ limiter'.refcount = 1 /\ limiter'.queue = q
      /\ limiter'.tokens = t
  BY Zenon, <1>1, <1>3 DEF Limiters
<1>6. limiter' # NoLimiter
  BY Zenon, <1>5, LimiterAssumption
<1>7. /\ call' \in [Calls -> Call] /\ call'[c].at = "admit"
      /\ OnlyMoves(call, call', c)
  BY Zenon, <1>1, <1>2, <1>4 DEF OnlyMoves
<1>8. /\ limiter = NoLimiter /\ \A x \in Calls : x # c => call[x].at \notin Creating
      /\ At(call, UsingAt) = {}
  BY Zenon, <1>1, OneCreates DEF Creating
<1>9. /\ At(call', UsingAt) = {c} /\ At(call', QueuedAt) = {} /\ At(call', HoldingAt) = {}
      /\ At(call', {"waiting"}) = {}
  <2>1. \A x \in Calls : x # c => call'[x].at \notin UsingAt
    BY Zenon, <1>7, <1>8 DEF At, OnlyMoves
  <2> QED
    BY Zenon, <1>7, <2>1 DEF At, UsingAt, QueuedAt, HoldingAt
<1>10. Counted(limiter', call')
  <2>1. Cardinality({c}) = 1 /\ Cardinality({}) = 0
    BY ZenonT(40), FS_Singleton, FS_EmptySet
  <2> QED
    BY <1>3, <1>5, <1>7, <1>9, <2>1, ZenonT(40) DEF Counted
<1>11. TypeOK'
  <2>1. raced' \in BOOLEAN
    BY <1>1, Zenon
  <2> QED
    BY <1>1, <1>5, <1>7, <2>1, ZenonT(40) DEF LimiterInv, TypeOK
<1>12. SizesFollow'
  BY <1>1, <1>3, <1>5, Zenon DEF SizesFollow
<1>13. CreationInv'
  <2>1. CallAt({"queueSize", "size", "insert"})' = {}
    BY Zenon, <1>7, <1>8 DEF CallAt, Creating, OnlyMoves
  <2> QED
    BY <1>6, <2>1, Zenon DEF CreationInv
<1>14. HookInv'
  <2>1. hook # "tokens"
    BY <1>8, Zenon DEF LimiterInv, HookInv
  <2>2. hook # "evicted"
    BY <1>1, Zenon DEF LimiterInv, HookInv, CallAt
  <2> QED
    BY <1>1, <2>1, <2>2, Zenon DEF HookInv
<1> QED
  BY <1>3, <1>5, <1>10, <1>11, <1>12, <1>13, <1>14, Assembled, ZenonT(40)

LEMMA PutConcurrencyLimitKeeps ==
  ASSUME LimiterInv, NEW c \in Calls, PutConcurrencyLimit(c)
  PROVE  LimiterInv'
<1>1. /\ call[c].at = "put" /\ call' = Moved(call, c, "idle")
      /\ \A x \in Calls : call[x].at \notin Creating
      /\ limiter' = IF limiter.refcount = 1 THEN NoLimiter ELSE WithCount(limiter, limiter.refcount - 1)
      /\ raced' = (raced /\ limiter.refcount > 1)
      /\ hook' = IF hook = "tokens" /\ limiter.refcount = 1 THEN "evicted" ELSE hook
      /\ UNCHANGED <<current, backoff, event>>
  BY Zenon DEF PutConcurrencyLimit, Go, Moved, Unlocked, Creating, WithCount
<1>2. limiter # NoLimiter
  BY Zenon, <1>1, Parts DEF UsingAt
<1>3. /\ Counted(limiter, call) /\ limiter \in Limiters /\ call \in [Calls -> Call]
      /\ NoIdle(limiter.tokens)
      /\ limiter.queue \in Semaphores /\ limiter.tokens \in Semaphores /\ limiter.refcount \in Nat
  BY SMTT(40), <1>2, Parts
<1>4. /\ call' \in [Calls -> Call] /\ call'[c].at = "idle"
      /\ OnlyMoves(call, call', c)
  BY SMTT(40), <1>1, <1>3, MovedFacts DEF Stages
<1>5. limiter.refcount > 0
  BY ZenonT(40), <1>1, <1>3, HeldCounts DEF UsingAt
<1>6. \A x \in Calls : call'[x].at \notin Creating
  BY Zenon, <1>1, <1>4 DEF Creating, OnlyMoves
<1>7. CASE limiter.refcount = 1
  <2>1. limiter' = NoLimiter /\ raced' = FALSE
    <3>1. ~(limiter.refcount > 1)
      BY <1>7
    <3> QED
      BY <1>1, <1>7, <3>1, Zenon
  <2>2. At(call', UsingAt) = {}
    <3>1. /\ call[c].at \in UsingAt /\ call'[c].at \notin UsingAt
          /\ Cardinality(At(call, UsingAt)) = 1
      BY Zenon, <1>1, <1>3, <1>4, <1>7 DEF UsingAt, Counted
    <3>2. Cardinality(At(call', UsingAt))
            = Cardinality(At(call, UsingAt)) + Delta(UsingAt, call[c].at, call'[c].at)
      BY <1>4, Moves, ZenonT(40)
    <3>3. Cardinality(At(call', UsingAt)) = 0
      BY SMTT(40), <3>1, <3>2 DEF Delta
    <3> QED
      BY <3>3, AtFinite, FS_EmptySet, Zenon
  <2>3. hook # "evicted" /\ hook' \in {"idle", "evicted"}
    BY ZenonT(40), <1>1, <1>2, <1>7 DEF LimiterInv, HookInv, TypeOK
  <2>4. TypeOK'
    BY <1>1, <1>4, <2>1, <2>3, ZenonT(40) DEF LimiterInv, TypeOK
  <2>5. CreationInv' /\ SizesFollow'
    BY <1>6, <2>1, <2>2, Zenon DEF CreationInv, SizesFollow, CallAt, Users, At, UsingAt, Creating
  <2>6. HookInv'
    <3>1. CallAt({"size", "insert"})' = {}
      BY Zenon, <1>6 DEF CallAt, Creating
    <3> QED
      BY Zenon, <2>1, <2>3, <3>1 DEF HookInv
  <2> QED
    BY <2>1, <2>4, <2>5, <2>6, Assembled, ZenonT(40)
<1>8. CASE limiter.refcount # 1
  <2>1. /\ limiter.refcount - 1 \in Nat /\ limiter.refcount > 1
    BY SMTT(40), <1>3, <1>5, <1>8
  <2>2. /\ limiter' \in Limiters /\ limiter'.refcount = limiter.refcount - 1
        /\ limiter'.queue = limiter.queue /\ limiter'.tokens = limiter.tokens
    BY <1>1, <1>3, <1>8, <2>1, WithCountFacts, ZenonT(40)
  <2>3. raced \in BOOLEAN
    BY Zenon DEF LimiterInv, TypeOK
  <2>4. LimitUnchanged
    <3>1. raced' = raced
      BY <1>1, <2>1, <2>3, Zenon
    <3> QED
      BY Zenon, <1>1, <1>8, <3>1 DEF LimitUnchanged
  <2>5. /\ Delta(UsingAt, "put", "idle") = -1 /\ Delta(QueuedAt, "put", "idle") = 0
        /\ Delta(HoldingAt, "put", "idle") = 0
    BY Zenon DEF Delta, UsingAt, QueuedAt, HoldingAt
  <2>6. /\ Distinct(limiter.tokens.waiters) /\ limiter.queue.waiters = << >>
        /\ Waiting(limiter.tokens) = At(call, {"waiting"})
    BY <1>3, Zenon DEF Counted
  <2>7. Waiting(limiter'.tokens) = At(call', {"waiting"})
    BY Zenon, <1>1, <1>4, <2>2, <2>6 DEF At, OnlyMoves
  <2>8. Count(limiter.tokens) \in Nat /\ Count(limiter.queue) \in Nat
    BY Zenon, <1>3, SemaphoreFacts
  <2>9. Counted(limiter', call')
    <3>1. CountsMove(limiter, limiter', call[c].at, call'[c].at)
      BY SMTT(40), <1>1, <1>3, <1>4, <2>2, <2>5, <2>8 DEF CountsMove
    <3>2. Distinct(limiter'.tokens.waiters) /\ limiter'.queue.waiters = << >>
      BY <2>2, <2>6, Zenon
    <3> QED
      BY <1>3, <1>4, <2>2, <2>7, <3>1, <3>2, MoveKeeps, ZenonT(40)
  <2>10. SizesStay(limiter, limiter') /\ NoIdle(limiter'.tokens)
    BY Zenon, <1>3, <2>2 DEF SizesStay
  <2> QED
    BY <1>2, <1>6, <2>2, <2>4, <2>9, <2>10, UserKeeps, ZenonT(40)
<1> QED
  BY Zenon, <1>7, <1>8

---------------------------------------------------------------------------
\* The calibration.

LEMMA NewLimitType ==
  ASSUME TypeOK
  PROVE  NewLimit \in MinLimit..MaxLimit /\ NewLimit \in Nat /\ NewLimit + MaxQueueLength \in Nat
<1>1. /\ current \in Nat /\ MinLimit \in Nat /\ MaxLimit \in Nat /\ MaxQueueLength \in Nat
      /\ MinLimit <= current /\ current <= MaxLimit
  BY LimiterAssumption DEF TypeOK
<1>2. current \div 2 \in Nat /\ current \div 2 <= current
  BY <1>1
<1> QED
  BY SMTT(40), <1>1, <1>2 DEF NewLimit

LEMMA UpdateKeeps ==
  ASSUME LimiterInv, Update
  PROVE  LimiterInv'
<1>1. /\ hook = "idle" /\ current' = NewLimit /\ call' = call /\ raced' = raced
  BY Zenon DEF Update
<1>2. TypeOK /\ NewLimit \in MinLimit..MaxLimit /\ NewLimit + MaxQueueLength \in Nat
  BY NewLimitType DEF LimiterInv
<1>3. CASE NewLimit = current \/ limiter = NoLimiter
  <2>1. /\ hook' = hook /\ limiter' = limiter /\ event' = "none" /\ backoff' = FALSE
    BY <1>3, Zenon DEF Update, Calibrated
  <2>2. TypeOK'
    BY Zenon, <1>1, <1>2, <2>1 DEF TypeOK
  <2>3. SizesFollow' /\ HookInv'
    BY ZenonT(40), <1>1, <1>3, <2>1 DEF LimiterInv, SizesFollow, HookInv
  <2>4. CreationInv'
    BY <1>1, <2>1, Zenon DEF LimiterInv, CreationInv, CallAt, Users
  <2> QED
    BY <1>1, <2>1, <2>2, <2>3, <2>4, Parts, Assembled, ZenonT(40)
<1>4. CASE ~(NewLimit = current \/ limiter = NoLimiter)
  <2> DEFINE q == Resized(limiter.queue, NewLimit + MaxQueueLength)
  <2>1. /\ hook' = "tokens" /\ limiter' = WithQueue(limiter, q) /\ event' = event
        /\ backoff' = backoff
    BY <1>4, Zenon DEF Update, WithQueue
  <2>2. /\ Counted(limiter, call) /\ limiter \in Limiters /\ call \in [Calls -> Call]
        /\ NoIdle(limiter.tokens)
        /\ limiter.queue \in Semaphores /\ limiter.tokens \in Semaphores /\ limiter.refcount \in Nat
    BY Zenon, <1>4, Parts
  <2>3. limiter.queue.waiters = << >> /\ DOMAIN << >> = {}
    BY <2>2 DEF Counted
  <2>4. /\ Distinct(limiter.queue.waiters) /\ NoIdle(limiter.queue) /\ Waiting(limiter.queue) = {}
    BY <2>3, Zenon DEF Distinct, NoIdle, Waiting
  <2>5. /\ q \in Semaphores /\ q.size = NewLimit + MaxQueueLength /\ q.waiters = << >>
        /\ Count(q) = Count(limiter.queue) + Cardinality(Waiting(limiter.queue) \ Waiting(q))
    BY <1>2, <2>2, <2>3, <2>4, ResizedFacts, ZenonT(40)
  <2> HIDE DEF q
  <2>6. Count(q) = Count(limiter.queue)
    <3>1. Waiting(limiter.queue) \ Waiting(q) = {} /\ Count(limiter.queue) \in Nat
      BY ZenonT(40), <2>2, <2>4, SemaphoreFacts
    <3>2. Cardinality(Waiting(limiter.queue) \ Waiting(q)) = 0
      BY <3>1, FS_EmptySet, Zenon
    <3> QED
      BY SMTT(40), <2>5, <3>1, <3>2
  <2>7. /\ limiter' \in Limiters /\ limiter'.refcount = limiter.refcount
        /\ limiter'.queue = q /\ limiter'.tokens = limiter.tokens
    BY <2>1, <2>2, <2>5, WithQueueFacts, ZenonT(40)
  <2>8. limiter' # NoLimiter
    BY Zenon, <2>7, LimiterAssumption
  <2>9. Counted(limiter', call')
    BY <1>1, <2>2, <2>5, <2>6, <2>7, ZenonT(40) DEF Counted
  <2>10. TypeOK'
    BY Zenon, <1>1, <1>2, <2>1, <2>7 DEF TypeOK
  <2>11. SizesFollow' /\ HookInv'
    BY ZenonT(40), <1>1, <2>1, <2>5, <2>7, <2>8 DEF SizesFollow, HookInv
  <2>12. CreationInv'
    BY <1>1, <1>4, <2>8, ZenonT(40) DEF LimiterInv, CreationInv, CallAt, Users
  <2> QED
    BY <2>2, <2>7, <2>9, <2>10, <2>11, <2>12, Assembled, ZenonT(40)
<1> QED
  BY Zenon, <1>3, <1>4

LEMMA ResizeTokensKeeps ==
  ASSUME LimiterInv, ResizeTokens
  PROVE  LimiterInv'
<1> DEFINE s == Resized(limiter.tokens, current)
<1>1. /\ hook = "tokens" /\ hook' = "idle" /\ current' = current /\ raced' = raced
      /\ limiter' = WithTokens(limiter, s) /\ call' = Awake(s) /\ event' = "none" /\ backoff' = FALSE
  BY ZenonT(40) DEF ResizeTokens, Calibrated, WithTokens
<1>2. limiter # NoLimiter /\ current \in Nat
  BY SMTT(40), <1>1, LimiterAssumption DEF LimiterInv, HookInv, TypeOK
<1>3. /\ Counted(limiter, call) /\ limiter \in Limiters /\ call \in [Calls -> Call]
      /\ NoIdle(limiter.tokens)
      /\ limiter.queue \in Semaphores /\ limiter.tokens \in Semaphores /\ limiter.refcount \in Nat
  BY Zenon, <1>2, Parts
<1>4. Distinct(limiter.tokens.waiters)
  BY <1>3, Zenon DEF Counted
<1>5. /\ s \in Semaphores /\ s.size = current /\ Distinct(s.waiters) /\ NoIdle(s)
      /\ Waiting(s) \subseteq Waiting(limiter.tokens)
      /\ Count(s) = Count(limiter.tokens) + Cardinality(Waiting(limiter.tokens) \ Waiting(s))
  BY <1>2, <1>3, <1>4, ResizedFacts, Zenon
<1> HIDE DEF s
<1>6. /\ limiter' \in Limiters /\ limiter'.refcount = limiter.refcount
      /\ limiter'.queue = limiter.queue /\ limiter'.tokens = s
  BY <1>1, <1>3, <1>5, WithTokensFacts, Zenon
<1>7. /\ call' \in [Calls -> Call]
      /\ \A x \in Calls : call'[x].at =
           IF x \in Waiting(limiter.tokens) \ Waiting(s) THEN "running" ELSE call[x].at
  BY <1>1, <1>3, AwakeFacts, ZenonT(40)
<1>8. Counted(limiter', call')
  BY SMTT(40), <1>3, <1>5, <1>6, <1>7, WakeKeeps
<1>9. limiter' # NoLimiter
  BY Zenon, <1>6, LimiterAssumption
<1>10. TypeOK'
  BY ZenonT(40), <1>1, <1>6, <1>7 DEF LimiterInv, TypeOK
<1>11. SizesFollow' /\ HookInv'
  BY ZenonT(40), <1>1, <1>5, <1>6 DEF LimiterInv, SizesFollow, HookInv
<1>12. CreationInv'
  <2>1. \A x \in Calls : call[x].at \notin Creating
    BY <1>2, ZenonT(40) DEF LimiterInv, CreationInv, CallAt, Creating
  <2>2. CallAt({"queueSize", "size", "insert"})' = {}
    BY Zenon, <1>7, <2>1 DEF CallAt, Creating
  <2> QED
    BY <1>9, <2>2, Zenon DEF CreationInv
<1> QED
  BY <1>5, <1>6, <1>8, <1>10, <1>11, <1>12, Assembled, ZenonT(40)

\* The other steps of the calibration change neither the limiter nor the calls.
LEMMA CalibrationKeeps ==
  ASSUME LimiterInv, SetLastBackoffEvent \/ ReadBackoffEvent \/ ResizeEvicted
  PROVE  LimiterInv'
<1>1. /\ UNCHANGED <<current, limiter, call, raced>> /\ (hook' = hook \/ (hook = "evicted" /\ hook' = "idle"))
      /\ backoff' \in BOOLEAN /\ event' \in {"none", "increase", "decrease"}
  BY Zenon DEF SetLastBackoffEvent, ReadBackoffEvent, ResizeEvicted, Calibrated, LimiterInv, TypeOK
<1>2. TypeOK'
  BY Zenon, <1>1 DEF LimiterInv, TypeOK
<1>3. SizesFollow' /\ HookInv'
  BY Zenon, <1>1 DEF LimiterInv, SizesFollow, HookInv, CallAt
<1>4. CreationInv'
  <2>1. \A S : CallAt(S)' = CallAt(S)
    BY <1>1, Zenon DEF CallAt
  <2> QED
    BY <1>1, <2>1, Zenon DEF LimiterInv, CreationInv, Users
<1> QED
  BY <1>1, <1>2, <1>3, <1>4, Parts, Assembled, ZenonT(40)

---------------------------------------------------------------------------
LEMMA InitLimiterInv == Init => LimiterInv
<1> SUFFICES ASSUME Init PROVE LimiterInv
  BY Zenon
<1>1. /\ limiter = NoLimiter /\ hook = "idle" /\ raced = FALSE
      /\ \A c \in Calls : call[c].at = "idle"
  BY DEF Init
<1>2. TypeOK
  BY Zenon, LimiterAssumption DEF Init, TypeOK, Call
<1>3. TokensExact /\ NoIdleToken /\ SizesFollow /\ WaitersInv
  BY Zenon, <1>1 DEF TokensExact, NoIdleToken, SizesFollow, WaitersInv
<1>4. CreationInv /\ HookInv
  BY <1>1 DEF CreationInv, HookInv, CallAt, Users
<1> QED
  BY <1>2, <1>3, <1>4, Zenon DEF LimiterInv

LEMMA StutterLimiterInv ==
  ASSUME LimiterInv, UNCHANGED vars
  PROVE  LimiterInv'
<1>1. UNCHANGED <<current, hook, backoff, event, limiter, call, raced>>
  BY DEF vars
<1>2. \A S : CallAt(S)' = CallAt(S)
  BY <1>1, Zenon DEF CallAt
<1>3. TypeOK' /\ SizesFollow'
  BY <1>1, Zenon DEF LimiterInv, TypeOK, SizesFollow
<1>4. HookInv' /\ CreationInv'
  BY <1>1, <1>2, ZenonT(40) DEF LimiterInv, HookInv, CreationInv, Users
<1> QED
  BY <1>1, <1>3, <1>4, Parts, Assembled, ZenonT(40)

LEMMA NextLimiterInv == LimiterInv /\ [Next]_vars => LimiterInv'
<1> SUFFICES ASSUME LimiterInv, [Next]_vars PROVE LimiterInv'
  OBVIOUS
<1>1. CASE Calibration
  BY <1>1, UpdateKeeps, ResizeTokensKeeps, CalibrationKeeps, Zenon DEF Calibration
<1>2. ASSUME NEW c \in Calls, Limit(c) \/ CallStep(c) \/ FunctionReturns(c)
      PROVE  LimiterInv'
  <2>1. CASE GetConcurrencyLimit(c)
    BY <2>1, EnterKeeps, LookupKeeps, Zenon
  <2> QED
    BY ZenonT(40), <1>2, <2>1, LimitKeeps, CreateQueueTokensKeeps, CreateConcurrencyTokensKeeps, InsertKeeps,
       TryAcquireKeeps, AcquireKeeps, StopWaiterKeeps, ReleaseQueueTokenKeeps, ReleaseKeeps,
       PutConcurrencyLimitKeeps, FunctionReturnsKeeps, Zenon DEF CallStep
<1> QED
  BY <1>1, <1>2, StutterLimiterInv, Zenon DEF Next

\* Every reachable state of the limiter satisfies the inductive invariant: the
\* semaphores count the calls, one call at a time makes a limiter, and the update
\* hook works on the limiter in the map unless that was evicted.
THEOREM LimiterInvariance == Spec => []LimiterInv
<1>1. Init => LimiterInv
  BY Zenon, InitLimiterInv
<1>2. LimiterInv /\ [Next]_vars => LimiterInv'
  BY Zenon, NextLimiterInv
<1> QED
  BY <1>1, <1>2, PTL DEF Spec

\* For any number of calls, any limits and any order of admissions, timeouts,
\* releases and resizes, no token is lost or made up, every waiter is in the list
\* once, and putConcurrencyLimit finds the refcount it expects.
THEOREM TokensExactHolds == Spec => []TokensExact
<1>1. LimiterInv => TokensExact
  BY Zenon DEF LimiterInv
<1> QED
  BY <1>1, LimiterInvariance, PTL

\* No call waits while a token is free, although Resize tells the waiters only when
\* the size grows beyond the tokens taken, and stopWaiter only when the waiter was
\* the first.
THEOREM NoIdleTokenHolds == Spec => []NoIdleToken
<1>1. LimiterInv => NoIdleToken
  BY Zenon DEF LimiterInv
<1> QED
  BY <1>1, LimiterInvariance, PTL

\* After an update both semaphores have the sizes that belong to the limit, unless
\* the limiter was created across the update.
THEOREM SizesFollowHolds == Spec => []SizesFollow
<1>1. LimiterInv => SizesFollow
  BY Zenon DEF LimiterInv
<1> QED
  BY <1>1, LimiterInvariance, PTL
=============================================================================
