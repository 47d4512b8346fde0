----------------------- MODULE PartitionManagerProofs -----------------------
(***************************************************************************)
(* Theorems about the partitions of a storage: handles are counted, the    *)
(* files of an instance outlive its handles, and a partition has one       *)
(* instance, in one of the maps, until one of it is evicted.               *)
(***************************************************************************)
EXTENDS PartitionManager, TLAPS, FiniteSetTheorems

-----------------------------------------------------------------------------
(* Operators.                                                              *)

\* A handle more, a handle less, and the last one.
LEMMA UsersCount ==
  /\ \A k : Users(k) \subseteq Clients /\ IsFiniteSet(Users(k)) /\ Cardinality(Users(k)) \in Nat
  /\ \A k : Cardinality(Users(k)) = 0 => Users(k) = {}
  /\ \A k, c : c \in Users(k) =>
       /\ Cardinality(Users(k) \ {c}) = Cardinality(Users(k)) - 1
       /\ Cardinality(Users(k)) = 1 => Users(k) = {c}
  /\ \A k, c : c \notin Users(k) => Cardinality(Users(k) \cup {c}) = Cardinality(Users(k)) + 1
<1>1. ASSUME NEW k
      PROVE  Users(k) \subseteq Clients /\ IsFiniteSet(Users(k)) /\ Cardinality(Users(k)) \in Nat
  <2>1. Users(k) \subseteq Clients
    BY DEF Users
  <2> QED
    BY <2>1, FS_Subset, FS_CardinalityType, ConstantsAssumption
<1>2. ASSUME NEW k, Cardinality(Users(k)) = 0 PROVE Users(k) = {}
  BY <1>1, <1>2, FS_EmptySet
<1>3. ASSUME NEW k, NEW c, c \in Users(k)
      PROVE  /\ Cardinality(Users(k) \ {c}) = Cardinality(Users(k)) - 1
             /\ Cardinality(Users(k)) = 1 => Users(k) = {c}
  <2>1. IsFiniteSet(Users(k) \ {c}) /\ Cardinality(Users(k) \ {c}) = Cardinality(Users(k)) - 1
    BY Zenon, <1>1, <1>3, FS_RemoveElement
  <2>2. Cardinality(Users(k)) = 1 => Users(k) \ {c} = {}
    BY <2>1, FS_EmptySet
  <2> QED
    BY Zenon, <1>3, <2>1, <2>2
<1>4. ASSUME NEW k, NEW c, c \notin Users(k)
      PROVE  Cardinality(Users(k) \cup {c}) = Cardinality(Users(k)) + 1
  BY Zenon, <1>1, <1>4, FS_AddElement
<1> QED
  BY <1>1, <1>2, <1>3, <1>4

\* The facts about sequences that the proofs below cite.
LEMMA SeqProperties ==
  ASSUME NEW S, NEW s \in Seq(S)
  PROVE  Len(s) \in Nat /\ DOMAIN s = 1..Len(s) /\ \A i \in DOMAIN s : s[i] \in S
  OBVIOUS

LEMMA TailProperties ==
  ASSUME NEW S, NEW s \in Seq(S), s # << >>
  PROVE  /\ Tail(s) \in Seq(S) /\ Len(Tail(s)) = Len(s) - 1
         /\ \A i \in 1..(Len(s) - 1) : Tail(s)[i] = s[i + 1]
  OBVIOUS

LEMMA ConcatProperties ==
  ASSUME NEW S, NEW s \in Seq(S), NEW t \in Seq(S)
  PROVE  /\ s \o t \in Seq(S) /\ Len(s \o t) = Len(s) + Len(t)
         /\ \A i \in 1..(Len(s) + Len(t)) : (s \o t)[i] = IF i <= Len(s) THEN s[i] ELSE t[i - Len(s)]
  OBVIOUS

\* Removing one element of a sequence keeps the others in their order.
LEMMA RemoveProperties ==
  ASSUME NEW S, NEW s \in Seq(S), NEW i \in 1..Len(s)
  PROVE  LET w == SubSeq(s, 1, i - 1) \o SubSeq(s, i + 1, Len(s))
         IN  /\ w \in Seq(S)
             /\ Len(w) = Len(s) - 1
             /\ \A j \in 1..(Len(s) - 1) : w[j] = IF j < i THEN s[j] ELSE s[j + 1]
<1> DEFINE a == SubSeq(s, 1, i - 1)
           b == SubSeq(s, i + 1, Len(s))
           w == a \o b
<1>1. /\ a \in Seq(S) /\ Len(a) = i - 1
      /\ \A j \in 1..(i - 1) : a[j] = s[j]
  OBVIOUS
<1>2. /\ b \in Seq(S) /\ Len(b) = Len(s) - i
      /\ \A j \in 1..(Len(s) - i) : b[j] = s[i + j]
  OBVIOUS
<1>3. Len(s) \in Nat
  OBVIOUS
<1> HIDE DEF a, b
<1>4. /\ w \in Seq(S) /\ Len(w) = Len(a) + Len(b)
      /\ \A j \in 1..(Len(a) + Len(b)) : w[j] = IF j <= Len(a) THEN a[j] ELSE b[j - Len(a)]
  BY Zenon, <1>1, <1>2, ConcatProperties
<1> HIDE DEF w
<1>5. Len(w) = Len(s) - 1
  BY <1>1, <1>2, <1>3, <1>4
<1>6. ASSUME NEW j \in 1..(Len(s) - 1)
      PROVE  w[j] = IF j < i THEN s[j] ELSE s[j + 1]
  <2>1. CASE j < i
    <3>1. j \in 1..(Len(a) + Len(b)) /\ j <= Len(a) /\ j \in 1..(i - 1)
      BY <1>1, <1>2, <1>3, <2>1
    <3> QED
      BY <1>1, <1>4, <2>1, <3>1, Zenon
  <2>2. CASE ~(j < i)
    <3>1. /\ j \in 1..(Len(a) + Len(b)) /\ ~(j <= Len(a))
          /\ j - Len(a) \in 1..(Len(s) - i) /\ i + (j - Len(a)) = j + 1
      BY <1>1, <1>2, <1>3, <2>2
    <3> QED
      BY <1>2, <1>4, <2>2, <3>1, Zenon
  <2> QED
    BY <2>1, <2>2
<1> QED
  BY Zenon, <1>4, <1>5, <1>6 DEF w, a, b

\* Taking a partition off standby leaves the others there, and none of it.
LEMMA WithoutProperties ==
  ASSUME PartitionInv, NEW p
  PROVE  /\ Without(p) \in Seq(Instances)
         /\ Len(Without(p)) <= maxInactivePartitions
         /\ \A i \in DOMAIN Without(p) :
              \E j \in DOMAIN inactivePartitions :
                Without(p)[i] = inactivePartitions[j] /\ ptn[inactivePartitions[j]].id # p
         /\ \A i, j \in DOMAIN Without(p) :
              ptn[Without(p)[i]].id = ptn[Without(p)[j]].id => i = j
         /\ \A k \in Standby : ptn[k].id # p => \E i \in DOMAIN Without(p) : Without(p)[i] = k
<1> DEFINE s == inactivePartitions
<1>1. /\ s \in Seq(Instances) /\ Len(s) \in Nat /\ DOMAIN s = 1..Len(s)
      /\ Len(s) <= maxInactivePartitions /\ maxInactivePartitions \in Nat
      /\ \A i, j \in DOMAIN s : ptn[s[i]].id = ptn[s[j]].id => i = j
  BY Zenon, SeqProperties, ConstantsAssumption DEF PartitionInv, Counted, TypeOK, StandbyOnce
<1>2. CASE OnStandby(p) = {}
  <2>1. Without(p) = s /\ \A i \in DOMAIN s : ptn[s[i]].id # p
    BY Zenon, <1>2 DEF Without, OnStandby, Standby
  <2> QED
    BY Zenon, <1>1, <2>1 DEF Standby
<1>3. CASE OnStandby(p) # {}
  <2> DEFINE i == CHOOSE i \in DOMAIN s : ptn[s[i]].id = p
             w == Without(p)
  <2>1. i \in DOMAIN s /\ ptn[s[i]].id = p
    BY <1>3 DEF OnStandby, Standby
  <2>2. /\ w \in Seq(Instances) /\ Len(w) = Len(s) - 1
        /\ \A j \in 1..(Len(s) - 1) : w[j] = IF j < i THEN s[j] ELSE s[j + 1]
    <3>1. w = SubSeq(s, 1, i - 1) \o SubSeq(s, i + 1, Len(s))
      BY Zenon, <1>3 DEF Without
    <3> HIDE DEF i, w, s
    <3>2. i \in 1..Len(s)
      BY Zenon, <1>1, <2>1
    <3> QED
      BY Zenon, <1>1, <3>1, <3>2, RemoveProperties
  <2> HIDE DEF i, w
  <2> HIDE DEF s
  <2>3. DOMAIN w = 1..(Len(s) - 1)
    BY Zenon, <2>2, SeqProperties
  <2> DEFINE at(j) == IF j < i THEN j ELSE j + 1
  <2>4. \A j \in DOMAIN w : at(j) \in DOMAIN s /\ at(j) # i /\ w[j] = s[at(j)]
    BY SMTT(40), <1>1, <2>1, <2>2, <2>3
  <2>5. \A j \in DOMAIN w : \A l \in DOMAIN w : at(j) = at(l) => j = l
    BY <1>1, <2>1, <2>3
  <2>6. \A l \in DOMAIN s : l # i => \E j \in DOMAIN w : at(j) = l
    <3> SUFFICES ASSUME NEW l \in DOMAIN s, l # i PROVE \E j \in DOMAIN w : at(j) = l
      OBVIOUS
    <3>1. CASE l < i
      BY <1>1, <2>1, <2>3, <3>1
    <3>2. CASE ~(l < i)
      <4>1. l - 1 \in DOMAIN w /\ at(l - 1) = l
        BY SMTT(40), <1>1, <2>1, <2>3, <3>2
      <4> QED
        BY Zenon, <4>1
    <3> QED
      BY <3>1, <3>2
  <2> HIDE DEF at
  <2>7. Len(w) <= maxInactivePartitions
    BY <1>1, <2>2
  <2>8. \A j \in DOMAIN w : ptn[s[at(j)]].id # p
    BY Zenon, <1>1, <2>1, <2>4
  <2>9. \A j, l \in DOMAIN w : ptn[w[j]].id = ptn[w[l]].id => j = l
    BY <1>1, <2>4, <2>5
  <2>10. ASSUME NEW k \in Standby, ptn[k].id # p PROVE \E j \in DOMAIN w : w[j] = k
    <3>1. PICK l \in DOMAIN s : s[l] = k
      BY DEF Standby, s
    <3> QED
      BY ZenonT(40), <2>1, <2>4, <2>6, <2>10, <3>1
  <2>11. \A j \in DOMAIN w : \E l \in DOMAIN s : w[j] = s[l] /\ ptn[s[l]].id # p
    BY Zenon, <2>4, <2>8
  <2> QED
    BY Zenon, <2>2, <2>7, <2>9, <2>10, <2>11 DEF w, s
<1> QED
  BY Zenon, <1>2, <1>3

-----------------------------------------------------------------------------
(* What steps have in common.                                              *)

\* A client that returns gives up the instance it used.
LEMMA ReturnsUsers ==
  ASSUME TypeOK, NEW c \in Clients, Returns(c)
  PROVE  /\ client'[c] = Idle
         /\ \A d \in Clients : d # c => client'[d] = client[d]
         /\ client' \in [Clients -> Client]
         /\ \A k : Users(k)' = Users(k) \ {c}
<1>1. client \in [Clients -> Client] /\ Idle \in Client
  BY DEF TypeOK, Idle, Client
<1>2. /\ client'[c] = Idle
      /\ \A d \in Clients : d # c => client'[d] = client[d]
      /\ client' \in [Clients -> Client]
  BY <1>1 DEF Returns
<1>3. ASSUME NEW k PROVE Users(k)' = Users(k) \ {c}
  BY <1>2 DEF Users, Idle, Using
<1> QED
  BY Zenon, <1>2, <1>3

\* A client that goes on to use an instance.
LEMMA GoesUsers ==
  ASSUME TypeOK, NEW c \in Clients, NEW pc \in Using, NEW k \in Instances, Goes(c, pc, k)
  PROVE  /\ client'[c].pc = pc /\ client'[c].id = client[c].id /\ client'[c].on = k
         /\ \A d \in Clients : d # c => client'[d] = client[d]
         /\ client' \in [Clients -> Client]
         /\ Users(k)' = Users(k) \cup {c}
         /\ \A j : j # k => Users(j)' = Users(j) \ {c}
<1>1. client \in [Clients -> Client]
  BY DEF TypeOK
<1>2. /\ client'[c].pc = pc /\ client'[c].id = client[c].id /\ client'[c].on = k
      /\ \A d \in Clients : d # c => client'[d] = client[d]
      /\ client' \in [Clients -> Client]
  <2>1. \A d \in Clients : client'[d] = IF d = c THEN [client[c] EXCEPT !.pc = pc, !.on = k] ELSE client[d]
    BY <1>1 DEF Goes
  <2>2. [client[c] EXCEPT !.pc = pc, !.on = k] \in Client
    BY Zenon, <1>1 DEF Client, Using
  <2> QED
    BY <1>1, <2>1, <2>2 DEF Goes, Client
<1>3. Users(k)' = Users(k) \cup {c}
  BY <1>2 DEF Users
<1>4. ASSUME NEW j, j # k PROVE Users(j)' = Users(j) \ {c}
  BY <1>2, <1>4 DEF Users
<1> QED
  BY <1>2, <1>3, <1>4

\* Instances are on standby.
LEMMA StandbyTypes ==
  ASSUME TypeOK
  PROVE  /\ \A i \in DOMAIN inactivePartitions : inactivePartitions[i] \in Instances
         /\ Standby \subseteq Instances
         /\ Len(inactivePartitions) \in Nat
         /\ DOMAIN inactivePartitions = 1..Len(inactivePartitions)
<1>1. /\ Len(inactivePartitions) \in Nat /\ DOMAIN inactivePartitions = 1..Len(inactivePartitions)
      /\ inactivePartitions \in Seq(Instances)
  BY Zenon, SeqProperties DEF TypeOK
<1>2. \A i \in DOMAIN inactivePartitions : inactivePartitions[i] \in Instances
  BY <1>1, SeqProperties
<1> QED
  BY Zenon, <1>1, <1>2 DEF Standby

InMaps == {"initializing", "running", "returned"}

\* Steps that leave the maps alone, and in them what they hold.
LEMMA SameMaps ==
  ASSUME PartitionInv, UNCHANGED <<activePartitions, inactivePartitions, evicted>>,
         \A k \in Instances :
           /\ ptn'[k].id = ptn[k].id
           /\ ptn[k].run \in InMaps <=> ptn'[k].run \in InMaps
           /\ ptn[k].run \in {"running", "returned"} => ptn'[k].run \in {"running", "returned"}
           /\ k \in Standby => ptn'[k].referenceCount = ptn[k].referenceCount
  PROVE  /\ ActiveInv' /\ StandbyInv' /\ StandbyOnce' /\ RegisteredInv'
         /\ Standby' = Standby
<1>1. /\ activePartitions \in [Partitions -> Instances \cup {NoInstance}]
      /\ \A i \in DOMAIN inactivePartitions : inactivePartitions[i] \in Instances
  BY StandbyTypes DEF PartitionInv, Counted, TypeOK
<1>2. ActiveInv'
  BY <1>1 DEF PartitionInv, ActiveInv, InMaps
<1>3. Standby' = Standby /\ Standby \subseteq Instances
  BY StandbyTypes DEF Standby, PartitionInv, Counted
<1>4. StandbyInv'
  BY <1>3 DEF PartitionInv, StandbyInv
<1>5. StandbyOnce'
  BY <1>1 DEF PartitionInv, StandbyOnce
<1>6. \A p : Registered(p)' = Registered(p)
  BY DEF Registered, InMaps
<1>7. RegisteredInv'
  BY Zenon, <1>3, <1>6 DEF PartitionInv, RegisteredInv
<1> QED
  BY Zenon, <1>2, <1>3, <1>4, <1>5, <1>7

\* Steps of an instance that was set up, and of the manager.
LEMMA SameClients ==
  ASSUME PartitionInv, TypeOK', UNCHANGED client,
         \A k \in Instances :
           /\ ptn'[k].id = ptn[k].id /\ ptn'[k].referenceCount = ptn[k].referenceCount
           /\ \/ ptn'[k].run = ptn[k].run
              \/ /\ ptn[k].run \notin {"unused", "failed", "initializing"}
                 /\ ptn'[k].run \notin {"unused", "failed", "initializing"}
  PROVE  Counted' /\ ClientsInv' /\ \A k : Users(k)' = Users(k)
<1>1. \A k : Users(k)' = Users(k)
  BY DEF Users
<1>2. Counted'
  BY Zenon, <1>1 DEF PartitionInv, Counted
<1>3. ClientsInv'
  BY DEF PartitionInv, ClientsInv
<1> QED
  BY Zenon, <1>1, <1>2, <1>3

-----------------------------------------------------------------------------
(* The goroutine of an instance, and Close.                                *)

\* RunReturns, CleanUp and Done move an instance from one run to another.
LEMMA RunKeeps ==
  ASSUME PartitionInv, NEW k \in Instances, RunReturns(k) \/ CleanUp(k) \/ Done(k)
  PROVE  PartitionInv'
<1>1. TypeOK /\ ptn \in [Instances -> Partition]
  BY DEF PartitionInv, Counted, TypeOK
<1>2. PICK to \in {"returned", "cleaned", "done"} :
        /\ ptn' = [ptn EXCEPT ![k].run = to]
        /\ \/ ptn[k].run = "running" /\ to = "returned"
           \/ ptn[k].run = "finished" /\ to = "cleaned" /\ ptn[k].closing
           \/ ptn[k].run = "cleaned" /\ to = "done"
  BY DEF RunReturns, CleanUp, Done
<1>3. /\ UNCHANGED <<closed, activePartitions, inactivePartitions, client, closer, evicted>>
      /\ closingPartitions' \subseteq closingPartitions
  BY DEF RunReturns, CleanUp, Done
<1>4. /\ ptn' \in [Instances -> Partition]
      /\ ptn'[k].run = to
      /\ \A j \in Instances : j # k => ptn'[j] = ptn[j]
      /\ \A j \in Instances : /\ ptn'[j].id = ptn[j].id /\ ptn'[j].closing = ptn[j].closing
                              /\ ptn'[j].referenceCount = ptn[j].referenceCount
  BY ZenonT(40), <1>1, <1>2 DEF Partition
<1>5. TypeOK'
  BY Zenon, <1>1, <1>3, <1>4 DEF TypeOK
<1>6. Counted' /\ ClientsInv' /\ \A j : Users(j)' = Users(j)
  BY Zenon, <1>2, <1>3, <1>4, <1>5, SameClients
<1>7. ActiveInv' /\ StandbyInv' /\ StandbyOnce' /\ RegisteredInv' /\ Standby' = Standby
  BY Zenon, <1>2, <1>3, <1>4, SameMaps DEF InMaps
<1>8. ClosingInv'
  <2>1. Standby' = Standby
    BY <1>7
  <2>2. \A j \in Instances : ptn'[j].run \in {"cleaned", "done"} => ptn'[j].closing
    BY <1>2, <1>4 DEF PartitionInv, ClosingInv
  <2>3. \A j \in Instances : ptn'[j].run # "unused" => ptn'[j].id \in Partitions
    BY Zenon, <1>2, <1>4 DEF PartitionInv, ClosingInv
  <2> QED
    BY Zenon, <1>3, <1>4, <1>6, <2>1, <2>2, <2>3 DEF PartitionInv, ClosingInv
<1> QED
  BY Zenon, <1>6, <1>7, <1>8 DEF PartitionInv

\* An instance takes its partition out of the maps, whatever is there.
LEMMA DeregisterKeeps ==
  ASSUME PartitionInv, NEW k \in Instances, Deregister(k)
  PROVE  PartitionInv'
<1> DEFINE p == ptn[k].id
           w == Without(p)
<1>1. /\ TypeOK /\ ptn \in [Instances -> Partition]
      /\ activePartitions \in [Partitions -> Instances \cup {NoInstance}]
      /\ closingPartitions \subseteq Instances
  BY DEF PartitionInv, Counted, TypeOK
<1>2. /\ ptn[k].run = "returned"
      /\ activePartitions' = [activePartitions EXCEPT ![p] = NoInstance]
      /\ inactivePartitions' = w
      /\ closingPartitions' = closingPartitions \cup {k}
      /\ ptn' = [ptn EXCEPT ![k].run = "finished"]
      /\ UNCHANGED <<closed, client, closer, evicted>>
  BY DEF Deregister
<1>3. p \in Partitions
  BY Zenon, <1>2 DEF PartitionInv, ClosingInv
<1>4. /\ ptn' \in [Instances -> Partition]
      /\ ptn'[k].run = "finished"
      /\ \A j \in Instances : j # k => ptn'[j] = ptn[j]
      /\ \A j \in Instances : /\ ptn'[j].id = ptn[j].id /\ ptn'[j].closing = ptn[j].closing
                              /\ ptn'[j].referenceCount = ptn[j].referenceCount
  BY ZenonT(40), <1>1, <1>2 DEF Partition
<1>5. /\ activePartitions' \in [Partitions -> Instances \cup {NoInstance}]
      /\ activePartitions'[p] = NoInstance
      /\ \A q \in Partitions : q # p => activePartitions'[q] = activePartitions[q]
  BY Zenon, <1>1, <1>2, <1>3
<1>6. /\ w \in Seq(Instances)
      /\ Len(w) <= maxInactivePartitions
      /\ \A i \in DOMAIN w :
           \E j \in DOMAIN inactivePartitions :
             w[i] = inactivePartitions[j] /\ ptn[inactivePartitions[j]].id # p
      /\ \A i, j \in DOMAIN w : ptn[w[i]].id = ptn[w[j]].id => i = j
      /\ \A j \in Standby : ptn[j].id # p => \E i \in DOMAIN w : w[i] = j
  BY Zenon, WithoutProperties
<1> HIDE DEF w, p
<1>7. \A i \in DOMAIN w : w[i] \in Instances /\ ptn[w[i]].id # p /\ w[i] # k
  BY SMTT(40), <1>6, SeqProperties DEF p
<1>8. TypeOK'
  BY SMTT(40), <1>1, <1>2, <1>4, <1>5, <1>6 DEF TypeOK
<1>9. Counted' /\ ClientsInv' /\ \A j : Users(j)' = Users(j)
  BY Zenon, <1>2, <1>4, <1>8, SameClients
<1>10. ActiveInv'
  <2> SUFFICES ASSUME NEW q \in Partitions, activePartitions'[q] # NoInstance
               PROVE  /\ ptn'[activePartitions'[q]].id = q
                      /\ ptn'[activePartitions'[q]].run \in {"initializing", "running", "returned"}
    BY DEF ActiveInv
  <2>1. q # p /\ activePartitions'[q] = activePartitions[q] /\ activePartitions[q] \in Instances
    BY Zenon, <1>1, <1>5
  <2>2. /\ ptn[activePartitions[q]].id = q
        /\ ptn[activePartitions[q]].run \in {"initializing", "running", "returned"}
    BY Zenon, <2>1 DEF PartitionInv, ActiveInv
  <2>3. activePartitions[q] # k
    BY Zenon, <2>1, <2>2 DEF p
  <2> QED
    BY Zenon, <1>4, <2>1, <2>2, <2>3
<1>11. Standby' = {j \in Standby : ptn[j].id # p}
  <2>1. \A j : (\E i \in DOMAIN w : w[i] = j) <=> (j \in Standby /\ ptn[j].id # p)
    BY <1>6 DEF Standby
  <2> QED
    BY Zenon, <1>2, <2>1 DEF Standby
<1>12. StandbyInv'
  <2>1. \A j \in Standby' : j \in Standby /\ ptn'[j] = ptn[j] /\ ptn[j].id # p
    BY Zenon, <1>1, <1>4, <1>11, StandbyTypes DEF p
  <2> QED
    BY <1>5, <2>1 DEF PartitionInv, StandbyInv
<1>13. StandbyOnce'
  <2>1. \A i \in DOMAIN w : ptn'[w[i]] = ptn[w[i]]
    BY Zenon, <1>4, <1>7
  <2> QED
    BY SMTT(40), <1>2, <1>6, <2>1 DEF StandbyOnce
<1>14. RegisteredInv'
  <2> SUFFICES ASSUME NEW q \in Partitions \ evicted, NEW j \in Registered(q)'
               PROVE  Registered(q)' = {j} /\ (activePartitions'[q] = j \/ j \in Standby')
    BY Zenon, <1>2 DEF RegisteredInv
  <2>1. Registered(q)' = Registered(q) \ {k}
    BY <1>4 DEF Registered
  <2>2. Registered(q) = {j} /\ (activePartitions[q] = j \/ j \in Standby)
    BY Zenon, <2>1 DEF PartitionInv, RegisteredInv
  <2>3. q # p
    BY Zenon, <1>2, <2>1, <2>2 DEF Registered, p
  <2>4. ptn[j].id = q
    BY Zenon, <2>2 DEF Registered
  <2> QED
    BY Zenon, <1>5, <1>11, <2>1, <2>2, <2>3, <2>4
<1>15. ClosingInv'
  <2>1. \A j \in Instances : ptn'[j].run \in {"cleaned", "done"} => ptn'[j].closing
    BY Zenon, <1>4 DEF PartitionInv, ClosingInv
  <2>2. \A j \in Instances : ptn'[j].run # "unused" => ptn'[j].id \in Partitions
    BY ZenonT(40), <1>2, <1>4 DEF PartitionInv, ClosingInv
  <2>3. \A q \in Partitions : activePartitions'[q] \in {NoInstance, activePartitions[q]}
    BY <1>5
  <2>4. NoInstance \notin Instances
    BY ConstantsAssumption
  <2> QED
    BY SMTT(40), <1>2, <1>4, <1>9, <1>11, <2>1, <2>2, <2>3, <2>4 DEF PartitionInv, ClosingInv
<1> QED
  BY ZenonT(40), <1>9, <1>10, <1>12, <1>13, <1>14, <1>15 DEF PartitionInv

\* Close waits for initializations, then closes all it knows.
LEMMA CloseKeeps ==
  ASSUME PartitionInv, CloseManager \/ CloseStep
  PROVE  PartitionInv'
<1>1. /\ TypeOK /\ ptn \in [Instances -> Partition]
  BY DEF PartitionInv, Counted, TypeOK
<1>2. /\ UNCHANGED <<activePartitions, inactivePartitions, closingPartitions, client, evicted>>
      /\ closed' = TRUE /\ closer' \in {"initializing", "waiting", "closed"}
  BY Zenon, <1>1 DEF CloseManager, CloseStep, CloseAll, CloseDone, PartitionInv, ClosingInv, TypeOK
<1>3. /\ ptn' \in [Instances -> Partition]
      /\ \A j \in Instances : /\ ptn'[j].id = ptn[j].id /\ ptn'[j].run = ptn[j].run
                              /\ ptn'[j].referenceCount = ptn[j].referenceCount
                              /\ ptn[j].closing => ptn'[j].closing
  <2>1. CASE CloseAll
    <3>1. PICK S : ptn' = Closed(S)
      BY <2>1 DEF CloseAll
    <3> QED
      BY ZenonT(40), <1>1, <3>1 DEF Closed, Partition
  <2>2. CASE UNCHANGED ptn
    BY <1>1, <2>2
  <2> QED
    BY <2>1, <2>2 DEF CloseManager, CloseStep, CloseDone
<1>4. TypeOK'
  BY <1>1, <1>2, <1>3 DEF TypeOK
<1>5. Counted' /\ ClientsInv'
  BY Zenon, <1>2, <1>3, <1>4, SameClients
<1>6. ActiveInv' /\ StandbyInv' /\ StandbyOnce' /\ RegisteredInv' /\ Standby' = Standby
  BY Zenon, <1>2, <1>3, SameMaps
<1>7. ClosingInv'
  BY Zenon, <1>2, <1>3 DEF PartitionInv, ClosingInv
<1> QED
  BY Zenon, <1>5, <1>6, <1>7 DEF PartitionInv

-----------------------------------------------------------------------------
(* startPartition.                                                         *)

\* A client that uses no instance, or one that failed to be set up, starts over.
LEMMA StartOver ==
  ASSUME PartitionInv, NEW c \in Clients,
         UNCHANGED <<closed, activePartitions, inactivePartitions, closingPartitions,
                     ptn, closer, evicted>>,
         client' \in [Clients -> Client],
         \A d \in Clients : d # c => client'[d] = client[d],
         client'[c].pc = "idle" \/ (client'[c].pc = "lookup" /\ client'[c].id \in Partitions),
         client[c].pc \in Using => ptn[client[c].on].run = "failed"
  PROVE  PartitionInv'
<1>1. TypeOK'
  BY Zenon DEF PartitionInv, Counted, TypeOK
<1>2. \A k : Users(k)' = Users(k) \ {c}
  BY Zenon DEF Users, Using
<1>3. \A k \in Instances : ptn[k].run # "failed" => Users(k)' = Users(k)
  BY ZenonT(40), <1>2 DEF Users
<1>4. Counted'
  BY Zenon, <1>1, <1>3 DEF PartitionInv, Counted
<1>5. ClientsInv'
  BY DEF PartitionInv, ClientsInv, Using
<1>6. ActiveInv' /\ StandbyInv' /\ StandbyOnce' /\ RegisteredInv' /\ Standby' = Standby
  BY Zenon, SameMaps
<1>7. ClosingInv'
  <2>1. \A k : Users(k) = {} => Users(k)' = {}
    BY Zenon, <1>2
  <2> QED
    BY <2>1 DEF PartitionInv, ClosingInv, Standby
<1> QED
  BY Zenon, <1>4, <1>5, <1>6, <1>7 DEF PartitionInv

\* An instance that was set up by somebody else is handed out.
LEMMA JoinKeeps ==
  ASSUME PartitionInv, NEW c \in Clients, Join(c)
  PROVE  PartitionInv'
<1> DEFINE k == client[c].on
<1>1. /\ client[c].pc = "joining" /\ ptn[k].run # "initializing"
      /\ UNCHANGED <<closed, activePartitions, inactivePartitions, closingPartitions,
                     ptn, closer, evicted>>
      /\ IF ptn[k].run = "failed" THEN Returns(c) ELSE Goes(c, "holding", k)
  BY DEF Join
<1>2. TypeOK
  BY DEF PartitionInv, Counted
<1>3. CASE ptn[k].run = "failed"
  <2>1. Returns(c)
    BY Zenon, <1>1, <1>3
  <2>2. /\ client' \in [Clients -> Client] /\ client'[c] = Idle
        /\ \A d \in Clients : d # c => client'[d] = client[d]
    BY Zenon, <1>2, <2>1, ReturnsUsers
  <2>3. client'[c].pc = "idle"
    BY <2>2 DEF Idle
  <2>4. /\ client[c].pc \in Using => ptn[client[c].on].run = "failed"
        /\ client'[c].pc = "idle" \/ (client'[c].pc = "lookup" /\ client'[c].id \in Partitions)
    BY Zenon, <1>3, <2>3
  <2>5. UNCHANGED <<closed, activePartitions, inactivePartitions, closingPartitions,
                    ptn, closer, evicted>>
    BY Zenon, <1>1
  <2> QED
    BY <2>2, <2>4, <2>5, StartOver, Zenon
<1>4. CASE ptn[k].run # "failed"
  <2>1. k \in Instances /\ Goes(c, "holding", k) /\ c \in Users(k)
    BY Zenon, <1>1, <1>4 DEF PartitionInv, ClientsInv, Using, Users
  <2>2. "holding" \in Using
    BY Zenon DEF Using
  <2>3. /\ client'[c].pc = "holding" /\ client'[c].id = client[c].id /\ client'[c].on = k
        /\ \A d \in Clients : d # c => client'[d] = client[d]
        /\ client' \in [Clients -> Client]
        /\ Users(k)' = Users(k) \cup {c}
        /\ \A j : j # k => Users(j)' = Users(j) \ {c}
    BY ZenonT(40), <1>2, <2>1, <2>2, GoesUsers
  <2>4. \A j : Users(j)' = Users(j)
    BY Zenon, <2>1, <2>3 DEF Users
  <2>5. TypeOK'
    BY Zenon, <1>1, <1>2, <2>3 DEF TypeOK
  <2>6. Counted'
    BY ZenonT(40), <1>1, <2>4, <2>5 DEF PartitionInv, Counted
  <2>7. ClientsInv'
    <3>1. \A d \in Clients : client'[d].id = client[d].id /\ client'[d].on = client[d].on
      BY Zenon, <2>3
    <3>2. \A d \in Clients : d # c => client'[d].pc = client[d].pc
      BY Zenon, <2>3
    <3> QED
      BY SMTT(40), <1>1, <1>4, <2>3, <3>1, <3>2 DEF PartitionInv, ClientsInv, Using
  <2>8. ActiveInv' /\ StandbyInv' /\ StandbyOnce' /\ RegisteredInv' /\ Standby' = Standby
    BY Zenon, <1>1, SameMaps
  <2>9. ClosingInv'
    BY Zenon, <1>1, <2>4 DEF PartitionInv, ClosingInv, Standby
  <2> QED
    BY Zenon, <2>6, <2>7, <2>8, <2>9 DEF PartitionInv
<1> QED
  BY ZenonT(40), <1>3, <1>4

\* The instance has been set up, and its goroutine runs.
LEMMA SetupSucceedsKeeps ==
  ASSUME PartitionInv, NEW c \in Clients, SetupSucceeds(c)
  PROVE  PartitionInv'
<1> DEFINE k == client[c].on
<1>1. /\ client[c].pc = "setup" /\ ptn' = [ptn EXCEPT ![k].run = "running"]
      /\ Goes(c, "holding", k)
      /\ UNCHANGED <<closed, activePartitions, inactivePartitions, closingPartitions,
                     closer, evicted>>
  BY DEF SetupSucceeds
<1>2. TypeOK /\ ptn \in [Instances -> Partition]
  BY Zenon DEF PartitionInv, Counted, TypeOK
<1>3. k \in Instances /\ ptn[k].run = "initializing" /\ c \in Users(k) /\ "holding" \in Using
  BY Zenon, <1>1 DEF PartitionInv, ClientsInv, Using, Users
<1>4. /\ client'[c].pc = "holding" /\ client'[c].id = client[c].id /\ client'[c].on = k
      /\ \A d \in Clients : d # c => client'[d] = client[d]
      /\ client' \in [Clients -> Client]
      /\ Users(k)' = Users(k) \cup {c}
      /\ \A j : j # k => Users(j)' = Users(j) \ {c}
  BY SMTT(40), <1>1, <1>2, <1>3, GoesUsers
<1>5. \A j : Users(j)' = Users(j)
  BY <1>3, <1>4 DEF Users
<1>6. /\ ptn' \in [Instances -> Partition]
      /\ ptn'[k].run = "running"
      /\ \A j \in Instances : j # k => ptn'[j] = ptn[j]
      /\ \A j \in Instances : /\ ptn'[j].id = ptn[j].id /\ ptn'[j].closing = ptn[j].closing
                              /\ ptn'[j].referenceCount = ptn[j].referenceCount
  BY ZenonT(40), <1>1, <1>2, <1>3 DEF Partition
<1>7. TypeOK'
  BY Zenon, <1>1, <1>2, <1>4, <1>6 DEF TypeOK
<1> HIDE DEF k
<1>8. Counted'
  BY Zenon, <1>3, <1>5, <1>6, <1>7 DEF PartitionInv, Counted
<1>9. ClientsInv'
  <2>1. \A d \in Clients : client'[d].id = client[d].id /\ client'[d].on = client[d].on
    BY <1>4 DEF k
  <2>2. \A d \in Clients : d # c => client'[d].pc = client[d].pc
    BY ZenonT(40), <1>4
  <2>3. \A d \in Clients : (d # c /\ client[d].pc = "setup") => client[d].on # k
    BY <1>1 DEF PartitionInv, ClientsInv, k
  <2>4. \A d \in Clients : client[d].pc \in Using <=> client'[d].pc \in Using
    BY Zenon, <1>1, <1>3, <1>4, <2>2 DEF Using
  <2>5. \A d \in Clients : (d # c /\ client[d].pc \in {"setup", "holding"}) => client[d].on # k
    BY Zenon, <1>3, <2>3 DEF PartitionInv, ClientsInv, Using
  <2>6. ASSUME NEW d \in Clients, client'[d].pc \in Using
        PROVE  /\ client'[d].on \in Instances
               /\ ptn'[client'[d].on].id = client'[d].id
               /\ ptn'[client'[d].on].run # "unused"
               /\ client'[d].pc = "setup" => ptn'[client'[d].on].run = "initializing"
               /\ client'[d].pc = "holding" => ptn'[client'[d].on].run \notin {"initializing", "failed"}
    <3>1. /\ client[d].on \in Instances
          /\ ptn[client[d].on].id = client[d].id
          /\ ptn[client[d].on].run # "unused"
          /\ client[d].pc = "setup" => ptn[client[d].on].run = "initializing"
          /\ client[d].pc = "holding" => ptn[client[d].on].run \notin {"initializing", "failed"}
      BY ZenonT(40), <2>4, <2>6 DEF PartitionInv, ClientsInv
    <3>2. CASE d = c
      BY SMTT(40), <1>3, <1>4, <1>6, <2>1, <3>1, <3>2
    <3>3. CASE d # c
      <4>1. client'[d] = client[d]
        BY Zenon, <1>4, <3>3
      <4>2. CASE client[d].on = k
        BY ZenonT(40), <1>6, <2>5, <3>1, <3>3, <4>1, <4>2
      <4>3. CASE client[d].on # k
        BY Zenon, <1>6, <3>1, <4>1, <4>3
      <4> QED
        BY Zenon, <4>2, <4>3
    <3> QED
      BY ZenonT(40), <3>2, <3>3
  <2>7. \A d \in Clients : client'[d].pc # "idle" => client'[d].id \in Partitions
    BY ZenonT(40), <1>1, <2>1, <2>2 DEF PartitionInv, ClientsInv
  <2>8. \A d, e \in Clients :
          (client'[d].pc = "setup" /\ client'[e].pc = "setup" /\ client'[d].on = client'[e].on) => d = e
    BY SMTT(40), <1>4, <2>1, <2>2 DEF PartitionInv, ClientsInv
  <2> QED
    BY Zenon, <2>6, <2>7, <2>8 DEF ClientsInv
<1>10. ActiveInv' /\ StandbyInv' /\ StandbyOnce' /\ RegisteredInv' /\ Standby' = Standby
  BY ZenonT(40), <1>1, <1>3, <1>6, SameMaps DEF InMaps
<1>11. ClosingInv'
  <2>1. \A j \in Instances : ptn'[j].run \in {"cleaned", "done"} => ptn'[j].closing
    BY Zenon, <1>6 DEF PartitionInv, ClosingInv
  <2>2. \A j \in Instances : ptn'[j].run # "unused" => ptn'[j].id \in Partitions
    BY Zenon, <1>3, <1>6 DEF PartitionInv, ClosingInv
  <2>3. Standby' = Standby
    BY <1>1 DEF Standby
  <2> QED
    BY SMTT(40), <1>1, <1>5, <1>6, <2>1, <2>2, <2>3 DEF PartitionInv, ClosingInv
<1> QED
  BY SMTT(40), <1>8, <1>9, <1>10, <1>11 DEF PartitionInv

\* The instance could not be set up: it leaves the map, and so does whatever
\* else is there for the partition.
LEMMA SetupFailsKeeps ==
  ASSUME PartitionInv, NEW c \in Clients, SetupFails(c)
  PROVE  PartitionInv'
<1> DEFINE k == client[c].on
           p == client[c].id
<1>1. /\ client[c].pc = "setup" /\ ptn' = [ptn EXCEPT ![k].run = "failed"]
      /\ activePartitions' = [activePartitions EXCEPT ![p] = NoInstance]
      /\ Returns(c)
      /\ UNCHANGED <<closed, inactivePartitions, closingPartitions, closer, evicted>>
  BY Zenon DEF SetupFails
<1>2. /\ TypeOK /\ ptn \in [Instances -> Partition]
      /\ activePartitions \in [Partitions -> Instances \cup {NoInstance}]
      /\ \A i \in DOMAIN inactivePartitions : inactivePartitions[i] \in Instances
      /\ Standby \subseteq Instances
  BY Zenon, StandbyTypes DEF PartitionInv, Counted, TypeOK
<1>3. k \in Instances /\ ptn[k].run = "initializing" /\ ptn[k].id = p /\ p \in Partitions
  BY Zenon, <1>1 DEF PartitionInv, ClientsInv, Using
<1>4. /\ client'[c] = Idle
      /\ \A d \in Clients : d # c => client'[d] = client[d]
      /\ client' \in [Clients -> Client]
      /\ \A j : Users(j)' = Users(j) \ {c}
  BY Zenon, <1>1, <1>2, ReturnsUsers
<1>5. \A j : j # k => Users(j)' = Users(j)
  BY Zenon, <1>4 DEF Users
<1>6. /\ ptn' \in [Instances -> Partition]
      /\ ptn'[k].run = "failed"
      /\ \A j \in Instances : j # k => ptn'[j] = ptn[j]
      /\ \A j \in Instances : /\ ptn'[j].id = ptn[j].id /\ ptn'[j].closing = ptn[j].closing
                              /\ ptn'[j].referenceCount = ptn[j].referenceCount
  BY ZenonT(40), <1>1, <1>2, <1>3 DEF Partition
<1>7. /\ activePartitions' \in [Partitions -> Instances \cup {NoInstance}]
      /\ activePartitions'[p] = NoInstance
      /\ \A q \in Partitions : q # p => activePartitions'[q] = activePartitions[q]
  BY Zenon, <1>1, <1>2, <1>3
<1>8. TypeOK'
  BY Zenon, <1>1, <1>2, <1>4, <1>6, <1>7 DEF TypeOK
<1> HIDE DEF k, p
<1>9. Counted'
  BY ZenonT(40), <1>3, <1>5, <1>6, <1>8 DEF PartitionInv, Counted
<1>10. ClientsInv'
  <2>1. \A d \in Clients : (d # c /\ client[d].pc = "setup") => client[d].on # k
    BY Zenon, <1>1 DEF PartitionInv, ClientsInv, k
  <2>2. \A d \in Clients : (d # c /\ client[d].pc = "holding") => client[d].on # k
    BY Zenon, <1>3 DEF PartitionInv, ClientsInv, Using
  <2> QED
    BY SMTT(40), <1>4, <1>6, <2>1, <2>2 DEF PartitionInv, ClientsInv, Using, Idle
<1>11. ActiveInv'
  <2>1. \A q \in Partitions : activePartitions'[q] # NoInstance =>
          /\ activePartitions'[q] = activePartitions[q] /\ activePartitions[q] \in Instances
          /\ ptn[activePartitions[q]].id = q /\ activePartitions[q] # k
          /\ ptn[activePartitions[q]].run \in {"initializing", "running", "returned"}
    BY <1>2, <1>3, <1>7 DEF PartitionInv, ActiveInv
  <2> QED
    BY <1>6, <2>1 DEF ActiveInv
<1>12. Standby' = Standby
  BY Zenon, <1>1 DEF Standby
<1>13. StandbyInv'
  <2>1. \A j \in Standby : ptn'[j] = ptn[j]
    BY ZenonT(40), <1>2, <1>3, <1>6 DEF PartitionInv, StandbyInv
  <2>2. \A q \in Partitions : activePartitions[q] = NoInstance => activePartitions'[q] = NoInstance
    BY Zenon, <1>7
  <2> QED
    BY SMTT(40), <1>12, <2>1, <2>2 DEF PartitionInv, StandbyInv
<1>14. StandbyOnce'
  BY SMTT(40), <1>1, <1>2, <1>6 DEF PartitionInv, StandbyOnce
<1>15. RegisteredInv'
  <2> SUFFICES ASSUME NEW q \in Partitions \ evicted, NEW j \in Registered(q)'
               PROVE  Registered(q)' = {j} /\ (activePartitions'[q] = j \/ j \in Standby')
    BY Zenon, <1>1 DEF RegisteredInv
  <2>1. Registered(q)' = Registered(q) \ {k}
    BY Zenon, <1>6 DEF Registered
  <2>2. Registered(q) = {j} /\ (activePartitions[q] = j \/ j \in Standby)
    BY Zenon, <2>1 DEF PartitionInv, RegisteredInv
  <2>3. q # p
    BY ZenonT(40), <1>3, <2>1, <2>2 DEF Registered
  <2> QED
    BY Zenon, <1>7, <1>12, <2>1, <2>2, <2>3
<1>16. ClosingInv'
  <2>1. \A j \in Instances : ptn'[j].run \in {"cleaned", "done"} => ptn'[j].closing
    BY Zenon, <1>6 DEF PartitionInv, ClosingInv
  <2>2. \A j \in Instances : ptn'[j].run # "unused" => ptn'[j].id \in Partitions
    BY Zenon, <1>3, <1>6 DEF PartitionInv, ClosingInv
  <2>3. \A q \in Partitions : activePartitions'[q] \in {NoInstance, activePartitions[q]}
    BY Zenon, <1>7
  <2>4. NoInstance \notin Instances /\ \A j : Users(j) = {} => Users(j)' = {}
    BY Zenon, <1>4, ConstantsAssumption
  <2> QED
    BY SMTT(40), <1>1, <1>6, <1>12, <2>1, <2>2, <2>3, <2>4 DEF PartitionInv, ClosingInv
<1> QED
  BY ZenonT(40), <1>9, <1>10, <1>11, <1>13, <1>14, <1>15, <1>16 DEF PartitionInv

\* A new instance: nothing refers to it but the client that sets it up.
LEMMA StartNewKeeps ==
  ASSUME PartitionInv, NEW c \in Clients, NEW k \in Instances, StartNew(c, k)
  PROVE  PartitionInv'
<1> DEFINE p == client[c].id
           new == [id |-> p, run |-> "initializing", referenceCount |-> 1, closing |-> FALSE]
<1>1. /\ client[c].pc = "lookup" /\ activePartitions[p] = NoInstance /\ OnStandby(p) = {}
      /\ k \in Garbage
      /\ ptn' = [ptn EXCEPT ![k] = new]
      /\ activePartitions' = [activePartitions EXCEPT ![p] = k]
      /\ Goes(c, "setup", k)
      /\ UNCHANGED <<closed, inactivePartitions, closingPartitions, closer, evicted>>
  BY Zenon DEF StartNew
<1>2. /\ TypeOK /\ ptn \in [Instances -> Partition]
      /\ activePartitions \in [Partitions -> Instances \cup {NoInstance}]
      /\ \A i \in DOMAIN inactivePartitions : inactivePartitions[i] \in Instances
      /\ Standby \subseteq Instances
  BY Zenon, StandbyTypes DEF PartitionInv, Counted, TypeOK
<1>3. p \in Partitions /\ NoInstance \notin Instances /\ "setup" \in Using
  BY ZenonT(40), <1>1, ConstantsAssumption DEF PartitionInv, ClientsInv, Using
<1>4. /\ client'[c].pc = "setup" /\ client'[c].id = p /\ client'[c].on = k
      /\ \A d \in Clients : d # c => client'[d] = client[d]
      /\ client' \in [Clients -> Client]
      /\ Users(k)' = Users(k) \cup {c}
      /\ \A j : j # k => Users(j)' = Users(j) \ {c}
  BY SMTT(40), <1>1, <1>2, <1>3, GoesUsers
<1>5. /\ \A d \in Clients : client[d].on # k
      /\ \A q \in Partitions : activePartitions[q] # k
      /\ k \notin Standby
      /\ ptn[k].run \notin {"initializing", "running", "returned"}
  BY Zenon, <1>1 DEF Garbage, Reachable
<1>6. new \in Partition
  BY Zenon, <1>3 DEF Partition
<1>7. /\ new.id = p /\ new.run = "initializing" /\ new.referenceCount = 1 /\ new.closing = FALSE
  BY Zenon
<1> HIDE DEF new
<1>8. /\ ptn' \in [Instances -> Partition]
      /\ ptn'[k] = new
      /\ \A j \in Instances : j # k => ptn'[j] = ptn[j]
  BY Zenon, <1>1, <1>2, <1>6
<1>9. /\ activePartitions' \in [Partitions -> Instances \cup {NoInstance}]
      /\ activePartitions'[p] = k
      /\ \A q \in Partitions : q # p => activePartitions'[q] = activePartitions[q]
  BY ZenonT(40), <1>1, <1>2, <1>3
<1> HIDE DEF p
<1>10. /\ Users(k)' = {c}
       /\ \A j : j # k => Users(j)' = Users(j)
  BY SMTT(40), <1>1, <1>4, <1>5 DEF Users, Using
<1>11. TypeOK'
  BY Zenon, <1>1, <1>2, <1>4, <1>8, <1>9 DEF TypeOK
<1>12. Counted'
  <2>1. Cardinality(Users(k)') = 1
    BY <1>10, FS_Singleton, Zenon
  <2> QED
    BY Zenon, <1>7, <1>8, <1>10, <1>11, <2>1 DEF PartitionInv, Counted
<1>13. ClientsInv'
  <2>1. ASSUME NEW d \in Clients, client'[d].pc \in Using
        PROVE  /\ client'[d].on \in Instances
               /\ ptn'[client'[d].on].id = client'[d].id
               /\ ptn'[client'[d].on].run # "unused"
               /\ client'[d].pc = "setup" => ptn'[client'[d].on].run = "initializing"
               /\ client'[d].pc = "holding" => ptn'[client'[d].on].run \notin {"initializing", "failed"}
    <3>1. CASE d = c
      BY Zenon, <1>4, <1>7, <1>8, <3>1
    <3>2. CASE d # c
      <4>1. client'[d] = client[d] /\ client[d].on # k
        BY Zenon, <1>4, <1>5, <3>2
      <4>2. client[d].on \in Instances
        BY Zenon, <2>1, <4>1 DEF PartitionInv, ClientsInv
      <4>3. ptn'[client[d].on] = ptn[client[d].on]
        BY Zenon, <1>8, <4>1, <4>2
      <4> QED
        BY ZenonT(40), <2>1, <4>1, <4>2, <4>3 DEF PartitionInv, ClientsInv
    <3> QED
      BY Zenon, <3>1, <3>2
  <2>2. \A d \in Clients : client'[d].pc # "idle" => client'[d].id \in Partitions
    BY ZenonT(40), <1>3, <1>4 DEF PartitionInv, ClientsInv
  <2>3. \A d, e \in Clients :
          (client'[d].pc = "setup" /\ client'[e].pc = "setup" /\ client'[d].on = client'[e].on) => d = e
    BY SMTT(40), <1>4, <1>5 DEF PartitionInv, ClientsInv
  <2> QED
    BY Zenon, <2>1, <2>2, <2>3 DEF ClientsInv
<1>14. ActiveInv'
  <2>1. \A q \in Partitions : q # p /\ activePartitions[q] # NoInstance =>
          /\ activePartitions[q] \in Instances /\ activePartitions[q] # k
          /\ ptn[activePartitions[q]].id = q
          /\ ptn[activePartitions[q]].run \in {"initializing", "running", "returned"}
    BY <1>2, <1>5 DEF PartitionInv, ActiveInv
  <2> QED
    BY SMTT(40), <1>7, <1>8, <1>9, <2>1 DEF ActiveInv
<1>15. Standby' = Standby
  BY Zenon, <1>1 DEF Standby
<1>16. StandbyInv'
  <2>1. \A j \in Standby : ptn'[j] = ptn[j] /\ ptn[j].id # p
    BY ZenonT(40), <1>1, <1>2, <1>5, <1>8 DEF OnStandby
  <2> QED
    BY <1>9, <1>15, <2>1 DEF PartitionInv, StandbyInv
<1>17. StandbyOnce'
  <2>1. \A i \in DOMAIN inactivePartitions : ptn'[inactivePartitions[i]] = ptn[inactivePartitions[i]]
    BY Zenon, <1>2, <1>5, <1>8 DEF Standby
  <2> QED
    BY SMTT(40), <1>1, <2>1 DEF PartitionInv, StandbyOnce
<1>18. RegisteredInv'
  <2> SUFFICES ASSUME NEW q \in Partitions \ evicted, NEW j \in Registered(q)'
               PROVE  Registered(q)' = {j} /\ (activePartitions'[q] = j \/ j \in Standby')
    BY Zenon, <1>1 DEF RegisteredInv
  <2>1. CASE q = p
    <3>1. Registered(q) = {}
      <4>1. \A i \in Registered(q) : activePartitions[q] = i \/ i \in Standby
        BY Zenon DEF PartitionInv, RegisteredInv
      <4>2. \A i \in Registered(q) : i \in Instances /\ ptn[i].id = q
        BY Zenon DEF Registered
      <4> QED
        BY SMTT(40), <1>1, <1>3, <2>1, <4>1, <4>2 DEF OnStandby
    <3>2. Registered(q)' = {k}
      BY SMTT(40), <1>7, <1>8, <2>1, <3>1 DEF Registered
    <3> QED
      BY ZenonT(40), <1>9, <2>1, <3>2
  <2>2. CASE q # p
    <3>1. Registered(q)' = Registered(q)
      BY Zenon, <1>5, <1>7, <1>8, <2>2 DEF Registered
    <3> QED
      BY SMTT(40), <1>9, <1>15, <2>2, <3>1 DEF PartitionInv, RegisteredInv
  <2> QED
    BY Zenon, <2>1, <2>2
<1>19. ClosingInv'
  <2>1. \A j \in Instances : ptn'[j].run \in {"cleaned", "done"} => ptn'[j].closing
    BY Zenon, <1>7, <1>8 DEF PartitionInv, ClosingInv
  <2>2. \A j \in Instances : ptn'[j].run # "unused" => ptn'[j].id \in Partitions
    BY Zenon, <1>3, <1>7, <1>8 DEF PartitionInv, ClosingInv
  <2>3. ASSUME ~closed, NEW j \in Instances, ptn'[j].closing
        PROVE  Users(j)' = {} /\ j \notin Standby' /\ \A q \in Partitions : activePartitions'[q] # j
    <3>1. j # k /\ ptn[j].closing
      BY Zenon, <1>7, <1>8, <2>3
    <3>2. Users(j) = {} /\ j \notin Standby /\ \A q \in Partitions : activePartitions[q] # j
      BY Zenon, <2>3, <3>1 DEF PartitionInv, ClosingInv
    <3> QED
      BY ZenonT(40), <1>9, <1>10, <1>15, <3>1, <3>2
  <2> QED
    BY Zenon, <1>1, <2>1, <2>2, <2>3 DEF PartitionInv, ClosingInv
<1> QED
  BY ZenonT(40), <1>12, <1>13, <1>14, <1>16, <1>17, <1>18, <1>19 DEF PartitionInv

\* A handle more to an instance in one of the maps.
LEMMA StartExistingKeeps ==
  ASSUME PartitionInv, NEW c \in Clients, NEW k \in Instances, StartExisting(c, k)
  PROVE  PartitionInv'
<1> DEFINE p == client[c].id
           w == Without(p)
<1>1. /\ client[c].pc = "lookup" /\ ~ptn[k].closing
      /\ k = activePartitions[p] \/ (activePartitions[p] = NoInstance /\ k \in OnStandby(p))
      /\ ptn' = [ptn EXCEPT ![k].referenceCount = @ + 1]
      /\ activePartitions' = [activePartitions EXCEPT ![p] = k]
      /\ inactivePartitions' = IF k = activePartitions[p] THEN inactivePartitions ELSE w
      /\ Goes(c, "joining", k)
      /\ UNCHANGED <<closed, closingPartitions, closer, evicted>>
  BY Zenon DEF StartExisting
<1>2. /\ TypeOK /\ ptn \in [Instances -> Partition]
      /\ activePartitions \in [Partitions -> Instances \cup {NoInstance}]
      /\ \A i \in DOMAIN inactivePartitions : inactivePartitions[i] \in Instances
      /\ Standby \subseteq Instances
      /\ inactivePartitions \in Seq(Instances) /\ Len(inactivePartitions) <= maxInactivePartitions
  BY Zenon, StandbyTypes DEF PartitionInv, Counted, TypeOK
<1>3. p \in Partitions /\ NoInstance \notin Instances /\ "joining" \in Using
  BY Zenon, <1>1, ConstantsAssumption DEF PartitionInv, ClientsInv, Using
<1>4. /\ client'[c].pc = "joining" /\ client'[c].id = p /\ client'[c].on = k
      /\ \A d \in Clients : d # c => client'[d] = client[d]
      /\ client' \in [Clients -> Client]
      /\ Users(k)' = Users(k) \cup {c}
      /\ \A j : j # k => Users(j)' = Users(j) \ {c}
  BY Zenon, <1>1, <1>2, <1>3, GoesUsers
<1>5. /\ ptn' \in [Instances -> Partition]
      /\ ptn'[k].referenceCount = ptn[k].referenceCount + 1
      /\ \A j \in Instances : j # k => ptn'[j] = ptn[j]
      /\ \A j \in Instances : /\ ptn'[j].id = ptn[j].id /\ ptn'[j].closing = ptn[j].closing
                              /\ ptn'[j].run = ptn[j].run
  <2>1. ptn' = [ptn EXCEPT ![k].referenceCount = ptn[k].referenceCount + 1]
    BY Zenon, <1>1
  <2>2. ptn[k] \in Partition /\ ptn[k].referenceCount + 1 \in Nat
    BY <1>2 DEF Partition
  <2>3. [ptn[k] EXCEPT !.referenceCount = ptn[k].referenceCount + 1] \in Partition
    BY <2>2 DEF Partition
  <2>4. \A j \in Instances : ptn'[j] =
          IF j = k THEN [ptn[k] EXCEPT !.referenceCount = ptn[k].referenceCount + 1] ELSE ptn[j]
    BY Zenon, <1>2, <2>1
  <2> QED
    BY Zenon, <1>2, <2>1, <2>2, <2>3, <2>4 DEF Partition
<1>6. /\ activePartitions' \in [Partitions -> Instances \cup {NoInstance}]
      /\ activePartitions'[p] = k
      /\ \A q \in Partitions : q # p => activePartitions'[q] = activePartitions[q]
  BY Zenon, <1>1, <1>2, <1>3
<1>7. ptn[k].id = p /\ ptn[k].run \in {"initializing", "running", "returned"}
  BY SMTT(40), <1>1, <1>2, <1>3 DEF PartitionInv, ActiveInv, StandbyInv, OnStandby
<1>8. /\ w \in Seq(Instances)
      /\ Len(w) <= maxInactivePartitions
      /\ \A i \in DOMAIN w :
           \E j \in DOMAIN inactivePartitions :
             w[i] = inactivePartitions[j] /\ ptn[inactivePartitions[j]].id # p
      /\ \A i, j \in DOMAIN w : ptn[w[i]].id = ptn[w[j]].id => i = j
      /\ \A j \in Standby : ptn[j].id # p => \E i \in DOMAIN w : w[i] = j
  BY Zenon, WithoutProperties
<1> HIDE DEF w, p
<1>9. Standby' = {j \in Standby : ptn[j].id # p}
  <2>1. CASE k = activePartitions[p]
    <3>1. \A j \in Standby : ptn[j].id # p
      BY Zenon, <1>3, <2>1 DEF PartitionInv, StandbyInv
    <3> QED
      BY Zenon, <1>1, <2>1, <3>1 DEF Standby
  <2>2. CASE k # activePartitions[p]
    <3>1. \A j : (\E i \in DOMAIN w : w[i] = j) <=> (j \in Standby /\ ptn[j].id # p)
      BY <1>8 DEF Standby
    <3> QED
      BY SMTT(40), <1>1, <2>2, <3>1 DEF Standby
  <2> QED
    BY Zenon, <2>1, <2>2
<1>10. TypeOK'
  BY ZenonT(40), <1>1, <1>2, <1>4, <1>5, <1>6, <1>8 DEF TypeOK
<1>11. c \notin Users(k) /\ \A j : j # k => Users(j)' = Users(j)
  BY SMTT(40), <1>1, <1>4 DEF Users, Using
<1>12. Counted'
  <2>1. Cardinality(Users(k)') = Cardinality(Users(k)) + 1
    BY ZenonT(40), <1>4, <1>11, UsersCount
  <2>2. ptn[k].referenceCount = Cardinality(Users(k))
    BY Zenon, <1>7 DEF PartitionInv, Counted
  <2>3. \A j \in Instances : ptn'[j].run \notin {"unused", "failed"} =>
          ptn'[j].referenceCount = Cardinality(Users(j)')
    BY SMTT(40), <1>5, <1>11, <2>1, <2>2 DEF PartitionInv, Counted
  <2> QED
    BY Zenon, <1>10, <2>3 DEF Counted
<1>13. ClientsInv'
  <2>1. ASSUME NEW d \in Clients, client'[d].pc \in Using
        PROVE  /\ client'[d].on \in Instances
               /\ ptn'[client'[d].on].id = client'[d].id
               /\ ptn'[client'[d].on].run # "unused"
               /\ client'[d].pc = "setup" => ptn'[client'[d].on].run = "initializing"
               /\ client'[d].pc = "holding" => ptn'[client'[d].on].run \notin {"initializing", "failed"}
    <3>1. CASE d = c
      BY ZenonT(40), <1>4, <1>5, <1>7, <3>1
    <3>2. CASE d # c
      <4>1. client'[d] = client[d]
        BY Zenon, <1>4, <3>2
      <4>2. client[d].on \in Instances
        BY Zenon, <2>1, <4>1 DEF PartitionInv, ClientsInv
      <4>3. /\ ptn'[client[d].on].id = ptn[client[d].on].id
            /\ ptn'[client[d].on].run = ptn[client[d].on].run
        BY Zenon, <1>5, <4>2
      <4> QED
        BY ZenonT(40), <2>1, <4>1, <4>2, <4>3 DEF PartitionInv, ClientsInv
    <3> QED
      BY <3>1, <3>2
  <2>2. \A d \in Clients : client'[d].pc # "idle" => client'[d].id \in Partitions
    BY ZenonT(40), <1>3, <1>4 DEF PartitionInv, ClientsInv
  <2>3. \A d, e \in Clients :
          (client'[d].pc = "setup" /\ client'[e].pc = "setup" /\ client'[d].on = client'[e].on) => d = e
    BY SMTT(40), <1>4 DEF PartitionInv, ClientsInv
  <2> QED
    BY SMTT(40), <2>1, <2>2, <2>3 DEF ClientsInv
<1>14. ActiveInv'
  <2>1. \A q \in Partitions : q # p /\ activePartitions[q] # NoInstance =>
          /\ activePartitions[q] \in Instances
          /\ ptn[activePartitions[q]].id = q
          /\ ptn[activePartitions[q]].run \in {"initializing", "running", "returned"}
    BY Zenon, <1>2 DEF PartitionInv, ActiveInv
  <2> QED
    BY SMTT(40), <1>5, <1>6, <1>7, <2>1 DEF ActiveInv
<1>15. StandbyInv'
  <2>1. \A j \in Standby' : j \in Standby /\ ptn'[j] = ptn[j] /\ ptn[j].id # p
    BY Zenon, <1>2, <1>5, <1>7, <1>9
  <2> QED
    BY <1>6, <2>1 DEF PartitionInv, StandbyInv
<1>16. StandbyOnce'
  <2>1. CASE k = activePartitions[p]
    BY SMTT(40), <1>1, <1>2, <1>5, <2>1 DEF PartitionInv, StandbyOnce
  <2>2. CASE k # activePartitions[p]
    <3>1. \A i \in DOMAIN w : ptn'[w[i]].id = ptn[w[i]].id
      BY SMTT(40), <1>2, <1>5, <1>8
    <3> QED
      BY SMTT(40), <1>1, <1>8, <2>2, <3>1 DEF StandbyOnce
  <2> QED
    BY ZenonT(40), <2>1, <2>2
<1>17. RegisteredInv'
  <2> SUFFICES ASSUME NEW q \in Partitions \ evicted, NEW j \in Registered(q)'
               PROVE  Registered(q)' = {j} /\ (activePartitions'[q] = j \/ j \in Standby')
    BY Zenon, <1>1 DEF RegisteredInv
  <2>1. Registered(q)' = Registered(q)
    BY Zenon, <1>5 DEF Registered
  <2>2. Registered(q) = {j} /\ (activePartitions[q] = j \/ j \in Standby) /\ ptn[j].id = q
    BY Zenon, <2>1 DEF PartitionInv, RegisteredInv, Registered
  <2>3. CASE q = p
    <3>1. k \in Registered(q)
      BY Zenon, <1>7, <2>3 DEF Registered
    <3> QED
      BY Zenon, <1>6, <2>1, <2>2, <2>3, <3>1
  <2>4. CASE q # p
    BY Zenon, <1>6, <1>9, <2>1, <2>2, <2>4
  <2> QED
    BY <2>3, <2>4
<1>18. ClosingInv'
  <2>1. \A j \in Instances : ptn'[j].run \in {"cleaned", "done"} => ptn'[j].closing
    BY Zenon, <1>5 DEF PartitionInv, ClosingInv
  <2>2. \A j \in Instances : ptn'[j].run # "unused" => ptn'[j].id \in Partitions
    BY Zenon, <1>5 DEF PartitionInv, ClosingInv
  <2>3. ASSUME ~closed, NEW j \in Instances, ptn'[j].closing
        PROVE  Users(j)' = {} /\ j \notin Standby' /\ \A q \in Partitions : activePartitions'[q] # j
    <3>1. j # k /\ ptn[j].closing
      BY Zenon, <1>1, <1>5, <2>3
    <3>2. Users(j) = {} /\ j \notin Standby /\ \A q \in Partitions : activePartitions[q] # j
      BY SMTT(40), <2>3, <3>1 DEF PartitionInv, ClosingInv
    <3> QED
      BY Zenon, <1>6, <1>9, <1>11, <3>1, <3>2
  <2> QED
    BY Zenon, <1>1, <2>1, <2>2, <2>3 DEF PartitionInv, ClosingInv
<1> QED
  BY SMTT(40), <1>12, <1>13, <1>14, <1>15, <1>16, <1>17, <1>18 DEF PartitionInv

-----------------------------------------------------------------------------
(* partitionHandle.Close.                                                  *)

\* A client that returns leaves the other clients with what they had.
LEMMA ReturnsClients ==
  ASSUME PartitionInv, NEW c \in Clients, Returns(c),
         \A k \in Instances : ptn'[k].id = ptn[k].id /\ ptn'[k].run = ptn[k].run
  PROVE  ClientsInv'
<1>1. TypeOK
  BY Zenon DEF PartitionInv, Counted
<1>2. client'[c].pc = "idle" /\ \A d \in Clients : d # c => client'[d] = client[d]
  BY <1>1, ReturnsUsers DEF Idle
<1>3. \A d \in Clients : client'[d].pc # "idle" => client'[d] = client[d]
  BY ZenonT(40), <1>2
<1>4. \A d \in Clients : client[d].pc \in Using => client[d].on \in Instances
  BY DEF PartitionInv, ClientsInv
<1> QED
  BY SMTT(40), <1>3, <1>4 DEF PartitionInv, ClientsInv, Using

\* Other handles remain, or the instance has been replaced and is closed.
LEMMA ReleaseKeeps ==
  ASSUME PartitionInv, NEW c \in Clients, Release(c) \/ ReleaseReplaced(c)
  PROVE  PartitionInv'
<1> DEFINE k == client[c].on
           last == ReleaseReplaced(c)
<1>1. /\ client[c].pc = "holding" /\ Returns(c)
      /\ UNCHANGED <<closed, activePartitions, inactivePartitions, closingPartitions,
                     closer, evicted>>
      /\ IF last
           THEN /\ ptn[k].referenceCount = 1 /\ activePartitions[client[c].id] # k
                /\ ptn' = [ptn EXCEPT ![k].referenceCount = 0, ![k].closing = TRUE]
           ELSE /\ ptn[k].referenceCount > 1
                /\ ptn' = [ptn EXCEPT ![k].referenceCount = @ - 1]
  BY Zenon DEF Release, ReleaseReplaced
<1>2. TypeOK /\ ptn \in [Instances -> Partition]
  BY Zenon DEF PartitionInv, Counted, TypeOK
<1>3. /\ k \in Instances /\ c \in Users(k) /\ ptn[k].id = client[c].id
      /\ ptn[k].run \notin {"unused", "initializing", "failed"}
  BY Zenon, <1>1 DEF PartitionInv, ClientsInv, Using, Users
<1>4. /\ client' \in [Clients -> Client]
      /\ \A j : Users(j)' = Users(j) \ {c}
  BY Zenon, <1>1, <1>2, ReturnsUsers
<1>5. \A j : j # k => Users(j)' = Users(j)
  BY ZenonT(40), <1>4 DEF Users
<1>6. ptn[k] \in Partition /\ ptn[k].referenceCount \in Nat /\ ptn[k].referenceCount >= 1
  BY SMTT(40), <1>1, <1>2, <1>3 DEF Partition
<1> HIDE DEF k, last
<1>7. /\ ptn' \in [Instances -> Partition]
      /\ ptn'[k].referenceCount = ptn[k].referenceCount - 1
      /\ IF last THEN ptn'[k].closing ELSE ptn'[k].closing = ptn[k].closing
      /\ \A j \in Instances : j # k => ptn'[j] = ptn[j]
      /\ \A j \in Instances : ptn'[j].id = ptn[j].id /\ ptn'[j].run = ptn[j].run
  <2>1. CASE last
    <3>1. ptn' = [ptn EXCEPT ![k] = [ptn[k] EXCEPT !.referenceCount = 0, !.closing = TRUE]]
      BY Zenon, <1>1, <1>2, <1>3, <2>1
    <3>2. [ptn[k] EXCEPT !.referenceCount = 0, !.closing = TRUE] \in Partition
      BY Zenon, <1>6 DEF Partition
    <3> QED
      <4>1. \A j \in Instances : ptn'[j] =
              IF j = k THEN [ptn[k] EXCEPT !.referenceCount = 0, !.closing = TRUE] ELSE ptn[j]
        BY <1>2, <3>1
      <4>2. ptn' \in [Instances -> Partition]
        BY Zenon, <1>2, <3>1, <3>2
      <4>3. /\ ptn'[k].referenceCount = 0 /\ ptn'[k].closing
            /\ ptn'[k].id = ptn[k].id /\ ptn'[k].run = ptn[k].run
        BY Zenon, <1>3, <1>6, <4>1 DEF Partition
      <4> QED
        BY SMTT(40), <1>1, <2>1, <4>1, <4>2, <4>3
  <2>2. CASE ~last
    <3>1. /\ ptn' = [ptn EXCEPT ![k] = [ptn[k] EXCEPT !.referenceCount = ptn[k].referenceCount - 1]]
          /\ ptn[k].referenceCount - 1 \in Nat
      BY SMTT(40), <1>1, <1>2, <1>3, <1>6, <2>2
    <3>2. [ptn[k] EXCEPT !.referenceCount = ptn[k].referenceCount - 1] \in Partition
      BY Zenon, <1>6, <3>1 DEF Partition
    <3> QED
      BY ZenonT(40), <1>1, <1>2, <1>3, <1>6, <2>2, <3>1, <3>2 DEF Partition
  <2> QED
    BY Zenon, <2>1, <2>2
<1>8. TypeOK'
  BY Zenon, <1>1, <1>2, <1>4, <1>7 DEF TypeOK
<1>9. /\ ptn[k].referenceCount = Cardinality(Users(k))
      /\ Cardinality(Users(k) \ {c}) = Cardinality(Users(k)) - 1
      /\ Cardinality(Users(k)) = 1 => Users(k) = {c}
  BY Zenon, <1>3, UsersCount DEF PartitionInv, Counted
<1>10. Counted'
  <2>1. \A j \in Instances : ptn'[j].run \notin {"unused", "failed"} =>
          ptn'[j].referenceCount = Cardinality(Users(j)')
    BY ZenonT(40), <1>4, <1>5, <1>7, <1>9 DEF PartitionInv, Counted
  <2> QED
    BY Zenon, <1>8, <2>1 DEF Counted
<1>11. ClientsInv'
  BY Zenon, <1>1, <1>7, ReturnsClients
<1>12. k \notin Standby
  BY <1>6 DEF PartitionInv, StandbyInv
<1>13. ActiveInv' /\ StandbyInv' /\ StandbyOnce' /\ RegisteredInv' /\ Standby' = Standby
  BY Zenon, <1>1, <1>7, <1>12, SameMaps
<1>14. ClosingInv'
  <2>1. \A j \in Instances : ptn'[j].run \in {"cleaned", "done"} => ptn'[j].closing
    BY Zenon, <1>7 DEF PartitionInv, ClosingInv
  <2>2. \A j \in Instances : ptn'[j].run # "unused" => ptn'[j].id \in Partitions
    BY Zenon, <1>7 DEF PartitionInv, ClosingInv
  <2>3. ASSUME ~closed, NEW j \in Instances, ptn'[j].closing
        PROVE  Users(j)' = {} /\ j \notin Standby /\ \A q \in Partitions : activePartitions[q] # j
    <3>1. CASE ptn[j].closing
      <4>1. Users(j) = {} /\ j \notin Standby /\ \A q \in Partitions : activePartitions[q] # j
        BY Zenon, <2>3, <3>1 DEF PartitionInv, ClosingInv
      <4> QED
        BY Zenon, <1>4, <4>1
    <3>2. CASE ~ptn[j].closing
      <4>1. j = k /\ last
        BY Zenon, <1>7, <2>3, <3>2
      <4>2. Users(j)' = {}
        BY Zenon, <1>1, <1>4, <1>9, <4>1
      <4>3. \A q \in Partitions : activePartitions[q] # k
        BY SMTT(40), <1>1, <1>3, <4>1, ConstantsAssumption DEF PartitionInv, ActiveInv
      <4> QED
        BY Zenon, <1>12, <4>1, <4>2, <4>3
    <3> QED
      BY Zenon, <3>1, <3>2
  <2> QED
    BY ZenonT(40), <1>1, <1>13, <2>1, <2>2, <2>3 DEF PartitionInv, ClosingInv
<1> QED
  BY Zenon, <1>10, <1>11, <1>13, <1>14 DEF PartitionInv

\* The last handle is closed: the instance goes on standby, and the oldest one
\* there is closed and let go if there are too many.
LEMMA ReleaseLastKeeps ==
  ASSUME PartitionInv, NEW c \in Clients, ReleaseLast(c)
  PROVE  PartitionInv'
<1> DEFINE k == client[c].on
           p == client[c].id
           s == inactivePartitions
           e == Evicted
           rest == IF Full THEN Tail(s) ELSE s
<1>1. /\ client[c].pc = "holding" /\ Returns(c)
      /\ ptn[k].referenceCount = 1 /\ activePartitions[p] = k
      /\ ptn' = [Closed(e) EXCEPT ![k].referenceCount = 0]
      /\ closingPartitions' = closingPartitions \cup e
      /\ inactivePartitions' = Append(rest, k)
      /\ activePartitions' = [activePartitions EXCEPT ![p] = NoInstance]
      /\ evicted' = evicted \cup {ptn[j].id : j \in e}
      /\ UNCHANGED <<closed, closer>>
  BY Zenon DEF ReleaseLast
<1>2. /\ TypeOK /\ ptn \in [Instances -> Partition]
      /\ activePartitions \in [Partitions -> Instances \cup {NoInstance}]
      /\ \A i \in DOMAIN s : s[i] \in Instances
      /\ Standby \subseteq Instances
      /\ s \in Seq(Instances) /\ Len(s) \in Nat /\ DOMAIN s = 1..Len(s)
      /\ Len(s) <= maxInactivePartitions
      /\ maxInactivePartitions \in Nat /\ maxInactivePartitions # 0
  BY Zenon, StandbyTypes, ConstantsAssumption DEF PartitionInv, Counted, TypeOK
<1>3. /\ k \in Instances /\ c \in Users(k) /\ ptn[k].id = p /\ p \in Partitions
      /\ ptn[k].run \notin {"unused", "initializing", "failed"}
  BY ZenonT(40), <1>1 DEF PartitionInv, ClientsInv, Using, Users
<1>4. NoInstance \notin Instances /\ ptn[k].run \in {"running", "returned"}
  BY SMTT(40), <1>1, <1>3, ConstantsAssumption DEF PartitionInv, ActiveInv
<1>5. /\ client' \in [Clients -> Client]
      /\ \A j : Users(j)' = Users(j) \ {c}
  BY Zenon, <1>1, <1>2, ReturnsUsers
<1>6. \A j : j # k => Users(j)' = Users(j)
  BY Zenon, <1>5 DEF Users
<1>7. /\ rest \in Seq(Instances) /\ Len(rest) \in Nat
      /\ Len(rest) + 1 <= maxInactivePartitions
      /\ DOMAIN rest = 1..Len(rest)
      /\ \A i \in DOMAIN rest : rest[i] = IF Full THEN s[i + 1] ELSE s[i]
      /\ Len(rest) = IF Full THEN Len(s) - 1 ELSE Len(s)
  <2>1. CASE Full
    <3>1. s # << >> /\ Len(s) = maxInactivePartitions
      BY <1>2, <2>1 DEF Full
    <3>2. /\ Tail(s) \in Seq(Instances) /\ Len(Tail(s)) = Len(s) - 1
          /\ \A i \in 1..Len(Tail(s)) : Tail(s)[i] = s[i + 1]
      BY Zenon, <1>2, <3>1, TailProperties
    <3>3. DOMAIN Tail(s) = 1..Len(Tail(s))
      BY Zenon, <3>2, SeqProperties
    <3> QED
      BY SMTT(40), <1>2, <2>1, <3>1, <3>2, <3>3
  <2>2. CASE ~Full
    <3>1. rest = s
      BY <2>2
    <3>2. /\ Len(s) \in Nat /\ maxInactivePartitions \in Nat
          /\ Len(s) <= maxInactivePartitions /\ Len(s) # maxInactivePartitions
      BY <1>2, <2>2, Zenon DEF Full
    <3>3. \A m, n \in Nat : m <= n /\ m # n => m + 1 <= n
      OBVIOUS
    <3>4. Len(s) + 1 <= maxInactivePartitions
      BY <3>2, <3>3, Zenon
    <3> QED
      BY Zenon, <1>2, <2>2, <3>1, <3>4
  <2> QED
    BY Zenon, <2>1, <2>2
<1>8. \/ Full /\ e = {s[1]} /\ 1 \in DOMAIN s
      \/ ~Full /\ e = {}
  <2>1. CASE Full
    <3>1. Len(s) = maxInactivePartitions /\ 1 \in DOMAIN s
      BY <1>2, <2>1 DEF Full
    <3>2. e = {Head(s)} /\ Head(s) = s[1]
      BY <2>1 DEF Evicted
    <3> QED
      BY Zenon, <2>1, <3>1, <3>2
  <2>2. CASE ~Full
    BY Zenon, <2>2 DEF Evicted
  <2> QED
    BY Zenon, <2>1, <2>2
<1>9. k \notin Standby /\ \A j \in Standby : ptn[j].id # p
  BY Zenon, <1>1, <1>3, <1>4 DEF PartitionInv, StandbyInv
<1>10. e \subseteq Standby
  BY <1>8 DEF Standby
<1> HIDE DEF k, p, s, e, rest
<1>11. /\ inactivePartitions' \in Seq(Instances)
       /\ Len(inactivePartitions') = Len(rest) + 1
       /\ DOMAIN inactivePartitions' = 1..(Len(rest) + 1)
       /\ \A i \in DOMAIN rest : inactivePartitions'[i] = rest[i]
       /\ inactivePartitions'[Len(rest) + 1] = k
  BY <1>1, <1>3, <1>7
<1>12. \A j \in Standby : j \notin e => \E i \in DOMAIN rest : rest[i] = j
  <2> SUFFICES ASSUME NEW j \in Standby, j \notin e PROVE \E i \in DOMAIN rest : rest[i] = j
    OBVIOUS
  <2>1. PICK i \in DOMAIN s : s[i] = j
    BY Zenon DEF Standby, s
  <2>2. CASE Full
    <3>1. i - 1 \in DOMAIN rest /\ (i - 1) + 1 = i
      BY SMTT(40), <1>2, <1>7, <1>8, <2>1, <2>2
    <3> QED
      BY Zenon, <1>7, <2>1, <2>2, <3>1
  <2>3. CASE ~Full
    BY Zenon, <1>2, <1>7, <2>1, <2>3
  <2> QED
    BY Zenon, <2>2, <2>3
<1>13. \A i \in DOMAIN rest : rest[i] \in Standby /\ rest[i] \notin e
  <2> SUFFICES ASSUME NEW i \in DOMAIN rest PROVE rest[i] \in Standby /\ rest[i] \notin e
    BY Zenon
  <2>1. CASE Full
    <3>1. i + 1 \in DOMAIN s /\ i + 1 # 1 /\ rest[i] = s[i + 1]
      BY <1>2, <1>7, <2>1
    <3>2. s[i + 1] # s[1]
      BY Zenon, <1>8, <2>1, <3>1 DEF PartitionInv, StandbyOnce, s
    <3> QED
      BY Zenon, <1>8, <2>1, <3>1, <3>2 DEF Standby, s
  <2>2. CASE ~Full
    BY Zenon, <1>2, <1>7, <1>8, <2>2 DEF Standby, s
  <2> QED
    BY Zenon, <2>1, <2>2
<1>14. Standby' = (Standby \ e) \cup {k}
  <2>1. \A j : (\E i \in DOMAIN inactivePartitions' : inactivePartitions'[i] = j) <=>
               (j = k \/ \E i \in DOMAIN rest : rest[i] = j)
    BY SMTT(40), <1>7, <1>11
  <2>2. \A j : j \in Standby' <=> (j = k \/ \E i \in DOMAIN rest : rest[i] = j)
    BY Zenon, <2>1 DEF Standby
  <2> QED
    BY Zenon, <1>12, <1>13, <2>2
<1>15. /\ ptn' \in [Instances -> Partition]
       /\ ptn'[k].referenceCount = 0
       /\ \A j \in Instances :
            /\ ptn'[j].id = ptn[j].id /\ ptn'[j].run = ptn[j].run
            /\ ptn'[j].closing = (j \in e \/ ptn[j].closing)
            /\ j # k => ptn'[j].referenceCount = ptn[j].referenceCount
  <2>1. /\ Closed(e) \in [Instances -> Partition]
        /\ \A j \in Instances :
             /\ Closed(e)[j].id = ptn[j].id /\ Closed(e)[j].run = ptn[j].run
             /\ Closed(e)[j].closing = (j \in e \/ ptn[j].closing)
             /\ Closed(e)[j].referenceCount = ptn[j].referenceCount
    <3>1. ASSUME NEW j \in Instances
          PROVE  /\ Closed(e)[j] \in Partition
                 /\ Closed(e)[j].id = ptn[j].id /\ Closed(e)[j].run = ptn[j].run
                 /\ Closed(e)[j].closing = (j \in e \/ ptn[j].closing)
                 /\ Closed(e)[j].referenceCount = ptn[j].referenceCount
      BY ZenonT(40), <1>2 DEF Closed, Partition
    <3>2. Closed(e) = [j \in Instances |-> Closed(e)[j]]
      BY DEF Closed
    <3> QED
      BY <3>1, <3>2
  <2> DEFINE f == Closed(e)
  <2>2. ptn' = [f EXCEPT ![k].referenceCount = 0]
    BY <1>1
  <2> HIDE DEF f
  <2>3. f \in [Instances -> Partition]
    BY <2>1 DEF f
  <2>4. /\ ptn' \in [Instances -> Partition]
        /\ ptn'[k].referenceCount = 0
        /\ \A j \in Instances :
            /\ ptn'[j].id = f[j].id /\ ptn'[j].run = f[j].run /\ ptn'[j].closing = f[j].closing
            /\ j # k => ptn'[j].referenceCount = f[j].referenceCount
    BY <1>3, <2>2, <2>3 DEF Partition
  <2> QED
    BY ZenonT(40), <2>1, <2>4 DEF f
<1>16. /\ activePartitions' \in [Partitions -> Instances \cup {NoInstance}]
       /\ activePartitions'[p] = NoInstance
       /\ \A q \in Partitions : q # p => activePartitions'[q] = activePartitions[q]
  BY <1>1, <1>2, <1>3
<1>17. TypeOK'
  <2>1. e \subseteq Instances /\ \A j \in e : ptn[j].id \in Partitions
    BY ZenonT(40), <1>2, <1>10 DEF PartitionInv, StandbyInv
  <2>2. evicted' \subseteq Partitions /\ closingPartitions' \subseteq Instances
    BY Zenon, <1>1, <1>2, <2>1 DEF TypeOK
  <2> QED
    BY ZenonT(40), <1>1, <1>2, <1>5, <1>7, <1>11, <1>15, <1>16, <2>2 DEF TypeOK
<1>18. /\ ptn[k].referenceCount = Cardinality(Users(k))
       /\ Cardinality(Users(k) \ {c}) = Cardinality(Users(k)) - 1
       /\ Cardinality(Users(k)) = 1 => Users(k) = {c}
  BY Zenon, <1>3, UsersCount DEF PartitionInv, Counted
<1>19. Counted'
  <2>1. Cardinality(Users(k) \ {c}) = 0
    BY SMTT(40), <1>1, <1>18
  <2>2. \A j \in Instances : ptn'[j].run \notin {"unused", "failed"} =>
          ptn'[j].referenceCount = Cardinality(Users(j)')
    BY ZenonT(40), <1>5, <1>6, <1>15, <2>1 DEF PartitionInv, Counted
  <2> QED
    BY Zenon, <1>17, <2>2 DEF Counted
<1>20. ClientsInv'
  BY ZenonT(40), <1>1, <1>15, ReturnsClients
<1>21. ActiveInv'
  <2>1. \A q \in Partitions : activePartitions'[q] # NoInstance =>
          /\ activePartitions'[q] = activePartitions[q] /\ activePartitions[q] \in Instances
    BY Zenon, <1>2, <1>16
  <2> QED
    BY SMTT(40), <1>15, <2>1 DEF PartitionInv, ActiveInv
<1>22. StandbyInv'
  <2>1. ASSUME NEW j \in Standby'
        PROVE  /\ ptn'[j].run \in {"running", "returned"}
               /\ ptn'[j].referenceCount = 0
               /\ ptn'[j].id \in Partitions
               /\ activePartitions'[ptn'[j].id] = NoInstance
    <3>1. CASE j = k
      BY Zenon, <1>3, <1>4, <1>15, <1>16, <3>1
    <3>2. CASE j # k
      <4>1. j \in Standby /\ j \in Instances /\ ptn[j].id # p
        BY Zenon, <1>2, <1>9, <1>14, <3>2
      <4>2. /\ ptn[j].run \in {"running", "returned"} /\ ptn[j].referenceCount = 0
            /\ ptn[j].id \in Partitions /\ activePartitions[ptn[j].id] = NoInstance
        BY Zenon, <4>1 DEF PartitionInv, StandbyInv
      <4> QED
        BY ZenonT(40), <1>15, <1>16, <3>2, <4>1, <4>2
    <3> QED
      BY Zenon, <3>1, <3>2
  <2> QED
    BY Zenon, <2>1 DEF StandbyInv
<1>23. StandbyOnce'
  <2>1. \A i \in DOMAIN rest : ptn[rest[i]].id # p /\ rest[i] \in Instances
    BY Zenon, <1>2, <1>9, <1>13
  <2>2. \A i \in DOMAIN rest : \A j \in DOMAIN rest : ptn[rest[i]].id = ptn[rest[j]].id => i = j
    <3> SUFFICES ASSUME NEW i \in DOMAIN rest, NEW j \in DOMAIN rest, ptn[rest[i]].id = ptn[rest[j]].id
                 PROVE  i = j
      BY Zenon
    <3>1. CASE Full
      <4>1. i + 1 \in DOMAIN s /\ j + 1 \in DOMAIN s /\ rest[i] = s[i + 1] /\ rest[j] = s[j + 1]
        BY SMTT(40), <1>2, <1>7, <3>1
      <4>2. i + 1 = j + 1
        BY Zenon, <4>1 DEF PartitionInv, StandbyOnce, s
      <4> QED
        BY SMTT(40), <1>7, <4>2
    <3>2. CASE ~Full
      BY Zenon, <1>2, <1>7, <3>2 DEF PartitionInv, StandbyOnce, s
    <3> QED
      BY Zenon, <3>1, <3>2
  <2>3. ASSUME NEW i \in DOMAIN inactivePartitions', NEW j \in DOMAIN inactivePartitions',
               ptn'[inactivePartitions'[i]].id = ptn'[inactivePartitions'[j]].id
        PROVE  i = j
    <3>1. /\ i \in DOMAIN rest \/ i = Len(rest) + 1
          /\ j \in DOMAIN rest \/ j = Len(rest) + 1
      BY SMTT(40), <1>7, <1>11
    <3>2. \A l \in DOMAIN rest : ptn'[inactivePartitions'[l]].id = ptn[rest[l]].id
      BY Zenon, <1>11, <1>15, <2>1
    <3>3. ptn'[inactivePartitions'[Len(rest) + 1]].id = p
      BY Zenon, <1>3, <1>11, <1>15
    <3> QED
      BY ZenonT(40), <2>1, <2>2, <2>3, <3>1, <3>2, <3>3
  <2> QED
    BY Zenon, <2>3 DEF StandbyOnce
<1>24. RegisteredInv'
  <2> SUFFICES ASSUME NEW q \in Partitions \ evicted', NEW j \in Registered(q)'
               PROVE  Registered(q)' = {j} /\ (activePartitions'[q] = j \/ j \in Standby')
    BY DEF RegisteredInv
  <2>1. Registered(q)' = Registered(q) /\ q \in Partitions \ evicted
    BY SMTT(40), <1>1, <1>15 DEF Registered
  <2>2. Registered(q) = {j} /\ (activePartitions[q] = j \/ j \in Standby) /\ ptn[j].id = q
    BY Zenon, <2>1 DEF PartitionInv, RegisteredInv, Registered
  <2>3. j \notin e
    BY Zenon, <1>1, <2>2
  <2>4. q = p => j = k
    BY Zenon, <1>1, <1>3, <1>9, <2>2
  <2> QED
    BY ZenonT(40), <1>14, <1>16, <2>1, <2>2, <2>3, <2>4
<1>25. ClosingInv'
  <2>1. \A j \in Instances : ptn'[j].run \in {"cleaned", "done"} => ptn'[j].closing
    BY ZenonT(40), <1>15 DEF PartitionInv, ClosingInv
  <2>2. \A j \in Instances : ptn'[j].run # "unused" => ptn'[j].id \in Partitions
    BY Zenon, <1>15 DEF PartitionInv, ClosingInv
  <2>3. ASSUME ~closed, NEW j \in Instances, ptn'[j].closing
        PROVE  Users(j)' = {} /\ j \notin Standby' /\ \A q \in Partitions : activePartitions'[q] # j
    <3>1. CASE j \in e
      <4>1. /\ j \in Standby /\ j # k /\ ptn[j].referenceCount = 0
            /\ ptn[j].run \in {"running", "returned"} /\ ptn[j].id \in Partitions
            /\ activePartitions[ptn[j].id] = NoInstance
        BY Zenon, <1>9, <1>10, <3>1 DEF PartitionInv, StandbyInv
      <4>2. Cardinality(Users(j)) = 0
        BY Zenon, <4>1 DEF PartitionInv, Counted
      <4>3. Users(j)' = {}
        BY Zenon, <1>6, <4>1, <4>2, UsersCount
      <4>4. \A q \in Partitions : activePartitions[q] # j
        BY Zenon, <1>4, <4>1 DEF PartitionInv, ActiveInv
      <4> QED
        BY ZenonT(40), <1>4, <1>14, <1>16, <3>1, <4>1, <4>3, <4>4
    <3>2. CASE j \notin e
      <4>1. ptn[j].closing
        BY Zenon, <1>15, <2>3, <3>2
      <4>2. Users(j) = {} /\ j \notin Standby /\ \A q \in Partitions : activePartitions[q] # j
        BY Zenon, <2>3, <4>1 DEF PartitionInv, ClosingInv
      <4>3. j # k
        BY Zenon, <1>3, <4>2
      <4> QED
        BY ZenonT(40), <1>4, <1>6, <1>14, <1>16, <4>2, <4>3
    <3> QED
      BY Zenon, <3>1, <3>2
  <2> QED
    BY ZenonT(40), <1>1, <2>1, <2>2, <2>3 DEF PartitionInv, ClosingInv
<1> QED
  BY SMTT(40), <1>19, <1>20, <1>21, <1>22, <1>23, <1>24, <1>25 DEF PartitionInv

-----------------------------------------------------------------------------
(* The theorems.                                                           *)

LEMMA InitPartitionInv == Init => PartitionInv
<1> SUFFICES ASSUME Init PROVE PartitionInv
  BY Zenon
<1>1. Unused \in Partition /\ Idle \in Client
  BY Zenon DEF Unused, Partition, Idle, Client
<1>2. /\ \A k \in Instances : ptn[k].run = "unused" /\ ~ptn[k].closing
      /\ \A c \in Clients : client[c].pc = "idle"
  BY DEF Init, Unused, Idle
<1>3. inactivePartitions = << >> /\ Len(inactivePartitions) = 0 /\ Standby = {}
  BY DEF Init, Standby
<1>4. TypeOK
  <2>1. inactivePartitions \in Seq(Instances)
    BY <1>3
  <2>2. Len(inactivePartitions) <= maxInactivePartitions
    BY <1>3, ConstantsAssumption
  <2>3. ptn \in [Instances -> Partition] /\ client \in [Clients -> Client]
    BY Zenon, <1>1 DEF Init
  <2> QED
    BY Zenon, <2>1, <2>2, <2>3 DEF Init, TypeOK
<1>5. Counted /\ ClientsInv
  BY Zenon, <1>2, <1>4 DEF Counted, ClientsInv, Using
<1>6. ActiveInv /\ StandbyInv /\ StandbyOnce
  BY <1>3 DEF Init, ActiveInv, StandbyInv, StandbyOnce
<1>7. ClosingInv /\ RegisteredInv
  BY Zenon, <1>2 DEF Init, ClosingInv, RegisteredInv, Registered
<1> QED
  BY Zenon, <1>5, <1>6, <1>7 DEF PartitionInv

LEMMA NextPartitionInv == PartitionInv /\ [Next]_vars => PartitionInv'
<1> SUFFICES ASSUME PartitionInv, [Next]_vars PROVE PartitionInv'
  BY Zenon
<1>1. TypeOK /\ client \in [Clients -> Client]
  BY Zenon DEF PartitionInv, Counted, TypeOK
<1>2. ASSUME NEW c \in Clients, NEW p \in Partitions, Request(c, p) PROVE PartitionInv'
  <2> DEFINE new == [pc |-> "lookup", id |-> p, on |-> NoInstance]
  <2>1. /\ client[c].pc = "idle" /\ client' = [client EXCEPT ![c] = new]
        /\ UNCHANGED <<closed, activePartitions, inactivePartitions, closingPartitions,
                       ptn, closer, evicted>>
    BY Zenon, <1>2 DEF Request
  <2>2. new \in Client
    BY Zenon DEF Client
  <2>3. /\ client' \in [Clients -> Client] /\ client'[c].pc = "lookup" /\ client'[c].id = p
        /\ \A d \in Clients : d # c => client'[d] = client[d]
    BY Zenon, <1>1, <2>1, <2>2
  <2>4. client[c].pc \notin Using
    BY Zenon, <2>1 DEF Using
  <2> QED
    BY Zenon, <2>1, <2>3, <2>4, StartOver
<1>3. ASSUME NEW c \in Clients, StartRefused(c) PROVE PartitionInv'
  <2>1. /\ client[c].pc = "lookup" /\ Returns(c)
        /\ UNCHANGED <<closed, activePartitions, inactivePartitions, closingPartitions,
                       ptn, closer, evicted>>
    BY Zenon, <1>3 DEF StartRefused
  <2>2. /\ client' \in [Clients -> Client] /\ client'[c] = Idle
        /\ \A d \in Clients : d # c => client'[d] = client[d]
    BY Zenon, <1>1, <2>1, ReturnsUsers
  <2>3. client[c].pc \notin Using /\ client'[c].pc = "idle"
    BY <2>1, <2>2 DEF Using, Idle
  <2> QED
    BY Zenon, <2>1, <2>2, <2>3, StartOver
<1>4. ASSUME NEW c \in Clients, StartStep(c) PROVE PartitionInv'
  BY Zenon, <1>3, <1>4, StartNewKeeps, StartExistingKeeps, SetupSucceedsKeeps, SetupFailsKeeps,
     JoinKeeps DEF StartStep
<1>5. ASSUME NEW c \in Clients, Release(c) \/ ReleaseReplaced(c) \/ ReleaseLast(c)
      PROVE  PartitionInv'
  BY Zenon, <1>5, ReleaseKeeps, ReleaseLastKeeps
<1>6. ASSUME NEW k \in Instances, RunReturns(k) \/ RunStep(k) PROVE PartitionInv'
  BY Zenon, <1>6, RunKeeps, DeregisterKeeps DEF RunStep
<1>7. CASE CloseManager \/ CloseStep
  BY Zenon, <1>7, CloseKeeps
<1>8. CASE UNCHANGED vars
  <2>1. UNCHANGED <<closed, activePartitions, inactivePartitions, closingPartitions, ptn,
                    client, closer, evicted>>
    BY Zenon, <1>8 DEF vars
  <2>2. TypeOK'
    BY Zenon, <1>1, <2>1 DEF TypeOK
  <2>3. Counted' /\ ClientsInv' /\ \A k : Users(k)' = Users(k)
    BY Zenon, <2>1, <2>2, SameClients
  <2>4. ActiveInv' /\ StandbyInv' /\ StandbyOnce' /\ RegisteredInv' /\ Standby' = Standby
    BY Zenon, <2>1, SameMaps
  <2>5. ClosingInv'
    BY ZenonT(40), <2>1, <2>3, <2>4 DEF PartitionInv, ClosingInv
  <2> QED
    BY Zenon, <2>3, <2>4, <2>5 DEF PartitionInv
<1> QED
  BY Zenon, <1>2, <1>4, <1>5, <1>6, <1>7, <1>8 DEF Next

\* The inductive invariant: handles, maps and closing agree, whatever instances
\* fail, stop, are replaced or are evicted.
THEOREM PartitionInvariance == Spec => []PartitionInv
BY InitPartitionInv, NextPartitionInv, PTL DEF Spec

\* The reference count of an instance is the number of its handles
\* (partition.referenceCount, under the mutex of the manager).
THEOREM CountedHolds == Spec => []Counted
<1>1. PartitionInv => Counted
  BY Zenon DEF PartitionInv
<1> QED
  BY <1>1, PartitionInvariance, PTL

\* The files of an instance are removed once nobody has a handle to it, or the
\* storage is closed (the wait for ptn.closing before the removal).
THEOREM FilesKeptHolds == Spec => []FilesKept
<1>1. PartitionInv => FilesKept
  BY Zenon DEF PartitionInv, ClosingInv, FilesKept
<1> QED
  BY <1>1, PartitionInvariance, PTL

\* A partition has one instance that works on its log, in one of the maps,
\* until one of it is evicted; and no client meets an instance that is closing.
THEOREM ExclusiveUnlessEvictedHolds == Spec => []ExclusiveUnlessEvicted
<1>1. PartitionInv => ExclusiveUnlessEvicted
  <2> SUFFICES ASSUME PartitionInv PROVE ExclusiveUnlessEvicted
    BY Zenon
  <2>1. ASSUME NEW p \in Partitions \ evicted, NEW k \in Live(p)
        PROVE  Live(p) = {k} /\ (activePartitions[p] = k \/ k \in Standby)
    <3>1. Live(p) \subseteq Registered(p)
      BY Zenon DEF Live, Registered
    <3>2. Registered(p) = {k} /\ (activePartitions[p] = k \/ k \in Standby)
      BY Zenon, <3>1 DEF PartitionInv, RegisteredInv
    <3> QED
      BY Zenon, <3>1, <3>2
  <2>2. ASSUME ~closed, NEW k \in Instances, ptn[k].closing
        PROVE  k \notin Standby /\ \A p \in Partitions : activePartitions[p] # k
    BY <2>2 DEF PartitionInv, ClosingInv
  <2> QED
    BY Zenon, <2>1, <2>2 DEF ExclusiveUnlessEvicted
<1> QED
  BY <1>1, PartitionInvariance, PTL

=============================================================================
