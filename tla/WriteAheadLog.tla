---------------------------- MODULE WriteAheadLog ----------------------------
(***************************************************************************)
(* What the write-ahead log of a partition promises to those who append,   *)
(* apply and consume its entries.  Entries get consecutive LSNs; an entry  *)
(* that has been committed is neither lost nor replaced, by a crash or     *)
(* otherwise, until it has been applied and consumed.  LogManager is shown *)
(* to implement this.                                                      *)
(***************************************************************************)
EXTENDS Naturals

CONSTANT Entries   \* contents of log entries

VARIABLES
  entries,   \* the committed entries that are kept: LSN |-> content
  next,      \* the LSN the next committed entry gets
  limbo,     \* entries that are written but not committed: LSN |-> content
  applied,   \* the entries up to this LSN have been applied
  consumed   \* the entries up to this LSN have been consumed

vars == <<entries, next, limbo, applied, consumed>>

Without(f, S) == [l \in DOMAIN f \ S |-> f[l]]

\* What may be left of the entries: the oldest one is removed once it has been
\* applied and consumed.  One write to disk may remove it and do more.
MayPrune ==
  {entries} \cup
  {Without(entries, {l}) : l \in {k \in DOMAIN entries :
                                  /\ \A j \in DOMAIN entries : k <= j
                                  /\ k <= applied /\ k <= consumed}}

Init ==
  /\ entries = << >>
  /\ next = 1
  /\ limbo = << >>
  /\ applied = 0
  /\ consumed = 0

\* An entry is written; it gets the next LSN if it is committed.
Offer(e) ==
  /\ DOMAIN limbo = {}
  /\ limbo' = [l \in {next} |-> e]
  /\ UNCHANGED <<entries, next, applied, consumed>>

\* The written entry is committed, by its writer or by the next recovery.
Commit ==
  /\ DOMAIN limbo = {next}
  /\ \E kept \in MayPrune :
       entries' = [l \in DOMAIN kept \cup {next} |-> IF l = next THEN limbo[l] ELSE kept[l]]
  /\ next' = next + 1
  /\ limbo' = << >>
  /\ UNCHANGED <<applied, consumed>>

\* The written entry is lost in a crash.
Drop ==
  /\ entries' \in MayPrune
  /\ limbo' = << >>
  /\ UNCHANGED <<next, applied, consumed>>

Prune ==
  /\ entries' \in MayPrune
  /\ UNCHANGED <<next, limbo, applied, consumed>>

Apply ==
  /\ applied + 1 \in DOMAIN entries
  /\ applied' = applied + 1
  /\ UNCHANGED <<entries, next, limbo, consumed>>

Consume(l) ==
  /\ consumed < l /\ l < next
  /\ consumed' = l
  /\ UNCHANGED <<entries, next, limbo, applied>>

Next ==
  \/ \E e \in Entries : Offer(e)
  \/ Commit
  \/ Drop
  \/ Apply
  \/ \E l \in 1..(next - 1) : Consume(l)
  \/ Prune

Spec == Init /\ [][Next]_vars

=============================================================================
