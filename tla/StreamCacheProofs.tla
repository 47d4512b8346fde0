------------------------- MODULE StreamCacheProofs --------------------------
(***************************************************************************)
(* Theorems about the stream cache, for any clients, keys, length of the   *)
(* contents, with and without backpressure.                                *)
(***************************************************************************)
EXTENDS StreamCache, TLAPS

-----------------------------------------------------------------------------
(* The invariant as a predicate on the index, the entries and the Fetches. *)
(* A step of the cache is one or more small changes, each of which         *)
(* preserves it.                                                           *)

ReadingAt == {"read", "blocked", "wait"}

InvAt(i, ent, cl) ==
  /\ i \in [Keys -> Clients \cup {NoEntry}] /\ ent \in [Clients -> Entry] /\ cl \in [Clients -> Client]
  /\ \A e \in Clients : Sound(ent[e])
  /\ \A e \in Clients : ent[e].readers = {c \in Clients : cl[c].at \in ReadingAt /\ cl[c].entry = e}
  /\ \A c \in Clients : cl[c].at \in ReadingAt =>
       /\ cl[c].entry \in Clients
       /\ cl[c].position <= ent[cl[c].entry].written
       /\ cl[c].at = "wait" =>
            ent[cl[c].entry].rdone /\ cl[c].position = ent[cl[c].entry].written
  /\ \A k \in Keys : i[k] # NoEntry =>
       /\ ent[i[k]].key = k /\ ent[i[k]].at # "none"
       /\ ent[i[k]].at \in {"set", "done"} => ent[i[k]].err = "none"
  /\ \A c \in Clients : cl[c].at = "new" => ent[c] = NotYet /\ cl[c].position = 0
  /\ \A c \in Clients : cl[c].at = "ok" => cl[c].position = Chunks

LEMMA CacheInvAt ==
  /\ CacheInv <=> InvAt(index, entry, client)
  /\ CacheInv' <=> InvAt(index', entry', client')
<1>1. /\ TypeOK => \A c \in Clients : client[c].entry \in Clients <=> client[c].entry # NoEntry
      /\ TypeOK' => \A c \in Clients : client'[c].entry \in Clients <=> client'[c].entry # NoEntry
  BY CacheAssumption DEF TypeOK, Client
<1>2. CacheInv <=> InvAt(index, entry, client)
  BY <1>1 DEF CacheInv, TypeOK, ReadersInv, IndexInv, ServedComplete, InvAt, Reading, ReadingAt
<1>3. CacheInv' <=> InvAt(index', entry', client')
  BY <1>1 DEF CacheInv, TypeOK, ReadersInv, IndexInv, ServedComplete, InvAt, Reading, ReadingAt
<1> QED
  BY <1>2, <1>3

\* An entry that does not exist is sound.
LEMMA NotYetFacts ==
  /\ NotYet \in Entry /\ Sound(NotYet)
  /\ NotYet.at = "none" /\ NotYet.readers = {} /\ ~NotYet.file
  /\ NotYet = [NotYet EXCEPT !.file = FALSE]
<1>1. Chunks \in Nat /\ 0 \in 0..Chunks
  BY CacheAssumption
<1>2. NotYet \in Entry
  BY <1>1 DEF NotYet, Entry
<1>3. Sound(NotYet)
  BY DEF NotYet, Sound
<1>4. NotYet.at = "none" /\ NotYet.readers = {} /\ NotYet.file = FALSE
  BY DEF NotYet
<1>5. NotYet = [NotYet EXCEPT !.file = FALSE]
  <2>1. \A r \in Entry : r.file = FALSE => r = [r EXCEPT !.file = FALSE]
    BY DEF Entry
  <2> QED
    BY <1>2, <1>4, <2>1
<1> QED
  BY <1>2, <1>3, <1>4, <1>5, Zenon

\* Readers come and go at a pipe that is not broken, and leave one that is.
LEMMA SoundReaders ==
  ASSUME NEW a \in Entry, NEW b \in Entry, Sound(a),
         b.at = a.at, b.err = a.err, b.written = a.written, b.wcursor = a.wcursor,
         b.wdone = a.wdone, b.rdone = a.rdone,
         a.at = "none" \/ (a.wdone /\ ~a.rdone) => b.readers = {}
  PROVE  Sound(b)
BY DEF Sound

\* Garbage collection, and the file of an entry that left the index.
LEMMA Collecting ==
  ASSUME NEW i, NEW ent, NEW cl, InvAt(i, ent, cl)
  PROVE  InvAt(i, Collected(i, ent), cl)
<1> DEFINE col == Collected(i, ent)
<1>1. ASSUME NEW e \in Clients
      PROVE  /\ \/ col[e] = ent[e]
                \/ col[e] = [ent[e] EXCEPT !.file = FALSE]
                \/ ent[e].at = "done" /\ ent[e].readers = {} /\ col[e] = NotYet
             /\ (\E k \in Keys : i[k] = e) => col[e] = ent[e]
  BY DEF Collected
<1>2. DOMAIN col = Clients /\ col = [e \in Clients |-> col[e]]
  BY DEF Collected
<1> HIDE DEF col
<1>3. /\ i \in [Keys -> Clients \cup {NoEntry}] /\ ent \in [Clients -> Entry]
      /\ \A e \in Clients : Sound(ent[e])
  BY DEF InvAt
<1>4. ASSUME NEW e \in Clients
      PROVE  /\ col[e] \in Entry /\ Sound(col[e]) /\ col[e].readers = ent[e].readers
             /\ ent[e].readers # {} => col[e].written = ent[e].written /\ col[e].rdone = ent[e].rdone
             /\ ent[e] = NotYet => col[e] = NotYet
  <2>1. ent[e] \in Entry /\ Sound(ent[e])
    BY <1>3
  <2>2. CASE col[e] = ent[e]
    BY <2>1, <2>2
  <2>3. CASE col[e] = [ent[e] EXCEPT !.file = FALSE]
    <3>1. ent[e] = NotYet => col[e] = NotYet
      BY <2>3, NotYetFacts
    <3> QED
      BY ZenonT(40), <2>1, <2>3, <3>1 DEF Entry, Sound
  <2>4. CASE ent[e].readers = {} /\ col[e] = NotYet
    BY <2>4, NotYetFacts
  <2> QED
    BY <1>1, <2>2, <2>3, <2>4
<1>5. col \in [Clients -> Entry]
  BY <1>2, <1>4
<1>6. ASSUME NEW k \in Keys, i[k] # NoEntry PROVE i[k] \in Clients /\ col[i[k]] = ent[i[k]]
  BY Zenon, <1>1, <1>3, <1>6
<1>7. ASSUME NEW c \in Clients, cl[c].at \in ReadingAt
      PROVE  /\ cl[c].entry \in Clients
             /\ col[cl[c].entry].written = ent[cl[c].entry].written
             /\ col[cl[c].entry].rdone = ent[cl[c].entry].rdone
  <2>1. cl[c].entry \in Clients /\ c \in ent[cl[c].entry].readers
    BY <1>7 DEF InvAt
  <2> QED
    BY <1>4, <2>1
<1> QED
  BY <1>4, <1>5, <1>6, <1>7 DEF InvAt, col

\* The goroutine of an entry, or a removed file: the readers stay as they are.
LEMMA EntryMoves ==
  ASSUME NEW i, NEW ent, NEW cl, InvAt(i, ent, cl),
         NEW e \in Clients, NEW en \in Entry, Sound(en),
         ent[e].at # "none", en.at # "none", en.key = ent[e].key, en.readers = ent[e].readers,
         ent[e].written <= en.written, ent[e].rdone => en.rdone /\ en.written = ent[e].written,
         (\E k \in Keys : i[k] = e) /\ en.at \in {"set", "done"} => en.err = "none"
  PROVE  InvAt(i, [ent EXCEPT ![e] = en], cl)
<1> DEFINE new == [ent EXCEPT ![e] = en]
<1>1. ent \in [Clients -> Entry] /\ Chunks \in Nat
  BY CacheAssumption DEF InvAt
<1>2. new \in [Clients -> Entry] /\ \A x \in Clients : new[x] = IF x = e THEN en ELSE ent[x]
  BY <1>1
<1> HIDE DEF new
<1>3. ASSUME NEW c \in Clients, cl[c].at \in ReadingAt
      PROVE  /\ cl[c].position <= new[cl[c].entry].written
             /\ cl[c].at = "wait" =>
                  new[cl[c].entry].rdone /\ cl[c].position = new[cl[c].entry].written
  <2>1. /\ cl[c].entry \in Clients /\ cl[c] \in Client /\ ent[cl[c].entry] \in Entry
        /\ cl[c].position <= ent[cl[c].entry].written
        /\ cl[c].at = "wait" => ent[cl[c].entry].rdone /\ cl[c].position = ent[cl[c].entry].written
    BY <1>1, <1>3 DEF InvAt
  <2>2. CASE cl[c].entry # e
    BY <1>2, <2>1, <2>2
  <2>3. CASE cl[c].entry = e
    <3>1. cl[c].position \in Nat /\ ent[e].written \in Nat /\ en.written \in Nat
      BY <1>1, <2>1, <2>3 DEF Entry, Client
    <3> QED
      BY <1>2, <2>1, <2>3, <3>1
  <2> QED
    BY <2>2, <2>3
<1>4. \A c \in Clients : cl[c].at = "new" => new[c] = NotYet /\ cl[c].position = 0
  BY <1>2, NotYetFacts DEF InvAt
<1>5. \A k \in Keys : i[k] # NoEntry =>
        /\ i[k] \in Clients /\ new[i[k]].key = k /\ new[i[k]].at # "none"
        /\ new[i[k]].at \in {"set", "done"} => new[i[k]].err = "none"
  BY <1>2 DEF InvAt
<1> QED
  BY <1>2, <1>3, <1>4, <1>5 DEF InvAt, new

\* A key is taken from the index.
LEMMA KeyRemoved ==
  ASSUME NEW i, NEW ent, NEW cl, InvAt(i, ent, cl), NEW k
  PROVE  InvAt([i EXCEPT ![k] = NoEntry], ent, cl)
BY Zenon DEF InvAt


\* A reader gets on in its pipe.
LEMMA ReaderMoves ==
  ASSUME NEW i, NEW ent, NEW cl, InvAt(i, ent, cl),
         NEW c \in Clients, cl[c].at \in ReadingAt,
         NEW new \in [Clients -> Client], \A x \in Clients : x # c => new[x] = cl[x],
         new[c].at \in ReadingAt, new[c].entry = cl[c].entry,
         new[c].position <= ent[cl[c].entry].written,
         new[c].at = "wait" => ent[cl[c].entry].rdone /\ new[c].position = ent[cl[c].entry].written
  PROVE  InvAt(i, ent, new)
<1>1. cl \in [Clients -> Client] /\ cl[c] \in Client
  BY DEF InvAt
<1>2. /\ \A x \in Clients : new[x].entry = cl[x].entry
      /\ \A x \in Clients : new[x].at \in ReadingAt <=> cl[x].at \in ReadingAt
  OBVIOUS
<1>3. \A x \in Clients : new[x].at \in {"new", "ok"} => new[x] = cl[x]
  BY <1>2 DEF ReadingAt
<1>4. ASSUME NEW x \in Clients, new[x].at \in ReadingAt
      PROVE  /\ new[x].entry \in Clients
             /\ new[x].position <= ent[new[x].entry].written
             /\ new[x].at = "wait" =>
                  ent[new[x].entry].rdone /\ new[x].position = ent[new[x].entry].written
  BY <1>2, <1>4 DEF InvAt
<1> QED
  BY <1>2, <1>3, <1>4 DEF InvAt

\* A Fetch returns, with its reader closed if it had one; the pipe is broken if it
\* was the last one and the writer is not closed.
LEMMA ReaderLeaves ==
  ASSUME NEW i, NEW ent, NEW cl, InvAt(i, ent, cl),
         NEW c \in Clients, cl[c].at \in ReadingAt,
         NEW new \in [Clients -> Client], \A x \in Clients : x # c => new[x] = cl[x],
         new[c].at \in {"ok", "error"}, new[c].at = "ok" => new[c].position = Chunks,
         NEW en \in Entry, Sound(en), en.readers = ent[cl[c].entry].readers \ {c},
         en.at = ent[cl[c].entry].at, en.key = ent[cl[c].entry].key, en.err = ent[cl[c].entry].err,
         en.written = ent[cl[c].entry].written, en.rdone = ent[cl[c].entry].rdone
  PROVE  InvAt(i, [ent EXCEPT ![cl[c].entry] = en], new)
<1> DEFINE e == cl[c].entry
           ent2 == [ent EXCEPT ![e] = en]
<1>1. /\ cl \in [Clients -> Client] /\ cl[c] \in Client /\ ent \in [Clients -> Entry]
      /\ e \in Clients /\ c \in ent[e].readers /\ ent[e].at # "none"
  <2>1. \A x \in Clients : ent[x].at = "none" => ent[x].readers = {}
    BY DEF InvAt, Sound
  <2> QED
    BY <2>1 DEF InvAt
<1>2. new[c].at \notin ReadingAt /\ new[c].at # "new"
  BY DEF ReadingAt
<1>3. ent2 \in [Clients -> Entry] /\ \A x \in Clients : ent2[x] = IF x = e THEN en ELSE ent[x]
  BY <1>1
<1> HIDE DEF ent2
<1>4. \A x \in Clients :
        ent2[x].readers = {y \in Clients : new[y].at \in ReadingAt /\ new[y].entry = x}
  <2>1. TAKE x \in Clients
  <2>2. ent[x].readers = {y \in Clients : cl[y].at \in ReadingAt /\ cl[y].entry = x}
    BY DEF InvAt
  <2>3. \A y \in Clients : new[y].at \in ReadingAt <=> y # c /\ cl[y].at \in ReadingAt
    BY <1>2
  <2>4. {y \in Clients : new[y].at \in ReadingAt /\ new[y].entry = x} = ent[x].readers \ {c}
    BY <1>2, <2>2, <2>3
  <2>5. CASE x # e
    BY <1>3, <2>2, <2>4, <2>5
  <2>6. CASE x = e
    BY <1>3, <2>4, <2>6
  <2> QED
    BY <2>5, <2>6
<1>5. ASSUME NEW x \in Clients, new[x].at \in ReadingAt
      PROVE  /\ new[x].entry \in Clients
             /\ new[x].position <= ent2[new[x].entry].written
             /\ new[x].at = "wait" =>
                  ent2[new[x].entry].rdone /\ new[x].position = ent2[new[x].entry].written
  BY <1>1, <1>2, <1>3, <1>5 DEF InvAt
<1>6. \A x \in Clients : new[x].at = "new" => ent2[x] = NotYet /\ new[x].position = 0
  BY <1>1, <1>2, <1>3, NotYetFacts DEF InvAt
<1>7. \A k \in Keys : i[k] # NoEntry =>
        /\ i[k] \in Clients /\ ent2[i[k]].key = k /\ ent2[i[k]].at # "none"
        /\ ent2[i[k]].at \in {"set", "done"} => ent2[i[k]].err = "none"
  BY <1>3 DEF InvAt
<1>8. \A x \in Clients : Sound(ent2[x]) /\ (new[x].at = "ok" => new[x].position = Chunks)
  <2>1. \A x \in Clients : Sound(ent2[x])
    <3>1. \A x \in Clients : Sound(ent[x])
      BY Zenon DEF InvAt
    <3> QED
      BY <1>3, <3>1, Zenon
  <2>2. \A x \in Clients : new[x].at = "ok" => new[x].position = Chunks
    BY <1>2 DEF InvAt
  <2> QED
    BY Zenon, <2>1, <2>2
<1>9. i \in [Keys -> Clients \cup {NoEntry}]
  BY DEF InvAt
<1>10. InvAt(i, ent2, new)
  BY <1>2, <1>3, <1>4, <1>5, <1>6, <1>7, <1>8, <1>9, Zenon DEF InvAt
<1> QED
  BY <1>10 DEF ent2

\* A Fetch that has not begun is no reader of anything.
LEMMA NewClient ==
  ASSUME NEW i, NEW ent, NEW cl, InvAt(i, ent, cl), NEW c \in Clients, cl[c].at = "new"
  PROVE  /\ \A e \in Clients : c \notin ent[e].readers
         /\ ent[c] = NotYet /\ \A k \in Keys : i[k] # c
         /\ \A x \in Clients : cl[x].at \in ReadingAt => cl[x].entry # c
<1>1. ent[c] = NotYet /\ \A e \in Clients : c \notin ent[e].readers
  BY DEF InvAt, ReadingAt
<1>2. \A k \in Keys : i[k] # c
  BY <1>1, NotYetFacts, CacheAssumption DEF InvAt
<1>3. \A x \in Clients : cl[x].at \in ReadingAt => x \in ent[cl[x].entry].readers
  BY DEF InvAt
<1> QED
  BY <1>1, <1>2, <1>3, NotYetFacts

\* A Fetch begins to read from an entry whose pipe is not broken.
LEMMA ReaderJoins ==
  ASSUME NEW i, NEW ent, NEW cl, InvAt(i, ent, cl),
         NEW c \in Clients, cl[c].at = "new", NEW e \in Clients, ent[e].at # "none",
         NEW en \in Entry, Sound(en), en.readers = ent[e].readers \cup {c},
         en.at = ent[e].at, en.key = ent[e].key, en.err = ent[e].err,
         en.written = ent[e].written, en.rdone = ent[e].rdone,
         NEW new \in [Clients -> Client], \A x \in Clients : x # c => new[x] = cl[x],
         new[c].at = "read", new[c].entry = e, new[c].position = 0
  PROVE  InvAt(i, [ent EXCEPT ![e] = en], new)
<1> DEFINE ent2 == [ent EXCEPT ![e] = en]
<1>1. /\ cl \in [Clients -> Client] /\ ent \in [Clients -> Entry] /\ 0 \in 0..Chunks
      /\ i \in [Keys -> Clients \cup {NoEntry}]
  BY CacheAssumption DEF InvAt
<1>2. new[c].at \in ReadingAt /\ new[c].at \notin {"new", "ok"}
  BY DEF ReadingAt
<1>3. ent2 \in [Clients -> Entry] /\ \A x \in Clients : ent2[x] = IF x = e THEN en ELSE ent[x]
  BY <1>1
<1>4. 0 <= en.written
  BY CacheAssumption DEF Entry
<1> HIDE DEF ent2
<1>5. \A x \in Clients :
        ent2[x].readers = {y \in Clients : new[y].at \in ReadingAt /\ new[y].entry = x}
  <2>1. TAKE x \in Clients
  <2>2. ent[x].readers = {y \in Clients : cl[y].at \in ReadingAt /\ cl[y].entry = x}
    BY DEF InvAt
  <2>3. c \notin ent[x].readers
    BY NewClient
  <2>4. CASE x # e
    BY <1>2, <1>3, <2>2, <2>3, <2>4
  <2>5. CASE x = e
    BY <1>2, <1>3, <1>4, <2>2, <2>5
  <2> QED
    BY <2>4, <2>5
<1>6. ASSUME NEW x \in Clients, new[x].at \in ReadingAt
      PROVE  /\ new[x].entry \in Clients
             /\ new[x].position <= ent2[new[x].entry].written
             /\ new[x].at = "wait" =>
                  ent2[new[x].entry].rdone /\ new[x].position = ent2[new[x].entry].written
  <2>1. CASE x # c
    BY <1>2, <1>3, <1>4, <1>6, <2>1 DEF InvAt
  <2>2. CASE x = c
    BY <1>2, <1>3, <1>4, <2>2
  <2> QED
    BY <2>1, <2>2
<1>7. \A x \in Clients : new[x].at = "new" => ent2[x] = NotYet /\ new[x].position = 0
  BY <1>2, <1>3, NotYetFacts DEF InvAt
<1>8. \A k \in Keys : i[k] # NoEntry =>
        /\ i[k] \in Clients /\ ent2[i[k]].key = k /\ ent2[i[k]].at # "none"
        /\ ent2[i[k]].at \in {"set", "done"} => ent2[i[k]].err = "none"
  BY <1>1, <1>3, <1>4 DEF InvAt
<1>9. \A x \in Clients : Sound(ent2[x]) /\ (new[x].at = "ok" => new[x].position = Chunks)
  <2>1. \A x \in Clients : Sound(ent2[x])
    BY Zenon, <1>3 DEF InvAt
  <2>2. \A x \in Clients : new[x].at = "ok" => new[x].position = Chunks
    BY <1>2 DEF InvAt
  <2> QED
    BY Zenon, <2>1, <2>2
<1>10. InvAt(i, ent2, new)
  BY <1>1, <1>2, <1>3, <1>5, <1>6, <1>7, <1>8, <1>9, Zenon DEF InvAt
<1> QED
  BY <1>10 DEF ent2

\* A Fetch that cannot make an entry.
LEMMA FetchFails ==
  ASSUME NEW i, NEW ent, NEW cl, InvAt(i, ent, cl), NEW c \in Clients, cl[c].at = "new",
         NEW new \in [Clients -> Client], \A x \in Clients : x # c => new[x] = cl[x],
         new[c].at = "error"
  PROVE  InvAt(i, ent, new)
<1>1. cl \in [Clients -> Client]
  BY DEF InvAt
<1>2. "error" \notin ReadingAt /\ "new" \notin ReadingAt
  BY DEF ReadingAt
<1>3. \A x \in Clients : new[x].at \in ReadingAt \cup {"new", "ok"} => new[x] = cl[x]
  BY <1>2
<1>4. \A x \in Clients : new[x].at \in ReadingAt <=> cl[x].at \in ReadingAt
  BY Zenon, <1>2
<1>5. \A x \in Clients :
        ent[x].readers = {y \in Clients : new[y].at \in ReadingAt /\ new[y].entry = x}
  <2>1. TAKE x \in Clients
  <2>2. ent[x].readers = {y \in Clients : cl[y].at \in ReadingAt /\ cl[y].entry = x}
    BY DEF InvAt
  <2> QED
    BY <1>3, <1>4, <2>2
<1>6. ASSUME NEW x \in Clients, new[x].at \in ReadingAt
      PROVE  /\ new[x].entry \in Clients
             /\ new[x].position <= ent[new[x].entry].written
             /\ new[x].at = "wait" =>
                  ent[new[x].entry].rdone /\ new[x].position = ent[new[x].entry].written
  BY <1>3, <1>6 DEF InvAt
<1>7. \A x \in Clients : (new[x].at = "new" => ent[x] = NotYet /\ new[x].position = 0)
                    /\ (new[x].at = "ok" => new[x].position = Chunks)
  <2>1. TAKE x \in Clients
  <2>2. CASE new[x].at = "new"
    BY <1>3, <2>2 DEF InvAt
  <2>3. CASE new[x].at = "ok"
    BY <1>3, <2>3 DEF InvAt
  <2> QED
    BY <2>2, <2>3
<1>8. /\ i \in [Keys -> Clients \cup {NoEntry}] /\ ent \in [Clients -> Entry]
      /\ \A e \in Clients : Sound(ent[e])
      /\ \A k \in Keys : i[k] # NoEntry =>
           /\ ent[i[k]].key = k /\ ent[i[k]].at # "none"
           /\ ent[i[k]].at \in {"set", "done"} => ent[i[k]].err = "none"
  BY Zenon DEF InvAt
<1> QED
  BY <1>5, <1>6, <1>7, <1>8 DEF InvAt

\* An entry is made, for the Fetch that made it.
LEMMA EntryMade ==
  ASSUME NEW i, NEW ent, NEW cl, InvAt(i, ent, cl), NEW c \in Clients, cl[c].at = "new", NEW k \in Keys,
         NEW new \in [Clients -> Client], \A x \in Clients : x # c => new[x] = cl[x],
         new[c].at = "read", new[c].entry = c, new[c].position = 0
  PROVE  InvAt([i EXCEPT ![k] = c], [ent EXCEPT ![c] = NewEntry(k, c)], new)
<1> DEFINE en == NewEntry(k, c)
           i2 == [i EXCEPT ![k] = c]
           ent2 == [ent EXCEPT ![c] = en]
<1>1. /\ cl \in [Clients -> Client] /\ ent \in [Clients -> Entry] /\ 0 \in 0..Chunks
      /\ i \in [Keys -> Clients \cup {NoEntry}]
  BY CacheAssumption DEF InvAt
<1>2. new[c].at \in ReadingAt /\ new[c].at \notin {"new", "ok"}
  BY DEF ReadingAt
<1>3. /\ en \in Entry /\ Sound(en)
      /\ en.readers = {c} /\ en.at = "create" /\ en.key = k /\ en.err = "none" /\ en.written = 0
  <2>1. NotYet \in Entry
    BY NotYetFacts
  <2>2. en \in Entry
    BY Zenon, <2>1 DEF NewEntry, Entry
  <2>3. /\ en.readers = {c} /\ en.at = "create" /\ en.key = k /\ en.err = "none" /\ en.written = 0
        /\ en.wcursor = 0 /\ ~en.wdone /\ ~en.rdone
    BY DEF NewEntry, NotYet
  <2> QED
    BY <2>2, <2>3 DEF Sound
<1>4. ent2 \in [Clients -> Entry] /\ \A x \in Clients : ent2[x] = IF x = c THEN en ELSE ent[x]
  BY <1>1, <1>3
<1>5. i2 \in [Keys -> Clients \cup {NoEntry}] /\ \A j \in Keys : i2[j] = IF j = k THEN c ELSE i[j]
  BY <1>1
<1> HIDE DEF ent2, en, i2
<1>6. \A x \in Clients :
        ent2[x].readers = {y \in Clients : new[y].at \in ReadingAt /\ new[y].entry = x}
  <2>1. TAKE x \in Clients
  <2>2. ent[x].readers = {y \in Clients : cl[y].at \in ReadingAt /\ cl[y].entry = x}
    BY DEF InvAt
  <2>3. c \notin ent[x].readers /\ \A y \in Clients : cl[y].at \in ReadingAt => cl[y].entry # c
    BY NewClient
  <2>4. CASE x # c
    BY <1>2, <1>4, <2>2, <2>3, <2>4
  <2>5. CASE x = c
    BY <1>2, <1>3, <1>4, <2>3, <2>5
  <2> QED
    BY <2>4, <2>5
<1>7. ASSUME NEW x \in Clients, new[x].at \in ReadingAt
      PROVE  /\ new[x].entry \in Clients
             /\ new[x].position <= ent2[new[x].entry].written
             /\ new[x].at = "wait" =>
                  ent2[new[x].entry].rdone /\ new[x].position = ent2[new[x].entry].written
  <2>1. CASE x # c
    <3>1. new[x] = cl[x] /\ cl[x].entry # c
      BY <1>2, <1>7, <2>1, NewClient
    <3> QED
      BY <1>4, <1>7, <3>1 DEF InvAt
  <2>2. CASE x = c
    BY <1>2, <1>3, <1>4, <2>2
  <2> QED
    BY <2>1, <2>2
<1>8. \A x \in Clients : new[x].at = "new" => ent2[x] = NotYet /\ new[x].position = 0
  BY <1>2, <1>4 DEF InvAt
<1>9. \A j \in Keys : i2[j] # NoEntry =>
        /\ ent2[i2[j]].key = j /\ ent2[i2[j]].at # "none"
        /\ ent2[i2[j]].at \in {"set", "done"} => ent2[i2[j]].err = "none"
  <2>1. TAKE j \in Keys
  <2>2. CASE j = k
    BY <1>3, <1>4, <1>5, <2>2
  <2>3. CASE j # k
    <3>1. i2[j] = i[j] /\ i[j] # c
      BY <1>5, <2>3, NewClient
    <3> QED
      BY <1>1, <1>4, <3>1 DEF InvAt
  <2> QED
    BY <2>2, <2>3
<1>10. \A x \in Clients : Sound(ent2[x]) /\ (new[x].at = "ok" => new[x].position = Chunks)
  <2>1. \A x \in Clients : Sound(ent2[x])
    BY Zenon, <1>3, <1>4 DEF InvAt
  <2>2. \A x \in Clients : new[x].at = "ok" => new[x].position = Chunks
    BY <1>2 DEF InvAt
  <2> QED
    BY Zenon, <2>1, <2>2
<1>11. InvAt(i2, ent2, new)
  BY <1>2, <1>4, <1>5, <1>6, <1>7, <1>8, <1>9, <1>10, Zenon DEF InvAt
<1> QED
  BY <1>11 DEF ent2, en, i2

-----------------------------------------------------------------------------
(* The steps of a Fetch.                                                   *)

\* SetPosition of rcursor touches rcursor and the notification only.
LEMMA AdvancedFacts ==
  ASSUME NEW en \in Entry, Sound(en), NEW position \in 0..Chunks
  PROVE  LET new == Advanced(en, position)
         IN  /\ new \in Entry /\ Sound(new)
             /\ new.key = en.key /\ new.at = en.at /\ new.err = en.err
             /\ new.written = en.written /\ new.wcursor = en.wcursor /\ new.readers = en.readers
             /\ new.wdone = en.wdone /\ new.rdone = en.rdone
<1> DEFINE new == Advanced(en, position)
<1>1. \/ new = en
      \/ new = [en EXCEPT !.rcursor = position, !.signals = @ \cup {Writer}]
  BY DEF Advanced
<1>2. /\ new \in Entry
      /\ new.key = en.key /\ new.at = en.at /\ new.err = en.err
      /\ new.written = en.written /\ new.wcursor = en.wcursor /\ new.readers = en.readers
      /\ new.wdone = en.wdone /\ new.rdone = en.rdone
  <2>1. CASE new = en
    BY <2>1, Zenon
  <2>2. CASE new = [en EXCEPT !.rcursor = position, !.signals = @ \cup {Writer}]
    <3> HIDE DEF new
    <3>1. new \in Entry
      BY Zenon, <2>2 DEF Entry
    <3>2. /\ new.key = en.key /\ new.at = en.at /\ new.err = en.err
          /\ new.written = en.written /\ new.wcursor = en.wcursor /\ new.readers = en.readers
          /\ new.wdone = en.wdone /\ new.rdone = en.rdone
      BY <2>2 DEF Entry
    <3> QED
      BY <3>1, <3>2, Zenon
  <2> QED
    BY <1>1, <2>1, <2>2, Zenon
<1> HIDE DEF new
<1>3. Sound(new)
  BY <1>2 DEF Sound
<1> QED
  BY <1>2, <1>3 DEF new

LEMMA HitKeeps ==
  ASSUME CacheInv, NEW c \in Clients, NEW k \in Keys, GetStreamHit(c, k)
  PROVE  CacheInv'
<1> DEFINE e == index[k]
           en == [entry[e] EXCEPT !.readers = @ \cup {c}]
<1>1. InvAt(index, entry, client)
  BY CacheInvAt
<1>2. /\ e \in Clients /\ entry[e] \in Entry /\ Sound(entry[e]) /\ entry[e].at # "none"
      /\ ~(entry[e].wdone /\ ~entry[e].rdone)
      /\ entry \in [Clients -> Entry] /\ client \in [Clients -> Client]
      /\ client[c].at = "new" /\ client[c].position = 0
  BY <1>1 DEF InvAt, GetStreamHit, CanOpenReader
<1>3. /\ index' = index /\ entry' = [entry EXCEPT ![e] = en]
      /\ client' \in [Clients -> Client] /\ \A x \in Clients : x # c => client'[x] = client[x]
      /\ client'[c].at = "read" /\ client'[c].entry = e /\ client'[c].position = 0
  BY Zenon, <1>2 DEF GetStreamHit, Client
<1>4. /\ en \in Entry /\ en.readers = entry[e].readers \cup {c}
      /\ en.at = entry[e].at /\ en.key = entry[e].key /\ en.err = entry[e].err
      /\ en.written = entry[e].written /\ en.rdone = entry[e].rdone
      /\ en.wcursor = entry[e].wcursor /\ en.wdone = entry[e].wdone
  BY SMTT(40), <1>2 DEF Entry
<1> HIDE DEF e, en
<1>5. Sound(en)
  BY <1>2, <1>4, SoundReaders
<1>6. /\ e \in Clients /\ entry[e].at # "none" /\ client[c].at = "new"
      /\ en \in Entry /\ Sound(en) /\ en.readers = entry[e].readers \cup {c}
      /\ en.at = entry[e].at /\ en.key = entry[e].key /\ en.err = entry[e].err
      /\ en.written = entry[e].written /\ en.rdone = entry[e].rdone
  BY <1>2, <1>4, <1>5, Zenon
<1>7. /\ client' \in [Clients -> Client] /\ \A x \in Clients : x # c => client'[x] = client[x]
      /\ client'[c].at = "read" /\ client'[c].entry = e /\ client'[c].position = 0
  BY <1>3, Zenon
<1>8. InvAt(index, [entry EXCEPT ![e] = en], client')
  BY <1>1, <1>6, <1>7, ReaderJoins
<1> QED
  BY <1>3, <1>8, CacheInvAt, Zenon

LEMMA MissKeeps ==
  ASSUME CacheInv, NEW c \in Clients, NEW k \in Keys, GetStreamMiss(c, k) \/ GetStreamError(c, k)
  PROVE  CacheInv'
<1>1. InvAt(index, entry, client)
  BY CacheInvAt
<1>2. /\ client \in [Clients -> Client] /\ client[c].at = "new" /\ client[c].position = 0
  BY <1>1 DEF InvAt, GetStreamMiss, GetStreamError
<1>3. CASE GetStreamMiss(c, k)
  <2>1. /\ index' = [index EXCEPT ![k] = c]
        /\ entry' = Collected(index', [entry EXCEPT ![c] = NewEntry(k, c)])
        /\ client' \in [Clients -> Client] /\ \A x \in Clients : x # c => client'[x] = client[x]
        /\ client'[c].at = "read" /\ client'[c].entry = c /\ client'[c].position = 0
    BY Zenon, <1>2, <1>3 DEF GetStreamMiss, Client
  <2>2. InvAt(index', [entry EXCEPT ![c] = NewEntry(k, c)], client')
    BY <1>1, <1>2, <2>1, EntryMade, Zenon
  <2> QED
    BY <2>1, <2>2, Collecting, CacheInvAt
<1>4. CASE GetStreamError(c, k)
  <2>1. InvAt(index', entry, client)
    BY Zenon, <1>1, <1>4, KeyRemoved DEF GetStreamError
  <2>2. /\ client' \in [Clients -> Client] /\ \A x \in Clients : x # c => client'[x] = client[x]
        /\ client'[c].at = "error"
    BY <1>2, <1>4 DEF GetStreamError, Client
  <2>3. InvAt(index', entry, client')
    BY <1>2, <2>1, <2>2, FetchFails, Zenon
  <2> QED
    BY <1>4, <2>3, Collecting, CacheInvAt, Zenon DEF GetStreamError
<1> QED
  BY <1>3, <1>4

\* What there is to read is written.
LEMMA ReadableFacts ==
  ASSUME CacheInv, NEW c \in Clients, client[c].at \in ReadingAt
  PROVE  /\ client[c].entry \in Clients /\ entry[client[c].entry] \in Entry
         /\ Sound(entry[client[c].entry]) /\ c \in entry[client[c].entry].readers
         /\ entry[client[c].entry].at # "none"
         /\ entry \in [Clients -> Entry] /\ client \in [Clients -> Client]
         /\ client[c].position \in 0..Chunks /\ client[c].position <= entry[client[c].entry].written
         /\ \A n \in Readable(c) : n \in 0..Chunks /\ n <= entry[client[c].entry].written
<1>1. InvAt(index, entry, client)
  BY CacheInvAt
<1>2. /\ client[c].entry \in Clients /\ entry[client[c].entry] \in Entry
      /\ Sound(entry[client[c].entry]) /\ c \in entry[client[c].entry].readers
      /\ entry \in [Clients -> Entry] /\ client \in [Clients -> Client]
      /\ client[c].position <= entry[client[c].entry].written
  BY <1>1 DEF InvAt
<1>3. entry[client[c].entry].at # "none"
  BY <1>2 DEF Sound
<1>4. client[c].position \in 0..Chunks /\ entry[client[c].entry].written \in 0..Chunks
  BY <1>2 DEF Entry, Client
<1>5. \A n \in Readable(c) : n \in 0..Chunks /\ n <= entry[client[c].entry].written
  BY <1>4, CacheAssumption DEF Readable
<1> QED
  BY <1>2, <1>3, <1>4, <1>5

LEMMA ReadKeeps ==
  ASSUME CacheInv, NEW c \in Clients, Read(c)
  PROVE  CacheInv'
<1> DEFINE e == client[c].entry
<1>1. InvAt(index, entry, client) /\ client[c].at \in ReadingAt /\ "read" \in ReadingAt /\ client[c].at = "read"
  BY CacheInvAt DEF Read, ReadingAt
<1>2. PICK n \in Readable(c) :
        /\ client' = [client EXCEPT ![c].position = n]
        /\ entry' = [entry EXCEPT ![e] = Advanced(entry[e], n)]
  BY Zenon DEF Read
<1>3. /\ e \in Clients /\ entry[e] \in Entry /\ Sound(entry[e]) /\ entry[e].at # "none"
      /\ client \in [Clients -> Client] /\ n \in 0..Chunks /\ n <= entry[e].written
      /\ entry[e].written \in Nat
  BY <1>1, <1>2, ReadableFacts, CacheAssumption DEF Entry
<1>4. /\ client' \in [Clients -> Client] /\ \A x \in Clients : x # c => client'[x] = client[x]
      /\ client'[c].at = "read" /\ client'[c].entry = client[c].entry /\ client'[c].position = n
  BY <1>1, <1>2, <1>3 DEF Client
<1>5. InvAt(index, entry, client')
  <2>1. client'[c].at \in ReadingAt /\ client'[c].at # "wait"
    BY <1>4 DEF ReadingAt
  <2> QED
    BY <1>1, <1>3, <1>4, <2>1, ReaderMoves, Zenon
<1> DEFINE en == Advanced(entry[e], n)
<1>6. /\ en \in Entry /\ Sound(en) /\ en.key = entry[e].key /\ en.at = entry[e].at
      /\ en.err = entry[e].err /\ en.written = entry[e].written /\ en.readers = entry[e].readers
      /\ en.rdone = entry[e].rdone
  BY <1>3, AdvancedFacts, Zenon
<1> HIDE DEF en, e
<1>7. (\E k \in Keys : index[k] = e) /\ en.at \in {"set", "done"} => en.err = "none"
  BY <1>1, <1>3, <1>6, CacheAssumption DEF InvAt
<1>8. entry[e].written <= en.written
  BY <1>3, <1>6
<1>9. InvAt(index, [entry EXCEPT ![e] = en], client')
  BY <1>3, <1>5, <1>6, <1>7, <1>8, EntryMoves, Zenon
<1> QED
  BY Zenon, <1>2, <1>9, CacheInvAt DEF Read, en

\* The last reader that leaves before the writer is closed breaks the pipe.
Left(en, c) == [en EXCEPT !.readers = @ \ {c}, !.signals = @ \ {c},
                          !.wdone = @ \/ (en.readers = {c} /\ ~en.rdone)]

LEMMA LeftFacts ==
  ASSUME NEW en \in Entry, Sound(en), NEW c \in en.readers
  PROVE  /\ Left(en, c) \in Entry /\ Sound(Left(en, c)) /\ Left(en, c).readers = en.readers \ {c}
         /\ Left(en, c).key = en.key /\ Left(en, c).at = en.at /\ Left(en, c).err = en.err
         /\ Left(en, c).written = en.written /\ Left(en, c).rdone = en.rdone
<1> DEFINE left == Left(en, c)
<1>1. left \in Entry
  BY Zenon DEF Entry, Left
<1>2. /\ left.readers = en.readers \ {c} /\ left.key = en.key /\ left.at = en.at
      /\ left.err = en.err /\ left.written = en.written /\ left.wcursor = en.wcursor
      /\ left.rdone = en.rdone
  BY DEF Entry, Left
<1>3. left.wdone <=> en.wdone \/ (en.readers = {c} /\ ~en.rdone)
  BY Zenon DEF Entry, Left
<1> HIDE DEF left
<1>4. ~(en.wdone /\ ~en.rdone) /\ en.at # "none"
  BY DEF Sound
<1>5. Sound(left)
  <2>1. left.wdone /\ ~left.rdone => left.readers = {}
    BY <1>2, <1>3, <1>4
  <2>2. left.at \in {"delete", "set", "done"} => (left.rdone <=> ~left.wdone)
    BY <1>2, <1>3, <1>4 DEF Sound
  <2>3. left.err = "order" => left.wdone /\ ~left.rdone
    BY <1>2, <1>3, <1>4 DEF Sound
  <2>4. /\ left.wcursor <= left.written
        /\ left.at # "create" => left.wcursor = left.written
        /\ left.at # "none"
        /\ left.at \in {"none", "create", "held"} => left.err = "none"
        /\ left.at \in {"none", "create", "held", "close"} => ~left.rdone
        /\ left.at \notin {"none", "create", "held"} /\ left.err = "none" => left.written = Chunks
    BY <1>2, <1>4 DEF Sound
  <2> QED
    BY <2>1, <2>2, <2>3, <2>4, Zenon DEF Sound
<1> QED
  BY <1>1, <1>2, <1>5, Zenon DEF left

LEMMA ReturnKeeps ==
  ASSUME CacheInv, NEW c \in Clients, client[c].at \in ReadingAt,
         NEW result \in {"ok", "error"}, result = "ok" => client[c].position = Chunks,
         NEW position \in 0..Chunks, Return(c, result, position), index' = index
  PROVE  CacheInv'
<1> DEFINE e == client[c].entry
           adv == Advanced(entry[e], position)
           left == [adv EXCEPT !.readers = @ \ {c}, !.signals = @ \ {c},
                               !.wdone = @ \/ (entry[e].readers = {c} /\ ~entry[e].rdone)]
<1>1. InvAt(index, entry, client)
  BY CacheInvAt
<1>2. /\ e \in Clients /\ entry[e] \in Entry /\ Sound(entry[e]) /\ c \in entry[e].readers
      /\ client \in [Clients -> Client]
  BY ReadableFacts, Zenon
<1>3. /\ entry' = Collected(index, [entry EXCEPT ![e] = left])
      /\ client' = [client EXCEPT ![c].at = result, ![c].entry = NoEntry,
                                  ![c].position = IF result = "ok" THEN @ ELSE 0]
  BY Zenon DEF Return
<1>4. /\ client' \in [Clients -> Client] /\ \A x \in Clients : x # c => client'[x] = client[x]
      /\ client'[c].at = result /\ (result = "ok" => client'[c].position = Chunks)
  BY <1>2, <1>3, CacheAssumption DEF Client
<1>5. /\ adv \in Entry /\ Sound(adv) /\ adv.key = entry[e].key /\ adv.at = entry[e].at
      /\ adv.err = entry[e].err /\ adv.written = entry[e].written /\ adv.readers = entry[e].readers
      /\ adv.rdone = entry[e].rdone
  BY <1>2, AdvancedFacts, Zenon
<1> HIDE DEF adv
<1>6. left = Left(adv, c)
  BY <1>5 DEF Left
<1> HIDE DEF left, e
<1>7. /\ left \in Entry /\ Sound(left) /\ left.readers = entry[e].readers \ {c}
      /\ left.key = entry[e].key /\ left.at = entry[e].at /\ left.err = entry[e].err
      /\ left.written = entry[e].written /\ left.rdone = entry[e].rdone
  <2>1. c \in adv.readers
    BY <1>2, <1>5, Zenon
  <2>2. /\ left \in Entry /\ Sound(left) /\ left.readers = adv.readers \ {c}
        /\ left.key = adv.key /\ left.at = adv.at /\ left.err = adv.err
        /\ left.written = adv.written /\ left.rdone = adv.rdone
    BY <1>5, <1>6, <2>1, LeftFacts
  <2> QED
    BY <1>5, <2>2, Zenon
<1>8. InvAt(index, [entry EXCEPT ![e] = left], client')
  BY <1>1, <1>4, <1>7, ReaderLeaves, Zenon DEF e
<1> QED
  BY <1>3, <1>8, Collecting, CacheInvAt, Zenon

LEMMA ReadFailsKeeps ==
  ASSUME CacheInv, NEW c \in Clients, ReadFails(c)
  PROVE  CacheInv'
<1>1. client[c].at \in ReadingAt
  BY DEF ReadFails, ReadingAt
<1>2. PICK n \in Readable(c) :
        \E position \in {client[c].position, n} : Return(c, "error", position)
  BY Zenon DEF ReadFails
<1>3. PICK position \in {client[c].position, n} : Return(c, "error", position)
  BY <1>2, Zenon
<1>4. position \in 0..Chunks
  BY <1>1, ReadableFacts
<1> QED
  BY <1>1, <1>3, <1>4, ReturnKeeps DEF ReadFails

LEMMA WaitKeeps ==
  ASSUME CacheInv, NEW c \in Clients, Wait(c) \/ WaitCanceled(c)
  PROVE  CacheInv'
<1> DEFINE e == client[c].entry
<1>1. client[c].at = "wait" /\ client[c].at \in ReadingAt /\ index' = index /\ 0 \in 0..Chunks
  BY SMTT(40), CacheAssumption DEF Wait, WaitCanceled, ReadingAt
<1>2. Sound(entry[e]) /\ client[c].position = entry[e].written
  BY <1>1, ReadableFacts, CacheInvAt DEF InvAt
<1>3. CASE Wait(c)
  <2>1. entry[e].at = "done" /\ Return(c, IF entry[e].err = "none" THEN "ok" ELSE "error", 0)
    BY <1>3 DEF Wait
  <2>2. entry[e].err = "none" => client[c].position = Chunks
    BY <1>2, <2>1 DEF Sound
  <2> QED
    BY <1>1, <2>1, <2>2, ReturnKeeps
<1>4. CASE WaitCanceled(c)
  BY <1>1, <1>4, ReturnKeeps DEF WaitCanceled
<1> QED
  BY <1>3, <1>4

\* A signal is sent or taken.
LEMMA SignalFacts ==
  ASSUME NEW en \in Entry, Sound(en), NEW signals \in SUBSET (Clients \cup {Writer})
  PROVE  LET new == [en EXCEPT !.signals = signals]
         IN  /\ new \in Entry /\ Sound(new) /\ new.at = en.at /\ new.key = en.key /\ new.err = en.err
             /\ new.readers = en.readers /\ new.written = en.written /\ new.rdone = en.rdone
<1> DEFINE new == [en EXCEPT !.signals = signals]
<1>1. new \in Entry
  BY DEF Entry
<1>2. /\ new.at = en.at /\ new.key = en.key /\ new.err = en.err /\ new.readers = en.readers
      /\ new.written = en.written /\ new.wcursor = en.wcursor
      /\ new.rdone = en.rdone /\ new.wdone = en.wdone
  BY DEF Entry
<1> HIDE DEF new
<1>3. Sound(new)
  BY <1>1, <1>2, SoundReaders DEF Sound
<1> QED
  BY <1>1, <1>2, <1>3, Zenon DEF new

\* Nothing but the signals of an entry changes.
LEMMA SignalMoves ==
  ASSUME NEW i, NEW ent, NEW cl, InvAt(i, ent, cl), NEW e \in Clients, ent[e].at # "none",
         NEW signals \in SUBSET (Clients \cup {Writer})
  PROVE  InvAt(i, [ent EXCEPT ![e] = [ent[e] EXCEPT !.signals = signals]], cl)
<1> DEFINE en == [ent[e] EXCEPT !.signals = signals]
<1>1. ent[e] \in Entry /\ Sound(ent[e])
  BY DEF InvAt
<1>2. /\ en \in Entry /\ Sound(en) /\ en.at = ent[e].at /\ en.key = ent[e].key
      /\ en.err = ent[e].err /\ en.readers = ent[e].readers /\ en.written = ent[e].written
      /\ en.rdone = ent[e].rdone
  BY <1>1, SignalFacts, Zenon
<1> HIDE DEF en
<1>3. ent[e].written <= en.written
  BY <1>1, <1>2, CacheAssumption DEF Entry
<1>4. (\E k \in Keys : i[k] = e) /\ en.at \in {"set", "done"} => en.err = "none"
  BY <1>2, CacheAssumption DEF InvAt
<1>5. InvAt(i, [ent EXCEPT ![e] = en], cl)
  BY <1>2, <1>3, <1>4, EntryMoves, Zenon
<1> QED
  BY <1>5 DEF en

LEMMA WaitReadableKeeps ==
  ASSUME CacheInv, NEW c \in Clients, WaitReadable(c)
  PROVE  CacheInv'
<1>1. /\ InvAt(index, entry, client) /\ client[c].at \in ReadingAt /\ "blocked" \in ReadingAt
      /\ client' = [client EXCEPT ![c].at = "blocked"] /\ index' = index /\ entry' = entry
  BY CacheInvAt DEF WaitReadable, ReadingAt
<1>2. client \in [Clients -> Client] /\ client[c].position <= entry[client[c].entry].written
  BY <1>1, ReadableFacts, Zenon
<1>3. /\ client' \in [Clients -> Client] /\ \A x \in Clients : x # c => client'[x] = client[x]
      /\ client'[c].at = "blocked" /\ client'[c].entry = client[c].entry
      /\ client'[c].position = client[c].position
  BY <1>1, <1>2 DEF Client
<1>4. client'[c].at \in ReadingAt /\ client'[c].at # "wait"
  BY <1>1, <1>3
<1>5. InvAt(index, entry, client')
  BY Zenon, <1>1, <1>2, <1>3, <1>4, ReaderMoves
<1> QED
  BY <1>1, <1>5, CacheInvAt

\* A notified reader looks again; at the end of the file it waits for create.
LEMMA NotifiedKeeps ==
  ASSUME CacheInv, NEW c \in Clients, Notified(c) \/ EndOfFile(c)
  PROVE  CacheInv'
<1> DEFINE e == client[c].entry
           en == [entry[e] EXCEPT !.signals = @ \ {c}]
<1>1. /\ InvAt(index, entry, client) /\ client[c].at \in ReadingAt
      /\ "read" \in ReadingAt /\ "wait" \in ReadingAt /\ index' = index
  BY CacheInvAt DEF Notified, EndOfFile, ReadingAt
<1>2. /\ e \in Clients /\ entry[e] \in Entry /\ Sound(entry[e]) /\ entry[e].at # "none"
      /\ client \in [Clients -> Client] /\ entry \in [Clients -> Entry]
      /\ client[c].position \in 0..Chunks /\ client[c].position <= entry[e].written
  BY <1>1, ReadableFacts, Zenon
<1>3. PICK at \in {"read", "wait"} :
        /\ client' = [client EXCEPT ![c].at = at]
        /\ entry' = entry \/ entry' = [entry EXCEPT ![e] = en]
        /\ at = "wait" => entry[e].rdone /\ ~(client[c].position < entry[e].wcursor)
  BY DEF Notified, EndOfFile
<1>4. at = "wait" => entry[e].rdone /\ client[c].position = entry[e].written
  <2>1. entry[e].rdone => entry[e].wcursor = entry[e].written
    BY <1>2 DEF Sound
  <2>2. entry[e].written \in Nat /\ client[c].position \in Nat
    BY <1>2, CacheAssumption DEF Entry
  <2> QED
    BY SMTT(40), <1>2, <1>3, <2>1, <2>2
<1>5. /\ client' \in [Clients -> Client] /\ \A x \in Clients : x # c => client'[x] = client[x]
      /\ client'[c].at = at /\ client'[c].entry = client[c].entry
      /\ client'[c].position = client[c].position
  BY <1>2, <1>3 DEF Client
<1>6. InvAt(index, entry, client')
  BY <1>1, <1>2, <1>4, <1>5, ReaderMoves
<1>7. entry[e].signals \ {c} \in SUBSET (Clients \cup {Writer})
  BY <1>2 DEF Entry
<1>8. InvAt(index, [entry EXCEPT ![e] = en], client')
  BY <1>2, <1>6, <1>7, SignalMoves, Zenon
<1> QED
  BY <1>1, <1>3, <1>6, <1>8, CacheInvAt, Zenon

-----------------------------------------------------------------------------
(* The steps of the goroutine of an entry, and of the cleanup.             *)

\* A step that changes one entry and leaves its readers alone.
LEMMA EntryStep ==
  ASSUME CacheInv, NEW e \in Clients, NEW en \in Entry, Sound(en),
         entry[e].at # "none", en.at # "none", en.key = entry[e].key,
         en.readers = entry[e].readers, entry[e].written <= en.written,
         entry[e].rdone => en.rdone /\ en.written = entry[e].written,
         (\E k \in Keys : index[k] = e) /\ en.at \in {"set", "done"} => en.err = "none"
  PROVE  InvAt(index, [entry EXCEPT ![e] = en], client)
<1>1. InvAt(index, entry, client)
  BY CacheInvAt
<1> QED
  BY <1>1, EntryMoves, Zenon

\* What a step of the goroutine starts from.
LEMMA EntryFacts ==
  ASSUME CacheInv, NEW e \in Clients
  PROVE  /\ entry[e] \in Entry /\ Sound(entry[e]) /\ entry \in [Clients -> Entry]
         /\ Chunks \in Nat /\ entry[e].written \in Nat
         /\ (\E k \in Keys : index[k] = e) /\ entry[e].at \in {"set", "done"} => entry[e].err = "none"
<1>1. InvAt(index, entry, client)
  BY CacheInvAt
<1>2. entry[e] \in Entry /\ Sound(entry[e]) /\ entry \in [Clients -> Entry]
  BY <1>1 DEF InvAt
<1>3. (\E k \in Keys : index[k] = e) /\ entry[e].at \in {"set", "done"} => entry[e].err = "none"
  BY <1>1, CacheAssumption DEF InvAt
<1> QED
  BY <1>2, <1>3, CacheAssumption DEF Entry

LEMMA WriteKeeps ==
  ASSUME CacheInv, NEW e \in Clients, Write(e)
  PROVE  CacheInv'
<1> DEFINE en == [entry[e] EXCEPT !.written = @ + 1]
<1>1. /\ entry[e] \in Entry /\ Sound(entry[e]) /\ Chunks \in Nat /\ entry[e].written \in Nat
      /\ entry[e].at = "create" /\ entry[e].wcursor = entry[e].written /\ entry[e].written < Chunks
      /\ index' = index /\ client' = client /\ entry' = [entry EXCEPT ![e] = en]
  BY EntryFacts DEF Write, Creating
<1>2. en \in Entry
  BY <1>1 DEF Entry
<1>3. /\ en.at = "create" /\ en.key = entry[e].key /\ en.err = entry[e].err
      /\ en.written = entry[e].written + 1 /\ en.wcursor = entry[e].wcursor
      /\ en.readers = entry[e].readers /\ en.wdone = entry[e].wdone /\ en.rdone = entry[e].rdone
  BY <1>1 DEF Entry
<1> HIDE DEF en
<1>4. Sound(en) /\ ~entry[e].rdone /\ entry[e].written <= en.written
  BY <1>1, <1>3 DEF Sound
<1>5. InvAt(index, [entry EXCEPT ![e] = en], client)
  BY Zenon, <1>1, <1>2, <1>3, <1>4, EntryStep
<1> QED
  BY <1>1, <1>5, CacheInvAt

LEMMA HeldKeeps ==
  ASSUME CacheInv, NEW e \in Clients, WaitWritable(e) \/ WriterNotified(e)
  PROVE  CacheInv'
<1>1. /\ entry[e] \in Entry /\ Sound(entry[e]) /\ entry[e].written \in Nat
      /\ entry[e].at \in {"create", "held"} /\ entry[e].wcursor = entry[e].written
      /\ index' = index /\ client' = client
  BY EntryFacts DEF WaitWritable, WriterNotified, Creating, Sound
<1>2. PICK at \in {"create", "held"}, signals \in SUBSET (Clients \cup {Writer}) :
        entry' = [entry EXCEPT ![e] = [entry[e] EXCEPT !.at = at, !.signals = signals]]
  <2>1. entry[e].signals \in SUBSET (Clients \cup {Writer})
    BY <1>1 DEF Entry
  <2>2. CASE WaitWritable(e)
    <3>1. entry' = [entry EXCEPT ![e] = [entry[e] EXCEPT !.at = "held", !.signals = entry[e].signals]]
      BY Zenon, <1>1, <2>2 DEF WaitWritable, Entry
    <3> QED
      BY Zenon, <2>1, <3>1
  <2>3. CASE WriterNotified(e)
    <3>1. entry' = [entry EXCEPT ![e] = [entry[e] EXCEPT !.at = "create", !.signals = @ \ {Writer}]]
      BY Zenon, <2>3 DEF WriterNotified
    <3> QED
      BY Zenon, <2>1, <3>1
  <2> QED
    BY <2>2, <2>3, Zenon
<1> DEFINE en == [entry[e] EXCEPT !.at = at, !.signals = signals]
<1>3. en \in Entry
  BY Zenon, <1>1 DEF Entry
<1>4. /\ en.at = at /\ en.key = entry[e].key /\ en.err = entry[e].err
      /\ en.written = entry[e].written /\ en.wcursor = entry[e].wcursor
      /\ en.readers = entry[e].readers /\ en.wdone = entry[e].wdone /\ en.rdone = entry[e].rdone
  BY <1>1 DEF Entry
<1> HIDE DEF en
<1>5. Sound(en) /\ ~entry[e].rdone /\ entry[e].written <= en.written
  BY <1>1, <1>4 DEF Sound
<1>6. InvAt(index, [entry EXCEPT ![e] = en], client)
  BY <1>1, <1>3, <1>4, <1>5, EntryStep
<1> QED
  BY <1>1, <1>2, <1>6, CacheInvAt DEF en

LEMMA SetPositionKeeps ==
  ASSUME CacheInv, NEW e \in Clients, SetPosition(e)
  PROVE  CacheInv'
<1> DEFINE en == [entry[e] EXCEPT !.wcursor = entry[e].written, !.signals = @ \cup entry[e].readers]
<1>1. /\ entry[e] \in Entry /\ Sound(entry[e]) /\ entry[e].written \in Nat
      /\ index' = index /\ client' = client /\ entry' = [entry EXCEPT ![e] = en]
      /\ entry[e].wcursor < entry[e].written
  BY Zenon, EntryFacts DEF SetPosition
<1>2. en \in Entry
  BY Zenon, <1>1 DEF Entry
<1>3. /\ en.at = entry[e].at /\ en.key = entry[e].key /\ en.err = entry[e].err
      /\ en.written = entry[e].written /\ en.wcursor = entry[e].written
      /\ en.readers = entry[e].readers /\ en.wdone = entry[e].wdone /\ en.rdone = entry[e].rdone
  BY <1>1 DEF Entry
<1>4. entry[e].wcursor \in Nat /\ entry[e].at = "create"
  <2>1. entry[e].wcursor \in Nat
    BY <1>1, CacheAssumption DEF Entry
  <2> QED
    BY <1>1, <2>1 DEF Sound
<1> HIDE DEF en
<1>5. Sound(en) /\ ~entry[e].rdone /\ entry[e].written <= en.written
  BY <1>1, <1>3, <1>4 DEF Sound
<1>6. InvAt(index, [entry EXCEPT ![e] = en], client)
  BY Zenon, <1>1, <1>2, <1>3, <1>4, <1>5, EntryStep
<1> QED
  BY <1>1, <1>6, CacheInvAt

LEMMA CreateReturnsKeeps ==
  ASSUME CacheInv, NEW e \in Clients, NEW err \in {"none", "order", "create"}, CreateReturns(e, err)
  PROVE  CacheInv'
<1> DEFINE en == [entry[e] EXCEPT !.at = "close", !.err = err, !.rcursor = 0,
                                  !.signals = @ \ {Writer}]
<1>1. /\ entry[e] \in Entry /\ Sound(entry[e]) /\ entry[e].written \in Nat /\ Chunks \in Nat
      /\ index' = index /\ client' = client /\ entry' = [entry EXCEPT ![e] = en]
  BY Zenon, EntryFacts DEF CreateReturns
<1>2. /\ entry[e].at \in {"create", "held"} /\ entry[e].wcursor = entry[e].written
      /\ err = "none" => entry[e].written = Chunks
      /\ err = "order" => entry[e].wdone
  <2>1. entry[e].at = "held" => entry[e].wcursor = entry[e].written
    BY <1>1 DEF Sound
  <2>2. CASE err = "none"
    BY <2>2 DEF CreateReturns, Creating
  <2>3. CASE err = "order"
    BY <2>1, <2>3 DEF CreateReturns, Creating, WrongCloseOrder
  <2>4. CASE err = "create"
    BY <2>4 DEF CreateReturns, Creating
  <2> QED
    BY <2>2, <2>3, <2>4
<1>3. en \in Entry
  <2>1. 0 \in 0..Chunks /\ entry[e].signals \ {Writer} \in SUBSET (Clients \cup {Writer})
    BY <1>1 DEF Entry
  <2> QED
    BY <1>1, <2>1, Zenon DEF Entry
<1>4. /\ en.at = "close" /\ en.key = entry[e].key /\ en.err = err
      /\ en.written = entry[e].written /\ en.wcursor = entry[e].wcursor
      /\ en.readers = entry[e].readers /\ en.wdone = entry[e].wdone /\ en.rdone = entry[e].rdone
  BY SMTT(40), <1>1 DEF Entry
<1> HIDE DEF en
<1>5. Sound(en) /\ ~entry[e].rdone /\ entry[e].written <= en.written
  BY <1>1, <1>2, <1>4 DEF Sound
<1>6. InvAt(index, [entry EXCEPT ![e] = en], client)
  BY Zenon, <1>1, <1>2, <1>3, <1>4, <1>5, EntryStep
<1> QED
  BY <1>1, <1>6, CacheInvAt

LEMMA CloseKeeps ==
  ASSUME CacheInv, NEW e \in Clients, Close(e)
  PROVE  CacheInv'
<1> DEFINE err == IF entry[e].err = "none" /\ entry[e].wdone THEN "order" ELSE entry[e].err
           at == IF err = "none" THEN "set" ELSE "delete"
           rdone == ~entry[e].wdone
           en == [entry[e] EXCEPT !.rdone = rdone, !.err = err, !.at = at]
<1>1. /\ entry[e] \in Entry /\ Sound(entry[e]) /\ entry[e].written \in Nat /\ entry[e].at = "close"
      /\ index' = index /\ client' = client /\ entry' = [entry EXCEPT ![e] = en]
  BY Zenon, EntryFacts DEF Close
<1>2. /\ err \in {"none", "order", "create"} /\ at \in {"set", "delete"} /\ rdone \in BOOLEAN
      /\ at = "set" => err = "none"
      /\ rdone <=> ~entry[e].wdone
      /\ err = "none" => entry[e].err = "none" /\ ~entry[e].wdone
      /\ err = "order" => entry[e].wdone \/ entry[e].err = "order"
  BY <1>1 DEF Entry
<1> HIDE DEF err, at, rdone
<1>3. en \in Entry
  BY ZenonT(40), <1>1, <1>2 DEF Entry
<1>4. /\ en.at = at /\ en.key = entry[e].key /\ en.err = err
      /\ en.written = entry[e].written /\ en.wcursor = entry[e].wcursor
      /\ en.readers = entry[e].readers /\ en.wdone = entry[e].wdone /\ en.rdone = rdone
  BY <1>1 DEF Entry
<1> HIDE DEF en
<1>5. /\ ~entry[e].rdone /\ entry[e].wcursor = entry[e].written
      /\ entry[e].err = "none" => entry[e].written = Chunks
      /\ entry[e].err = "order" => entry[e].wdone
      /\ entry[e].wdone => entry[e].readers = {}
  BY SMTT(40), <1>1 DEF Sound
<1>6. Sound(en) /\ entry[e].written <= en.written
  BY <1>1, <1>2, <1>4, <1>5 DEF Sound
<1>7. InvAt(index, [entry EXCEPT ![e] = en], client)
  BY Zenon, <1>1, <1>2, <1>3, <1>4, <1>5, <1>6, EntryStep
<1> QED
  BY <1>1, <1>7, CacheInvAt

LEMMA RemoveFileKeeps ==
  ASSUME CacheInv, NEW e \in Clients, RemoveFile(e)
  PROVE  CacheInv'
<1> DEFINE en == [entry[e] EXCEPT !.file = FALSE]
<1>1. /\ entry[e] \in Entry /\ Sound(entry[e]) /\ entry[e].written \in Nat
      /\ index' = index /\ client' = client /\ entry' = [entry EXCEPT ![e] = en]
      /\ \E k \in Keys : index[k] = e
      /\ entry[e].at \in {"set", "done"} => entry[e].err = "none"
  BY EntryFacts DEF RemoveFile
<1>2. entry[e].at # "none"
  BY <1>1, CacheInvAt, CacheAssumption DEF InvAt
<1>3. en \in Entry
  BY Zenon, <1>1 DEF Entry
<1>4. /\ en.at = entry[e].at /\ en.key = entry[e].key /\ en.err = entry[e].err
      /\ en.written = entry[e].written /\ en.wcursor = entry[e].wcursor
      /\ en.readers = entry[e].readers /\ en.wdone = entry[e].wdone /\ en.rdone = entry[e].rdone
  BY <1>1 DEF Entry
<1> HIDE DEF en
<1>5. Sound(en) /\ entry[e].written <= en.written
  <2>1. entry[e].wdone /\ ~entry[e].rdone => en.readers = {}
    BY <1>1, <1>4 DEF Sound
  <2> QED
    BY <1>1, <1>2, <1>3, <1>4, <2>1, SoundReaders
<1>6. InvAt(index, [entry EXCEPT ![e] = en], client)
  BY Zenon, <1>1, <1>2, <1>3, <1>4, <1>5, EntryStep
<1> QED
  BY <1>1, <1>6, CacheInvAt

\* The last steps of the goroutine change nothing but where it is.
LEMMA MovedOn ==
  ASSUME NEW en \in Entry, Sound(en), NEW at \in {"set", "done"}, en.at \in {"delete", "set"}
  PROVE  LET new == [en EXCEPT !.at = at]
         IN  /\ new \in Entry /\ Sound(new) /\ new.at = at /\ new.key = en.key /\ new.err = en.err
             /\ new.readers = en.readers /\ new.written = en.written /\ new.rdone = en.rdone
<1> DEFINE new == [en EXCEPT !.at = at]
<1>1. new \in Entry
  BY DEF Entry
<1>2. /\ new.at = at /\ new.key = en.key /\ new.err = en.err /\ new.readers = en.readers
      /\ new.written = en.written /\ new.wcursor = en.wcursor
      /\ new.rdone = en.rdone /\ new.wdone = en.wdone
  BY DEF Entry
<1> HIDE DEF new
<1>3. Sound(new)
  BY <1>2 DEF Sound
<1> QED
  BY <1>1, <1>2, <1>3, Zenon DEF new

\* The index has the entry of a key under that key only, so that an entry that is
\* taken from it is not found under another.
LEMMA DeleteKeeps ==
  ASSUME CacheInv, NEW e \in Clients, Delete(e)
  PROVE  CacheInv'
<1> DEFINE en == [entry[e] EXCEPT !.at = "set"]
           i2 == [index EXCEPT ![entry[e].key] = NoEntry]
<1>1. /\ entry[e] \in Entry /\ Sound(entry[e]) /\ entry[e].written \in Nat /\ entry[e].at = "delete"
      /\ index' = i2 /\ client' = client /\ entry' = Collected(index', [entry EXCEPT ![e] = en])
      /\ InvAt(index, entry, client)
  BY EntryFacts, CacheInvAt DEF Delete
<1>2. InvAt(i2, entry, client)
  BY Zenon, <1>1, KeyRemoved
<1>3. /\ en \in Entry /\ Sound(en) /\ en.at = "set" /\ en.key = entry[e].key /\ en.err = entry[e].err
      /\ en.readers = entry[e].readers /\ en.written = entry[e].written /\ en.rdone = entry[e].rdone
  BY Zenon, <1>1, MovedOn
<1>4. ~\E k \in Keys : i2[k] = e
  <2>1. \A k \in Keys : index[k] = e => k = entry[e].key
    BY <1>1, CacheAssumption DEF InvAt
  <2>2. index \in [Keys -> Clients \cup {NoEntry}] /\ e # NoEntry
    BY <1>1, CacheAssumption DEF InvAt
  <2> QED
    BY <2>1, <2>2
<1> HIDE DEF en, i2
<1>5. entry[e].written <= en.written
  BY <1>1, <1>3
<1>6. InvAt(i2, [entry EXCEPT ![e] = en], client)
  BY <1>1, <1>2, <1>3, <1>4, <1>5, EntryMoves
<1> QED
  BY <1>1, <1>6, Collecting, CacheInvAt, Zenon

LEMMA SetErrorKeeps ==
  ASSUME CacheInv, NEW e \in Clients, SetError(e)
  PROVE  CacheInv'
<1> DEFINE en == [entry[e] EXCEPT !.at = "done"]
<1>1. /\ entry[e] \in Entry /\ Sound(entry[e]) /\ entry[e].written \in Nat /\ entry[e].at = "set"
      /\ index' = index /\ client' = client
      /\ entry' = Collected(index, [entry EXCEPT ![e] = en])
      /\ (\E k \in Keys : index[k] = e) => entry[e].err = "none"
  BY EntryFacts DEF SetError
<1>2. /\ en \in Entry /\ Sound(en) /\ en.at = "done" /\ en.key = entry[e].key /\ en.err = entry[e].err
      /\ en.readers = entry[e].readers /\ en.written = entry[e].written /\ en.rdone = entry[e].rdone
  BY Zenon, <1>1, MovedOn
<1> HIDE DEF en
<1>3. entry[e].written <= en.written
  BY <1>1, <1>2
<1>4. InvAt(index, [entry EXCEPT ![e] = en], client)
  BY <1>1, <1>2, <1>3, EntryStep
<1> QED
  BY <1>1, <1>4, Collecting, CacheInvAt, Zenon

LEMMA CleanKeeps ==
  ASSUME CacheInv, NEW k \in Keys, Clean(k)
  PROVE  CacheInv'
<1>1. InvAt(index', entry, client)
  BY ZenonT(40), CacheInvAt, KeyRemoved DEF Clean
<1> QED
  BY <1>1, Collecting, CacheInvAt, Zenon DEF Clean

-----------------------------------------------------------------------------
(* The invariant, and what follows from it.                                *)

LEMMA InitCacheInv == Init => CacheInv
<1> SUFFICES ASSUME Init PROVE CacheInv
  OBVIOUS
<1>1. /\ index \in [Keys -> Clients \cup {NoEntry}] /\ \A k \in Keys : index[k] = NoEntry
      /\ entry \in [Clients -> Entry] /\ \A e \in Clients : entry[e] = NotYet
      /\ client \in [Clients -> Client]
      /\ \A c \in Clients : client[c].at = "new" /\ client[c].position = 0
  BY NotYetFacts, CacheAssumption DEF Init, Client
<1>2. InvAt(index, entry, client)
  BY <1>1, NotYetFacts DEF InvAt, ReadingAt
<1> QED
  BY <1>2, CacheInvAt

LEMMA NextCacheInv == CacheInv /\ [Next]_vars => CacheInv'
<1> SUFFICES ASSUME CacheInv, [Next]_vars PROVE CacheInv'
  OBVIOUS
<1>1. CASE UNCHANGED vars
  BY <1>1, CacheInvAt DEF vars
<1>2. ASSUME NEW c \in Clients, Fetch(c) PROVE CacheInv'
  BY <1>2, HitKeeps, MissKeeps, ReadKeeps, WaitReadableKeeps, NotifiedKeeps, WaitKeeps, Zenon
     DEF Fetch
<1>3. ASSUME NEW c \in Clients, ReadFails(c) \/ WaitCanceled(c) PROVE CacheInv'
  BY <1>3, ReadFailsKeeps, WaitKeeps, Zenon
<1>4. ASSUME NEW e \in Clients, Creation(e) \/ CreateReturns(e, "create") \/ RemoveFile(e)
      PROVE  CacheInv'
  BY <1>4, WriteKeeps, HeldKeeps, SetPositionKeeps, CreateReturnsKeeps, CloseKeeps, DeleteKeeps,
     SetErrorKeeps, RemoveFileKeeps, Zenon DEF Creation
<1>5. ASSUME NEW k \in Keys, Clean(k) PROVE CacheInv'
  BY <1>5, CleanKeeps
<1> QED
  BY <1>1, <1>2, <1>3, <1>4, <1>5, Zenon DEF Next

\* The pipe of every entry is sound, its readers are the Fetches that read from it,
\* the index has no entry whose waiters may be told of an error, and a Fetch that
\* succeeded has delivered everything.
THEOREM CacheInvariance == Spec => []CacheInv
  BY InitCacheInv, NextCacheInv, PTL DEF Spec

\* A Fetch that returns without an error has delivered all of the contents.
THEOREM ServedCompleteHolds == Spec => []ServedComplete
<1>1. CacheInv => ServedComplete
  BY DEF CacheInv
<1> QED
  BY <1>1, CacheInvariance, PTL

\* The pipe of an entry is broken only when nobody reads from it.
THEOREM ReadersKeepPipeHolds == Spec => []ReadersKeepPipe
<1>1. CacheInv => ReadersKeepPipe
  BY DEF CacheInv, ReadersKeepPipe, Sound
<1> QED
  BY <1>1, CacheInvariance, PTL

\* A failed entry has left the index when its waiters are told.
THEOREM PrunedBeforeToldHolds == Spec => []PrunedBeforeTold
<1>1. CacheInv => PrunedBeforeTold
  BY DEF CacheInv, IndexInv, PrunedBeforeTold
<1> QED
  BY <1>1, CacheInvariance, PTL

=============================================================================
