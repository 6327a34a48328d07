----------------------------- MODULE Graph_proof -----------------------------
(***************************************************************************)
(* Proofs about Graph, for any names and any number of rows, calls,        *)
(* entries of the trash and failures: they need nothing of the constants.  *)
(***************************************************************************)
EXTENDS Graph, WellFoundedInduction, TLAPS

Kinds == {"entity", "observation", "relation"}
RowsOf == [kind : Kinds, names : SUBSET Names, text : Nat, marks : SUBSET Nat, inline : BOOLEAN]
JobsOf == [id : Nat, text : Nat, next : {"done", "update", "inline", "mark", "import"},
           names : SUBSET Names, entity : Nat, queue : SUBSET Nat, entry : Nat]

(* Rows by their ids, up to the n-th; a row marks older ones only. *)
Table(f, n) ==
    /\ f \in [DOMAIN f -> RowsOf]
    /\ \A id \in DOMAIN f : id \in 1..n /\ \A m \in f[id].marks : m < id

Counts == last \in Nat /\ binned \in Nat /\ slips \in Nat
Tables ==
    /\ Table(rows, last) /\ Table(lookup, last) /\ Table(backup, last)
    /\ DOMAIN trash \subseteq 1..binned
    /\ \A entry \in DOMAIN trash : Table(trash[entry], last)

(* Only an import has a queue, and an entry of the trash that it empties. *)
JobsAreTyped == \A job \in jobs :
    /\ job \in JobsOf /\ job.entry <= binned
    /\ job.next # "import" => job.queue = {} /\ job.entry = 0

(* An entry of the trash that is being restored does not count any more: its  *)
(* rows are elsewhere by now.                                                 *)
Importing == {job.entry : job \in jobs}
Kept ==
    \A id \in 1..last :
        \/ id \in DOMAIN rows \union learnt \union gone
        \/ \E entry \in DOMAIN trash \ Importing : id \in DOMAIN trash[entry]

(* The keys of a row may lag behind its text, not behind what it is about. *)
SameNames ==
    /\ \A id \in DOMAIN lookup : /\ id \in DOMAIN rows /\ lookup[id].kind = rows[id].kind
                                 /\ lookup[id].names = rows[id].names
    /\ slips = 0 => lookup = rows

Waiting == UNION {{job.id} \union job.queue : job \in jobs}
Embedded == slips = 0 => \A id \in DOMAIN rows \ bare : id \in DOMAIN vecs \union Waiting

GraphInv == Counts /\ Tables /\ JobsAreTyped /\ Kept /\ SameNames /\ Embedded
-----------------------------------------------------------------------------
LEMMA LeastExists == ASSUME NEW S \in SUBSET Nat, S # {} PROVE \E i \in S : \A j \in S : i <= j
<1> DEFINE Less == OpToRel(<, Nat)
<1>1. IsWellFoundedOn(Less, Nat)
  BY NatLessThanWellFounded, Zenon DEF Less
<1>2. PICK x \in S : \A y \in S : <<y, x>> \notin Less
  BY <1>1, WFMin
<1>3. Less = {p \in Nat \X Nat : p[1] < p[2]}
  BY Zenon DEF Less, OpToRel
<1>4. ASSUME NEW y \in S PROVE x <= y
  <2>1. <<y, x>> \in Nat \X Nat /\ <<y, x>>[1] = y /\ <<y, x>>[2] = x
    OBVIOUS
  <2>2. ~(y < x)
    BY <1>2, <1>3, <2>1
  <2> QED BY <2>2
<1> QED BY <1>4

LEMMA MinIsTheLeast ==
    ASSUME NEW S \in SUBSET Nat, S # {} PROVE Min(S) \in S
BY LeastExists DEF Min

LEMMA MaxIsTheLargest ==
    ASSUME NEW n \in Nat, NEW S \in SUBSET (1..n), S # {}
    PROVE  Max(S) \in S /\ \A y \in S : y <= Max(S)
<1> DEFINE T == {n - x : x \in S}
<1>0. \A x \in S : x \in Int /\ n - x \in Nat
  OBVIOUS
<1>1. T \in SUBSET Nat /\ T # {}
  BY <1>0
<1>2. PICK t \in T : \A u \in T : t <= u
  BY <1>1, LeastExists
<1>3. PICK x \in S : t = n - x
  BY <1>2
<1>4. ASSUME NEW y \in S PROVE x >= y
  <2>1. n - y \in T
    OBVIOUS
  <2> QED BY <1>2, <1>3, <2>1
<1>5. \E m \in S : \A y \in S : m >= y
  BY <1>4
<1>6. Max(S) \in S /\ \A y \in S : Max(S) >= y
  BY <1>5 DEF Max
<1> QED BY <1>6

(* Tables stay tables. *)
LEMMA OlderTable ==
    ASSUME NEW f, NEW n \in Nat, NEW k \in Nat, Table(f, n), n <= k PROVE Table(f, k)
BY DEF Table

LEMMA PutTable ==
    ASSUME NEW f, NEW n \in Nat, Table(f, n), NEW id \in 1..n, NEW row \in RowsOf,
           \A m \in row.marks : m < id
    PROVE  Table(Put(f, id, row), n)
BY DEF Table, Put

LEMMA PartTable ==
    ASSUME NEW f, NEW n \in Nat, Table(f, n), NEW S, S \subseteq DOMAIN f
    PROVE  Table(Restrict(f, S), n)
BY DEF Table, Restrict

LEMMA DropTable ==
    ASSUME NEW f, NEW n \in Nat, Table(f, n), NEW out PROVE Table(Drop(f, out), n)
BY PartTable DEF Drop

LEMMA MergeTable ==
    ASSUME NEW f, NEW g, NEW n \in Nat, Table(f, n), Table(g, n) PROVE Table(Merge(f, g), n)
BY DEF Table, Merge

LEMMA SameTable ==
    ASSUME NEW f, NEW g, NEW n, NEW k, Table(f, n), Table(g, k), DOMAIN f = DOMAIN g,
           \A id \in DOMAIN f : f[id] = g[id]
    PROVE  f = g
BY DEF Table

LEMMA NothingIsATable == \A n \in Nat : Table(Nothing, n) /\ DOMAIN Nothing = {}
BY DEF Nothing, Table

(* Nothing is lost by a step that takes no row, or no entry, away. *)
LEMMA KeptStays ==
    ASSUME Kept, Counts, last' = last \/ (last' = last + 1 /\ last' \in DOMAIN rows' \union learnt'),
           \A id \in DOMAIN rows \union learnt \union gone :
              \/ id \in DOMAIN rows' \union learnt' \union gone'
              \/ \E entry \in DOMAIN trash' \ Importing' : id \in DOMAIN trash'[entry],
           \A entry \in DOMAIN trash \ Importing : \A id \in DOMAIN trash[entry] :
              \/ id \in DOMAIN rows' \union learnt' \union gone'
              \/ \E e \in DOMAIN trash' \ Importing' : id \in DOMAIN trash'[e]
    PROVE  Kept'
<1> SUFFICES ASSUME NEW id \in 1..last'
            PROVE  \/ id \in DOMAIN rows' \union learnt' \union gone'
                   \/ \E entry \in DOMAIN trash' \ Importing' : id \in DOMAIN trash'[entry]
  BY DEF Kept
<1>1. CASE id \in 1..last
  BY <1>1 DEF Kept
<1>2. CASE last' = last + 1 /\ id = last'
  BY <1>2
<1> QED BY <1>1, <1>2 DEF Counts

(* The end of an embedding. *)
LEMMA EmbedsIs ==
    ASSUME Counts, NEW job, Embeds(job)
    PROVE  slips' \in Nat /\ (slips' = 0 => slips = 0 /\ DOMAIN vecs' = DOMAIN vecs \union {job.id})
<1>1. CASE vecs' = Upserted(job) /\ slips' = slips
  <2>1. DOMAIN Put(vecs, job.id, job.text) = DOMAIN vecs \union {job.id}
    BY DEF Put
  <2>2. DOMAIN vecs' = DOMAIN vecs \union {job.id}
    BY <1>1, <2>1 DEF Upserted
  <2> QED BY <1>1, <2>2 DEF Counts
<1>2. CASE slips' = slips + 1
  BY <1>2 DEF Counts
<1> QED BY <1>1, <1>2 DEF Embeds, Tombstone

LEMMA InitialState == GraphInit => GraphInv
<1> SUFFICES ASSUME GraphInit PROVE GraphInv
  OBVIOUS
<1>1. Counts /\ DOMAIN rows = {} /\ DOMAIN lookup = {} /\ DOMAIN trash = {} /\ rows = lookup
  BY NothingIsATable DEF GraphInit, Counts
<1>2. Tables
  BY <1>1, NothingIsATable DEF Tables, GraphInit
<1>3. JobsAreTyped /\ Kept /\ SameNames /\ Embedded
  BY <1>1 DEF GraphInit, JobsAreTyped, Kept, SameNames, Embedded
<1> QED BY <1>1, <1>2, <1>3 DEF GraphInv

(* createEntity, createRelation, addObservation: up to the await. *)
LEMMA StoreKeeps ==
    ASSUME GraphInv, NEW row \in RowsOf, \A m \in row.marks : m < New,
           NEW next \in {"done", "inline"}, Store(row, next, 0),
           UNCHANGED <<learnt, vecs, tombs, trash, backup, gone, bare, binned>>
    PROVE  GraphInv'
<1> USE DEF GraphInv
<1> DEFINE job == Job(New, row.text, next, row.names, 0)
<1>1. last' = last + 1 /\ last' = New /\ New \in 1..last' /\ last \in Nat /\ last' \in Nat /\ last <= last'
  BY DEF Store, New, Counts
<1>2. rows' = Put(rows, New, row) /\ jobs' = jobs \union {job}
  BY DEF Store, Waits
<1>3. (lookup' = Put(lookup, New, row) /\ slips' = slips) \/ (lookup' = lookup /\ slips' = slips + 1)
  BY DEF Store, Indexed
<1>4. Counts'
  BY <1>1, <1>3 DEF Counts
<1>5. Tables'
  <2>1. Table(rows', last') /\ Table(lookup', last') /\ Table(backup', last')
    BY <1>1, <1>2, <1>3, OlderTable, PutTable DEF Tables
  <2>2. \A entry \in DOMAIN trash : Table(trash[entry], last')
    BY <1>1, OlderTable DEF Tables
  <2> QED BY <2>1, <2>2 DEF Tables
<1>6. job \in JobsOf /\ job.queue = {} /\ job.entry = 0 /\ job.id = New
  BY <1>1 DEF Job, JobsOf, RowsOf
<1>7. JobsAreTyped'
  BY <1>2, <1>6 DEF JobsAreTyped, Counts
<1>8. Kept'
  <2>1. DOMAIN rows' = DOMAIN rows \union {last'}
    BY <1>1, <1>2 DEF Put
  <2>2. \A e \in DOMAIN trash \ Importing : e \notin Importing'
    BY <1>2, <1>6 DEF Importing, Tables
  <2> QED BY <1>1, <2>1, <2>2, KeptStays
<1>9. SameNames'
  BY <1>1, <1>2, <1>3 DEF SameNames, Put, Tables, Table, Counts
<1>10. Embedded'
  <2>1. DOMAIN rows' = DOMAIN rows \union {New}
    BY <1>2 DEF Put
  <2>2. slips' = 0 => slips = 0
    BY <1>3 DEF Counts
  <2>3. New \in Waiting' /\ Waiting \subseteq Waiting'
    BY <1>2, <1>6 DEF Waiting
  <2> QED BY <2>1, <2>2, <2>3 DEF Embedded
<1> QED BY <1>4, <1>5, <1>7, <1>8, <1>9, <1>10

(* record_learning *)
LEMMA LearnKeeps == ASSUME GraphInv, Learn PROVE GraphInv'
<1> USE DEF GraphInv
<1> DEFINE job == Job(New, 1, "done", {}, 0)
<1>1. last' = last + 1 /\ last' = New /\ last \in Nat /\ last' \in Nat /\ last <= last'
  BY DEF Learn, New, Counts
<1>2. learnt' = learnt \union {New} /\ jobs' = jobs \union {job}
       /\ UNCHANGED <<rows, lookup, vecs, trash, backup, slips, gone, bare, binned>>
  BY DEF Learn, Waits
<1>3. Counts' /\ SameNames'
  BY <1>1, <1>2 DEF Counts, SameNames
<1>4. Tables'
  BY <1>1, <1>2, OlderTable DEF Tables
<1>5. job \in JobsOf /\ job.queue = {} /\ job.entry = 0
  BY <1>1 DEF Job, JobsOf
<1>6. JobsAreTyped'
  BY <1>2, <1>5 DEF JobsAreTyped, Counts
<1>7. Kept'
  <2>1. \A e \in DOMAIN trash \ Importing : e \notin Importing'
    BY <1>2, <1>5 DEF Importing, Tables
  <2> QED BY <1>1, <1>2, <2>1, KeptStays
<1>8. Embedded'
  BY <1>2 DEF Embedded, Waiting
<1> QED BY <1>3, <1>4, <1>6, <1>7, <1>8

(* deleteGraphRows *)
LEMMA DeleteKeeps == ASSUME GraphInv, NEW out, Delete(out) PROVE GraphInv'
<1> USE DEF GraphInv
<1>1. rows' = Drop(rows, out) /\ lookup' = Drop(lookup, out) /\ gone' = gone \union out
       /\ UNCHANGED <<learnt, trash, backup, jobs, last, bare, binned>>
  BY DEF Delete
<1>2. (vecs' = Drop(vecs, out) /\ slips' = slips) \/ slips' = slips + 1
  BY DEF Delete, Tombstone
<1>3. Counts' /\ JobsAreTyped'
  BY <1>1, <1>2 DEF Counts, JobsAreTyped
<1>4. Tables'
  BY <1>1, DropTable DEF Tables, Counts
<1>5. Kept'
  BY <1>1, KeptStays DEF Importing, Drop, Restrict
<1>6. SameNames'
  BY <1>1, <1>2 DEF SameNames, Drop, Restrict, Counts
<1>7. Embedded'
  <2>1. DOMAIN rows' = DOMAIN rows \ out /\ Waiting' = Waiting
    BY <1>1 DEF Drop, Restrict, Waiting
  <2>2. slips' = 0 => slips = 0 /\ DOMAIN vecs' = DOMAIN vecs \ out
    BY <1>2 DEF Counts, Drop, Restrict
  <2> QED BY <1>1, <2>1, <2>2 DEF Embedded
<1> QED BY <1>3, <1>4, <1>5, <1>6, <1>7

(* updateObservationContent *)
LEMMA UpdateKeeps ==
    ASSUME GraphInv, NEW id \in DOMAIN rows, NEW text \in Nat, Update(id, text) PROVE GraphInv'
<1> USE DEF GraphInv
<1> DEFINE job == Job(id, text, "update", {}, 0)
<1>1. rows' = [rows EXCEPT ![id].text = text] /\ bare' = bare \ {id}
       /\ UNCHANGED <<learnt, trash, backup, last, gone, binned>>
  BY DEF Update
<1>2. /\ rows'[id] \in RowsOf /\ rows'[id].marks = rows[id].marks
      /\ rows'[id].kind = rows[id].kind /\ rows'[id].names = rows[id].names
  BY <1>1 DEF Tables, Table, RowsOf
<1>3. \/ vecs' = Drop(vecs, {id}) /\ jobs' = jobs \union {job} /\ slips' = slips
          /\ lookup' = Put(lookup, id, rows'[id])
      \/ slips' = slips + 1 /\ (lookup' = Put(lookup, id, rows'[id]) \/ lookup' = lookup)
          /\ (jobs' = jobs \/ jobs' = jobs \union {job})
  BY DEF Update, Indexed, Tombstone, Waits
<1>4. Counts' /\ id \in 1..last /\ last \in Nat
  BY <1>1, <1>3 DEF Counts, Tables, Table
<1>5. DOMAIN rows' = DOMAIN rows /\ \A k \in DOMAIN rows \ {id} : rows'[k] = rows[k]
  BY <1>1
<1>6. Tables'
  <2>1. Table(rows', last)
    BY <1>2, <1>4, <1>5, <1>1 DEF Tables, Table
  <2>2. Table(lookup', last)
    BY <1>2, <1>3, <1>4, PutTable DEF Tables, Table
  <2> QED BY <1>1, <2>1, <2>2 DEF Tables
<1>7. job \in JobsOf /\ job.queue = {} /\ job.entry = 0 /\ job.id = id
  BY <1>4 DEF Job, JobsOf
<1>8. JobsAreTyped'
  BY <1>1, <1>3, <1>7 DEF JobsAreTyped, Counts
<1>9. Kept'
  <2>1. \A e \in DOMAIN trash \ Importing : e \notin Importing'
    BY <1>3, <1>7 DEF Importing, Tables
  <2> QED BY <1>1, <1>5, <2>1, KeptStays
<1>10. SameNames'
  <2>1. ASSUME lookup = rows, lookup' = Put(lookup, id, rows'[id]) PROVE lookup' = rows'
    <3>1. DOMAIN lookup' = DOMAIN rows' /\ \A k \in DOMAIN lookup' : lookup'[k] = rows'[k]
      BY <1>5, <2>1 DEF Put
    <3>2. Table(lookup', last') /\ Table(rows', last')
      BY <1>6 DEF Tables
    <3> QED BY <3>1, <3>2, SameTable
  <2>2. \A k \in DOMAIN lookup' : (k = id /\ lookup'[k] = rows'[id]) \/ (k \in DOMAIN lookup /\ lookup'[k] = lookup[k])
    BY <1>3 DEF Put
  <2>3. \A k \in DOMAIN lookup' : /\ k \in DOMAIN rows' /\ lookup'[k].kind = rows'[k].kind
                                  /\ lookup'[k].names = rows'[k].names
    BY <1>2, <1>5, <2>2 DEF SameNames
  <2> QED BY <1>3, <2>1, <2>3 DEF SameNames, Counts
<1>11. Embedded'
  <2>1. slips' = 0 => slips = 0 /\ DOMAIN vecs' = DOMAIN vecs \ {id} /\ Waiting' = Waiting \union {id}
    BY <1>3, <1>7 DEF Counts, Drop, Restrict, Waiting
  <2> QED BY <1>1, <1>5, <2>1 DEF Embedded
<1> QED BY <1>4, <1>6, <1>8, <1>9, <1>10, <1>11

(* An embedding ends, and nothing more. *)
LEMMA DoneKeeps == ASSUME GraphInv, NEW job \in jobs, Done(job) PROVE GraphInv'
<1> USE DEF GraphInv
<1>1. jobs' = jobs \ {job} /\ UNCHANGED <<rows, learnt, lookup, trash, backup, last, gone, bare, binned>>
  BY DEF Done
<1>2. job.next # "import" /\ job.queue = {} /\ job.entry = 0
  BY DEF Done, JobsAreTyped
<1>3. slips' \in Nat /\ (slips' = 0 => slips = 0 /\ DOMAIN vecs' = DOMAIN vecs \union {job.id})
  BY EmbedsIs DEF Done
<1>4. Counts' /\ JobsAreTyped' /\ Tables' /\ SameNames'
  BY <1>1, <1>3 DEF Counts, JobsAreTyped, Tables, SameNames
<1>5. Kept'
  BY <1>1, KeptStays DEF Importing
<1>6. Embedded'
  <2>1. Waiting \subseteq Waiting' \union {job.id}
    BY <1>1, <1>2 DEF Waiting
  <2> QED BY <1>1, <1>3, <2>1 DEF Embedded
<1> QED BY <1>4, <1>5, <1>6

(* The inline observations of an entity become rows. *)
LEMMA MaterializeKeeps == ASSUME GraphInv, NEW job \in jobs, Materialize(job) PROVE GraphInv'
<1> USE DEF GraphInv
<1> DEFINE row == Row("observation", job.names, job.text, {}, FALSE)
           more == Job(New, job.text, "mark", job.names, job.id)
<1>1. /\ last' = last + 1 /\ last' = New /\ New \in 1..last' /\ last \in Nat /\ last' \in Nat
      /\ last <= last'
  BY DEF Materialize, New, Counts
<1>2. /\ rows' = Put(rows, New, row) /\ lookup' = Put(lookup, New, row)
      /\ UNCHANGED <<learnt, trash, backup, gone, bare, binned>>
  BY DEF Materialize
<1>3. jobs' = (jobs \ {job}) \union {more}
  BY DEF Materialize, Row
<1>4. job \in JobsOf /\ job.next # "import" /\ job.queue = {} /\ job.entry = 0
  BY DEF Materialize, JobsAreTyped
<1>5. row \in RowsOf /\ row.marks = {}
  BY <1>4 DEF Row, RowsOf, JobsOf, Kinds
<1>6. more \in JobsOf /\ more.queue = {} /\ more.entry = 0 /\ more.id = New
  BY <1>1, <1>4 DEF Job, JobsOf
<1>7. slips' \in Nat /\ (slips' = 0 => slips = 0 /\ DOMAIN vecs' = DOMAIN vecs \union {job.id})
  BY EmbedsIs DEF Materialize
<1>8. Counts'
  BY <1>1, <1>2, <1>7 DEF Counts
<1>9. Tables'
  <2>1. Table(rows', last') /\ Table(lookup', last') /\ Table(backup', last')
    BY <1>1, <1>2, <1>5, OlderTable, PutTable DEF Tables
  <2>2. \A entry \in DOMAIN trash : Table(trash[entry], last')
    BY <1>1, OlderTable DEF Tables
  <2> QED BY <1>2, <2>1, <2>2 DEF Tables
<1>10. JobsAreTyped'
  BY <1>2, <1>3, <1>6 DEF JobsAreTyped, Counts
<1>11. Kept'
  <2>1. DOMAIN rows' = DOMAIN rows \union {last'}
    BY <1>1, <1>2 DEF Put
  <2>2. \A e \in DOMAIN trash \ Importing : e \notin Importing'
    BY <1>3, <1>6 DEF Importing, Tables
  <2> QED BY <1>1, <1>2, <2>1, <2>2, KeptStays
<1>12. SameNames'
  <2>1. slips' = 0 => lookup = rows
    BY <1>7 DEF SameNames
  <2> QED BY <1>1, <1>2, <2>1 DEF SameNames, Put, Tables, Table
<1>13. Embedded'
  <2>1. DOMAIN rows' = DOMAIN rows \union {New}
    BY <1>2 DEF Put
  <2>2. New \in Waiting' /\ Waiting \subseteq Waiting' \union {job.id}
    BY <1>3, <1>4, <1>6 DEF Waiting
  <2> QED BY <1>2, <1>7, <2>1, <2>2 DEF Embedded
<1> QED BY <1>8, <1>9, <1>10, <1>11, <1>12, <1>13

(* They are marked as rows, at the entity that may be gone. *)
LEMMA MarkKeeps == ASSUME GraphInv, NEW job \in jobs, Mark(job) PROVE GraphInv'
<1> USE DEF GraphInv
<1>1. jobs' = jobs \ {job} /\ UNCHANGED <<learnt, trash, backup, last, gone, bare, binned>>
  BY DEF Mark
<1>2. job.next # "import" /\ job.queue = {} /\ job.entry = 0
  BY DEF Mark, JobsAreTyped
<1>3. slips' \in Nat /\ (slips' = 0 => slips = 0 /\ DOMAIN vecs' = DOMAIN vecs \union {job.id})
  BY EmbedsIs DEF Mark
<1>4. Counts' /\ JobsAreTyped'
  BY <1>1, <1>3 DEF Counts, JobsAreTyped
<1>5. Tables' /\ SameNames' /\ DOMAIN rows' = DOMAIN rows
  <2>1. CASE job.entity \in DOMAIN rows
    <3> DEFINE id == job.entity
    <3>1. rows' = [rows EXCEPT ![id].inline = FALSE] /\ lookup' = Put(lookup, id, rows'[id])
      BY <2>1 DEF Mark
    <3>2. /\ rows'[id] \in RowsOf /\ rows'[id].marks = rows[id].marks
          /\ rows'[id].kind = rows[id].kind /\ rows'[id].names = rows[id].names
      <4>1. rows[id] \in RowsOf /\ rows'[id] = [rows[id] EXCEPT !.inline = FALSE]
        BY <2>1, <3>1 DEF Tables, Table
      <4>2. \A row \in RowsOf : LET other == [row EXCEPT !.inline = FALSE]
                IN other \in RowsOf /\ other.marks = row.marks /\ other.kind = row.kind /\ other.names = row.names
        BY DEF RowsOf
      <4> QED BY <4>1, <4>2
    <3>3. id \in 1..last /\ last \in Nat
      BY <2>1 DEF Counts, Tables, Table
    <3>4. DOMAIN rows' = DOMAIN rows /\ \A k \in DOMAIN rows \ {id} : rows'[k] = rows[k]
      BY <3>1
    <3>5. Table(rows', last)
      BY <2>1, <3>1, <3>2, <3>3, <3>4 DEF Tables, Table
    <3>6. Table(lookup', last)
      BY <2>1, <3>1, <3>2, <3>3, PutTable DEF Tables, Table
    <3>7. Tables'
      BY <1>1, <3>5, <3>6 DEF Tables
    <3>8. ASSUME lookup = rows PROVE lookup' = rows'
      <4>1. DOMAIN lookup' = DOMAIN rows' /\ \A k \in DOMAIN lookup' : lookup'[k] = rows'[k]
        BY <2>1, <3>1, <3>4, <3>8 DEF Put
      <4> QED BY <3>5, <3>6, <4>1, SameTable
    <3>9. \A k \in DOMAIN lookup' : (k = id /\ lookup'[k] = rows'[id])
                                     \/ (k \in DOMAIN lookup /\ lookup'[k] = lookup[k])
      BY <3>1 DEF Put
    <3>10. \A k \in DOMAIN lookup' : /\ k \in DOMAIN rows' /\ lookup'[k].kind = rows'[k].kind
                                     /\ lookup'[k].names = rows'[k].names
      BY <2>1, <3>2, <3>4, <3>9 DEF SameNames
    <3> QED BY <1>3, <3>4, <3>7, <3>8, <3>10 DEF SameNames
  <2>2. CASE job.entity \notin DOMAIN rows
    <3>1. rows' = rows /\ lookup' = lookup
      BY <2>2 DEF Mark
    <3> QED BY <1>1, <1>3, <3>1 DEF Tables, SameNames
  <2> QED BY <2>1, <2>2
<1>6. Kept'
  BY <1>1, <1>5, KeptStays DEF Importing
<1>7. Embedded'
  <2>1. Waiting \subseteq Waiting' \union {job.id}
    BY <1>1, <1>2 DEF Waiting
  <2> QED BY <1>1, <1>3, <1>5, <2>1 DEF Embedded
<1> QED BY <1>4, <1>5, <1>6, <1>7

(* exportEntities *)
LEMMA ExportKeeps == ASSUME GraphInv, Export PROVE GraphInv'
<1> USE DEF GraphInv
<1>1. UNCHANGED <<rows, learnt, lookup, vecs, tombs, trash, jobs, last, slips, gone, bare, binned>>
  BY DEF Export
<1>2. PICK n \in Names : backup' = Restrict(rows, About(n))
  BY DEF Export
<1>3. About(n) \subseteq DOMAIN rows
  BY DEF About, Of
<1>4. Tables'
  BY <1>1, <1>2, <1>3, PartTable DEF Tables, Counts
<1> QED BY <1>1, <1>4 DEF Counts, JobsAreTyped, Kept, Importing, SameNames, Embedded, Waiting

(* Rows go into the trash. *)
LEMMA DiscardKeeps ==
    ASSUME GraphInv, NEW out, out \subseteq DOMAIN rows, Discard(out) PROVE GraphInv'
<1> USE DEF GraphInv
<1>1. /\ binned' = binned + 1 /\ binned' \notin DOMAIN trash /\ trash' = Put(trash, binned', Restrict(rows, out))
      /\ rows' = Drop(rows, out) /\ lookup' = Drop(lookup, out)
      /\ UNCHANGED <<learnt, tombs, backup, jobs, last, gone, bare>>
  BY DEF Discard, Tables, Counts
<1>2. (vecs' = Drop(vecs, out) /\ slips' = slips) \/ slips' = slips + 1
  BY DEF Discard
<1>3. Counts' /\ JobsAreTyped'
  BY <1>1, <1>2 DEF Counts, JobsAreTyped, JobsOf
<1>4. /\ DOMAIN trash' = DOMAIN trash \union {binned'} /\ trash'[binned'] = Restrict(rows, out)
      /\ \A e \in DOMAIN trash : trash'[e] = trash[e]
  BY <1>1 DEF Put
<1>5. Tables'
  <2>1. Table(rows', last) /\ Table(lookup', last) /\ Table(Restrict(rows, out), last)
    BY <1>1, DropTable, PartTable DEF Tables, Counts
  <2> QED BY <1>1, <1>4, <2>1 DEF Tables, Counts
<1>6. Kept'
  <2>1. Importing' = Importing /\ binned' \notin Importing
    BY <1>1 DEF Importing, JobsAreTyped, JobsOf, Counts
  <2>2. DOMAIN rows' = DOMAIN rows \ out /\ DOMAIN trash'[binned'] = out
    BY <1>1, <1>4 DEF Drop, Restrict
  <2> QED BY <1>1, <1>4, <2>1, <2>2, KeptStays
<1>7. SameNames'
  BY <1>1, <1>2 DEF SameNames, Drop, Restrict, Counts
<1>8. Embedded'
  <2>1. DOMAIN rows' = DOMAIN rows \ out /\ Waiting' = Waiting
    BY <1>1 DEF Drop, Restrict, Waiting
  <2>2. slips' = 0 => slips = 0 /\ DOMAIN vecs' = DOMAIN vecs \ out
    BY <1>2 DEF Counts, Drop, Restrict
  <2> QED BY <1>1, <2>1, <2>2 DEF Embedded
<1> QED BY <1>3, <1>5, <1>6, <1>7, <1>8

(* importEntities, of a backup (entry 0) or of an entry of the trash. *)
LEMMA InsertKeeps ==
    ASSUME GraphInv, NEW source, NEW entry \in Nat, Table(source, last), Insert(source, entry),
           entry <= binned, entry \in DOMAIN trash => source = trash[entry]
    PROVE  GraphInv'
<1> USE DEF GraphInv
<1> DEFINE free == DOMAIN source \ DOMAIN rows
           entities == {id \in free : source[id].kind = "entity"}
           first == Min(entities)
           job == [Job(first, source[first].text, "import", {}, 0)
                      EXCEPT !.queue = entities \ {first}, !.entry = entry]
<1>1. /\ rows' = Merge(rows, source) /\ lookup' = Merge(Restrict(source, free), lookup)
      /\ bare' = (bare \ entities) \union (free \ entities)
      /\ UNCHANGED <<learnt, vecs, tombs, backup, last, slips, gone, binned>>
  BY Zenon DEF Insert
<1>2. \/ entities = {} /\ trash' = Drop(trash, {entry}) /\ jobs' = jobs
      \/ entities # {} /\ trash' = trash /\ jobs' = jobs \union {job}
  BY Zenon DEF Insert, Waits
<1>3. Counts'
  BY <1>1 DEF Counts
<1>4. Table(rows', last) /\ Table(lookup', last)
  BY <1>1, MergeTable, PartTable DEF Tables, Counts
<1>5. /\ DOMAIN trash' \subseteq DOMAIN trash /\ \A e \in DOMAIN trash' : trash'[e] = trash[e]
      /\ \A e \in DOMAIN trash : e \in DOMAIN trash' \/ e = entry
  BY <1>2 DEF Drop, Restrict
<1>6. Tables'
  BY <1>1, <1>4, <1>5 DEF Tables
<1>7. ASSUME entities # {} PROVE job \in JobsOf /\ job.entry = entry /\ job.next = "import"
                                /\ job.id = first /\ job.queue = entities \ {first} /\ first \in entities
  <2>1. entities \in SUBSET Nat
    BY DEF Table
  <2>2. first \in entities
    BY <1>7, <2>1, MinIsTheLeast
  <2>3. source[first].text \in Nat
    BY <2>2 DEF Table, RowsOf
  <2> QED BY <2>1, <2>2, <2>3 DEF Job, JobsOf
<1>8. JobsAreTyped'
  BY <1>1, <1>2, <1>7 DEF JobsAreTyped
<1>9. DOMAIN rows' = DOMAIN rows \union DOMAIN source
  BY <1>1 DEF Merge
<1>10. Kept'
  <2>1. \A e \in Importing' : e \in Importing \/ e = entry
    BY <1>2, <1>7 DEF Importing
  <2> QED BY <1>1, <1>5, <1>9, <2>1, KeptStays
<1>11. SameNames'
  <2>1. /\ DOMAIN lookup' = free \union DOMAIN lookup
        /\ \A id \in free : lookup'[id] = source[id] /\ rows'[id] = source[id]
        /\ \A id \in DOMAIN rows : rows'[id] = rows[id] /\ (id \in DOMAIN lookup => lookup'[id] = lookup[id])
    BY <1>1 DEF Merge, Restrict
  <2>2. DOMAIN lookup \subseteq DOMAIN rows
    BY DEF SameNames
  <2>3. \A id \in DOMAIN lookup' : /\ id \in DOMAIN rows' /\ lookup'[id].kind = rows'[id].kind
                                   /\ lookup'[id].names = rows'[id].names
    BY <1>9, <2>1, <2>2 DEF SameNames
  <2>4. ASSUME slips = 0 PROVE lookup' = rows'
    <3>1. lookup = rows
      BY <2>4 DEF SameNames
    <3>2. DOMAIN lookup' = DOMAIN rows' /\ \A id \in DOMAIN lookup' : lookup'[id] = rows'[id]
      BY <1>9, <2>1, <3>1
    <3> QED BY <1>4, <3>2, SameTable
  <2> QED BY <1>1, <2>3, <2>4 DEF SameNames
<1>12. Embedded'
  <2>1. Waiting \subseteq Waiting'
    BY <1>2 DEF Waiting
  <2>3. ASSUME entities # {} PROVE entities \subseteq Waiting'
    <3>1. job \in jobs' /\ entities \subseteq {job.id} \union job.queue
      BY <1>2, <1>7, <2>3
    <3> HIDE DEF job
    <3> QED BY <3>1 DEF Waiting
  <2>2. \A id \in DOMAIN rows' \ bare' : id \in DOMAIN rows \ bare \/ id \in entities
    BY <1>1, <1>9
  <2> QED BY <1>1, <2>1, <2>2, <2>3 DEF Embedded
<1> QED BY <1>3, <1>6, <1>8, <1>10, <1>11, <1>12

(* An import goes on, or ends. *)
LEMMA ImportedKeeps == ASSUME GraphInv, NEW job \in jobs, Imported(job) PROVE GraphInv'
<1> USE DEF GraphInv
<1> DEFINE id == Min(job.queue)
           more == [job EXCEPT !.id = id, !.queue = @ \ {id}]
<1>1. UNCHANGED <<rows, learnt, lookup, backup, last, gone, bare, binned>>
  BY DEF Imported
<1>2. \/ job.queue = {} /\ jobs' = jobs \ {job} /\ trash' = Drop(trash, {job.entry})
      \/ job.queue # {} /\ jobs' = (jobs \ {job}) \union {more} /\ trash' = trash
  BY Zenon DEF Imported
<1>3. slips' \in Nat /\ (slips' = 0 => slips = 0 /\ DOMAIN vecs' = DOMAIN vecs \union {job.id})
  BY EmbedsIs DEF Imported
<1>4. job \in JobsOf /\ job.next = "import" /\ job.entry <= binned
  BY DEF Imported, JobsAreTyped
<1>5. ASSUME job.queue # {}
      PROVE  more \in JobsOf /\ more.entry = job.entry /\ more.next = "import"
             /\ job.queue \subseteq {more.id} \union more.queue
  <2>1. id \in job.queue
    BY <1>4, <1>5, MinIsTheLeast DEF JobsOf
  <2>2. id \in Nat
    BY <1>4, <2>1 DEF JobsOf
  <2> QED BY <1>4, <2>1, <2>2 DEF JobsOf
<1>6. Counts' /\ SameNames'
  BY <1>1, <1>3 DEF Counts, SameNames
<1>7. /\ DOMAIN trash' \subseteq DOMAIN trash /\ \A e \in DOMAIN trash' : trash'[e] = trash[e]
      /\ \A e \in DOMAIN trash : e \in DOMAIN trash' \/ e = job.entry
  BY <1>2 DEF Drop, Restrict
<1>8. Tables'
  BY <1>1, <1>7 DEF Tables
<1>9. JobsAreTyped'
  BY <1>1, <1>2, <1>4, <1>5 DEF JobsAreTyped
<1>10. Kept'
  <2>1. Importing' \subseteq Importing /\ job.entry \in Importing
    BY <1>2, <1>5 DEF Importing
  <2> QED BY <1>1, <1>7, <2>1, KeptStays
<1>11. Embedded'
  <2>1. Waiting \subseteq Waiting' \union {job.id}
    BY <1>2, <1>5 DEF Waiting
  <2> QED BY <1>1, <1>3, <2>1 DEF Embedded
<1> QED BY <1>6, <1>8, <1>9, <1>10, <1>11

LEMMA PurgeKeeps == ASSUME GraphInv, Purge PROVE GraphInv'
<1> USE DEF GraphInv
<1>1. UNCHANGED <<rows, learnt, lookup, vecs, tombs, backup, jobs, last, slips, bare, binned>>
  BY DEF Purge
<1>2. PICK entry \in DOMAIN trash : trash' = Drop(trash, {entry}) /\ gone' = gone \union DOMAIN trash[entry]
  BY DEF Purge
<1>3. DOMAIN trash' = DOMAIN trash \ {entry} /\ \A e \in DOMAIN trash' : trash'[e] = trash[e]
  BY <1>2 DEF Drop, Restrict
<1>4. Counts' /\ SameNames' /\ JobsAreTyped' /\ Tables' /\ Importing' = Importing
  BY <1>1, <1>3 DEF Counts, SameNames, JobsAreTyped, Tables, Importing
<1>5. Kept'
  BY <1>1, <1>2, <1>3, <1>4, KeptStays
<1>6. Embedded'
  BY <1>1 DEF Embedded, Waiting
<1> QED BY <1>4, <1>5, <1>6

(* compactExecuteVecOrphans, rebuildGraphLookupIndex, and a crash *)
LEMMA OthersKeep == ASSUME GraphInv, CompactOrphans \/ Rebuild \/ Crash PROVE GraphInv'
<1> USE DEF GraphInv
<1>1. UNCHANGED <<rows, learnt, trash, backup, last, gone, bare, binned>>
      /\ (jobs' = jobs \/ jobs' = {}) /\ (lookup' = lookup \/ lookup' = rows)
      /\ (slips' = slips \/ slips' = slips + 1)
  BY DEF CompactOrphans, Rebuild, Crash
<1>2. Counts' /\ Tables' /\ JobsAreTyped' /\ SameNames'
  BY <1>1 DEF Counts, Tables, JobsAreTyped, SameNames
<1>3. Kept'
  <2>1. Importing' \subseteq Importing
    BY <1>1 DEF Importing
  <2> QED BY <1>1, <2>1, KeptStays
<1>4. Embedded'
  <2>1. slips' = 0 => /\ slips = 0 /\ Waiting' = Waiting
                     /\ DOMAIN vecs \intersect DOMAIN rows \subseteq DOMAIN vecs'
    <3>1. CASE CompactOrphans
      BY <3>1 DEF CompactOrphans, Restrict, Waiting
    <3>2. CASE Rebuild
      BY <3>2 DEF Rebuild, Waiting
    <3>3. CASE Crash
      BY <3>3 DEF Crash, Counts
    <3> QED BY <3>1, <3>2, <3>3
  <2> QED BY <1>1, <2>1 DEF Embedded
<1> QED BY <1>2, <1>3, <1>4

-----------------------------------------------------------------------------
(* Only older rows can be the current one of a name. *)
LEMMA CurrentIsOlder ==
    ASSUME GraphInv, NEW n PROVE Current(rows, lookup, n) \subseteq DOMAIN rows
<1> DEFINE window == Keyed(lookup, "observation", n) \intersect DOMAIN rows
           standing == {id \in window : \A m \in window : id \notin rows[m].marks}
<1>1. window \subseteq DOMAIN rows /\ window \subseteq 1..last /\ last \in Nat
  BY DEF GraphInv, Tables, Table, Counts
<1>2. window # {} => Max(window) \in window
  BY <1>1, MaxIsTheLargest
<1>3. standing # {} => Max(standing) \in standing
  BY <1>1, MaxIsTheLargest
<1> HIDE DEF window
<1>4. standing \subseteq window
  OBVIOUS
<1> HIDE DEF standing
<1>5. Current(rows, lookup, n) = IF standing # {} THEN {Max(standing)}
                                 ELSE IF window # {} THEN {Max(window)} ELSE {}
  BY DEF Current, window, standing
<1> QED BY <1>1, <1>2, <1>3, <1>4, <1>5

LEMMA StepKeeps == GraphInv /\ [GraphNext]_graphVars => GraphInv'
<1> SUFFICES ASSUME GraphInv, [GraphNext]_graphVars PROVE GraphInv'
  OBVIOUS
<1>1. CASE UNCHANGED graphVars
  BY <1>1 DEF graphVars, GraphInv, Counts, Tables, JobsAreTyped, Kept, Importing, SameNames,
              Embedded, Waiting
<1>2. CASE CreateEntity
  <2>1. PICK n \in Names, inline \in BOOLEAN :
            Store(Row("entity", {n}, 1, {}, inline), IF inline THEN "inline" ELSE "done", 0)
    BY <1>2 DEF CreateEntity
  <2>2. /\ Row("entity", {n}, 1, {}, inline) \in RowsOf
        /\ Row("entity", {n}, 1, {}, inline).marks = {}
    BY DEF Row, RowsOf, Kinds
  <2>3. (IF inline THEN "inline" ELSE "done") \in {"done", "inline"}
    OBVIOUS
  <2> QED BY <1>2, <2>1, <2>2, <2>3, StoreKeeps DEF CreateEntity
<1>3. CASE CreateRelation
  <2>1. PICK from \in Names, to \in Names :
            Store(Row("relation", {from, to}, 1, {}, FALSE), "done", 0)
    BY <1>3 DEF CreateRelation
  <2>2. /\ Row("relation", {from, to}, 1, {}, FALSE) \in RowsOf
        /\ Row("relation", {from, to}, 1, {}, FALSE).marks = {}
    BY DEF Row, RowsOf, Kinds
  <2> QED BY <1>3, <2>1, <2>2, StoreKeeps DEF CreateRelation
<1>4. CASE AddObservation
  <2>1. PICK n \in Names : 
          \E marks \in {{}, Current(rows, lookup, n)} \union {{id} : id \in DOMAIN rows} :
             Store(Row("observation", {n}, 1, marks, FALSE), "done", 0)
    BY <1>4 DEF AddObservation
  <2>2. PICK marks \in {{}, Current(rows, lookup, n)} \union {{id} : id \in DOMAIN rows} :
             Store(Row("observation", {n}, 1, marks, FALSE), "done", 0)
    BY <2>1
  <2>3. DOMAIN rows \subseteq 1..last /\ last \in Nat
    BY DEF GraphInv, Tables, Table, Counts
  <2>4. marks \subseteq DOMAIN rows
    BY CurrentIsOlder
  <2>5. marks \in SUBSET Nat /\ \A m \in marks : m < New
    BY <2>3, <2>4 DEF New
  <2>6. /\ Row("observation", {n}, 1, marks, FALSE) \in RowsOf
        /\ Row("observation", {n}, 1, marks, FALSE).marks = marks
    BY <2>5 DEF Row, RowsOf, Kinds
  <2> QED BY <1>4, <2>2, <2>5, <2>6, StoreKeeps DEF AddObservation
<1>5. CASE Learn
  BY <1>5, LearnKeeps
<1>6. CASE DeleteEntity \/ RemoveObservations \/ DeleteObservations
  BY <1>6, DeleteKeeps DEF DeleteEntity, RemoveObservations, DeleteObservations
<1>7. CASE UpdateObservation
  <2>1. PICK id \in Observations : Update(id, rows[id].text + 1)
    BY <1>7 DEF UpdateObservation
  <2>2. id \in DOMAIN rows /\ rows[id].text + 1 \in Nat
    BY DEF Observations, GraphInv, Tables, Table, RowsOf
  <2> QED BY <2>1, <2>2, UpdateKeeps
<1>8. CASE \E job \in jobs : Done(job) \/ Materialize(job) \/ Mark(job) \/ Imported(job)
  BY <1>8, DoneKeeps, MaterializeKeeps, MarkKeeps, ImportedKeeps
<1>9. CASE Export \/ Purge
  BY <1>9, ExportKeeps, PurgeKeeps
<1>10. CASE Import
  <2>1. Insert(backup, 0)
    BY <1>10 DEF Import
  <2>2. Table(backup, last) /\ 0 <= binned /\ 0 \notin DOMAIN trash
    BY DEF GraphInv, Tables, Counts
  <2> QED BY <2>1, <2>2, InsertKeeps
<1>11. CASE Restore
  <2>1. PICK entry \in DOMAIN trash : Insert(trash[entry], entry)
    BY <1>11 DEF Restore
  <2>2. Table(trash[entry], last) /\ entry \in Nat /\ entry <= binned
    BY DEF GraphInv, Tables, Counts
  <2> QED BY <2>1, <2>2, InsertKeeps
<1>12. CASE Retire
  <2>1. PICK n \in Names : Discard(About(n))
    BY <1>12 DEF Retire
  <2>2. About(n) \subseteq DOMAIN rows
    BY DEF About, Of
  <2> QED BY <2>1, <2>2, DiscardKeeps
<1>13. CASE CompactSuperseded
  <2>1. Superseded \subseteq DOMAIN rows
    BY DEF Superseded, Marked, Observations
  <2> QED BY <1>13, <2>1, DiscardKeeps DEF CompactSuperseded
<1>14. CASE CompactOrphans \/ Rebuild \/ Crash
  BY <1>14, OthersKeep
<1> QED BY <1>1, <1>2, <1>3, <1>4, <1>5, <1>6, <1>7, <1>8, <1>9, <1>10, <1>11, <1>12, <1>13, <1>14
        DEF GraphNext, DataRoute, CompactMemory

LEMMA InvIsSound == GraphInv => GraphIsSound
<1> SUFFICES ASSUME GraphInv PROVE GraphIsSound
  OBVIOUS
<1>1. KeysFollowRows
  BY DEF GraphInv, SameNames, KeysFollowRows
<1>2. NothingIsLost
  BY DEF GraphInv, Kept, NothingIsLost
<1>3. RowsAreEmbedded
  BY DEF GraphInv, Embedded, Waiting, RowsAreEmbedded
<1> QED BY <1>1, <1>2, <1>3 DEF GraphIsSound

(* Keys lead to rows, no row is lost, and every row has a vector or waits for *)
(* one: whatever calls, restores, failures and crashes come between.           *)
THEOREM GraphStaysSound == GraphSpec => []GraphIsSound
<1>1. GraphInit => GraphInv
  BY InitialState
<1>2. GraphInv /\ [GraphNext]_graphVars => GraphInv'
  BY StepKeeps
<1>3. GraphInv => GraphIsSound
  BY InvIsSound
<1> QED BY <1>1, <1>2, <1>3, PTL DEF GraphSpec

-----------------------------------------------------------------------------
(* What is indexed under a name, and its newest row: no row of the name can   *)
(* supersede it, for a row marks older ones only.                             *)
Window(all, keys, n) == Keyed(keys, "observation", n) \intersect DOMAIN all

LEMMA CurrentIsNewest ==
    ASSUME NEW all, NEW keys, NEW k \in Nat, Table(all, k), NEW n
    PROVE  /\ Window(all, keys, n) = {} => Current(all, keys, n) = {}
           /\ \A x \in Window(all, keys, n) :
                 (\A y \in Window(all, keys, n) : y <= x) => Current(all, keys, n) = {x}
           /\ Window(all, keys, n) # {} =>
                 \E x \in Window(all, keys, n) : \A y \in Window(all, keys, n) : y <= x
<1> DEFINE window == Window(all, keys, n)
           standing == {id \in window : \A m \in window : id \notin all[m].marks}
<1>1. window \subseteq 1..k /\ window \subseteq DOMAIN all
  BY DEF Window, Table
<1>2. Current(all, keys, n) = IF standing # {} THEN {Max(standing)}
                              ELSE IF window # {} THEN {Max(window)} ELSE {}
  BY DEF Current, Window
<1>3. standing \subseteq window
  OBVIOUS
<1>4. ASSUME NEW x \in window, \A y \in window : y <= x PROVE Current(all, keys, n) = {x}
  <2>1. \A m \in window : x \notin all[m].marks
    BY <1>1, <1>4 DEF Table
  <2>2. x \in standing
    BY <2>1
  <2> HIDE DEF standing, window
  <2>3. Max(standing) \in standing /\ \A y \in standing : y <= Max(standing)
    BY <1>1, <1>3, <2>2, MaxIsTheLargest
  <2>4. Max(standing) = x
    <3>1. Max(standing) \in 1..k /\ x \in 1..k
      BY <1>1, <1>3, <1>4, <2>3
    <3>2. Max(standing) <= x /\ x <= Max(standing)
      BY <1>3, <1>4, <2>2, <2>3
    <3> HIDE <1>4, <2>3
    <3> QED BY <3>1, <3>2
  <2> QED BY <1>2, <2>2, <2>4
<1>5. window = {} => Current(all, keys, n) = {}
  BY <1>2, <1>3
<1>6. window # {} => \E x \in window : \A y \in window : y <= x
  BY <1>1, MaxIsTheLargest
<1> QED BY <1>4, <1>5, <1>6

(* A row that leaves is deleted for good, or is in the trash as it was. *)
LEMMA RowsGoWhereTheyMay ==
    ASSUME GraphInv, GraphNext, NEW id \in DOMAIN rows \ DOMAIN rows'
    PROVE  \/ id \in gone'
           \/ \E entry \in DOMAIN trash' : id \in DOMAIN trash'[entry] /\ trash'[entry][id] = rows[id]
<1>1. ASSUME NEW out, Delete(out) PROVE id \in gone'
  BY <1>1 DEF Delete, Drop, Restrict
<1>2. ASSUME NEW out, out \subseteq DOMAIN rows, Discard(out)
      PROVE  binned' \in DOMAIN trash' /\ id \in DOMAIN trash'[binned'] /\ trash'[binned'][id] = rows[id]
  <2>1. rows' = Drop(rows, out) /\ trash' = Put(trash, binned', Restrict(rows, out))
    BY <1>2 DEF Discard
  <2>2. id \in out
    BY <2>1 DEF Drop, Restrict
  <2> QED BY <2>1, <2>2 DEF Put, Restrict
<1>3. ASSUME NEW row, NEW next, NEW entity, Store(row, next, entity) PROVE FALSE
  BY <1>3 DEF Store, Put
<1>4. ASSUME NEW source, NEW entry, Insert(source, entry) PROVE FALSE
  <2>1. rows' = Merge(rows, source)
    BY <1>4, Zenon DEF Insert
  <2> QED BY <2>1 DEF Merge
<1>5. ASSUME NEW job, Done(job) \/ Materialize(job) \/ Mark(job) \/ Imported(job) PROVE FALSE
  BY <1>5 DEF Done, Materialize, Mark, Imported, Put
<1>6. ASSUME CreateEntity \/ CreateRelation \/ AddObservation PROVE FALSE
  BY <1>3, <1>6 DEF CreateEntity, CreateRelation, AddObservation
<1>7. ASSUME Learn \/ UpdateObservation \/ Export \/ Purge \/ CompactOrphans \/ Rebuild \/ Crash PROVE FALSE
  BY <1>7 DEF Learn, UpdateObservation, Update, Export, Purge, CompactOrphans, Rebuild, Crash
<1>8. Import \/ Restore => FALSE
  BY <1>4 DEF Import, Restore
<1>9. DeleteEntity \/ RemoveObservations \/ DeleteObservations => id \in gone'
  BY <1>1 DEF DeleteEntity, RemoveObservations, DeleteObservations
<1>10. (\A n : About(n) \subseteq DOMAIN rows) /\ Superseded \subseteq DOMAIN rows
  BY DEF About, Of, Superseded, Marked, Observations
<1> QED BY <1>2, <1>5, <1>6, <1>7, <1>8, <1>9, <1>10
        DEF GraphNext, DataRoute, CompactMemory, Retire, CompactSuperseded

(* The compaction of what is superseded leaves each name its current observation. *)
LEMMA CurrentStays ==
    ASSUME GraphInv, GraphInv', CompactSuperseded, NEW n \in Names
    PROVE  Current(rows', lookup', n) = Current(rows, lookup, n)
<1> DEFINE window == Window(rows, lookup, n)
           other == Window(rows', lookup', n)
<1>1. /\ rows' = Drop(rows, Superseded) /\ lookup' = Drop(lookup, Superseded)
  BY DEF CompactSuperseded, Discard
<1>2. last \in Nat /\ Table(rows, last) /\ last' \in Nat /\ Table(rows', last')
  BY DEF GraphInv, Counts, Tables
<1>3. other = window \ Superseded
  BY <1>1 DEF Window, Keyed, Drop, Restrict
<1>4. CASE window = {}
  BY <1>2, <1>3, <1>4, CurrentIsNewest
<1>5. CASE window # {}
  <2>1. PICK x \in window : \A y \in window : y <= x
    BY <1>2, <1>5, CurrentIsNewest
  <2>2. Current(rows, lookup, n) = {x}
    BY <1>2, <2>1, CurrentIsNewest
  <2>3. n \in rows[x].names
    BY DEF Window, Keyed, GraphInv, SameNames
  <2>4. x \notin Superseded
    BY <2>2, <2>3 DEF Superseded
  <2>5. x \in other /\ \A y \in other : y <= x
    BY <1>3, <2>1, <2>4
  <2> HIDE DEF other
  <2>6. Current(rows', lookup', n) = {x}
    BY <1>2, <2>5, CurrentIsNewest DEF other
  <2> QED BY <2>2, <2>6
<1> QED BY <1>4, <1>5

LEMMA StepIsSound == GraphInv /\ GraphInv' /\ GraphNext => GraphStep
BY RowsGoWhereTheyMay, CurrentStays DEF GraphStep

(* No row leaves but for good, by a call that says so, or into the trash as it  *)
(* is; and a compaction leaves every name its current observation.              *)
THEOREM GraphStepsAreSound == GraphSpec => [][GraphStep]_graphVars
<1>1. GraphInit => GraphInv
  BY InitialState
<1>2. GraphInv /\ [GraphNext]_graphVars => GraphInv'
  BY StepKeeps
<1>3. GraphInv /\ GraphInv' /\ [GraphNext]_graphVars => [GraphStep]_graphVars
  BY StepIsSound
<1> QED BY <1>1, <1>2, <1>3, PTL DEF GraphSpec
===============================================================================
