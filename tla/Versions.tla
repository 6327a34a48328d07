------------------------------ MODULE Versions ------------------------------
(***************************************************************************)
(* Facts and loops: the changes a checkpoint asserts, the in-place rows    *)
(* that keep the last writer's value, and the ledger tuple with its        *)
(* coverage and version that each change leaves on its snapshot            *)
(* (checkpoint.ts: applyFactChanges, applyLoopChanges; versions.ts).       *)
(*                                                                         *)
(* One item stands for one factId or loopId.  Value abstracts every field  *)
(* a change asserts except a loop's owner, which a change may omit and     *)
(* then inherits.  Facts carry no owner.  The two change lists of a        *)
(* request are merged into one sequence: ordinals are only ever compared   *)
(* between changes of the same id, hence of the same list.                 *)
(***************************************************************************)
EXTENDS Heads, FiniteSetsExt

CONSTANTS
    Facts,      \* fact ids the scope can come to know
    Loops,      \* loop ids
    Values,     \* what a change can assert
    Agents      \* canonical agents, as authors and loop owners

VARIABLE rows   \* eng4_facts and eng4_open_loops: the in-place values

Items   == Facts \cup Loops
NoOwner == "no owner"
NoValue == "no value"
NoRow   == [value |-> NoValue, owner |-> NoOwner]

Row == [value : Values \cup {NoValue}, owner : Agents \cup {NoOwner}]

(* new: the request names no id and the server draws a fresh one. *)
Change == [id : Items, new : BOOLEAN, value : Values,
           owner : Agents \cup {NoOwner}]

(* A ledger tuple with what coverage and version rows say of it; opaque is *)
(* disposition 'unversioned'.                                              *)
Entry == [id : Items, value : Values, owner : Agents \cup {NoOwner},
          opaque : BOOLEAN]

Exists(id) == rows[id] # NoRow

(* A named id must be known in the scope, a fresh one is fresh. *)
ValidChanges(changes) ==
    \A i \in DOMAIN changes :
        /\ changes[i].new <=> ~Exists(changes[i].id)
        /\ changes[i].new => \A j \in DOMAIN changes \ {i} :
                                changes[j].id # changes[i].id

(* Ordinals up to i whose change names the item of change i and an owner. *)
OwnerNamedAt(changes, i) ==
    {j \in 1 .. i : /\ changes[j].id = changes[i].id
                    /\ changes[j].owner # NoOwner}

(* The owner in effect at change i, inherited when no change up to it      *)
(* names one.                                                              *)
OwnerInEffect(changes, i, author, inherited) ==
    CASE changes[i].id \in Facts            -> NoOwner
      [] /\ changes[i].id \notin Facts
         /\ OwnerNamedAt(changes, i) # {}   ->
            changes[Max(OwnerNamedAt(changes, i))].owner
      [] OTHER -> IF changes[i].new THEN author ELSE inherited

(* Mutant of WrittenEntries: an omitted owner is the author's. *)
EntriesOwnedByAuthor(changes, author) ==
    [i \in DOMAIN changes |->
        [id     |-> changes[i].id, value |-> changes[i].value,
         owner  |-> OwnerInEffect(changes, i, author, author),
         opaque |-> FALSE]]

(* applyFactChanges / applyLoopChanges, fed to the version dual write: the *)
(* writer knows the exact value, so nothing it writes is opaque.           *)
WrittenEntries(changes, author) ==
    [i \in DOMAIN changes |->
        [id     |-> changes[i].id,
         value  |-> changes[i].value,
         owner  |-> OwnerInEffect(changes, i, author,
                                  rows[changes[i].id].owner),
         opaque |-> FALSE]]

(* Mutant of RowsAfter: the update forgets the owner column. *)
RowsKeepOwner(changes, author) ==
    [id \in Items |->
        LET named == {i \in DOMAIN changes : changes[i].id = id}
            last  == WrittenEntries(changes, author)[Max(named)]
        IN  IF named = {} THEN rows[id]
            ELSE [value |-> last.value,
                  owner |-> IF Exists(id) THEN rows[id].owner ELSE last.owner]]

(* The in-place rows after the changes, applied in order. *)
RowsAfter(changes, author) ==
    [id \in Items |->
        LET named == {i \in DOMAIN changes : changes[i].id = id}
            last  == WrittenEntries(changes, author)[Max(named)]
        IN  IF named = {} THEN rows[id]
                          ELSE [value |-> last.value, owner |-> last.owner]]
-----------------------------------------------------------------------------
OrdinalsNaming(s, id) ==
    {i \in DOMAIN snapshots[s].ledger : snapshots[s].ledger[i].id = id}

StatesNaming(id) == {s \in States : OrdinalsNaming(s, id) # {}}

(* Within one snapshot the higher ordinal is newer. *)
NewestIn(s, id) == snapshots[s].ledger[Max(OrdinalsNaming(s, id))]

(* predecessorOwner: the owner of the newest tuple below revision s, on    *)
(* any lineage, when it is known.                                          *)
PredecessorOwner(id, s) ==
    LET prior == {t \in StatesNaming(id) : t < s}
    IN  IF prior = {} THEN NoOwner
        ELSE IF NewestIn(Max(prior), id).opaque THEN NoOwner
        ELSE NewestIn(Max(prior), id).owner

(* backfillVersionFoundation's expectation for a snapshot an older binary  *)
(* wrote at revision s: an inherited owner it cannot prove is opaque.      *)
BackfilledEntries(changes, author, s) ==
    [i \in DOMAIN changes |->
        LET owner == OwnerInEffect(changes, i, author,
                                   PredecessorOwner(changes[i].id, s))
        IN  [id     |-> changes[i].id,
             value  |-> changes[i].value,
             owner  |-> owner,
             opaque |-> changes[i].id \in Loops /\ owner = NoOwner]]

(* verifyVersionParity: recomputed from payload and ledger, every tuple is *)
(* the expected one; an owner the verifier cannot derive is accepted as    *)
(* recorded only when the writer, not a backfill, recorded it.             *)
VersionParity(s) ==
    LET snap     == snapshots[s]
        expected == BackfilledEntries(snap.request.changes,
                                      snap.request.agent, s)
    IN  /\ DOMAIN snap.ledger = DOMAIN expected
        /\ \A i \in DOMAIN expected :
              IF expected[i].opaque /\ snap.source = "write"
              THEN /\ snap.ledger[i].id = expected[i].id
                   /\ snap.ledger[i].value = expected[i].value
                   /\ ~snap.ledger[i].opaque
              ELSE snap.ledger[i] = expected[i]
=============================================================================
