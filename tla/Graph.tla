-------------------------------- MODULE Graph --------------------------------
(***************************************************************************)
(* The memories of one tenant: the rows of shared_memory, the lookup keys  *)
(* and the vectors derived from them, the trash, and the jobs that wait    *)
(* for an embedding while other calls go on.                               *)
(*                                                                         *)
(* A handler runs up to its first await of an embedding in one turn, and   *)
(* each embedding ends in a turn of its own, in any order.  Deleting a     *)
(* vector is synchronous behind its await, so a loop of deletions is one   *)
(* turn too.  What a row says is a version number; rows are numbered in the *)
(* order of their creation, which their created_at and rowid keep.         *)
(***************************************************************************)
EXTENDS Integers, FiniteSets, FiniteSetsExt, Functions

CONSTANTS
    Names,      \* entities the rows are about
    MaxText,    \* a row says version 1, 2 ... of its text
    MaxRows, MaxTrash,
    MaxJobs,    \* calls that wait at once; a failure leaves room for one less
    MaxSlips    \* failures of a call on the database, and crashes

VARIABLES
    rows,       \* shared_memory: id -> [kind, names, text, marks, inline]
    learnt,     \* ids in individual_memory
    lookup,     \* graph_lookup_keys: id -> the row as it was indexed
    vecs,       \* neural_vec_index: id -> the text that was embedded
    tombs,      \* failed_weaviate_deletes: ids
    trash,      \* data_trash: entry -> the rows in it
    backup,     \* the export some client kept: rows
    jobs,       \* calls that wait for an embedding
    last,       \* the last id of a memory
    binned,     \* the last entry of the trash
    slips,
    gone,       \* history: ids deleted for good, by a call that says so
    bare        \* history: ids that came back without an embedding

graphVars == <<rows, learnt, lookup, vecs, tombs, trash, backup, jobs, last, binned, slips, gone, bare>>
Nothing == [id \in {} |-> 0]
Ids == 1..MaxRows
New == last + 1

Drop(f, out) == Restrict(f, DOMAIN f \ out)
Put(f, id, x) == [k \in DOMAIN f \union {id} |-> IF k = id THEN x ELSE f[k]]
Merge(f, g) == [k \in DOMAIN f \union DOMAIN g |-> IF k \in DOMAIN f THEN f[k] ELSE g[k]]
Row(kind, names, text, marks, inline) ==
    [kind |-> kind, names |-> names, text |-> text, marks |-> marks, inline |-> inline]

(* a call that waits: what it embeds, what it does next, and for whom *)
Job(id, text, next, names, entity) ==
    [id |-> id, text |-> text, next |-> next, names |-> names, entity |-> entity,
     queue |-> {}, entry |-> 0]

Waits(call) == Cardinality(jobs \union call) + slips <= MaxJobs /\ jobs' = jobs \union call

GraphInit ==
    /\ rows = Nothing /\ learnt = {} /\ lookup = Nothing /\ vecs = Nothing
    /\ tombs = {} /\ trash = Nothing /\ backup = Nothing
    /\ jobs = {} /\ last = 0 /\ binned = 0 /\ slips = 0
    /\ gone = {} /\ bare = {}

Of(kind, n) == {id \in DOMAIN rows : rows[id].kind = kind /\ n \in rows[id].names}
About(n) == UNION {Of(kind, n) : kind \in {"entity", "observation", "relation"}}

Observations == {id \in DOMAIN rows : rows[id].kind = "observation"}

----------------------------------------------------------------------------
(* The rows and their derived data *)

(* refreshGraphLookupIndexForMemory: a failure is only logged, and leaves what was there *)
Indexed(id, row) ==
    \/ lookup' = Put(lookup, id, row) /\ UNCHANGED slips
    \/ slips < MaxSlips /\ slips' = slips + 1 /\ UNCHANGED lookup

(* store, up to the embedding *)
Store(row, next, entity) ==
    /\ New \in Ids
    /\ last' = New
    /\ rows' = Put(rows, New, row)
    /\ Indexed(New, row)
    /\ Waits({Job(New, row.text, next, row.names, entity)})

CreateEntity ==
    /\ \E n \in Names, inline \in BOOLEAN :
          Store(Row("entity", {n}, 1, {}, inline), IF inline THEN "inline" ELSE "done", 0)
    /\ UNCHANGED <<learnt, vecs, tombs, trash, backup, gone, bare, binned>>

CreateRelation ==
    /\ \E from, to \in Names :
          Store(Row("relation", {from, to}, 1, {}, FALSE), "done", 0)
    /\ UNCHANGED <<learnt, vecs, tombs, trash, backup, gone, bare, binned>>

(* graphLookupEntriesForContent: a row is found under each name it is about *)
Keyed(keys, kind, n) == {id \in DOMAIN keys : keys[id].kind = kind /\ n \in keys[id].names}

(* getCurrentObservation: the newest row indexed under the name that no row of *)
(* the name supersedes, or the newest                                          *)
Current(all, keys, n) ==
    LET window == Keyed(keys, "observation", n) \intersect DOMAIN all
        standing == {id \in window : \A m \in window : id \notin all[m].marks}
    IN IF standing # {} THEN {Max(standing)}
       ELSE IF window # {} THEN {Max(window)} ELSE {}

(* add_observations: plain, of an id the caller names, or replace-current *)
AddObservation ==
    /\ \E n \in Names :
       \E marks \in {{}, Current(rows, lookup, n)} \union {{id} : id \in DOMAIN rows} :
          Store(Row("observation", {n}, 1, marks, FALSE), "done", 0)
    /\ UNCHANGED <<learnt, vecs, tombs, trash, backup, gone, bare, binned>>

(* record_learning, update_preferences: rows of individual_memory are embedded too *)
Learn ==
    /\ New \in Ids
    /\ last' = New /\ learnt' = learnt \union {New}
    /\ Waits({Job(New, 1, "done", {}, 0)})
    /\ UNCHANGED <<rows, lookup, vecs, tombs, trash, backup, slips, gone, bare, binned>>

(* A vector could not be deleted: it is noted, and retryFailedVectorDeletes tries *)
(* again what is noted.                                                           *)
Tombstone(ids, index) ==
    /\ slips < MaxSlips /\ slips' = slips + 1
    /\ \/ tombs' = tombs \union ids /\ vecs' = index
       \/ tombs' = {} /\ vecs' = Drop(index, tombs \union ids)

(* deleteGraphRows *)
Delete(out) ==
    /\ rows' = Drop(rows, out) /\ lookup' = Drop(lookup, out)
    /\ gone' = gone \union out
    /\ \/ vecs' = Drop(vecs, out) /\ UNCHANGED <<tombs, slips>>
       \/ \E failed \in out \intersect DOMAIN vecs :
             Tombstone({failed}, Drop(vecs, out \ {failed}))
    /\ UNCHANGED <<learnt, trash, backup, jobs, last, bare, binned>>

DeleteEntity == \E n \in Names : Of("entity", n) # {} /\ Delete(About(n))

(* of an entity, those named by their ids or found by a text in them *)
RemoveObservations ==
    \E n \in Names, out \in SUBSET Observations :
        out # {} /\ out \subseteq Of("observation", n) /\ Delete(out)

DeleteObservations ==
    \E n \in Names : Of("observation", n) # {} /\ Delete(Of("observation", n))

(* updateObservationContent: the vector is deleted, and stored again *)
Update(id, text) ==
    /\ rows' = [rows EXCEPT ![id].text = text]
    /\ \/ /\ Indexed(id, rows'[id])
          /\ vecs' = Drop(vecs, {id}) /\ UNCHANGED tombs
          /\ Waits({Job(id, text, "update", {}, 0)})
       \/ /\ lookup' = Put(lookup, id, rows'[id])
          /\ Tombstone({id}, vecs) /\ UNCHANGED jobs
    /\ bare' = bare \ {id}
    /\ UNCHANGED <<learnt, trash, backup, last, gone, binned>>

UpdateObservation ==
    \E id \in Observations : rows[id].text < MaxText /\ Update(id, rows[id].text + 1)

----------------------------------------------------------------------------
(* The end of an embedding *)

(* a mutant of Upserted: the reinsertion of an update comes before its deletion *)
DeletedLast(job) == IF job.next = "update" THEN Drop(vecs, {job.id}) ELSE Put(vecs, job.id, job.text)

(* storeMemory after its await: it does not look whether the row is still there *)
Upserted(job) == Put(vecs, job.id, job.text)

Embeds(job) ==
    \/ vecs' = Upserted(job) /\ UNCHANGED <<tombs, slips>>
    \/ /\ slips < MaxSlips /\ job.next # "update"
       /\ slips' = slips + 1 /\ UNCHANGED <<vecs, tombs>>
    \/ job.next = "update" /\ Tombstone({job.id}, vecs)

Done(job) ==
    /\ job.next \in {"done", "update"}
    /\ Embeds(job)
    /\ jobs' = jobs \ {job}
    /\ UNCHANGED <<rows, learnt, lookup, trash, backup, last, gone, bare, binned>>

(* materializeInlineObservations, of one observation: the entity may be gone by now *)
Materialize(job) ==
    /\ job.next = "inline" /\ New \in Ids
    /\ LET row == Row("observation", job.names, job.text, {}, FALSE)
       IN /\ last' = New /\ rows' = Put(rows, New, row) /\ lookup' = Put(lookup, New, row)
          /\ jobs' = (jobs \ {job}) \union {Job(New, row.text, "mark", row.names, job.id)}
    /\ Embeds(job)
    /\ UNCHANGED <<learnt, trash, backup, gone, bare, binned>>

(* markEntityInlineObservationsMaterialized *)
Mark(job) ==
    /\ job.next = "mark"
    /\ IF job.entity \in DOMAIN rows
       THEN /\ rows' = [rows EXCEPT ![job.entity].inline = FALSE]
            /\ lookup' = Put(lookup, job.entity, rows'[job.entity])
       ELSE UNCHANGED <<rows, lookup>>
    /\ Embeds(job)
    /\ jobs' = jobs \ {job}
    /\ UNCHANGED <<learnt, trash, backup, last, gone, bare, binned>>

----------------------------------------------------------------------------
(* Trash, exports and imports *)

(* exportEntities *)
Export ==
    /\ \E n \in Names : Of("entity", n) # {} /\ backup' = Restrict(rows, About(n))
    /\ UNCHANGED <<rows, learnt, lookup, vecs, tombs, trash, jobs, last, slips, gone, bare, binned>>

(* One transaction puts the rows into the trash and deletes them; the vectors *)
(* follow, and one that cannot be deleted stays.                              *)
Discard(out) ==
    /\ binned < MaxTrash /\ binned' = binned + 1
    /\ trash' = Put(trash, binned', Restrict(rows, out))
    /\ rows' = Drop(rows, out) /\ lookup' = Drop(lookup, out)
    /\ \/ vecs' = Drop(vecs, out) /\ UNCHANGED slips
       \/ /\ slips < MaxSlips /\ slips' = slips + 1
          /\ \E id \in out \intersect DOMAIN vecs : vecs' = Drop(vecs, out \ {id})
    /\ UNCHANGED <<learnt, tombs, backup, jobs, last, gone, bare>>

(* retireEntitiesToTrash *)
Retire == \E n \in Names : Of("entity", n) # {} /\ Discard(About(n))

(* importEntities: INSERT OR IGNORE in one transaction, of rows whose id is free; *)
(* then the entities among them are embedded, one after the other.                *)
Insert(source, entry) ==
    LET free == DOMAIN source \ DOMAIN rows
        entities == {id \in free : source[id].kind = "entity"}
        first == Min(entities)
    IN /\ rows' = Merge(rows, source)
       /\ lookup' = Merge(Restrict(source, free), lookup)
       /\ bare' = (bare \ entities) \union (free \ entities)
       /\ IF entities = {}
          THEN trash' = Drop(trash, {entry}) /\ UNCHANGED jobs
          ELSE /\ Waits({[Job(first, source[first].text, "import", {}, 0)
                             EXCEPT !.queue = entities \ {first}, !.entry = entry]})
               /\ UNCHANGED trash
       /\ UNCHANGED <<learnt, vecs, tombs, backup, last, slips, gone, binned>>

Import == backup # Nothing /\ Insert(backup, 0)

(* restoreFromTrash *)
Restore == \E entry \in DOMAIN trash : Insert(trash[entry], entry)

(* the next entity of an import, or its end, where a restored entry is dropped *)
Imported(job) ==
    /\ job.next = "import"
    /\ Embeds(job)
    /\ IF job.queue = {}
       THEN jobs' = jobs \ {job} /\ trash' = Drop(trash, {job.entry})
       ELSE LET id == Min(job.queue)
            IN /\ jobs' = (jobs \ {job}) \union
                              {[job EXCEPT !.id = id, !.queue = @ \ {id}]}
               /\ UNCHANGED trash
    /\ UNCHANGED <<rows, learnt, lookup, backup, last, gone, bare, binned>>

Purge ==
    /\ \E entry \in DOMAIN trash :
          trash' = Drop(trash, {entry}) /\ gone' = gone \union DOMAIN trash[entry]
    /\ UNCHANGED <<rows, learnt, lookup, vecs, tombs, backup, jobs, last, slips, bare, binned>>

DataRoute == Export \/ Import \/ Retire \/ Restore \/ Purge

----------------------------------------------------------------------------
(* compact_memory, with the rights to execute *)

Marked == {id \in Observations : \E m \in Observations : m >= id /\ id \in rows[m].marks}

(* a mutant of Superseded: what is marked goes *)
SupersededUnguarded == Marked

(* compactAnalyzeSuperseded: what is marked and not the current of its name *)
Superseded ==
    Marked \ UNION {Current(rows, lookup, n) : n \in UNION {rows[id].names : id \in Marked}}

CompactSuperseded == Superseded # {} /\ Discard(Superseded)

(* compactExecuteVecOrphans: what is in shared_memory stays *)
CompactOrphans ==
    /\ vecs' = Restrict(vecs, DOMAIN vecs \intersect DOMAIN rows)
    /\ UNCHANGED <<rows, learnt, lookup, tombs, trash, backup, jobs, last, slips, gone, bare, binned>>

CompactMemory == CompactSuperseded \/ CompactOrphans

(* rebuildGraphLookupIndex *)
Rebuild ==
    /\ lookup' = rows
    /\ UNCHANGED <<rows, learnt, vecs, tombs, trash, backup, jobs, last, slips, gone, bare, binned>>

(* The process dies, and starts: an empty index is filled, tombstones are drained. *)
Crash ==
    /\ slips < MaxSlips /\ slips' = slips + 1
    /\ jobs' = {}
    /\ lookup' = IF lookup = Nothing THEN rows ELSE lookup
    /\ vecs' = Drop(vecs, tombs) /\ tombs' = {}
    /\ UNCHANGED <<rows, learnt, trash, backup, last, gone, bare, binned>>

GraphNext ==
    \/ CreateEntity \/ CreateRelation \/ AddObservation \/ Learn
    \/ DeleteEntity \/ RemoveObservations \/ DeleteObservations \/ UpdateObservation
    \/ \E job \in jobs : Done(job) \/ Materialize(job) \/ Mark(job) \/ Imported(job)
    \/ DataRoute \/ CompactMemory \/ Rebuild \/ Crash

GraphSpec == GraphInit /\ [][GraphNext]_graphVars

----------------------------------------------------------------------------
(* A key leads to a row that is there, and to every row, as it is now, unless *)
(* a refresh of the index failed.                                             *)
KeysFollowRows ==
    /\ DOMAIN lookup \subseteq DOMAIN rows
    /\ slips = 0 => lookup = rows

(* A row a client was told of is there, or in the trash, unless a call that    *)
(* says so deleted it: whatever retires, restores, imports, compactions and    *)
(* crashes came between.                                                       *)
NothingIsLost ==
    \A id \in 1..last : \/ id \in DOMAIN rows \union learnt \union gone
                        \/ \E entry \in DOMAIN trash : id \in DOMAIN trash[entry]

(* Every row has a vector or waits for one, but for observations and relations *)
(* that came back from a backup or the trash, unless a call failed.            *)
RowsAreEmbedded ==
    slips = 0 => DOMAIN rows \ bare \subseteq
                     DOMAIN vecs \union UNION {{job.id} \union job.queue : job \in jobs}

GraphIsSound == KeysFollowRows /\ NothingIsLost /\ RowsAreEmbedded

(* A row leaves only for good, by a call that says so, or into the trash as it *)
(* is; and a compaction leaves every name its current observation.             *)
GraphStep ==
    /\ \A id \in DOMAIN rows \ DOMAIN rows' : \/ id \in gone'
           \/ \E entry \in DOMAIN trash' : id \in DOMAIN trash'[entry] /\ trash'[entry][id] = rows[id]
    /\ CompactSuperseded => \A n \in Names : Current(rows', lookup', n) = Current(rows, lookup, n)

(* The compaction of orphans takes vectors whose memory no longer exists. *)
OnlyOrphansGo ==
    CompactOrphans => \A id \in DOMAIN vecs \ DOMAIN vecs' : id \notin DOMAIN rows \union learnt
=============================================================================
