------------------------------ MODULE Residue ------------------------------
(***************************************************************************)
(* Migration 007 as a function of the database.  An early release kept the *)
(* long bodies of private messages as shared entities "msg-detail-<id>"    *)
(* and left a pointer in the mailbox.  analyzePrivateMessageResidue finds  *)
(* what is left of that, or an issue for every row it cannot account for;  *)
(* applyAnalysis puts the bodies back and deletes the shared copies.       *)
(*                                                                         *)
(* A database is a record                                                  *)
(*   messages   rows of ai_messages                                        *)
(*   shared     rows of shared_memory                                      *)
(*   index      rows of neural_vec_index, each with the copy of the shared *)
(*              row it was made from and the rowid of its vector (or none) *)
(*   vectors    rowids of shared_memory_vec                                *)
(*   lookups    keys (tenant, id) with rows in the three lookup tables     *)
(* A name is a key and a spelling: two names with one key are variants of  *)
(* each other (case, punctuation, company suffix).  The key of a reserved  *)
(* name "msg-detail-<id>" is the message's id.                             *)
(***************************************************************************)
EXTENDS Integers, FiniteSets

CONSTANT MessageIds   \* the identifiers a reserved name may carry

NoId == 0
NoName == [key |-> 0, exact |-> FALSE]
NoBody == "none"
NoReason == "none"
NoSlot == 0
NoTenant == 0

Key(r) == <<r.tenant, r.id>>

----------------------------------------------------------------------------
(* Contents of a message *)

Text(b) == [shape |-> "text", name |-> NoName, body |-> b]
Pointer(n) == [shape |-> "pointer", name |-> n, body |-> NoBody]
Malformed == [shape |-> "malformed", name |-> NoName, body |-> NoBody]

(* POINTER_PREFIX: what the migration takes for a pointer *)
Points(m) == m.content.shape # "text"

----------------------------------------------------------------------------
(* Entities and their directory *)

Reserved(n) == n.key \in MessageIds
ReservedAmong(names) == \E n \in names : Reserved(n)

(* messageDetailDiscriminator, or a reserved name of an entity *)
IsDetail(r) ==
    \/ r.type = "message_detail"
    \/ r.parses /\ r.marked
    \/ r.type = "entity" /\ r.parses /\ ReservedAmong(r.names)

Details(db) == {r \in db.shared : IsDetail(r)}
PrivateAmong(entities) == \E e \in entities : IsDetail(e)

(* buildEntityDirectory: rows that parse and have a name or an alias *)
Directory(db) ==
    {r \in db.shared : /\ r.type \in {"entity", "message_detail"} \/ IsDetail(r)
                       /\ r.parses /\ r.names # {}}

LookupId(db, t, x) == {e \in Directory(db) : x # NoId /\ e.tenant = t /\ e.id = x}
(* a mutant of LookupName: the tenant is forgotten *)
LookupNameAnywhere(db, t, n) ==
    {e \in Directory(db) : n # NoName /\ \E m \in e.names : m.key = n.key}
LookupName(db, t, n) ==
    {e \in Directory(db) : /\ n # NoName /\ e.tenant = t
                           /\ \E m \in e.names : m.key = n.key}
(* resolveAny, of a reference by identifier, by name or by both *)
Resolve(db, t, ref) == LookupId(db, t, ref.id) \union LookupName(db, t, ref.name)

(* parseEntity *)
Restorable(d) == /\ d.parses /\ d.marked /\ d.type \in {"entity", "message_detail"}
                 /\ d.name # NoName /\ d.body # NoBody

Issue(code, table, r, why) ==
    [code |-> code, table |-> table, tenant |-> r.tenant, id |-> r.id, reason |-> why]

----------------------------------------------------------------------------
(* Pointers *)

ExpectedName(m) == [key |-> m.id, exact |-> TRUE]

(* the issue of a pointer, or none: the order of the tests is the code's *)
PointerIssue(db, m) ==
    LET found == LookupName(db, m.tenant, m.content.name)
        d == CHOOSE e \in found : TRUE
        ofMessage(code) == {Issue(code, "messages", m, NoReason)}
        ofDetail(code) == {Issue(code, "shared", d, NoReason)}
    IN IF m.content.shape = "malformed" THEN ofMessage("malformed_pointer")
       ELSE IF m.content.name # ExpectedName(m) THEN ofMessage("unexpected_pointer_name")
       ELSE IF found = {} THEN ofMessage("missing_pointer_payload")
       ELSE IF Cardinality(found) > 1 THEN ofMessage("ambiguous_pointer_payload")
       ELSE IF ~(IsDetail(d) /\ Restorable(d)) THEN ofMessage("pointer_resolves_non_private_entity")
       ELSE IF d.name # m.content.name THEN ofDetail("pointer_entity_case_mismatch")
       ELSE IF d.type # "entity" THEN ofDetail("unexpected_payload_memory_type")
       ELSE IF d.by # m.from THEN ofDetail("payload_creator_mismatch")
       ELSE IF d.maker \notin {"nobody", m.from} THEN ofDetail("payload_embedded_creator_mismatch")
       ELSE {}

Pointers(db) == {m \in db.messages : Points(m)}
PointerIssues(db) == UNION {PointerIssue(db, m) : m \in Pointers(db)}

(* pointerPlans: the message and the entity that holds its body *)
PointerPlans(db) ==
    {p \in Pointers(db) \X Details(db) :
        PointerIssue(db, p[1]) = {} /\ p[2] \in LookupName(db, p[1].tenant, p[1].content.name)}

(* details that cannot be restored or that no pointer names *)
DetailIssues(db) ==
    {Issue("unreadable_detail", "shared", d, NoReason) : d \in {e \in Details(db) : ~Restorable(e)}}
    \union
    {Issue("orphan_message_detail", "shared", d, NoReason) :
        d \in {e \in Details(db) : /\ Restorable(e)
                                   /\ \A p \in PointerPlans(db) : p[2] # e}}
    \union
    {Issue("invalid_entity_json", "shared", r, NoReason) :
        r \in {e \in db.shared : e.type = "entity" /\ ~e.parses}}

----------------------------------------------------------------------------
(* Observations and relations *)

Observations(db) == {r \in db.shared : r.type = "observation"}
Relations(db) == {r \in db.shared : r.type = "relation"}

(* the parents an observation may have, and whether one of them is private *)
Parents(db, o) == Resolve(db, o.tenant, o.parent)
PrivateParents(db, o) == {e \in Parents(db, o) : IsDetail(e)}

(* an observation that names a private thing that is not there, or two things *)
ObservationIssue(db, o) ==
    LET ref == o.parent
        named == LookupName(db, o.tenant, ref.name)
        unresolved == ref.id # NoId /\ LookupId(db, o.tenant, ref.id) = {}
        issue(code) == {Issue(code, "shared", o, NoReason)}
    IN IF ~o.parses THEN issue("invalid_observation_json")
       ELSE IF unresolved \/ (Parents(db, o) = {} /\ (Reserved(ref.name) \/ o.shaped))
            THEN issue("orphan_private_observation")
       ELSE IF Parents(db, o) = {} THEN {}
       ELSE IF PrivateParents(db, o) = {}
            THEN IF ref.name # NoName /\ (Reserved(ref.name) \/ (named = {} /\ o.shaped))
                 THEN issue("private_observation_parent_mismatch") ELSE {}
       ELSE IF Cardinality(Parents(db, o)) # 1 THEN issue("ambiguous_private_observation_parent")
       ELSE IF ref.name # NoName /\ named = {} THEN issue("private_observation_parent_mismatch")
       ELSE {}

PrivateObservations(db) ==
    {o \in Observations(db) : ObservationIssue(db, o) = {} /\ PrivateParents(db, o) # {}}

(* one end of a relation *)
EndIssue(db, r, ref) ==
    LET found == Resolve(db, r.tenant, ref)
        private == {e \in found : IsDetail(e)}
        issue(code) == {Issue(code, "shared", r, NoReason)}
    IN IF private # {} /\ Cardinality(found) # 1 THEN issue("ambiguous_private_relation_reference")
       ELSE IF private = {} /\ Reserved(ref.name) THEN issue("orphan_private_relation_reference")
       ELSE {}

RelationIssue(db, r) ==
    IF ~r.parses THEN {Issue("invalid_relation_json", "shared", r, NoReason)}
    ELSE EndIssue(db, r, r.from) \union EndIssue(db, r, r.to)

PrivateRelations(db) ==
    {r \in Relations(db) :
        /\ RelationIssue(db, r) = {}
        /\ \E e \in Resolve(db, r.tenant, r.from) \union Resolve(db, r.tenant, r.to) :
               IsDetail(e)}

----------------------------------------------------------------------------
(* Legacy copies of whole messages *)

Copies(db) == {r \in db.shared : r.type = "ai_message"}
Originals(db, r) == {m \in db.messages : m.legacy = r.id}

CopyIssue(db, r) ==
    LET found == Originals(db, r)
        m == CHOOSE x \in found : TRUE
        issue(code) == {Issue(code, "shared", r, NoReason)}
    IN IF found = {} THEN issue("unrepresented_shared_message")
       ELSE IF Cardinality(found) > 1 THEN issue("ambiguous_shared_message")
       ELSE IF m.tenant # r.tenant THEN issue("shared_message_tenant_mismatch")
       ELSE IF ~r.parses THEN issue("invalid_shared_message_json")
       ELSE IF <<m.from, m.to, m.content>> # <<r.sender, r.recipient, r.text>>
            THEN issue("shared_message_payload_mismatch")
       ELSE {}

SharedPlans(db) == {r \in Copies(db) : CopyIssue(db, r) = {}}

----------------------------------------------------------------------------
(* The vector index *)

(* rows whose index rows go with them *)
GraphTargets(db) == Details(db) \union PrivateObservations(db) \union PrivateRelations(db)
FollowsARow(db, x) == \E r \in GraphTargets(db) : Key(r) = Key(x)
IsMessageVector(x) == x.type \in {"ai_message", "message_detail"}

(* classifyUnlinkedVector, on the copy of the row kept in the index *)
UnlinkedReason(db, x) ==
    LET c == x.copy
        parents == Resolve(db, x.tenant, c.parent)
        safe == /\ Cardinality(parents) = 1
                /\ c.parent.id # NoId => LookupId(db, x.tenant, c.parent.id) # {}
                /\ c.parent.name # NoName => LookupName(db, x.tenant, c.parent.name) # {}
        ends == Resolve(db, x.tenant, c.from) \union Resolve(db, x.tenant, c.to)
    IN IF ~c.parses
       THEN IF x.type \in {"entity", "observation", "relation"} THEN "invalid_graph_json" ELSE NoReason
       ELSE IF c.marked THEN "message_detail_discriminator"
       ELSE IF ReservedAmong(c.names) THEN "reserved_entity_reference"
       ELSE IF x.type = "observation"
       THEN IF PrivateAmong(parents) \/ Reserved(c.parent.name) THEN "private_observation_reference"
            ELSE IF c.parent.id # NoId /\ LookupId(db, x.tenant, c.parent.id) = {}
                 THEN "unresolved_observation_parent_id"
            ELSE IF c.shaped /\ ~safe THEN "unresolved_private_shaped_observation"
            ELSE NoReason
       ELSE IF x.type = "relation" /\ (ReservedAmong({c.from.name, c.to.name}) \/ PrivateAmong(ends))
            THEN "private_relation_reference"
       ELSE NoReason

(* findPrimaryMatches *)
PrimaryMatches(db, x) == {m \in db.messages : x.id \in {m.id, m.legacy}}

(* whether an index row is one the migration should take, before its vector is looked at *)
OwnerIssue(db, x) ==
    LET found == PrimaryMatches(db, x)
        why == UnlinkedReason(db, x)
        elsewhere == {m \in found : m.tenant # x.tenant}
        issue(code) == {Issue(code, "index", x, NoReason)}
    IN IF FollowsARow(db, x) THEN {}
       ELSE IF IsMessageVector(x)
       THEN IF found = {} THEN issue("unrepresented_message_vector")
            ELSE IF Cardinality(found) > 1 THEN issue("ambiguous_message_vector")
            ELSE IF elsewhere # {} THEN issue("message_vector_tenant_mismatch")
            ELSE {}
       ELSE IF why # NoReason THEN {Issue("unrepresented_private_vector", "index", x, why)}
       ELSE {}

Targets(db) ==
    {x \in db.index : /\ FollowsARow(db, x) \/ IsMessageVector(x)
                      /\ OwnerIssue(db, x) = {}}

(* rows are read in the order of tenant and identifier *)
Before(x, y) == x.tenant < y.tenant \/ (x.tenant = y.tenant /\ x.id < y.id)

(* The vector of a target must be there, and be its own.  These issues carry the *)
(* row's identifier and no tenant.                                              *)
VectorIssue(db, x) ==
    LET others == {y \in db.index : y.slot = x.slot /\ y # x}
        earlier == {y \in Targets(db) : y.slot = x.slot /\ Before(y, x)}
        issue(code) == {Issue(code, "index", [tenant |-> NoTenant, id |-> x.id], NoReason)}
    IN IF x.slot = NoSlot THEN {}
       ELSE IF x.slot \notin db.vectors THEN issue("missing_vec0_row")
       ELSE IF earlier # {} THEN issue("shared_vec0_row")
       ELSE IF others # {} THEN issue("vec0_row_referenced_by_non_target")
       ELSE {}

(* a mutant of VectorPlans: the vectors of messages only *)
PlansMessageVectors(db) == {x \in Targets(db) : IsMessageVector(x)}

VectorPlans(db) ==
    {x \in Targets(db) :
        \A i \in VectorIssue(db, x) : i.code = "vec0_row_referenced_by_non_target"}

----------------------------------------------------------------------------
(* analyzePrivateMessageResidue, finalizeAnalysis *)

Issues(db) ==
    PointerIssues(db) \union DetailIssues(db)
    \union (UNION {ObservationIssue(db, o) : o \in Observations(db)})
    \union (UNION {RelationIssue(db, r) : r \in Relations(db)})
    \union (UNION {CopyIssue(db, r) : r \in Copies(db)})
    \union (UNION {OwnerIssue(db, x) : x \in db.index})
    \union (UNION {VectorIssue(db, x) : x \in Targets(db)})

Ready(db) == Issues(db) = {}

(* every count of the analysis is zero: residueSummary of the sanitation tool *)
Clean(db) ==
    /\ Ready(db)
    /\ PointerPlans(db) = {} /\ GraphTargets(db) = {} /\ SharedPlans(db) = {}
    /\ VectorPlans(db) = {}

(* the shared rows the migration deletes *)
Doomed(db) == GraphTargets(db) \union SharedPlans(db)

(* applyAnalysis *)
Migrated(db) ==
    LET plan(m) == {p \in PointerPlans(db) : p[1] = m}
        body(m) == (CHOOSE p \in plan(m) : TRUE)[2].body
    IN [messages |-> {IF plan(m) = {} THEN m ELSE [m EXCEPT !.content = Text(body(m))] :
                         m \in db.messages},
        shared |-> db.shared \ Doomed(db),
        index |-> db.index \ VectorPlans(db),
        vectors |-> db.vectors \ {x.slot : x \in VectorPlans(db)},
        lookups |-> db.lookups \ {Key(r) : r \in Doomed(db)}]
=============================================================================
