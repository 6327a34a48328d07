---------------------------- MODULE Adjudication ----------------------------
(***************************************************************************)
(* The offline companion of migration 007: every issue of its analysis is  *)
(* a finding, the data owner gives each finding one disposition, and a     *)
(* plan is accepted only when each disposition is proved from the rows.    *)
(* The dispositions the tool names but refuses (public_relink,             *)
(* archive_then_remove_private, public_vector_rebuild) are left out: no    *)
(* accepted plan has one.                                                  *)
(***************************************************************************)
EXTENDS Residue, FiniteSetsExt, TLC

VectorCodes ==
    {"unrepresented_private_vector", "unrepresented_message_vector",
     "ambiguous_message_vector", "message_vector_tenant_mismatch", "missing_vec0_row",
     "shared_vec0_row", "vec0_row_referenced_by_non_target"}

DetailCodes ==
    {"orphan_message_detail", "invalid_entity_json", "unreadable_detail",
     "pointer_resolves_non_private_entity", "pointer_entity_case_mismatch",
     "unexpected_payload_memory_type", "payload_creator_mismatch",
     "payload_embedded_creator_mismatch"}

Dispositions == {"stale_vector_remove", "quarantine_backing_observation", "quarantine",
                 "restore_mailbox", "private_duplicate"}

----------------------------------------------------------------------------
(* The inventory *)

Findings(db) == Issues(db)
At(f) == <<f.tenant, f.id>>

(* rowForLocator: no tenant, no row *)
Rows(db, f) ==
    LET table == CASE f.table = "messages" -> db.messages
                   [] f.table = "shared" -> db.shared
                   [] f.table = "index" -> db.index
    IN {r \in table : f.tenant # NoTenant /\ Key(r) = At(f)}
Row(db, f) == CHOOSE r \in Rows(db, f) : TRUE

(* detailTopology: the messages that point at a detail by its exact name *)
Inbound(db, d) ==
    {m \in db.messages : /\ m.tenant = d.tenant /\ m.content.shape = "pointer"
                         /\ d.parses /\ d.name # NoName /\ m.content.name = d.name}

(* vectorOwnership *)
IndexOf(db, k) == {x \in db.index : Key(x) = k}
Owners(db, x) == {y \in db.index : x.slot # NoSlot /\ y.slot = x.slot}
BackingShared(db, k) == {r \in db.shared : Key(r) = k}
BackingMessages(db, k) == {m \in db.messages : m.tenant = k[1] /\ k[2] \in {m.id, m.legacy}}

(* supportedDispositions *)
Supported(db, f) ==
    LET row == Row(db, f)
        inbound == IF f.code \in DetailCodes THEN Inbound(db, row) ELSE {}
    IN {do \in Dispositions :
           /\ Rows(db, f) # {}
           /\ \/ do = "stale_vector_remove" /\ f.code \in VectorCodes
              \/ /\ do = "quarantine_backing_observation"
                 /\ f.reason = "unresolved_private_shaped_observation" /\ row.type = "observation"
              \/ do = "quarantine" /\ f.table = "shared" /\ inbound = {}
              \/ /\ do = "restore_mailbox" /\ f.table = "shared"
                 /\ \/ f.code = "orphan_message_detail"
                    \/ f.code \in DetailCodes /\ Cardinality(inbound) = 1
              \/ /\ do = "private_duplicate" /\ f.table = "shared"
                 /\ f.code = "unrepresented_shared_message"}

----------------------------------------------------------------------------
(* A manifest: one decision for each finding, with a mailbox row as its    *)
(* target where the disposition takes one                                  *)

NoTarget == [tenant |-> NoTenant, id |-> NoId]
Targeted == {"restore_mailbox", "private_duplicate"}

Decisions(db, f) ==
    {d \in [do : Supported(db, f), to : {NoTarget} \union
                   {[tenant |-> m.tenant, id |-> m.id] : m \in db.messages}] :
        d.do \in Targeted <=> d.to # NoTarget}

Message(db, to) == CHOOSE m \in db.messages : Key(m) = <<to.tenant, to.id>>

(* validateBackingObservationQuarantine *)
BackingIsExact(db, f) ==
    LET x == Row(db, f)
    IN /\ BackingMessages(db, Key(x)) = {}
       /\ \E r \in db.shared : Key(r) = Key(x) /\ r.type = "observation" /\ r = x.copy
       /\ x.slot \in db.vectors
       /\ Owners(db, x) = {x}

(* validateRestoreMailbox *)
RestoreIsExact(db, d, m) ==
    /\ d.parses /\ d.marked /\ d.body # NoBody /\ d.name # NoName
    /\ d.tenant = m.tenant /\ d.name = ExpectedName(m)
    /\ d.by = m.from /\ d.maker \in {"nobody", m.from}
    /\ m.content \in {Pointer(d.name), Text(d.body)}

(* validatePrivateDuplicate *)
DuplicateIsExact(r, m) ==
    /\ r.parses /\ r.type = "ai_message" /\ r.tenant = m.tenant
    /\ <<r.sender, r.recipient, r.text>> = <<m.from, m.to, m.content>>

IsExact(db, f, d) ==
    CASE d.do = "quarantine_backing_observation" -> BackingIsExact(db, f)
      [] d.do = "restore_mailbox" -> RestoreIsExact(db, Row(db, f), Message(db, d.to))
      [] d.do = "private_duplicate" -> DuplicateIsExact(Row(db, f), Message(db, d.to))
      [] OTHER -> TRUE

(* what a decision does to the shared row it is about *)
Effect(d) == IF d.do = "quarantine_backing_observation"
             THEN [do |-> "quarantine", to |-> NoTarget] ELSE d

(* sourceActions, by the key of the shared row *)
OnSource(plan) == {f \in DOMAIN plan : plan[f].do # "stale_vector_remove"}
SourceKeys(plan) == {At(f) : f \in OnSource(plan)}

(* vectorDeletes: asked for, or of a row that goes *)
VectorDeletes(db, plan) ==
    UNION {IndexOf(db, At(f)) : f \in DOMAIN plan}

(* the decisions each finding may have, if it stood alone *)
Options(db, F) ==
    [f \in F |-> {d \in Decisions(db, f) : IsExact(db, f, d)}]

(* the manifests with exactly one such decision for every finding *)
Manifests(options) ==
    IF \E f \in DOMAIN options : options[f] = {} THEN {}
    ELSE {plan \in [DOMAIN options -> UNION {options[f] : f \in DOMAIN options}] :
             \A f \in DOMAIN options : plan[f] \in options[f]}

(* planPrivateMessageResidueAdjudication is ready: no two decisions about one *)
(* row disagree, and a vector goes only with every row and owner it has       *)
Accepts(db, plan) ==
    /\ \A f, g \in OnSource(plan) : At(f) = At(g) => Effect(plan[f]) = Effect(plan[g])
    /\ \A x \in VectorDeletes(db, plan) :
          /\ BackingMessages(db, Key(x)) = {}
          /\ \A r \in BackingShared(db, Key(x)) : Key(r) \in SourceKeys(plan)
          /\ Owners(db, x) \subseteq VectorDeletes(db, plan)

(* applyPlan: what goes to the quarantine, and the database after it *)
Quarantined(db, plan) ==
    {r \in db.shared : \E f \in OnSource(plan) :
        At(f) = Key(r) /\ Effect(plan[f]).do = "quarantine"}

Adjudicated(db, plan) ==
    LET gone == VectorDeletes(db, plan)
        sources(m) == {Row(db, f) : f \in {g \in OnSource(plan) :
                          /\ plan[g].do = "restore_mailbox"
                          /\ plan[g].to = [tenant |-> m.tenant, id |-> m.id]}}
        body(m) == (CHOOSE d \in sources(m) : TRUE).body
    IN [messages |-> {IF sources(m) = {} THEN m ELSE [m EXCEPT !.content = Text(body(m))] :
                         m \in db.messages},
        shared |-> {r \in db.shared : Key(r) \notin SourceKeys(plan)},
        index |-> db.index \ gone,
        vectors |-> db.vectors \ {x.slot : x \in gone},
        lookups |-> db.lookups \ SourceKeys(plan)]
=============================================================================
