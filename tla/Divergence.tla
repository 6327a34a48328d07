----------------------------- MODULE Divergence -----------------------------
(***************************************************************************)
(* Accepted lineage, divergent terminals and what a reconcile must say     *)
(* about them: src/src/unified-server/eng4/reconcile.ts, and the selection *)
(* of selection.ts that reads the same lineage.                            *)
(***************************************************************************)
EXTENDS Versions

(* The payload's reconciliation record; NoRecord on any other snapshot. *)
NoRecord == [survivor |-> NoState, retired |-> {}, adopted |-> {},
             resolutions |-> {}, strict |-> FALSE]

IsReconcile(s) == snapshots[s].record.survivor # NoState

(* lineageOf: the state and its parent chain. *)
Lineage[s \in States] ==
    {s} \cup (IF Parent(s) = NoState THEN {} ELSE Lineage[Parent(s)])

(* divergentChain: back to, and without, the first accepted snapshot.      *)
(* accepted is itself a lineage, so the shared part is a common tail.      *)
Chain(h, accepted) == Lineage[h] \ accepted

(* Newest tuple per item on one chain; along a chain revisions grow. *)
TerminalsOn(chain) ==
    {[id |-> i, at |-> Max(chain \cap StatesNaming(i))] :
        i \in {j \in Items : chain \cap StatesNaming(j) # {}}}

Terminals(heads, accepted) ==
    UNION {TerminalsOn(Chain(h, accepted)) : h \in heads}

Opaque(t) == NewestIn(t.at, t.id).opaque

Comparable(entry) == <<entry.value, entry.owner>>

Key(resolution) == [id |-> resolution.id, at |-> resolution.at]

(* verifiedResolutionKeys: only reconciles ON the lineage count. *)
ResolvedKeys(accepted) ==
    UNION {{Key(x) : x \in snapshots[s].record.resolutions} : s \in accepted}

(* Mutant of OwedTerminals: retired heads are forgotten. *)
OwedByLiveHeads(h) ==
    Terminals(LiveHeads \ {h}, Lineage[h]) \ ResolvedKeys(Lineage[h])

(* divergentTerminalsFor: what a reader of the head h is still owed. *)
OwedTerminals(h) ==
    LET heads == (LiveHeads \ {h}) \cup (RetiredHeads \ Lineage[h])
    IN  Terminals(heads, Lineage[h]) \ ResolvedKeys(Lineage[h])

(* The newest tuple naming an item on the accepted lineage, NoState if     *)
(* none does (selectV3Values).                                             *)
AcceptedAt(h, id) ==
    LET naming == Lineage[h] \cap StatesNaming(id)
    IN  IF naming = {} THEN NoState ELSE Max(naming)
-----------------------------------------------------------------------------
(* Mutant of DivergentHeads: what earlier reconciles retired is forgotten. *)
DivergentNow(plan) == plan.heads \ {plan.survivor}

(* A normalized reconcile request.  A resolution is [id, at, decision,     *)
(* ordinal], the ordinal 0 under 'reject'.                                 *)
DivergentHeads(plan) ==
    (plan.heads \ {plan.survivor})
        \cup (RetiredHeads \ Lineage[plan.survivor])

Unresolved(plan) ==
    Terminals(DivergentHeads(plan), Lineage[plan.survivor])
        \ ResolvedKeys(Lineage[plan.survivor])

AdoptedRetired(survivor) == RetiredHeads \cap Lineage[survivor]

(* Mutants of ValidResolution. *)
AcceptsAnyOrdinal(x, plan, entries) ==  \* not the final change of the item
    /\ Key(x) \in Unresolved(plan)
    /\ x.decision = "accept" =>
          /\ x.ordinal \in DOMAIN entries
          /\ entries[x.ordinal].id = x.id
          /\ Comparable(entries[x.ordinal]) = Comparable(NewestIn(x.at, x.id))

OpaqueUnresolvable(x, plan, entries) == \* an opaque value cannot be rejected
    Key(x) \in Unresolved(plan) /\ ~Opaque(Key(x))

(* An accept names the request's final change of that item, and that       *)
(* change asserts exactly the divergent value.                             *)
ValidResolution(x, plan, entries) ==
    /\ Key(x) \in Unresolved(plan)
    /\ x.decision = "accept" =>
          /\ ~Opaque(Key(x))
          /\ x.ordinal \in DOMAIN entries
          /\ entries[x.ordinal].id = x.id
          /\ \A j \in DOMAIN entries :
                entries[j].id = x.id => j <= x.ordinal
          /\ Comparable(entries[x.ordinal]) = Comparable(NewestIn(x.at, x.id))

(* rejectLineages expanded: every unresolved terminal on a named chain. *)
RejectedByLineage(plan) ==
    {t \in Unresolved(plan) :
        \E l \in plan.rejectLineages : t.at \in Chain(l, Lineage[plan.survivor])}

Explicit(plan) == {Key(x) : x \in plan.resolutions}

AllResolutions(plan) ==
    plan.resolutions \cup
    {[id |-> t.id, at |-> t.at, decision |-> "reject", ordinal |-> 0] :
        t \in RejectedByLineage(plan)}

LeftUnresolved(plan) ==
    Unresolved(plan) \ (Explicit(plan) \cup RejectedByLineage(plan))

(* evaluateDivergence succeeds. *)
DivergenceAnswered(plan, ack, entries) ==
    /\ AdoptedRetired(plan.survivor) # {} => ack
    /\ plan.rejectLineages \subseteq DivergentHeads(plan)
    /\ \A x, y \in plan.resolutions : Key(x) = Key(y) => x = y
    /\ \A x \in plan.resolutions : ValidResolution(x, plan, entries)
    /\ Explicit(plan) \cap RejectedByLineage(plan) = {}
    /\ \A t \in LeftUnresolved(plan) : ~Opaque(t) /\ ~plan.strict

(* Mutants of ReconcileRecord. *)
RetiredAfterInsert(plan) ==             \* heads read after the insert
    [survivor    |-> plan.survivor,
     retired     |-> (plan.heads \ {plan.survivor}) \cup {Len(snapshots) + 1},
     adopted     |-> AdoptedRetired(plan.survivor),
     resolutions |-> AllResolutions(plan), strict |-> plan.strict]

AdoptionForgotten(plan) ==              \* a resurrection is not recorded
    [survivor    |-> plan.survivor,
     retired     |-> plan.heads \ {plan.survivor}, adopted |-> {},
     resolutions |-> AllResolutions(plan), strict |-> plan.strict]

(* What the payload of a reconcile says it did. *)
ReconcileRecord(plan) ==
    [survivor    |-> plan.survivor,
     retired     |-> plan.heads \ {plan.survivor},
     adopted     |-> AdoptedRetired(plan.survivor),
     resolutions |-> AllResolutions(plan),
     strict      |-> plan.strict]
-----------------------------------------------------------------------------
(* verifyRetirementAttribution: row -> payload. *)
RetirementsAttributed ==
    \A r \in retirements : /\ r.by \in States
                           /\ r.state \in snapshots[r.by].record.retired

(* verifyReconcileRowsScopeWide: payload -> row. *)
RetirementsRecorded ==
    \A s \in States :
        {r.state : r \in {x \in retirements : x.by = s}}
            = snapshots[s].record.retired

(* verifyReconcileParity. *)
ReconcileParity(s) ==
    LET rec == snapshots[s].record
    IN  /\ Parent(s) = rec.survivor
        /\ AdoptedRetired(rec.survivor) = rec.adopted
        /\ {r.state : r \in {x \in retirements : x.by = s}} = rec.retired
        /\ \A x \in rec.resolutions :
              x.decision = "accept" =>
                 /\ x.ordinal \in OrdinalsNaming(s, x.id)
                 /\ \A j \in OrdinalsNaming(s, x.id) : j <= x.ordinal
                 /\ Comparable(snapshots[s].ledger[x.ordinal])
                       = Comparable(NewestIn(x.at, x.id))
        /\ pointer.state = s => pointer.reason = "reconcile"

(* verifyResolutionRowsOnLineage. *)
LineageVerified(h) ==
    \A s \in Lineage[h] : IsReconcile(s) => ReconcileParity(s)

(* What a reconcile, and every resume of version 3, verifies first. *)
EvidenceVerified(h) ==
    /\ \A s \in States : VersionParity(s)
    /\ RetirementsAttributed
    /\ RetirementsRecorded
    /\ LineageVerified(h)
=============================================================================
