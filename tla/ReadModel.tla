------------------------------ MODULE ReadModel ------------------------------
(***************************************************************************)
(* What a resume of version 3 shows of one scope's facts and loops:        *)
(* selectV3Values of src/src/unified-server/eng4/selection.ts, fed by the  *)
(* in-place rows of resume.ts.  A read is synchronous and writes nothing,  *)
(* so it is a set of operators over the state of Checkpoint.               *)
(***************************************************************************)
EXTENDS Checkpoint

(* effective.selection === 'pointer': no other scope has an accepted head. *)
AcceptedHead == IF Selection = "pointer" THEN EffectiveHead ELSE NoState

InPlace == {id \in Items : Exists(id)}

(* newest tuple per id on the accepted lineage, if it is materialized: an  *)
(* opaque one suppresses the id, and no older value takes its place        *)
Selected ==
    IF AcceptedHead = NoState THEN {}
    ELSE {id \in Items : /\ AcceptedAt(AcceptedHead, id) # NoState
                         /\ ~NewestIn(AcceptedAt(AcceptedHead, id), id).opaque}

(* currentFacts and openLoops, with their provenance; a value that says its *)
(* fact is superseded is accepted so, and left out of currentFacts          *)
Accepted == {[id |-> id, at |-> AcceptedAt(AcceptedHead, id)] : id \in Selected}

(* the in-place rows nothing was selected for, all of them when no head is *)
(* accepted                                                                *)
LegacyValues == InPlace \ Selected

(* Mutant of DivergentValues: retired heads are forgotten. *)
DivergentNowLive ==
    IF AcceptedHead = NoState THEN {}
    ELSE Terminals(LiveHeads \ {AcceptedHead}, Lineage[AcceptedHead])

(* Every divergent terminal, resolved or not. *)
DivergentValues ==
    IF AcceptedHead = NoState THEN {}
    ELSE LET h == AcceptedHead
         IN  Terminals((LiveHeads \ {h}) \cup (RetiredHeads \ Lineage[h]), Lineage[h])

(* Listed without a value while it is opaque. *)
ValueOf(t) == IF Opaque(t) THEN NoValue ELSE NewestIn(t.at, t.id).value

-----------------------------------------------------------------------------
(* What the last writer of an item left, NoState before the ledger. *)
LastWriter(id) == IF StatesNaming(id) = {} THEN NoState ELSE Max(StatesNaming(id))

(* resume.ts, "the v3 legacy view must be able to expose EVERY persisted   *)
(* in-place row": whatever the branches, rollbacks and reconciles, the     *)
(* value the rows of versions 1 and 2 hold is told by version 3 as well,   *)
(* as the accepted one, as a divergent one with its value, or as legacy.   *)
(* Only a loop whose last change an older binary wrote, with an owner      *)
(* nothing proves, may be listed divergent without its value.              *)
EveryStoredValueIsShown ==
    binary = "current" =>
        \A id \in InPlace :
            LET t == [id |-> id, at |-> LastWriter(id)]
            IN  \/ id \in LegacyValues
                \/ t \in Accepted
                \/ /\ t \in DivergentValues
                   /\ \/ ValueOf(t) = rows[id].value
                      \/ id \in Loops /\ Opaque(t)
=============================================================================
