------------------------------- MODULE Heads -------------------------------
(***************************************************************************)
(* The snapshot forest of one (tenant, scope), its retirement rows and its *)
(* current-head pointer: src/src/unified-server/eng4/heads.ts.             *)
(*                                                                         *)
(* A snapshot is identified by its revision.  Revisions are unique in a    *)
(* scope and allocated max + 1 inside the inserting transaction, so the    *)
(* rows of eng4_state_snapshots are a sequence and a state id is an index  *)
(* of it; 0 stands for SQL NULL.  Snapshots are immutable and never        *)
(* deleted (triggers of migration 005), so the sequence only grows.        *)
(***************************************************************************)
EXTENDS Integers, Sequences, FiniteSets

VARIABLES
    snapshots,    \* rows of eng4_state_snapshots, by revision
    retirements,  \* rows of eng4_head_retirements: [state, by]
    pointer       \* the row of eng4_scope_current: [state, reason]

NoState   == 0
NoPointer == [state |-> NoState, reason |-> "none"]

PointerReasons == {"none", "first-write", "advance", "reconcile"}

States == 1 .. Len(snapshots)

Parent(s) == snapshots[s].parent

(* Rows whose parent_state_id names s. *)
Children(s) == {c \in States : Parent(c) = s}

RetiredHeads == {r.state : r \in retirements}

IsRetired(s) == s \in RetiredHeads

(* No snapshot claims it as parent and it has no retirement row. *)
LiveHeads == {s \in States : Children(s) = {} /\ ~IsRetired(s)}

(* The live heads as they were when revision n was the newest: what a      *)
(* client that read the scope at that moment was shown.                    *)
LiveHeadsAt(n) ==
    {s \in 1 .. n : /\ \A c \in 1 .. n : Parent(c) # s
                    /\ \A r \in retirements : r.state = s => r.by > n}

(* effectiveCurrentHead: how "current" is chosen, and what it is. *)
Selection ==
    IF pointer = NoPointer
    THEN IF LiveHeads = {} THEN "empty-scope" ELSE "max-revision"
    ELSE IF pointer.state \in LiveHeads THEN "pointer"
                                        ELSE "invalid-designation"

EffectiveHead ==
    CASE Selection = "pointer"      -> pointer.state
      [] Selection = "max-revision" -> CHOOSE s \in LiveHeads :
                                          \A t \in LiveHeads : t <= s
      [] OTHER                      -> NoState

(* Mutants of AdvancedPointer: each forgets one test of the code. *)
PointerLeftOnParent(new, p) ==          \* counts the new child as another
    IF pointer = NoPointer /\ p = NoState
    THEN [state |-> new, reason |-> "first-write"] ELSE pointer

PointerFollowsWrites(new, p) ==         \* a branch designates itself
    IF pointer = NoPointer /\ p # NoState
    THEN NoPointer ELSE [state |-> new, reason |-> "advance"]

PointerTrustsParent(new, p) ==          \* the pointed head may be dead
    IF pointer = NoPointer /\ p = NoState
    THEN [state |-> new, reason |-> "first-write"]
    ELSE IF pointer # NoPointer /\ pointer.state = p
         THEN [state |-> new, reason |-> "advance"] ELSE pointer

PointerRebased(new, p) ==               \* a branch designates its parent
    IF pointer = NoPointer /\ p = NoState
    THEN [state |-> new, reason |-> "first-write"]
    ELSE IF pointer = NoPointer THEN NoPointer
    ELSE IF pointer.state = p THEN [state |-> new, reason |-> "advance"]
    ELSE [state |-> p, reason |-> "advance"]

PointerRecordsBranch(new, p) ==         \* a reason the table refuses
    IF pointer = NoPointer /\ p = NoState
    THEN [state |-> new, reason |-> "first-write"]
    ELSE IF pointer # NoPointer /\ pointer.state # p
         THEN [pointer EXCEPT !.reason = "branch"] ELSE pointer

(* advancePointerAfterInsert for a snapshot new with parent p.  The        *)
(* children of p are those before the insert, which is what the code's     *)
(* count of OTHER children says after it.                                  *)
AdvancedPointer(new, p) ==
    IF pointer = NoPointer
    THEN IF p = NoState THEN [state |-> new, reason |-> "first-write"]
                        ELSE NoPointer
    ELSE IF pointer.state = p /\ Children(p) = {} /\ ~IsRetired(p)
         THEN [state |-> new, reason |-> "advance"]
         ELSE pointer

(* setPointerOnReconcile: unconditional. *)
ReconciledPointer(new) == [state |-> new, reason |-> "reconcile"]
=============================================================================
