----------------------------- MODULE Checkpoint -----------------------------
(***************************************************************************)
(* One scope's checkpoint writer: src/src/unified-server/eng4/checkpoint.ts*)
(*                                                                         *)
(* A checkpoint is one synchronous better-sqlite3 transaction, so each     *)
(* admitted request is one action: every read, check and row it writes.    *)
(* A request reaches the server at any time after the reads it was formed  *)
(* from, any number of times: requests are built from any earlier view of  *)
(* the scope, and every admitted request may arrive again.  A request that *)
(* is not admitted (replay, mismatch, conflict, error) writes nothing; its *)
(* Answer is an operator, and the step is a stutter.                       *)
(***************************************************************************)
EXTENDS Divergence

CONSTANTS
    Fields,         \* fields of a working state, all required
    Contents,       \* what a field can hold
    ResultVersions, \* request shapes exercised, among "legacy" (v1, v2), "v3"
    Operations,     \* operations exercised, among those of AllOperations
    Strictness,     \* values of a reconcile's strict flag
    Acknowledge,    \* values of acknowledgeRetired
    PreLedger,      \* loops whose row predates the change ledger
    MaxChanges,     \* changes in one request
    MaxRevision,    \* snapshots in the scope
    MaxRollbacks    \* times an older binary is put back

AllOperations == {"write", "record", "patch", "reconcile"}

Absent == "absent"      \* a field a merge patch has deleted

ASSUME BoundsAssumption ==
    /\ MaxChanges \in Nat /\ MaxRevision \in Nat /\ MaxRollbacks \in Nat
    /\ Operations \subseteq AllOperations
    /\ ResultVersions \subseteq {"legacy", "v3"}
    /\ Strictness \subseteq BOOLEAN /\ Acknowledge \subseteq BOOLEAN
    /\ Facts \cap Loops = {} /\ PreLedger \subseteq Loops
    /\ NoOwner \notin Agents /\ NoValue \notin Values
    /\ Absent \notin Contents

VARIABLES
    binary,         \* "current", or "pre-H1": it knows no pointer
    rollbacks

vars == <<snapshots, retirements, pointer, rows, binary, rollbacks>>

NoPlan == [heads |-> {}, pointer |-> NoState, survivor |-> NoState,
           strict |-> FALSE, resolutions |-> {}, rejectLineages |-> {}]
NoBody == [f \in {} |-> Absent]

FullBody  == [Fields -> Contents]
PatchBody == UNION {[F -> Contents \cup {Absent}] : F \in SUBSET Fields}

ChangeLists == UNION {[1 .. n -> Change] : n \in 0 .. MaxChanges}

(* Change lists sent: one that names an unknown id is refused whole, which *)
(* is one more stutter.                                                    *)
SentChanges == {changes \in ChangeLists : ValidChanges(changes)}

(* Idempotency keys are chosen by clients; up to renaming, a fresh key is  *)
(* the number of the snapshot it would name.                               *)
FreshKey == Len(snapshots) + 1
-----------------------------------------------------------------------------
(* Answering a request, in the order of the code's checks. *)

(* Mutant of KeyHolders: a key is looked up among the live heads only. *)
LiveKeyHolders(r) == {s \in LiveHeads : snapshots[s].request.key = r.key}

(* The snapshot the key of a request names, if any. *)
KeyHolders(r) == {s \in States : snapshots[s].request.key = r.key}

KeyAnswer(r) ==
    LET s == CHOOSE t \in KeyHolders(r) : TRUE
    IN  IF snapshots[s].request # r THEN "idempotency-mismatch"
        ELSE IF r.op = "reconcile" /\ ~ReconcileParity(s)
             THEN "integrity-error"
        ELSE "idempotent-replay"

(* The state a request leaves on its snapshot. *)
StateFor(r) ==
    IF r.op \in {"write", "reconcile"} THEN r.body
    ELSE [f \in Fields |->
            IF f \in DOMAIN r.body THEN r.body[f]
                                   ELSE snapshots[r.expected].state[f]]

ValidWorkingState(state) ==
    /\ DOMAIN state = Fields
    /\ \A f \in Fields : state[f] # Absent

(* Mutants of DeriveAnswer. *)
AnyHeadDerives(r) ==                    \* any live head, not the pointed one
    IF r.expected \notin LiveHeads THEN "conflict"
    ELSE IF ~ValidWorkingState(StateFor(r)) THEN "patch-error"
    ELSE "written"

PatchUnvalidated(r) ==                  \* the patched state is not validated
    IF Selection # "pointer" \/ r.expected # EffectiveHead THEN "conflict"
    ELSE "written"

(* record and patch extend the pointed head only, from its payload. *)
DeriveAnswer(r) ==
    IF Selection # "pointer" \/ r.expected # EffectiveHead
    THEN IF LiveHeads = {} THEN "empty-scope-error" ELSE "conflict"
    ELSE IF ~ValidWorkingState(snapshots[r.expected].state)
         THEN "parent-state-error"
    ELSE IF ~ValidWorkingState(StateFor(r)) THEN "patch-error"
    ELSE "written"

(* Mutants of NamesTheFrontier and EvaluatedEntries. *)
HeadsNotCompared(r)      == r.plan.pointer = pointer.state
NamesDesignated(r)       == /\ r.plan.heads = LiveHeads
                            /\ r.plan.pointer = pointer.state
                            /\ Selection = "pointer"
AuthorOwnedEntries(r)    == EntriesOwnedByAuthor(r.changes, r.agent)

(* The two compare-and-set values of a reconcile. *)
NamesTheFrontier(r) ==
    r.plan.heads = LiveHeads /\ r.plan.pointer = pointer.state

(* effectiveLoopOwnerAt: an accept is compared with what will be written.  *)
EvaluatedEntries(r) == WrittenEntries(r.changes, r.agent)

ReconcileAnswer(r) ==
    IF LiveHeads = {} THEN "empty-scope-error"
    ELSE IF ~NamesTheFrontier(r) THEN "conflict"
    ELSE IF r.expected # r.plan.survivor THEN "reconcile-error"
    ELSE IF ~EvidenceVerified(r.plan.survivor) THEN "integrity-error"
    ELSE IF ~DivergenceAnswered(r.plan, r.ack, EvaluatedEntries(r))
         THEN "reconcile-error"
    ELSE "written"

WriteAnswer(r) ==
    IF /\ r.version = "v3" /\ ~r.ack
       /\ r.expected # NoState /\ IsRetired(r.expected)
    THEN "retired-parent-error" ELSE "written"

Admission(r) ==
    IF r.expected = NoState /\ States # {} THEN "conflict"
    ELSE IF r.expected # NoState /\ r.expected \notin States
         THEN IF LiveHeads = {} THEN "empty-scope-error" ELSE "conflict"
    ELSE LET admission ==
               CASE r.op \in {"record", "patch"} -> DeriveAnswer(r)
                 [] r.op = "reconcile"           -> ReconcileAnswer(r)
                 [] r.op = "write"               -> WriteAnswer(r)
         IN  IF admission = "written" /\ ~ValidChanges(r.changes)
             THEN "change-error" ELSE admission

(* Mutant of Answer: the compare-and-set comes first. *)
CasFirst(r) ==
    IF Admission(r) = "conflict" THEN "conflict"
    ELSE IF KeyHolders(r) # {} THEN KeyAnswer(r) ELSE Admission(r)

(* "Idempotency FIRST": a key that names a snapshot is answered from it.   *)
Answer(r) == IF KeyHolders(r) # {} THEN KeyAnswer(r) ELSE Admission(r)
-----------------------------------------------------------------------------
(* The rows of an admitted request. *)

NewState == Len(snapshots) + 1

Snapshot(r, source, ledger) ==
    [parent  |-> r.expected,
     request |-> r,
     source  |-> source,
     ledger  |-> ledger,
     record  |-> IF r.op = "reconcile" THEN ReconcileRecord(r.plan)
                                       ELSE NoRecord,
     state   |-> StateFor(r)]

Insert(r) ==
    /\ snapshots' = Append(snapshots,
                        Snapshot(r, "write", WrittenEntries(r.changes, r.agent)))
    /\ rows' = RowsAfter(r.changes, r.agent)

(* write, record and patch: branch, or advance the pointer. *)
Write(r) ==
    /\ binary = "current"
    /\ r.op \in {"write", "record", "patch"}
    /\ Answer(r) = "written"
    /\ Insert(r)
    /\ pointer' = AdvancedPointer(NewState, r.expected)
    /\ UNCHANGED <<retirements, binary, rollbacks>>

(* A reconcile verifies its own rows before it commits. *)
NewestPassesParity == ReconcileParity(Len(snapshots))

Reconcile(r) ==
    /\ binary = "current"
    /\ r.op = "reconcile"
    /\ Answer(r) = "written"
    /\ Insert(r)
    /\ pointer' = ReconciledPointer(NewState)
    /\ retirements' = retirements \cup
          {[state |-> h, by |-> NewState] :
              h \in ReconcileRecord(r.plan).retired}
    /\ NewestPassesParity'
    /\ UNCHANGED <<binary, rollbacks>>

(* An older binary's write: same admission, no pointer and no versions;    *)
(* the entries are those the next schema apply backfills.                  *)
PreH1Write(r) ==
    /\ binary = "pre-H1"
    /\ r.op = "write" /\ r.version = "legacy"
    /\ Answer(r) = "written"
    /\ snapshots' = Append(snapshots,
                        Snapshot(r, "backfill",
                            BackfilledEntries(r.changes, r.agent, NewState)))
    /\ rows' = RowsAfter(r.changes, r.agent)
    /\ UNCHANGED <<retirements, pointer, binary, rollbacks>>

Upgrade ==
    /\ binary = "pre-H1"
    /\ binary' = "current"
    /\ UNCHANGED <<snapshots, retirements, pointer, rows, rollbacks>>

Rollback ==
    /\ binary = "current"
    /\ rollbacks < MaxRollbacks
    /\ binary' = "pre-H1"
    /\ rollbacks' = rollbacks + 1
    /\ UNCHANGED <<snapshots, retirements, pointer, rows>>
-----------------------------------------------------------------------------
(* What clients send.  expectedRevision and the plan come from any moment  *)
(* of the past; the parts that only matter once both CAS values hold are   *)
(* drawn from what is then to be resolved.                                 *)

WriteRequests ==
    {r \in [op : {"write"}, version : ResultVersions, agent : Agents,
            key : {FreshKey}, expected : {NoState} \cup States,
            ack : BOOLEAN, changes : SentChanges, body : FullBody,
            plan : {NoPlan}] :
        r.ack \in (IF r.version = "legacy" THEN {FALSE} ELSE Acknowledge)}

DeriveRequests ==
    {r \in [op : {"record", "patch"}, version : {"v3"}, agent : Agents,
            key : {FreshKey}, expected : States, ack : {FALSE},
            changes : SentChanges, body : PatchBody, plan : {NoPlan}] :
        r.op = "record" => r.body = NoBody}

ResolutionSets(terminals) ==
    {{[id       |-> t.id, at |-> t.at,
       decision |-> IF choice[t] = 0 THEN "reject" ELSE "accept",
       ordinal  |-> choice[t]] : t \in DOMAIN choice} :
        choice \in UNION {[T -> 0 .. MaxChanges] : T \in SUBSET terminals}}

(* Formed from any view of the past; answered "conflict" unless current. *)
AnyPlans ==
    UNION {[heads : {LiveHeadsAt(n)}, pointer : {NoState} \cup States,
            survivor : LiveHeadsAt(n), strict : Strictness,
            resolutions : {{}}, rejectLineages : {{}}] : n \in States}

(* Both CAS values hold: every way to resolve what is then unresolved. *)
CurrentPlans(survivor) ==
    LET bare == [NoPlan EXCEPT !.heads = LiveHeads, !.survivor = survivor]
    IN  [heads : {LiveHeads}, pointer : {pointer.state},
         survivor : {survivor}, strict : Strictness,
         resolutions : ResolutionSets(Unresolved(bare)),
         rejectLineages :
            SUBSET {h \in DivergentHeads(bare) :
                      TerminalsOn(Chain(h, Lineage[survivor])) # {}}]

ReconcileRequests ==
    UNION {[op : {"reconcile"}, version : {"v3"}, agent : Agents,
            key : {FreshKey}, expected : {p.survivor}, ack : Acknowledge,
            changes : SentChanges, body : FullBody, plan : {p}] :
                p \in AnyPlans \cup UNION {CurrentPlans(h) : h \in LiveHeads}}

(* Delivered again: lost replies, retries, duplicates. *)
SentAgain == {snapshots[s].request : s \in States}

Init ==
    /\ snapshots = <<>> /\ retirements = {} /\ pointer = NoPointer
    /\ rows \in {f \in [Items -> Row] :
                    \A i \in Items : IF i \in PreLedger
                        THEN f[i].value \in Values /\ f[i].owner \in Agents
                        ELSE f[i] = NoRow}
    /\ binary \in {"pre-H1", "current"}
    /\ rollbacks = 0

HasRoom == Len(snapshots) < MaxRevision

Writing ==
    /\ HasRoom
    /\ \E r \in WriteRequests \cup DeriveRequests \cup SentAgain :
          r.op \in Operations /\ Write(r)

Reconciling ==
    /\ HasRoom
    /\ "reconcile" \in Operations
    /\ \E r \in ReconcileRequests \cup SentAgain : Reconcile(r)

PreH1Writing ==
    /\ HasRoom
    /\ \E r \in WriteRequests \cup SentAgain : PreH1Write(r)

Next == Writing \/ Reconciling \/ PreH1Writing \/ Upgrade \/ Rollback

Spec == Init /\ [][Next]_vars
-----------------------------------------------------------------------------
(* Types *)

Resolution == [id : Items, at : Nat, decision : {"accept", "reject"},
               ordinal : Nat]

Plan == [heads : SUBSET Nat, pointer : Nat, survivor : Nat, strict : BOOLEAN,
         resolutions : SUBSET Resolution, rejectLineages : SUBSET Nat]

Request == [op : AllOperations, version : {"legacy", "v3"}, agent : Agents,
            key : Nat, expected : Nat, ack : BOOLEAN,
            changes : ChangeLists, body : PatchBody, plan : Plan]

Record == [survivor : Nat, retired : SUBSET Nat, adopted : SUBSET Nat,
           resolutions : SUBSET Resolution, strict : BOOLEAN]

SnapshotType ==
    [parent : Nat, request : Request,
     source : {"write", "backfill"},
     ledger : UNION {[1 .. n -> Entry] : n \in 0 .. MaxChanges},
     record : Record, state : [Fields -> Contents \cup {Absent}]]

(* Every variable holds what its table can hold. *)
TypeOK ==
    /\ snapshots \in Seq(SnapshotType)
    /\ \A s \in States : Parent(s) < s
    /\ retirements \subseteq [state : States, by : States]
    /\ pointer \in [state : {NoState} \cup States, reason : PointerReasons]
    /\ rows \in [Items -> Row]
    /\ binary \in {"pre-H1", "current"}
    /\ rollbacks \in 0 .. MaxRollbacks
-----------------------------------------------------------------------------
(* Safety *)

(* heads.ts, effectiveCurrentHead: unless an older binary has been put     *)
(* back, the pointed head is live: no interleaving of branches, stale      *)
(* writes, resurrections and reconciles produces an invalid designation.   *)
PointerIsLive ==
    rollbacks = 0 => pointer = NoPointer \/ pointer.state \in LiveHeads

(* checkpoint.ts, CheckpointEmptyScopeError: a scope with history always   *)
(* has a live head, so a conflict always has a head to offer.              *)
HistoryHasAHead == States # {} => LiveHeads # {}

(* checkpoint.ts, "Idempotency FIRST": one key never writes two snapshots, *)
(* however often and however late its request is delivered.                *)
OneSnapshotPerKey ==
    \A s, t \in States :
        snapshots[s].request.key = snapshots[t].request.key => s = t

(* The same request answers with its snapshot for ever: also the first     *)
(* write once the scope has history, a write whose parent was retired, and *)
(* a reconcile after the heads it named are gone.                          *)
RetryReplays ==
    \A s \in States : Answer(snapshots[s].request) = "idempotent-replay"

(* The fail-closed verifiers of reconcile.ts and versions.ts accept every  *)
(* history the writers produce: no legal sequence of requests leaves a     *)
(* scope that can never be reconciled or resumed again.                    *)
EvidenceStands == \A h \in States : EvidenceVerified(h)

(* reconcile.ts 4.2: an admitted reconcile always passes the parity check  *)
(* it makes of its own rows before the commit; the evaluation and the      *)
(* verification of a plan never disagree.                                  *)
AdmittedReconcilesCommit ==
    binary = "current" =>
        \A r \in ReconcileRequests :
            Answer(r) = "written" => ENABLED Reconcile(r)

(* heads.ts 3.3: every scope can be repaired from every one of its heads,  *)
(* whatever stale writes, resurrections, rollbacks and backfills it went   *)
(* through: rejecting all that is unresolved is always admitted.           *)
RepairStaysOpen ==
    \A h \in LiveHeads, a \in Agents, body \in FullBody :
        LET bare == [NoPlan EXCEPT !.heads = LiveHeads, !.survivor = h,
                                   !.pointer = pointer.state, !.strict = TRUE]
            plan == [bare EXCEPT !.resolutions =
                        {[id |-> t.id, at |-> t.at, decision |-> "reject",
                          ordinal |-> 0] : t \in Unresolved(bare)}]
        IN  Answer([op |-> "reconcile", version |-> "v3", agent |-> a,
                    key |-> FreshKey, expected |-> h, ack |-> TRUE,
                    changes |-> <<>>, body |-> body, plan |-> plan])
              = "written"

(* resume.ts: working states stay complete along every lineage, so record  *)
(* and patch never find a pointed head they cannot extend.                 *)
StatesStayValid ==
    \A s \in States : ValidWorkingState(snapshots[s].state)

(* reconcile.ts, strict: right after a strict reconcile a reader of the    *)
(* new head is owed no decision on any divergent value.                    *)
StrictLeavesNothingOwed ==
    LET last == Len(snapshots)
    IN  last > 0 /\ snapshots[last].record.strict => OwedTerminals(last) = {}

(* The frozen in-place view and the versioned view agree while the scope   *)
(* never branches: on a single lineage the last writer is the newest       *)
(* accepted tuple, unless a backfill could not prove its owner.            *)
ViewsAgreeOnALine ==
    \A h \in States, id \in Items :
        LET at == AcceptedAt(h, id)
        IN  Lineage[h] = States /\ at # NoState /\ ~NewestIn(at, id).opaque
              => rows[id] = [value |-> NewestIn(at, id).value,
                             owner |-> NewestIn(at, id).owner]
-----------------------------------------------------------------------------
(* Action properties *)

(* heads.ts 3.2a: the pointer moves only to a child of the pointed head or *)
(* to a reconcile that named this pointer and exactly the live heads.  A   *)
(* write on a stale parent never becomes current.                          *)
PointerMovesForward ==
    [][pointer' # pointer =>
          LET moved == snapshots'[pointer'.state]
          IN  \/ moved.parent = pointer.state
              \/ /\ pointer'.reason = "reconcile"
                 /\ moved.request.plan.heads = LiveHeads
                 /\ moved.request.plan.pointer = pointer.state]_vars

(* A reconcile folds every live head: exactly one is left, the pointed one.*)
ReconcileConverges ==
    [][pointer' # pointer /\ pointer'.reason = "reconcile"
          => LiveHeads' = {pointer'.state}]_vars

(* Once a head set or a pointer has been seen and lost it never comes      *)
(* back: a reconcile, record or patch that lost its race can never be      *)
(* admitted later on the strength of a repeated value.                     *)
ExpectationsNeverReturn ==
    [][/\ \A H \in SUBSET States : H # LiveHeads => H # LiveHeads'
       /\ \A s \in States : s # pointer.state => s # pointer'.state]_vars

(* heads.ts: an undesignated scope with history and an invalid designation *)
(* are left by a reconcile only, never by a write that happens to extend   *)
(* the right snapshot.                                                     *)
DesignationOnlyByReconcile ==
    [][pointer' # pointer =>
          \/ Selection \notin {"max-revision", "invalid-designation"}
          \/ pointer'.reason = "reconcile"]_vars

(* checkpoint.ts 5.2: a record or patch changes the current state by its   *)
(* own fields only; nothing another agent put there is lost.               *)
DerivedStateKeepsTheRest ==
    [][\A s \in States' \ States :
          (snapshots[s].request.op)' \in {"record", "patch"} =>
             /\ EffectiveHead' = s
             /\ \A f \in Fields \ DOMAIN (snapshots[s].request.body)' :
                   (snapshots[s].state[f])'
                      = snapshots[EffectiveHead].state[f]]_vars

(* reconcile.ts 6.3: a divergent value a reader of the current head is     *)
(* owed stays owed until a reconcile decides it, a later change on its own *)
(* chain replaces it, or its snapshot is adopted into the lineage.         *)
OwedUntilAnswered ==
    [][Selection = "pointer" /\ Selection' = "pointer" =>
          \A t \in OwedTerminals(pointer.state) :
             \/ t \in OwedTerminals(pointer.state)'
             \/ t \in ResolvedKeys(Lineage[pointer.state])'
             \/ t.at \in Lineage[pointer.state]'
             \/ \E s \in States' \ States :
                   /\ t.at \in Lineage[s]'
                   /\ s \in StatesNaming(t.id)']_vars
-----------------------------------------------------------------------------
(* Refinement: the snapshot forest, the retirement rows and the pointer    *)
(* implement the frontier of HeadFrontier, whichever binaries are deployed *)
(* in turn.                                                                *)
Frontier == INSTANCE HeadFrontier
                WITH State <- 1 .. MaxRevision, NoState <- NoState,
                     seen <- States, open <- LiveHeads,
                     current <- pointer.state,
                     designates <- (binary = "current")

FrontierIsImplemented == Frontier!FrontierSpec
-----------------------------------------------------------------------------
(* design note 6.3, "never merged silently": an owner the accepted lineage *)
(* shows was named or held by an author on that lineage.                   *)
AcceptedOwnerIsAccepted ==
    Selection = "pointer" =>
        \A id \in Loops :
            LET at == AcceptedAt(pointer.state, id)
            IN  at # NoState /\ ~NewestIn(at, id).opaque =>
                \E s \in Lineage[pointer.state] :
                    \/ snapshots[s].request.agent = NewestIn(at, id).owner
                    \/ \E i \in DOMAIN snapshots[s].request.changes :
                          /\ snapshots[s].request.changes[i].id = id
                          /\ snapshots[s].request.changes[i].owner
                                = NewestIn(at, id).owner
=============================================================================
