-------------------------- MODULE Checkpoint_proof --------------------------
(***************************************************************************)
(* Proofs about Checkpoint and ReadModel, for every value of their         *)
(* constants.                                                              *)
(***************************************************************************)
EXTENDS ReadModel, WellFoundedInduction, TLAPS

(* The community module's Max is the largest element of a non-empty set of *)
(* naturals that is bounded.                                               *)
LEMMA MaxIsTheLargest ==
    ASSUME NEW n \in Nat, NEW S \in SUBSET (0 .. n), S # {}
    PROVE  /\ Max(S) \in S
           /\ \A y \in S : y <= Max(S)
<1> DEFINE R == OpToRel(<, Nat)
           T == {n - x : x \in S}
<1> HIDE DEF R
<1>1. \A x \in S : x \in Int /\ n - x \in Nat
  OBVIOUS
<1>2. T \subseteq Nat /\ T # {}
  BY <1>1
<1> HIDE DEF T
<1>3. IsWellFoundedOn(R, Nat)
  BY NatLessThanWellFounded DEF R
<1>4. \E t \in T : \A u \in T : ~ (<<u, t>> \in R)
  BY <1>2, <1>3, WFMin
<1>5. PICK t \in T : \A u \in T : ~ (u < t)
  BY <1>2, <1>4 DEF OpToRel, R
<1>6. PICK x \in S : t = n - x
  BY <1>5 DEF T
<1>7. ASSUME NEW y \in S PROVE x >= y
  <2>1. n - y \in T
    BY DEF T
  <2> QED BY <1>1, <1>5, <1>6, <2>1
<1>8. \E m \in S : \A y \in S : m >= y
  BY <1>7
<1> QED BY <1>1, <1>8 DEF Max
-----------------------------------------------------------------------------
(* The change ledger *)

Owners == Agents \cup {NoOwner}

Ledgers == UNION {[1 .. n -> Entry] : n \in 0 .. MaxChanges}

(* What a change list is, item by item. *)
LEMMA ChangeListShape ==
    ASSUME NEW changes \in ChangeLists
    PROVE  \E n \in 0 .. MaxChanges :
               /\ DOMAIN changes = 1 .. n
               /\ \A i \in 1 .. n : changes[i] \in Change
BY BoundsAssumption DEF ChangeLists

(* The owner in effect is an owner, whatever is inherited. *)
LEMMA OwnerInEffectIsAnOwner ==
    ASSUME NEW changes \in ChangeLists, NEW i \in DOMAIN changes,
           NEW author \in Agents, NEW inherited \in Owners
    PROVE  OwnerInEffect(changes, i, author, inherited) \in Owners
<1>1. PICK n \in 0 .. MaxChanges : /\ DOMAIN changes = 1 .. n
                                  /\ \A j \in 1 .. n : changes[j] \in Change
  BY ChangeListShape
<1>2. n \in Nat /\ i \in 1 .. n
  BY <1>1, BoundsAssumption
<1>3. ASSUME OwnerNamedAt(changes, i) # {}
      PROVE  changes[Max(OwnerNamedAt(changes, i))].owner \in Owners
  <2>1. OwnerNamedAt(changes, i) \in SUBSET (0 .. n)
    BY <1>2 DEF OwnerNamedAt
  <2>2. Max(OwnerNamedAt(changes, i)) \in OwnerNamedAt(changes, i)
    BY <1>2, <1>3, <2>1, MaxIsTheLargest
  <2>3. Max(OwnerNamedAt(changes, i)) \in 1 .. n
    BY <1>2, <2>2 DEF OwnerNamedAt
  <2> QED BY <1>1, <2>3 DEF Change, Owners
<1> QED BY <1>3 DEF OwnerInEffect, Owners

(* applyFactChanges and applyLoopChanges write a well-formed ledger. *)
LEMMA WrittenEntriesAreALedger ==
    ASSUME TypeOK, NEW changes \in ChangeLists, NEW author \in Agents
    PROVE  WrittenEntries(changes, author) \in Ledgers
<1>1. PICK n \in 0 .. MaxChanges : /\ DOMAIN changes = 1 .. n
                                  /\ \A j \in 1 .. n : changes[j] \in Change
  BY ChangeListShape
<1>2. ASSUME NEW i \in 1 .. n
      PROVE  WrittenEntries(changes, author)[i] \in Entry
  <2>1. changes[i].id \in Items /\ changes[i].value \in Values
    BY <1>1, <1>2 DEF Change
  <2>2. rows[changes[i].id].owner \in Owners
    BY <2>1 DEF TypeOK, Row, Owners
  <2>3. OwnerInEffect(changes, i, author, rows[changes[i].id].owner) \in Owners
    BY <1>1, <1>2, <2>2, OwnerInEffectIsAnOwner
  <2> QED BY <1>1, <2>1, <2>3 DEF WrittenEntries, Entry, Owners
<1>3. WrittenEntries(changes, author) \in [1 .. n -> Entry]
  BY <1>1, <1>2 DEF WrittenEntries
<1> QED BY <1>1, <1>3 DEF Ledgers

(* The in-place rows stay rows. *)
LEMMA RowsAfterAreRows ==
    ASSUME TypeOK, NEW changes \in ChangeLists, NEW author \in Agents
    PROVE  RowsAfter(changes, author) \in [Items -> Row]
<1>1. PICK n \in 0 .. MaxChanges : /\ DOMAIN changes = 1 .. n
                                  /\ \A j \in 1 .. n : changes[j] \in Change
  BY ChangeListShape
<1>2. PICK m \in 0 .. MaxChanges :
          WrittenEntries(changes, author) \in [1 .. m -> Entry]
  BY WrittenEntriesAreALedger DEF Ledgers
<1>3. DOMAIN WrittenEntries(changes, author) = 1 .. n
  BY <1>1 DEF WrittenEntries
<1>4. n \in Nat
  BY <1>1, BoundsAssumption
<1>5. ASSUME NEW id \in Items PROVE RowsAfter(changes, author)[id] \in Row
  <2> DEFINE named == {i \in DOMAIN changes : changes[i].id = id}
             last  == WrittenEntries(changes, author)[Max(named)]
  <2>1. RowsAfter(changes, author)[id] =
           IF named = {} THEN rows[id]
           ELSE [value |-> last.value, owner |-> last.owner]
    BY DEF RowsAfter
  <2>2. CASE named = {}
    BY <2>1, <2>2 DEF TypeOK
  <2>3. CASE named # {}
    <3>1. named \in SUBSET (0 .. n)
      BY <1>1, <1>4
    <3>2. Max(named) \in 1 .. n
      BY <1>1, <1>4, <2>3, <3>1, MaxIsTheLargest
    <3>3. last \in Entry
      BY <1>2, <1>3, <3>2
    <3> HIDE DEF last, named
    <3> QED BY <2>1, <2>3, <3>3 DEF Entry, Row
  <2> QED BY <2>2, <2>3
<1> QED BY <1>5 DEF RowsAfter

(* Ordinals naming an item, in a snapshot of the scope, are ordinals.      *)
LEMMA NewestInIsAnEntry ==
    ASSUME TypeOK, NEW s \in States, NEW id \in Items,
           OrdinalsNaming(s, id) # {}
    PROVE  NewestIn(s, id) \in Entry
<1>1. snapshots[s] \in SnapshotType
  BY DEF TypeOK, States
<1>2. PICK n \in 0 .. MaxChanges : snapshots[s].ledger \in [1 .. n -> Entry]
  BY <1>1 DEF SnapshotType
<1>3. n \in Nat /\ OrdinalsNaming(s, id) \in SUBSET (0 .. n)
  BY <1>2, BoundsAssumption DEF OrdinalsNaming
<1>4. Max(OrdinalsNaming(s, id)) \in OrdinalsNaming(s, id)
  BY <1>3, MaxIsTheLargest
<1>5. Max(OrdinalsNaming(s, id)) \in DOMAIN snapshots[s].ledger
  BY <1>4 DEF OrdinalsNaming
<1> QED BY <1>2, <1>5 DEF NewestIn

LEMMA PredecessorOwnerIsAnOwner ==
    ASSUME TypeOK, NEW id \in Items, NEW s \in Nat
    PROVE  PredecessorOwner(id, s) \in Owners
<1> DEFINE prior == {t \in StatesNaming(id) : t < s}
<1>1. Len(snapshots) \in Nat
  BY DEF TypeOK
<1>2. ASSUME prior # {}
      PROVE  NewestIn(Max(prior), id) \in Entry
  <2>1. prior \in SUBSET (0 .. Len(snapshots))
    BY <1>1 DEF StatesNaming, States
  <2>2. Max(prior) \in prior
    BY <1>1, <1>2, <2>1, MaxIsTheLargest
  <2>3. Max(prior) \in States /\ OrdinalsNaming(Max(prior), id) # {}
    BY <2>2 DEF StatesNaming
  <2> QED BY <2>3, NewestInIsAnEntry
<1> QED BY <1>2 DEF PredecessorOwner, Owners, Entry

(* The migration's expectation is a well-formed ledger too. *)
LEMMA BackfilledEntriesAreALedger ==
    ASSUME TypeOK, NEW changes \in ChangeLists, NEW author \in Agents,
           NEW s \in Nat
    PROVE  BackfilledEntries(changes, author, s) \in Ledgers
<1>1. PICK n \in 0 .. MaxChanges : /\ DOMAIN changes = 1 .. n
                                  /\ \A j \in 1 .. n : changes[j] \in Change
  BY ChangeListShape
<1>2. ASSUME NEW i \in 1 .. n
      PROVE  BackfilledEntries(changes, author, s)[i] \in Entry
  <2> DEFINE owner == OwnerInEffect(changes, i, author,
                                    PredecessorOwner(changes[i].id, s))
  <2>1. changes[i].id \in Items /\ changes[i].value \in Values
    BY <1>1, <1>2 DEF Change
  <2>2. owner \in Owners
    BY <1>1, <1>2, <2>1, PredecessorOwnerIsAnOwner, OwnerInEffectIsAnOwner
  <2>3. BackfilledEntries(changes, author, s)[i] =
           [id |-> changes[i].id, value |-> changes[i].value, owner |-> owner,
            opaque |-> changes[i].id \in Loops /\ owner = NoOwner]
    BY <1>1, <1>2 DEF BackfilledEntries
  <2>4. (changes[i].id \in Loops /\ owner = NoOwner) \in BOOLEAN
    OBVIOUS
  <2> HIDE DEF owner
  <2> QED BY <2>1, <2>2, <2>3, <2>4 DEF Entry, Owners
<1>3. BackfilledEntries(changes, author, s) \in [1 .. n -> Entry]
  BY <1>1, <1>2 DEF BackfilledEntries
<1> QED BY <1>1, <1>3 DEF Ledgers
-----------------------------------------------------------------------------
(* Requests *)

(* A reconcile's request: terminals name items at states of the scope.     *)
LEMMA TerminalsAreTyped ==
    ASSUME TypeOK, NEW chain
    PROVE  TerminalsOn(chain) \subseteq [id : Items, at : States]
<1>1. ASSUME NEW i \in Items, chain \cap StatesNaming(i) # {}
      PROVE  Max(chain \cap StatesNaming(i)) \in States
  <2>1. /\ Len(snapshots) \in Nat
        /\ chain \cap StatesNaming(i) \in SUBSET (0 .. Len(snapshots))
    BY DEF TypeOK, StatesNaming, States
  <2>2. Max(chain \cap StatesNaming(i)) \in chain \cap StatesNaming(i)
    BY <1>1, <2>1, MaxIsTheLargest
  <2> QED BY <2>2 DEF StatesNaming
<1>2. ASSUME NEW t \in TerminalsOn(chain) PROVE t \in [id : Items, at : States]
  <2>1. PICK i \in Items : /\ chain \cap StatesNaming(i) # {}
                           /\ t = [id |-> i, at |-> Max(chain \cap StatesNaming(i))]
    BY DEF TerminalsOn
  <2>2. Max(chain \cap StatesNaming(i)) \in States
    BY <1>1, <2>1
  <2> QED BY <2>1, <2>2, Zenon
<1> QED BY <1>2

LEMMA ResolutionsAreTyped ==
    ASSUME TypeOK, NEW plan
    PROVE  /\ Unresolved(plan) \subseteq [id : Items, at : States]
           /\ ResolutionSets(Unresolved(plan)) \subseteq SUBSET Resolution
<1>1. Unresolved(plan) \subseteq [id : Items, at : States]
  BY TerminalsAreTyped DEF Unresolved, Terminals
<1>2. \A t \in Unresolved(plan) : t.id \in Items /\ t.at \in Nat
  BY <1>1 DEF States
<1>3. ASSUME NEW T \in SUBSET Unresolved(plan),
             NEW choice \in [T -> 0 .. MaxChanges], NEW t \in T
      PROVE  [id |-> t.id, at |-> t.at,
              decision |-> IF choice[t] = 0 THEN "reject" ELSE "accept",
              ordinal |-> choice[t]] \in Resolution
  BY <1>2, BoundsAssumption DEF Resolution
<1>4. \A T \in SUBSET Unresolved(plan) : \A choice \in [T -> 0 .. MaxChanges] :
         {[id |-> t.id, at |-> t.at,
           decision |-> IF choice[t] = 0 THEN "reject" ELSE "accept",
           ordinal |-> choice[t]] : t \in DOMAIN choice} \subseteq Resolution
  BY <1>3
<1> QED BY <1>1, <1>4 DEF ResolutionSets

(* Every request a client forms has the form of its input schema.          *)
LEMMA RequestsAreTyped ==
    ASSUME TypeOK
    PROVE  /\ WriteRequests \subseteq Request
           /\ \A r \in WriteRequests : r.op = "write" /\ r.body \in FullBody
           /\ DeriveRequests \subseteq Request
           /\ \A r \in DeriveRequests : /\ r.op \in {"record", "patch"}
                                        /\ r.expected \in States
           /\ ReconcileRequests \subseteq Request
           /\ \A r \in ReconcileRequests :
                 r.op = "reconcile" /\ r.body \in FullBody
<1>1. /\ FreshKey \in Nat /\ States \subseteq Nat
      /\ LiveHeads \subseteq Nat /\ RetiredHeads \subseteq Nat
      /\ pointer.state \in Nat /\ NoState \in Nat
  <2>1. Len(snapshots) \in Nat /\ States \subseteq Nat
    BY DEF TypeOK, States
  <2>2. RetiredHeads \subseteq States
    BY DEF TypeOK, RetiredHeads
  <2>3. pointer.state \in {NoState} \cup States
    BY DEF TypeOK
  <2>4. FreshKey \in Nat /\ NoState \in Nat
    BY <2>1 DEF FreshKey, NoState
  <2>5. LiveHeads \subseteq States
    BY DEF LiveHeads
  <2> QED BY <2>1, <2>2, <2>3, <2>4, <2>5
<1>2. FullBody \subseteq PatchBody
  BY DEF FullBody, PatchBody
<1>3. NoPlan \in Plan
  BY DEF NoPlan, Plan, NoState
<1>4. SentChanges \subseteq ChangeLists
  BY DEF SentChanges
<1>5. /\ WriteRequests \subseteq Request
      /\ \A r \in WriteRequests : r.op = "write" /\ r.body \in FullBody
  BY <1>1, <1>2, <1>3, <1>4, BoundsAssumption
     DEF WriteRequests, Request, AllOperations
<1>6. /\ DeriveRequests \subseteq Request
      /\ \A r \in DeriveRequests : /\ r.op \in {"record", "patch"}
                                   /\ r.expected \in States
  BY <1>1, <1>3, <1>4 DEF DeriveRequests, Request, AllOperations
<1>7. AnyPlans \subseteq Plan
  <2>1. \A n \in States : LiveHeadsAt(n) \subseteq Nat
    BY <1>1 DEF LiveHeadsAt
  <2>2. ASSUME NEW n \in States
        PROVE  [heads : {LiveHeadsAt(n)}, pointer : {NoState} \cup States,
                survivor : LiveHeadsAt(n), strict : Strictness,
                resolutions : {{}}, rejectLineages : {{}}] \subseteq Plan
    BY <1>1, <2>1, BoundsAssumption DEF Plan
  <2> QED BY <2>2 DEF AnyPlans
<1>8. ASSUME NEW h \in LiveHeads PROVE CurrentPlans(h) \subseteq Plan
  <2> DEFINE bare == [NoPlan EXCEPT !.heads = LiveHeads, !.survivor = h]
  <2>1. bare.heads = LiveHeads
    BY DEF NoPlan
  <2>2. DivergentHeads(bare) \subseteq Nat
    BY <1>1, <2>1 DEF DivergentHeads
  <2>3. ResolutionSets(Unresolved(bare)) \subseteq SUBSET Resolution
    BY ResolutionsAreTyped
  <2>4. CurrentPlans(h) \subseteq
           [heads : {LiveHeads}, pointer : {pointer.state}, survivor : {h},
            strict : Strictness,
            resolutions : ResolutionSets(Unresolved(bare)),
            rejectLineages : SUBSET DivergentHeads(bare)]
    BY DEF CurrentPlans
  <2> HIDE DEF bare
  <2> QED BY <1>1, <2>2, <2>3, <2>4, BoundsAssumption DEF Plan
<1>9. /\ ReconcileRequests \subseteq Request
      /\ \A r \in ReconcileRequests : r.op = "reconcile" /\ r.body \in FullBody
  <2>1. AnyPlans \cup UNION {CurrentPlans(h) : h \in LiveHeads} \subseteq Plan
    BY <1>7, <1>8
  <2>2. \A p \in Plan : p.survivor \in Nat
    BY DEF Plan
  <2> HIDE DEF AnyPlans, CurrentPlans
  <2> QED BY <1>1, <1>2, <1>4, <2>1, <2>2, BoundsAssumption
          DEF ReconcileRequests, Request, AllOperations
<1> QED BY <1>5, <1>6, <1>9
-----------------------------------------------------------------------------
(* Admission *)

(* What is delivered again names its own snapshot and is never written.    *)
LEMMA SentAgainIsNotWritten ==
    ASSUME NEW r \in SentAgain
    PROVE  Answer(r) # "written"
<1>1. PICK s \in States : r = snapshots[s].request
  BY DEF SentAgain
<1>2. s \in KeyHolders(r)
  BY <1>1 DEF KeyHolders
<1> QED BY <1>2 DEF Answer, KeyAnswer

(* An admitted request names no parent only in an empty scope, and else a  *)
(* snapshot of the scope; an admitted reconcile names the frontier.        *)
LEMMA AdmittedParent ==
    ASSUME NEW r, r.op \in AllOperations, Answer(r) = "written"
    PROVE  /\ r.expected = NoState => States = {}
           /\ r.expected # NoState => r.expected \in States
           /\ r.op = "reconcile" => LiveHeads # {} /\ NamesTheFrontier(r)
<1>1. Admission(r) = "written"
  BY DEF Answer, KeyAnswer
<1>2. /\ r.expected = NoState => States = {}
      /\ r.expected # NoState => r.expected \in States
  BY <1>1 DEF Admission
<1>3. ASSUME r.op = "reconcile" PROVE ReconcileAnswer(r) = "written"
  BY <1>1, <1>2, <1>3 DEF Admission
<1> QED BY <1>2, <1>3 DEF ReconcileAnswer

(* The state put on a snapshot is a map of the fields. *)
LEMMA StateForIsAState ==
    ASSUME TypeOK, NEW r \in WriteRequests \cup DeriveRequests \cup ReconcileRequests
    PROVE  StateFor(r) \in [Fields -> Contents \cup {Absent}]
<1>1. CASE r \in WriteRequests \cup ReconcileRequests
  BY <1>1, RequestsAreTyped DEF StateFor, FullBody
<1>2. CASE r \in DeriveRequests
  <2>1. r.op \in {"record", "patch"} /\ r.expected \in States /\ r.body \in PatchBody
    BY <1>2, RequestsAreTyped DEF Request
  <2>2. snapshots[r.expected] \in SnapshotType
    BY <2>1 DEF TypeOK, States
  <2>3. snapshots[r.expected].state \in [Fields -> Contents \cup {Absent}]
    BY <2>2 DEF SnapshotType
  <2>4. \A f \in DOMAIN r.body : r.body[f] \in Contents \cup {Absent}
    BY <2>1 DEF PatchBody
  <2> QED BY <2>1, <2>3, <2>4 DEF StateFor
<1> QED BY <1>1, <1>2

(* The reconciliation record is typed when its plan and the scope are. *)
LEMMA ReconcileRecordIsARecord ==
    ASSUME TypeOK, NEW plan \in Plan
    PROVE  ReconcileRecord(plan) \in Record
<1>1. RejectedByLineage(plan) \subseteq [id : Items, at : States]
  BY ResolutionsAreTyped DEF RejectedByLineage
<1>2. \A t \in RejectedByLineage(plan) :
         [id |-> t.id, at |-> t.at, decision |-> "reject", ordinal |-> 0]
            \in Resolution
  BY <1>1 DEF Resolution, States
<1>3. AllResolutions(plan) \subseteq Resolution
  BY <1>2 DEF AllResolutions, Plan
<1>4. AdoptedRetired(plan.survivor) \subseteq Nat
  BY DEF AdoptedRetired, RetiredHeads, TypeOK, States
<1> HIDE DEF AllResolutions, AdoptedRetired
<1> QED BY <1>3, <1>4 DEF ReconcileRecord, Record, Plan

LEMMA SnapshotIsTyped ==
    ASSUME TypeOK,
           NEW r \in WriteRequests \cup DeriveRequests \cup ReconcileRequests,
           NEW source \in {"write", "backfill"}, NEW ledger \in Ledgers
    PROVE  Snapshot(r, source, ledger) \in SnapshotType
<1>1. r \in Request
  BY RequestsAreTyped
<1>2. r.plan \in Plan /\ r.expected \in Nat
  BY <1>1 DEF Request
<1>3. NoRecord \in Record
  BY DEF NoRecord, Record, NoState
<1>4. ReconcileRecord(r.plan) \in Record
  BY <1>2, ReconcileRecordIsARecord
<1>5. StateFor(r) \in [Fields -> Contents \cup {Absent}]
  BY StateForIsAState
<1> HIDE DEF ReconcileRecord, StateFor, NoRecord, Record, Request
<1> QED BY <1>1, <1>2, <1>3, <1>4, <1>5 DEF Snapshot, SnapshotType, Ledgers
-----------------------------------------------------------------------------
(* Type correctness *)

(* One more row: the old ones keep their place. *)
LEMMA OneMoreSnapshot ==
    ASSUME TypeOK, NEW snap, snapshots' = Append(snapshots, snap)
    PROVE  /\ NewState \in Nat \ {0} /\ NewState \notin States
           /\ States \subseteq Nat \ {0}
           /\ States' = States \cup {NewState} /\ Len(snapshots)' = NewState
           /\ \A s \in States : s < NewState /\ snapshots'[s] = snapshots[s]
           /\ snapshots'[NewState] = snap
<1>1. snapshots \in Seq(SnapshotType)
  BY DEF TypeOK
<1>2. Len(snapshots) \in Nat
  BY <1>1
<1>3. Len(snapshots') = Len(snapshots) + 1
  BY <1>1
<1> QED BY <1>1, <1>2, <1>3 DEF States, NewState

(* What every writing step does to the types. *)
LEMMA InsertKeepsTypes ==
    ASSUME TypeOK,
           NEW r \in WriteRequests \cup DeriveRequests \cup ReconcileRequests,
           NEW source \in {"write", "backfill"}, NEW ledger \in Ledgers,
           Answer(r) = "written",
           snapshots' = Append(snapshots, Snapshot(r, source, ledger)),
           rows' = RowsAfter(r.changes, r.agent)
    PROVE  /\ snapshots' \in Seq(SnapshotType)
           /\ \A s \in States' : Parent(s)' < s
           /\ rows' \in [Items -> Row]
<1>1. r \in Request
  BY RequestsAreTyped
<1>2. Snapshot(r, source, ledger) \in SnapshotType
  BY SnapshotIsTyped
<1>3. snapshots' \in Seq(SnapshotType)
  BY <1>2 DEF TypeOK
<1>4. /\ NewState \in Nat \ {0} /\ States' = States \cup {NewState}
      /\ \A s \in States : s < NewState /\ snapshots'[s] = snapshots[s]
      /\ snapshots'[NewState].parent = r.expected
  BY OneMoreSnapshot DEF Snapshot
<1>5. r.expected < NewState
  <2>1. r.expected \in {NoState} \cup States
    BY <1>1, AdmittedParent DEF Request
  <2> QED BY <1>4, <2>1 DEF NoState
<1>6. \A s \in States' : Parent(s)' < s
  BY <1>4, <1>5 DEF TypeOK, Parent
<1>7. rows' \in [Items -> Row]
  BY <1>1, RowsAfterAreRows DEF Request
<1> QED BY <1>3, <1>6, <1>7

(* The tables of a scope hold what their columns can hold, whatever is     *)
(* written, reconciled, upgraded or rolled back: ledger tuples name known  *)
(* items, parents are older than their children, and the retirement rows   *)
(* and the pointer name snapshots of the scope.                            *)
THEOREM TypeCorrect == Spec => []TypeOK
<1>1. Init => TypeOK
  <2> SUFFICES ASSUME Init PROVE TypeOK
    OBVIOUS
  <2>1. snapshots = <<>> /\ snapshots \in Seq(SnapshotType) /\ States = {}
    BY DEF Init, States
  <2>2. rows \in [Items -> Row]
    BY DEF Init
  <2>3. pointer \in [state : {NoState} \cup States, reason : PointerReasons]
    BY DEF Init, NoPointer, PointerReasons
  <2> QED BY <2>1, <2>2, <2>3, BoundsAssumption DEF Init, TypeOK
<1>2. TypeOK /\ [Next]_vars => TypeOK'
  <2> SUFFICES ASSUME TypeOK, [Next]_vars PROVE TypeOK'
    OBVIOUS
  <2>1. ASSUME NEW r \in WriteRequests \cup DeriveRequests \cup SentAgain, Write(r)
        PROVE  TypeOK'
    <3>1. r \in WriteRequests \cup DeriveRequests
      BY <2>1, SentAgainIsNotWritten DEF Write
    <3>2. r \in Request
      BY <3>1, RequestsAreTyped
    <3>3. WrittenEntries(r.changes, r.agent) \in Ledgers
      BY <3>2, WrittenEntriesAreALedger DEF Request
    <3>4. /\ snapshots' \in Seq(SnapshotType)
          /\ \A s \in States' : Parent(s)' < s
          /\ rows' \in [Items -> Row]
      BY <2>1, <3>1, <3>3, InsertKeepsTypes DEF Write, Insert
    <3>5. States' = States \cup {NewState}
      BY <2>1, OneMoreSnapshot DEF Write, Insert
    <3>6. pointer' \in [state : {NoState} \cup States', reason : PointerReasons]
      BY <2>1, <3>5 DEF Write, AdvancedPointer, TypeOK, NoPointer, PointerReasons
    <3>7. retirements' \subseteq [state : States', by : States']
      BY <2>1, <3>5 DEF Write, TypeOK
    <3>8. binary' \in {"pre-H1", "current"} /\ rollbacks' \in 0 .. MaxRollbacks
      BY <2>1 DEF Write, TypeOK
    <3> QED BY <3>4, <3>6, <3>7, <3>8 DEF TypeOK
  <2>2. ASSUME NEW r \in ReconcileRequests \cup SentAgain, Reconcile(r)
        PROVE  TypeOK'
    <3>1. r \in ReconcileRequests
      BY <2>2, SentAgainIsNotWritten DEF Reconcile
    <3>2. r \in Request
      BY <3>1, RequestsAreTyped
    <3>3. WrittenEntries(r.changes, r.agent) \in Ledgers
      BY <3>2, WrittenEntriesAreALedger DEF Request
    <3>4. /\ snapshots' \in Seq(SnapshotType)
          /\ \A s \in States' : Parent(s)' < s
          /\ rows' \in [Items -> Row]
      BY <2>2, <3>1, <3>3, InsertKeepsTypes DEF Reconcile, Insert
    <3>5. States' = States \cup {NewState}
      BY <2>2, OneMoreSnapshot DEF Reconcile, Insert
    <3>6. pointer' \in [state : {NoState} \cup States', reason : PointerReasons]
      BY <2>2, <3>5 DEF Reconcile, ReconciledPointer, PointerReasons
    <3>7. r.plan.heads = LiveHeads
      BY <2>2, <3>2, AdmittedParent DEF Reconcile, Request, NamesTheFrontier
    <3>8. ReconcileRecord(r.plan).retired \subseteq States
      BY <3>7 DEF ReconcileRecord, LiveHeads
    <3>9. retirements' \subseteq [state : States', by : States']
      BY <2>2, <3>5, <3>8 DEF Reconcile, TypeOK
    <3>10. binary' \in {"pre-H1", "current"} /\ rollbacks' \in 0 .. MaxRollbacks
      BY <2>2 DEF Reconcile, TypeOK
    <3> QED BY <3>4, <3>6, <3>9, <3>10 DEF TypeOK
  <2>3. ASSUME NEW r \in WriteRequests \cup SentAgain, PreH1Write(r)
        PROVE  TypeOK'
    <3>1. r \in WriteRequests
      BY <2>3, SentAgainIsNotWritten DEF PreH1Write
    <3>2. r \in Request
      BY <3>1, RequestsAreTyped
    <3>3. NewState \in Nat
      BY <2>3, OneMoreSnapshot DEF PreH1Write
    <3>4. BackfilledEntries(r.changes, r.agent, NewState) \in Ledgers
      BY <3>2, <3>3, BackfilledEntriesAreALedger DEF Request
    <3>5. /\ snapshots' \in Seq(SnapshotType)
          /\ \A s \in States' : Parent(s)' < s
          /\ rows' \in [Items -> Row]
      BY <2>3, <3>1, <3>4, InsertKeepsTypes DEF PreH1Write
    <3>6. States' = States \cup {NewState}
      BY <2>3, OneMoreSnapshot DEF PreH1Write
    <3>7. /\ pointer' \in [state : {NoState} \cup States', reason : PointerReasons]
          /\ retirements' \subseteq [state : States', by : States']
          /\ binary' \in {"pre-H1", "current"} /\ rollbacks' \in 0 .. MaxRollbacks
      BY <2>3, <3>6 DEF PreH1Write, TypeOK
    <3> QED BY <3>5, <3>7 DEF TypeOK
  <2>4. CASE Upgrade
    BY <2>4 DEF Upgrade, TypeOK, States, Parent
  <2>5. CASE Rollback
    BY <2>5, BoundsAssumption DEF Rollback, TypeOK, States, Parent
  <2>6. CASE UNCHANGED vars
    BY <2>6 DEF vars, TypeOK, States, Parent
  <2> QED BY <2>1, <2>2, <2>3, <2>4, <2>5, <2>6
          DEF Next, Writing, Reconciling, PreH1Writing
<1> QED BY <1>1, <1>2, PTL DEF Spec
-----------------------------------------------------------------------------
(* Idempotency *)

(* An admitted request's key names no snapshot: KeyAnswer is never         *)
(* "written".                                                              *)
LEMMA AdmittedKeyIsFresh ==
    ASSUME NEW r, Answer(r) = "written"
    PROVE  \A s \in States : snapshots[s].request.key # r.key
BY DEF Answer, KeyAnswer, KeyHolders

LEMMA FreshKeyKeepsKeysApart ==
    ASSUME TypeOK, OneSnapshotPerKey, NEW r, Answer(r) = "written",
           NEW snap, snap.request = r, snapshots' = Append(snapshots, snap)
    PROVE  OneSnapshotPerKey'
<1>1. /\ States' = States \cup {NewState} /\ snapshots'[NewState] = snap
      /\ \A s \in States : snapshots'[s] = snapshots[s]
  BY OneMoreSnapshot
<1>2. \A s \in States : snapshots[s].request.key # r.key
  BY AdmittedKeyIsFresh
<1>4. \A s \in States : snapshots'[s].request.key # snapshots'[NewState].request.key
  BY <1>1, <1>2
<1>5. \A s, t \in States :
        snapshots'[s].request.key = snapshots'[t].request.key => s = t
  BY <1>1 DEF OneSnapshotPerKey
<1>6. \A s, t \in States \cup {NewState} :
        snapshots'[s].request.key = snapshots'[t].request.key => s = t
  <2> TAKE s, t \in States \cup {NewState}
  <2>1. CASE s \in States /\ t \in States BY <2>1, <1>5
  <2>2. CASE s \in States /\ t = NewState BY <2>2, <1>4
  <2>3. CASE s = NewState /\ t \in States BY <2>3, <1>4
  <2> QED BY <2>1, <2>2, <2>3
<1> QED BY <1>1, <1>6 DEF OneSnapshotPerKey

(* checkpoint.ts, "Idempotency FIRST": one key never writes two snapshots, *)
(* however often its request is delivered, and whichever binary answers.   *)
THEOREM KeysNameOneSnapshot == Spec => []OneSnapshotPerKey
<1>1. Init => OneSnapshotPerKey
  BY DEF Init, OneSnapshotPerKey, States
<1>2. TypeOK /\ OneSnapshotPerKey /\ [Next]_vars => OneSnapshotPerKey'
  <2> SUFFICES ASSUME TypeOK, OneSnapshotPerKey, [Next]_vars
               PROVE  OneSnapshotPerKey'
    OBVIOUS
  <2>1. ASSUME NEW r, Write(r) \/ Reconcile(r) PROVE OneSnapshotPerKey'
    <3> DEFINE snap == Snapshot(r, "write", WrittenEntries(r.changes, r.agent))
    <3>1. /\ snapshots' = Append(snapshots, snap) /\ snap.request = r
          /\ Answer(r) = "written"
      BY <2>1 DEF Write, Reconcile, Insert, Snapshot
    <3> HIDE DEF snap
    <3> QED BY <3>1, FreshKeyKeepsKeysApart
  <2>2. ASSUME NEW r, PreH1Write(r) PROVE OneSnapshotPerKey'
    <3> DEFINE snap == Snapshot(r, "backfill",
                                BackfilledEntries(r.changes, r.agent, NewState))
    <3>1. /\ snapshots' = Append(snapshots, snap) /\ snap.request = r
          /\ Answer(r) = "written"
      BY <2>2 DEF PreH1Write, Snapshot
    <3> HIDE DEF snap
    <3> QED BY <3>1, FreshKeyKeepsKeysApart
  <2>3. CASE Upgrade \/ Rollback \/ UNCHANGED vars
    BY <2>3 DEF Upgrade, Rollback, vars, OneSnapshotPerKey, States
  <2> QED BY <2>1, <2>2, <2>3 DEF Next, Writing, Reconciling, PreH1Writing
<1> QED BY <1>1, <1>2, TypeCorrect, PTL DEF Spec

-----------------------------------------------------------------------------
(* The heads and the pointer: what one step does to them (StepEffect), and   *)
(* from it the invariants, the action properties and the refinement of       *)
(* HeadFrontier.                                                             *)
(* A snapshot more, on the parent p. *)
Grew(p) ==
    /\ Len(snapshots) < MaxRevision
    /\ p \in {NoState} \cup States
    /\ p = NoState => States = {}
    /\ NewState \in Nat \ {0} /\ NewState \notin States
    /\ States' = States \cup {NewState}
    /\ UNCHANGED <<binary, rollbacks>>

(* A write of the current binary, and one of an older binary. *)
Wrote(p) ==
    /\ binary = "current" /\ Grew(p)
    /\ LiveHeads' = (LiveHeads \ {p}) \cup {NewState}
    /\ pointer' = AdvancedPointer(NewState, p)
    /\ snapshots'[NewState].parent = p
    /\ UNCHANGED retirements

OldWrote(p) ==
    /\ binary = "pre-H1" /\ Grew(p)
    /\ LiveHeads' = (LiveHeads \ {p}) \cup {NewState}
    /\ UNCHANGED <<pointer, retirements>>

(* A reconcile. *)
Folded(p) ==
    /\ binary = "current" /\ Grew(p)
    /\ LiveHeads # {} /\ LiveHeads' = {NewState}
    /\ pointer' = ReconciledPointer(NewState)
    /\ snapshots'[NewState].request.plan.heads = LiveHeads
    /\ snapshots'[NewState].request.plan.pointer = pointer.state
    /\ \A r \in retirements' \ retirements :
          r.state \in States /\ r.by = NewState

(* Upgrade, Rollback and steps that leave the scope alone. *)
Still ==
    /\ UNCHANGED <<snapshots, retirements, pointer>>
    /\ \/ UNCHANGED <<binary, rollbacks>>
       \/ binary' = "current" /\ rollbacks' = rollbacks
       \/ rollbacks' = rollbacks + 1

(* A write takes its parent out of the live heads and puts itself in.      *)
LEMMA WriteFrontier ==
    ASSUME TypeOK, NEW snap, snapshots' = Append(snapshots, snap),
           snap.parent \in {NoState} \cup States, UNCHANGED retirements
    PROVE  LiveHeads' = (LiveHeads \ {snap.parent}) \cup {NewState}
<1>0. PICK new : new = NewState
  OBVIOUS
<1>1. /\ new \in Nat \ {0} /\ new \notin States
      /\ States \subseteq Nat \ {0}
      /\ States' = States \cup {new}
      /\ \A s \in States : s < new /\ snapshots'[s] = snapshots[s]
      /\ snapshots'[new] = snap
  BY <1>0, OneMoreSnapshot
<1>2. /\ \A s \in States : Parent(s)' = Parent(s) /\ Parent(s) # new
      /\ Parent(new)' = snap.parent /\ snap.parent # new
  <2>1. \A s \in States : Parent(s) \in Nat /\ Parent(s) < s
    <3>1. \A s \in States : snapshots[s] \in SnapshotType
      BY DEF TypeOK, States
    <3> QED BY <3>1 DEF TypeOK, Parent, SnapshotType
  <2>2. \A s \in States : Parent(s) # new
    BY <1>1, <2>1
  <2>3. snap.parent # new
    BY <1>1 DEF NoState
  <2> QED BY <1>1, <2>2, <2>3 DEF Parent
<1>3. \A s \in States : IsRetired(s)' = IsRetired(s)
  BY DEF IsRetired, RetiredHeads
<1>4. ~IsRetired(new)'
  BY <1>1 DEF TypeOK, IsRetired, RetiredHeads
<1>5. Children(new)' = {}
  BY <1>1, <1>2 DEF Children
<1>6. ASSUME NEW s \in States
      PROVE  Children(s)' = {} <=> Children(s) = {} /\ s # snap.parent
  BY <1>1, <1>2 DEF Children
<1> QED BY <1>0, <1>1, <1>3, <1>4, <1>5, <1>6 DEF LiveHeads

(* A reconcile that retires every live head but its parent is the only     *)
(* live head left.                                                         *)
LEMMA ReconcileFrontier ==
    ASSUME TypeOK, NEW snap, snapshots' = Append(snapshots, snap),
           snap.parent \in {NoState} \cup States,
           retirements' = retirements \cup
               {[state |-> h, by |-> NewState] : h \in LiveHeads \ {snap.parent}}
    PROVE  LiveHeads' = {NewState}
<1>0. PICK new : new = NewState
  OBVIOUS
<1>1. /\ new \in Nat \ {0} /\ new \notin States
      /\ States \subseteq Nat \ {0}
      /\ States' = States \cup {new}
      /\ \A s \in States : s < new /\ snapshots'[s] = snapshots[s]
      /\ snapshots'[new] = snap
  BY <1>0, OneMoreSnapshot
<1>2. /\ \A s \in States : Parent(s)' = Parent(s) /\ Parent(s) # new
      /\ Parent(new)' = snap.parent /\ snap.parent # new
  <2>1. \A s \in States : Parent(s) \in Nat /\ Parent(s) < s
    <3>1. \A s \in States : snapshots[s] \in SnapshotType
      BY DEF TypeOK, States
    <3> QED BY <3>1 DEF TypeOK, Parent, SnapshotType
  <2>2. \A s \in States : Parent(s) # new
    BY <1>1, <2>1
  <2>3. snap.parent # new
    BY <1>1 DEF NoState
  <2> QED BY <1>1, <2>2, <2>3 DEF Parent
<1>3. RetiredHeads' = RetiredHeads \cup (LiveHeads \ {snap.parent})
  <2> DEFINE added == {[state |-> h, by |-> new] : h \in LiveHeads \ {snap.parent}}
  <2>1. retirements' = retirements \cup added
    BY <1>0
  <2>2. {x.state : x \in added} = LiveHeads \ {snap.parent}
    <3>1. \A x \in added : x.state \in LiveHeads \ {snap.parent}
      OBVIOUS
    <3>2. ASSUME NEW h \in LiveHeads \ {snap.parent}
          PROVE  h \in {x.state : x \in added}
      <4>1. [state |-> h, by |-> new] \in added
        OBVIOUS
      <4> HIDE DEF added
      <4> QED BY <4>1
    <3> QED BY <3>1, <3>2
  <2> HIDE DEF added
  <2> QED BY <2>1, <2>2 DEF RetiredHeads
<1>4. new \notin RetiredHeads'
  <2>1. RetiredHeads \subseteq States /\ LiveHeads \subseteq States
    BY DEF TypeOK, RetiredHeads, LiveHeads
  <2> QED BY <1>1, <1>3, <2>1
<1>5. Children(new)' = {}
  BY <1>1, <1>2 DEF Children
<1>6. ASSUME NEW s \in States PROVE s \notin LiveHeads'
  <2>1. CASE s = snap.parent
    BY <1>1, <1>2, <2>1 DEF LiveHeads, Children
  <2>2. CASE s \in LiveHeads \ {snap.parent}
    BY <1>3, <2>2 DEF LiveHeads, IsRetired
  <2>3. CASE s \notin LiveHeads
    <3>1. Children(s) # {} \/ s \in RetiredHeads
      BY <2>3 DEF LiveHeads, IsRetired
    <3>2. Children(s) \subseteq Children(s)'
      BY <1>1, <1>2 DEF Children
    <3> QED BY <1>3, <3>1, <3>2 DEF LiveHeads, IsRetired
  <2> QED BY <2>1, <2>2, <2>3
<1> QED BY <1>0, <1>1, <1>4, <1>5, <1>6 DEF LiveHeads, IsRetired

(* Every step is one of the four. *)
LEMMA StepEffect ==
    ASSUME TypeOK, [Next]_vars
    PROVE  \/ \E p \in {NoState} \cup States : Wrote(p) \/ OldWrote(p) \/ Folded(p)
           \/ Still
<1>1. ASSUME NEW r \in WriteRequests \cup DeriveRequests \cup SentAgain,
             Len(snapshots) < MaxRevision, Write(r)
      PROVE  \E p \in {NoState} \cup States : Wrote(p)
  <2> DEFINE snap == Snapshot(r, "write", WrittenEntries(r.changes, r.agent))
  <2>1. snapshots' = Append(snapshots, snap) /\ snap.parent = r.expected
    BY <1>1 DEF Write, Insert, Snapshot
  <2>2. /\ r.expected \in {NoState} \cup States
        /\ r.expected = NoState => States = {}
    BY <1>1, AdmittedParent DEF Write, AllOperations
  <2> HIDE DEF snap
  <2>3. LiveHeads' = (LiveHeads \ {r.expected}) \cup {NewState}
    BY <1>1, <2>1, <2>2, WriteFrontier DEF Write
  <2>4. /\ NewState \in Nat \ {0} /\ NewState \notin States
        /\ States' = States \cup {NewState} /\ snapshots'[NewState] = snap
    BY <2>1, OneMoreSnapshot
  <2> QED BY <1>1, <2>1, <2>2, <2>3, <2>4 DEF Write, Wrote, Grew
<1>2. ASSUME NEW r \in ReconcileRequests \cup SentAgain,
             Len(snapshots) < MaxRevision, Reconcile(r)
      PROVE  \E p \in {NoState} \cup States : Folded(p)
  <2> DEFINE snap == Snapshot(r, "write", WrittenEntries(r.changes, r.agent))
  <2>1. /\ snapshots' = Append(snapshots, snap)
        /\ snap.parent = r.expected /\ snap.request = r
    BY <1>2 DEF Reconcile, Insert, Snapshot
  <2>2. /\ r.expected \in {NoState} \cup States
        /\ r.expected = NoState => States = {}
        /\ LiveHeads # {} /\ r.plan.heads = LiveHeads
        /\ r.plan.pointer = pointer.state
    BY <1>2, AdmittedParent DEF Reconcile, AllOperations, NamesTheFrontier
  <2>3. r.expected = r.plan.survivor
    <3>1. Admission(r) = "written"
      BY <1>2 DEF Reconcile, Answer, KeyAnswer
    <3>2. ReconcileAnswer(r) = "written"
      BY <1>2, <2>2, <3>1 DEF Reconcile, Admission
    <3> QED BY <3>2 DEF ReconcileAnswer
  <2>4. ReconcileRecord(r.plan).retired = LiveHeads \ {r.expected}
    BY <2>2, <2>3 DEF ReconcileRecord
  <2> HIDE DEF snap
  <2>5. LiveHeads' = {NewState}
    BY <1>2, <2>1, <2>2, <2>4, ReconcileFrontier DEF Reconcile
  <2>6. /\ NewState \in Nat \ {0} /\ NewState \notin States
        /\ States' = States \cup {NewState} /\ snapshots'[NewState] = snap
    BY <2>1, OneMoreSnapshot
  <2>7. \A x \in retirements' \ retirements : x.state \in States /\ x.by = NewState
    BY <1>2, <2>4 DEF Reconcile, LiveHeads
  <2> QED BY <1>2, <2>1, <2>2, <2>5, <2>6, <2>7 DEF Reconcile, Folded, Grew
<1>3. ASSUME NEW r \in WriteRequests \cup SentAgain,
             Len(snapshots) < MaxRevision, PreH1Write(r)
      PROVE  \E p \in {NoState} \cup States : OldWrote(p)
  <2> DEFINE snap == Snapshot(r, "backfill",
                              BackfilledEntries(r.changes, r.agent, NewState))
  <2>1. snapshots' = Append(snapshots, snap) /\ snap.parent = r.expected
    BY <1>3 DEF PreH1Write, Snapshot
  <2>2. /\ r.expected \in {NoState} \cup States
        /\ r.expected = NoState => States = {}
    BY <1>3, AdmittedParent DEF PreH1Write, AllOperations
  <2> HIDE DEF snap
  <2>3. LiveHeads' = (LiveHeads \ {r.expected}) \cup {NewState}
    BY <1>3, <2>1, <2>2, WriteFrontier DEF PreH1Write
  <2>4. /\ NewState \in Nat \ {0} /\ NewState \notin States
        /\ States' = States \cup {NewState}
    BY <2>1, OneMoreSnapshot
  <2> QED BY <1>3, <2>2, <2>3, <2>4 DEF PreH1Write, OldWrote, Grew
<1>4. CASE Upgrade
  BY <1>4 DEF Upgrade, Still
<1>5. CASE Rollback
  BY <1>5 DEF Rollback, Still
<1>6. CASE UNCHANGED vars
  BY <1>6 DEF vars, Still
<1> QED BY <1>1, <1>2, <1>3, <1>4, <1>5, <1>6
        DEF Next, Writing, Reconciling, PreH1Writing, HasRoom
-----------------------------------------------------------------------------
(* The inductive invariant *)

(* A retirement is written by a later snapshot. *)
RetirementsLookBack == \A r \in retirements : r.state < r.by

(* Only the absent pointer names no state. *)
PointerNamesAState == pointer.state = NoState => pointer = NoPointer

(* No older binary has yet met a pointer. *)
OldBinaryHasNoPointer == rollbacks = 0 /\ binary = "pre-H1" => pointer = NoPointer

FrontierInv ==
    /\ RetirementsLookBack
    /\ PointerNamesAState
    /\ OldBinaryHasNoPointer
    /\ PointerIsLive

(* Where the pointer goes when a write advances it. *)
LEMMA AdvanceCases ==
    ASSUME NEW n, NEW p
    PROVE  \/ AdvancedPointer(n, p) = pointer
           \/ /\ pointer = NoPointer /\ p = NoState
              /\ AdvancedPointer(n, p) = [state |-> n, reason |-> "first-write"]
           \/ /\ pointer # NoPointer /\ pointer.state = p
              /\ Children(p) = {} /\ ~IsRetired(p)
              /\ AdvancedPointer(n, p) = [state |-> n, reason |-> "advance"]
BY DEF AdvancedPointer

(* The pointed head survives every write that does not extend it, and is   *)
(* replaced by every write that does.                                      *)
LEMMA WriteKeepsPointerLive ==
    ASSUME TypeOK, FrontierInv, rollbacks = 0,
           NEW p \in {NoState} \cup States, Wrote(p)
    PROVE  pointer' = NoPointer \/ pointer'.state \in LiveHeads'
<1>1. LiveHeads' = (LiveHeads \ {p}) \cup {NewState}
  BY DEF Wrote
<1>2. pointer = NoPointer \/ pointer.state \in LiveHeads
  BY DEF FrontierInv, PointerIsLive
<1>3. CASE pointer' = pointer
  <2>1. CASE pointer = NoPointer
    BY <1>3, <2>1
  <2>2. CASE pointer # NoPointer /\ pointer.state # p
    BY <1>1, <1>2, <1>3, <2>2
  <2>3. CASE pointer # NoPointer /\ pointer.state = p
    <3>1. Children(p) = {} /\ ~IsRetired(p)
      BY <1>2, <2>3 DEF LiveHeads
    <3>2. pointer'.state = NewState
      BY <2>3, <3>1 DEF Wrote, AdvancedPointer
    <3> QED BY <1>1, <3>2
  <2> QED BY <2>1, <2>2, <2>3
<1>4. CASE pointer'.state = NewState
  BY <1>1, <1>4
<1> QED BY <1>3, <1>4, AdvanceCases DEF Wrote

LEMMA FrontierInvariant == Spec => []FrontierInv
<1>1. Init => FrontierInv
  BY DEF Init, FrontierInv, RetirementsLookBack, PointerNamesAState,
         OldBinaryHasNoPointer, PointerIsLive
<1>2. TypeOK /\ FrontierInv /\ [Next]_vars => FrontierInv'
  <2> SUFFICES ASSUME TypeOK, FrontierInv, [Next]_vars PROVE FrontierInv'
    OBVIOUS
  <2>1. ASSUME NEW p \in {NoState} \cup States, Wrote(p) PROVE FrontierInv'
    <3>1. rollbacks' = rollbacks /\ binary' = "current" /\ NewState # NoState
      BY <2>1 DEF Wrote, Grew, NoState
    <3>2. RetirementsLookBack'
      BY <2>1 DEF Wrote, FrontierInv, RetirementsLookBack
    <3>3. PointerNamesAState'
      BY <2>1, <3>1, AdvanceCases DEF Wrote, FrontierInv, PointerNamesAState
    <3>4. PointerIsLive'
      BY <2>1, <3>1, WriteKeepsPointerLive DEF PointerIsLive
    <3> QED BY <3>1, <3>2, <3>3, <3>4 DEF FrontierInv, OldBinaryHasNoPointer
  <2>2. ASSUME NEW p \in {NoState} \cup States, OldWrote(p) PROVE FrontierInv'
    BY <2>2 DEF OldWrote, Grew, FrontierInv, RetirementsLookBack,
         PointerNamesAState, OldBinaryHasNoPointer, PointerIsLive
  <2>3. ASSUME NEW p \in {NoState} \cup States, Folded(p) PROVE FrontierInv'
    <3>1. /\ pointer' = [state |-> NewState, reason |-> "reconcile"]
          /\ LiveHeads' = {NewState} /\ NewState # NoState /\ binary' = "current"
      BY <2>3 DEF Folded, Grew, ReconciledPointer, NoState
    <3>2. \A s \in States : s < NewState
      BY DEF TypeOK, States, NewState
    <3>3. RetirementsLookBack'
      BY <2>3, <3>2 DEF Folded, FrontierInv, RetirementsLookBack
    <3> QED BY <3>1, <3>3 DEF FrontierInv, PointerNamesAState,
                             OldBinaryHasNoPointer, PointerIsLive
  <2>4. CASE Still
    <3>1. LiveHeads' = LiveHeads
      BY <2>4 DEF Still, LiveHeads, States, Children, Parent, IsRetired,
                  RetiredHeads
    <3>2. rollbacks' = 0 => rollbacks = 0
      BY <2>4 DEF Still, TypeOK
    <3>3. rollbacks' = 0 /\ binary' = "pre-H1" => binary = "pre-H1"
      BY <2>4, <3>2 DEF Still, TypeOK
    <3> QED BY <2>4, <3>1, <3>2, <3>3 DEF Still, FrontierInv,
               RetirementsLookBack, PointerNamesAState,
               OldBinaryHasNoPointer, PointerIsLive
  <2> QED BY <2>1, <2>2, <2>3, <2>4, StepEffect
<1> QED BY <1>1, <1>2, TypeCorrect, PTL DEF Spec
-----------------------------------------------------------------------------
(* The theorems *)

(* heads.ts: whatever writes, stale writes, resurrections and reconciles   *)
(* are admitted in whatever order, the pointed head is live as long as no  *)
(* older binary is put back behind the pointer.                            *)
THEOREM PointedHeadIsLive == Spec => []PointerIsLive
BY FrontierInvariant, PTL DEF FrontierInv

(* checkpoint.ts: a scope with history always offers a head, so the answer *)
(* "conflict" always has one to carry; not even rollbacks change that.     *)
THEOREM ConflictHasAHead == Spec => []HistoryHasAHead
<1>1. TypeOK /\ RetirementsLookBack => HistoryHasAHead
  <2> SUFFICES ASSUME TypeOK, RetirementsLookBack, States # {}
               PROVE  Len(snapshots) \in LiveHeads
    BY DEF HistoryHasAHead
  <2> DEFINE last == Len(snapshots)
  <2>1. last \in States /\ \A s \in States : s \in Nat /\ s <= last
    BY DEF TypeOK, States
  <2>2. \A s \in States : Parent(s) \in Nat /\ Parent(s) < s
    <3>1. \A s \in States : snapshots[s] \in SnapshotType
      BY DEF TypeOK, States
    <3> QED BY <3>1 DEF TypeOK, Parent, SnapshotType
  <2> HIDE DEF last
  <2>3. Children(last) = {}
    BY <2>1, <2>2 DEF Children
  <2>4. ~IsRetired(last)
    BY <2>1 DEF TypeOK, RetirementsLookBack, IsRetired, RetiredHeads
  <2> QED BY <2>1, <2>3, <2>4 DEF LiveHeads, last
<1> QED BY <1>1, TypeCorrect, FrontierInvariant, PTL DEF FrontierInv

(* heads.ts 3.2a: the pointer moves only to a child of the pointed head,   *)
(* or to a reconcile that named this pointer and exactly these live heads. *)
THEOREM PointerOnlyMovesForward == Spec => PointerMovesForward
<1>1. TypeOK /\ [Next]_vars =>
         [pointer' # pointer =>
             LET moved == snapshots'[pointer'.state]
             IN  \/ moved.parent = pointer.state
                 \/ /\ pointer'.reason = "reconcile"
                    /\ moved.request.plan.heads = LiveHeads
                    /\ moved.request.plan.pointer = pointer.state]_vars
  <2> SUFFICES ASSUME TypeOK, [Next]_vars, pointer' # pointer
               PROVE  LET moved == snapshots'[pointer'.state]
                      IN  \/ moved.parent = pointer.state
                          \/ /\ pointer'.reason = "reconcile"
                             /\ moved.request.plan.heads = LiveHeads
                             /\ moved.request.plan.pointer = pointer.state
    OBVIOUS
  <2>1. ASSUME NEW p \in {NoState} \cup States, Wrote(p)
        PROVE  /\ pointer'.state = NewState /\ pointer.state = p
               /\ snapshots'[NewState].parent = p
    BY <2>1, AdvanceCases DEF Wrote, NoPointer
  <2>2. ASSUME NEW p \in {NoState} \cup States, Folded(p)
        PROVE  /\ pointer' = [state |-> NewState, reason |-> "reconcile"]
               /\ snapshots'[NewState].request.plan.heads = LiveHeads
               /\ snapshots'[NewState].request.plan.pointer = pointer.state
    BY <2>2 DEF Folded, ReconciledPointer
  <2> QED BY <2>1, <2>2, StepEffect DEF OldWrote, Still
<1> QED BY <1>1, TypeCorrect, PTL DEF Spec, PointerMovesForward

(* reconcile.ts: after a reconcile there is exactly one live head, the     *)
(* pointed one, however many writes raced it.                              *)
THEOREM ReconcileLeavesOneHead == Spec => ReconcileConverges
<1>1. TypeOK /\ [Next]_vars =>
         [pointer' # pointer /\ pointer'.reason = "reconcile"
             => LiveHeads' = {pointer'.state}]_vars
  <2> SUFFICES ASSUME TypeOK, [Next]_vars,
                      pointer' # pointer, pointer'.reason = "reconcile"
               PROVE  LiveHeads' = {pointer'.state}
    OBVIOUS
  <2>1. ASSUME NEW p \in {NoState} \cup States, Wrote(p) PROVE FALSE
    BY <2>1, AdvanceCases DEF Wrote
  <2>2. ASSUME NEW p \in {NoState} \cup States, Folded(p)
        PROVE  LiveHeads' = {pointer'.state}
    BY <2>2 DEF Folded, ReconciledPointer
  <2> QED BY <2>1, <2>2, StepEffect DEF OldWrote, Still
<1> QED BY <1>1, TypeCorrect, PTL DEF Spec, ReconcileConverges

(* checkpoint.ts: a compare-and-set on the head set or on the pointer that *)
(* has failed once fails for ever: neither value is ever repeated.         *)
THEOREM NoExpectationReturns == Spec => ExpectationsNeverReturn
<1>1. TypeOK /\ [Next]_vars =>
         [/\ \A H \in SUBSET States : H # LiveHeads => H # LiveHeads'
          /\ \A s \in States : s # pointer.state => s # pointer'.state]_vars
  <2> SUFFICES ASSUME TypeOK, [Next]_vars
               PROVE  /\ \A H \in SUBSET States : H # LiveHeads => H # LiveHeads'
                      /\ \A s \in States : s # pointer.state => s # pointer'.state
    OBVIOUS
  <2>1. ASSUME NEW p \in {NoState} \cup States, Wrote(p) \/ OldWrote(p) \/ Folded(p)
        PROVE  /\ NewState \notin States /\ NewState \in LiveHeads'
               /\ pointer' = pointer \/ pointer'.state = NewState
    BY <2>1, AdvanceCases DEF Wrote, OldWrote, Folded, Grew, ReconciledPointer
  <2>2. CASE Still
    BY <2>2 DEF Still, LiveHeads, States, Children, Parent, IsRetired,
                RetiredHeads
  <2> QED BY <2>1, <2>2, StepEffect
<1> QED BY <1>1, TypeCorrect, PTL DEF Spec, ExpectationsNeverReturn

(* heads.ts: an undesignated scope with history, and an invalid            *)
(* designation left by a rollback, are designated anew by a reconcile only.*)
THEOREM OnlyReconcileRepairs == Spec => DesignationOnlyByReconcile
<1>1. TypeOK /\ FrontierInv /\ [Next]_vars =>
         [pointer' # pointer =>
             \/ Selection \notin {"max-revision", "invalid-designation"}
             \/ pointer'.reason = "reconcile"]_vars
  <2> SUFFICES ASSUME TypeOK, FrontierInv, [Next]_vars, pointer' # pointer
               PROVE  \/ Selection \notin {"max-revision", "invalid-designation"}
                      \/ pointer'.reason = "reconcile"
    OBVIOUS
  <2>1. ASSUME NEW p \in {NoState} \cup States, Wrote(p)
        PROVE  Selection \notin {"max-revision", "invalid-designation"}
    <3>1. CASE pointer = NoPointer /\ p = NoState
      <4>1. LiveHeads = {}
        BY <2>1, <3>1 DEF Wrote, Grew, LiveHeads
      <4> QED BY <3>1, <4>1 DEF Selection
    <3>2. CASE /\ pointer # NoPointer /\ pointer.state = p
               /\ Children(p) = {} /\ ~IsRetired(p)
      <4>1. p \in States
        BY <3>2 DEF FrontierInv, PointerNamesAState
      <4>2. pointer.state \in LiveHeads
        BY <3>2, <4>1 DEF LiveHeads
      <4> QED BY <3>2, <4>2 DEF Selection
    <3> QED BY <2>1, <3>1, <3>2, AdvanceCases DEF Wrote
  <2>2. ASSUME NEW p \in {NoState} \cup States, Folded(p)
        PROVE  pointer'.reason = "reconcile"
    BY <2>2 DEF Folded, ReconciledPointer
  <2> QED BY <2>1, <2>2, StepEffect DEF OldWrote, Still
<1> QED BY <1>1, TypeCorrect, FrontierInvariant, PTL
        DEF Spec, DesignationOnlyByReconcile

(* heads.ts and reconcile.ts implement the frontier of HeadFrontier,       *)
(* whichever binaries are deployed: a write on a live head extends it, any *)
(* other write branches, a reconcile folds, only a write that knows of     *)
(* the pointer and finds it live takes it along, and nothing else touches  *)
(* the heads or the designation.                                           *)
THEOREM FrontierImplemented == Spec => FrontierIsImplemented
<1>1. Init => Frontier!FrontierInit
  BY DEF Init, Frontier!FrontierInit, States, LiveHeads, NoPointer, NoState
<1>2. TypeOK /\ FrontierInv /\ [Next]_vars
         => [Frontier!FrontierNext]_(Frontier!frontierVars)
  <2> SUFFICES ASSUME TypeOK, FrontierInv, [Next]_vars
               PROVE  \/ Frontier!FrontierNext
                      \/ UNCHANGED Frontier!frontierVars
    OBVIOUS
  <2>1. /\ LiveHeads \subseteq States /\ NoState \notin States
        /\ pointer.state \in {NoState} \cup States
        /\ pointer.state = NoState => pointer = NoPointer
    BY DEF LiveHeads, States, NoState, TypeOK, FrontierInv, PointerNamesAState
  <2>2. ASSUME NEW p \in {NoState} \cup States, Grew(p)
        PROVE  /\ NewState \in 1 .. MaxRevision
               /\ States \subseteq 1 .. MaxRevision
    BY <2>2, BoundsAssumption DEF TypeOK, Grew, NewState, States
  <2>3. ASSUME NEW p \in {NoState} \cup States, Wrote(p) \/ OldWrote(p)
        PROVE  Frontier!FrontierNext
    <3>1. /\ Grew(p) /\ LiveHeads' = (LiveHeads \ {p}) \cup {NewState}
          /\ NewState \notin States /\ States' = States \cup {NewState}
          /\ UNCHANGED binary
      BY <2>3 DEF Wrote, OldWrote, Grew
    <3>2. pointer' = IF binary = "current" THEN AdvancedPointer(NewState, p) ELSE pointer
      BY <2>3 DEF Wrote, OldWrote
    <3>3. CASE p = NoState
      <4>1. States = {} /\ LiveHeads = {} /\ pointer = NoPointer
        BY <2>1, <3>1, <3>3 DEF Grew
      <4>2. pointer'.state = IF binary = "current" THEN NewState ELSE NoState
        BY <3>2, <3>3, <4>1 DEF AdvancedPointer, NoPointer
      <4>3. Frontier!Start(NewState)
        BY <3>1, <4>1, <4>2 DEF Frontier!Start
      <4> QED BY <2>2, <3>1, <4>3 DEF Frontier!FrontierNext
    <3>4. CASE p \in LiveHeads
      <4>1. Children(p) = {} /\ ~IsRetired(p) /\ p # NoState
        BY <2>1, <3>4 DEF LiveHeads
      <4>2. pointer'.state = IF binary = "current" /\ pointer.state = p
                             THEN NewState ELSE pointer.state
        BY <3>2, <4>1 DEF AdvancedPointer, NoPointer
      <4>3. Frontier!Extend(p, NewState)
        BY <3>1, <3>4, <4>2 DEF Frontier!Extend
      <4> QED BY <2>1, <2>2, <3>1, <3>4, <4>3 DEF Frontier!FrontierNext
    <3>5. CASE p \in States \ LiveHeads
      <4>1. LiveHeads' = LiveHeads \cup {NewState}
        BY <3>1, <3>5
      <4>2. p # NoState /\ ~(Children(p) = {} /\ ~IsRetired(p))
        BY <2>1, <3>5 DEF LiveHeads
      <4>3. pointer' = pointer
        BY <3>2, <4>2, AdvanceCases
      <4>4. Frontier!Branch(NewState)
        BY <3>1, <3>5, <4>1, <4>3 DEF Frontier!Branch
      <4> QED BY <2>2, <3>1, <4>4 DEF Frontier!FrontierNext
    <3> QED BY <3>3, <3>4, <3>5
  <2>4. ASSUME NEW p \in {NoState} \cup States, Folded(p)
        PROVE  Frontier!FrontierNext
    <3>1. Frontier!Fold(NewState)
      BY <2>4 DEF Folded, Grew, ReconciledPointer, Frontier!Fold
    <3> QED BY <2>2, <2>4, <3>1 DEF Folded, Frontier!FrontierNext
  <2>5. CASE Still
    <3>1. UNCHANGED <<States, LiveHeads, pointer>>
      BY <2>5 DEF Still, LiveHeads, States, Children, Parent, IsRetired, RetiredHeads
    <3> QED BY <3>1 DEF Frontier!FrontierNext, Frontier!Deploy, Frontier!frontierVars
  <2> QED BY <2>3, <2>4, <2>5, StepEffect
<1> QED BY <1>1, <1>2, TypeCorrect, FrontierInvariant, PTL
        DEF Spec, FrontierIsImplemented, Frontier!FrontierSpec
-----------------------------------------------------------------------------
(* Lineages *)

(* Every non-empty set of naturals has a least element. *)
LEMMA Least ==
    ASSUME NEW T, T \subseteq Nat, T # {}
    PROVE  \E x \in T : \A y \in T : x <= y
<1> DEFINE R == OpToRel(<, Nat)
<1> HIDE DEF R
<1>1. IsWellFoundedOn(R, Nat)
  BY NatLessThanWellFounded DEF R
<1>2. \E t \in T : \A u \in T : ~ (<<u, t>> \in R)
  BY <1>1, WFMin
<1>3. PICK t \in T : \A u \in T : ~ (u < t)
  BY <1>2 DEF OpToRel, R
<1> QED BY <1>3

(* lineageOf terminates: parents are older, so the recursion has a         *)
(* solution, which is what a parent chain is.                              *)
Rooted == \A s \in States : Parent(s) = NoState \/ Parent(s) \in States

LEMMA LineageIs ==
    Rooted => \A s \in States :
                 Lineage[s] = {s} \cup (IF Parent(s) = NoState THEN {}
                                        ELSE Lineage[Parent(s)])
<1> SUFFICES ASSUME Rooted
             PROVE  \A s \in States :
                       Lineage[s] = {s} \cup (IF Parent(s) = NoState THEN {}
                                              ELSE Lineage[Parent(s)])
  OBVIOUS
<1> DEFINE Closed(C) == \A c \in C : Parent(c) # NoState => Parent(c) \in C
           G == [s \in States |-> {t \in States :
                     \A C \in SUBSET States : s \in C /\ Closed(C) => t \in C}]
<1>1. \A s \in States : Parent(s) = NoState \/ Parent(s) \in States
  BY DEF Rooted
<1>2. ASSUME NEW s \in States
      PROVE  G[s] = {s} \cup (IF Parent(s) = NoState THEN {} ELSE G[Parent(s)])
  <2>1. s \in G[s]
    OBVIOUS
  <2>2. ASSUME Parent(s) # NoState PROVE G[Parent(s)] \subseteq G[s]
    BY <1>1, <2>2
  <2>3. ASSUME NEW t \in G[s], t # s
        PROVE  Parent(s) # NoState /\ t \in G[Parent(s)]
    <3>1. t \in States /\ \A C \in SUBSET States : s \in C /\ Closed(C) => t \in C
      OBVIOUS
    <3>2. Parent(s) # NoState
      <4>1. CASE Parent(s) = NoState
        <5>1. {s} \in SUBSET States /\ Closed({s})
          BY <4>1
        <5> QED BY <2>3, <3>1, <5>1
      <4> QED BY <4>1
    <3>3. Parent(s) \in States
      BY <1>1, <3>2
    <3>4. ASSUME NEW C \in SUBSET States, Parent(s) \in C, Closed(C)
          PROVE  t \in C
      <4>1. Closed(C \cup {s}) /\ C \cup {s} \in SUBSET States
        BY <3>4
      <4> HIDE DEF Closed
      <4>2. t \in C \cup {s}
        BY <3>1, <4>1
      <4> QED BY <2>3, <4>2
    <3> HIDE DEF Closed
    <3> QED BY <3>1, <3>2, <3>3, <3>4
  <2> HIDE DEF G
  <2> QED BY <2>1, <2>2, <2>3
<1>3. G = [s \in States |-> {s} \cup (IF Parent(s) = NoState THEN {}
                                      ELSE G[Parent(s)])]
  <2>1. G = [s \in States |-> G[s]]
    OBVIOUS
  <2> HIDE DEF G
  <2> QED BY <1>2, <2>1
<1> HIDE DEF G
<1>4. \E f : f = [s \in States |-> {s} \cup (IF Parent(s) = NoState THEN {}
                                             ELSE f[Parent(s)])]
  BY <1>3
<1>5. Lineage = [s \in States |-> {s} \cup (IF Parent(s) = NoState THEN {}
                                            ELSE Lineage[Parent(s)])]
  BY <1>4, Zenon DEF Lineage
<1> QED BY <1>5

(* Parents are older. *)
LEMMA ParentIs ==
    ASSUME TypeOK
    PROVE  /\ Rooted
           /\ \A s \in States : /\ s \in Nat /\ Parent(s) \in Nat /\ Parent(s) < s
                                /\ Parent(s) = NoState \/ Parent(s) \in States
<1>1. ASSUME NEW s \in States
      PROVE  /\ s \in Nat /\ Parent(s) \in Nat /\ Parent(s) < s
             /\ Parent(s) = NoState \/ Parent(s) \in States
  <2>1. snapshots[s] \in SnapshotType
    BY DEF TypeOK, States
  <2> QED BY <2>1 DEF TypeOK, States, Parent, SnapshotType, NoState
<1> QED BY <1>1 DEF Rooted

(* A lineage is a chain of the scope: every member but the head has its    *)
(* child on it, and the lineage of a member is the rest of the chain.      *)
OnALine(s) ==
    /\ s \in Lineage[s] /\ Lineage[s] \subseteq States
    /\ \A t \in Lineage[s] :
          /\ t <= s
          /\ t # s => \E c \in Lineage[s] : Parent(c) = t
          /\ Lineage[t] \subseteq Lineage[s]
          /\ \A u \in Lineage[s] : t <= u => t \in Lineage[u]

LEMMA LineageIsALine == TypeOK => \A s \in States : OnALine(s)
<1> SUFFICES ASSUME TypeOK PROVE \A s \in States : OnALine(s)
  OBVIOUS
<1> DEFINE T == {s \in States : ~ OnALine(s)}
<1>1. States \subseteq Nat
  BY DEF TypeOK, States
<1>2. CASE T # {}
  <2>1. PICK s \in T : \A y \in T : s <= y
    <3>1. T \subseteq Nat
      BY <1>1
    <3> HIDE DEF T
    <3> QED BY <1>2, <3>1, Least
  <2>2. s \in States /\ s \in Nat
    BY <1>1
  <2>3. \A q \in States : q < s => OnALine(q)
    BY <1>1, <2>1, <2>2
  <2>4. Lineage[s] = {s} \cup (IF Parent(s) = NoState THEN {}
                               ELSE Lineage[Parent(s)])
    BY <2>2, LineageIs, ParentIs
  <2>5. CASE Parent(s) = NoState
    BY <2>2, <2>4, <2>5 DEF OnALine
  <2>6. CASE Parent(s) # NoState
    <3>1. PICK p \in States : p = Parent(s)
      BY <2>2, <2>6, ParentIs
    <3>2. p < s /\ p \in Nat /\ Parent(s) = p
      BY <2>2, <3>1, ParentIs
    <3>3. /\ p \in Lineage[p] /\ Lineage[p] \subseteq States
          /\ \A t \in Lineage[p] :
                /\ t <= p
                /\ t # p => \E c \in Lineage[p] : Parent(c) = t
                /\ Lineage[t] \subseteq Lineage[p]
                /\ \A u \in Lineage[p] : t <= u => t \in Lineage[u]
      BY <2>3, <3>2 DEF OnALine
    <3>4. Lineage[s] = {s} \cup Lineage[p]
      BY <2>4, <2>6, <3>2
    <3>5. ASSUME NEW t \in Lineage[p] PROVE t \in Nat /\ t < s
      <4>1. t \in Nat /\ t <= p
        BY <1>1, <3>3
      <4> QED BY <2>2, <3>2, <4>1
    <3>6. ASSUME NEW t \in Lineage[s]
          PROVE  /\ t <= s
                 /\ t # s => \E c \in Lineage[s] : Parent(c) = t
                 /\ Lineage[t] \subseteq Lineage[s]
                 /\ \A u \in Lineage[s] : t <= u => t \in Lineage[u]
      <4>1. CASE t = s
        BY <2>2, <3>4, <3>5, <4>1
      <4>2. CASE t \in Lineage[p]
        <5>1. t <= s
          BY <2>2, <3>5, <4>2
        <5>2. \E c \in Lineage[s] : Parent(c) = t
          BY <3>2, <3>3, <3>4, <4>2
        <5>3. Lineage[t] \subseteq Lineage[s]
          BY <3>3, <3>4, <4>2
        <5>4. \A u \in Lineage[s] : t <= u => t \in Lineage[u]
          BY <3>3, <3>4, <4>2
        <5> QED BY <5>1, <5>2, <5>3, <5>4
      <4> QED BY <3>4, <4>1, <4>2
    <3> QED BY <2>2, <3>3, <3>4, <3>6 DEF OnALine
  <2> QED BY <2>1, <2>5, <2>6
<1> QED BY <1>2

(* One more snapshot: no lineage, no ledger and no naming of the older     *)
(* ones changes, and the new one continues the lineage of its parent.      *)
LEMMA LineageStays ==
    ASSUME TypeOK, NEW snap, snapshots' = Append(snapshots, snap),
           snap.parent \in {NoState} \cup States
    PROVE  /\ \A s \in States : Lineage'[s] = Lineage[s]
           /\ Lineage'[NewState] = {NewState} \cup
                (IF snap.parent = NoState THEN {} ELSE Lineage[snap.parent])
<1>0. PICK new : new = NewState
  OBVIOUS
<1>1. /\ new \in Nat \ {0} /\ new \notin States
      /\ States \subseteq Nat \ {0}
      /\ States' = States \cup {new}
      /\ \A s \in States : s < new /\ snapshots'[s] = snapshots[s]
      /\ snapshots'[new] = snap
  BY <1>0, OneMoreSnapshot
<1>2. /\ \A s \in States : Parent(s)' = Parent(s)
      /\ Parent(new)' = snap.parent
  BY <1>1 DEF Parent
<1>3. Rooted'
  BY <1>1, <1>2, ParentIs DEF Rooted
<1>4. \A s \in States' :
         Lineage'[s] = {s} \cup (IF Parent(s)' = NoState THEN {}
                                  ELSE Lineage'[Parent(s)'])
  <2>1. (\A s \in States :
            Lineage[s] = {s} \cup (IF Parent(s) = NoState THEN {}
                                   ELSE Lineage[Parent(s)]))'
    BY <1>3, LineageIs, PTL
  <2> QED BY <2>1
<1> DEFINE T == {s \in States : Lineage'[s] # Lineage[s]}
<1>5. ASSUME T # {} PROVE FALSE
  <2>1. PICK s \in T : \A y \in T : s <= y
    <3>1. T \subseteq Nat
      BY <1>1
    <3> HIDE DEF T
    <3> QED BY <1>5, <3>1, Least
  <2>2. s \in States /\ s \in Nat /\ Lineage'[s] # Lineage[s]
    BY <1>1
  <2>3. \A q \in States : q < s => Lineage'[q] = Lineage[q]
    BY <1>1, <2>1, <2>2
  <2>4. Lineage[s] = {s} \cup (IF Parent(s) = NoState THEN {}
                               ELSE Lineage[Parent(s)])
    BY <2>2, LineageIs, ParentIs
  <2>5. Lineage'[s] = {s} \cup (IF Parent(s) = NoState THEN {}
                               ELSE Lineage'[Parent(s)])
    BY <1>1, <1>2, <1>4, <2>2
  <2>6. Parent(s) # NoState => Lineage'[Parent(s)] = Lineage[Parent(s)]
    BY <2>2, <2>3, ParentIs
  <2> QED BY <2>2, <2>4, <2>5, <2>6
<1>6. \A s \in States : Lineage'[s] = Lineage[s]
  BY <1>5
<1>7. Lineage'[new] = {new} \cup (IF snap.parent = NoState THEN {}
                                  ELSE Lineage'[snap.parent])
  BY <1>1, <1>2, <1>4
<1> QED BY <1>0, <1>6, <1>7

(* One more snapshot: what the older ledgers say stays, and a change of    *)
(* the new one is the newest of its item.                                  *)
LEMMA LedgersStay ==
    ASSUME TypeOK, NEW snap, snapshots' = Append(snapshots, snap),
           NEW new, new = NewState, NEW id \in Items
    PROVE  /\ \A s \in States : /\ OrdinalsNaming(s, id)' = OrdinalsNaming(s, id)
                                /\ NewestIn(s, id)' = NewestIn(s, id)
           /\ StatesNaming(id) \subseteq States
           /\ StatesNaming(id)' = StatesNaming(id) \cup
                 (IF OrdinalsNaming(new, id)' = {} THEN {} ELSE {new})
           /\ new \notin StatesNaming(id)
<1>1. /\ new \in Nat \ {0} /\ new \notin States
      /\ States \subseteq Nat \ {0}
      /\ States' = States \cup {new}
      /\ \A s \in States : s < new /\ snapshots'[s] = snapshots[s]
      /\ snapshots'[new] = snap
  BY OneMoreSnapshot
<1>2. ASSUME NEW s \in States
      PROVE  /\ OrdinalsNaming(s, id)' = OrdinalsNaming(s, id)
             /\ NewestIn(s, id)' = NewestIn(s, id)
  BY <1>1 DEF OrdinalsNaming, NewestIn
<1>3. StatesNaming(id)' = StatesNaming(id) \cup
                 (IF OrdinalsNaming(new, id)' = {} THEN {} ELSE {new})
  <2>1. StatesNaming(id)' = {s \in States' : OrdinalsNaming(s, id)' # {}}
    BY DEF StatesNaming
  <2>2. StatesNaming(id) = {s \in States : OrdinalsNaming(s, id) # {}}
    BY DEF StatesNaming
  <2> QED BY <1>1, <1>2, <2>1, <2>2
<1> QED BY <1>1, <1>2, <1>3 DEF StatesNaming

(* The greatest of a set of states, and what a newcomer makes of it. *)
LEMMA NewestState ==
    ASSUME TypeOK, NEW S \in SUBSET States, S # {}
    PROVE  Max(S) \in S /\ \A s \in S : s <= Max(S)
<1>1. Len(snapshots) \in Nat /\ S \in SUBSET (0 .. Len(snapshots))
  BY DEF TypeOK, States
<1> QED BY <1>1, MaxIsTheLargest

LEMMA MaxIs ==
    ASSUME NEW n \in Nat, NEW S \in SUBSET (0 .. n), NEW m \in S,
           \A s \in S : s <= m
    PROVE  Max(S) = m
<1>1. Max(S) \in S /\ \A s \in S : s <= Max(S)
  BY MaxIsTheLargest
<1>2. Max(S) \in Nat /\ m \in Nat
  <2>1. \A s \in S : s \in Nat
    OBVIOUS
  <2> QED BY <1>1, <2>1
<1>3. Max(S) <= m /\ m <= Max(S)
  BY <1>1
<1> QED BY <1>2, <1>3

(* What the owner in effect rests on is older than the change. *)
LEMMA PriorOwnerStays ==
    ASSUME TypeOK, NEW snap, snapshots' = Append(snapshots, snap),
           NEW id \in Items, NEW s \in States \cup {NewState}
    PROVE  PredecessorOwner(id, s)' = PredecessorOwner(id, s)
<1>0. PICK new : new = NewState
  OBVIOUS
<1>1. /\ new \in Nat \ {0} /\ States \subseteq Nat \ {0}
      /\ \A t \in States : t < new
  BY <1>0, OneMoreSnapshot
<1>2. /\ \A t \in States : NewestIn(t, id)' = NewestIn(t, id)
      /\ StatesNaming(id) \subseteq States
      /\ StatesNaming(id)' = StatesNaming(id) \cup
                 (IF OrdinalsNaming(new, id)' = {} THEN {} ELSE {new})
  BY <1>0, LedgersStay
<1>3. s \in Nat /\ ~(new < s)
  BY <1>0, <1>1
<1>4. {t \in StatesNaming(id)' : t < s} = {t \in StatesNaming(id) : t < s}
  BY <1>2, <1>3
<1> DEFINE prior == {t \in StatesNaming(id) : t < s}
<1>5. PICK m : m = Max(prior)
  OBVIOUS
<1>6. prior # {} => m \in States
  BY <1>2, <1>5, NewestState
<1>7. PredecessorOwner(id, s) =
         IF prior = {} THEN NoOwner
         ELSE IF NewestIn(m, id).opaque THEN NoOwner
         ELSE NewestIn(m, id).owner
  BY <1>5 DEF PredecessorOwner
<1>8. PredecessorOwner(id, s)' =
         IF prior = {} THEN NoOwner
         ELSE IF NewestIn(m, id)'.opaque THEN NoOwner
         ELSE NewestIn(m, id)'.owner
  BY <1>4, <1>5 DEF PredecessorOwner
<1> HIDE DEF prior
<1> QED BY <1>2, <1>6, <1>7, <1>8
-----------------------------------------------------------------------------
(* The in-place rows and the ledger *)

(* The row of an item says what its newest tuple says, and its owner       *)
(* unless a backfill could not prove one.                                  *)
RowFollows(id, entry) ==
    /\ rows[id].value = entry.value
    /\ ~entry.opaque => rows[id].owner = entry.owner

RowsFollow ==
    \A id \in Items : StatesNaming(id) # {} =>
        RowFollows(id, NewestIn(Max(StatesNaming(id)), id))

(* The owner in effect is the inherited one or does not depend on it.      *)
LEMMA OwnerInEffectCases ==
    ASSUME NEW changes, NEW i, NEW author, NEW x, NEW y
    PROVE  \/ OwnerInEffect(changes, i, author, x)
                 = OwnerInEffect(changes, i, author, y)
           \/ /\ OwnerInEffect(changes, i, author, x) = x
              /\ OwnerInEffect(changes, i, author, y) = y
<1>1. CASE changes[i].id \in Facts
  BY <1>1 DEF OwnerInEffect
<1>2. CASE changes[i].id \notin Facts /\ OwnerNamedAt(changes, i) # {}
  BY <1>2 DEF OwnerInEffect
<1>3. CASE changes[i].id \notin Facts /\ OwnerNamedAt(changes, i) = {}
  BY <1>3 DEF OwnerInEffect
<1> QED BY <1>1, <1>2, <1>3

(* What predecessorOwner proves of an item is what its row says. *)
LEMMA PriorOwnerIsTheRows ==
    ASSUME TypeOK, RowsFollow, NEW id \in Items,
           PredecessorOwner(id, NewState) # NoOwner
    PROVE  rows[id].owner = PredecessorOwner(id, NewState)
<1>1. NewState \in Nat /\ \A t \in States : t \in Nat /\ t < NewState
  BY DEF TypeOK, States, NewState
<1>2. {t \in StatesNaming(id) : t < NewState} = StatesNaming(id)
  BY <1>1 DEF StatesNaming
<1>3. PredecessorOwner(id, NewState) =
         IF StatesNaming(id) = {} THEN NoOwner
         ELSE IF NewestIn(Max(StatesNaming(id)), id).opaque THEN NoOwner
         ELSE NewestIn(Max(StatesNaming(id)), id).owner
  BY <1>2 DEF PredecessorOwner
<1> QED BY <1>3 DEF RowsFollow, RowFollows

(* A writer's tuple w and a verifier's tuple b of one change. *)
Agreeing(w, b, change) ==
    /\ w.id = change.id /\ w.value = change.value /\ w.opaque = FALSE
    /\ b.id = change.id /\ b.value = change.value /\ b.opaque \in BOOLEAN
    /\ ~b.opaque => w.owner = b.owner /\ w = b

(* The writer's tuple is the one a verifier derives, whenever the verifier *)
(* can derive it.                                                          *)
LEMMA EntriesAgree ==
    ASSUME TypeOK, RowsFollow, NEW changes \in ChangeLists, NEW author \in Agents,
           NEW i \in DOMAIN changes
    PROVE  Agreeing(WrittenEntries(changes, author)[i],
                    BackfilledEntries(changes, author, NewState)[i], changes[i])
<1>0. PICK w, b : /\ w = WrittenEntries(changes, author)[i]
                  /\ b = BackfilledEntries(changes, author, NewState)[i]
  OBVIOUS
<1> DEFINE id == changes[i].id
           rowOwner == OwnerInEffect(changes, i, author, rows[id].owner)
           prior == PredecessorOwner(id, NewState)
           owner == OwnerInEffect(changes, i, author, prior)
<1>1. w = [id |-> id, value |-> changes[i].value, owner |-> rowOwner,
           opaque |-> FALSE]
  BY <1>0 DEF WrittenEntries
<1>2. b = [id |-> id, value |-> changes[i].value, owner |-> owner,
           opaque |-> id \in Loops /\ owner = NoOwner]
  BY <1>0 DEF BackfilledEntries
<1>3. id \in Items
  BY ChangeListShape DEF Change
<1>4. ASSUME ~(id \in Loops /\ owner = NoOwner) PROVE rowOwner = owner
  <2>1. CASE id \in Facts
    BY <2>1 DEF OwnerInEffect
  <2>2. CASE id \in Loops /\ owner # NoOwner
    <3>1. \/ rowOwner = owner
          \/ rowOwner = rows[id].owner /\ owner = prior
      BY OwnerInEffectCases
    <3>2. owner = prior => rows[id].owner = prior
      BY <1>3, <2>2, PriorOwnerIsTheRows
    <3> QED BY <3>1, <3>2
  <2> QED BY <1>3, <1>4, <2>1, <2>2 DEF Items
<1> HIDE DEF id, rowOwner, owner
<1>5. CASE id \in Loops /\ owner = NoOwner
  <2>1. b = [id |-> id, value |-> changes[i].value, owner |-> owner, opaque |-> TRUE]
    BY <1>2, <1>5
  <2> QED BY <1>0, <1>1, <2>1 DEF id, Agreeing
<1>6. CASE ~(id \in Loops /\ owner = NoOwner)
  <2>1. b = [id |-> id, value |-> changes[i].value, owner |-> owner, opaque |-> FALSE]
    BY <1>2, <1>6
  <2> QED BY <1>0, <1>1, <1>4, <1>6, <2>1 DEF id, Agreeing
<1> QED BY <1>5, <1>6

(* The ledger of the snapshot being written, on either binary. *)
LedgerOf(r, source) ==
    IF source = "write" THEN WrittenEntries(r.changes, r.agent)
    ELSE BackfilledEntries(r.changes, r.agent, NewState)

LEMMA LedgerShape ==
    ASSUME NEW r, NEW source
    PROVE  /\ DOMAIN LedgerOf(r, source) = DOMAIN r.changes
           /\ \A i \in DOMAIN r.changes :
                 /\ LedgerOf(r, source)[i].id = r.changes[i].id
                 /\ LedgerOf(r, source)[i].value = r.changes[i].value
BY DEF LedgerOf, WrittenEntries, BackfilledEntries

LEMMA RowsKeepFollowing ==
    ASSUME TypeOK, RowsFollow, NEW r \in Request, NEW source, NEW snap,
           snap.ledger = LedgerOf(r, source),
           snapshots' = Append(snapshots, snap),
           rows' = RowsAfter(r.changes, r.agent)
    PROVE  RowsFollow'
<1>0. PICK new : new = NewState
  OBVIOUS
<1>1. /\ new \in Nat \ {0} /\ new \notin States
      /\ States \subseteq Nat \ {0}
      /\ States' = States \cup {new}
      /\ \A s \in States : s < new
      /\ snapshots'[new] = snap
  BY <1>0, OneMoreSnapshot
<1>2. r.changes \in ChangeLists /\ r.agent \in Agents
  BY DEF Request
<1> SUFFICES ASSUME NEW id \in Items, StatesNaming(id)' # {}
             PROVE  RowFollows(id, NewestIn(Max(StatesNaming(id)), id))'
  BY DEF RowsFollow
<1> DEFINE named == {i \in DOMAIN r.changes : r.changes[i].id = id}
<1>3. OrdinalsNaming(new, id)' = named
  BY <1>1, LedgerShape DEF OrdinalsNaming
<1>4. /\ \A s \in States : NewestIn(s, id)' = NewestIn(s, id)
      /\ StatesNaming(id) \subseteq States
      /\ StatesNaming(id)' = StatesNaming(id) \cup
            (IF named = {} THEN {} ELSE {new})
  BY <1>0, <1>3, LedgersStay
<1>5. rows'[id] = IF named = {} THEN rows[id]
                  ELSE [value |-> WrittenEntries(r.changes, r.agent)[Max(named)].value,
                        owner |-> WrittenEntries(r.changes, r.agent)[Max(named)].owner]
  BY DEF RowsAfter
<1>6. CASE named = {}
  <2>1. StatesNaming(id)' = StatesNaming(id) /\ rows'[id] = rows[id]
    BY <1>4, <1>5, <1>6
  <2>2. PICK m : m = Max(StatesNaming(id))
    OBVIOUS
  <2>3. m \in States
    BY <1>4, <2>1, <2>2, NewestState
  <2>4. Max(StatesNaming(id))' = m
    BY <2>1, <2>2
  <2>5. RowFollows(id, NewestIn(m, id))
    BY <2>1, <2>2 DEF RowsFollow
  <2>6. RowFollows(id, NewestIn(m, id))'
    BY <1>4, <2>1, <2>3, <2>5 DEF RowFollows
  <2> QED BY <2>4, <2>6
<1>7. CASE named # {}
  <2>1. Max(StatesNaming(id))' = new
    <3>1. StatesNaming(id)' = StatesNaming(id) \cup {new}
      BY <1>4, <1>7
    <3>a. \A s \in States \cup {new} : s \in 0 .. new /\ s <= new
      BY <1>1
    <3>2. StatesNaming(id)' \in SUBSET (0 .. new)
      BY <1>4, <3>1, <3>a
    <3>3. new \in StatesNaming(id)' /\ \A s \in StatesNaming(id)' : s <= new
      BY <1>4, <3>1, <3>a
    <3>4. Max(StatesNaming(id)') = new
      BY <1>1, <3>2, <3>3, MaxIs
    <3> QED BY <3>4
  <2>2. PICK m : m = Max(named)
    OBVIOUS
  <2>3. m \in DOMAIN r.changes
    <3>1. PICK n \in 0 .. MaxChanges : DOMAIN r.changes = 1 .. n
      BY <1>2, ChangeListShape
    <3>2. n \in Nat /\ named \in SUBSET (0 .. n)
      BY <3>1, BoundsAssumption
    <3> QED BY <1>7, <2>2, <3>2, MaxIsTheLargest
  <2>4. NewestIn(new, id)' = LedgerOf(r, source)[m]
    BY <1>1, <1>3, <2>2 DEF NewestIn
  <2>5. PICK w, b : /\ w = WrittenEntries(r.changes, r.agent)[m]
                    /\ b = BackfilledEntries(r.changes, r.agent, NewState)[m]
    OBVIOUS
  <2>6. /\ w.value = r.changes[m].value /\ b.value = r.changes[m].value
        /\ ~b.opaque => w.owner = b.owner
    <3>1. Agreeing(w, b, r.changes[m])
      BY <1>2, <2>3, <2>5, EntriesAgree
    <3> QED BY <3>1 DEF Agreeing
  <2>7. rows'[id].value = w.value /\ rows'[id].owner = w.owner
    BY <1>5, <1>7, <2>2, <2>5
  <2>8. LedgerOf(r, source)[m] = w \/ LedgerOf(r, source)[m] = b
    BY <2>5 DEF LedgerOf
  <2>9. RowFollows(id, NewestIn(new, id))'
    BY <2>4, <2>6, <2>7, <2>8 DEF RowFollows
  <2> QED BY <2>1, <2>9
<1> QED BY <1>6, <1>7

(* What a verifier expects of a snapshot does not change as the scope      *)
(* grows.                                                                  *)
LEMMA BackfillStays ==
    ASSUME TypeOK, NEW snap, snapshots' = Append(snapshots, snap),
           NEW changes \in ChangeLists, NEW author,
           NEW s \in States \cup {NewState}
    PROVE  BackfilledEntries(changes, author, s)' = BackfilledEntries(changes, author, s)
<1>1. \A i \in DOMAIN changes : changes[i].id \in Items
  BY ChangeListShape DEF Change
<1>2. ASSUME NEW i \in DOMAIN changes
      PROVE  PredecessorOwner(changes[i].id, s)' = PredecessorOwner(changes[i].id, s)
  BY <1>1, PriorOwnerStays
<1>3. \A i \in DOMAIN changes :
         OwnerInEffect(changes, i, author, PredecessorOwner(changes[i].id, s))'
           = OwnerInEffect(changes, i, author, PredecessorOwner(changes[i].id, s))
  BY <1>2 DEF OwnerInEffect, OwnerNamedAt
<1> QED BY <1>3, Zenon DEF BackfilledEntries

(* verifyVersionParity accepts what either writer leaves, then and for     *)
(* ever.                                                                   *)
LedgersHold == \A s \in States : VersionParity(s)

(* Parity of one snapshot, spelled out from its columns. *)
ParityOf(snap, expected) ==
    /\ DOMAIN snap.ledger = DOMAIN expected
    /\ \A i \in DOMAIN expected :
          IF expected[i].opaque /\ snap.source = "write"
          THEN /\ snap.ledger[i].id = expected[i].id
               /\ snap.ledger[i].value = expected[i].value
               /\ ~snap.ledger[i].opaque
          ELSE snap.ledger[i] = expected[i]

LEMMA NewLedgerHolds ==
    ASSUME TypeOK, RowsFollow, NEW r \in Request,
           NEW source \in {"write", "backfill"}, NEW snap,
           snap.ledger = LedgerOf(r, source), snap.source = source
    PROVE  ParityOf(snap, BackfilledEntries(r.changes, r.agent, NewState))
<1>1. PICK b : b = BackfilledEntries(r.changes, r.agent, NewState)
  OBVIOUS
<1>2. PICK w : w = WrittenEntries(r.changes, r.agent)
  OBVIOUS
<1>3. r.changes \in ChangeLists /\ r.agent \in Agents
  BY DEF Request
<1>4. DOMAIN b = DOMAIN r.changes /\ DOMAIN w = DOMAIN r.changes
  BY <1>1, <1>2 DEF BackfilledEntries, WrittenEntries
<1>5. ASSUME NEW i \in DOMAIN r.changes PROVE Agreeing(w[i], b[i], r.changes[i])
  BY <1>1, <1>2, <1>3, EntriesAgree
<1>6. CASE source = "write"
  <2>1. snap.ledger = w
    BY <1>2, <1>6 DEF LedgerOf
  <2> QED BY <1>1, <1>4, <1>5, <1>6, <2>1 DEF ParityOf, Agreeing
<1>7. CASE source = "backfill"
  <2>1. snap.ledger = b
    BY <1>1, <1>7 DEF LedgerOf
  <2> QED BY <1>1, <1>7, <2>1 DEF ParityOf
<1> QED BY <1>6, <1>7

LEMMA LedgersKeepHolding ==
    ASSUME TypeOK, RowsFollow, LedgersHold, NEW r \in Request,
           NEW source \in {"write", "backfill"}, NEW snap,
           snap.ledger = LedgerOf(r, source), snap.source = source,
           snap.request = r, snapshots' = Append(snapshots, snap)
    PROVE  LedgersHold'
<1>0. PICK new : new = NewState
  OBVIOUS
<1>1. /\ States' = States \cup {new}
      /\ \A s \in States : snapshots'[s] = snapshots[s]
      /\ snapshots'[new] = snap
  BY <1>0, OneMoreSnapshot
<1>2. ASSUME NEW s \in States PROVE VersionParity(s)'
  <2>1. PICK old : old = snapshots[s]
    OBVIOUS
  <2>2. old.request.changes \in ChangeLists
    <3>1. old \in SnapshotType
      BY <2>1 DEF TypeOK, States
    <3> QED BY <3>1 DEF SnapshotType, Request
  <2>3. BackfilledEntries(old.request.changes, old.request.agent, s)'
           = BackfilledEntries(old.request.changes, old.request.agent, s)
    BY <2>2, BackfillStays
  <2>4. VersionParity(s)
    BY DEF LedgersHold
  <2>5. ParityOf(old, BackfilledEntries(old.request.changes, old.request.agent, s))
    BY <2>1, <2>4 DEF VersionParity, ParityOf
  <2>6. snapshots'[s] = old
    BY <1>1, <2>1
  <2> QED BY <2>3, <2>5, <2>6 DEF VersionParity, ParityOf
<1>3. VersionParity(new)'
  <2>1. ParityOf(snap, BackfilledEntries(r.changes, r.agent, new))
    BY <1>0, NewLedgerHolds
  <2>2. BackfilledEntries(r.changes, r.agent, new)'
           = BackfilledEntries(r.changes, r.agent, new)
    BY <1>0, BackfillStays DEF Request
  <2> QED BY <1>1, <2>1, <2>2 DEF VersionParity, ParityOf
<1> QED BY <1>1, <1>2, <1>3 DEF LedgersHold
-----------------------------------------------------------------------------
(* What a writing step adds *)

(* The snapshot of an admitted request, its rows, and what becomes of the  *)
(* retirements and the pointer.                                            *)
Added(r, source) ==
    /\ r \in Request /\ r.key = NewState /\ Answer(r) = "written"
    /\ source \in {"write", "backfill"}
    /\ snapshots' = Append(snapshots, Snapshot(r, source, LedgerOf(r, source)))
    /\ rows' = RowsAfter(r.changes, r.agent)

AddedByWrite(r, source) ==
    /\ Added(r, source)
    /\ r \in WriteRequests \cup DeriveRequests /\ r.op # "reconcile"
    /\ retirements' = retirements
    /\ IF source = "write" THEN pointer' = AdvancedPointer(NewState, r.expected)
                           ELSE pointer' = pointer /\ r.op = "write"

AddedByReconcile(r) ==
    /\ Added(r, "write")
    /\ r \in ReconcileRequests /\ r.op = "reconcile"
    /\ retirements' = retirements \cup
          {[state |-> h, by |-> NewState] : h \in ReconcileRecord(r.plan).retired}
    /\ pointer' = ReconciledPointer(NewState)

LEMMA StepAdds ==
    ASSUME TypeOK, [Next]_vars
    PROVE  \/ \E r \in Request : \E source \in {"write", "backfill"} :
                  AddedByWrite(r, source)
           \/ \E r \in Request : AddedByReconcile(r) /\ NewestPassesParity'
           \/ UNCHANGED <<snapshots, retirements, pointer, rows>>
<1>1. ASSUME NEW r \in WriteRequests \cup DeriveRequests \cup SentAgain, Write(r)
      PROVE  r \in Request /\ AddedByWrite(r, "write")
  <2>1. r \in WriteRequests \cup DeriveRequests
    BY <1>1, SentAgainIsNotWritten DEF Write
  <2>2. r \in Request /\ r.key = NewState
    BY <2>1, RequestsAreTyped DEF WriteRequests, DeriveRequests, FreshKey, NewState
  <2>3. r.op # "reconcile"
    BY <1>1 DEF Write
  <2> QED BY <1>1, <2>1, <2>2, <2>3 DEF Write, Insert, AddedByWrite, Added, LedgerOf
<1>2. ASSUME NEW r \in ReconcileRequests \cup SentAgain, Reconcile(r)
      PROVE  r \in Request /\ AddedByReconcile(r) /\ NewestPassesParity'
  <2>1. r \in ReconcileRequests
    BY <1>2, SentAgainIsNotWritten DEF Reconcile
  <2>2. r \in Request
    BY <2>1, RequestsAreTyped
  <2>3. r.key = NewState
    <3>1. PICK p : r \in [op : {"reconcile"}, version : {"v3"}, agent : Agents,
                          key : {FreshKey}, expected : {p.survivor},
                          ack : Acknowledge, changes : SentChanges,
                          body : FullBody, plan : {p}]
      BY <2>1, Zenon DEF ReconcileRequests
    <3> QED BY <3>1 DEF FreshKey, NewState
  <2> QED BY <1>2, <2>1, <2>2, <2>3
          DEF Reconcile, Insert, AddedByReconcile, Added, LedgerOf
<1>3. ASSUME NEW r \in WriteRequests \cup SentAgain, PreH1Write(r)
      PROVE  r \in Request /\ AddedByWrite(r, "backfill")
  <2>1. r \in WriteRequests
    BY <1>3, SentAgainIsNotWritten DEF PreH1Write
  <2>2. r \in Request /\ r.key = NewState
    BY <2>1, RequestsAreTyped DEF WriteRequests, FreshKey, NewState
  <2>3. r.op # "reconcile"
    BY <1>3 DEF PreH1Write
  <2> QED BY <1>3, <2>1, <2>2, <2>3 DEF PreH1Write, AddedByWrite, Added, LedgerOf
<1>4. CASE Upgrade \/ Rollback \/ UNCHANGED vars
  BY <1>4 DEF Upgrade, Rollback, vars
<1> QED BY <1>1, <1>2, <1>3, <1>4 DEF Next, Writing, Reconciling, PreH1Writing

(* What a reconcile has been checked for when it is admitted. *)
LEMMA AdmittedReconcile ==
    ASSUME TypeOK, NEW r \in Request, r.op = "reconcile", Answer(r) = "written"
    PROVE  /\ r.expected \in States /\ r.expected = r.plan.survivor
           /\ r.plan.heads = LiveHeads /\ r.plan.pointer = pointer.state
           /\ EvidenceVerified(r.plan.survivor)
           /\ DivergenceAnswered(r.plan, r.ack, WrittenEntries(r.changes, r.agent))
<1>1. /\ r.expected = NoState => States = {}
      /\ r.expected # NoState => r.expected \in States
      /\ LiveHeads # {} /\ NamesTheFrontier(r)
  BY AdmittedParent DEF AllOperations
<1>2. Admission(r) = "written"
  BY DEF Answer, KeyAnswer
<1>3. ReconcileAnswer(r) = "written"
  BY <1>1, <1>2 DEF Admission
<1> QED BY <1>1, <1>3 DEF ReconcileAnswer, NamesTheFrontier, EvaluatedEntries, LiveHeads

LEMMA ResolutionsNameTheScope ==
    ASSUME TypeOK, NEW plan, NEW ack, NEW entries,
           DivergenceAnswered(plan, ack, entries),
           NEW x \in AllResolutions(plan)
    PROVE  /\ x.id \in Items /\ x.at \in States
           /\ x.decision = "accept" =>
                 x \in plan.resolutions /\ ValidResolution(x, plan, entries)
<1>1. Unresolved(plan) \subseteq [id : Items, at : States]
  BY ResolutionsAreTyped
<1>2. CASE x \in plan.resolutions
  <2>1. ValidResolution(x, plan, entries)
    BY <1>2 DEF DivergenceAnswered
  <2>2. Key(x) \in [id : Items, at : States]
    BY <1>1, <2>1 DEF ValidResolution
  <2> QED BY <1>2, <2>1, <2>2 DEF Key
<1>3. CASE x \notin plan.resolutions
  <2>1. PICK t \in RejectedByLineage(plan) :
          x = [id |-> t.id, at |-> t.at, decision |-> "reject", ordinal |-> 0]
    BY <1>3 DEF AllResolutions
  <2>2. t \in [id : Items, at : States]
    BY <1>1 DEF RejectedByLineage
  <2> QED BY <2>1, <2>2
<1> QED BY <1>2, <1>3
-----------------------------------------------------------------------------
(* Records, retirements and their parity *)

(* The key and the record of a snapshot are those of its request. *)
RecordKept(s, snap, scope) ==
    /\ snap.request.key = s
    /\ snap.request.op # "reconcile" => snap.record = NoRecord
    /\ snap.request.op = "reconcile" => snap.record.survivor \in scope
    /\ \A x \in snap.record.resolutions : x.id \in Items /\ x.at \in scope

RecordsAreKept == \A s \in States : RecordKept(s, snapshots[s], States)

ReconcilesHold == \A s \in States : IsReconcile(s) => ReconcileParity(s)

EvidenceInv ==
    /\ RowsFollow
    /\ LedgersHold
    /\ RecordsAreKept
    /\ RetirementsAttributed
    /\ RetirementsRecorded
    /\ ReconcilesHold

LEMMA RecordsStayKept ==
    ASSUME TypeOK, RecordsAreKept, NEW r \in Request, NEW source, Added(r, source)
    PROVE  RecordsAreKept'
<1>0. PICK new : new = NewState
  OBVIOUS
<1>1. PICK snap : snap = Snapshot(r, source, LedgerOf(r, source))
  OBVIOUS
<1>2. /\ States' = States \cup {new}
      /\ \A s \in States : snapshots'[s] = snapshots[s]
      /\ snapshots'[new] = snap
  BY <1>0, <1>1, OneMoreSnapshot DEF Added
<1>3. ASSUME NEW s \in States PROVE RecordKept(s, snapshots'[s], States')
  <2>1. PICK old : old = snapshots[s]
    OBVIOUS
  <2>2. RecordKept(s, old, States)
    BY <2>1 DEF RecordsAreKept
  <2>3. RecordKept(s, old, States')
    BY <1>2, <2>2 DEF RecordKept
  <2> QED BY <1>2, <2>1, <2>3
<1>4. /\ snap.request = r
      /\ snap.record = IF r.op = "reconcile" THEN ReconcileRecord(r.plan)
                                             ELSE NoRecord
  BY <1>1 DEF Snapshot
<1>5. RecordKept(new, snap, States')
  <2>1. CASE r.op = "reconcile"
    <3>1. /\ r.expected \in States /\ r.expected = r.plan.survivor
          /\ DivergenceAnswered(r.plan, r.ack, WrittenEntries(r.changes, r.agent))
      BY <2>1, AdmittedReconcile DEF Added
    <3>2. \A x \in AllResolutions(r.plan) : x.id \in Items /\ x.at \in States
      BY <3>1, ResolutionsNameTheScope
    <3>3. /\ snap.record.survivor = r.plan.survivor
          /\ snap.record.resolutions = AllResolutions(r.plan)
      BY <1>4, <2>1 DEF ReconcileRecord
    <3> QED BY <1>0, <1>2, <1>4, <2>1, <3>1, <3>2, <3>3 DEF RecordKept, Added
  <2>2. CASE r.op # "reconcile"
    <3>1. snap.record.resolutions = {} /\ snap.record = NoRecord
      BY <1>4, <2>2 DEF NoRecord
    <3> QED BY <1>0, <1>4, <2>2, <3>1 DEF RecordKept, Added
  <2> QED BY <2>1, <2>2
<1>6. \A s \in States' : RecordKept(s, snapshots'[s], States')
  BY <1>2, <1>3, <1>5
<1> QED BY <1>6 DEF RecordsAreKept

(* Whatever is added, the parity of an older reconcile stands: the heads   *)
(* retired later are childless, so they are not on the lineage it adopted, *)
(* and no later row carries its name.                                      *)
LEMMA ParityStands ==
    ASSUME TypeOK, RecordsAreKept, NEW snap,
           snapshots' = Append(snapshots, snap),
           snap.parent \in {NoState} \cup States,
           retirements \subseteq retirements',
           \A x \in retirements' \ retirements :
               x.state \in LiveHeads /\ x.by = NewState,
           pointer' = pointer \/ pointer'.state = NewState,
           NEW s \in States, IsReconcile(s), ReconcileParity(s)
    PROVE  ReconcileParity(s)'
<1>0. PICK new : new = NewState
  OBVIOUS
<1>1. /\ new \notin States
      /\ snapshots'[s] = snapshots[s]
  BY <1>0, OneMoreSnapshot
<1>2. PICK rec : rec = snapshots[s].record
  OBVIOUS
<1>3. /\ rec.survivor \in States
      /\ \A x \in rec.resolutions : x.id \in Items /\ x.at \in States
  BY <1>2 DEF IsReconcile, RecordsAreKept, RecordKept, NoRecord, NoState
<1>4. /\ Parent(s) = rec.survivor
      /\ AdoptedRetired(rec.survivor) = rec.adopted
      /\ {x.state : x \in {y \in retirements : y.by = s}} = rec.retired
      /\ \A x \in rec.resolutions :
            x.decision = "accept" =>
               /\ x.ordinal \in OrdinalsNaming(s, x.id)
               /\ \A j \in OrdinalsNaming(s, x.id) : j <= x.ordinal
               /\ Comparable(snapshots[s].ledger[x.ordinal])
                     = Comparable(NewestIn(x.at, x.id))
      /\ pointer.state = s => pointer.reason = "reconcile"
  BY <1>2 DEF ReconcileParity
<1>5. Parent(s)' = rec.survivor
  BY <1>1, <1>4 DEF Parent
<1>6. AdoptedRetired(rec.survivor)' = rec.adopted
  <2>1. Lineage'[rec.survivor] = Lineage[rec.survivor]
    BY <1>3, LineageStays
  <2>2. RetiredHeads \subseteq RetiredHeads'
    BY DEF RetiredHeads
  <2>3. ASSUME NEW t \in RetiredHeads' \ RetiredHeads PROVE t \in LiveHeads
    <3>1. PICK x \in retirements' : x.state = t
      BY DEF RetiredHeads
    <3>2. x \notin retirements
      BY <2>3, <3>1 DEF RetiredHeads
    <3> QED BY <3>1, <3>2
  <2>4. ASSUME NEW t \in Lineage[rec.survivor] PROVE t \notin LiveHeads
    <3>1. /\ Lineage[rec.survivor] \subseteq States
          /\ t # rec.survivor =>
                \E c \in Lineage[rec.survivor] : Parent(c) = t
      BY <1>3, LineageIsALine DEF OnALine
    <3>2. \E c \in States : Parent(c) = t
      BY <1>4, <3>1
    <3> QED BY <3>2 DEF LiveHeads, Children
  <2>5. AdoptedRetired(rec.survivor)' = RetiredHeads' \cap Lineage'[rec.survivor]
    BY DEF AdoptedRetired
  <2>6. AdoptedRetired(rec.survivor) = RetiredHeads \cap Lineage[rec.survivor]
    BY DEF AdoptedRetired
  <2> QED BY <1>4, <2>1, <2>2, <2>3, <2>4, <2>5, <2>6
<1>7. {x.state : x \in {y \in retirements' : y.by = s}} = rec.retired
  <2>1. {y \in retirements' : y.by = s} = {y \in retirements : y.by = s}
    BY <1>0, <1>1
  <2> QED BY <1>4, <2>1
<1>8. ASSUME NEW x \in rec.resolutions, x.decision = "accept"
      PROVE  /\ x.ordinal \in OrdinalsNaming(s, x.id)'
             /\ \A j \in OrdinalsNaming(s, x.id)' : j <= x.ordinal
             /\ Comparable(snapshots'[s].ledger[x.ordinal])
                   = Comparable(NewestIn(x.at, x.id)')
  <2>1. PICK id \in Items, at \in States : id = x.id /\ at = x.at
    BY <1>3
  <2>2. /\ OrdinalsNaming(s, id)' = OrdinalsNaming(s, id)
        /\ NewestIn(at, id)' = NewestIn(at, id)
    BY <1>0, LedgersStay
  <2> QED BY <1>1, <1>4, <1>8, <2>1, <2>2 DEF Comparable
<1>9. pointer'.state = s => pointer'.reason = "reconcile"
  BY <1>0, <1>1, <1>4
<1>10. snapshots'[s].record = rec
  BY <1>1, <1>2
<1> QED BY <1>5, <1>6, <1>7, <1>8, <1>9, <1>10 DEF ReconcileParity, Comparable
-----------------------------------------------------------------------------
(* Evidence *)

(* Retirement rows and records go together. *)
LEMMA RetirementsStayRecorded ==
    ASSUME TypeOK, RetirementsAttributed, RetirementsRecorded, NEW snap,
           snapshots' = Append(snapshots, snap),
           retirements' = retirements \cup
              {[state |-> h, by |-> NewState] : h \in snap.record.retired}
    PROVE  RetirementsAttributed' /\ RetirementsRecorded'
<1>0. PICK new : new = NewState
  OBVIOUS
<1>1. /\ new \notin States /\ States' = States \cup {new}
      /\ \A s \in States : snapshots'[s] = snapshots[s]
      /\ snapshots'[new] = snap
  BY <1>0, OneMoreSnapshot
<1> DEFINE added == {[state |-> h, by |-> new] : h \in snap.record.retired}
<1>2. /\ \A x \in added : x.state \in snap.record.retired /\ x.by = new
      /\ retirements' = retirements \cup added
      /\ \A x \in retirements : x.by \in States
  BY <1>0 DEF TypeOK
<1>3. {x.state : x \in added} = snap.record.retired
  <2>1. ASSUME NEW h \in snap.record.retired PROVE h \in {x.state : x \in added}
    <3>1. [state |-> h, by |-> new] \in added
      OBVIOUS
    <3> HIDE DEF added
    <3> QED BY <3>1
  <2> HIDE DEF added
  <2> QED BY <1>2, <2>1
<1> HIDE DEF added
<1>4. RetirementsAttributed'
  BY <1>1, <1>2 DEF RetirementsAttributed
<1>5. ASSUME NEW s \in States
      PROVE  {x.state : x \in {y \in retirements' : y.by = s}}
                = snapshots'[s].record.retired
  <2>1. {y \in retirements' : y.by = s} = {y \in retirements : y.by = s}
    BY <1>1, <1>2
  <2> QED BY <1>1, <2>1 DEF RetirementsRecorded
<1>6. {x.state : x \in {y \in retirements' : y.by = new}}
         = snapshots'[new].record.retired
  <2>1. {y \in retirements' : y.by = new} = added
    BY <1>1, <1>2
  <2> QED BY <1>1, <1>3, <2>1
<1> QED BY <1>1, <1>4, <1>5, <1>6 DEF RetirementsRecorded

(* The evidence of a scope is inductive: what was written stays derivable. *)
LEMMA EvidenceStep ==
    ASSUME TypeOK, EvidenceInv, [Next]_vars
    PROVE  EvidenceInv'
<1>1. ASSUME NEW r \in Request, NEW source, Added(r, source),
             NEW snap, snap = Snapshot(r, source, LedgerOf(r, source)),
             retirements' = retirements \cup
                {[state |-> h, by |-> NewState] : h \in snap.record.retired},
             snap.record.retired \subseteq LiveHeads,
             pointer' = pointer \/ pointer'.state = NewState,
             r.op = "reconcile" => NewestPassesParity'
      PROVE  EvidenceInv'
  <2>0. PICK new : new = NewState
    OBVIOUS
  <2>1. snapshots' = Append(snapshots, snap)
    BY <1>1 DEF Added
  <2>2. /\ new \notin States /\ States' = States \cup {new}
        /\ \A s \in States : snapshots'[s] = snapshots[s]
        /\ snapshots'[new] = snap /\ Len(snapshots)' = new
    BY <2>0, <2>1, OneMoreSnapshot
  <2>3. /\ snap.ledger = LedgerOf(r, source) /\ snap.source = source
        /\ snap.request = r
        /\ snap.record = IF r.op = "reconcile" THEN ReconcileRecord(r.plan)
                                               ELSE NoRecord
    BY <1>1 DEF Snapshot
  <2>4. RowsFollow'
    BY <1>1, <2>1, <2>3, RowsKeepFollowing DEF Added, EvidenceInv
  <2>5. LedgersHold'
    BY <1>1, <2>1, <2>3, LedgersKeepHolding DEF Added, EvidenceInv
  <2>6. RecordsAreKept'
    BY <1>1, RecordsStayKept DEF EvidenceInv
  <2>7. RetirementsAttributed' /\ RetirementsRecorded'
    BY <1>1, <2>1, RetirementsStayRecorded DEF EvidenceInv
  <2>8. ReconcilesHold'
    <3>1. ASSUME NEW s \in States, IsReconcile(s)' PROVE ReconcileParity(s)'
      <4>1. IsReconcile(s)
        BY <2>2, <3>1 DEF IsReconcile
      <4>2. ReconcileParity(s) /\ RecordsAreKept
        BY <4>1 DEF EvidenceInv, ReconcilesHold
      <4>3. /\ retirements \subseteq retirements'
            /\ \A x \in retirements' \ retirements :
                  x.state \in LiveHeads /\ x.by = NewState
        BY <1>1
      <4>4. snap.parent \in {NoState} \cup States
        BY <1>1, AdmittedParent DEF Added, Request, Snapshot
      <4> QED BY <1>1, <2>1, <4>1, <4>2, <4>3, <4>4, ParityStands
    <3>2. ASSUME IsReconcile(new)' PROVE ReconcileParity(new)'
      <4>1. r.op = "reconcile"
        BY <2>2, <2>3, <3>2 DEF IsReconcile, NoRecord
      <4>2. NewestPassesParity'
        BY <1>1, <4>1
      <4> QED BY <2>2, <4>2 DEF NewestPassesParity
    <3> QED BY <2>2, <3>1, <3>2 DEF ReconcilesHold
  <2> QED BY <2>4, <2>5, <2>6, <2>7, <2>8 DEF EvidenceInv
<1>2. ASSUME NEW r \in Request, NEW source \in {"write", "backfill"},
             AddedByWrite(r, source)
      PROVE  EvidenceInv'
  <2>1. PICK snap : snap = Snapshot(r, source, LedgerOf(r, source))
    OBVIOUS
  <2>2. snap.record = NoRecord
    BY <1>2, <2>1 DEF AddedByWrite, Snapshot
  <2>3. snap.record.retired = {}
    BY <2>2 DEF NoRecord
  <2>4. retirements' = retirements \cup
                {[state |-> h, by |-> NewState] : h \in snap.record.retired}
    BY <1>2, <2>3 DEF AddedByWrite
  <2>5. pointer' = pointer \/ pointer'.state = NewState
    BY <1>2, AdvanceCases DEF AddedByWrite
  <2> QED BY <1>1, <1>2, <2>1, <2>3, <2>4, <2>5 DEF AddedByWrite
<1>3. ASSUME NEW r \in Request, AddedByReconcile(r), NewestPassesParity'
      PROVE  EvidenceInv'
  <2>1. PICK snap : snap = Snapshot(r, "write", LedgerOf(r, "write"))
    OBVIOUS
  <2>2. snap.record = ReconcileRecord(r.plan)
    BY <1>3, <2>1 DEF AddedByReconcile, Snapshot
  <2>3. snap.record.retired \subseteq LiveHeads
    BY <1>3, <2>2, AdmittedReconcile DEF AddedByReconcile, Added, ReconcileRecord
  <2> QED BY <1>1, <1>3, <2>1, <2>2, <2>3 DEF AddedByReconcile, ReconciledPointer
<1>4. CASE UNCHANGED <<snapshots, retirements, pointer, rows>>
  <2>1. /\ snapshots' = snapshots /\ retirements' = retirements
        /\ pointer' = pointer /\ rows' = rows
    BY <1>4
  <2>2. /\ States' = States /\ Lineage' = Lineage /\ RetiredHeads' = RetiredHeads
        /\ \A s : Parent(s)' = Parent(s)
    BY <2>1, Zenon DEF States, Lineage, RetiredHeads, Parent
  <2>3. \A s, id : OrdinalsNaming(s, id)' = OrdinalsNaming(s, id)
    BY <2>1, Zenon DEF OrdinalsNaming
  <2>4. \A s, id : NewestIn(s, id)' = NewestIn(s, id)
    BY <2>1, <2>3, Zenon DEF NewestIn
  <2>5. \A id : StatesNaming(id)' = StatesNaming(id)
    BY <2>2, <2>3, Zenon DEF StatesNaming
  <2>6. \A id, s : PredecessorOwner(id, s)' = PredecessorOwner(id, s)
    BY <2>4, <2>5, Zenon DEF PredecessorOwner
  <2>7. \A changes, author, s :
           BackfilledEntries(changes, author, s)' = BackfilledEntries(changes, author, s)
    <3> TAKE changes, author, s
    <3>1. \A i : OwnerInEffect(changes, i, author, PredecessorOwner(changes[i].id, s))'
               = OwnerInEffect(changes, i, author, PredecessorOwner(changes[i].id, s))
      BY <2>6 DEF OwnerInEffect, OwnerNamedAt
    <3>2. \A i \in DOMAIN changes :
             OwnerInEffect(changes, i, author, PredecessorOwner(changes[i].id, s))'
               = OwnerInEffect(changes, i, author, PredecessorOwner(changes[i].id, s))
      BY <3>1
    <3> QED BY <3>2, Zenon DEF BackfilledEntries
  <2>8. RowsFollow' <=> RowsFollow
    BY <2>1, <2>4, <2>5, Zenon DEF RowsFollow, RowFollows
  <2>9. LedgersHold' <=> LedgersHold
    <3>1. \A s : VersionParity(s)' <=> VersionParity(s)
      BY <2>1, <2>7, Zenon DEF VersionParity
    <3> QED BY <2>2, <3>1 DEF LedgersHold
  <2>10. RecordsAreKept' <=> RecordsAreKept
    BY <2>1, <2>2 DEF RecordsAreKept, RecordKept
  <2>11. /\ RetirementsAttributed' <=> RetirementsAttributed
         /\ RetirementsRecorded' <=> RetirementsRecorded
    BY <2>1, <2>2, Zenon DEF RetirementsAttributed, RetirementsRecorded
  <2>12. ReconcilesHold' <=> ReconcilesHold
    <3>1. \A s : AdoptedRetired(s)' = AdoptedRetired(s)
      BY <2>2, Zenon DEF AdoptedRetired
    <3>2. \A s : ReconcileParity(s)' <=> ReconcileParity(s)
      BY <2>1, <2>2, <2>3, <2>4, <3>1, Zenon DEF ReconcileParity, Comparable
    <3>3. \A s : IsReconcile(s)' <=> IsReconcile(s)
      BY <2>1, Zenon DEF IsReconcile
    <3> QED BY <2>2, <3>2, <3>3, Zenon DEF ReconcilesHold
  <2> QED BY <2>8, <2>9, <2>10, <2>11, <2>12 DEF EvidenceInv
<1> QED BY <1>2, <1>3, <1>4, StepAdds

LEMMA EvidenceInvariant == Spec => []EvidenceInv
<1>1. Init => EvidenceInv
  BY DEF Init, EvidenceInv, RowsFollow, LedgersHold, RecordsAreKept,
         RetirementsAttributed, RetirementsRecorded, ReconcilesHold,
         States, StatesNaming
<1>2. TypeOK /\ EvidenceInv /\ [Next]_vars => EvidenceInv'
  BY EvidenceStep
<1> QED BY <1>1, <1>2, TypeCorrect, PTL DEF Spec

(* versions.ts and reconcile.ts: every history the writers of either       *)
(* binary produce passes the verifiers a reconcile and a resume run first, *)
(* at every head: no legal sequence of requests closes a scope.            *)
THEOREM EvidenceAlwaysStands == Spec => []EvidenceStands
<1>1. TypeOK /\ EvidenceInv => EvidenceStands
  <2> SUFFICES ASSUME TypeOK, EvidenceInv, NEW h \in States
               PROVE  EvidenceVerified(h)
    BY DEF EvidenceStands
  <2>1. Lineage[h] \subseteq States
    BY LineageIsALine DEF OnALine
  <2> QED BY <2>1 DEF EvidenceVerified, EvidenceInv, LedgersHold,
                      ReconcilesHold, LineageVerified
<1> QED BY <1>1, TypeCorrect, EvidenceInvariant, PTL

(* checkpoint.ts, "Idempotency FIRST": the request of any snapshot, however*)
(* late and however often it comes again, is answered with that snapshot,  *)
(* also when its parent was retired and, for a reconcile, when the heads   *)
(* it folded are gone and later reconciles retired others.                 *)
THEOREM RequestsReplayForEver == Spec => []RetryReplays
<1>1. EvidenceInv => RetryReplays
  <2> SUFFICES ASSUME EvidenceInv, NEW s \in States
               PROVE  Answer(snapshots[s].request) = "idempotent-replay"
    BY DEF RetryReplays
  <2>1. PICK r : r = snapshots[s].request
    OBVIOUS
  <2>2. \A t \in States : snapshots[t].request.key = t
    BY DEF EvidenceInv, RecordsAreKept, RecordKept
  <2>3. KeyHolders(r) = {s}
    BY <2>1, <2>2 DEF KeyHolders
  <2>4. r.op = "reconcile" => ReconcileParity(s)
    <3>1. ASSUME r.op = "reconcile" PROVE IsReconcile(s)
      <4>1. snapshots[s].record.survivor \in States
        BY <2>1, <3>1 DEF EvidenceInv, RecordsAreKept, RecordKept
      <4> QED BY <4>1 DEF IsReconcile, States, NoState
    <3> QED BY <3>1 DEF EvidenceInv, ReconcilesHold
  <2>5. (CHOOSE t \in KeyHolders(r) : TRUE) = s
    BY <2>3
  <2>6. KeyAnswer(r) = "idempotent-replay"
    BY <2>1, <2>4, <2>5 DEF KeyAnswer
  <2> QED BY <2>1, <2>3, <2>6 DEF Answer
<1> QED BY <1>1, EvidenceInvariant, PTL
-----------------------------------------------------------------------------
(* Views and working states *)

(* checkpoint.ts and selection.ts: on a scope that never branched the      *)
(* in-place rows and the versioned view show the same value and owner.     *)
THEOREM LineShowsTheRows == Spec => []ViewsAgreeOnALine
<1>1. TypeOK /\ EvidenceInv => ViewsAgreeOnALine
  <2> SUFFICES ASSUME TypeOK, EvidenceInv, NEW h \in States, NEW id \in Items,
                      NEW at, at = AcceptedAt(h, id), Lineage[h] = States,
                      at # NoState, ~NewestIn(at, id).opaque
               PROVE  rows[id] = [value |-> NewestIn(at, id).value,
                                  owner |-> NewestIn(at, id).owner]
    BY Zenon DEF ViewsAgreeOnALine
  <2>1. Lineage[h] \cap StatesNaming(id) = StatesNaming(id)
    BY DEF StatesNaming
  <2>2. StatesNaming(id) # {} /\ at = Max(StatesNaming(id))
    BY <2>1 DEF AcceptedAt
  <2>3. RowFollows(id, NewestIn(at, id))
    BY <2>2 DEF EvidenceInv, RowsFollow
  <2>4. rows[id] \in Row
    BY DEF TypeOK
  <2> QED BY <2>3, <2>4 DEF RowFollows, Row
<1> QED BY <1>1, TypeCorrect, EvidenceInvariant, PTL

(* resume.ts: whatever is written, recorded, patched or reconciled, every  *)
(* stored working state is complete, so record and patch never find a      *)
(* pointed head they cannot extend.                                        *)
THEOREM WorkingStatesStayValid == Spec => []StatesStayValid
<1>1. Init => StatesStayValid
  BY DEF Init, StatesStayValid, States
<1>2. TypeOK /\ StatesStayValid /\ [Next]_vars => StatesStayValid'
  <2> SUFFICES ASSUME TypeOK, StatesStayValid, [Next]_vars
               PROVE  StatesStayValid'
    OBVIOUS
  <2>1. ASSUME NEW r \in Request, NEW source, Added(r, source),
               ValidWorkingState(StateFor(r))
        PROVE  StatesStayValid'
    <3>1. PICK snap : snap = Snapshot(r, source, LedgerOf(r, source))
      OBVIOUS
    <3>2. PICK new : new = NewState
      OBVIOUS
    <3>3. /\ States' = States \cup {new}
          /\ \A s \in States : snapshots'[s] = snapshots[s]
          /\ snapshots'[new] = snap
      BY <2>1, <3>1, <3>2, OneMoreSnapshot DEF Added
    <3>4. snap.state = StateFor(r)
      BY <3>1 DEF Snapshot
    <3> QED BY <2>1, <3>3, <3>4 DEF StatesStayValid, ValidWorkingState
  <2>2. ASSUME NEW r \in Request, r.body \in FullBody,
               r.op \in {"write", "reconcile"}
        PROVE  ValidWorkingState(StateFor(r))
    <3>1. StateFor(r) = r.body
      BY <2>2 DEF StateFor
    <3> QED BY <2>2, <3>1, BoundsAssumption DEF ValidWorkingState, FullBody
  <2>3. ASSUME NEW r \in Request, NEW source \in {"write", "backfill"},
               AddedByWrite(r, source)
        PROVE  ValidWorkingState(StateFor(r))
    <3>1. CASE r \in WriteRequests
      BY <2>2, <3>1, RequestsAreTyped
    <3>2. CASE r \in DeriveRequests
      <4>1. r.op \in {"record", "patch"} /\ r.expected \in States
        BY <3>2, RequestsAreTyped
      <4>2. Admission(r) = "written"
        BY <2>3 DEF AddedByWrite, Added, Answer, KeyAnswer
      <4>3. DeriveAnswer(r) = "written"
        BY <4>1, <4>2 DEF Admission, States, NoState
      <4> QED BY <4>3 DEF DeriveAnswer
    <3> QED BY <2>3, <3>1, <3>2 DEF AddedByWrite
  <2>4. ASSUME NEW r \in Request, AddedByReconcile(r) PROVE StatesStayValid'
    BY <2>1, <2>2, <2>4, RequestsAreTyped DEF AddedByReconcile
  <2>5. CASE UNCHANGED <<snapshots, retirements, pointer, rows>>
    BY <2>5 DEF StatesStayValid, States
  <2> QED BY <2>1, <2>3, <2>4, <2>5, StepAdds DEF AddedByWrite
<1> QED BY <1>1, <1>2, TypeCorrect, PTL DEF Spec

(* An admitted record or patch extends the pointed head, which is live.    *)
LEMMA AdmittedDerive ==
    ASSUME TypeOK, NEW r \in DeriveRequests, Answer(r) = "written"
    PROVE  /\ Selection = "pointer" /\ r.expected = EffectiveHead
           /\ r.expected = pointer.state /\ pointer.state \in LiveHeads
           /\ pointer # NoPointer
           /\ ValidWorkingState(StateFor(r))
<1>1. r.op \in {"record", "patch"} /\ r.expected \in States
  BY RequestsAreTyped
<1>2. Admission(r) = "written"
  BY DEF Answer, KeyAnswer
<1>3. DeriveAnswer(r) = "written"
  BY <1>1, <1>2 DEF Admission, States, NoState
<1>4. Selection = "pointer" /\ r.expected = EffectiveHead
      /\ ValidWorkingState(StateFor(r))
  BY <1>3 DEF DeriveAnswer
<1>5. pointer # NoPointer /\ pointer.state \in LiveHeads
  BY <1>4 DEF Selection
<1> QED BY <1>4, <1>5 DEF EffectiveHead

(* checkpoint.ts 5.2: the state a record or a patch leaves is that of the  *)
(* current head but for its own fields, and it is the current one then.    *)
THEOREM DerivedStatesKeepTheRest == Spec => DerivedStateKeepsTheRest
<1>1. TypeOK /\ [Next]_vars =>
         [\A s \in States' \ States :
             (snapshots[s].request.op)' \in {"record", "patch"} =>
               /\ EffectiveHead' = s
               /\ \A f \in Fields \ DOMAIN (snapshots[s].request.body)' :
                     (snapshots[s].state[f])' = snapshots[EffectiveHead].state[f]]_vars
  <2> SUFFICES ASSUME TypeOK, [Next]_vars, NEW s \in States' \ States,
                      (snapshots[s].request.op)' \in {"record", "patch"}
               PROVE  /\ EffectiveHead' = s
                      /\ \A f \in Fields \ DOMAIN (snapshots[s].request.body)' :
                            (snapshots[s].state[f])'
                               = snapshots[EffectiveHead].state[f]
    OBVIOUS
  <2>1. ASSUME NEW r \in Request, NEW source, Added(r, source)
        PROVE  /\ s = NewState /\ snapshots'[s] = Snapshot(r, source, LedgerOf(r, source))
               /\ r.op \in {"record", "patch"}
    <3>1. /\ States' = States \cup {NewState}
          /\ snapshots'[NewState] = Snapshot(r, source, LedgerOf(r, source))
      BY <2>1, OneMoreSnapshot DEF Added
    <3> QED BY <3>1 DEF Snapshot
  <2>2. ASSUME NEW r \in Request, AddedByReconcile(r) PROVE FALSE
    BY <2>1, <2>2 DEF AddedByReconcile
  <2>3. ASSUME NEW r \in Request, NEW source \in {"write", "backfill"},
               AddedByWrite(r, source)
        PROVE  /\ EffectiveHead' = s
               /\ \A f \in Fields \ DOMAIN (snapshots[s].request.body)' :
                     (snapshots[s].state[f])' = snapshots[EffectiveHead].state[f]
    <3>1. /\ s = NewState /\ snapshots'[s] = Snapshot(r, source, LedgerOf(r, source))
          /\ r.op \in {"record", "patch"}
      BY <2>1, <2>3 DEF AddedByWrite
    <3>2. r \in DeriveRequests
      BY <2>3, <3>1 DEF AddedByWrite, WriteRequests
    <3>3. /\ Selection = "pointer" /\ r.expected = EffectiveHead
          /\ r.expected = pointer.state /\ pointer.state \in LiveHeads
          /\ pointer # NoPointer
      BY <2>3, <3>2, AdmittedDerive DEF AddedByWrite, Added
    <3>4. source = "write"
      BY <2>3, <3>1 DEF AddedByWrite
    <3>5. pointer' = [state |-> NewState, reason |-> "advance"]
      BY <2>3, <3>3, <3>4 DEF AddedByWrite, AdvancedPointer, LiveHeads
    <3>6. LiveHeads' = (LiveHeads \ {r.expected}) \cup {NewState}
      <4>1. PICK snap : snap = Snapshot(r, source, LedgerOf(r, source))
        OBVIOUS
      <4>2. snapshots' = Append(snapshots, snap) /\ snap.parent = r.expected
        BY <2>3, <4>1 DEF AddedByWrite, Added, Snapshot
      <4>3. r.expected \in States
        BY <3>2, RequestsAreTyped
      <4>4. retirements' = retirements
        BY <2>3 DEF AddedByWrite
      <4> QED BY <4>2, <4>3, <4>4, WriteFrontier
    <3>7. Selection' = "pointer"
      BY <3>5, <3>6 DEF Selection, NoPointer
    <3>8. EffectiveHead' = s
      BY <3>1, <3>5, <3>7 DEF EffectiveHead
    <3>9. snapshots'[s].state = StateFor(r) /\ snapshots'[s].request = r
      BY <3>1 DEF Snapshot
    <3>10. \A f \in Fields \ DOMAIN r.body :
              StateFor(r)[f] = snapshots[EffectiveHead].state[f]
      BY <3>1, <3>3 DEF StateFor
    <3> QED BY <3>8, <3>9, <3>10
  <2>4. CASE UNCHANGED <<snapshots, retirements, pointer, rows>>
    BY <2>4 DEF States
  <2> QED BY <2>2, <2>3, <2>4, StepAdds
<1> QED BY <1>1, TypeCorrect, PTL DEF Spec, DerivedStateKeepsTheRest
-----------------------------------------------------------------------------
(* What divergence is made of *)

(* The terminals of older snapshots stay what they are. *)
LEMMA TerminalsStay ==
    ASSUME TypeOK, NEW snap, snapshots' = Append(snapshots, snap),
           NEW chain \in SUBSET States
    PROVE  TerminalsOn(chain)' = TerminalsOn(chain)
<1>0. PICK new : new = NewState
  OBVIOUS
<1>1. new \notin States
  BY <1>0, OneMoreSnapshot
<1>2. ASSUME NEW i \in Items
      PROVE  chain \cap StatesNaming(i)' = chain \cap StatesNaming(i)
  <2>1. StatesNaming(i)' = StatesNaming(i) \cup
                 (IF OrdinalsNaming(new, i)' = {} THEN {} ELSE {new})
    BY <1>0, LedgersStay
  <2> QED BY <1>1, <2>1
<1> QED BY <1>2, Zenon DEF TerminalsOn

LEMMA InTerminals ==
    ASSUME NEW heads, NEW accepted, NEW t
    PROVE  t \in Terminals(heads, accepted) <=>
              \E h \in heads : t \in TerminalsOn(Lineage[h] \ accepted)
BY DEF Terminals, Chain

LEMMA InResolvedKeys ==
    ASSUME NEW accepted, NEW t
    PROVE  t \in ResolvedKeys(accepted) <=>
              \E s \in accepted : \E x \in snapshots[s].record.resolutions : t = Key(x)
BY DEF ResolvedKeys

(* A step that leaves the scope alone leaves all of it alone. *)
LEMMA NothingMoves ==
    ASSUME UNCHANGED <<snapshots, retirements, pointer>>
    PROVE  /\ States' = States /\ Lineage' = Lineage
           /\ LiveHeads' = LiveHeads /\ RetiredHeads' = RetiredHeads
           /\ \A id : StatesNaming(id)' = StatesNaming(id)
           /\ \A heads, accepted :
                 Terminals(heads, accepted)' = Terminals(heads, accepted)
           /\ \A accepted : ResolvedKeys(accepted)' = ResolvedKeys(accepted)
           /\ \A h : OwedTerminals(h)' = OwedTerminals(h)
<1>1. /\ States' = States /\ Lineage' = Lineage /\ RetiredHeads' = RetiredHeads
      /\ \A s : Parent(s)' = Parent(s)
  BY Zenon DEF States, Lineage, RetiredHeads, Parent
<1>2. LiveHeads' = LiveHeads
  BY <1>1, Zenon DEF LiveHeads, Children, IsRetired
<1>3. \A id : StatesNaming(id)' = StatesNaming(id)
  BY <1>1, Zenon DEF StatesNaming, OrdinalsNaming
<1>4. \A chain : TerminalsOn(chain)' = TerminalsOn(chain)
  BY <1>3, Zenon DEF TerminalsOn
<1>5. \A heads, accepted : Terminals(heads, accepted)' = Terminals(heads, accepted)
  BY <1>1, <1>4, Zenon DEF Terminals, Chain
<1>6. \A accepted : ResolvedKeys(accepted)' = ResolvedKeys(accepted)
  BY Zenon DEF ResolvedKeys, Key
<1>7. \A h : OwedTerminals(h)' = OwedTerminals(h)
  BY <1>1, <1>2, <1>5, <1>6, Zenon DEF OwedTerminals
<1> QED BY <1>1, <1>2, <1>3, <1>5, <1>6, <1>7

(* The frontier a reconcile leaves behind: it retires what it folds, and   *)
(* none of it is on the lineage it accepts.                                *)
LEMMA ReconcileRetires ==
    ASSUME TypeOK, NEW r \in Request, AddedByReconcile(r)
    PROVE  /\ r.expected \in States /\ r.plan.survivor = r.expected
           /\ r.plan.heads = LiveHeads
           /\ LiveHeads' = {NewState}
           /\ RetiredHeads' = RetiredHeads \cup (LiveHeads \ {r.expected})
           /\ \A s \in States : Lineage'[s] = Lineage[s]
           /\ Lineage'[NewState] = {NewState} \cup Lineage[r.expected]
           /\ NewState \notin States /\ States' = States \cup {NewState}
           /\ \A s \in States : snapshots'[s] = snapshots[s]
           /\ snapshots'[NewState].record = ReconcileRecord(r.plan)
<1>0. PICK new : new = NewState
  OBVIOUS
<1>1. /\ r.expected \in States /\ r.expected = r.plan.survivor
      /\ r.plan.heads = LiveHeads
  BY AdmittedReconcile DEF AddedByReconcile, Added
<1>2. PICK snap : snap = Snapshot(r, "write", LedgerOf(r, "write"))
  OBVIOUS
<1>3. /\ snapshots' = Append(snapshots, snap) /\ snap.parent = r.expected
      /\ snap.record = ReconcileRecord(r.plan)
  BY <1>2 DEF AddedByReconcile, Added, Snapshot
<1>4. ReconcileRecord(r.plan).retired = LiveHeads \ {r.expected}
  BY <1>1 DEF ReconcileRecord
<1>5. retirements' = retirements \cup
         {[state |-> h, by |-> NewState] : h \in LiveHeads \ {r.expected}}
  BY <1>4 DEF AddedByReconcile
<1>6. LiveHeads' = {NewState}
  BY <1>1, <1>3, <1>5, ReconcileFrontier
<1>7. RetiredHeads' = RetiredHeads \cup (LiveHeads \ {r.expected})
  <2> DEFINE added == {[state |-> h, by |-> new] : h \in LiveHeads \ {r.expected}}
  <2>1. retirements' = retirements \cup added
    BY <1>0, <1>5
  <2>2. {x.state : x \in added} = LiveHeads \ {r.expected}
    <3>1. \A x \in added : x.state \in LiveHeads \ {r.expected}
      OBVIOUS
    <3>2. ASSUME NEW h \in LiveHeads \ {r.expected}
          PROVE  h \in {x.state : x \in added}
      <4>1. [state |-> h, by |-> new] \in added
        OBVIOUS
      <4> HIDE DEF added
      <4> QED BY <4>1
    <3> QED BY <3>1, <3>2
  <2> HIDE DEF added
  <2> QED BY <2>1, <2>2 DEF RetiredHeads
<1>8. /\ \A s \in States : Lineage'[s] = Lineage[s]
      /\ Lineage'[NewState] = {NewState} \cup Lineage[r.expected]
  <2>1. r.expected # NoState
    BY <1>1 DEF States, NoState
  <2> QED BY <1>1, <1>3, <2>1, LineageStays
<1> QED BY <1>1, <1>3, <1>6, <1>7, <1>8, OneMoreSnapshot

(* What a reconcile decides is decided on the lineage of its snapshot. *)
LEMMA ReconcileResolves ==
    ASSUME TypeOK, NEW r \in Request, AddedByReconcile(r),
           NEW t \in Unresolved(r.plan),
           t \in Explicit(r.plan) \cup RejectedByLineage(r.plan),
           NEW new, new = NewState
    PROVE  t \in ResolvedKeys(Lineage[new])'
<1>1. /\ snapshots'[new].record = ReconcileRecord(r.plan)
      /\ new \in Lineage'[new]
  BY ReconcileRetires
<1>2. \E x \in AllResolutions(r.plan) : t = Key(x)
  <2>1. CASE t \in Explicit(r.plan)
    BY <2>1 DEF Explicit, AllResolutions
  <2>2. CASE t \in RejectedByLineage(r.plan)
    <3>1. t \in [id : Items, at : States]
      BY ResolutionsAreTyped
    <3> DEFINE x == [id |-> t.id, at |-> t.at, decision |-> "reject", ordinal |-> 0]
    <3>2. x \in AllResolutions(r.plan)
      BY <2>2 DEF AllResolutions
    <3>3. Key(x) = t
      BY <3>1 DEF Key
    <3> QED BY <3>2, <3>3
  <2> QED BY <2>1, <2>2
<1>3. \E x \in snapshots'[new].record.resolutions : t = Key(x)
  BY <1>1, <1>2 DEF ReconcileRecord
<1> QED BY <1>1, <1>3 DEF ResolvedKeys, Key

(* What is owed after a reconcile was divergent before it, on the same     *)
(* chain of the same head.                                                 *)
LEMMA OwedAfterReconcile ==
    ASSUME TypeOK, NEW r \in Request, AddedByReconcile(r),
           NEW new, new = NewState, NEW t \in OwedTerminals(new)'
    PROVE  t \in LeftUnresolved(r.plan)
<1>1. /\ r.expected \in States /\ r.plan.survivor = r.expected
      /\ r.plan.heads = LiveHeads
      /\ LiveHeads' = {new}
      /\ RetiredHeads' = RetiredHeads \cup (LiveHeads \ {r.expected})
      /\ \A s \in States : Lineage'[s] = Lineage[s]
      /\ Lineage'[new] = {new} \cup Lineage[r.expected]
      /\ new \notin States
      /\ \A s \in States : snapshots'[s] = snapshots[s]
  BY ReconcileRetires
<1> DEFINE A == Lineage[r.expected]
<1>2. /\ RetiredHeads \subseteq States /\ LiveHeads \subseteq States
      /\ A \subseteq States /\ r.expected \in A
      /\ \A s \in States : Lineage[s] \subseteq States
  BY <1>1, LineageIsALine DEF TypeOK, RetiredHeads, LiveHeads, OnALine
<1>3. /\ t \in Terminals((LiveHeads \ {new}) \cup (RetiredHeads \ Lineage[new]),
                         Lineage[new])'
      /\ t \notin ResolvedKeys(Lineage[new])'
  BY DEF OwedTerminals
<1>4. PICK h \in (LiveHeads' \ {new}) \cup (RetiredHeads' \ Lineage'[new]) :
         t \in TerminalsOn(Lineage[h] \ Lineage[new])'
  BY <1>3 DEF Terminals, Chain
<1>5. h \in DivergentHeads(r.plan) /\ h \in States
  BY <1>1, <1>2, <1>4 DEF DivergentHeads
<1>6. PICK chain \in SUBSET States : chain = Lineage[h] \ A
  BY <1>2, <1>5
<1>7. Lineage'[h] \ Lineage'[new] = chain
  BY <1>1, <1>2, <1>5, <1>6
<1>8. t \in TerminalsOn(chain)'
  BY <1>4, <1>7
<1>9. t \in TerminalsOn(chain)
  <2>1. PICK snap : snapshots' = Append(snapshots, snap)
    BY DEF AddedByReconcile, Added
  <2> QED BY <1>8, <2>1, TerminalsStay
<1>10. t \in Terminals(DivergentHeads(r.plan), Lineage[r.plan.survivor])
  BY <1>1, <1>5, <1>6, <1>9, InTerminals
<1>11. t \notin ResolvedKeys(Lineage[r.plan.survivor])
  <2>1. ASSUME t \in ResolvedKeys(A) PROVE FALSE
    <3>1. PICK s \in A : \E x \in snapshots[s].record.resolutions : t = Key(x)
      BY <2>1, InResolvedKeys
    <3>2. s \in Lineage'[new] /\ snapshots'[s] = snapshots[s]
      BY <1>1, <1>2
    <3>3. t \in ResolvedKeys(Lineage[new])'
      BY <3>1, <3>2 DEF ResolvedKeys, Key
    <3> QED BY <1>3, <3>3
  <2> QED BY <1>1, <2>1
<1>12. t \in Unresolved(r.plan)
  BY <1>10, <1>11 DEF Unresolved
<1>13. t \notin Explicit(r.plan) \cup RejectedByLineage(r.plan)
  BY <1>3, <1>12, ReconcileResolves
<1> QED BY <1>12, <1>13 DEF LeftUnresolved

(* reconcile.ts, strict: right after a strict reconcile a reader of the    *)
(* new head is owed no decision, whichever heads raced it.                 *)
THEOREM StrictOwesNothing == Spec => []StrictLeavesNothingOwed
<1>1. Init => StrictLeavesNothingOwed
  BY DEF Init, StrictLeavesNothingOwed
<1>2. TypeOK /\ StrictLeavesNothingOwed /\ [Next]_vars => StrictLeavesNothingOwed'
  <2> SUFFICES ASSUME TypeOK, StrictLeavesNothingOwed, [Next]_vars
               PROVE  StrictLeavesNothingOwed'
    OBVIOUS
  <2>1. ASSUME NEW r \in Request, AddedByReconcile(r)
        PROVE  StrictLeavesNothingOwed'
    <3>1. PICK new : new = NewState
      OBVIOUS
    <3>2. /\ Len(snapshots)' = new
          /\ snapshots'[new].record = ReconcileRecord(r.plan)
      BY <2>1, <3>1, ReconcileRetires, OneMoreSnapshot DEF AddedByReconcile, Added
    <3>3. ASSUME r.plan.strict PROVE OwedTerminals(new)' = {}
      <4>1. DivergenceAnswered(r.plan, r.ack, WrittenEntries(r.changes, r.agent))
        BY <2>1, AdmittedReconcile DEF AddedByReconcile, Added
      <4>2. LeftUnresolved(r.plan) = {}
        BY <3>3, <4>1 DEF DivergenceAnswered
      <4> QED BY <2>1, <3>1, <4>2, OwedAfterReconcile
    <3> QED BY <3>2, <3>3 DEF StrictLeavesNothingOwed, ReconcileRecord
  <2>2. ASSUME NEW r \in Request, NEW source \in {"write", "backfill"},
               AddedByWrite(r, source)
        PROVE  StrictLeavesNothingOwed'
    <3>1. PICK new : new = NewState
      OBVIOUS
    <3>2. /\ Len(snapshots)' = new
          /\ snapshots'[new] = Snapshot(r, source, LedgerOf(r, source))
      BY <2>2, <3>1, OneMoreSnapshot DEF AddedByWrite, Added
    <3>3. snapshots'[new].record = NoRecord
      BY <2>2, <3>2 DEF AddedByWrite, Snapshot
    <3> QED BY <3>2, <3>3 DEF StrictLeavesNothingOwed, NoRecord
  <2>3. CASE UNCHANGED <<snapshots, retirements, pointer, rows>>
    BY <2>3, NothingMoves, Zenon DEF StrictLeavesNothingOwed
  <2> QED BY <2>1, <2>2, <2>3, StepAdds
<1> QED BY <1>1, <1>2, TypeCorrect, PTL DEF Spec
-----------------------------------------------------------------------------
(* Reconciling and repairing *)

(* reconcile.ts 4.2: the rows an admitted reconcile has written pass the   *)
(* parity check it makes of them before the commit; a plan is never        *)
(* evaluated one way and verified another, so the check never aborts.      *)
THEOREM AdmittedReconcilesPass ==
    ASSUME TypeOK, NEW r \in ReconcileRequests, Answer(r) = "written",
           Insert(r), pointer' = ReconciledPointer(NewState),
           retirements' = retirements \cup
              {[state |-> h, by |-> NewState] : h \in ReconcileRecord(r.plan).retired}
    PROVE  NewestPassesParity'
<1>0. PICK new : new = NewState
  OBVIOUS
<1>1. r \in Request /\ r.op = "reconcile"
  BY RequestsAreTyped
<1>2. PICK snap : snap = Snapshot(r, "write", WrittenEntries(r.changes, r.agent))
  OBVIOUS
<1>3. r.key = NewState
  <2>1. PICK p : r \in [op : {"reconcile"}, version : {"v3"}, agent : Agents,
                        key : {FreshKey}, expected : {p.survivor},
                        ack : Acknowledge, changes : SentChanges,
                        body : FullBody, plan : {p}]
    BY Zenon DEF ReconcileRequests
  <2> QED BY <2>1 DEF FreshKey, NewState
<1>4. AddedByReconcile(r)
  BY <1>1, <1>3 DEF AddedByReconcile, Added, Insert, LedgerOf
<1>5. /\ r.expected \in States /\ r.plan.survivor = r.expected
      /\ r.plan.heads = LiveHeads
      /\ RetiredHeads' = RetiredHeads \cup (LiveHeads \ {r.expected})
      /\ \A s \in States : Lineage'[s] = Lineage[s]
      /\ new \notin States /\ States' = States \cup {new}
      /\ \A s \in States : snapshots'[s] = snapshots[s]
  BY <1>0, <1>1, <1>4, ReconcileRetires
<1>6. /\ snapshots' = Append(snapshots, snap) /\ snapshots'[new] = snap
      /\ Len(snapshots)' = new
  BY <1>0, <1>2, OneMoreSnapshot DEF Insert
<1>7. PICK rec : rec = ReconcileRecord(r.plan)
  OBVIOUS
<1>8. /\ snap.record = rec /\ snap.parent = r.expected
      /\ snap.ledger = WrittenEntries(r.changes, r.agent)
      /\ rec.survivor = r.expected
      /\ rec.retired = LiveHeads \ {r.expected}
      /\ rec.adopted = AdoptedRetired(r.expected)
      /\ rec.resolutions = AllResolutions(r.plan)
  BY <1>1, <1>2, <1>5, <1>7 DEF Snapshot, ReconcileRecord
<1>9. AdoptedRetired(r.expected)' = AdoptedRetired(r.expected)
  <2>1. OnALine(r.expected)
    BY <1>5, LineageIsALine
  <2>2. ASSUME NEW t \in Lineage[r.expected], t # r.expected
        PROVE  t \notin LiveHeads
    <3>1. \E c \in States : Parent(c) = t
      BY <2>1, <2>2 DEF OnALine
    <3> QED BY <3>1 DEF LiveHeads, Children
  <2>3. AdoptedRetired(r.expected)' = RetiredHeads' \cap Lineage'[r.expected]
    BY DEF AdoptedRetired
  <2>4. AdoptedRetired(r.expected) = RetiredHeads \cap Lineage[r.expected]
    BY DEF AdoptedRetired
  <2> QED BY <1>5, <2>2, <2>3, <2>4
<1>10. {x.state : x \in {y \in retirements' : y.by = new}} = rec.retired
  <2> DEFINE added == {[state |-> h, by |-> new] : h \in rec.retired}
  <2>1. /\ \A x \in added : x.state \in rec.retired /\ x.by = new
        /\ retirements' = retirements \cup added
        /\ \A x \in retirements : x.by \in States
    BY <1>0, <1>7 DEF TypeOK
  <2>2. ASSUME NEW h \in rec.retired PROVE h \in {x.state : x \in added}
    <3>1. [state |-> h, by |-> new] \in added
      OBVIOUS
    <3> HIDE DEF added
    <3> QED BY <3>1
  <2> HIDE DEF added
  <2>3. {x.state : x \in added} = rec.retired
    BY <2>1, <2>2
  <2>4. {y \in retirements' : y.by = new} = added
    BY <1>5, <2>1
  <2> QED BY <2>3, <2>4
<1>11. ASSUME NEW x \in rec.resolutions, x.decision = "accept"
       PROVE  /\ x.ordinal \in OrdinalsNaming(new, x.id)'
              /\ \A j \in OrdinalsNaming(new, x.id)' : j <= x.ordinal
              /\ Comparable(snapshots'[new].ledger[x.ordinal])
                    = Comparable(NewestIn(x.at, x.id)')
  <2>1. DivergenceAnswered(r.plan, r.ack, WrittenEntries(r.changes, r.agent))
    BY <1>1, AdmittedReconcile
  <2>2. /\ x.id \in Items /\ x.at \in States
        /\ ValidResolution(x, r.plan, snap.ledger)
    BY <1>8, <1>11, <2>1, ResolutionsNameTheScope
  <2>3. NewestIn(x.at, x.id)' = NewestIn(x.at, x.id)
    BY <1>0, <1>6, <2>2, LedgersStay
  <2>4. OrdinalsNaming(new, x.id)' = {i \in DOMAIN snap.ledger : snap.ledger[i].id = x.id}
    BY <1>6 DEF OrdinalsNaming
  <2> QED BY <1>6, <1>11, <2>2, <2>3, <2>4 DEF ValidResolution, Comparable
<1>12. Parent(new)' = r.expected
  BY <1>6, <1>8 DEF Parent
<1>13. pointer'.reason = "reconcile"
  BY DEF ReconciledPointer
<1>14. snapshots'[new].record = rec
  BY <1>6, <1>8
<1>15. ReconcileParity(new)'
  BY <1>8, <1>9, <1>10, <1>11, <1>12, <1>13, <1>14 DEF ReconcileParity, Comparable
<1> QED BY <1>6, <1>15 DEF NewestPassesParity

(* heads.ts 3.3: whatever stale writes, resurrections, rollbacks and       *)
(* backfills a scope went through, the reconcile that rejects all that is  *)
(* unresolved is admitted at every one of its live heads.                  *)
THEOREM RepairAlwaysOpen == Spec => []RepairStaysOpen
<1>1. TypeOK /\ EvidenceInv /\ EvidenceStands => RepairStaysOpen
  <2> SUFFICES ASSUME TypeOK, EvidenceInv, EvidenceStands,
                      NEW h \in LiveHeads, NEW a \in Agents, NEW body \in FullBody,
                      NEW bare,
                      bare = [NoPlan EXCEPT !.heads = LiveHeads, !.survivor = h,
                                   !.pointer = pointer.state, !.strict = TRUE],
                      NEW plan,
                      plan = [bare EXCEPT !.resolutions =
                        {[id |-> t.id, at |-> t.at, decision |-> "reject",
                          ordinal |-> 0] : t \in Unresolved(bare)}],
                      NEW r,
                      r = [op |-> "reconcile", version |-> "v3", agent |-> a,
                           key |-> FreshKey, expected |-> h, ack |-> TRUE,
                           changes |-> <<>>, body |-> body, plan |-> plan]
               PROVE  Answer(r) = "written"
    BY Zenon DEF RepairStaysOpen
  <2>1. h \in States /\ LiveHeads # {} /\ h # NoState
    BY DEF LiveHeads, States, NoState
  <2>2. /\ bare.heads = LiveHeads /\ bare.survivor = h
        /\ bare.pointer = pointer.state /\ bare.rejectLineages = {}
        /\ DOMAIN bare = {"heads", "pointer", "survivor", "strict",
                          "resolutions", "rejectLineages"}
    BY DEF NoPlan
  <2>3. /\ plan.heads = LiveHeads /\ plan.survivor = h
        /\ plan.pointer = pointer.state /\ plan.rejectLineages = {}
        /\ plan.resolutions = {[id |-> t.id, at |-> t.at, decision |-> "reject",
                                ordinal |-> 0] : t \in Unresolved(bare)}
    BY <2>2
  <2>4. /\ r.op = "reconcile" /\ r.key = FreshKey /\ r.expected = h
        /\ r.ack = TRUE /\ r.changes = <<>> /\ r.plan = plan /\ r.agent = a
    OBVIOUS
  <2>5. Unresolved(plan) = Unresolved(bare)
    BY <2>2, <2>3 DEF Unresolved, DivergentHeads
  <2>6. Unresolved(plan) \subseteq [id : Items, at : States]
    BY ResolutionsAreTyped
  <2>7. \A x \in plan.resolutions :
           \E t \in Unresolved(plan) :
              x = [id |-> t.id, at |-> t.at, decision |-> "reject", ordinal |-> 0]
    BY <2>3, <2>5
  <2>8. \A t \in Unresolved(plan) :
           [id |-> t.id, at |-> t.at, decision |-> "reject", ordinal |-> 0]
              \in plan.resolutions
    BY <2>3, <2>5
  <2>9. KeyHolders(r) = {}
    <3>1. \A s \in States : snapshots[s].request.key = s
      BY DEF EvidenceInv, RecordsAreKept, RecordKept
    <3>2. FreshKey \notin States
      BY DEF TypeOK, States, FreshKey
    <3> QED BY <2>4, <3>1, <3>2 DEF KeyHolders
  <2> HIDE DEF NoPlan
  <2>10. NamesTheFrontier(r)
    BY <2>3, <2>4 DEF NamesTheFrontier
  <2>11. EvidenceVerified(h)
    BY <2>1 DEF EvidenceStands
  <2>12. ASSUME NEW entries PROVE DivergenceAnswered(plan, TRUE, entries)
    <3>1. ASSUME NEW x \in plan.resolutions
          PROVE  /\ x.decision = "reject" /\ x.ordinal = 0
                 /\ Key(x) \in Unresolved(plan)
                 /\ x = [id |-> Key(x).id, at |-> Key(x).at,
                         decision |-> "reject", ordinal |-> 0]
      <4>1. PICK t \in Unresolved(plan) :
              x = [id |-> t.id, at |-> t.at, decision |-> "reject", ordinal |-> 0]
        BY <2>7
      <4>2. Key(x) = t
        BY <2>6, <4>1 DEF Key
      <4> QED BY <4>1, <4>2
    <3>2. \A x \in plan.resolutions : ValidResolution(x, plan, entries)
      BY <3>1 DEF ValidResolution
    <3>3. \A x, y \in plan.resolutions : Key(x) = Key(y) => x = y
      BY <3>1
    <3>4. RejectedByLineage(plan) = {}
      BY <2>3 DEF RejectedByLineage
    <3>5. Unresolved(plan) \subseteq Explicit(plan)
      <4>1. ASSUME NEW t \in Unresolved(plan) PROVE t \in Explicit(plan)
        <5>1. PICK x \in plan.resolutions :
                x = [id |-> t.id, at |-> t.at, decision |-> "reject", ordinal |-> 0]
          BY <2>8
        <5>2. Key(x) = t
          BY <2>6, <5>1 DEF Key
        <5> QED BY <5>2 DEF Explicit
      <4> QED BY <4>1
    <3>6. LeftUnresolved(plan) = {}
      BY <3>5 DEF LeftUnresolved
    <3> QED BY <2>3, <3>2, <3>3, <3>4, <3>6 DEF DivergenceAnswered
  <2>13. ReconcileAnswer(r) = "written"
    BY <2>1, <2>3, <2>4, <2>10, <2>11, <2>12 DEF ReconcileAnswer
  <2>14. ValidChanges(r.changes)
    BY <2>4 DEF ValidChanges
  <2>15. Admission(r) = "written"
    BY <2>1, <2>4, <2>13, <2>14 DEF Admission
  <2> QED BY <2>9, <2>15 DEF Answer
<1> QED BY <1>1, TypeCorrect, EvidenceInvariant, EvidenceAlwaysStands, PTL
-----------------------------------------------------------------------------
(* What is owed *)

(* A terminal is the newest tuple of its item on its chain. *)
LEMMA InTerminalsOn ==
    ASSUME TypeOK, NEW chain \in SUBSET States, NEW t \in TerminalsOn(chain)
    PROVE  /\ t.id \in Items /\ t = [id |-> t.id, at |-> t.at]
           /\ t.at \in chain \cap StatesNaming(t.id)
           /\ \A u \in chain \cap StatesNaming(t.id) : u <= t.at
<1>1. PICK i \in Items : /\ chain \cap StatesNaming(i) # {}
                         /\ t = [id |-> i, at |-> Max(chain \cap StatesNaming(i))]
  BY DEF TerminalsOn
<1>2. chain \cap StatesNaming(i) \in SUBSET States
  OBVIOUS
<1>3. /\ Max(chain \cap StatesNaming(i)) \in chain \cap StatesNaming(i)
      /\ \A u \in chain \cap StatesNaming(i) : u <= Max(chain \cap StatesNaming(i))
  BY <1>1, <1>2, NewestState
<1> QED BY <1>1, <1>3

LEMMA TerminalWhenNewest ==
    ASSUME TypeOK, NEW chain \in SUBSET States, NEW i \in Items, NEW at,
           at \in chain \cap StatesNaming(i),
           \A u \in chain \cap StatesNaming(i) : u <= at
    PROVE  [id |-> i, at |-> at] \in TerminalsOn(chain)
<1>0. Len(snapshots) \in Nat /\ States \subseteq 0 .. Len(snapshots)
  BY DEF TypeOK, States
<1>1. Len(snapshots) \in Nat /\ chain \cap StatesNaming(i) \in SUBSET (0 .. Len(snapshots))
  BY <1>0
<1>2. Max(chain \cap StatesNaming(i)) = at
  BY <1>1, MaxIs
<1> QED BY <1>2 DEF TerminalsOn

(* Where the pointer is accepted, its lineage is a chain of the scope and  *)
(* so is every head's.                                                     *)
LEMMA OwedBefore ==
    ASSUME TypeOK, Selection = "pointer", NEW t \in OwedTerminals(pointer.state)
    PROVE  /\ pointer # NoPointer /\ pointer.state \in LiveHeads
           /\ pointer.state \in States
           /\ t \notin ResolvedKeys(Lineage[pointer.state])
           /\ \E h \in (LiveHeads \ {pointer.state})
                          \cup (RetiredHeads \ Lineage[pointer.state]) :
                 /\ h \in States
                 /\ Lineage[h] \ Lineage[pointer.state] \in SUBSET States
                 /\ t \in TerminalsOn(Lineage[h] \ Lineage[pointer.state])
<1>1. pointer # NoPointer /\ pointer.state \in LiveHeads
  BY DEF Selection
<1>2. LiveHeads \subseteq States /\ RetiredHeads \subseteq States
  BY DEF TypeOK, RetiredHeads, LiveHeads
<1>3. \A s \in States : Lineage[s] \subseteq States
  BY LineageIsALine DEF OnALine
<1>4. /\ t \in Terminals((LiveHeads \ {pointer.state})
                          \cup (RetiredHeads \ Lineage[pointer.state]),
                         Lineage[pointer.state])
      /\ t \notin ResolvedKeys(Lineage[pointer.state])
  BY DEF OwedTerminals
<1>5. PICK h \in (LiveHeads \ {pointer.state})
                    \cup (RetiredHeads \ Lineage[pointer.state]) :
         t \in TerminalsOn(Lineage[h] \ Lineage[pointer.state])
  BY <1>4, InTerminals
<1> QED BY <1>1, <1>2, <1>3, <1>4, <1>5

(* What is owed after a step, from the heads and the lineage it leaves. *)
LEMMA OwedAfter ==
    ASSUME NEW P, P = pointer'.state, NEW t,
           NEW h \in (LiveHeads' \ {P}) \cup (RetiredHeads' \ Lineage'[P]),
           NEW chain, chain = Lineage'[h] \ Lineage'[P],
           t \in TerminalsOn(chain)'
    PROVE  \/ t \in OwedTerminals(pointer.state)'
           \/ t \in ResolvedKeys(Lineage[pointer.state])'
BY Zenon DEF OwedTerminals, Terminals, Chain

Answered(t) ==
    \/ t \in OwedTerminals(pointer.state)'
    \/ t \in ResolvedKeys(Lineage[pointer.state])'
    \/ t.at \in Lineage[pointer.state]'
    \/ \E s \in States' \ States :
          /\ t.at \in Lineage[s]'
          /\ s \in StatesNaming(t.id)'

LEMMA OwedThroughWrite ==
    ASSUME TypeOK, NEW r \in Request, NEW source \in {"write", "backfill"},
           AddedByWrite(r, source),
           Selection = "pointer", (Selection = "pointer")',
           NEW t \in OwedTerminals(pointer.state)
    PROVE  Answered(t)
<1>0. PICK new, P, p : new = NewState /\ P = pointer.state /\ p = r.expected
  OBVIOUS
<1>1. PICK snap : snap = Snapshot(r, source, LedgerOf(r, source))
  OBVIOUS
<1>2. snapshots' = Append(snapshots, snap) /\ snap.parent = p
  BY <1>0, <1>1 DEF AddedByWrite, Added, Snapshot
<1>3. /\ pointer # NoPointer /\ P \in LiveHeads /\ P \in States
      /\ \E h \in (LiveHeads \ {P}) \cup (RetiredHeads \ Lineage[P]) :
             /\ h \in States
             /\ Lineage[h] \ Lineage[P] \in SUBSET States
             /\ t \in TerminalsOn(Lineage[h] \ Lineage[P])
  BY <1>0, OwedBefore
<1>4. PICK h \in (LiveHeads \ {P}) \cup (RetiredHeads \ Lineage[P]) :
             /\ h \in States
             /\ Lineage[h] \ Lineage[P] \in SUBSET States
             /\ t \in TerminalsOn(Lineage[h] \ Lineage[P])
  BY <1>3
<1>5. PICK chain \in SUBSET States : chain = Lineage[h] \ Lineage[P]
  BY <1>4
<1>6. p \in States /\ p # NoState
  BY <1>0, <1>3, AdmittedParent DEF AddedByWrite, Added, Request, States, NoState
<1>7. /\ LiveHeads' = (LiveHeads \ {p}) \cup {new}
      /\ RetiredHeads' = RetiredHeads
  <2>1. retirements' = retirements
    BY DEF AddedByWrite
  <2> QED BY <1>0, <1>2, <1>6, <2>1, WriteFrontier DEF RetiredHeads
<1>8. /\ \A s \in States : Lineage'[s] = Lineage[s]
      /\ Lineage'[new] = {new} \cup Lineage[p]
      /\ new \notin States /\ States' = States \cup {new}
  BY <1>0, <1>2, <1>6, LineageStays, OneMoreSnapshot
<1>9. t \in TerminalsOn(chain)'
  BY <1>2, <1>4, <1>5, TerminalsStay
<1>10. Lineage[P] \subseteq States /\ Lineage[p] \subseteq States
  BY <1>3, <1>6, LineageIsALine DEF OnALine
<1>11. RetiredHeads \subseteq States
  BY DEF TypeOK, RetiredHeads
<1>12. pointer' = pointer \/ (P = p /\ pointer'.state = new)
  BY <1>0, <1>3, AdvanceCases DEF AddedByWrite
<1>13. CASE P = p /\ pointer'.state = new
  <2>1. h \in (LiveHeads' \ {new}) \cup (RetiredHeads' \ Lineage'[new])
    BY <1>4, <1>7, <1>8, <1>13
  <2>2. chain = Lineage'[h] \ Lineage'[new]
    BY <1>4, <1>5, <1>8, <1>13
  <2> QED BY <1>9, <1>13, <2>1, <2>2, OwedAfter DEF Answered
<1>14. CASE pointer' = pointer
  <2>1. pointer'.state = P
    BY <1>0, <1>14
  <2>2. P \in LiveHeads'
    BY <2>1 DEF Selection
  <2>3. P # p
    BY <1>3, <1>7, <1>8, <2>2
  <2>4. CASE h # p \/ h \notin LiveHeads
    <3>1. h \in (LiveHeads' \ {P}) \cup (RetiredHeads' \ Lineage'[P])
      BY <1>3, <1>4, <1>7, <1>8, <2>4
    <3>2. chain = Lineage'[h] \ Lineage'[P]
      BY <1>3, <1>4, <1>5, <1>8
    <3> QED BY <1>9, <2>1, <3>1, <3>2, OwedAfter DEF Answered
  <2>5. CASE h = p /\ h \in LiveHeads
    <3>1. new \in (LiveHeads' \ {P}) \cup (RetiredHeads' \ Lineage'[P])
      BY <1>3, <1>7, <1>8
    <3>2. {new} \cup chain = Lineage'[new] \ Lineage'[P]
      BY <1>3, <1>5, <1>8, <1>10, <2>5
    <3>3. /\ t.id \in Items /\ t.at \in chain \cap StatesNaming(t.id)
          /\ t = [id |-> t.id, at |-> t.at]
          /\ \A u \in chain \cap StatesNaming(t.id) : u <= t.at
      BY <1>4, <1>5, InTerminalsOn
    <3>4. CASE new \in StatesNaming(t.id)'
      <4>1. t.at \in Lineage'[new]
        BY <1>5, <1>8, <2>5, <3>3
      <4>2. new \in States' \ States
        BY <1>8
      <4> QED BY <3>4, <4>1, <4>2 DEF Answered
    <3>5. CASE new \notin StatesNaming(t.id)'
      <4>1. ({new} \cup chain) \cap StatesNaming(t.id)' = chain \cap StatesNaming(t.id)'
        BY <3>5
      <4>2. PICK i : /\ i \in Items /\ chain \cap StatesNaming(i)' # {}
                     /\ t = [id |-> i, at |-> Max(chain \cap StatesNaming(i)')]
        BY <1>9 DEF TerminalsOn
      <4>3. i = t.id
        BY <4>2
      <4>4. t \in TerminalsOn({new} \cup chain)'
        BY <4>1, <4>2, <4>3 DEF TerminalsOn
      <4> QED BY <2>1, <3>1, <3>2, <4>4, OwedAfter DEF Answered
    <3> QED BY <3>4, <3>5
  <2> QED BY <2>4, <2>5
<1> QED BY <1>12, <1>13, <1>14

LEMMA OwedThroughReconcile ==
    ASSUME TypeOK, NEW r \in Request, AddedByReconcile(r),
           Selection = "pointer", NEW t \in OwedTerminals(pointer.state)
    PROVE  Answered(t)
<1>0. PICK new, P, S : new = NewState /\ P = pointer.state /\ S = r.expected
  OBVIOUS
<1>1. /\ P \in States
      /\ \E h \in (LiveHeads \ {P}) \cup (RetiredHeads \ Lineage[P]) :
             /\ h \in States
             /\ Lineage[h] \ Lineage[P] \in SUBSET States
             /\ t \in TerminalsOn(Lineage[h] \ Lineage[P])
  BY <1>0, OwedBefore
<1>2. PICK h \in (LiveHeads \ {P}) \cup (RetiredHeads \ Lineage[P]) :
             /\ h \in States
             /\ Lineage[h] \ Lineage[P] \in SUBSET States
             /\ t \in TerminalsOn(Lineage[h] \ Lineage[P])
  BY <1>1
<1>3. /\ S \in States
      /\ LiveHeads' = {new}
      /\ RetiredHeads' = RetiredHeads \cup (LiveHeads \ {S})
      /\ \A s \in States : Lineage'[s] = Lineage[s]
      /\ Lineage'[new] = {new} \cup Lineage[S]
      /\ new \notin States
  BY <1>0, ReconcileRetires
<1>4. pointer'.state = new
  BY <1>0 DEF AddedByReconcile, ReconciledPointer
<1>5. PICK i, at : i = t.id /\ at = t.at
  OBVIOUS
<1>6. /\ i \in Items /\ t = [id |-> i, at |-> at]
      /\ at \in StatesNaming(i) /\ at \in Lineage[h] /\ at \notin Lineage[P]
      /\ \A u \in (Lineage[h] \ Lineage[P]) \cap StatesNaming(i) : u <= at
  BY <1>2, <1>5, InTerminalsOn
<1>7. CASE at \in Lineage'[new]
  BY <1>4, <1>5, <1>7 DEF Answered
<1>8. CASE at \notin Lineage'[new]
  <2>1. OnALine(h) /\ OnALine(P) /\ OnALine(S)
    BY <1>1, <1>2, <1>3, LineageIsALine
  <2>2. h \notin Lineage[S]
    BY <1>3, <1>6, <1>8, <2>1 DEF OnALine
  <2>3. h \in (LiveHeads' \ {new}) \cup (RetiredHeads' \ Lineage'[new])
    <3>1. h # S
      BY <2>1, <2>2 DEF OnALine
    <3> QED BY <1>2, <1>3, <2>2, <3>1
  <2>4. PICK chain \in SUBSET States : chain = Lineage[h] \ Lineage[S]
    BY <2>1 DEF OnALine
  <2>5. chain = Lineage'[h] \ Lineage'[new]
    BY <1>2, <1>3, <2>1, <2>4 DEF OnALine
  <2>6. ASSUME NEW u \in chain \cap StatesNaming(i) PROVE u <= at
    <3>1. CASE u \notin Lineage[P]
      BY <1>6, <2>4, <3>1
    <3>2. CASE u \in Lineage[P]
      <4>1. u \in Nat /\ at \in Nat
        BY <2>1, <2>4, <1>6 DEF OnALine, States
      <4>2. Lineage[u] \subseteq Lineage[P]
        BY <2>1, <3>2 DEF OnALine
      <4>3. at <= u => at \in Lineage[u]
        BY <1>6, <2>1, <2>4 DEF OnALine
      <4> QED BY <1>6, <4>1, <4>2, <4>3
    <3> QED BY <3>1, <3>2
  <2>7. t \in TerminalsOn(chain)
    <3>1. at \in chain \cap StatesNaming(i)
      BY <1>3, <1>6, <1>8, <2>4
    <3> QED BY <1>6, <2>6, <3>1, TerminalWhenNewest
  <2>8. t \in TerminalsOn(chain)'
    <3>1. PICK snap : snapshots' = Append(snapshots, snap)
      BY DEF AddedByReconcile, Added
    <3> QED BY <2>7, <3>1, TerminalsStay
  <2> QED BY <1>4, <2>3, <2>5, <2>8, OwedAfter DEF Answered
<1> QED BY <1>7, <1>8

(* reconcile.ts 6.3: no write, resurrection, backfill or reconcile drops a *)
(* divergent value from what a reader of the current head is owed, unless  *)
(* it was decided, replaced on its own chain, or adopted.                  *)
THEOREM OwedStaysUntilAnswered == Spec => OwedUntilAnswered
<1>1. TypeOK /\ [Next]_vars =>
        [Selection = "pointer" /\ Selection' = "pointer" =>
          \A t \in OwedTerminals(pointer.state) :
             \/ t \in OwedTerminals(pointer.state)'
             \/ t \in ResolvedKeys(Lineage[pointer.state])'
             \/ t.at \in Lineage[pointer.state]'
             \/ \E s \in States' \ States :
                   /\ t.at \in Lineage[s]'
                   /\ s \in StatesNaming(t.id)']_vars
  <2> SUFFICES ASSUME TypeOK, [Next]_vars, Selection = "pointer",
                      Selection' = "pointer", NEW t \in OwedTerminals(pointer.state)
               PROVE  Answered(t)
    BY DEF Answered
  <2>1. ASSUME UNCHANGED <<snapshots, retirements, pointer, rows>>
        PROVE  Answered(t)
    BY <2>1, NothingMoves DEF Answered
  <2> QED BY <2>1, OwedThroughWrite, OwedThroughReconcile, StepAdds
<1> QED BY <1>1, TypeCorrect, PTL DEF Spec, OwedUntilAnswered
-----------------------------------------------------------------------------
(* What a resume shows *)

(* Only a loop can be opaque. *)
LEMMA OpaqueIsALoop ==
    ASSUME LedgersHold, NEW id \in Items, NEW s \in States,
           NEW i \in OrdinalsNaming(s, id), snapshots[s].ledger[i].opaque
    PROVE  id \in Loops
<1> DEFINE r == snapshots[s].request
           expected == BackfilledEntries(r.changes, r.agent, s)
<1>1. /\ i \in DOMAIN expected
      /\ snapshots[s].ledger[i].id = id
      /\ \/ snapshots[s].ledger[i] = expected[i]
         \/ ~snapshots[s].ledger[i].opaque
  BY DEF LedgersHold, VersionParity, OrdinalsNaming
<1>2. /\ expected[i].id = r.changes[i].id
      /\ expected[i].opaque => r.changes[i].id \in Loops
  BY <1>1 DEF BackfilledEntries
<1> QED BY <1>1, <1>2

(* A state outside the accepted lineage is on the lineage of a live head   *)
(* or of a retired one, outside the accepted lineage as well.              *)
LEMMA OnSomeDivergentChain ==
    ASSUME TypeOK, NEW h \in States, NEW s \in States \ Lineage[h]
    PROVE  \E u \in (LiveHeads \ {h}) \cup (RetiredHeads \ Lineage[h]) :
              u \in States /\ s \in Lineage[u] \ Lineage[h]
<1> DEFINE S == {u \in States : s \in Lineage[u]}
<1>1. \A u \in States : OnALine(u)
  BY LineageIsALine
<1>2. s \in S
  BY <1>1 DEF OnALine
<1>3. PICK u \in S : \A v \in S : v <= u
  BY <1>2, NewestState
<1>4. u \in States /\ s \in Lineage[u]
  OBVIOUS
<1>5. Children(u) = {}
  <2> SUFFICES ASSUME NEW c \in States, Parent(c) = u PROVE FALSE
    BY DEF Children
  <2>1. /\ c \in Nat /\ u \in Nat /\ u < c /\ Parent(c) # NoState
    BY <1>4, ParentIs DEF States, NoState
  <2>2. Lineage[c] = {c} \cup Lineage[u]
    BY <2>1, LineageIs, ParentIs
  <2>3. c \in S
    BY <1>4, <2>2
  <2> QED BY <1>3, <2>1, <2>3
<1>6. u \notin Lineage[h]
  BY <1>1, <1>4 DEF OnALine
<1>7. u # h
  BY <1>4
<1> QED BY <1>4, <1>5, <1>6, <1>7 DEF LiveHeads, IsRetired

LEMMA StoredValueIsShown ==
    ASSUME TypeOK, EvidenceInv PROVE EveryStoredValueIsShown
<1> SUFFICES ASSUME NEW id \in InPlace, NEW L, L = LastWriter(id),
                    NEW t, t = [id |-> id, at |-> L], id \in Selected
             PROVE  \/ t \in Accepted
                    \/ /\ t \in DivergentValues
                       /\ \/ ValueOf(t) = rows[id].value
                          \/ id \in Loops /\ Opaque(t)
  BY DEF EveryStoredValueIsShown, LegacyValues
<1>1. PICK h : h = AcceptedHead
  OBVIOUS
<1>2. h # NoState /\ AcceptedAt(h, id) # NoState /\ id \in Items
  BY <1>1 DEF Selected
<1>3. h \in States
  BY <1>1, <1>2 DEF AcceptedHead, EffectiveHead, Selection, LiveHeads
<1>4. /\ Lineage[h] \cap StatesNaming(id) # {}
      /\ AcceptedAt(h, id) = Max(Lineage[h] \cap StatesNaming(id))
      /\ StatesNaming(id) \in SUBSET States
  BY <1>2 DEF AcceptedAt, StatesNaming
<1>5. L = Max(StatesNaming(id))
  BY <1>4 DEF LastWriter
<1>6. L \in StatesNaming(id) /\ \A u \in StatesNaming(id) : u <= L
  BY <1>4, <1>5, NewestState
<1>7. CASE L \in Lineage[h]
  <2>1. Len(snapshots) \in Nat /\ StatesNaming(id) \subseteq 0 .. Len(snapshots)
    BY <1>4 DEF TypeOK, States
  <2>2. Max(Lineage[h] \cap StatesNaming(id)) = L
    <3>1. Lineage[h] \cap StatesNaming(id) \in SUBSET (0 .. Len(snapshots))
      BY <2>1
    <3> QED BY <1>6, <1>7, <2>1, <3>1, MaxIs
  <2> QED BY <1>1, <1>4, <2>2 DEF Accepted
<1>8. CASE L \notin Lineage[h]
  <2>1. PICK u \in (LiveHeads \ {h}) \cup (RetiredHeads \ Lineage[h]) :
            u \in States /\ L \in Lineage[u] \ Lineage[h]
    BY <1>3, <1>4, <1>6, <1>8, OnSomeDivergentChain
  <2>2. Chain(u, Lineage[h]) \in SUBSET States
    BY <2>1, LineageIsALine DEF OnALine, Chain
  <2>3. L \in Chain(u, Lineage[h]) \cap StatesNaming(id)
    BY <1>6, <2>1 DEF Chain
  <2>4. t \in TerminalsOn(Chain(u, Lineage[h]))
    BY <1>2, <1>6, <2>2, <2>3, TerminalWhenNewest
  <2>5. t \in DivergentValues
    <3>1. DivergentValues = Terminals((LiveHeads \ {h}) \cup (RetiredHeads \ Lineage[h]),
                                      Lineage[h])
      BY <1>1, <1>2 DEF DivergentValues
    <3> QED BY <2>1, <2>4, <3>1 DEF Terminals
  <2>6. RowFollows(id, NewestIn(L, id))
    BY <1>2, <1>5, <1>6 DEF EvidenceInv, RowsFollow
  <2>7. Opaque(t) => id \in Loops
    <3>1. L \in States /\ OrdinalsNaming(L, id) # {}
      BY <1>6 DEF StatesNaming
    <3>2. Max(OrdinalsNaming(L, id)) \in OrdinalsNaming(L, id)
      <4>1. PICK n \in Nat : DOMAIN snapshots[L].ledger = 1 .. n
        <5>1. snapshots[L] \in SnapshotType
          BY <3>1 DEF TypeOK, States
        <5>2. snapshots[L].ledger
                 \in UNION {[1 .. m -> Entry] : m \in 0 .. MaxChanges}
          BY <5>1, Zenon DEF SnapshotType
        <5> QED BY <5>2, BoundsAssumption
      <4>2. OrdinalsNaming(L, id) \in SUBSET (0 .. n)
        BY <4>1 DEF OrdinalsNaming
      <4> QED BY <3>1, <4>2, MaxIsTheLargest
    <3> QED BY <1>2, <3>1, <3>2, OpaqueIsALoop DEF Opaque, NewestIn, EvidenceInv
  <2> QED BY <2>5, <2>6, <2>7 DEF ValueOf, RowFollows
<1> QED BY <1>7, <1>8

(* resume.ts: a resume of version 3 tells every value the in-place rows    *)
(* hold, whichever branch wrote it and whatever was reconciled since; only *)
(* a loop an older binary changed may be told without one.                 *)
THEOREM StoredValuesAreShown == Spec => []EveryStoredValueIsShown
<1>1. TypeOK /\ EvidenceInv => EveryStoredValueIsShown
  BY StoredValueIsShown
<1> QED BY <1>1, TypeCorrect, EvidenceInvariant, PTL
=============================================================================
