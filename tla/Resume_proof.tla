----------------------------- MODULE Resume_proof -----------------------------
(***************************************************************************)
(* Proofs about Resume, for any items, names, sections asked for and       *)
(* budgets, and any number of changes between two pages.                   *)
(***************************************************************************)
EXTENDS Resume, FiniteSetTheorems, TLAPS

(* What the sections hold: items in an order that leaves no two of a section *)
(* in the same place.                                                        *)
Stamped ==
    /\ DOMAIN stamp \subseteq DOMAIN Items /\ stamp \in [DOMAIN stamp -> Nat]
    /\ \A i, j \in DOMAIN stamp :
          Items[i].section = Items[j].section /\ (i \in Handoffs <=> j \in Handoffs)
              /\ stamp[i] = stamp[j] => i = j
    /\ hidden \in Nat

LEMMA Least ==
    ASSUME NEW T, T \subseteq Nat, T # {}
    PROVE  \E x \in T : \A y \in T : x <= y
<1> DEFINE Below == OpToRel(<, Nat)
<1> HIDE DEF Below
<1>1. IsWellFoundedOn(Below, Nat)
  BY NatLessThanWellFounded DEF Below
<1>2. \E t \in T : \A u \in T : ~ (<<u, t>> \in Below)
  BY <1>1, WFMin
<1>3. PICK t \in T : \A u \in T : ~ (u < t)
  BY <1>2 DEF OpToRel, Below
<1> QED BY <1>3

(* More items cost more. *)
LEMMA CostGrows ==
    ASSUME ResumeAssumption, NEW T \in SUBSET DOMAIN Items, NEW U \in SUBSET T
    PROVE  Cost[U] \in Nat /\ Cost[T] \in Nat /\ Cost[U] <= Cost[T]
<1>1. /\ U \in SUBSET DOMAIN Items /\ T \ U \in SUBSET DOMAIN Items
      /\ U \cap (T \ U) = {} /\ U \cup (T \ U) = T
  OBVIOUS
<1>2. Cost[T] = Cost[U] + Cost[T \ U]
  BY <1>1 DEF ResumeAssumption
<1>3. Cost[U] \in Nat /\ Cost[T \ U] \in Nat /\ Cost[T] \in Nat
  BY <1>1 DEF ResumeAssumption
<1> QED BY <1>2, <1>3

LEMMA NothingCostsNothing == ResumeAssumption => Cost[{}] = 0
<1> SUFFICES ASSUME ResumeAssumption PROVE Cost[{}] = 0
  OBVIOUS
<1>1. {} \in SUBSET DOMAIN Items /\ {} \cap {} = {} /\ {} \cup {} = {}
  OBVIOUS
<1>2. PICK c : c = Cost[{}]
  OBVIOUS
<1>3. c = c + c
  BY <1>1, <1>2 DEF ResumeAssumption
<1>4. c \in Nat
  BY <1>1, <1>2 DEF ResumeAssumption
<1>5. c = 0
  BY <1>3, <1>4
<1> QED BY <1>2, <1>5

(* Each section is in one order. *)
LEMMA OneOrder ==
    ASSUME Stamped, NEW i \in DOMAIN stamp, NEW j \in DOMAIN stamp,
           Items[i].section = Items[j].section
    PROVE  /\ i # j => Before(i, j) \/ Before(j, i)
           /\ ~(Before(i, j) /\ Before(j, i)) /\ ~Before(i, i)
           /\ \A k \in DOMAIN stamp : Before(i, j) /\ Before(j, k) => Before(i, k)
<1>1. /\ stamp[i] \in Nat /\ stamp[j] \in Nat /\ \A k \in DOMAIN stamp : stamp[k] \in Nat
  BY DEF Stamped
<1>2. (i \in Handoffs <=> j \in Handoffs) /\ stamp[i] = stamp[j] => i = j
  BY DEF Stamped
<1> QED BY <1>1, <1>2 DEF Before

(* The items up to one of them grow along the page. *)
LEMMA UpToGrows ==
    ASSUME ResumeAssumption, Stamped, NEW due, due \subseteq DOMAIN stamp,
           NEW i \in due, NEW j \in due
    PROVE  /\ i \in UpTo(j, due) \/ j \in UpTo(i, due)
           /\ i \in UpTo(j, due) => UpTo(i, due) \subseteq UpTo(j, due)
           /\ i \in UpTo(j, due) /\ j \in UpTo(i, due) => i = j
           /\ i \in UpTo(i, due) /\ UpTo(i, due) \subseteq due
<1>1. \A k \in due : k \in DOMAIN stamp /\ Items[k].section \in Sections
  BY DEF ResumeAssumption, Stamped
<1>2. \A s \in Sections : Place[s] \in Nat
  BY DEF Sections, Place
<1>3. \A s, t \in Sections : Place[s] = Place[t] => s = t
  BY DEF Sections, Place
<1>4. \A k, l \in due : Items[k].section = Items[l].section =>
         /\ k # l => Before(k, l) \/ Before(l, k)
         /\ ~(Before(k, l) /\ Before(l, k))
         /\ \A m \in due : Before(k, l) /\ Before(l, m) => Before(k, m)
  BY <1>1, OneOrder
<1> HIDE DEF Sections, Place
<1>5. i \in UpTo(j, due) \/ j \in UpTo(i, due)
  BY <1>1, <1>2, <1>3, <1>4 DEF UpTo
<1>6. ASSUME i \in UpTo(j, due), NEW k \in UpTo(i, due) PROVE k \in UpTo(j, due)
  BY <1>1, <1>2, <1>4, <1>6 DEF UpTo
<1>7. ASSUME i \in UpTo(j, due), j \in UpTo(i, due) PROVE i = j
  BY <1>1, <1>2, <1>4, <1>7 DEF UpTo
<1> QED BY <1>5, <1>6, <1>7 DEF UpTo

(* What a page admits is within the budget. *)
LEMMA AdmittedFits ==
    ASSUME ResumeAssumption, Stamped, NEW due, due \subseteq DOMAIN stamp, NEW budget \in Nat
    PROVE  Cost[Admitted(due, budget)] <= budget
<1>1. PICK items : items = Admitted(due, budget)
  OBVIOUS
<1>2. items \subseteq due /\ \A i \in items : Cost[UpTo(i, due)] <= budget
  BY <1>1 DEF Admitted
<1>3. CASE items = {}
  BY <1>1, <1>3, NothingCostsNothing
<1>4. CASE items # {}
  <2>1. IsFiniteSet(due) /\ due \in SUBSET DOMAIN Items
    BY FS_Subset DEF ResumeAssumption, Stamped
  <2>2. \A i \in due : UpTo(i, due) \in SUBSET due
    BY DEF UpTo
  <2>3. \A i \in due : /\ IsFiniteSet(UpTo(i, due)) /\ Cardinality(UpTo(i, due)) \in Nat
                       /\ Cardinality(UpTo(i, due)) <= Cardinality(due)
    BY <2>1, <2>2, FS_Subset, FS_CardinalityType
  <2>4. Cardinality(due) \in Nat
    BY <2>1, FS_CardinalityType
  <2>5. PICK T : T = {Cardinality(due) - Cardinality(UpTo(i, due)) : i \in items}
    OBVIOUS
  <2>6. T \subseteq Nat /\ T # {}
    BY <1>2, <1>4, <2>3, <2>4, <2>5
  <2>7. PICK x \in T : \A y \in T : x <= y
    BY <2>6, Least
  <2>8. PICK last \in items : x = Cardinality(due) - Cardinality(UpTo(last, due))
    BY <2>5
  <2>9. ASSUME NEW j \in items PROVE j \in UpTo(last, due)
    <3>1. j \in due /\ last \in due
      BY <1>2
    <3> SUFFICES ASSUME j \notin UpTo(last, due) PROVE FALSE
      OBVIOUS
    <3>2. UpTo(last, due) \in SUBSET UpTo(j, due) /\ j \in UpTo(j, due)
      BY <3>1, UpToGrows
    <3>3. UpTo(last, due) # UpTo(j, due)
      BY <3>2
    <3>4. Cardinality(UpTo(last, due)) < Cardinality(UpTo(j, due))
      <4>1. Cardinality(UpTo(last, due)) <= Cardinality(UpTo(j, due))
        BY <2>3, <3>1, <3>2, FS_Subset
      <4>2. Cardinality(UpTo(j, due)) # Cardinality(UpTo(last, due))
        BY <2>3, <3>1, <3>2, <3>3, FS_Subset
      <4> QED BY <2>3, <3>1, <4>1, <4>2
    <3>5. Cardinality(due) - Cardinality(UpTo(j, due)) \in T
      BY <2>5
    <3>6. x <= Cardinality(due) - Cardinality(UpTo(j, due))
      BY <2>7, <3>5
    <3> QED BY <2>3, <2>4, <2>8, <3>1, <3>4, <3>6
  <2>10. items \in SUBSET UpTo(last, due) /\ UpTo(last, due) \in SUBSET DOMAIN Items
    BY <1>2, <2>1, <2>2, <2>9
  <2>11. Cost[items] <= Cost[UpTo(last, due)] /\ Cost[UpTo(last, due)] \in Nat
         /\ Cost[items] \in Nat
    BY <2>10, CostGrows
  <2> QED BY <1>1, <1>2, <2>8, <2>11
<1> QED BY <1>3, <1>4

(* Who comes before one that is admitted is admitted. *)
LEMMA AdmittedIsAStart ==
    ASSUME ResumeAssumption, Stamped, NEW due, due \subseteq DOMAIN stamp, NEW budget \in Nat,
           NEW i \in Admitted(due, budget), NEW j \in UpTo(i, due)
    PROVE  j \in Admitted(due, budget)
<1>1. i \in due /\ j \in due /\ Cost[UpTo(i, due)] <= budget
  BY DEF Admitted, UpTo
<1>2. UpTo(j, due) \in SUBSET UpTo(i, due)
  BY <1>1, UpToGrows
<1>3. UpTo(i, due) \in SUBSET DOMAIN Items
  BY <1>1 DEF UpTo, Stamped
<1>4. /\ Cost[UpTo(j, due)] \in Nat /\ Cost[UpTo(i, due)] \in Nat
      /\ Cost[UpTo(j, due)] <= Cost[UpTo(i, due)]
  BY <1>2, <1>3, CostGrows
<1> QED BY <1>1, <1>4 DEF Admitted
----------------------------------------------------------------------------
(* One page *)

Cursors == {NoCursor} \cup [s : Sections, o : Nat]
Asks(req) == req.budget \in Nat /\ req.sections \subseteq Sections

(* What is left for the pages that follow. *)
Owed(req, next, i) ==
    /\ i \in Listed(Items[i].section, req) /\ Items[i].section \in req.sections
    /\ next # NoCursor /\ ~Passed(Items[i].section, next)
    /\ Items[i].section = next.s => Rank(i, Listed(Items[i].section, req)) >= next.o

LEMMA PlacesDiffer ==
    /\ \A s \in Sections : Place[s] \in Nat /\ s # "end"
    /\ \A s, t \in Sections : Place[s] = Place[t] => s = t
BY DEF Sections, Place

LEMMA SectionsAreFinite ==
    ASSUME ResumeAssumption, Stamped, NEW s, NEW req
    PROVE  /\ IsFiniteSet(Listed(s, req)) /\ Cardinality(Listed(s, req)) \in Nat
           /\ Listed(s, req) \subseteq DOMAIN stamp
           /\ \A i : Rank(i, Listed(s, req)) \in Nat
<1>1. PICK items : items = Listed(s, req)
  OBVIOUS
<1>2. items \in SUBSET DOMAIN Items /\ items \subseteq DOMAIN stamp
  BY <1>1 DEF Listed, Stamped
<1>3. IsFiniteSet(items)
  BY <1>2, FS_Subset DEF ResumeAssumption
<1>4. ASSUME NEW i PROVE Rank(i, items) \in Nat
  <2>1. {j \in items : Before(j, i)} \in SUBSET items
    OBVIOUS
  <2> QED BY <1>3, <2>1, FS_Subset, FS_CardinalityType DEF Rank
<1> QED BY <1>1, <1>2, <1>3, <1>4, FS_CardinalityType

(* Who comes before another has a lower rank. *)
LEMMA RankGrows ==
    ASSUME ResumeAssumption, Stamped, NEW s, NEW req,
           NEW i \in Listed(s, req), NEW j \in Listed(s, req), Before(i, j)
    PROVE  Rank(i, Listed(s, req)) < Rank(j, Listed(s, req))
<1>1. PICK items : items = Listed(s, req)
  OBVIOUS
<1>2. IsFiniteSet(items) /\ items \subseteq DOMAIN stamp
      /\ \A k \in items : Items[k].section = s
  BY <1>1, SectionsAreFinite DEF Listed
<1>3. PICK A, B : A = {k \in items : Before(k, i)} /\ B = {k \in items : Before(k, j)}
  OBVIOUS
<1>4. \A k \in items : Before(k, i) => Before(k, j)
  BY <1>1, <1>2, OneOrder
<1>5. A \in SUBSET B /\ B \in SUBSET items
  BY <1>3, <1>4
<1>6. i \in B /\ i \notin A
  BY <1>1, <1>2, <1>3, OneOrder
<1>7. IsFiniteSet(B)
  BY <1>2, <1>5, FS_Subset
<1>8. /\ Cardinality(A) <= Cardinality(B) /\ Cardinality(A) # Cardinality(B)
      /\ Cardinality(A) \in Nat /\ Cardinality(B) \in Nat
  BY <1>5, <1>6, <1>7, FS_Subset, FS_CardinalityType
<1> QED BY <1>1, <1>3, <1>8 DEF Rank

(* Of some items of a section one is the first. *)
LEMMA FirstOfSome ==
    ASSUME ResumeAssumption, Stamped, NEW s, NEW req,
           NEW some, some \subseteq Listed(s, req), some # {}
    PROVE  \E m \in some : \A k \in some :
              Rank(m, Listed(s, req)) <= Rank(k, Listed(s, req))
<1>1. PICK items : items = Listed(s, req)
  OBVIOUS
<1>2. \A i : Rank(i, items) \in Nat
  BY <1>1, SectionsAreFinite
<1>3. PICK T : T = {Rank(i, items) : i \in some}
  OBVIOUS
<1>4. T \subseteq Nat /\ T # {}
  BY <1>2, <1>3
<1>5. PICK x \in T : \A y \in T : x <= y
  BY <1>4, Least
<1>6. PICK m \in some : x = Rank(m, items)
  BY <1>3, <1>5
<1>7. \A k \in some : Rank(k, items) \in T
  BY <1>3
<1> QED BY <1>1, <1>5, <1>6, <1>7

LEMMA WhatIsDue ==
    ASSUME ResumeAssumption, Stamped, NEW req, Asks(req), NEW cursor \in Cursors
    PROVE  /\ Due(req, cursor) \subseteq DOMAIN stamp
           /\ \A s \in Sections : In(s, Due(req, cursor)) =
                 IF s \in req.sections /\ ~Passed(s, cursor) THEN Slice(s, req, cursor) ELSE {}
           /\ \A i \in Due(req, cursor) :
                 /\ Items[i].section \in req.sections /\ ~Passed(Items[i].section, cursor)
                 /\ i \in Slice(Items[i].section, req, cursor)
                 /\ Selects(i, req.agent, req.key)
<1>1. \A s : \A i \in Slice(s, req, cursor) :
         /\ i \in DOMAIN stamp /\ Items[i].section = s /\ Selects(i, req.agent, req.key)
  BY DEF Slice, Listed
<1>2. \A i : i \in Due(req, cursor) <=>
         \E s \in req.sections : ~Passed(s, cursor) /\ i \in Slice(s, req, cursor)
  BY DEF Due
<1>3. ASSUME NEW s \in Sections
      PROVE  In(s, Due(req, cursor)) =
                IF s \in req.sections /\ ~Passed(s, cursor) THEN Slice(s, req, cursor) ELSE {}
  BY <1>1, <1>2 DEF In
<1> QED BY <1>1, <1>2, <1>3

LEMMA WhereToStart ==
    ASSUME ResumeAssumption, Stamped, NEW req, NEW cursor \in Cursors, NEW s
    PROVE  /\ Start(s, cursor, Listed(s, req)) \in Nat
           /\ s # cursor.s => Start(s, cursor, Listed(s, req)) = 0
           /\ Start(s, cursor, Listed(s, req)) <= cursor.o \/ s # cursor.s
<1>1. Cardinality(Listed(s, req)) \in Nat
  BY SectionsAreFinite
<1>2. cursor.o \in Nat
  BY DEF Cursors, NoCursor
<1> QED BY <1>1, <1>2 DEF Start

LEMMA WhereToGoOn ==
    ASSUME ResumeAssumption, Stamped, NEW req, NEW cursor \in Cursors,
           NEW items, items \subseteq DOMAIN stamp, NEW cut, cut \subseteq Sections,
           NEW next, next = GoOn(req, cursor, items, cut)
    PROVE  /\ next \in Cursors
           /\ next = NoCursor <=> cut = {}
           /\ next # NoCursor =>
                 /\ next.s \in cut /\ \A t \in cut : Place[next.s] <= Place[t]
                 /\ next.o = Start(next.s, cursor, Listed(next.s, req))
                                + Cardinality(In(next.s, items))
<1>1. CASE cut = {}
  BY <1>1 DEF GoOn, Cursors
<1>2. CASE cut # {}
  <2>1. \E s \in cut : \A t \in cut : Place[s] <= Place[t]
    <3>1. PICK T : T = {Place[s] : s \in cut}
      OBVIOUS
    <3>2. T \subseteq Nat /\ T # {}
      BY <1>2, <3>1, PlacesDiffer
    <3>3. PICK x \in T : \A y \in T : x <= y
      BY <3>2, Least
    <3>4. PICK s \in cut : x = Place[s]
      BY <3>1
    <3>5. \A t \in cut : Place[t] \in T
      BY <3>1
    <3> QED BY <3>3, <3>4, <3>5
  <2>2. PICK s : s = CHOOSE u \in cut : \A t \in cut : Place[u] <= Place[t]
    OBVIOUS
  <2>3. s \in cut /\ \A t \in cut : Place[s] <= Place[t]
    BY <2>1, <2>2
  <2>4. next = [s |-> s, o |-> Start(s, cursor, Listed(s, req)) + Cardinality(In(s, items))]
    BY <1>2, <2>2 DEF GoOn
  <2>5. Cardinality(In(s, items)) \in Nat
    <3>1. In(s, items) \in SUBSET DOMAIN Items
      BY DEF In, Stamped
    <3> QED BY <3>1, FS_Subset, FS_CardinalityType DEF ResumeAssumption
  <2>6. Start(s, cursor, Listed(s, req)) + Cardinality(In(s, items)) \in Nat
    BY <2>5, WhereToStart
  <2>7. next.s = s /\ next.o = Start(s, cursor, Listed(s, req)) + Cardinality(In(s, items))
    BY <2>4
  <2>8. next \in [s : Sections, o : Nat] /\ next # NoCursor
    BY <2>3, <2>4, <2>6, <2>7, PlacesDiffer DEF NoCursor
  <2> QED BY <1>2, <2>3, <2>7, <2>8 DEF Cursors
<1> QED BY <1>1, <1>2

(* What is due and not on the page follows from its cursor on. *)
LEMMA RestIsOwed ==
    ASSUME ResumeAssumption, Stamped, NEW req, Asks(req), NEW cursor \in Cursors,
           NEW due, due = Due(req, cursor), NEW items, items = Admitted(due, req.budget),
           NEW next, next = GoOn(req, cursor, items, Cut(due, items)),
           NEW i \in due, i \notin items
    PROVE  Owed(req, next, i)
<1>1. PICK s : s = Items[i].section
  OBVIOUS
<1>2. PICK all : all = Listed(s, req)
  OBVIOUS
<1>3. /\ s \in req.sections /\ s \in Sections /\ ~Passed(s, cursor)
      /\ i \in Slice(s, req, cursor) /\ due \subseteq DOMAIN stamp
      /\ In(s, due) = Slice(s, req, cursor)
  BY <1>1, WhatIsDue DEF Asks
<1>4. PICK start : start = Start(s, cursor, all)
  OBVIOUS
<1>5. Slice(s, req, cursor) = {k \in all : Rank(k, all) >= start}
  BY <1>2, <1>4 DEF Slice
<1>6. PICK taken : taken = In(s, items)
  OBVIOUS
<1>7. items \subseteq due
  BY DEF Admitted
<1>8. taken \subseteq Slice(s, req, cursor) /\ i \notin taken
  BY <1>3, <1>6, <1>7 DEF In
<1>9. s \in Cut(due, items)
  BY <1>3, <1>6, <1>8 DEF Cut
<1>10. /\ next # NoCursor /\ Place[next.s] <= Place[s] /\ next.s \in Sections
       /\ next.o = Start(next.s, cursor, Listed(next.s, req)) + Cardinality(In(next.s, items))
  BY <1>3, <1>7, <1>9, WhereToGoOn DEF Cut
<1>11. ~Passed(s, next)
  BY <1>3, <1>10, PlacesDiffer DEF Passed
<1>12. ASSUME s = next.s PROVE Rank(i, all) >= next.o
  <2>1. PICK m \in Slice(s, req, cursor) : \A k \in Slice(s, req, cursor) :
           Rank(m, all) <= Rank(k, all)
    BY <1>2, <1>3, <1>5, FirstOfSome
  <2>2. PICK before, first : /\ before = {k \in all : Before(k, i)}
                             /\ first = {k \in all : Before(k, m)}
    OBVIOUS
  <2>3. /\ IsFiniteSet(all) /\ all \subseteq DOMAIN stamp
        /\ \A k \in all : Rank(k, all) \in Nat /\ Items[k].section = s
    BY <1>2, SectionsAreFinite DEF Listed
  <2>4. start \in Nat /\ start <= Rank(m, all) /\ m \in all /\ i \in all
    BY <1>2, <1>3, <1>4, <1>5, <2>1, <2>3, WhereToStart
  <2>5. ASSUME NEW k \in taken, k \in first PROVE FALSE
    <3>1. k \in all /\ Before(k, m) /\ Rank(m, all) <= Rank(k, all)
      BY <1>5, <1>8, <2>1, <2>2, <2>5
    <3>2. Rank(k, all) < Rank(m, all)
      BY <1>2, <2>4, <3>1, RankGrows
    <3> QED BY <2>3, <2>4, <3>1, <3>2
  <2>6. ASSUME NEW k \in first PROVE k \in before
    <3>1. ~Before(i, m)
      <4>1. Before(i, m) => Rank(i, all) < Rank(m, all)
        BY <1>2, <2>4, RankGrows
      <4> QED BY <1>3, <2>1, <2>3, <2>4, <4>1
    <3>2. m = i \/ Before(m, i)
      BY <2>3, <2>4, <3>1, OneOrder
    <3>3. k \in all /\ Before(k, m)
      BY <2>2
    <3> QED BY <2>2, <2>3, <2>4, <3>2, <3>3, OneOrder
  <2>7. ASSUME NEW k \in taken PROVE k \in before
    <3>1. k \in items /\ k \in all /\ k # i
      BY <1>5, <1>6, <1>8 DEF In
    <3>2. i \notin UpTo(k, due)
      BY <1>3, <3>1, AdmittedIsAStart DEF Asks
    <3>3. ~Before(i, k)
      BY <1>1, <2>3, <3>1, <3>2 DEF UpTo
    <3> QED BY <2>2, <2>3, <2>4, <3>1, <3>3, OneOrder
  <2>8. before \in SUBSET all /\ first \in SUBSET before /\ taken \in SUBSET before
        /\ first \cap taken = {} /\ first \cup taken \in SUBSET before
    BY <2>2, <2>5, <2>6, <2>7
  <2>9. IsFiniteSet(before) /\ Cardinality(before) \in Nat
    BY <2>3, <2>8, FS_Subset, FS_CardinalityType
  <2>10. /\ IsFiniteSet(first) /\ Cardinality(first) \in Nat
         /\ IsFiniteSet(taken) /\ Cardinality(taken) \in Nat
    BY <2>8, <2>9, FS_Subset, FS_CardinalityType
  <2>11. Cardinality(first \cup taken) = Cardinality(first) + Cardinality(taken)
    <3>1. PICK f, t, b : f = Cardinality(first) /\ t = Cardinality(taken)
                         /\ b = Cardinality(first \cup taken)
      OBVIOUS
    <3>2. Cardinality(first \cap taken) = 0
      BY <2>8, FS_EmptySet
    <3>3. b = f + t - 0
      BY <2>10, <3>1, <3>2, FS_Union
    <3>4. f \in Nat /\ t \in Nat
      BY <2>10, <3>1
    <3>5. b = f + t
      BY <3>3, <3>4
    <3> QED BY <3>1, <3>5
  <2>12. Cardinality(first \cup taken) <= Cardinality(before)
    BY <2>8, <2>9, FS_Subset
  <2>13. Rank(i, all) = Cardinality(before) /\ Rank(m, all) = Cardinality(first)
    BY <2>2 DEF Rank
  <2>14. next.o = start + Cardinality(taken)
    BY <1>2, <1>4, <1>6, <1>10, <1>12
  <2> QED BY <2>4, <2>9, <2>10, <2>11, <2>12, <2>13, <2>14
<1> QED BY <1>1, <1>2, <1>3, <1>5, <1>10, <1>11, <1>12 DEF Owed

(* With items that each fit the budget, a page leads on from its cursor. *)
LEMMA PageLeadsOn ==
    ASSUME ResumeAssumption, Stamped, NEW req, Asks(req), NEW cursor \in Cursors,
           cursor # NoCursor,
           NEW due, due = Due(req, cursor), NEW items, items = Admitted(due, req.budget),
           NEW next, next = GoOn(req, cursor, items, Cut(due, items)),
           \A i \in DOMAIN Items : Cost[{i}] <= req.budget
    PROVE  next # cursor
<1> SUFFICES ASSUME next = cursor PROVE FALSE
  OBVIOUS
<1>1. due \subseteq DOMAIN stamp /\ items \subseteq due
  BY WhatIsDue DEF Admitted
<1>2. PICK s : s = cursor.s
  OBVIOUS
<1>3. /\ s \in Cut(due, items) /\ s \in Sections
      /\ cursor.o = Start(s, cursor, Listed(s, req)) + Cardinality(In(s, items))
  BY <1>1, <1>2, WhereToGoOn DEF Cut
<1>4. PICK all : all = Listed(s, req)
  OBVIOUS
<1>5. PICK start : start = Start(s, cursor, all)
  OBVIOUS
<1>6. PICK i : i \in In(s, due) /\ i \notin items
  BY <1>1, <1>3 DEF Cut, In
<1>7. /\ i \in due /\ Items[i].section = s /\ s \in req.sections /\ ~Passed(s, cursor)
      /\ i \in Slice(s, req, cursor) /\ In(s, due) = Slice(s, req, cursor)
  BY <1>3, <1>6, WhatIsDue DEF In
<1>8. Slice(s, req, cursor) = {k \in all : Rank(k, all) >= start}
  BY <1>4, <1>5 DEF Slice
<1>9. /\ IsFiniteSet(all) /\ Cardinality(all) \in Nat /\ all \subseteq DOMAIN stamp
      /\ \A k \in all : Rank(k, all) \in Nat /\ Items[k].section = s
  BY <1>4, SectionsAreFinite DEF Listed
<1>10. Rank(i, all) < Cardinality(all)
  <2>1. PICK before : before = {k \in all : Before(k, i)}
    OBVIOUS
  <2>2. i \in all /\ i \notin before
    BY <1>7, <1>8, <1>9, <2>1, OneOrder
  <2>3. before \in SUBSET all /\ before # all
    BY <2>1, <2>2
  <2>4. /\ Cardinality(before) <= Cardinality(all) /\ Cardinality(before) # Cardinality(all)
        /\ Cardinality(before) \in Nat
    BY <1>9, <2>3, FS_Subset, FS_CardinalityType
  <2>5. Rank(i, all) = Cardinality(before)
    BY <2>1 DEF Rank
  <2> QED BY <1>9, <2>4, <2>5
<1>11. cursor.o \in Nat /\ start \in Nat
  BY <1>4, <1>5, WhereToStart DEF Cursors, NoCursor
<1>12. start = cursor.o
  <2>1. start <= Rank(i, all) /\ Rank(i, all) \in Nat
    BY <1>7, <1>8, <1>9
  <2>2. start = IF cursor.o < Cardinality(all) THEN cursor.o ELSE Cardinality(all)
    BY <1>2, <1>5 DEF Start
  <2> QED BY <1>9, <1>10, <1>11, <2>1, <2>2
<1>13. PICK taken : taken = In(s, items)
  OBVIOUS
<1>14. taken = {}
  <2>1. IsFiniteSet(taken)
    <3>1. taken \in SUBSET all
      BY <1>1, <1>7, <1>8, <1>13 DEF In
    <3> QED BY <1>9, <3>1, FS_Subset
  <2>2. PICK n : n = Cardinality(taken)
    OBVIOUS
  <2>3. n \in Nat
    BY <2>1, <2>2, FS_CardinalityType
  <2>4. n = 0
    BY <1>3, <1>4, <1>5, <1>11, <1>12, <1>13, <2>2, <2>3
  <2> QED BY <2>1, <2>2, <2>4, FS_EmptySet
<1>15. PICK m \in Slice(s, req, cursor) : \A k \in Slice(s, req, cursor) :
          Rank(m, all) <= Rank(k, all)
  BY <1>4, <1>7, <1>8, FirstOfSome
<1>16. m \in due /\ Items[m].section = s /\ m \in all
  BY <1>7, <1>8, <1>15 DEF In
<1>17. ASSUME NEW j \in UpTo(m, due) PROVE j = m
  <2>1. j \in due /\ ~Passed(Items[j].section, cursor)
        /\ j \in Slice(Items[j].section, req, cursor)
    BY <1>17, WhatIsDue DEF UpTo
  <2>2. Items[j].section = s
    BY <1>2, <1>16, <1>17, <2>1 DEF UpTo, Passed
  <2> SUFFICES ASSUME Before(j, m) PROVE FALSE
    BY <1>3, <1>16, <1>17, <2>2, PlacesDiffer DEF UpTo
  <2>3. j \in Slice(s, req, cursor) /\ j \in all
    BY <1>8, <2>1, <2>2
  <2>4. Rank(j, all) < Rank(m, all)
    BY <1>4, <1>16, <2>3, RankGrows
  <2> QED BY <1>9, <1>15, <1>16, <2>3, <2>4
<1>18. UpTo(m, due) = {m}
  BY <1>16, <1>17 DEF UpTo
<1>19. m \in items
  BY <1>1, <1>16, <1>18 DEF Admitted, Stamped
<1> QED BY <1>13, <1>14, <1>16, <1>19 DEF In

(* What a page says of itself. *)
Closed(page, budget) ==
    /\ Cost[page.items] <= budget
    /\ \A s \in Sections : LET part == page.coverage[s] IN
          /\ part.included = Cardinality(In(s, page.items))
          /\ part.complete => part.included = part.total /\ part.why = "none"
          /\ part.complete \/ part.why # "none"
          /\ part.why = "budget" => page.next # NoCursor /\ Place[s] >= Place[page.next.s]
          /\ page.next # NoCursor /\ Place[s] > Place[page.next.s] => part.included = 0

LEMMA PageIsClosed ==
    ASSUME ResumeAssumption, Stamped, NEW req, Asks(req), NEW cursor \in Cursors,
           NEW due, due = Due(req, cursor), NEW items, items = Admitted(due, req.budget),
           NEW cut, cut = Cut(due, items), NEW next, next = GoOn(req, cursor, items, cut),
           NEW s \in Sections, NEW part, part = Coverage(req, cursor, s, items, cut)
    PROVE  /\ part.included = Cardinality(In(s, items))
           /\ part.complete => part.included = part.total /\ part.why = "none"
           /\ part.complete \/ part.why # "none"
           /\ part.why = "budget" => next # NoCursor /\ Place[s] >= Place[next.s]
           /\ next # NoCursor /\ Place[s] > Place[next.s] => part.included = 0
<1>1. due \subseteq DOMAIN stamp /\ items \subseteq due
  BY WhatIsDue DEF Admitted
<1>2. PICK all, taken, rows, included, missing :
         /\ all = Listed(s, req) /\ taken = In(s, items)
         /\ rows = Cardinality(all) /\ included = Cardinality(taken)
         /\ missing = IF s = "currentFacts" THEN hidden ELSE 0
  OBVIOUS
<1>3. IsFiniteSet(all) /\ rows \in Nat /\ missing \in Nat
  BY <1>2, SectionsAreFinite DEF Stamped
<1>4. taken \in SUBSET In(s, due) /\ In(s, due) \in SUBSET all
  <2>1. \A i \in Slice(s, req, cursor) : i \in Listed(s, req)
    BY DEF Slice
  <2>2. In(s, due) \subseteq Listed(s, req)
    BY <2>1, WhatIsDue
  <2> QED BY <1>1, <1>2, <2>2 DEF In
<1>5. included \in Nat /\ (included = rows => taken = In(s, due))
  BY <1>2, <1>3, <1>4, FS_Subset, FS_CardinalityType
<1>6. included = rows => s \notin cut
  BY <1>2, <1>5 DEF Cut
<1>7. /\ part.included = included /\ part.total = rows + missing
      /\ part.complete = ((s \in req.sections /\ ~Passed(s, cursor))
                             /\ included = rows /\ missing = 0)
      /\ part.why = IF s \notin req.sections THEN "not-requested"
                    ELSE IF Passed(s, cursor) THEN "cursor"
                    ELSE IF s \in cut THEN "budget"
                    ELSE IF missing > 0 THEN "suppressed"
                    ELSE IF included = rows THEN "none" ELSE "cursor"
  BY <1>2 DEF Coverage
<1>8. part.complete => part.included = part.total /\ part.why = "none"
  <2> SUFFICES ASSUME part.complete PROVE part.included = part.total /\ part.why = "none"
    OBVIOUS
  <2>1. s \in req.sections /\ ~Passed(s, cursor) /\ included = rows /\ missing = 0
    BY <1>7
  <2>2. ~(missing > 0) /\ s \notin cut
    BY <1>6, <2>1
  <2>3. part.why = "none"
    BY <1>7, <2>1, <2>2
  <2>4. part.included = part.total
    BY <1>3, <1>7, <2>1
  <2> QED BY <2>3, <2>4
<1>9. part.complete \/ part.why # "none"
  <2> SUFFICES ASSUME part.why = "none" PROVE part.complete
    OBVIOUS
  <2>1. s \in req.sections /\ ~Passed(s, cursor) /\ included = rows /\ ~(missing > 0)
    BY <1>7
  <2>2. missing = 0
    BY <1>3, <2>1
  <2> QED BY <1>7, <2>1, <2>2
<1>10. part.why = "budget" => next # NoCursor /\ Place[s] >= Place[next.s]
  <2>1. part.why = "budget" => s \in cut
    BY <1>7
  <2>2. s \in cut => next # NoCursor /\ Place[next.s] <= Place[s] /\ next.s \in Sections
    BY <1>1, WhereToGoOn DEF Cut
  <2> QED BY <2>1, <2>2, PlacesDiffer
<1>11. next # NoCursor /\ Place[s] > Place[next.s] => part.included = 0
  <2> SUFFICES ASSUME next # NoCursor, Place[s] > Place[next.s] PROVE part.included = 0
    OBVIOUS
  <2>1. next.s \in cut /\ next.s \in Sections
    BY <1>1, WhereToGoOn DEF Cut
  <2>2. PICK k : k \in due /\ k \notin items /\ Items[k].section = next.s
    BY <1>1, <2>1 DEF Cut, In
  <2>3. ASSUME NEW i \in taken PROVE FALSE
    <3>1. i \in items /\ i \in due /\ Items[i].section = s
      BY <1>1, <1>2 DEF In
    <3>2. k \in UpTo(i, due)
      BY <2>1, <2>2, <3>1, PlacesDiffer DEF UpTo
    <3> QED BY <1>1, <2>2, <3>1, <3>2, AdmittedIsAStart DEF Asks
  <2>4. taken = {}
    BY <2>3
  <2> QED BY <1>2, <1>7, <2>4, FS_EmptySet
<1> QED BY <1>2, <1>7, <1>8, <1>9, <1>10, <1>11

LEMMA OnePage ==
    ASSUME ResumeAssumption, Stamped, NEW req, Asks(req), NEW cursor \in Cursors,
           NEW page, page = Page(req, cursor)
    PROVE  /\ Closed(page, req.budget) /\ page.next \in Cursors
           /\ page.items \subseteq DOMAIN Items
           /\ \A i \in page.items : Selects(i, req.agent, req.key)
           /\ (\A i \in DOMAIN Items : Cost[{i}] <= req.budget) =>
                 page.next # cursor \/ cursor = NoCursor
           /\ \A i \in Due(req, cursor) : i \in page.items \/ Owed(req, page.next, i)
<1>1. PICK due : due = Due(req, cursor)
  OBVIOUS
<1>2. PICK items : items = Admitted(due, req.budget)
  OBVIOUS
<1>3. PICK cut : cut = Cut(due, items)
  OBVIOUS
<1>4. PICK next : next = GoOn(req, cursor, items, cut)
  OBVIOUS
<1>5. page = [items |-> items, next |-> next,
              coverage |-> [s \in Sections |-> Coverage(req, cursor, s, items, cut)]]
  BY <1>1, <1>2, <1>3, <1>4, Zenon DEF Page
<1>6. page.items = items /\ page.next = next
      /\ \A s \in Sections : page.coverage[s] = Coverage(req, cursor, s, items, cut)
  BY <1>5
<1>7. due \subseteq DOMAIN stamp /\ items \subseteq due /\ cut \subseteq Sections
  BY <1>1, <1>2, <1>3, WhatIsDue DEF Admitted, Cut
<1>8. Cost[items] <= req.budget
  BY <1>2, <1>7, AdmittedFits DEF Asks
<1>9. Closed(page, req.budget)
  BY <1>1, <1>2, <1>3, <1>4, <1>6, <1>8, PageIsClosed DEF Closed
<1>10. next \in Cursors
  BY <1>4, <1>7, WhereToGoOn
<1>11. items \subseteq DOMAIN Items /\ \A i \in items : Selects(i, req.agent, req.key)
  BY <1>1, <1>7, WhatIsDue DEF Stamped
<1>12. (\A i \in DOMAIN Items : Cost[{i}] <= req.budget) => next # cursor \/ cursor = NoCursor
  BY <1>1, <1>2, <1>3, <1>4, PageLeadsOn
<1>13. \A i \in due : i \in items \/ Owed(req, next, i)
  BY <1>1, <1>2, <1>3, <1>4, RestIsOwed
<1> QED BY <1>1, <1>6, <1>9, <1>10, <1>11, <1>12, <1>13
----------------------------------------------------------------------------
(* The changes between two pages *)

LEMMA LatestOfSome ==
    ASSUME ResumeAssumption, Stamped, NEW others, others \subseteq DOMAIN stamp
    PROVE  \E n \in {0} \union {stamp[j] : j \in others} : \A j \in others : stamp[j] <= n
<1>1. CASE others = {}
  BY <1>1
<1>2. CASE others # {}
  <2>1. \A j \in others : stamp[j] \in Nat
    BY DEF Stamped
  <2>2. IsFiniteSet(others)
    BY FS_Subset DEF ResumeAssumption, Stamped
  <2>3. \A j \in others : /\ {k \in others : stamp[k] > stamp[j]} \in SUBSET others
                          /\ IsFiniteSet({k \in others : stamp[k] > stamp[j]})
                          /\ Cardinality({k \in others : stamp[k] > stamp[j]}) \in Nat
    BY <2>2, FS_Subset, FS_CardinalityType
  <2>4. PICK T : T = {Cardinality({k \in others : stamp[k] > stamp[j]}) : j \in others}
    OBVIOUS
  <2>5. T \subseteq Nat /\ T # {}
    BY <1>2, <2>3, <2>4
  <2>6. PICK x \in T : \A y \in T : x <= y
    BY <2>5, Least
  <2>7. PICK j \in others : x = Cardinality({k \in others : stamp[k] > stamp[j]})
    BY <2>4
  <2>8. ASSUME NEW k \in others, stamp[k] > stamp[j] PROVE FALSE
    <3>1. PICK A, B : /\ A = {l \in others : stamp[l] > stamp[k]}
                      /\ B = {l \in others : stamp[l] > stamp[j]}
      OBVIOUS
    <3>2. A \in SUBSET B /\ B \in SUBSET others
      BY <2>1, <2>8, <3>1
    <3>3. k \in B /\ k \notin A
      BY <2>1, <2>8, <3>1
    <3>4. IsFiniteSet(B)
      BY <2>2, <3>2, FS_Subset
    <3>5. /\ Cardinality(A) <= Cardinality(B) /\ Cardinality(A) # Cardinality(B)
          /\ Cardinality(A) \in Nat /\ Cardinality(B) \in Nat
      BY <3>2, <3>3, <3>4, FS_Subset, FS_CardinalityType
    <3>6. Cardinality(A) \in T /\ x = Cardinality(B)
      BY <2>4, <2>7, <3>1
    <3> QED BY <2>6, <3>5, <3>6
  <2>9. \A k \in others : stamp[k] <= stamp[j]
    BY <2>1, <2>8
  <2> QED BY <2>9
<1> QED BY <1>1, <1>2

(* A write is the latest of its section. *)
LEMMA WritesStamp ==
    ASSUME ResumeAssumption, Stamped, NEW i \in DOMAIN Items \ Handoffs, Write(i),
           UNCHANGED hidden
    PROVE  /\ Stamped' /\ DOMAIN stamp' = DOMAIN stamp \cup {i}
           /\ \A j \in DOMAIN stamp \ {i} : stamp'[j] = stamp[j]
<1> DEFINE others == In(Items[i].section, DOMAIN stamp) \ {i}
           latest == CHOOSE n \in {0} \union {stamp[j] : j \in others} :
                        \A j \in others : stamp[j] <= n
<1>1. stamp' = [j \in DOMAIN stamp \union {i} |-> IF j = i THEN latest + 1 ELSE stamp[j]]
  BY DEF Write
<1>2. \A l \in DOMAIN stamp : l # i /\ Items[l].section = Items[i].section => l \in others
  BY DEF In
<1>3. others \subseteq DOMAIN stamp
  BY DEF In
<1>4. /\ latest \in {0} \union {stamp[j] : j \in others}
      /\ \A j \in others : stamp[j] <= latest
  <2> HIDE DEF others
  <2> QED BY <1>3, LatestOfSome
<1> HIDE DEF others, latest
<1>5. \A j \in DOMAIN stamp : stamp[j] \in Nat
  BY DEF Stamped
<1>6. latest \in Nat
  BY <1>3, <1>4, <1>5
<1>7. PICK new : new = [j \in DOMAIN stamp \union {i} |-> IF j = i THEN latest + 1 ELSE stamp[j]]
  OBVIOUS
<1>8. stamp' = new
  BY <1>1, <1>7
<1>9. /\ DOMAIN new = DOMAIN stamp \cup {i} /\ new[i] = latest + 1
      /\ \A j \in DOMAIN stamp \ {i} : new[j] = stamp[j]
  BY <1>7
<1>10. DOMAIN new \subseteq DOMAIN Items /\ new \in [DOMAIN new -> Nat]
  <2>1. \A j \in DOMAIN new : new[j] \in Nat
    BY <1>5, <1>6, <1>9
  <2>2. DOMAIN new \subseteq DOMAIN Items
    BY <1>9 DEF Stamped
  <2>3. new = [j \in DOMAIN new |-> new[j]]
    BY <1>7, <1>9, Zenon
  <2> QED BY <2>1, <2>2, <2>3
<1>11. ASSUME NEW j \in DOMAIN new, NEW k \in DOMAIN new,
              Items[j].section = Items[k].section,
              j \in Handoffs <=> k \in Handoffs, new[j] = new[k]
       PROVE  j = k
  <2>1. ASSUME NEW l \in DOMAIN stamp, l # i, Items[l].section = Items[i].section
        PROVE  new[l] # new[i]
    <3>1. l \in others
      BY <1>2, <2>1
    <3>2. new[l] \in Nat /\ new[l] <= latest
      BY <1>4, <1>5, <1>9, <2>1, <3>1
    <3> QED BY <1>6, <1>9, <3>2
  <2>2. CASE j # i /\ k # i
    BY <1>9, <1>11, <2>2 DEF Stamped
  <2>3. CASE j = i \/ k = i
    BY <1>9, <1>11, <2>1, <2>3
  <2> QED BY <2>2, <2>3
<1> QED BY <1>8, <1>9, <1>10, <1>11 DEF Stamped

(* An arrival leaves what is owed owed. *)
LEMMA OwedStays ==
    ASSUME ResumeAssumption, Stamped, NEW i \in DOMAIN Items \ Handoffs, Write(i),
           UNCHANGED hidden, i \notin DOMAIN stamp,
           NEW req, NEW next \in Cursors, NEW k, Owed(req, next, k)
    PROVE  Owed(req, next, k)'
<1>1. /\ Stamped' /\ DOMAIN stamp' = DOMAIN stamp \cup {i}
      /\ \A j \in DOMAIN stamp : stamp'[j] = stamp[j]
  BY WritesStamp
<1>2. PICK s : s = Items[k].section
  OBVIOUS
<1>3. PICK all, more : all = Listed(s, req) /\ more = Listed(s, req)'
  OBVIOUS
<1>4. all \in SUBSET more /\ k \in all
  BY <1>1, <1>2, <1>3 DEF Listed, Owed
<1>5. \A j \in all : Before(j, k) => Before(j, k)'
  BY <1>1, <1>3, <1>4 DEF Listed, Before
<1>6. PICK A, B : A = {j \in all : Before(j, k)} /\ B = {j \in more : Before(j, k)'}
  OBVIOUS
<1>7. A \in SUBSET B /\ B \in SUBSET more
  BY <1>4, <1>5, <1>6
<1>8. IsFiniteSet(more)
  <2>1. more \in SUBSET DOMAIN Items
    BY <1>1, <1>3 DEF Listed, Stamped
  <2> QED BY <2>1, FS_Subset DEF ResumeAssumption
<1>9. Cardinality(A) <= Cardinality(B) /\ Cardinality(A) \in Nat /\ Cardinality(B) \in Nat
  BY <1>7, <1>8, FS_Subset, FS_CardinalityType
<1>10. Rank(k, all) = Cardinality(A) /\ Rank(k, more)' = Cardinality(B)
  BY <1>6 DEF Rank
<1>11. next.o \in Nat
  BY DEF Cursors, NoCursor
<1>12. /\ k \in Listed(s, req) /\ s \in req.sections /\ next # NoCursor /\ ~Passed(s, next)
       /\ s = next.s => Rank(k, Listed(s, req)) >= next.o
  BY <1>2 DEF Owed
<1>13. s = next.s => Rank(k, more)' >= next.o
  BY <1>3, <1>9, <1>10, <1>11, <1>12
<1>14. Owed(req, next, k)' <=>
          /\ k \in Listed(Items[k].section, req)' /\ Items[k].section \in req.sections
          /\ next # NoCursor /\ ~Passed(Items[k].section, next)
          /\ Items[k].section = next.s => Rank(k, Listed(Items[k].section, req))' >= next.o
  BY DEF Owed, Passed
<1> QED BY <1>2, <1>3, <1>4, <1>12, <1>13, <1>14
----------------------------------------------------------------------------
(* A walk, from its first page to its last *)

WalkHolds ==
    \/ walk = Idle
    \/ /\ DOMAIN walk = {"on", "ref", "req", "cursor", "page", "got", "first"}
       /\ Asks(walk.req) /\ walk.page.next \in Cursors
       /\ Closed(walk.page, walk.req.budget)
       /\ (\A i \in DOMAIN Items : Cost[{i}] <= walk.req.budget) =>
             walk.page.next # walk.cursor \/ walk.cursor = NoCursor
       /\ \A name \in {walk.ref.project, walk.ref.task} \ {NoName} :
             Cardinality(Directory[name]) = 1 /\ Directory[name] \subseteq Range(walk.req.key)
       /\ \A i \in walk.got : Selects(i, walk.req.agent, walk.req.key)
       /\ steady => \A i \in walk.first : i \in walk.got \/ Owed(walk.req, walk.page.next, i)

WalksHold == Stamped /\ WalkHolds

LEMMA WalksAreSound == WalksHold => ResumeIsSound
<1> SUFFICES ASSUME WalksHold, walk.on
             PROVE  /\ Closed(walk.page, walk.req.budget)
                    /\ walk.page.next = NoCursor /\ steady => walk.first \subseteq walk.got
                    /\ (\A i \in DOMAIN Items : Cost[{i}] <= walk.req.budget) =>
                          walk.page.next # walk.cursor \/ walk.cursor = NoCursor
                    /\ WalkStaysInside
  BY DEF ResumeIsSound, CoverageIsClosed, WalkArrives, WalkStaysInside, Closed
<1>1. walk # Idle
  BY DEF Idle
<1>2. ASSUME NEW i \in walk.got, Items[i].section = "messages"
      PROVE  Fetches(walk.req.key, walk.req.agent, i)
  <2>1. Selects(i, walk.req.agent, walk.req.key)
    BY <1>1 DEF WalksHold, WalkHolds
  <2> QED BY <1>2, <2>1 DEF Selects, Fetches
<1>3. WalkStaysInside
  BY <1>1, <1>2 DEF WalkStaysInside, WalksHold, WalkHolds
<1>4. walk.page.next = NoCursor /\ steady => walk.first \subseteq walk.got
  BY <1>1 DEF WalksHold, WalkHolds, Owed
<1> QED BY <1>1, <1>3, <1>4 DEF WalksHold, WalkHolds

LEMMA ResumeStarts == ResumeAssumption /\ ResumeInit => WalksHold
<1> SUFFICES ASSUME ResumeAssumption, ResumeInit PROVE WalksHold
  OBVIOUS
<1>1. stamp \in [Handoffs -> Nat] /\ IsInjective(stamp)
  BY DEF ResumeInit, ResumeAssumption, Injection
<1>2. DOMAIN stamp = Handoffs /\ Handoffs \subseteq DOMAIN Items
  BY <1>1 DEF Handoffs
<1>3. hidden \in Nat
  BY DEF ResumeInit, ResumeAssumption
<1>4. Stamped
  BY <1>1, <1>2, <1>3 DEF Stamped, IsInjective
<1> QED BY <1>4 DEF WalksHold, WalkHolds, ResumeInit

(* The names a walk may be of stand for one entity each, which its key has. *)
LEMMA KeyIsOfNames ==
    ASSUME ResumeAssumption, NEW ref \in Scopes, NEW key \in Key(ref),
           NEW name \in {ref.project, ref.task} \ {NoName}
    PROVE  Cardinality(Directory[name]) = 1 /\ Directory[name] \subseteq Range(key)
<1>1. Entity(name) # NoId /\ key = <<Entity(ref.project), Entity(ref.task)>>
  BY DEF Key
<1>2. Cardinality(Directory[name]) = 1 /\ Entity(name) = CHOOSE id \in Directory[name] : TRUE
  BY <1>1 DEF Entity, Candidates
<1>3. IsFiniteSet(Directory[name])
  BY DEF ResumeAssumption
<1>4. PICK id : Directory[name] = {id}
  BY <1>2, <1>3, FS_Singleton
<1>5. Entity(name) = id
  BY <1>2, <1>4
<1>6. Entity(name) \in Range(key)
  <2>1. /\ DOMAIN key = 1..2 /\ key[1] = Entity(ref.project) /\ key[2] = Entity(ref.task)
    BY <1>1
  <2>2. 1 \in DOMAIN key /\ 2 \in DOMAIN key
    BY <2>1
  <2> QED BY <2>1, <2>2 DEF Range
<1> QED BY <1>2, <1>4, <1>5, <1>6

(* The first page of a walk. *)
LEMMA WalkBegins ==
    ASSUME ResumeAssumption, WalksHold, NEW caller, NEW ref \in Scopes,
           NEW sections \in SUBSET Sections, NEW budget \in Budgets,
           Begin(caller, ref, sections, budget), UNCHANGED <<stamp, hidden>>
    PROVE  WalksHold'
<1>1. Stamped'
  BY DEF WalksHold, Stamped
<1>2. CASE Key(ref) = {}
  BY <1>1, <1>2 DEF Begin, WalksHold, WalkHolds
<1>3. CASE Key(ref) # {}
  <2>1. PICK key : key = CHOOSE k \in Key(ref) : TRUE
    OBVIOUS
  <2>2. key \in Key(ref)
    BY <1>3, <2>1
  <2>3. PICK req : req = [agent |-> Reader(caller), key |-> key, sections |-> sections,
                          budget |-> budget]
    OBVIOUS
  <2>4. req.agent = Reader(caller) /\ req.key = key /\ req.sections = sections
        /\ req.budget = budget /\ Asks(req)
    BY <2>3 DEF Asks, ResumeAssumption
  <2>5. PICK page : page = Page(req, NoCursor)
    OBVIOUS
  <2>6. PICK first : first = UNION {Listed(s, req) : s \in sections}
    OBVIOUS
  <2>7. /\ walk' = [on |-> TRUE, ref |-> ref, req |-> req, cursor |-> NoCursor,
                    page |-> page, got |-> page.items, first |-> first]
        /\ steady' = TRUE
    BY <1>3, <2>1, <2>3, <2>5, <2>6 DEF Begin
  <2>8. /\ DOMAIN walk' = {"on", "ref", "req", "cursor", "page", "got", "first"}
        /\ walk'.ref = ref /\ walk'.req = req /\ walk'.cursor = NoCursor /\ walk'.page = page
        /\ walk'.got = page.items /\ walk'.first = first
    BY <2>7
  <2>9. /\ Closed(page, req.budget) /\ page.next \in Cursors
        /\ \A i \in page.items : Selects(i, req.agent, req.key)
        /\ \A i \in Due(req, NoCursor) : i \in page.items \/ Owed(req, page.next, i)
    BY <2>4, <2>5, OnePage DEF WalksHold, Cursors
  <2>10. ASSUME NEW i \in first PROVE i \in Due(req, NoCursor)
    <3>1. PICK s \in sections : i \in Listed(s, req)
      BY <2>6
    <3>2. Start(s, NoCursor, Listed(s, req)) = 0
      BY <3>1, PlacesDiffer DEF Start, NoCursor
    <3>3. Rank(i, Listed(s, req)) \in Nat
      BY SectionsAreFinite DEF WalksHold
    <3>4. i \in Slice(s, req, NoCursor)
      BY <3>1, <3>2, <3>3 DEF Slice
    <3> QED BY <2>4, <3>1, <3>4 DEF Due, Passed
  <2>11. \A i \in first : i \in page.items \/ Owed(req, page.next, i)'
    BY <2>9, <2>10 DEF Owed, Listed, Rank, Before
  <2>12. \A name \in {ref.project, ref.task} \ {NoName} :
            Cardinality(Directory[name]) = 1 /\ Directory[name] \subseteq Range(key)
    BY <2>2, KeyIsOfNames
  <2>13. WalkHolds'
    BY <2>4, <2>7, <2>8, <2>9, <2>11, <2>12 DEF WalkHolds
  <2> QED BY <1>1, <2>13 DEF WalksHold
<1> QED BY <1>2, <1>3

(* A later page: what is owed is due on it. *)
LEMMA WalkGoesOn ==
    ASSUME ResumeAssumption, WalksHold, Follow
    PROVE  WalksHold'
<1>1. Stamped /\ Stamped'
  BY DEF WalksHold, Stamped, Follow
<1>2. walk # Idle
  BY DEF Follow, Idle
<1>3. PICK ref, req, cursor, page, got, first :
         /\ ref = walk.ref /\ req = walk.req /\ cursor = walk.page.next
         /\ page = Page(req, cursor) /\ got = walk.got /\ first = walk.first
  OBVIOUS
<1>4. /\ DOMAIN walk = {"on", "ref", "req", "cursor", "page", "got", "first"}
      /\ Asks(req) /\ cursor \in Cursors /\ cursor # NoCursor
      /\ \A name \in {ref.project, ref.task} \ {NoName} :
            Cardinality(Directory[name]) = 1 /\ Directory[name] \subseteq Range(req.key)
      /\ \A i \in got : Selects(i, req.agent, req.key)
      /\ steady => \A i \in first : i \in got \/ Owed(req, cursor, i)
  BY <1>2, <1>3 DEF WalksHold, WalkHolds, Follow
<1>5. walk' = [walk EXCEPT !.cursor = cursor, !.page = page, !.got = @ \union page.items]
  BY <1>3 DEF Follow
<1>6. DOMAIN walk' = {"on", "ref", "req", "cursor", "page", "got", "first"}
  BY <1>4, <1>5
<1>7. /\ walk'.ref = ref /\ walk'.req = req /\ walk'.cursor = cursor /\ walk'.page = page
      /\ walk'.got = got \union page.items /\ walk'.first = first
  BY <1>3, <1>4, <1>5
<1>8. /\ Closed(page, req.budget) /\ page.next \in Cursors
      /\ \A i \in page.items : Selects(i, req.agent, req.key)
      /\ (\A i \in DOMAIN Items : Cost[{i}] <= req.budget) =>
            page.next # cursor \/ cursor = NoCursor
      /\ \A i \in Due(req, cursor) : i \in page.items \/ Owed(req, page.next, i)
  BY <1>1, <1>3, <1>4, OnePage
<1>9. ASSUME NEW i, Owed(req, cursor, i) PROVE i \in Due(req, cursor)
  <2>1. PICK s, all : s = Items[i].section /\ all = Listed(s, req)
    OBVIOUS
  <2>2. /\ i \in all /\ s \in req.sections /\ ~Passed(s, cursor)
        /\ s = cursor.s => Rank(i, all) >= cursor.o
    BY <1>9, <2>1 DEF Owed
  <2>3. PICK start : start = Start(s, cursor, all)
    OBVIOUS
  <2>4. start \in Nat /\ (s # cursor.s => start = 0) /\ (start <= cursor.o \/ s # cursor.s)
    BY <1>1, <1>4, <2>1, <2>3, WhereToStart
  <2>5. Rank(i, all) \in Nat /\ cursor.o \in Nat
    BY <1>1, <1>4, <2>1, SectionsAreFinite DEF Cursors, NoCursor
  <2>6. Rank(i, all) >= start
    BY <2>2, <2>4, <2>5
  <2>7. i \in Slice(s, req, cursor)
    BY <2>1, <2>2, <2>3, <2>6 DEF Slice
  <2> QED BY <2>2, <2>7 DEF Due
<1>10. UNCHANGED <<stamp, steady>>
  BY DEF Follow
<1>11. \A i : Owed(req, page.next, i) => Owed(req, page.next, i)'
  BY <1>10 DEF Owed, Listed, Rank, Before
<1>12. steady' => \A i \in first : i \in got \union page.items \/ Owed(req, page.next, i)'
  BY <1>4, <1>8, <1>9, <1>10, <1>11
<1>13. WalkHolds'
  BY <1>4, <1>6, <1>7, <1>8, <1>12 DEF WalkHolds
<1> QED BY <1>1, <1>13 DEF WalksHold

(* A change after which a walk is steady still leaves owed what is owed. *)
LEMMA WalkIsKept ==
    ASSUME WalksHold, Stamped', UNCHANGED walk, steady' => steady,
           ASSUME NEW req, NEW next \in Cursors, NEW i, steady', Owed(req, next, i)
           PROVE  Owed(req, next, i)'
    PROVE  WalksHold'
<1>1. CASE walk = Idle
  BY <1>1 DEF WalksHold, WalkHolds
<1>2. CASE walk # Idle
  <2>1. PICK w : w = walk
    OBVIOUS
  <2>2. walk' = w
    BY <2>1
  <2>3. /\ DOMAIN w = {"on", "ref", "req", "cursor", "page", "got", "first"}
        /\ Asks(w.req) /\ w.page.next \in Cursors
        /\ Closed(w.page, w.req.budget)
        /\ (\A i \in DOMAIN Items : Cost[{i}] <= w.req.budget) =>
              w.page.next # w.cursor \/ w.cursor = NoCursor
        /\ \A name \in {w.ref.project, w.ref.task} \ {NoName} :
              Cardinality(Directory[name]) = 1 /\ Directory[name] \subseteq Range(w.req.key)
        /\ \A i \in w.got : Selects(i, w.req.agent, w.req.key)
        /\ steady => \A i \in w.first : i \in w.got \/ Owed(w.req, w.page.next, i)
    BY <1>2, <2>1 DEF WalksHold, WalkHolds
  <2>4. steady' => \A i \in w.first : i \in w.got \/ Owed(w.req, w.page.next, i)'
    BY <2>3
  <2>5. WalkHolds'
    BY <2>2, <2>3, <2>4 DEF WalkHolds
  <2> QED BY <2>5 DEF WalksHold
<1> QED BY <1>1, <1>2

LEMMA ResumeSteps ==
    ASSUME ResumeAssumption, WalksHold, [ResumeNext]_resumeVars
    PROVE  WalksHold'
<1>1. CASE Resume
  <2>1. PICK caller \in DOMAIN Callers, ref \in Scopes, sections \in Requests, budget \in Budgets :
           Begin(caller, ref, sections, budget)
    BY <1>1 DEF Resume
  <2>2. sections \in SUBSET Sections
    BY DEF ResumeAssumption
  <2>3. UNCHANGED <<stamp, hidden>>
    BY <1>1 DEF Resume
  <2> QED BY <2>1, <2>2, <2>3, WalkBegins
<1>2. CASE Follow
  BY <1>2, WalkGoesOn
<1>3. CASE BeginSession
  <2>1. PICK caller \in DOMAIN Callers, ref \in Scopes, budget \in Budgets :
           Begin(caller, ref, Sections, budget) \/ (walk' = Idle /\ UNCHANGED steady)
    BY <1>3 DEF BeginSession
  <2>2. UNCHANGED <<stamp, hidden>>
    BY <1>3 DEF BeginSession
  <2>3. CASE Begin(caller, ref, Sections, budget)
    BY <2>2, <2>3, WalkBegins
  <2>4. CASE walk' = Idle
    <3>1. Stamped'
      BY <2>2 DEF WalksHold, Stamped
    <3> QED BY <2>4, <3>1 DEF WalksHold, WalkHolds
  <2> QED BY <2>1, <2>3, <2>4
<1>4. CASE Arrive
  <2>1. PICK i \in DOMAIN Items \ (Handoffs \union DOMAIN stamp \union gone) : Write(i)
    BY <1>4 DEF Arrive
  <2>2. UNCHANGED <<hidden, walk, steady>> /\ Stamped
    BY <1>4 DEF Arrive, WalksHold
  <2>3. Stamped'
    BY <2>1, <2>2, WritesStamp
  <2>4. ASSUME NEW req, NEW next \in Cursors, NEW k, Owed(req, next, k)
        PROVE  Owed(req, next, k)'
    BY <2>1, <2>2, <2>4, OwedStays
  <2> QED BY <2>2, <2>3, <2>4, WalkIsKept
<1>5. CASE Touch
  <2>1. PICK i \in In("openLoops", DOMAIN stamp) : Write(i)
    BY <1>5 DEF Touch
  <2>2. i \in DOMAIN Items \ Handoffs
    BY DEF In, WalksHold, Stamped, ResumeAssumption
  <2>3. Stamped' /\ UNCHANGED walk /\ steady' = FALSE
    BY <1>5, <2>1, <2>2, WritesStamp DEF Touch, WalksHold
  <2> QED BY <2>3, WalkIsKept
<1>6. CASE Supersede
  <2>1. PICK i \in In("currentFacts", DOMAIN stamp) :
           stamp' = [j \in DOMAIN stamp \ {i} |-> stamp[j]]
    BY <1>6 DEF Supersede
  <2>2. DOMAIN stamp' = DOMAIN stamp \ {i} /\ \A j \in DOMAIN stamp' : stamp'[j] = stamp[j]
    BY <2>1
  <2>3. stamp' \in [DOMAIN stamp' -> Nat]
    BY <2>1 DEF WalksHold, Stamped
  <2>4. Stamped' /\ UNCHANGED walk /\ steady' = FALSE
    BY <1>6, <2>2, <2>3 DEF Supersede, WalksHold, Stamped
  <2> QED BY <2>4, WalkIsKept
<1>7. CASE UNCHANGED resumeVars
  <2>1. Stamped' /\ UNCHANGED <<stamp, walk, steady>>
    BY <1>7 DEF WalksHold, Stamped, resumeVars
  <2>2. ASSUME NEW req, NEW next, NEW i, Owed(req, next, i) PROVE Owed(req, next, i)'
    BY <2>1, <2>2 DEF Owed, Listed, Rank, Before
  <2> QED BY <2>1, <2>2, WalkIsKept
<1> QED BY <1>1, <1>2, <1>3, <1>4, <1>5, <1>6, <1>7 DEF ResumeNext

(* Every page of every walk accounts for what it leaves out, every walk comes to *)
(* all that was there when it began, and it shows nothing but what its names and *)
(* its reader may see.                                                           *)
THEOREM WalksStaySound == ResumeAssumption => (ResumeSpec => []ResumeIsSound)
<1> SUFFICES ASSUME ResumeAssumption PROVE ResumeSpec => []ResumeIsSound
  OBVIOUS
<1>1. ResumeInit => WalksHold
  BY ResumeStarts
<1>2. WalksHold /\ [ResumeNext]_resumeVars => WalksHold'
  BY ResumeSteps
<1>3. WalksHold => ResumeIsSound
  BY WalksAreSound
<1> QED BY <1>1, <1>2, <1>3, PTL DEF ResumeSpec
=============================================================================
