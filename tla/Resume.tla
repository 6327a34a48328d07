-------------------------------- MODULE Resume --------------------------------
(***************************************************************************)
(* resume and begin_session as a reader meets them: a scope resolved from  *)
(* names, sections filled up to a budget, the coverage that accounts for   *)
(* what is left out, the cursor that leads to the rest, and the            *)
(* acknowledgement of handoffs.                                            *)
(*                                                                         *)
(* Every call is synchronous.  Between two pages of one walk the sections  *)
(* change: messages arrive, loops are updated, facts are superseded.  Of   *)
(* the sections, the three whose length is not fixed are modelled; what    *)
(* the others cost is one more item at the front.                          *)
(***************************************************************************)
EXTENDS Integers, FiniteSets, Functions

CONSTANTS
    Items,      \* item -> [section, tenant, to, key]; to = Anyone: a handoff
    Cost,       \* what some items take of a budget together
    Came,       \* orders the handoffs may have come in: handoff -> its place
    Directory,  \* name -> entities of the tenant it names, or is an alias of
    Scopes,     \* [project, task] of names, or NoName
    Callers,    \* name a caller gives -> its canonical agent
    Requests,   \* sets of sections
    Budgets,
    Hidden,     \* numbers of values version 3 may suppress
    MaxChanges

VARIABLES
    stamp,      \* item that is there, of all readers -> when it was written last
    gone,       \* the facts that are superseded
    hidden,     \* how many facts are suppressed
    acks,       \* [handoff, agent]
    named,      \* history: the handoffs the last call acknowledged, or could not
    walk,       \* the reader's walk: its request, what it got, its last page
    changes,
    steady      \* history: nothing but arrivals since the walk began

resumeVars == <<stamp, gone, hidden, acks, named, walk, changes, steady>>

Tenant == 1             \* of the server's request context
NoName == "no name"
NoId == "no entity"
Anyone == "anyone"
Place == [openLoops |-> 1, messages |-> 2, currentFacts |-> 3]
Sections == DOMAIN Place
NoCursor == [s |-> "end", o |-> 0]
Idle == [on |-> FALSE]
Silent == [ids |-> {}, agent |-> NoName, ok |-> TRUE]

(* Nothing in the program writes a handoff: the rows are an older binary's. *)
Handoffs == {i \in DOMAIN Items : Items[i].to = Anyone}

ResumeAssumption ==
    /\ IsFiniteSet(DOMAIN Items)
    /\ \A i \in DOMAIN Items : Items[i].section \in Sections
    /\ \A i \in Handoffs : Items[i].section = "messages"
    /\ Came \subseteq Injection(Handoffs, Nat)
    /\ Cost \in [SUBSET DOMAIN Items -> Nat]
    /\ \A some, others \in SUBSET DOMAIN Items :
          some \intersect others = {} => Cost[some \union others] = Cost[some] + Cost[others]
    /\ Budgets \subseteq Nat /\ Hidden \subseteq Nat /\ Requests \subseteq SUBSET Sections
    /\ \A name \in DOMAIN Directory : IsFiniteSet(Directory[name])
    /\ \A ref \in Scopes : {ref.project, ref.task} \subseteq DOMAIN Directory \union {NoName}

ResumeInit ==
    /\ stamp \in Came
    /\ gone = {} /\ hidden \in Hidden
    /\ acks = {} /\ named = Silent /\ walk = Idle /\ changes = 0 /\ steady = TRUE

----------------------------------------------------------------------------
(* resolveEntityCandidatesExact: by canonical name or alias, nothing similar *)
Candidates(name) == Directory[name]

(* resolveRef: one entity, or none *)
Entity(name) ==
    IF name # NoName /\ Cardinality(Candidates(name)) = 1
    THEN CHOOSE id \in Candidates(name) : TRUE ELSE NoId

(* resolveScope: no key at all when one of the names has no entity *)
Key(ref) ==
    IF \E name \in {ref.project, ref.task} \ {NoName} : Entity(name) = NoId THEN {}
    ELSE {<<Entity(ref.project), Entity(ref.task)>>}

(* the rows a reader's section has, of its own tenant, scope and mailbox *)
Selects(item, agent, key) ==
    LET row == Items[item]
    IN /\ row.tenant = Tenant
       /\ IF row.section # "messages" THEN row.key = key
          ELSE IF row.to = Anyone THEN row.key[1] = key[1] /\ key[1] # NoId
          ELSE row.to = agent /\ \E i \in 1..2 : row.key[i] = key[i] /\ key[i] # NoId

Listed(s, req) ==
    {i \in DOMAIN stamp : Items[i].section = s /\ Selects(i, req.agent, req.key)}

(* the order of a section: handoffs, then the rest, each from the newest on *)
Before(i, j) ==
    \/ i \in Handoffs /\ j \notin Handoffs
    \/ (i \in Handoffs <=> j \in Handoffs) /\ stamp[i] > stamp[j]

Rank(i, items) == Cardinality({j \in items : Before(j, i)})

In(s, items) == {i \in items : Items[i].section = s}

----------------------------------------------------------------------------
(* One page.  What is due on it are the sections asked for, from the cursor on, *)
(* which counts the items to skip in its own.                                   *)
Passed(s, cursor) == cursor # NoCursor /\ Place[s] < Place[cursor.s]

Start(s, cursor, items) ==
    IF s # cursor.s THEN 0
    ELSE IF cursor.o < Cardinality(items) THEN cursor.o ELSE Cardinality(items)

Slice(s, req, cursor) ==
    LET items == Listed(s, req)
        start == Start(s, cursor, items)
    IN {i \in items : Rank(i, items) >= start}

Due(req, cursor) == UNION {Slice(s, req, cursor) : s \in {s \in req.sections : ~Passed(s, cursor)}}

(* the items of a page up to this one, section after section *)
UpTo(i, due) ==
    {j \in due : \/ Place[Items[j].section] < Place[Items[i].section]
                 \/ Items[j].section = Items[i].section /\ (j = i \/ Before(j, i))}

(* a mutant of Admitted: each section has the whole budget *)
AdmittedBySection(due, budget) ==
    {i \in due : Cost[In(Items[i].section, UpTo(i, due))] <= budget}

(* Each is taken while the total fits; the first one that does not is where   *)
(* the page stops, for its section and for those behind it.                   *)
Admitted(due, budget) == {i \in due : Cost[UpTo(i, due)] <= budget}

(* the sections of which something is left for a later page *)
Cut(due, items) == {s \in Sections : In(s, due) # In(s, items)}

(* what a page says of a section *)
Coverage(req, cursor, s, items, cut) ==
    LET rows == Cardinality(Listed(s, req))
        missing == IF s = "currentFacts" THEN hidden ELSE 0
        included == Cardinality(In(s, items))
        open == s \in req.sections /\ ~Passed(s, cursor)
    IN [included |-> included, total |-> rows + missing,
        complete |-> open /\ included = rows /\ missing = 0,
        why |-> IF s \notin req.sections THEN "not-requested"
                ELSE IF Passed(s, cursor) THEN "cursor"
                ELSE IF s \in cut THEN "budget"
                ELSE IF missing > 0 THEN "suppressed"
                ELSE IF included = rows THEN "none" ELSE "cursor"]

(* the place to go on at: in the first section that was cut *)
GoOn(req, cursor, items, cut) ==
    LET s == CHOOSE s \in cut : \A t \in cut : Place[s] <= Place[t]
    IN IF cut = {} THEN NoCursor
       ELSE [s |-> s, o |-> Start(s, cursor, Listed(s, req)) + Cardinality(In(s, items))]

Page(req, cursor) ==
    LET due == Due(req, cursor)
        items == Admitted(due, req.budget)
        cut == Cut(due, items)
    IN [items |-> items, next |-> GoOn(req, cursor, items, cut),
        coverage |-> [s \in Sections |-> Coverage(req, cursor, s, items, cut)]]

(* resolveCanonicalAgent *)
Reader(caller) == Callers[caller]

(* resume: of a scope without a key there is nothing to read, and it says so.  *)
(* One walk is followed in a behaviour, whenever it begins: reading changes    *)
(* nothing a second one could see.                                             *)
Begin(caller, ref, sections, budget) ==
    walk = Idle /\
    IF Key(ref) = {} THEN walk' = Idle /\ UNCHANGED steady
    ELSE LET req == [agent |-> Reader(caller), key |-> CHOOSE k \in Key(ref) : TRUE,
                     sections |-> sections, budget |-> budget]
             page == Page(req, NoCursor)
         IN /\ walk' = [on |-> TRUE, ref |-> ref, req |-> req, cursor |-> NoCursor,
                        page |-> page, got |-> page.items,
                        first |-> UNION {Listed(s, req) : s \in sections}]
            /\ steady' = TRUE

Resume ==
    /\ \E caller \in DOMAIN Callers, ref \in Scopes, sections \in Requests, budget \in Budgets :
          Begin(caller, ref, sections, budget)
    /\ named' = Silent
    /\ UNCHANGED <<stamp, gone, hidden, acks, changes>>

(* the same request again, with the cursor of its last page *)
Follow ==
    /\ walk.on /\ walk.page.next # NoCursor
    /\ LET page == Page(walk.req, walk.page.next)
       IN walk' = [walk EXCEPT !.cursor = walk.page.next, !.page = page,
                               !.got = @ \union page.items]
    /\ named' = Silent
    /\ UNCHANGED <<stamp, gone, hidden, acks, changes, steady>>

(* a mutant of Acked: those of the batch that exist *)
AckedThatExist(ids, agent) ==
    {[handoff |-> h, agent |-> agent] : h \in {i \in ids : Items[i].tenant = Tenant}}

(* ackHandoffs: each must be a handoff of the tenant, or none is acknowledged *)
Acked(ids, agent) ==
    IF \A h \in ids : Items[h].tenant = Tenant
    THEN {[handoff |-> h, agent |-> agent] : h \in ids} ELSE {}

(* performBeginSession: a refused acknowledgement ends the call *)
BeginSession ==
    /\ \E caller \in DOMAIN Callers, ref \in Scopes, ids \in (SUBSET Handoffs) \ {{}},
          budget \in Budgets :
          LET ok == \A h \in ids : Items[h].tenant = Tenant
          IN /\ acks' = acks \union Acked(ids, Reader(caller))
             /\ named' = [ids |-> ids, agent |-> Reader(caller), ok |-> ok]
             /\ IF ok THEN Begin(caller, ref, Sections, budget)
                ELSE walk' = Idle /\ UNCHANGED steady
    /\ UNCHANGED <<stamp, gone, hidden, changes>>

(* fetchResourceByUri: the handle of a message binds scope and recipient, that *)
(* of a handoff the project alone                                              *)
Fetches(key, agent, item) ==
    LET row == Items[item]
    IN /\ row.section = "messages" /\ row.tenant = Tenant
       /\ IF row.to = Anyone THEN key[1] # NoId /\ row.key[1] = key[1]
          ELSE row.to = agent /\ \E i \in 1..2 : key[i] # NoId /\ row.key[i] = key[i]

----------------------------------------------------------------------------
(* What others do to the sections *)
Change == changes < MaxChanges /\ changes' = changes + 1 /\ named' = Silent

(* the latest of its section; the numbers mean nothing but the order *)
Write(i) ==
    LET others == In(Items[i].section, DOMAIN stamp) \ {i}
        latest == CHOOSE n \in {0} \union {stamp[j] : j \in others} :
                      \A j \in others : stamp[j] <= n
    IN stamp' = [j \in DOMAIN stamp \union {i} |-> IF j = i THEN latest + 1 ELSE stamp[j]]

(* a message, a loop or a fact that is new *)
Arrive ==
    /\ Change
    /\ \E i \in DOMAIN Items \ (Handoffs \union DOMAIN stamp \union gone) : Write(i)
    /\ UNCHANGED <<gone, hidden, acks, walk, steady>>

(* A loop that is updated moves to the front. *)
Touch ==
    /\ Change
    /\ \E i \in In("openLoops", DOMAIN stamp) : Write(i)
    /\ steady' = FALSE
    /\ UNCHANGED <<gone, hidden, acks, walk>>

(* A superseded fact is not current any more. *)
Supersede ==
    /\ Change
    /\ \E i \in In("currentFacts", DOMAIN stamp) :
          /\ stamp' = [j \in DOMAIN stamp \ {i} |-> stamp[j]]
          /\ gone' = gone \union {i}
    /\ steady' = FALSE
    /\ UNCHANGED <<hidden, acks, walk>>

ResumeNext == Resume \/ Follow \/ BeginSession \/ Arrive \/ Touch \/ Supersede

ResumeSpec == ResumeInit /\ [][ResumeNext]_resumeVars

----------------------------------------------------------------------------
(* A page is within its budget, counts what it holds, never claims to be       *)
(* complete when something is left out, and names one place to go on at, behind *)
(* which it has shown nothing.                                                 *)
CoverageIsClosed ==
    walk.on =>
        LET page == walk.page IN
        /\ Cost[page.items] <= walk.req.budget
        /\ \A s \in Sections : LET part == page.coverage[s] IN
              /\ part.included = Cardinality(In(s, page.items))
              /\ part.complete => part.included = part.total /\ part.why = "none"
              /\ part.complete \/ part.why # "none"
              /\ part.why = "budget" => /\ page.next # NoCursor
                                        /\ Place[s] >= Place[page.next.s]
              /\ page.next # NoCursor /\ Place[s] > Place[page.next.s] => part.included = 0

(* A walk that has come to its end has shown every item that was there when it *)
(* began, if only new items arrived since; and with items that each fit the    *)
(* budget, each page of it leads further.                                      *)
WalkArrives ==
    walk.on =>
        /\ walk.page.next = NoCursor /\ steady => walk.first \subseteq walk.got
        /\ (\A i \in DOMAIN Items : Cost[{i}] <= walk.req.budget) =>
              walk.page.next # walk.cursor \/ walk.cursor = NoCursor

(* What a walk shows is of the tenant, of the scope its names stand for, and   *)
(* its messages are the reader's own, so each can be fetched by its handle.    *)
WalkStaysInside ==
    walk.on =>
        /\ \A name \in {walk.ref.project, walk.ref.task} \ {NoName} :
              Cardinality(Directory[name]) = 1 /\ Directory[name] \subseteq Range(walk.req.key)
        /\ \A i \in walk.got : Items[i].section = "messages" =>
              Fetches(walk.req.key, walk.req.agent, i)

ResumeIsSound == CoverageIsClosed /\ WalkArrives /\ WalkStaysInside

(* Acknowledgements stay, and only the agent that names a handoff gets one:    *)
(* all it names in one call, or, when one of them is not there, none.          *)
ResumeStep ==
    /\ acks \subseteq acks'
    /\ LET mine == {[handoff |-> h, agent |-> named'.agent] : h \in named'.ids}
       IN /\ acks' \ acks \subseteq mine
          /\ IF named'.ok THEN mine \subseteq acks' ELSE acks' = acks

(* The end of a walk: what was there when it began, and is there still, was shown. *)
RemainderFollows ==
    walk.on /\ walk.page.next = NoCursor =>
        \A i \in walk.first : i \in DOMAIN stamp => i \in walk.got
=============================================================================
