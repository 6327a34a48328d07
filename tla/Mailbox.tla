------------------------------- MODULE Mailbox -------------------------------
(***************************************************************************)
(* Messages between agents: the ai_messages table of the memory manager    *)
(* (unified-server/memory/index.ts) and the tools of the server that send, *)
(* push, page, read and archive them (unified-neural-mcp-server.ts).       *)
(*                                                                         *)
(* The server is one JavaScript process.  A send awaits between storing a  *)
(* message, pushing it to the recipient's sockets and recording that it    *)
(* was pushed, so sends interleave with everything.  A read runs to its    *)
(* answer without an await, but its UPDATEs are separate transactions: the *)
(* process can die between them.  A nullable timestamp column is the set   *)
(* of rows where it is not null.                                           *)
(***************************************************************************)
EXTENDS Integers, FiniteSets

CONSTANTS
    Senders,      \* exact agent identifiers of one tenant: those that send,
    Readers,      \* and those that have an inbox
    Ids,          \* message identifiers: random, so their order means nothing
    None,
    TicksPerDay,  \* resolution of the clock
    Moments,      \* readings of the clock, which starts at 0
    PageSize,     \* messages per page
    Corrections,  \* a subset of BOOLEAN: whether sends may supersede
    Extras,       \* a subset of BOOLEAN: whether reads include hidden messages
    Sinces,       \* values of the filter since, None or a tick
    Ages,         \* values of olderThanDays, in days
    Tools,        \* the reading tools agents use besides their walks
    Sessions      \* the ways an agent pages its inbox: "drain", "browse"

Agents == Senders \cup Readers

ASSUME MailboxAssumption ==
    /\ Ids \subseteq Nat /\ None \notin Ids \cup Agents \cup Nat
    /\ TicksPerDay \in Nat \ {0} /\ Moments \subseteq Nat /\ PageSize \in Nat \ {0}
    /\ Corrections \subseteq BOOLEAN /\ Extras \subseteq BOOLEAN
    /\ Sinces \subseteq Nat \cup {None}
    /\ Ages \subseteq Nat /\ Sessions \subseteq {"drain", "browse"}
    /\ Tools \subseteq {"page", "detail", "mark", "archive"}

VARIABLES
    now,         \* the clock
    stored,      \* ids of the rows of ai_messages
    row,         \* from_agent, to_agent and created_at of each row
    delivered,   \* rows with delivered_at
    read,        \* rows with read_at
    archived,    \* rows with archived_at
    replacedBy,  \* superseded_by, on the superseded rows
    listening,   \* agents the message hub has an open, entitled socket of
    sends,       \* per sender, its send_ai_message call in progress
    call,        \* the reading call between its UPDATEs, or NoCall
    session,     \* per agent, its walk through the pages of its inbox
    offered      \* history: rows pushed to, selected for or named by their recipient

vars == <<now, stored, row, delivered, read, archived, replacedBy, listening,
          sends, call, session, offered>>

-----------------------------------------------------------------------------
(* The rows a query selects.                                               *)

Rows == [from : Agents, to : Agents, at : Nat]

Mail(a) == {m \in stored : row[m].to = a}
Superseded == DOMAIN replacedBy
Unread(a) == Mail(a) \ (read \cup archived \cup Superseded)

Day(t) == t \div TicksPerDay

(* created_at is CURRENT_TIMESTAMP, "2026-01-31 10:00:00"; the bound is an *)
(* ISO string, "2026-01-31T09:00:00.000Z".  SQLite compares the texts, and *)
(* a blank sorts before a T: every row of the bound's day comes first.     *)
SortsBefore(at, bound) == Day(at) <= Day(bound)

Filters == [unread : BOOLEAN, archived : Extras, superseded : Extras,
            from : Senders \cup {None}, since : Sinces]
UnreadFilter == [unread |-> TRUE, archived |-> FALSE, superseded |-> FALSE,
                 from |-> None, since |-> None]

Matching(a, f) ==
    {m \in Mail(a) : /\ f.archived \/ m \notin archived
                     /\ f.superseded \/ m \notin Superseded
                     /\ f.unread => m \notin read
                     /\ f.from = None \/ row[m].from = f.from
                     /\ f.since = None \/ ~SortsBefore(row[m].at, f.since)}

(* ORDER BY created_at DESC, id DESC LIMIT PageSize OFFSET offset. *)
Newer(m, n) == row[m].at > row[n].at \/ (row[m].at = row[n].at /\ m > n)
Page(S, offset) ==
    {m \in S : Cardinality({n \in S : Newer(n, m)})
                   \in offset .. (offset + PageSize - 1)}

-----------------------------------------------------------------------------
(* Sending.                                                                *)

Idle == [todo |-> {}, fixes |-> {}, id |-> None, stage |-> "idle"]

(* The loop over the recipients goes on, or the call returns. *)
NextRecipient(job) == IF job.todo = {} THEN Idle
                      ELSE [job EXCEPT !.id = None, !.stage = "store"]

NoCall == [reader |-> None, ids |-> {}, mark |-> FALSE, walks |-> FALSE, total |-> 0]
NoWalk == [kind |-> "none", offset |-> 0, got |-> {}, due |-> {}]

(* JavaScript runs one synchronous stretch at a time. *)
Quiet == call = NoCall

(* Mutants of Corrected: the sender is not compared; a row that was        *)
(* superseded is superseded again.                                         *)
CorrectsAnySender(fixes, from, to) ==
    {m \in fixes \cap stored : row[m].to = to /\ m \notin Superseded}
CorrectsAgain(fixes, from, to) ==
    {m \in fixes \cap stored : row[m].from = from /\ row[m].to = to}

(* What a correction hides: rows of the same sender and recipient that     *)
(* nothing has superseded yet.                                             *)
Corrected(fixes, from, to) ==
    {m \in fixes \cap stored :
        row[m].from = from /\ row[m].to = to /\ m \notin Superseded}

(* Mutant of Insert: a correction is recorded, its own row is not. *)
InsertLost(id, from, to, fixes) ==
    LET hidden == Corrected(fixes, from, to) IN
    /\ stored' = IF hidden = {} THEN stored \cup {id} ELSE stored
    /\ row' = [m \in stored' |-> IF m = id THEN [from |-> from, to |-> to, at |-> now]
                                 ELSE row[m]]
    /\ replacedBy' = [m \in Superseded \cup hidden |->
                         IF m \in hidden THEN id ELSE replacedBy[m]]

Insert(id, from, to, fixes) ==
    /\ stored' = stored \cup {id}
    /\ row' = [m \in stored' |-> IF m = id THEN [from |-> from, to |-> to, at |-> now]
                                 ELSE row[m]]
    /\ replacedBy' = [m \in Superseded \cup Corrected(fixes, from, to) |->
                         IF m \in Corrected(fixes, from, to) THEN id ELSE replacedBy[m]]

BeginSend(s, recipients, fixes) ==
    /\ Quiet /\ sends[s] = Idle /\ recipients # {}
    /\ sends' = [sends EXCEPT ![s] = [todo |-> recipients, fixes |-> fixes,
                                      id |-> None, stage |-> "store"]]
    /\ UNCHANGED <<now, stored, row, delivered, read, archived, replacedBy,
                   listening, call, session, offered>>

StoreMessage(s, to, id) ==
    /\ Quiet /\ sends[s].stage = "store" /\ to \in sends[s].todo
    /\ Insert(id, s, to, sends[s].fixes)
    /\ sends' = [sends EXCEPT ![s].todo = @ \ {to}, ![s].id = id, ![s].stage = "push"]
    /\ UNCHANGED <<now, delivered, read, archived, listening, call, session, offered>>

(* storeMessage throws, on a locked database say: the recipients left get nothing. *)
StoreFails(s) ==
    /\ Quiet /\ sends[s].stage = "store"
    /\ sends' = [sends EXCEPT ![s] = Idle]
    /\ UNCHANGED <<now, stored, row, delivered, read, archived, replacedBy,
                   listening, call, session, offered>>

(* Only a positive count of notified sockets leads to a recorded delivery. *)
Pushes(id) == row[id].to \in listening

Push(s) ==
    LET id == sends[s].id IN
    /\ Quiet /\ sends[s].stage = "push"
    /\ IF Pushes(id)
       THEN sends' = [sends EXCEPT ![s].stage = "mark"]
       ELSE sends' = [sends EXCEPT ![s] = NextRecipient(@)]
    /\ offered' = IF row[id].to \in listening THEN offered \cup {id} ELSE offered
    /\ UNCHANGED <<now, stored, row, delivered, read, archived, replacedBy,
                   listening, call, session>>

(* updateMessageStatus; an error there is caught and the row stays queued. *)
MarkPushed(s, works) ==
    /\ Quiet /\ sends[s].stage = "mark"
    /\ delivered' = IF works THEN delivered \cup {sends[s].id} ELSE delivered
    /\ sends' = [sends EXCEPT ![s] = NextRecipient(@)]
    /\ UNCHANGED <<now, stored, row, read, archived, replacedBy, listening, call,
                   session, offered>>

(* POST /ai-message stores and answers "queued": nothing is pushed. *)
PostMessage(s, to, id) ==
    /\ Quiet /\ Insert(id, s, to, {})
    /\ UNCHANGED <<now, delivered, read, archived, listening, sends, call, session,
                   offered>>

-----------------------------------------------------------------------------
(* Reading.                                                                *)

(* Mutant of Select: an answer that will be marked read skips delivered_at. *)
SelectsUndelivered(a, ids, mark, walks, total) ==
    /\ delivered' = IF mark THEN delivered ELSE delivered \cup ids
    /\ offered' = offered \cup ids
    /\ call' = [reader |-> a, ids |-> ids, mark |-> mark, walks |-> walks, total |-> total]
    /\ UNCHANGED <<now, stored, row, read, archived, replacedBy, listening, sends, session>>

(* Select the rows of an answer and record them as delivered.  The second  *)
(* UPDATE and the answer follow in FinishRead.                             *)
Select(a, ids, mark, walks, total) ==
    /\ delivered' = delivered \cup ids
    /\ offered' = offered \cup ids
    /\ call' = [reader |-> a, ids |-> ids, mark |-> mark, walks |-> walks, total |-> total]
    /\ UNCHANGED <<now, stored, row, read, archived, replacedBy, listening, sends, session>>

GetPage(a, filter, offset, mark) ==
    /\ Quiet
    /\ Select(a, Page(Matching(a, filter), offset), mark, FALSE, 0)

GetDetail(a, m, mark) ==
    /\ Quiet /\ m \in Mail(a)
    /\ Select(a, {m}, mark, FALSE, 0)

(* An agent starts to page through its unread messages; a drain marks each *)
(* page as read, a browse does not.                                        *)
StartWalk(a, kind) ==
    /\ Quiet /\ session[a].kind \notin Sessions
    /\ session' = [session EXCEPT ![a] = [kind |-> kind, offset |-> 0, got |-> {},
                                          due |-> Unread(a)]]
    /\ UNCHANGED <<now, stored, row, delivered, read, archived, replacedBy, listening,
                   sends, call, offered>>

WalkPage(a) ==
    LET S == Matching(a, UnreadFilter) IN
    /\ Quiet /\ session[a].kind \in Sessions
    /\ Select(a, Page(S, session[a].offset), session[a].kind = "drain", TRUE, Cardinality(S))

(* Mutants of NextOffset and HasMore: a page that was marked read still    *)
(* advances the offset; the messages are counted after they were marked.   *)
AlwaysAdvances(kind, offset, returned) == offset + returned
CountedAfterwards(kind, offset, returned, total) ==
    IF kind = "drain" THEN total - returned > returned ELSE offset + returned < total

(* hasMore and nextOffset.  A page that was marked read leaves the result  *)
(* set, so the next one starts at 0 again.                                 *)
HasMore(kind, offset, returned, total) ==
    IF kind = "drain" THEN total > returned ELSE offset + returned < total
NextOffset(kind, offset, returned) ==
    IF kind = "drain" THEN 0 ELSE offset + returned

Walked(w, ids, total) ==
    LET n == Cardinality(ids) IN
    IF HasMore(w.kind, w.offset, n, total)
    THEN [w EXCEPT !.offset = NextOffset(w.kind, w.offset, n), !.got = @ \cup ids]
    ELSE [w EXCEPT !.kind = "ended", !.got = @ \cup ids]

FinishRead ==
    /\ call # NoCall
    /\ read' = IF call.mark THEN read \cup call.ids ELSE read
    /\ session' = IF call.walks
                  THEN [session EXCEPT ![call.reader] = Walked(@, call.ids, call.total)]
                  ELSE session
    /\ call' = NoCall
    /\ UNCHANGED <<now, stored, row, delivered, archived, replacedBy, listening, sends,
                   offered>>

-----------------------------------------------------------------------------
(* Acknowledging and archiving.                                            *)

(* One UPDATE sets both columns; no ids means every unread row. *)
MarkMessagesRead(a, ids) ==
    LET marked == (IF ids = {} THEN Mail(a) ELSE Mail(a) \cap ids) \ read IN
    /\ Quiet
    /\ read' = read \cup marked
    /\ delivered' = delivered \cup marked
    /\ offered' = offered \cup marked
    /\ UNCHANGED <<now, stored, row, archived, replacedBy, listening, sends, call, session>>

(* The scope of an archive: ids, or the age in days when there are none.   *)
ByAge(a, days) == {m \in Mail(a) : SortsBefore(row[m].at, now - days * TicksPerDay)}

ArchiveMessages(a, scope, mark) ==
    LET target == (Mail(a) \cap scope) \ archived
        marked == IF mark THEN target \ read ELSE {}
    IN
    /\ Quiet
    /\ archived' = archived \cup target
    /\ read' = read \cup marked
    /\ delivered' = delivered \cup marked
    /\ offered' = offered \cup marked
    /\ UNCHANGED <<now, stored, row, replacedBy, listening, sends, call, session>>

(* The compaction pass archives what was read at least a day ago, whatever *)
(* it is asked; it compares two texts of SQLite's own form.                *)
CompactMessages(days) ==
    LET age == IF days < 1 THEN 1 ELSE days IN
    /\ Quiet
    /\ archived' = archived \cup {m \in read : row[m].at < now - age * TicksPerDay}
    /\ UNCHANGED <<now, stored, row, delivered, read, replacedBy, listening, sends, call,
                   session, offered>>

-----------------------------------------------------------------------------
(* The environment.                                                        *)

Tick == /\ \E t \in Moments : t > now /\ now' = t
        /\ UNCHANGED <<stored, row, delivered, read, archived, replacedBy, listening,
                       sends, call, session, offered>>

HubChanges(a) ==
    /\ listening' = IF a \in listening THEN listening \ {a} ELSE listening \cup {a}
    /\ UNCHANGED <<now, stored, row, delivered, read, archived, replacedBy, sends, call,
                   session, offered>>

(* The process dies and starts again: the rows stay, every call is lost. *)
Crash ==
    /\ listening' = {} /\ call' = NoCall
    /\ sends' = [s \in Agents |-> Idle]
    /\ session' = [a \in Agents |-> NoWalk]
    /\ UNCHANGED <<now, stored, row, delivered, read, archived, replacedBy, offered>>

Init ==
    /\ now = 0 /\ stored = {} /\ row = [m \in {} |-> None]
    /\ delivered = {} /\ read = {} /\ archived = {}
    /\ replacedBy = [m \in {} |-> None]
    /\ listening = {} /\ call = NoCall /\ offered = {}
    /\ sends = [s \in Agents |-> Idle]
    /\ session = [a \in Agents |-> NoWalk]

Send(s) ==
    \/ \E recipients \in SUBSET Readers, fixes \in SUBSET stored :
           /\ (fixes # {}) \in Corrections
           /\ BeginSend(s, recipients, fixes)
    \/ \E to \in Readers, id \in Ids \ stored : StoreMessage(s, to, id) \/ PostMessage(s, to, id)
    \/ StoreFails(s) \/ Push(s)
    \/ \E works \in BOOLEAN : MarkPushed(s, works)

Receive(a) ==
    \/ "page" \in Tools /\ \E filter \in Filters, offset \in 0 .. Cardinality(stored), mark \in BOOLEAN :
           GetPage(a, filter, offset, mark)
    \/ "detail" \in Tools /\ \E m \in stored, mark \in BOOLEAN : GetDetail(a, m, mark)
    \/ "mark" \in Tools /\ \E ids \in SUBSET stored : MarkMessagesRead(a, ids)
    \/ "archive" \in Tools /\ \E mark \in BOOLEAN :
           \/ \E ids \in (SUBSET stored) \ {{}} : ArchiveMessages(a, ids, mark)
           \/ \E days \in Ages : ArchiveMessages(a, ByAge(a, days), mark)
    \/ \E kind \in Sessions : StartWalk(a, kind)
    \/ WalkPage(a)

Next == \/ \E a \in Senders : Send(a)
        \/ \E a \in Readers : Receive(a) \/ HubChanges(a)
        \/ FinishRead \/ Tick \/ Crash
        \/ \E days \in Ages : CompactMessages(days)

Spec == Init /\ [][Next]_vars

-----------------------------------------------------------------------------
(* Properties.                                                             *)

(* Types of the rows and of the calls in progress. *)
TypeOK ==
    /\ now \in Nat /\ stored \subseteq Ids /\ row \in [stored -> Rows]
    /\ delivered \subseteq stored /\ read \subseteq stored
    /\ archived \subseteq stored /\ offered \subseteq stored
    /\ Superseded \subseteq stored /\ replacedBy \in [Superseded -> stored]
    /\ listening \subseteq Agents
    /\ sends \in [Agents -> [todo : SUBSET Agents, fixes : SUBSET Ids,
                             id : stored \cup {None},
                             stage : {"idle", "store", "push", "mark"}]]
    /\ \A s \in Agents : sends[s].stage \in {"push", "mark"} => sends[s].id \in stored
    /\ call \in [reader : Agents \cup {None}, ids : SUBSET stored, mark : BOOLEAN,
                 walks : BOOLEAN, total : Nat]
    /\ session \in [Agents -> [kind : {"none", "ended", "drain", "browse"},
                               offset : Nat, got : SUBSET Ids, due : SUBSET Ids]]

(* A correction stays in the mailbox of what it corrects and comes from    *)
(* the same sender; corrections never form a cycle, so that every hidden   *)
(* message leads to one that nothing has replaced.                         *)
CorrectionsAreSound ==
    /\ \A m \in Superseded : /\ row[replacedBy[m]].from = row[m].from
                             /\ row[replacedBy[m]].to = row[m].to
    /\ \A S \in (SUBSET Superseded) \ {{}} : \E m \in S : replacedBy[m] \notin S

(* Of several sends that correct one message, the first one stands. *)
FirstCorrectionStands ==
    [][\A m \in Superseded : m \in DOMAIN replacedBy' /\ replacedBy'[m] = replacedBy[m]]_vars

(* What an agent has seen, or no longer has to see, once its walk ended. *)
Covered(a) == session[a].got \cup read \cup archived \cup Superseded

(* An agent that follows hasMore and nextOffset to the end, while messages *)
(* arrive, are corrected, read and archived, has been given every message  *)
(* that was unread when it started, unless something else settled it.  It  *)
(* holds of a drain; a browse reads messages in detail between its pages.  *)
WalkIsComplete ==
    \A a \in Agents : session[a].kind = "ended" => session[a].due \subseteq Covered(a)

(* Of each message its recipient can rely on the life of Inbox, in which   *)
(* there are no calls, sockets, pages and crashes: a row's columns only    *)
(* fill up in their order (what was read was delivered, and what was       *)
(* delivered was offered, wherever the process dies), a step fills those   *)
(* of one mailbox, and an unread row is hidden only by its recipient or by *)
(* its sender.                                                             *)
Envelope == [m \in stored |-> [from |-> row[m].from, to |-> row[m].to]]
Marks == [m \in stored |-> (IF m \in offered THEN {"offered"} ELSE {})
                             \cup (IF m \in delivered THEN {"delivered"} ELSE {})
                             \cup (IF m \in read THEN {"read"} ELSE {})]
Letters == INSTANCE Inbox WITH Message <- Ids, Agent <- Agents,
                               sent <- stored, envelope <- Envelope, marks <- Marks,
                               aside <- archived, corrected <- replacedBy

InboxIsImplemented == Letters!InboxSpec

(* A drain goes on only after a page full of messages that nobody had read *)
(* before, however many calls came between: with each page there is less   *)
(* to ask for, which is why it ends once nothing new arrives.              *)
PageSettled(a) == call.walks /\ call.reader = a /\ call' = NoCall
DrainAdvances ==
    [][\A a \in Agents : PageSettled(a) /\ session'[a].kind = "drain"
          => Cardinality(read' \ read) = PageSize]_vars

(* The event loop serves every request in turn, and an agent that drains   *)
(* asks for the next page while hasMore is true.                           *)
FairSpec == Spec /\ WF_vars(FinishRead)
                 /\ \A a \in Agents : SF_vars(session[a].kind = "drain" /\ WalkPage(a))

(* A walk that marks what it returns reaches a page after which there is   *)
(* nothing more, or dies with the process.                                 *)
DrainEnds == \A a \in Agents : session[a].kind = "drain" ~> session[a].kind # "drain"
=============================================================================
