---------------------------- MODULE Mailbox_proof ----------------------------
(***************************************************************************)
(* Proofs about Mailbox, for every value of its constants.                 *)
(***************************************************************************)
EXTENDS Mailbox, FiniteSetTheorems, WellFoundedInduction, TLAPS

(* Types, and that the table is finite: the counts of a page are naturals. *)
Typed == TypeOK /\ IsFiniteSet(stored)

Jobs == [todo : SUBSET Agents, fixes : SUBSET Ids, id : stored \cup {None},
         stage : {"idle", "store", "push", "mark"}]
Walks == [kind : {"none", "ended", "drain", "browse"}, offset : Nat,
          got : SUBSET Ids, due : SUBSET Ids]
Calls == [reader : Agents \cup {None}, ids : SUBSET stored, mark : BOOLEAN,
          walks : BOOLEAN, total : Nat]
-----------------------------------------------------------------------------
(* What a transaction of storeMessage leaves behind. *)
LEMMA InsertTypes ==
    ASSUME Typed, NEW id \in Ids \ stored, NEW from \in Agents, NEW to \in Agents,
           NEW fixes \in SUBSET Ids, Insert(id, from, to, fixes)
    PROVE  /\ stored' \subseteq Ids /\ IsFiniteSet(stored')
           /\ stored \subseteq stored' /\ id \in stored'
           /\ row' \in [stored' -> Rows]
           /\ Superseded' \subseteq stored' /\ replacedBy' \in [Superseded' -> stored']
<1>1. stored' = stored \cup {id}
  BY DEF Insert
<1>2. stored' \subseteq Ids /\ stored \subseteq stored' /\ id \in stored'
  BY <1>1 DEF Typed, TypeOK
<1>3. IsFiniteSet(stored')
  BY <1>1, FS_AddElement DEF Typed
<1>4. row' \in [stored' -> Rows]
  <2>1. now \in Nat /\ row \in [stored -> Rows]
    BY DEF Typed, TypeOK
  <2>2. [from |-> from, to |-> to, at |-> now] \in Rows
    BY <2>1 DEF Rows
  <2>3. \A m \in stored' : (IF m = id THEN [from |-> from, to |-> to, at |-> now]
                            ELSE row[m]) \in Rows
    BY <1>1, <2>1, <2>2
  <2> QED BY <2>3 DEF Insert
<1>5. DOMAIN replacedBy' = Superseded \cup Corrected(fixes, from, to)
  BY DEF Insert
<1>6. Superseded \subseteq stored /\ Corrected(fixes, from, to) \subseteq stored
  BY DEF Typed, TypeOK, Corrected
<1>7. replacedBy' \in [Superseded' -> stored']
  <2>1. replacedBy \in [Superseded -> stored]
    BY DEF Typed, TypeOK
  <2> QED BY <1>2, <1>5, <2>1 DEF Insert, Superseded
<1> QED BY <1>1, <1>2, <1>3, <1>4, <1>5, <1>6, <1>7 DEF Superseded

(* A page is made of rows of the reader. *)
LEMMA PageIsMail ==
    ASSUME NEW a, NEW f, NEW offset
    PROVE  Page(Matching(a, f), offset) \subseteq stored
BY DEF Page, Matching, Mail

(* The rows of an answer are counted. *)
LEMMA Counted ==
    ASSUME Typed, NEW S \in SUBSET stored
    PROVE  Cardinality(S) \in Nat
BY FS_Subset, FS_CardinalityType DEF Typed

LEMMA NextRecipientTypes ==
    ASSUME NEW job \in Jobs
    PROVE  /\ NextRecipient(job) \in Jobs
           /\ NextRecipient(job).stage \notin {"push", "mark"}
BY DEF NextRecipient, Idle, Jobs

LEMMA WalkedTypes ==
    ASSUME Typed, NEW w \in Walks, NEW ids \in SUBSET stored, NEW total \in Nat
    PROVE  Walked(w, ids, total) \in Walks
<1>1. Cardinality(ids) \in Nat
  BY Counted
<1>2. NextOffset(w.kind, w.offset, Cardinality(ids)) \in Nat
  BY <1>1 DEF NextOffset, Walks
<1>3. ids \subseteq Ids
  BY DEF Typed, TypeOK
<1> QED BY <1>2, <1>3 DEF Walked, Walks

LEMMA TypedStep == Typed /\ [Next]_vars => Typed'
<1> SUFFICES ASSUME Typed, [Next]_vars PROVE Typed'
  OBVIOUS
<1> USE DEF Typed
<1>0. /\ sends \in [Agents -> Jobs] /\ session \in [Agents -> Walks] /\ call \in Calls
      /\ Senders \subseteq Agents /\ Readers \subseteq Agents
  BY DEF TypeOK, Jobs, Walks, Calls, Agents
<1>1. ASSUME NEW s \in Senders, NEW recipients \in SUBSET Readers,
             NEW fixes \in SUBSET stored, BeginSend(s, recipients, fixes)
      PROVE  Typed'
  <2>1. [todo |-> recipients, fixes |-> fixes, id |-> None, stage |-> "store"] \in Jobs
    BY <1>0 DEF TypeOK, Jobs
  <2>2. sends' \in [Agents -> Jobs]
    BY <1>0, <1>1, <2>1 DEF BeginSend
  <2>3. \A t \in Agents : sends'[t].stage \in {"push", "mark"} => sends'[t].id \in stored
    BY <1>0, <1>1 DEF BeginSend, TypeOK
  <2> QED BY <1>1, <2>2, <2>3 DEF BeginSend, TypeOK, Superseded, Jobs
<1>2. ASSUME NEW s \in Senders, NEW to \in Readers, NEW id \in Ids \ stored,
             StoreMessage(s, to, id)
      PROVE  Typed'
  <2>1. sends[s].fixes \in SUBSET Ids /\ sends[s] \in Jobs
    BY <1>0 DEF Jobs
  <2>2. /\ stored' \subseteq Ids /\ IsFiniteSet(stored')
        /\ stored \subseteq stored' /\ id \in stored' /\ row' \in [stored' -> Rows]
        /\ Superseded' \subseteq stored' /\ replacedBy' \in [Superseded' -> stored']
    BY <1>0, <1>2, <2>1, InsertTypes DEF StoreMessage
  <2>3. \A t \in Agents : sends'[t] \in Jobs' /\ (sends'[t].stage \in {"push", "mark"}
                                                    => sends'[t].id \in stored')
    <3>1. ASSUME NEW t \in Agents, t # s
          PROVE  sends'[t] \in Jobs' /\ (sends'[t].stage \in {"push", "mark"}
                                           => sends'[t].id \in stored')
      BY <1>0, <1>2, <2>2, <3>1 DEF StoreMessage, Jobs, TypeOK
    <3>2. sends'[s] \in Jobs' /\ sends'[s].id \in stored'
      BY <1>0, <1>2, <2>1, <2>2 DEF StoreMessage, Jobs
    <3> QED BY <3>1, <3>2
  <2>4. sends' \in [Agents -> Jobs']
    BY <1>0, <1>2, <2>3 DEF StoreMessage
  <2>5. call' \in Calls'
    BY <1>0, <1>2, <2>2 DEF StoreMessage, Calls
  <2> QED BY <1>2, <2>2, <2>3, <2>4, <2>5 DEF StoreMessage, TypeOK, Jobs, Calls
<1>3. ASSUME NEW s \in Senders, NEW to \in Readers, NEW id \in Ids \ stored,
             PostMessage(s, to, id)
      PROVE  Typed'
  <2>1. /\ stored' \subseteq Ids /\ IsFiniteSet(stored')
        /\ stored \subseteq stored' /\ row' \in [stored' -> Rows]
        /\ Superseded' \subseteq stored' /\ replacedBy' \in [Superseded' -> stored']
    BY <1>0, <1>3, InsertTypes DEF PostMessage
  <2>2. sends' \in [Agents -> Jobs'] /\ call' \in Calls'
    BY <1>0, <1>3, <2>1 DEF PostMessage, Calls, Jobs
  <2> QED BY <1>3, <2>1, <2>2 DEF PostMessage, TypeOK, Jobs, Calls
<1>4. ASSUME NEW s \in Senders, StoreFails(s) PROVE Typed'
  <2>1. Idle \in Jobs /\ Idle.stage \notin {"push", "mark"}
    BY DEF Idle, Jobs
  <2>2. sends' \in [Agents -> Jobs]
    BY <1>0, <1>4, <2>1 DEF StoreFails
  <2>3. \A t \in Agents : sends'[t].stage \in {"push", "mark"} => sends'[t].id \in stored
    BY <1>0, <1>4, <2>1 DEF StoreFails, TypeOK
  <2> QED BY <1>4, <2>2, <2>3 DEF StoreFails, TypeOK, Superseded, Jobs
<1>5. ASSUME NEW s \in Senders, Push(s) PROVE Typed'
  <2>1. sends[s] \in Jobs /\ sends[s].id \in stored
    BY <1>0, <1>5 DEF Push, TypeOK
  <2>2. [sends[s] EXCEPT !.stage = "mark"] \in Jobs
    BY <2>1 DEF Jobs
  <2>3. sends' \in [Agents -> Jobs]
    BY <1>0, <1>5, <2>1, <2>2, NextRecipientTypes DEF Push
  <2>4. \A t \in Agents : sends'[t].stage \in {"push", "mark"} => sends'[t].id \in stored
    <3>1. \A t \in Agents \ {s} : sends'[t] = sends[t]
      BY <1>0, <1>5 DEF Push
    <3>2. sends'[s].stage \in {"push", "mark"} => sends'[s].id = sends[s].id
      <4>1. CASE Pushes(sends[s].id)
        BY <1>0, <1>5, <2>1, <4>1 DEF Push, Jobs
      <4>2. CASE ~ Pushes(sends[s].id)
        BY <1>0, <1>5, <2>1, <4>2, NextRecipientTypes DEF Push
      <4> QED BY <4>1, <4>2
    <3> QED BY <2>1, <3>1, <3>2 DEF TypeOK
  <2> QED BY <1>5, <2>1, <2>3, <2>4 DEF Push, TypeOK, Superseded, Jobs
<1>6. ASSUME NEW s \in Senders, NEW works \in BOOLEAN, MarkPushed(s, works) PROVE Typed'
  <2>1. sends[s] \in Jobs /\ sends[s].id \in stored
    BY <1>0, <1>6 DEF MarkPushed, TypeOK
  <2>2. sends' \in [Agents -> Jobs]
    BY <1>0, <1>6, <2>1, NextRecipientTypes DEF MarkPushed
  <2>3. \A t \in Agents : sends'[t].stage \in {"push", "mark"} => sends'[t].id \in stored
    BY <1>0, <1>6, <2>1, NextRecipientTypes DEF MarkPushed, TypeOK
  <2> QED BY <1>6, <2>1, <2>2, <2>3 DEF MarkPushed, TypeOK, Superseded, Jobs
<1>7. ASSUME NEW a \in Agents, NEW ids \in SUBSET stored, NEW mark \in BOOLEAN,
             NEW walks \in BOOLEAN, NEW total \in Nat, Select(a, ids, mark, walks, total)
      PROVE  Typed'
  <2>1. call' \in Calls
    BY <1>7 DEF Select, Calls
  <2> QED BY <1>7, <2>1 DEF Select, TypeOK, Superseded, Calls
<1>8. ASSUME NEW a \in Readers, NEW filter, NEW offset, NEW mark \in BOOLEAN,
             GetPage(a, filter, offset, mark)
      PROVE  Typed'
  <2>1. Page(Matching(a, filter), offset) \in SUBSET stored
    BY PageIsMail
  <2> QED BY <1>0, <1>7, <1>8, <2>1 DEF GetPage
<1>9. ASSUME NEW a \in Readers, NEW m \in stored, NEW mark \in BOOLEAN, GetDetail(a, m, mark)
      PROVE  Typed'
  BY <1>0, <1>7, <1>9 DEF GetDetail
<1>10. ASSUME NEW a \in Readers, WalkPage(a) PROVE Typed'
  <2>1. Matching(a, UnreadFilter) \in SUBSET stored
    BY DEF Matching, Mail
  <2>2. Cardinality(Matching(a, UnreadFilter)) \in Nat
    BY <2>1, Counted
  <2>3. Page(Matching(a, UnreadFilter), session[a].offset) \in SUBSET stored
    BY PageIsMail
  <2> QED BY <1>0, <1>7, <1>10, <2>2, <2>3 DEF WalkPage
<1>11. ASSUME NEW a \in Readers, NEW kind \in Sessions, StartWalk(a, kind) PROVE Typed'
  <2>1. Unread(a) \subseteq Ids /\ kind \in {"drain", "browse"}
    BY MailboxAssumption DEF Unread, Mail, TypeOK
  <2>2. [kind |-> kind, offset |-> 0, got |-> {}, due |-> Unread(a)] \in Walks
    BY <2>1 DEF Walks
  <2>3. session' \in [Agents -> Walks]
    BY <1>0, <1>11, <2>2 DEF StartWalk
  <2> QED BY <1>11, <2>3 DEF StartWalk, TypeOK, Superseded, Walks
<1>12. ASSUME FinishRead PROVE Typed'
  <2>1. NoCall \in Calls
    BY DEF NoCall, Calls
  <2>2. session' \in [Agents -> Walks]
    <3>1. CASE ~ call.walks
      BY <1>0, <1>12, <3>1 DEF FinishRead
    <3>2. CASE call.walks
      <4>1. ASSUME call.reader \in Agents
            PROVE  Walked(session[call.reader], call.ids, call.total) \in Walks
        BY <1>0, <4>1, WalkedTypes DEF Calls
      <4> QED BY <1>0, <1>12, <3>2, <4>1 DEF FinishRead
    <3> QED BY <3>1, <3>2
  <2>3. read' \subseteq stored
    BY <1>0, <1>12 DEF FinishRead, TypeOK, Calls
  <2> QED BY <1>12, <2>1, <2>2, <2>3 DEF FinishRead, TypeOK, Superseded, Walks, Calls
<1>13. ASSUME NEW a \in Readers, NEW ids \in SUBSET stored, MarkMessagesRead(a, ids)
       PROVE  Typed'
  BY <1>13 DEF MarkMessagesRead, Mail, TypeOK, Superseded
<1>14. ASSUME NEW a \in Readers, NEW scope, NEW mark \in BOOLEAN,
              ArchiveMessages(a, scope, mark)
       PROVE  Typed'
  BY <1>14 DEF ArchiveMessages, Mail, TypeOK, Superseded
<1>15. ASSUME NEW days, CompactMessages(days) PROVE Typed'
  BY <1>15 DEF CompactMessages, TypeOK, Superseded
<1>16. ASSUME NEW a \in Readers, HubChanges(a) PROVE Typed'
  BY <1>0, <1>16 DEF HubChanges, TypeOK, Superseded
<1>17. ASSUME Tick PROVE Typed'
  BY <1>17, MailboxAssumption DEF Tick, TypeOK, Superseded
<1>18. ASSUME Crash PROVE Typed'
  <2>1. NoCall \in Calls /\ Idle \in Jobs /\ NoWalk \in Walks
        /\ Idle.stage \notin {"push", "mark"}
    BY DEF NoCall, Calls, Idle, Jobs, NoWalk, Walks
  <2> QED BY <1>18, <2>1 DEF Crash, TypeOK, Superseded, Calls, Jobs, Walks
<1>19. CASE UNCHANGED vars
  BY <1>19 DEF vars, TypeOK, Superseded
<1> HIDE DEF Typed
<1>20. ASSUME NEW s \in Senders, Send(s) PROVE Typed'
  BY <1>1, <1>2, <1>3, <1>4, <1>5, <1>6, <1>20 DEF Send
<1>21. ASSUME NEW a \in Readers, Receive(a) PROVE Typed'
  BY <1>8, <1>9, <1>10, <1>11, <1>13, <1>14, <1>21 DEF Receive
<1> QED BY <1>12, <1>15, <1>16, <1>17, <1>18, <1>19, <1>20, <1>21 DEF Next

LEMMA TypedInit == Init => Typed
<1> SUFFICES ASSUME Init PROVE Typed
  OBVIOUS
<1>1. IsFiniteSet(stored)
  BY FS_EmptySet DEF Init
<1>2. Idle.stage \notin {"push", "mark"}
  BY DEF Idle
<1> QED BY <1>1, <1>2 DEF Init, Typed, TypeOK, Superseded, NoCall, NoWalk, Idle

(* Every reachable state has the declared types. *)
THEOREM TypeCorrect == Spec => []TypeOK
<1>1. Spec => []Typed
  BY TypedInit, TypedStep, PTL DEF Spec
<1>2. Typed => TypeOK
  BY DEF Typed
<1> QED BY <1>1, <1>2, PTL
-----------------------------------------------------------------------------
(* A message that was read was delivered, at every point where the process *)
(* can die and along each of the five paths that write read_at: no row     *)
(* answers "read" to one column and "queued" to the other.                 *)
ReadImpliesDelivered == read \subseteq delivered

(* A message counts as delivered only once a socket of its recipient took  *)
(* it, an answer to its recipient selected it, or its recipient named it.  *)
DeliveredWasOffered == delivered \subseteq offered

(* What is in flight between a selection and its second UPDATE, and        *)
(* between a push and its record.                                          *)
SelectedIsDelivered == call.ids \subseteq delivered
MarkedIsOffered == \A s \in Agents : sends[s].stage = "mark" => sends[s].id \in offered
Receipts == ReadImpliesDelivered /\ SelectedIsDelivered
            /\ DeliveredWasOffered /\ MarkedIsOffered

LEMMA SelectReceipts ==
    ASSUME Receipts, NEW a, NEW ids, NEW mark, NEW walks, NEW total,
           Select(a, ids, mark, walks, total)
    PROVE  Receipts'
BY DEF Receipts, ReadImpliesDelivered, SelectedIsDelivered, DeliveredWasOffered,
       MarkedIsOffered, Select

LEMMA SendReceipts ==
    ASSUME Typed, Receipts, NEW s \in Senders, Send(s)
    PROVE  Receipts'
<1>1. s \in Agents /\ sends \in [Agents -> Jobs]
  BY DEF Agents, Typed, TypeOK, Jobs
<1> USE DEF Receipts, ReadImpliesDelivered, SelectedIsDelivered, DeliveredWasOffered,
            MarkedIsOffered
<1>2. ASSUME NEW recipients, NEW fixes, BeginSend(s, recipients, fixes) PROVE Receipts'
  BY <1>1, <1>2 DEF BeginSend
<1>3. ASSUME NEW to, NEW id, StoreMessage(s, to, id) PROVE Receipts'
  BY <1>1, <1>3 DEF StoreMessage, Jobs
<1>4. ASSUME NEW to, NEW id, PostMessage(s, to, id) PROVE Receipts'
  BY <1>4 DEF PostMessage
<1>5. CASE StoreFails(s)
  BY <1>1, <1>5 DEF StoreFails, Idle
<1>6. CASE Push(s)
  <2>1. offered \subseteq offered' /\ UNCHANGED <<read, delivered, call>>
    BY <1>6 DEF Push
  <2>2. \A t \in Agents : sends'[t].stage = "mark" => sends'[t].id \in offered'
    <3>1. \A t \in Agents \ {s} : sends'[t] = sends[t]
      BY <1>1, <1>6 DEF Push
    <3>2. sends'[s].stage = "mark" => sends'[s].id \in offered'
      <4>1. CASE Pushes(sends[s].id)
        BY <1>1, <1>6, <4>1 DEF Push, Pushes, Jobs
      <4>2. CASE ~ Pushes(sends[s].id)
        BY <1>1, <1>6, <4>2, NextRecipientTypes DEF Push
      <4> QED BY <4>1, <4>2
    <3> QED BY <2>1, <3>1, <3>2
  <2> QED BY <2>1, <2>2
<1>7. ASSUME NEW works \in BOOLEAN, MarkPushed(s, works) PROVE Receipts'
  <2>1. sends[s].id \in offered /\ sends[s] \in Jobs
    BY <1>1, <1>7 DEF MarkPushed
  <2>2. \A t \in Agents : sends'[t].stage = "mark" => sends'[t].id \in offered'
    BY <1>1, <1>7, <2>1, NextRecipientTypes DEF MarkPushed
  <2> QED BY <1>7, <2>1, <2>2 DEF MarkPushed
<1> QED BY <1>2, <1>3, <1>4, <1>5, <1>6, <1>7 DEF Send

LEMMA ReceiveReceipts ==
    ASSUME Typed, Receipts, NEW a \in Readers, Receive(a)
    PROVE  Receipts'
<1>1. ASSUME NEW filter, NEW offset, NEW mark, GetPage(a, filter, offset, mark)
      PROVE  Receipts'
  BY <1>1, SelectReceipts DEF GetPage
<1>2. ASSUME NEW m, NEW mark, GetDetail(a, m, mark) PROVE Receipts'
  BY <1>2, SelectReceipts DEF GetDetail
<1>3. CASE WalkPage(a)
  BY <1>3, SelectReceipts DEF WalkPage
<1> USE DEF Receipts, ReadImpliesDelivered, SelectedIsDelivered, DeliveredWasOffered,
            MarkedIsOffered
<1>4. ASSUME NEW kind, StartWalk(a, kind) PROVE Receipts'
  BY <1>4 DEF StartWalk
<1>5. ASSUME NEW ids, MarkMessagesRead(a, ids) PROVE Receipts'
  BY <1>5 DEF MarkMessagesRead
<1>6. ASSUME NEW scope, NEW mark, ArchiveMessages(a, scope, mark) PROVE Receipts'
  BY <1>6 DEF ArchiveMessages
<1> HIDE DEF Receipts
<1> QED BY <1>1, <1>2, <1>3, <1>4, <1>5, <1>6 DEF Receive

LEMMA ReceiptsStep == Typed /\ Receipts /\ [Next]_vars => Receipts'
<1> SUFFICES ASSUME Typed, Receipts, [Next]_vars PROVE Receipts'
  OBVIOUS
<1>1. ASSUME NEW s \in Senders, Send(s) PROVE Receipts'
  BY <1>1, SendReceipts
<1>2. ASSUME NEW a \in Readers, Receive(a) PROVE Receipts'
  BY <1>2, ReceiveReceipts
<1> USE DEF Receipts, ReadImpliesDelivered, SelectedIsDelivered, DeliveredWasOffered,
            MarkedIsOffered
<1>3. CASE FinishRead
  BY <1>3 DEF FinishRead, NoCall
<1>4. ASSUME NEW a, HubChanges(a) PROVE Receipts'
  BY <1>4 DEF HubChanges
<1>5. CASE Tick
  BY <1>5 DEF Tick
<1>6. CASE Crash
  BY <1>6 DEF Crash, NoCall, Idle
<1>7. ASSUME NEW days, CompactMessages(days) PROVE Receipts'
  BY <1>7 DEF CompactMessages
<1>8. CASE UNCHANGED vars
  BY <1>8 DEF vars
<1> HIDE DEF Receipts
<1> QED BY <1>1, <1>2, <1>3, <1>4, <1>5, <1>6, <1>7, <1>8 DEF Next

LEMMA ReceiptsAlways == Spec => []Receipts
<1>1. Init => Receipts
  BY DEF Init, Receipts, ReadImpliesDelivered, SelectedIsDelivered, DeliveredWasOffered,
         MarkedIsOffered, NoCall, Idle
<1> QED BY <1>1, TypedInit, TypedStep, ReceiptsStep, PTL DEF Spec

(* No row is read and undelivered, also when the process dies between the  *)
(* two UPDATEs of an answer: the first one covers what the second marks.   *)
THEOREM ReadsWereDelivered == Spec => []ReadImpliesDelivered
<1>1. Receipts => ReadImpliesDelivered
  BY DEF Receipts
<1> QED BY <1>1, ReceiptsAlways, PTL

(* No row counts as delivered that its recipient was never offered, though *)
(* a push and its record are two steps.                                    *)
THEOREM DeliveriesWereOffered == Spec => []DeliveredWasOffered
<1>1. Receipts => DeliveredWasOffered
  BY DEF Receipts
<1> QED BY <1>1, ReceiptsAlways, PTL
-----------------------------------------------------------------------------
(* The only steps that touch the rows and their corrections insert a row.  *)
LEMMA OnlyInserts ==
    ASSUME Typed, [Next]_vars
    PROVE  \/ UNCHANGED <<stored, row, replacedBy>>
           \/ \E s \in Senders, to \in Readers, id \in Ids \ stored, fixes \in SUBSET Ids :
                 Insert(id, s, to, fixes)
<1>1. ASSUME NEW s \in Senders, NEW to \in Readers, NEW id \in Ids \ stored,
             StoreMessage(s, to, id)
      PROVE  \E fixes \in SUBSET Ids : Insert(id, s, to, fixes)
  <2>1. sends[s].fixes \in SUBSET Ids
    BY DEF Typed, TypeOK, Agents
  <2> QED BY <1>1, <2>1 DEF StoreMessage
<1>2. ASSUME NEW s \in Senders, NEW to \in Readers, NEW id \in Ids \ stored,
             PostMessage(s, to, id)
      PROVE  \E fixes \in SUBSET Ids : Insert(id, s, to, fixes)
  BY <1>2 DEF PostMessage
<1>3. ASSUME NEW s \in Senders, Send(s)
      PROVE  \/ UNCHANGED <<stored, row, replacedBy>>
             \/ \E to \in Readers, id \in Ids \ stored, fixes \in SUBSET Ids :
                   Insert(id, s, to, fixes)
  BY <1>1, <1>2, <1>3 DEF Send, BeginSend, StoreFails, Push, MarkPushed
<1>4. ASSUME NEW a \in Readers, Receive(a) PROVE UNCHANGED <<stored, row, replacedBy>>
  BY <1>4 DEF Receive, GetPage, GetDetail, Select, MarkMessagesRead, ArchiveMessages,
              StartWalk, WalkPage
<1> QED BY <1>3, <1>4 DEF Next, HubChanges, FinishRead, Tick, Crash, CompactMessages, vars

(* A new row is nobody's past: it is not superseded and supersedes rows of *)
(* its own mailbox, so that no set of hidden rows is closed.               *)
LEMMA InsertIsSound ==
    ASSUME Typed, CorrectionsAreSound, NEW s \in Senders, NEW to \in Readers,
           NEW id \in Ids \ stored, NEW fixes \in SUBSET Ids, Insert(id, s, to, fixes)
    PROVE  CorrectionsAreSound'
<1> DEFINE C == Corrected(fixes, s, to)
<1>1. /\ C \subseteq stored /\ Superseded \subseteq stored
      /\ \A m \in C : row[m].from = s /\ row[m].to = to
      /\ \A m \in Superseded : replacedBy[m] \in stored
  BY DEF Typed, TypeOK, Corrected
<1>2. Superseded' = Superseded \cup C /\ id \notin Superseded'
  BY <1>1 DEF Insert, Superseded
<1>3. /\ \A m \in C : replacedBy'[m] = id
      /\ \A m \in Superseded \ C : replacedBy'[m] = replacedBy[m]
  BY DEF Insert, Superseded
<1>4. /\ \A m \in stored : row'[m] = row[m]
      /\ row'[id].from = s /\ row'[id].to = to
  BY DEF Insert
<1>5. \A m \in Superseded' : /\ row'[replacedBy'[m]].from = row'[m].from
                             /\ row'[replacedBy'[m]].to = row'[m].to
  BY <1>1, <1>2, <1>3, <1>4 DEF CorrectionsAreSound
<1>6. ASSUME NEW S \in (SUBSET Superseded') \ {{}}
      PROVE  \E m \in S : replacedBy'[m] \notin S
  <2> HIDE DEF C
  <2>1. CASE S \cap C # {}
    BY <1>2, <1>3, <1>6, <2>1
  <2>2. CASE S \cap C = {}
    <3>1. S \in (SUBSET Superseded) \ {{}}
      BY <1>2, <1>6, <2>2
    <3>2. PICK m \in S : replacedBy[m] \notin S
      BY <3>1 DEF CorrectionsAreSound
    <3> QED BY <1>3, <2>2, <3>1, <3>2
  <2> QED BY <2>1, <2>2
<1>7. \A S \in (SUBSET Superseded') \ {{}} : \E m \in S : replacedBy'[m] \notin S
  BY <1>6
<1> HIDE DEF C
<1> QED BY <1>5, <1>7, Zenon DEF CorrectionsAreSound

(* Corrections stay in one mailbox and never form a cycle.                 *)
THEOREM CorrectionsStaySound == Spec => []CorrectionsAreSound
<1>1. Init => CorrectionsAreSound
  BY DEF Init, CorrectionsAreSound, Superseded
<1>2. Typed /\ CorrectionsAreSound /\ [Next]_vars => CorrectionsAreSound'
  <2> SUFFICES ASSUME Typed, CorrectionsAreSound, [Next]_vars PROVE CorrectionsAreSound'
    OBVIOUS
  <2>1. CASE UNCHANGED <<stored, row, replacedBy>>
    BY <2>1 DEF CorrectionsAreSound, Superseded
  <2> QED BY <2>1, OnlyInserts, InsertIsSound
<1> QED BY <1>1, <1>2, TypedInit, TypedStep, PTL DEF Spec

(* A message is superseded once and for all.                               *)
THEOREM CorrectionsStand == Spec => FirstCorrectionStands
<1> DEFINE Stands == \A m \in Superseded :
                        m \in DOMAIN replacedBy' /\ replacedBy'[m] = replacedBy[m]
<1>1. Typed /\ [Next]_vars => [Stands]_vars
  <2> SUFFICES ASSUME Typed, [Next]_vars PROVE Stands
    OBVIOUS
  <2>1. CASE UNCHANGED <<stored, row, replacedBy>>
    BY <2>1 DEF Superseded
  <2>2. ASSUME NEW s, NEW to, NEW id, NEW fixes, Insert(id, s, to, fixes) PROVE Stands
    BY <2>2 DEF Insert, Corrected, Superseded
  <2> QED BY <2>1, <2>2, OnlyInserts
<1>2. Spec => [][Stands]_vars
  BY <1>1, TypedInit, TypedStep, PTL DEF Spec
<1> QED BY <1>2 DEF FirstCorrectionStands

-----------------------------------------------------------------------------
(* Walks through an inbox *)

(* What is settled stays settled, and no row leaves its mailbox. *)
LEMMA SettledStays ==
    ASSUME Typed, [Next]_vars
    PROVE  /\ read \subseteq read' /\ archived \subseteq archived'
           /\ Superseded \subseteq Superseded'
           /\ \A a : Mail(a) \subseteq Mail(a)'
<1>1. ASSUME UNCHANGED <<stored, row, replacedBy>>
      PROVE  Superseded \subseteq Superseded' /\ \A a : Mail(a) \subseteq Mail(a)'
  BY <1>1 DEF Superseded, Mail
<1>2. ASSUME NEW id \in Ids \ stored, NEW s, NEW to, NEW fixes, Insert(id, s, to, fixes)
      PROVE  Superseded \subseteq Superseded' /\ \A a : Mail(a) \subseteq Mail(a)'
  BY <1>2 DEF Insert, Superseded, Mail
<1>3. read \subseteq read' /\ archived \subseteq archived'
  <2>1. ASSUME NEW s, Send(s) PROVE UNCHANGED <<read, archived>>
    BY <2>1 DEF Send, BeginSend, StoreMessage, StoreFails, Push, MarkPushed, PostMessage
  <2>2. ASSUME NEW a, Receive(a) PROVE read \subseteq read' /\ archived \subseteq archived'
    BY <2>2 DEF Receive, GetPage, GetDetail, Select, StartWalk, WalkPage,
                MarkMessagesRead, ArchiveMessages
  <2> QED BY <2>1, <2>2 DEF Next, FinishRead, Tick, HubChanges, Crash, CompactMessages, vars
<1> QED BY <1>1, <1>2, <1>3, OnlyInserts

(* The steps that move a walk or the answer it waits for. *)
LEMMA WalkSteps ==
    ASSUME [Next]_vars
    PROVE  \/ UNCHANGED <<session, call>>
           \/ UNCHANGED session /\ call'.walks = FALSE
           \/ Crash \/ FinishRead
           \/ \E a \in Readers : WalkPage(a) \/ \E kind \in Sessions : StartWalk(a, kind)
<1>1. ASSUME NEW s, Send(s) PROVE UNCHANGED <<session, call>>
  BY <1>1 DEF Send, BeginSend, StoreMessage, StoreFails, Push, MarkPushed, PostMessage
<1>2. ASSUME NEW a \in Readers, Receive(a)
      PROVE  \/ UNCHANGED <<session, call>>
             \/ UNCHANGED session /\ call'.walks = FALSE
             \/ WalkPage(a) \/ \E kind \in Sessions : StartWalk(a, kind)
  BY <1>2 DEF Receive, GetPage, GetDetail, Select, MarkMessagesRead, ArchiveMessages
<1> QED BY <1>1, <1>2 DEF Next, Tick, HubChanges, CompactMessages, vars

(* A drain is owed rows of its own mailbox only; an answer that leaves     *)
(* nothing out holds what is owed, unless something else settled it.       *)
DrainOwes(a) ==
    /\ session[a].kind # "browse"
    /\ session[a].kind = "drain" => session[a].due \subseteq Mail(a)

WholeAnswer ==
    call.walks => /\ call.reader \in Agents /\ session[call.reader].kind = "drain"
                  /\ call.total <= Cardinality(call.ids) =>
                        session[call.reader].due
                           \subseteq call.ids \cup read \cup archived \cup Superseded

Draining == (\A a \in Agents : DrainOwes(a)) /\ WholeAnswer /\ WalkIsComplete

LEMMA DrainingStep ==
    ASSUME Sessions \subseteq {"drain"}, Typed, Draining, [Next]_vars
    PROVE  Draining'
<1>1. /\ read \subseteq read' /\ archived \subseteq archived'
      /\ Superseded \subseteq Superseded'
      /\ \A a : Mail(a) \subseteq Mail(a)'
  BY SettledStays
<1> DEFINE Settled == read \cup archived \cup Superseded
<1>2. Settled \subseteq Settled'
  BY <1>1
<1>3. ASSUME NEW a \in Agents, session'[a] = session[a]
      PROVE  /\ DrainOwes(a)'
             /\ (session[a].kind = "ended" => session[a].due \subseteq Covered(a))'
  BY <1>1, <1>3 DEF Draining, DrainOwes, WalkIsComplete, Covered
<1>4. CASE UNCHANGED session /\ (call' = call \/ call'.walks = FALSE)
  <2>1. WholeAnswer'
    BY <1>1, <1>4 DEF Draining, WholeAnswer
  <2> QED BY <1>3, <1>4, <2>1 DEF Draining, WalkIsComplete
<1>5. CASE Crash
  BY <1>5 DEF Crash, Draining, DrainOwes, WholeAnswer, WalkIsComplete, NoCall, NoWalk
<1>6. ASSUME NEW a \in Readers, WalkPage(a) PROVE Draining'
  <2> DEFINE S == Matching(a, UnreadFilter)
             P == Page(S, session[a].offset)
  <2>1. /\ session' = session /\ call'.reader = a /\ call'.ids = P /\ call'.walks = TRUE
        /\ call'.total = Cardinality(S) /\ session[a].kind = "drain"
    BY <1>6 DEF WalkPage, Select, Agents
  <2>2. P \subseteq S /\ S \in SUBSET stored
    BY DEF Page, Matching, Mail
  <2>3. Cardinality(S) <= Cardinality(P) => P = S
    <3>1. IsFiniteSet(S)
      BY <2>2, FS_Subset DEF Typed
    <3>2. IsFiniteSet(P) /\ Cardinality(P) <= Cardinality(S)
          /\ (Cardinality(P) = Cardinality(S) => P = S)
      BY <2>2, <3>1, FS_Subset
    <3>3. Cardinality(S) \in Nat /\ Cardinality(P) \in Nat
      BY <3>1, <3>2, FS_CardinalityType
    <3> HIDE DEF S, P
    <3> QED BY <3>2, <3>3
  <2>4. Mail(a) \subseteq S \cup Settled
    BY DEF Matching, UnreadFilter
  <2>5. session[a].due \subseteq Mail(a)
    BY <2>1 DEF Draining, DrainOwes, Agents
  <2>6. WholeAnswer'
    <3> HIDE DEF S, P
    <3>1. call'.total <= Cardinality(call'.ids) =>
             session[a].due \subseteq call'.ids \cup Settled
      BY <2>1, <2>3, <2>4, <2>5
    <3> QED BY <1>2, <2>1, <3>1 DEF WholeAnswer, Agents
  <2> QED BY <1>3, <2>1, <2>6 DEF Draining, WalkIsComplete
<1>7. ASSUME NEW a \in Readers, NEW kind \in Sessions, StartWalk(a, kind)
      PROVE  Draining'
  <2>1. /\ call' = call /\ call = NoCall
        /\ session' = [session EXCEPT ![a] = [kind |-> kind, offset |-> 0, got |-> {},
                                              due |-> Unread(a)]]
        /\ kind = "drain" /\ session \in [Agents -> Walks] /\ a \in Agents
    BY <1>7 DEF StartWalk, Quiet, Typed, TypeOK, Walks, Agents
  <2>2. /\ session'[a].kind = "drain" /\ session'[a].due = Unread(a)
        /\ \A b \in Agents \ {a} : session'[b] = session[b]
    BY <2>1
  <2>3. DrainOwes(a)'
    BY <1>1, <2>2 DEF DrainOwes, Unread
  <2>4. WholeAnswer'
    BY <2>1 DEF WholeAnswer, NoCall
  <2> QED BY <1>3, <2>2, <2>3, <2>4 DEF Draining, WalkIsComplete
<1>8. CASE FinishRead
  <2>1. CASE call.walks
    <3>1. PICK a \in Agents : a = call.reader /\ session[a].kind = "drain"
      BY <2>1 DEF Draining, WholeAnswer
    <3>2. PICK w : w = session[a]
      OBVIOUS
    <3>3. /\ call' = NoCall
          /\ session' = [session EXCEPT ![a] = Walked(w, call.ids, call.total)]
          /\ session \in [Agents -> Walks]
      BY <1>8, <2>1, <3>1, <3>2 DEF FinishRead, Typed, TypeOK, Walks
    <3>4. /\ session'[a] = Walked(w, call.ids, call.total)
          /\ \A b \in Agents \ {a} : session'[b] = session[b]
      BY <3>3
    <3>5. w \in Walks /\ w.kind = "drain" /\ w.due \subseteq Mail(a)
      BY <3>1, <3>2, <3>3 DEF Draining, DrainOwes
    <3>6. call.total \in Nat /\ Cardinality(call.ids) \in Nat
      <4>1. call \in Calls
        BY DEF Typed, TypeOK, Calls
      <4> QED BY <4>1, Counted DEF Calls
    <3>7. CASE call.total > Cardinality(call.ids)
      <4>1. /\ session'[a].kind = "drain" /\ session'[a].due = w.due
        BY <3>4, <3>5, <3>7 DEF Walked, HasMore, Walks
      <4> QED BY <1>1, <1>3, <3>3, <3>4, <3>5, <4>1
              DEF Draining, DrainOwes, WholeAnswer, WalkIsComplete, NoCall
    <3>8. CASE ~(call.total > Cardinality(call.ids))
      <4>1. /\ session'[a].kind = "ended" /\ session'[a].due = w.due
            /\ session'[a].got = w.got \cup call.ids
        BY <3>4, <3>5, <3>8 DEF Walked, HasMore, Walks
      <4>2. w.due \subseteq call.ids \cup Settled
        BY <2>1, <3>1, <3>2, <3>6, <3>8 DEF Draining, WholeAnswer
      <4>3. session'[a].due \subseteq Covered(a)'
        BY <1>2, <4>1, <4>2 DEF Covered
      <4> QED BY <1>3, <3>3, <3>4, <4>1, <4>3
              DEF Draining, DrainOwes, WholeAnswer, WalkIsComplete, NoCall
    <3> QED BY <3>7, <3>8
  <2>2. CASE ~call.walks
    <3>1. session' = session /\ call'.walks = FALSE
      BY <1>8, <2>2 DEF FinishRead, NoCall
    <3> QED BY <1>4, <3>1
  <2> QED BY <2>1, <2>2
<1> QED BY <1>4, <1>5, <1>6, <1>7, <1>8, WalkSteps

(* An agent that drains its inbox, each page marked as it is returned, has *)
(* been given every message that was unread when it started, or something  *)
(* else settled it, however many messages arrive, are corrected, read or   *)
(* archived meanwhile and whatever the size of a page.                     *)
THEOREM DrainsAreComplete ==
    ASSUME Sessions \subseteq {"drain"}
    PROVE  Spec => []WalkIsComplete
<1>1. Init => Draining
  BY DEF Init, Draining, DrainOwes, WholeAnswer, WalkIsComplete, NoCall, NoWalk
<1>2. Typed /\ Draining /\ [Next]_vars => Draining'
  BY DrainingStep
<1>3. Draining => WalkIsComplete
  BY DEF Draining
<1> QED BY <1>1, <1>2, <1>3, TypedInit, TypedStep, PTL DEF Spec
-----------------------------------------------------------------------------
(* Pages *)

(* Every non-empty set of naturals has a least element. *)
LEMMA Least ==
    ASSUME NEW T, T \subseteq Nat, T # {}
    PROVE  \E x \in T : \A y \in T : x <= y
<1> DEFINE Below == OpToRel(<, Nat)
<1> HIDE DEF Below
<1>1. IsWellFoundedOn(Below, Nat)
  BY NatLessThanWellFounded DEF Below
<1>2. \E t \in T : \A u \in T : ~ (<<u, t>> \in Below)
  BY <1>1, WFMin
<1>3. PICK t \in T : \A u \in T : ~ (u < t)
  BY <1>2 DEF OpToRel, Below
<1> QED BY <1>3

(* The newer rows of a set, and how many they are. *)
Ahead(S, m) == {n \in S : Newer(n, m)}

(* ORDER BY created_at DESC, id DESC is a total order. *)
LEMMA NewerIsAnOrder ==
    ASSUME Typed, NEW l \in stored, NEW m \in stored, NEW n \in stored
    PROVE  /\ ~Newer(m, m)
           /\ Newer(l, m) /\ Newer(m, n) => Newer(l, n)
           /\ m # n => Newer(m, n) \/ Newer(n, m)
<1>1. \A k \in stored : k \in Nat /\ row[k].at \in Nat
  BY MailboxAssumption DEF Typed, TypeOK, Rows
<1> QED BY <1>1 DEF Newer

(* What is newer has fewer rows ahead of it. *)
LEMMA AheadGrows ==
    ASSUME Typed, NEW S \in SUBSET stored, NEW m \in S, NEW n \in S, Newer(m, n)
    PROVE  /\ IsFiniteSet(Ahead(S, m)) /\ IsFiniteSet(Ahead(S, n))
           /\ Cardinality(Ahead(S, m)) \in Nat /\ Cardinality(Ahead(S, n)) \in Nat
           /\ Cardinality(Ahead(S, m)) < Cardinality(Ahead(S, n))
<1>1. Ahead(S, m) \subseteq Ahead(S, n)
  BY NewerIsAnOrder DEF Ahead
<1>2. m \in Ahead(S, n) /\ m \notin Ahead(S, m)
  BY NewerIsAnOrder DEF Ahead
<1>3. IsFiniteSet(S)
  BY FS_Subset DEF Typed
<1>4. IsFiniteSet(Ahead(S, n)) /\ IsFiniteSet(Ahead(S, m))
  BY <1>3, FS_Subset DEF Ahead
<1> HIDE DEF Ahead
<1>5. Cardinality(Ahead(S, m)) <= Cardinality(Ahead(S, n)) /\
      (Cardinality(Ahead(S, m)) = Cardinality(Ahead(S, n)) => Ahead(S, m) = Ahead(S, n))
  BY <1>1, <1>4, FS_Subset
<1>6. Cardinality(Ahead(S, m)) \in Nat /\ Cardinality(Ahead(S, n)) \in Nat
  BY <1>4, FS_CardinalityType
<1> QED BY <1>2, <1>4, <1>5, <1>6

(* No page is larger than PageSize, and the first one is smaller only if   *)
(* it leaves nothing out.                                                  *)
LEMMA FirstPageIsFull ==
    ASSUME Typed, NEW S \in SUBSET stored, Cardinality(S) > Cardinality(Page(S, 0))
    PROVE  Cardinality(Page(S, 0)) = PageSize
<1>1. PICK P : P = Page(S, 0)
  OBVIOUS
<1>2. PICK rank : rank = [m \in S |-> Cardinality(Ahead(S, m))]
  OBVIOUS
<1>3. IsFiniteSet(S)
  BY FS_Subset DEF Typed
<1>4. \A m \in S : IsFiniteSet(Ahead(S, m)) /\ Cardinality(Ahead(S, m)) \in Nat
  <2> SUFFICES ASSUME NEW m \in S
               PROVE  IsFiniteSet(Ahead(S, m)) /\ Cardinality(Ahead(S, m)) \in Nat
    OBVIOUS
  <2>1. Ahead(S, m) \in SUBSET S
    BY DEF Ahead
  <2> QED BY <1>3, <2>1, FS_Subset, FS_CardinalityType
<1>5. P = {m \in S : rank[m] < PageSize} /\ \A m \in S : rank[m] \in Nat
  <2>1. \A m \in S : rank[m] \in Nat
    BY <1>2, <1>4
  <2>2. P = {m \in S : Cardinality(Ahead(S, m)) \in 0 .. (0 + PageSize - 1)}
    BY <1>1 DEF Page, Ahead
  <2>3. P = {m \in S : rank[m] \in 0 .. (0 + PageSize - 1)}
    BY <1>2, <2>2
  <2> QED BY <2>1, <2>3, MailboxAssumption
<1>6. IsFiniteSet(P) /\ P \in SUBSET S /\ Cardinality(P) \in Nat
  BY <1>3, <1>5, FS_Subset, FS_CardinalityType
<1>7. Cardinality(P) <= PageSize
  <2>1. PICK places : places = 0 .. (PageSize - 1)
    OBVIOUS
  <2>2. IsFiniteSet(places) /\ Cardinality(places) = PageSize
    BY <2>1, MailboxAssumption, FS_Interval
  <2>3. PICK place : place = [m \in P |-> rank[m]]
    OBVIOUS
  <2>4. \A m, n \in P : rank[m] = rank[n] => m = n
    <3> SUFFICES ASSUME NEW m \in P, NEW n \in P, m # n PROVE rank[m] # rank[n]
      OBVIOUS
    <3>1. m \in S /\ n \in S
      BY <1>6
    <3>2. Newer(m, n) \/ Newer(n, m)
      BY <3>1, NewerIsAnOrder
    <3>3. rank[m] < rank[n] \/ rank[n] < rank[m]
      BY <1>2, <3>1, <3>2, AheadGrows
    <3> QED BY <1>5, <3>1, <3>3
  <2>5. place \in Injection(P, places)
    <3>1. \A m \in P : rank[m] \in places
      BY <1>5, <2>1, MailboxAssumption
    <3> QED BY <2>3, <2>4, <3>1, Zenon DEF Injection, IsInjective
  <2> QED BY <1>6, <2>2, <2>5, FS_Injection
<1>8. PageSize <= Cardinality(P)
  <2>1. PICK rest : rest = S \ P
    OBVIOUS
  <2>2. rest # {} /\ rest \subseteq S
    <3>1. P # S
      BY <1>1, <1>6
    <3> QED BY <1>6, <2>1, <3>1
  <2>3. PICK m \in rest : \A n \in rest : rank[m] <= rank[n]
    <3>1. PICK T : T = {rank[n] : n \in rest}
      OBVIOUS
    <3>2. T \subseteq Nat /\ T # {}
      BY <1>5, <2>2, <3>1
    <3>3. PICK x \in T : \A y \in T : x <= y
      BY <3>2, Least
    <3> QED BY <3>1, <3>3
  <2>4. m \in S /\ rank[m] \in Nat /\ PageSize <= rank[m]
    BY <1>5, <2>1, <2>2, MailboxAssumption
  <2>5. Ahead(S, m) \in SUBSET P
    <3> SUFFICES ASSUME NEW n \in Ahead(S, m), n \notin P PROVE FALSE
      OBVIOUS
    <3>1. n \in rest /\ Newer(n, m) /\ n \in S
      BY <2>1 DEF Ahead
    <3>2. rank[n] < rank[m]
      BY <1>2, <2>4, <3>1, AheadGrows
    <3> QED BY <1>5, <2>3, <2>4, <3>1, <3>2
  <2>6. Cardinality(Ahead(S, m)) <= Cardinality(P)
    BY <1>6, <2>5, FS_Subset
  <2> QED BY <1>2, <1>4, <1>6, <2>4, <2>6, MailboxAssumption
<1> QED BY <1>1, <1>6, <1>7, <1>8, MailboxAssumption
-----------------------------------------------------------------------------
(* What holds a page of a walk together: nothing runs between its two      *)
(* UPDATEs, so that the rows it is about to mark are still unread.         *)
AsksFromTheStart == \A a \in Agents : session[a].kind = "drain" => session[a].offset = 0

PageOfADrain ==
    call.walks => /\ call.reader \in Agents /\ call # NoCall
                  /\ session[call.reader].kind = "drain" =>
                        /\ call.mark /\ call.ids \cap read = {}
                        /\ call.total > Cardinality(call.ids) =>
                              Cardinality(call.ids) = PageSize

Paging == AsksFromTheStart /\ PageOfADrain

(* Nobody marks anything while an answer is being made. *)
LEMMA NothingBetween ==
    ASSUME [Next]_vars, call # NoCall
    PROVE  FinishRead \/ Crash \/ UNCHANGED <<session, call, read>>
<1>1. ASSUME NEW s, Send(s) PROVE FALSE
  BY <1>1 DEF Send, BeginSend, StoreMessage, StoreFails, Push, MarkPushed, PostMessage, Quiet
<1>2. ASSUME NEW a, Receive(a) PROVE FALSE
  BY <1>2 DEF Receive, GetPage, GetDetail, StartWalk, WalkPage, MarkMessagesRead,
              ArchiveMessages, Quiet
<1> QED BY <1>1, <1>2 DEF Next, HubChanges, Tick, CompactMessages, Quiet, vars

(* ... and a step from one answer to the next moves at most one walk. *)
LEMMA PagingStep ==
    ASSUME Typed, Paging, [Next]_vars
    PROVE  Paging'
<1>0. /\ Readers \subseteq Agents /\ NoCall.walks = FALSE
      /\ session \in [Agents -> Walks] /\ call \in Calls
  BY DEF Agents, NoCall, Typed, TypeOK, Walks, Calls
<1>1. CASE Crash
  BY <1>0, <1>1 DEF Crash, Paging, AsksFromTheStart, PageOfADrain, NoWalk
<1>2. CASE FinishRead
  <2>1. call' = NoCall
    BY <1>2 DEF FinishRead
  <2>2. AsksFromTheStart'
    <3>1. CASE ~call.walks
      BY <1>2, <3>1 DEF FinishRead, Paging, AsksFromTheStart
    <3>2. CASE call.walks
      <4>1. PICK a \in Agents : a = call.reader
        BY <3>2 DEF Paging, PageOfADrain
      <4>2. session' = [session EXCEPT ![a] = Walked(session[a], call.ids, call.total)]
        BY <1>2, <3>2, <4>1 DEF FinishRead
      <4>3. session[a] \in Walks /\ \A b \in Agents \ {a} : session'[b] = session[b]
        BY <1>0, <4>2
      <4>4. session'[a] = Walked(session[a], call.ids, call.total)
        BY <1>0, <4>2
      <4>5. Walked(session[a], call.ids, call.total).kind = "drain"
               => Walked(session[a], call.ids, call.total).offset = 0
        BY <4>3 DEF Walked, NextOffset, Walks
      <4> QED BY <4>3, <4>4, <4>5 DEF Paging, AsksFromTheStart
    <3> QED BY <3>1, <3>2
  <2> QED BY <1>0, <2>1, <2>2 DEF Paging, PageOfADrain
<1>3. CASE UNCHANGED <<session, call, read>>
  BY <1>3 DEF Paging, AsksFromTheStart, PageOfADrain
<1>4. CASE call = NoCall
  <2>1. ASSUME NEW a \in Readers, WalkPage(a) PROVE Paging'
    <3> DEFINE S == Matching(a, UnreadFilter)
               P == Page(S, session[a].offset)
    <3>1. /\ session' = session /\ read' = read
          /\ call' = [reader |-> a, ids |-> P, mark |-> (session[a].kind = "drain"),
                      walks |-> TRUE, total |-> Cardinality(S)]
      BY <2>1 DEF WalkPage, Select
    <3>2. S \in SUBSET stored /\ S \cap read = {} /\ P \subseteq S
      BY DEF Matching, UnreadFilter, Mail, Page
    <3>3. session[a].kind = "drain" => P = Page(S, 0)
      BY <1>0 DEF Paging, AsksFromTheStart
    <3>4. session[a].kind = "drain" /\ Cardinality(S) > Cardinality(P) => Cardinality(P) = PageSize
      <4> HIDE DEF S, P
      <4> QED BY <3>2, <3>3, FirstPageIsFull
    <3>5. call' # NoCall /\ a \in Agents
      BY <1>0, <3>1 DEF NoCall
    <3> HIDE DEF S, P
    <3>6. PageOfADrain'
      BY <3>1, <3>2, <3>4, <3>5 DEF PageOfADrain
    <3> QED BY <3>1, <3>6 DEF Paging, AsksFromTheStart
  <2>2. ASSUME NEW a \in Readers, NEW kind \in Sessions, StartWalk(a, kind) PROVE Paging'
    <3>1. /\ call' = call
          /\ session' = [session EXCEPT ![a] = [kind |-> kind, offset |-> 0, got |-> {},
                                                due |-> Unread(a)]]
      BY <2>2 DEF StartWalk
    <3>2. session'[a].offset = 0 /\ \A b \in Agents \ {a} : session'[b] = session[b]
      BY <1>0, <3>1
    <3> QED BY <1>0, <1>4, <3>1, <3>2 DEF Paging, AsksFromTheStart, PageOfADrain
  <2>3. CASE UNCHANGED <<session, call>>
    BY <1>0, <1>4, <2>3 DEF Paging, AsksFromTheStart, PageOfADrain
  <2>4. CASE UNCHANGED session /\ call'.walks = FALSE
    BY <2>4 DEF Paging, AsksFromTheStart, PageOfADrain
  <2> QED BY <1>1, <1>2, <2>1, <2>2, <2>3, <2>4, WalkSteps
<1> QED BY <1>1, <1>2, <1>3, <1>4, NothingBetween

(* A drain that goes on after a page has marked a full page of rows that   *)
(* nobody had read: the number of rows left to read falls by PageSize with *)
(* every answer, for any page size and whatever the other calls do.  It is *)
(* the part of DrainEnds that does not speak of time.                      *)
THEOREM DrainsAdvance == Spec => DrainAdvances
<1> DEFINE Advances == \A a \in Agents : PageSettled(a) /\ session'[a].kind = "drain"
                          => Cardinality(read' \ read) = PageSize
<1>1. Init => Paging
  BY DEF Init, Paging, AsksFromTheStart, PageOfADrain, NoCall, NoWalk
<1>2. Typed /\ Paging /\ [Next]_vars => Paging'
  BY PagingStep
<1>3. Typed /\ Paging /\ [Next]_vars => [Advances]_vars
  <2> SUFFICES ASSUME Typed, Paging, [Next]_vars, NEW a \in Agents,
                      PageSettled(a), session'[a].kind = "drain"
               PROVE  Cardinality(read' \ read) = PageSize
    OBVIOUS
  <2>1. /\ call.walks /\ call.reader = a /\ call # NoCall /\ call' = NoCall
        /\ session[a].kind = "drain" =>
              /\ call.mark /\ call.ids \cap read = {}
              /\ call.total > Cardinality(call.ids) => Cardinality(call.ids) = PageSize
    BY DEF PageSettled, Paging, PageOfADrain
  <2>2. FinishRead
    <3>1. ~Crash
      BY DEF Crash, NoWalk
    <3> QED BY <2>1, <3>1, NothingBetween
  <2>3. /\ session'[a] = Walked(session[a], call.ids, call.total)
        /\ session[a] \in Walks /\ call \in Calls
    BY <2>1, <2>2 DEF FinishRead, Typed, TypeOK, Walks, Calls
  <2>4. /\ HasMore(session[a].kind, session[a].offset, Cardinality(call.ids), call.total)
        /\ session[a].kind = "drain"
    BY <2>3 DEF Walked, Walks
  <2>5. call.total > Cardinality(call.ids)
    BY <2>4 DEF HasMore
  <2>6. read' \ read = call.ids
    BY <2>1, <2>2, <2>4 DEF FinishRead
  <2> QED BY <2>1, <2>4, <2>5, <2>6
<1>4. Spec => [][Advances]_vars
  BY <1>1, <1>2, <1>3, TypedInit, TypedStep, PTL DEF Spec
<1> QED BY <1>4 DEF DrainAdvances
-----------------------------------------------------------------------------
(* The refinement of Inbox *)

(* An answer holds rows of the one who asked. *)
AnswersTheAsker == call # NoCall => call.reader \in Readers /\ call.ids \subseteq Mail(call.reader)

LEMMA AnswersStep == Typed /\ AnswersTheAsker /\ [Next]_vars => AnswersTheAsker'
<1> SUFFICES ASSUME Typed, AnswersTheAsker, [Next]_vars PROVE AnswersTheAsker'
  OBVIOUS
<1>1. \A a : Mail(a) \subseteq Mail(a)'
  BY SettledStays
<1>2. CASE call' = call \/ call' = NoCall
  BY <1>1, <1>2 DEF AnswersTheAsker
<1>3. ASSUME NEW a \in Readers, NEW ids, NEW mark, NEW walks, NEW total,
             Select(a, ids, mark, walks, total), ids \subseteq Mail(a)
      PROVE  AnswersTheAsker'
  <2>1. call'.reader = a /\ call'.ids = ids
    BY <1>3 DEF Select
  <2> QED BY <1>1, <1>3, <2>1 DEF AnswersTheAsker
<1>4. \A a, f, offset : Page(Matching(a, f), offset) \subseteq Mail(a)
  BY DEF Page, Matching
<1>5. ASSUME NEW s, Send(s) PROVE call' = call
  BY <1>5 DEF Send, BeginSend, StoreMessage, StoreFails, Push, MarkPushed, PostMessage
<1>6. ASSUME NEW a \in Readers, Receive(a) PROVE AnswersTheAsker'
  <2>1. ASSUME NEW filter, NEW offset, NEW mark, GetPage(a, filter, offset, mark)
        PROVE  AnswersTheAsker'
    BY <1>3, <1>4, <2>1 DEF GetPage
  <2>2. ASSUME NEW m, NEW mark, GetDetail(a, m, mark) PROVE AnswersTheAsker'
    BY <1>3, <2>2 DEF GetDetail
  <2>3. CASE WalkPage(a)
    BY <1>3, <1>4, <2>3 DEF WalkPage
  <2> QED BY <1>2, <1>6, <2>1, <2>2, <2>3 DEF Receive, StartWalk, MarkMessagesRead, ArchiveMessages
<1> QED BY <1>2, <1>5, <1>6
        DEF Next, FinishRead, Tick, HubChanges, Crash, CompactMessages, vars

(* Filling columns in their order is a climb. *)
LEMMA Climbs ==
    ASSUME UNCHANGED stored, NEW some,
           offered' = offered \cup some
    PROVE  /\ UNCHANGED <<delivered, read>>
                 => Marks' = Letters!Raised(some, Letters!Offer)
           /\ delivered' = delivered \cup some /\ UNCHANGED read
                 => Marks' = Letters!Raised(some, Letters!Deliver)
           /\ delivered' = delivered \cup some /\ read' = read \cup some
                 => Marks' = Letters!Raised(some, Letters!Settle)
BY DEF Marks, Letters!Raised, Letters!Offer, Letters!Deliver, Letters!Settle

LEMMA SameMailbox ==
    /\ \A a : Letters!For(a) = Mail(a)
    /\ UNCHANGED <<stored, row>> => UNCHANGED Envelope
BY DEF Letters!For, Envelope, Mail

(* A step that leaves the rows alone and fills columns of a's messages. *)
LEMMA ColumnsFill ==
    ASSUME NEW a \in Agents, NEW some \in SUBSET Mail(a), NEW rung \in Letters!Ladder,
           Marks' = Letters!Raised(some, rung),
           UNCHANGED <<stored, row, archived, replacedBy>>
    PROVE  Letters!InboxNext
<1>1. Letters!Raise(a, some, rung)
  BY SameMailbox DEF Letters!Raise
<1>2. some \in SUBSET stored
  BY DEF Mail
<1> QED BY <1>1, <1>2 DEF Letters!InboxNext

LEMMA Rungs ==
    /\ Letters!Offer \in Letters!Ladder /\ Letters!Deliver \in Letters!Ladder
    /\ Letters!Settle \in Letters!Ladder
BY DEF Letters!Ladder

LEMMA SelectImplements ==
    ASSUME NEW a \in Agents, NEW ids \in SUBSET Mail(a), NEW mark, NEW walks, NEW total,
           Select(a, ids, mark, walks, total)
    PROVE  Letters!InboxNext
<1>1. Marks' = Letters!Raised(ids, Letters!Deliver)
  BY Climbs DEF Select
<1> QED BY <1>1, ColumnsFill, Rungs DEF Select

LEMMA InsertImplements ==
    ASSUME Typed, NEW s \in Agents, NEW to \in Agents, NEW id \in Ids \ stored,
           NEW fixes, Insert(id, s, to, fixes),
           UNCHANGED <<offered, delivered, read, archived>>
    PROVE  Letters!InboxNext
<1> DEFINE C == Corrected(fixes, s, to)
<1>1. /\ C \in SUBSET stored /\ C \subseteq Mail(to) \ DOMAIN replacedBy
      /\ \A n \in C : Envelope[n].from = s
  BY DEF Corrected, Mail, Envelope, Superseded
<1>2. stored' = stored \cup {id}
  BY DEF Insert
<1>3. Envelope' = [n \in stored' |-> IF n = id THEN [from |-> s, to |-> to] ELSE Envelope[n]]
  <2>1. \A n \in stored' : row'[n] = IF n = id THEN [from |-> s, to |-> to, at |-> now] ELSE row[n]
    BY DEF Insert
  <2> QED BY <1>2, <2>1 DEF Envelope
<1>4. Marks' = [n \in stored' |-> IF n = id THEN {} ELSE Marks[n]]
  <2>1. id \notin offered /\ id \notin delivered /\ id \notin read
    BY DEF Typed, TypeOK
  <2> QED BY <1>2, <2>1 DEF Marks
<1>5. replacedBy' = [n \in DOMAIN replacedBy \cup C |-> IF n \in C THEN id ELSE replacedBy[n]]
  BY DEF Insert, Superseded
<1> HIDE DEF C
<1>6. Letters!Accept(id, s, to, C)
  BY <1>1, <1>2, <1>3, <1>4, <1>5, SameMailbox DEF Letters!Accept
<1> QED BY <1>1, <1>6 DEF Letters!InboxNext

LEMMA SendImplements ==
    ASSUME Typed, Receipts, NEW s \in Senders, Send(s)
    PROVE  Letters!InboxNext \/ UNCHANGED Letters!inboxVars
<1>0. s \in Agents /\ Readers \subseteq Agents
  BY DEF Agents
<1> DEFINE Same == UNCHANGED <<stored, row, delivered, read, archived, replacedBy, offered>>
<1>1. Same => UNCHANGED Letters!inboxVars
  BY SameMailbox DEF Letters!inboxVars, Marks
<1>2. ASSUME NEW to \in Readers, NEW id \in Ids \ stored,
             StoreMessage(s, to, id) \/ PostMessage(s, to, id)
      PROVE  Letters!InboxNext
  BY <1>0, <1>2, InsertImplements DEF StoreMessage, PostMessage
<1>3. ASSUME Push(s) \/ \E works \in BOOLEAN : MarkPushed(s, works)
      PROVE  sends[s].id \in stored /\ row[sends[s].id].to \in Agents
  BY <1>0, <1>3 DEF Push, MarkPushed, Typed, TypeOK, Rows
<1>4. CASE Push(s)
  <2>1. PICK id : id = sends[s].id
    OBVIOUS
  <2>2. id \in Mail(row[id].to) /\ row[id].to \in Agents
    BY <1>3, <1>4, <2>1 DEF Mail
  <2>3. CASE row[id].to \in listening
    <3>1. Marks' = Letters!Raised({id}, Letters!Offer)
      BY <1>4, <2>1, <2>3, Climbs DEF Push
    <3> QED BY <1>4, <2>2, <3>1, ColumnsFill, Rungs DEF Push
  <2>4. CASE row[id].to \notin listening
    BY <1>1, <1>4, <2>1, <2>4 DEF Push
  <2> QED BY <2>3, <2>4
<1>5. ASSUME NEW works \in BOOLEAN, MarkPushed(s, works)
      PROVE  Letters!InboxNext \/ UNCHANGED Letters!inboxVars
  <2>1. PICK id : id = sends[s].id
    OBVIOUS
  <2>2. id \in Mail(row[id].to) /\ row[id].to \in Agents /\ id \in offered
    BY <1>0, <1>3, <1>5, <2>1 DEF Mail, MarkPushed, Receipts, MarkedIsOffered
  <2>3. CASE works
    <3>1. Marks' = Letters!Raised({id}, Letters!Deliver)
      BY <1>5, <2>1, <2>2, <2>3, Climbs DEF MarkPushed
    <3> QED BY <1>5, <2>2, <3>1, ColumnsFill, Rungs DEF MarkPushed
  <2>4. CASE ~works
    BY <1>1, <1>5, <2>4 DEF MarkPushed
  <2> QED BY <2>3, <2>4
<1>6. ASSUME NEW recipients, NEW fixes, BeginSend(s, recipients, fixes) PROVE Same
  BY <1>6 DEF BeginSend
<1>7. CASE StoreFails(s)
  BY <1>1, <1>7 DEF StoreFails
<1> HIDE DEF Same
<1> QED BY <1>1, <1>2, <1>4, <1>5, <1>6, <1>7 DEF Send

LEMMA ReceiveImplements ==
    ASSUME Typed, NEW a \in Readers, Receive(a)
    PROVE  Letters!InboxNext \/ UNCHANGED Letters!inboxVars
<1>0. a \in Agents
  BY DEF Agents
<1>1. ASSUME NEW filter, NEW offset, NEW mark, GetPage(a, filter, offset, mark)
      PROVE  Letters!InboxNext
  <2>1. Page(Matching(a, filter), offset) \in SUBSET Mail(a)
    BY DEF Page, Matching
  <2> QED BY <1>0, <1>1, <2>1, SelectImplements DEF GetPage
<1>2. ASSUME NEW m, NEW mark, GetDetail(a, m, mark) PROVE Letters!InboxNext
  BY <1>0, <1>2, SelectImplements DEF GetDetail
<1>3. CASE WalkPage(a)
  <2>1. Page(Matching(a, UnreadFilter), session[a].offset) \in SUBSET Mail(a)
    BY DEF Page, Matching
  <2> QED BY <1>0, <1>3, <2>1, SelectImplements DEF WalkPage
<1>4. ASSUME NEW kind, StartWalk(a, kind) PROVE UNCHANGED Letters!inboxVars
  BY <1>4, SameMailbox DEF StartWalk, Letters!inboxVars, Marks
<1>5. ASSUME NEW ids, MarkMessagesRead(a, ids) PROVE Letters!InboxNext
  <2> DEFINE marked == (IF ids = {} THEN Mail(a) ELSE Mail(a) \cap ids) \ read
  <2>1. marked \in SUBSET Mail(a)
    OBVIOUS
  <2>2. /\ offered' = offered \cup marked /\ delivered' = delivered \cup marked
        /\ read' = read \cup marked /\ UNCHANGED <<stored, row, archived, replacedBy>>
    BY <1>5 DEF MarkMessagesRead
  <2> HIDE DEF marked
  <2>3. Marks' = Letters!Raised(marked, Letters!Settle)
    BY <2>2, Climbs
  <2> QED BY <1>0, <2>1, <2>2, <2>3, ColumnsFill, Rungs
<1>6. ASSUME NEW scope, NEW mark, ArchiveMessages(a, scope, mark) PROVE Letters!InboxNext
  <2> DEFINE target == (Mail(a) \cap scope) \ archived
             marked == IF mark THEN target \ read ELSE {}
  <2>1. target \in SUBSET Mail(a) /\ marked \in SUBSET target
    OBVIOUS
  <2>2. /\ offered' = offered \cup marked /\ delivered' = delivered \cup marked
        /\ read' = read \cup marked /\ archived' = archived \cup target
        /\ UNCHANGED <<stored, row, replacedBy>>
    BY <1>6 DEF ArchiveMessages
  <2> HIDE DEF target, marked
  <2>3. Marks' = Letters!Raised(marked, Letters!Settle)
    BY <2>2, Climbs
  <2>4. Letters!PutAside(a, target, marked)
    BY <2>1, <2>2, <2>3, SameMailbox DEF Letters!PutAside
  <2>5. target \in SUBSET stored
    BY <2>1 DEF Mail
  <2> QED BY <1>0, <2>1, <2>4, <2>5 DEF Letters!InboxNext
<1> QED BY <1>1, <1>2, <1>3, <1>4, <1>5, <1>6 DEF Receive

(* The mailbox implements Inbox: a recipient may think of its messages as  *)
(* letters that are offered, delivered and settled in this order, and that *)
(* nobody else takes away, for any number of agents and messages, whatever *)
(* calls are cut short by a crash.                                         *)
THEOREM InboxImplemented == Spec => InboxIsImplemented
<1>1. Init => Letters!InboxInit
  <2> SUFFICES ASSUME Init PROVE Letters!InboxInit
    OBVIOUS
  <2>1. stored = {} /\ archived = {} /\ DOMAIN replacedBy = {} /\ replacedBy = [m \in {} |-> None]
    BY DEF Init
  <2>2. Envelope = [m \in {} |-> 0] /\ Marks = [m \in {} |-> {}] /\ replacedBy = [m \in {} |-> 0]
    BY <2>1 DEF Envelope, Marks
  <2> QED BY <2>1, <2>2 DEF Letters!InboxInit
<1>2. Init => AnswersTheAsker
  BY DEF Init, AnswersTheAsker
<1>3. Typed /\ Receipts /\ AnswersTheAsker /\ [Next]_vars
         => [Letters!InboxNext]_(Letters!inboxVars)
  <2> SUFFICES ASSUME Typed, Receipts, AnswersTheAsker, [Next]_vars
               PROVE  Letters!InboxNext \/ UNCHANGED Letters!inboxVars
    OBVIOUS
  <2>1. ASSUME UNCHANGED <<stored, row, delivered, read, archived, replacedBy, offered>>
        PROVE  UNCHANGED Letters!inboxVars
    BY <2>1, SameMailbox DEF Letters!inboxVars, Marks
  <2>2. CASE FinishRead
    <3>1. CASE call.mark
      <4>1. /\ call.ids \in SUBSET Mail(call.reader) /\ call.reader \in Agents
            /\ call.ids \subseteq delivered /\ call.ids \subseteq offered
        BY <2>2 DEF FinishRead, AnswersTheAsker, Agents, Receipts, SelectedIsDelivered,
                    DeliveredWasOffered
      <4>2. Marks' = Letters!Raised(call.ids, Letters!Settle)
        BY <2>2, <3>1, <4>1, Climbs DEF FinishRead
      <4> QED BY <2>2, <4>1, <4>2, ColumnsFill, Rungs DEF FinishRead
    <3>2. CASE ~call.mark
      BY <2>1, <2>2, <3>2 DEF FinishRead
    <3> QED BY <3>1, <3>2
  <2>3. ASSUME NEW days, CompactMessages(days)
        PROVE  Letters!InboxNext
    <3>1. PICK old : old = {m \in read : row[m].at < now - (IF days < 1 THEN 1 ELSE days)
                                                              * TicksPerDay}
      OBVIOUS
    <3>2. /\ archived' = archived \cup old
          /\ UNCHANGED <<stored, row, delivered, read, replacedBy, offered>>
      BY <2>3, <3>1 DEF CompactMessages
    <3>3. old \in SUBSET stored /\ \A m \in old : Marks[m] = Letters!Settle
      <4>1. \A m \in old : m \in read /\ m \in delivered /\ m \in offered /\ m \in stored
        BY <3>1 DEF Receipts, ReadImpliesDelivered, DeliveredWasOffered, Typed, TypeOK
      <4> QED BY <4>1 DEF Marks, Letters!Settle, Letters!Deliver, Letters!Offer
    <3>4. Letters!Sweep(old)
      BY <3>2, <3>3, SameMailbox DEF Letters!Sweep, Marks
    <3> QED BY <3>3, <3>4 DEF Letters!InboxNext
  <2>4. CASE Tick \/ Crash \/ UNCHANGED vars \/ \E a \in Readers : HubChanges(a)
    BY <2>1, <2>4 DEF Tick, Crash, vars, HubChanges
  <2> QED BY <2>2, <2>3, <2>4, SendImplements, ReceiveImplements DEF Next
<1> QED BY <1>1, <1>2, <1>3, TypedInit, TypedStep, ReceiptsAlways, AnswersStep, PTL
        DEF Spec, InboxIsImplemented, Letters!InboxSpec
=============================================================================
