-------------------------------- MODULE Inbox --------------------------------
(***************************************************************************)
(* What the mailbox promises of each message, whatever calls, pages,       *)
(* sockets and crashes are in between (docs of send_ai_message and         *)
(* get_ai_messages; the columns of ai_messages in                          *)
(* unified-server/memory/index.ts): a message climbs from stored over      *)
(* offered and delivered to read and never back; one step concerns the     *)
(* messages of one recipient; and what has not been read disappears from   *)
(* an inbox by its owner's act or by a correction of its own sender only.  *)
(***************************************************************************)
CONSTANTS Message, Agent

VARIABLES
    sent,      \* messages that were accepted
    envelope,  \* sender and recipient of each
    marks,     \* how far each has come: a member of Ladder
    aside,     \* put aside (archived)
    corrected  \* what superseded a message, of those that something has

inboxVars == <<sent, envelope, marks, aside, corrected>>

Offer   == {"offered"}
Deliver == Offer \cup {"delivered"}
Settle  == Deliver \cup {"read"}
Ladder  == {{}, Offer, Deliver, Settle}

For(a) == {m \in sent : envelope[m].to = a}
Raised(some, rung) ==
    [m \in sent |-> IF m \in some THEN marks[m] \cup rung ELSE marks[m]]

InboxInit ==
    /\ sent = {} /\ envelope = [m \in {} |-> 0] /\ marks = [m \in {} |-> {}]
    /\ aside = {} /\ corrected = [m \in {} |-> 0]

(* A new message, which may correct some of the same sender to the same    *)
(* recipient that nothing has corrected.                                   *)
Accept(m, from, to, some) ==
    /\ m \notin sent
    /\ some \subseteq For(to) \ DOMAIN corrected
    /\ \A n \in some : envelope[n].from = from
    /\ sent' = sent \cup {m}
    /\ envelope' = [n \in sent' |-> IF n = m THEN [from |-> from, to |-> to]
                                             ELSE envelope[n]]
    /\ marks' = [n \in sent' |-> IF n = m THEN {} ELSE marks[n]]
    /\ corrected' = [n \in DOMAIN corrected \cup some |->
                        IF n \in some THEN m ELSE corrected[n]]
    /\ UNCHANGED aside

(* Some of a's messages come at least as far as rung. *)
Raise(a, some, rung) ==
    /\ some \subseteq For(a)
    /\ marks' = Raised(some, rung)
    /\ UNCHANGED <<sent, envelope, aside, corrected>>

(* a puts some of its messages aside, and settles some of those. *)
PutAside(a, some, settled) ==
    /\ some \subseteq For(a) /\ settled \subseteq some
    /\ aside' = aside \cup some
    /\ marks' = Raised(settled, Settle)
    /\ UNCHANGED <<sent, envelope, corrected>>

(* The server puts aside what was read, of anybody. *)
Sweep(some) ==
    /\ some \subseteq {m \in sent : marks[m] = Settle}
    /\ aside' = aside \cup some
    /\ UNCHANGED <<sent, envelope, marks, corrected>>

InboxNext ==
    \/ \E m \in Message, from, to \in Agent, some \in SUBSET sent : Accept(m, from, to, some)
    \/ \E a \in Agent, some \in SUBSET sent :
           \/ \E rung \in Ladder : Raise(a, some, rung)
           \/ \E settled \in SUBSET some : PutAside(a, some, settled)
    \/ \E some \in SUBSET sent : Sweep(some)

InboxSpec == InboxInit /\ [][InboxNext]_inboxVars
=============================================================================
