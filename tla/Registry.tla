------------------------------- MODULE Registry -------------------------------
(***************************************************************************)
(* The agent registrations of one tenant: who registers, unregisters and   *)
(* expires, what the garbage collectors delete, whom a broadcast reaches,  *)
(* and the two views that say who is there.                                *)
(*                                                                         *)
(* Each tool call is synchronous but send_ai_message, which computes its   *)
(* recipients once and awaits the store of each message: registrations     *)
(* change between two recipients.  Time is counted in days.                *)
(***************************************************************************)
EXTENDS Integers, Sequences, FiniteSetsExt

CONSTANTS
    Ids,        \* agent ids
    Ephemeral,  \* those of them that a bridge made up for one process
    Base,       \* id or display name -> its canonical form
    Displays,   \* display names agents register with
    Caps,       \* capability lists, sets
    Ttls,       \* days a registration may be given, or Forever
    Retain,     \* days migration 004 keeps an ephemeral id for
    GcLimit, MaxNow, MaxSends, MaxChanges

Forever == 99

RegistryAssumption ==
    /\ MaxNow \in Nat \ {0} /\ MaxNow < Forever     \* no day is the last one
    /\ Ttls \subseteq Nat /\ Retain \in Nat /\ GcLimit \in Nat

VARIABLES
    rows,       \* id -> registration, for the registered
    now,
    send,       \* the broadcast that is running
    boxes,      \* message of the n-th broadcast -> how often each id got it
    ended,      \* history of the broadcasts: who had to get each, and who might
    changes

registryVars == <<rows, now, send, boxes, ended, changes>>

Quiet == [on |-> FALSE]

RegistryInit ==
    /\ rows = <<>> /\ now = 1 /\ send = Quiet /\ boxes = <<>> /\ ended = <<>> /\ changes = 0

----------------------------------------------------------------------------
(* inferCanonicalAgentId: an ephemeral id stands for the name it displays *)
Canonical(id) ==
    IF id \in Ephemeral THEN Base[rows[id].name] ELSE Base[id]

Expired(row) == row.expires # Forever /\ row.expires <= now

(* effectiveRegistrationStatus *)
Status(row) ==
    IF row.status = "active" /\ Expired(row) THEN "expired" ELSE row.status

Canonicals == {Canonical(id) : id \in DOMAIN rows}

(* The sessions of an agent.  Both views go through them newest first; rows  *)
(* of one moment come in any order.                                          *)
Sessions(agent) == {id \in DOMAIN rows : Canonical(id) = agent}
IsNewest(id, sessions) == \A other \in sessions : rows[other].updated <= rows[id].updated
IsOldest(id, sessions) == \A other \in sessions : rows[id].updated <= rows[other].updated

(* get_agent_status, its canonical rollup: any active session makes the agent  *)
(* active, and with none it has the status of the last one                     *)
Rollup(agent) ==
    LET sessions == Sessions(agent)
        active == \E id \in sessions : Status(rows[id]) = "active"
        last == CHOOSE id \in sessions : IsOldest(id, sessions)
    IN [sessions |-> Cardinality(sessions),
        status |-> IF active THEN "active" ELSE Status(rows[last]),
        seen |-> Max({rows[id].updated : id \in sessions}),
        caps |-> UNION {rows[id].caps : id \in sessions}]

(* /api/agent-status, its canonical roster: the newest session speaks for the agent *)
Roster(agent) ==
    LET sessions == Sessions(agent)
        newest == CHOOSE id \in sessions : IsNewest(id, sessions)
        status == Status(rows[newest])
    IN [seen |-> rows[newest].updated,
        status |-> IF status # "active" THEN status
                   ELSE IF rows[newest].updated = now THEN "active" ELSE "offline"]

----------------------------------------------------------------------------
Change == changes < MaxChanges /\ changes' = changes + 1

(* What a change of the registrations means for a broadcast that is running: *)
(* who was not there all the while need not get it.                          *)
Watch == send' = IF send.on
                 THEN [send EXCEPT !.must = {id \in @ : id \in DOMAIN rows' /\ Status(rows'[id]) = "active"}]
                 ELSE send

(* register_agent, also the heartbeat of a bridge *)
Register ==
    /\ Change
    /\ \E id \in Ids, name \in Displays, caps \in Caps, ttl \in Ttls :
          LET row == [name |-> name, caps |-> caps, status |-> "active", updated |-> now,
                      expires |-> IF ttl = Forever THEN Forever ELSE now + ttl]
          IN rows' = [i \in DOMAIN rows \union {id} |-> IF i = id THEN row ELSE rows[i]]
    /\ Watch
    /\ UNCHANGED <<now, boxes, ended>>

(* unregister_agent; its metadata, and with it the expiry, stays *)
Unregister ==
    /\ Change
    /\ \E id \in DOMAIN rows :
          rows' = [rows EXCEPT ![id].status = "inactive", ![id].updated = now]
    /\ Watch
    /\ UNCHANGED <<now, boxes, ended>>

Reasons(row, expired, age) ==
    (IF expired /\ Expired(row) THEN {"expired"} ELSE {})
      \union (IF age # Forever /\ row.status # "active" /\ now - row.updated >= age
              THEN {"inactive_stale"} ELSE {})

(* the oldest up to the limit, each way to choose among those of one moment *)
Candidates(expired, age) ==
    LET found == {id \in DOMAIN rows : Reasons(rows[id], expired, age) # {}}
    IN {batch \in SUBSET found :
            /\ Cardinality(batch) = Min({GcLimit, Cardinality(found)})
            /\ \A id \in batch, left \in found \ batch : rows[id].updated <= rows[left].updated}

Without(ids) == [i \in DOMAIN rows \ ids |-> rows[i]]

(* gc_agent_registrations, not a dry run *)
Collect ==
    /\ Change
    /\ \E expired \in BOOLEAN, age \in {0, 1, Forever} :
          \E batch \in Candidates(expired, age) \ {{}} : rows' = Without(batch)
    /\ Watch
    /\ UNCHANGED <<now, boxes, ended>>

(* migration 004: the throwaway ids not seen in the last days *)
CollectEphemeral ==
    /\ Change
    /\ rows' = Without({id \in DOMAIN rows \intersect Ephemeral : rows[id].updated < now - Retain})
    /\ Watch
    /\ UNCHANGED <<now, boxes, ended>>

Tick ==
    /\ now < MaxNow /\ now' = now + 1
    /\ send' = IF send.on
               THEN [send EXCEPT !.must = {id \in @ : rows[id].expires > now + 1}] ELSE send
    /\ UNCHANGED <<rows, boxes, ended, changes>>

----------------------------------------------------------------------------
(* a mutant of Reached: by the stored status *)
ReachedIfStored(want) ==
    {id \in DOMAIN rows : rows[id].status = "active" /\ want \subseteq rows[id].caps}

(* send_ai_message, its recipients: all who are active, or who have all of *)
(* some capabilities                                                       *)
Reached(want) ==
    {id \in DOMAIN rows : Status(rows[id]) = "active" /\ want \subseteq rows[id].caps}

Send ==
    /\ ~send.on /\ Len(ended) < MaxSends
    /\ \E from \in Ids, want \in Caps, alone \in BOOLEAN :
          LET to == Reached(want) \ (IF alone THEN {from} ELSE {})
              live == {id \in DOMAIN rows : rows[id].status = "active" /\ rows[id].expires > now
                                            /\ want \subseteq rows[id].caps}
          IN /\ send' = [on |-> TRUE, todo |-> to, not |-> IF alone THEN {from} ELSE {},
                         must |-> live, may |-> live]
             /\ boxes' = Append(boxes, [id \in Ids |-> 0])
    /\ UNCHANGED <<rows, now, ended, changes>>

(* the store of one message ends, and the next one begins *)
Deliver ==
    /\ send.on
    /\ \E id \in send.todo :
          /\ boxes' = [boxes EXCEPT ![Len(boxes)][id] = @ + 1]
          /\ send' = [send EXCEPT !.todo = @ \ {id}]
    /\ UNCHANGED <<rows, now, ended, changes>>

End(failed) ==
    /\ ended' = Append(ended, [must |-> send.must \ send.not, may |-> send.may \ send.not,
                               failed |-> failed])
    /\ send' = Quiet
    /\ UNCHANGED <<rows, now, boxes, changes>>

(* The answer names those it was stored for; a failure names nobody, and the *)
(* messages stored before it stay.                                           *)
Answer == send.on /\ send.todo = {} /\ End(FALSE)
StoreFails == send.on /\ send.todo # {} /\ End(TRUE)

RegistryNext ==
    \/ Register \/ Unregister \/ Collect \/ CollectEphemeral \/ Tick
    \/ Send \/ Deliver \/ Answer \/ StoreFails

RegistrySpec == RegistryInit /\ [][RegistryNext]_registryVars

----------------------------------------------------------------------------
(* A broadcast that ends well is in the mailbox of each agent that was active, *)
(* with the capabilities it asked for, from its first step to its last; none   *)
(* gets it twice, also when it fails; and none who was not active gets it.     *)
BroadcastReaches ==
    \A n \in DOMAIN ended : \A id \in Ids :
        /\ boxes[n][id] <= 1
        /\ boxes[n][id] = 1 => id \in ended[n].may
        /\ id \in ended[n].must /\ ~ended[n].failed => boxes[n][id] = 1

(* The three answers to who is there agree: the tool says that an agent is     *)
(* active exactly when a broadcast reaches one of its sessions, and one the    *)
(* roster shows as active is one of these.                                     *)
ViewsAgree ==
    \A agent \in Canonicals :
        /\ Rollup(agent).status = "active" <=> \E id \in Reached({}) : Canonical(id) = agent
        /\ Roster(agent).status = "active" => Rollup(agent).status = "active"
        /\ Rollup(agent).seen = Roster(agent).seen

RegistryIsSound == BroadcastReaches /\ ViewsAgree

(* The collectors delete no registration that is active and was renewed lately: *)
(* what they take is expired, inactive, or an ephemeral id nobody renewed.      *)
RegistryStep ==
    \A id \in DOMAIN rows \ DOMAIN rows' :
        Status(rows[id]) = "active" => id \in Ephemeral /\ now - rows[id].updated > Retain
=============================================================================
