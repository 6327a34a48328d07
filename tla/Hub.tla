-------------------------------- MODULE Hub ---------------------------------
(***************************************************************************)
(* The message hub: the WebSocket connections of agents, the table of      *)
(* registered clients, presence events, eviction and the stop.             *)
(*                                                                         *)
(* Every handler is one turn of the event loop, and a broadcast calls back *)
(* into the disconnection of clients it finds inactive.  What a pushed     *)
(* message says is left out, and with it the subscriptions that choose its *)
(* receivers: of a push, the model keeps what it does to the clients.      *)
(***************************************************************************)
EXTENDS Integers, FiniteSets

CONSTANTS
    Conns,      \* connections
    Owners,     \* functions: connection -> [tenant, agent, proof]
    HubModes,   \* authentication modes the hub is built with
    Patience    \* ticks a client may be quiet: two of 30 s, by the third one its
                \* heartbeat is more than 60 s old

VARIABLES
    stage,      \* "up", "stopping" or "stopped"
    auth,       \* the authentication mode
    owner,      \* connection -> what its upgrade claims, proof or no proof
    broken,     \* connections whose key or credential is no longer good
    lane,       \* [tenant, agent] -> enforcement state
    ws,         \* connection -> "none", "open", "closing" or "closed"
    clients,    \* the registered connections: the keys of the Map
    before,     \* pairs of them, the first before the second in its order
    quiet,      \* connection -> ticks of the monitor since its last heartbeat
    seen        \* connection -> agents that are online by the events it was
                \* sent since it registered

hubVars == <<stage, auth, owner, broken, lane, ws, clients, before, quiet, seen>>
table == <<clients, before>>
principal == <<auth, owner, broken, lane>>

Nowhere == 0        \* no tenant

LaneOf(c) == [tenant |-> owner[c].tenant, agent |-> owner[c].agent]

HubInit ==
    /\ stage = "up" /\ auth \in HubModes
    /\ owner \in Owners
    /\ broken = {}
    /\ lane = [l \in {LaneOf(c) : c \in Conns} |-> "staged"]
    /\ ws = [c \in Conns |-> "none"]
    /\ clients = {} /\ before = {}
    /\ quiet = [c \in Conns |-> 0] /\ seen = [c \in Conns |-> {}]

----------------------------------------------------------------------------
(* without a proof the mode must leave room for the agent *)
Claimable(l) ==
    /\ auth # "required"
    /\ lane[l] # "disabled"
    /\ auth = "mixed" => lane[l] # "enforced"

(* authenticateMessageHubRequest: the key, then the credential or the mode *)
Authenticates(c) ==
    /\ c \notin broken
    /\ IF owner[c].proof THEN lane[LaneOf(c)] # "disabled" ELSE Claimable(LaneOf(c))

(* isPrincipalActive asks the same again, of the key and the credential the    *)
(* upgrade was made with                                                       *)
Active(c) == Authenticates(c)

(* a mutant of Stays: it looks at the key or credential alone *)
StaysUnbroken(c) == c \notin broken

(* isClientActive *)
Stays(c) == Active(c)

Agents(tenant, conns) == {owner[d].agent : d \in {e \in conns : owner[e].tenant = tenant}}

(* a mutant of Offline: a client evicted by a broadcast leaves without a word *)
OfflineOnce(tenant, left, evicted) == Agents(tenant, left)

(* the agents a client of the tenant hears going offline *)
Offline(tenant, left, evicted) == Agents(tenant, left \union evicted)

(* broadcastEvent to the clients `told`, in their order: that the agents      *)
(* `joined` of the tenant are online, or, with nobody joined, that those of   *)
(* the connections `left` are not.  A client found inactive is closed and     *)
(* removed, and its going offline broadcast at once, inside the loop: the     *)
(* clients before the first inactive one hear the event before that, those    *)
(* after it hear it last.                                                     *)
Tell(told, order, tenant, joined, left, sockets) ==
    LET evicted == {c \in told : ~Stays(c)}
        early(c) == \A d \in evicted : <<c, d>> \in order
        offline(c) == Offline(owner[c].tenant, left, evicted)
        joins(c) == IF owner[c].tenant = tenant THEN joined ELSE {}
    IN /\ clients' = told \ evicted
       /\ before' = order \intersect (clients' \X clients')
       /\ ws' = [c \in Conns |-> IF c \in evicted THEN "closing" ELSE sockets[c]]
       /\ seen' = [c \in Conns |->
             IF c \notin told \ evicted THEN {}
             ELSE IF ws[c] # "open" THEN seen[c]
             ELSE IF early(c) THEN (seen[c] \union joins(c)) \ offline(c)
             ELSE (seen[c] \ offline(c)) \union joins(c)]

(* handleClientDisconnect of one client after the other *)
Disconnect(left, sockets) ==
    IF left \intersect clients = {}
    THEN ws' = sockets /\ UNCHANGED <<table, seen>>
    ELSE Tell(clients \ left, before, Nowhere, {}, left \intersect clients, sockets)

----------------------------------------------------------------------------
(* The upgrade: a good key, and a proof of the agent or a claim the mode     *)
(* leaves room for.  The port is open until the stop is over.                *)
Connect(c) ==
    /\ stage # "stopped" /\ ws[c] = "none" /\ Authenticates(c)
    /\ ws' = [ws EXCEPT ![c] = "open"]
    /\ UNCHANGED <<stage, principal, table, quiet, seen>>

(* A socket that is being closed may have messages on the way. *)
Receives(c) == ws[c] \in {"open", "closing"} /\ stage # "stopped"

(* handleClientMessage of an inactive principal: the socket is asked to close, *)
(* and the client is removed, which tells the others.                          *)
Refuse(c) ==
    /\ Receives(c) /\ ~Active(c)
    /\ Disconnect({c}, [ws EXCEPT ![c] = "closing"])
    /\ UNCHANGED <<stage, principal, quiet>>

(* handleClientRegistration, of the agent of the upgrade: Map.set keeps the    *)
(* place of a connection it knows.                                             *)
Register(c) ==
    /\ Receives(c) /\ Active(c)
    /\ Tell(clients \union {c},
            IF c \in clients THEN before ELSE before \union (clients \X {c}),
            owner[c].tenant, {owner[c].agent}, {}, ws)
    /\ quiet' = [quiet EXCEPT ![c] = 0]
    /\ UNCHANGED <<stage, principal>>

(* handleHeartbeat: of a client that is not registered it changes nothing *)
Heartbeat(c) ==
    /\ Receives(c) /\ Active(c) /\ c \in clients
    /\ quiet' = [quiet EXCEPT ![c] = 0]
    /\ UNCHANGED <<stage, principal, ws, table, seen>>

(* notifyNewMessage, of a message just stored: like every broadcast it removes *)
(* the clients that are not active any more.                                   *)
Push ==
    /\ stage # "stopped"
    /\ Tell(clients, before, Nowhere, {}, {}, ws)
    /\ UNCHANGED <<stage, principal, quiet>>

(* The socket is closed, by its client or as the server asked, or it fails. *)
Close(c) ==
    /\ ws[c] \in {"open", "closing"}
    /\ Disconnect({c}, [ws EXCEPT ![c] = "closed"])
    /\ UNCHANGED <<stage, principal, quiet>>

(* startHeartbeatMonitoring: a client that was quiet for too long is removed,  *)
(* its socket stays as it is.                                                  *)
Monitor ==
    /\ stage = "up"
    /\ Disconnect({c \in clients : quiet[c] >= Patience}, ws)
    /\ quiet' = [c \in Conns |->
          IF c \in clients /\ quiet[c] < Patience THEN quiet[c] + 1 ELSE 0]
    /\ UNCHANGED <<stage, principal>>

(* A key expires or loses its permission, a credential is revoked or expires. *)
Break(c) ==
    /\ broken' = broken \union {c}
    /\ c \notin broken
    /\ UNCHANGED <<stage, auth, owner, lane, ws, table, quiet, seen>>

(* The operator promotes an agent; no shipped program disables one. *)
Enforce(l) ==
    /\ lane[l] = "staged"
    /\ lane' = [lane EXCEPT ![l] = "enforced"]
    /\ UNCHANGED <<stage, auth, owner, broken, ws, table, quiet, seen>>

(* stop: every socket is asked to close ... *)
Stop ==
    /\ stage = "up"
    /\ stage' = "stopping"
    /\ ws' = [c \in Conns |-> IF ws[c] = "open" THEN "closing" ELSE ws[c]]
    /\ UNCHANGED <<principal, table, quiet, seen>>

(* ... and after a grace those that are left are terminated.  Their close      *)
(* events find the table empty.                                                *)
Terminate ==
    /\ stage = "stopping"
    /\ stage' = "stopped"
    /\ ws' = [c \in Conns |-> IF ws[c] = "none" THEN "none" ELSE "closed"]
    /\ clients' = {} /\ before' = {} /\ seen' = [c \in Conns |-> {}]
    /\ quiet' = [c \in Conns |-> 0]
    /\ UNCHANGED principal

HubNext ==
    \/ \E c \in Conns : \/ Connect(c) \/ Refuse(c) \/ Register(c) \/ Heartbeat(c)
                         \/ Close(c) \/ Break(c)
    \/ \E l \in DOMAIN lane : Enforce(l)
    \/ Push \/ Monitor \/ Stop \/ Terminate

HubSpec == HubInit /\ [][HubNext]_hubVars

----------------------------------------------------------------------------
(* An agent that a client has heard to be online has a registered connection  *)
(* in the client's own tenant, whatever was evicted on the way, in whatever   *)
(* order the nested broadcasts reached the client.                            *)
PresenceIsTrue ==
    \A c \in clients : ws[c] = "open" =>
        seen[c] \subseteq Agents(owner[c].tenant, clients)

(* A connection the hub closed because its proof lapsed does not come back to *)
(* the table, and no closed one is in it.                                     *)
TableIsLive ==
    \A c \in clients :
        /\ ws[c] \in {"open", "closing"}
        /\ ws[c] = "closing" => stage = "stopping"

HubIsSafe == PresenceIsTrue /\ TableIsLive

(* A step that tells anybody anything leaves no inactive client registered:   *)
(* none hears of presence or of mail after its key, its credential or its     *)
(* agent was taken out of use.                                                *)
HubStep ==
    \A c \in clients :
        ~Active(c) /\ <<clients, seen>>' # <<clients, seen>> => c \notin clients'
=============================================================================
