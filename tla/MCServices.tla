----------------------------- MODULE MCServices -----------------------------
(* The services around the control plane in one run of TLC.  They share     *)
(* nothing here: the initial state chooses which of them moves, and the     *)
(* variables of the others stay at a fixed value.                           *)
EXTENDS Integers, Sequences, FiniteSets

CONSTANTS
    Machines,                                           \* those that may be chosen
    MaxFaults, MaxChanges,
    Conns, Owners, HubModes, Patience,                                  \* Hub
    Calls, MaxHandles, MaxTasks, MaxTroubles,                           \* Server
    Items, Cost, Came, Directory, Scopes, Callers, Includes,            \* Resume
    Budgets, Hidden,
    Ids, Ephemeral, Base, Displays, Caps, Ttls, Retain,                 \* Registry
    GcLimit, MaxNow, MaxSends,
    Confs, Requests, Tenants, KeyTenant, Limits, DayLimit, Points,      \* Gate
    MaxTries, MaxAdministered, MaxRequests

VARIABLES
    machine,                                            \* the one that moves
    changes,                                            \* of several of them
    stage, auth, owner, broken, lane, ws, clients, before,        \* Hub
    quiet, seen,
    life, boot, stop, asked, hub, http, timer, tasks, plain,            \* Server
    running, connected, idle, backs, handle, opened, restoring, troubles,
    stamp, gone, hidden, acks, named, walk, steady,                     \* Resume
    rows, now, send, boxes, ended,                                      \* Registry
    conf, link, begun, tries, healthy, backend, counts, faults,         \* Gate
    tenants, keys, used, paced, call, sent, let, served

H == INSTANCE Hub
S == INSTANCE Server
R == INSTANCE Resume_proof WITH Requests <- Includes
A == INSTANCE Registry
G == INSTANCE Gate WITH MaxChanges <- MaxAdministered

(* the assumptions of the proofs about Gate, Registry and Resume *)
ASSUME GateBounds == G!GateAssumption
ASSUME RegistryBounds == A!RegistryAssumption
ASSUME ResumeBounds == R!ResumeAssumption

ofHub == <<stage, auth, owner, broken, lane, ws, clients, before,
         quiet, seen>>
ofServer == <<life, boot, stop, asked, hub, http, timer, tasks, plain, running,
              connected, idle, backs, handle, opened, restoring, troubles>>
ofResume == <<stamp, gone, hidden, acks, named, walk, steady>>
ofRegistry == <<rows, now, send, boxes, ended>>
ofGate == <<conf, link, begun, tries, healthy, backend, counts, faults,
            tenants, keys, used, paced, call, sent, let, served>>
servicesVars == <<machine, changes, ofHub, ofServer, ofResume,
                  ofRegistry, ofGate>>

NoHub ==
    /\ stage = 0 /\ auth = 0 /\ owner = 0 /\ broken = 0 /\ lane = 0
    /\ ws = 0 /\ clients = 0 /\ before = 0 /\ quiet = 0 /\ seen = 0
NoServer ==
    /\ life = "" /\ boot = 0 /\ stop = "" /\ asked = FALSE /\ hub = 0 /\ http = 0
    /\ timer = 0 /\ tasks = 0 /\ plain = FALSE /\ running = {} /\ connected = {} /\ idle = {}
    /\ backs = 0 /\ handle = 0 /\ opened = 0 /\ restoring = 0 /\ troubles = 0
NoResume ==
    /\ stamp = 0 /\ gone = 0 /\ hidden = 0 /\ acks = 0
    /\ named = 0 /\ walk = 0 /\ steady = 0
NoRegistry == rows = 0 /\ now = 0 /\ send = 0 /\ boxes = 0 /\ ended = 0
NoGate ==
    /\ conf = 0 /\ link = 0 /\ begun = 0 /\ tries = 0 /\ healthy = 0 /\ backend = 0
    /\ counts = 0 /\ faults = 0 /\ tenants = 0 /\ keys = 0 /\ used = 0 /\ paced = 0
    /\ call = 0 /\ sent = 0 /\ let = 0 /\ served = 0

ServicesInit ==
    /\ machine \in Machines
    /\ \/ /\ machine = "hub" /\ H!HubInit /\ changes = 0
          /\ NoServer /\ NoResume /\ NoRegistry /\ NoGate
       \/ /\ machine = "server" /\ S!ServerInit /\ changes = 0
          /\ NoHub /\ NoResume /\ NoRegistry /\ NoGate
       \/ /\ machine = "resume" /\ R!ResumeInit
          /\ NoHub /\ NoServer /\ NoRegistry /\ NoGate
       \/ /\ machine = "registry" /\ A!RegistryInit
          /\ NoHub /\ NoServer /\ NoResume /\ NoGate
       \/ /\ machine = "gate" /\ G!GateInit
          /\ NoHub /\ NoServer /\ NoResume /\ NoRegistry

ServicesNext ==
    /\ UNCHANGED machine
    /\ \/ /\ machine = "hub" /\ H!HubNext
          /\ UNCHANGED <<changes, ofServer, ofResume, ofRegistry, ofGate>>
       \/ /\ machine = "server" /\ S!ServerNext
          /\ UNCHANGED <<changes, ofHub, ofResume, ofRegistry, ofGate>>
       \/ /\ machine = "resume" /\ R!ResumeNext
          /\ UNCHANGED <<ofHub, ofServer, ofRegistry, ofGate>>
       \/ /\ machine = "registry" /\ A!RegistryNext
          /\ UNCHANGED <<ofHub, ofServer, ofResume, ofGate>>
       \/ /\ machine = "gate" /\ G!GateNext
          /\ UNCHANGED <<ofHub, ofServer, ofResume, ofRegistry>>

(* The fairness of Server, while it is the one that moves. *)
Moves == machine = "server" /\ (S!Booting \/ S!Stopping)
Compacts == machine = "server" /\ S!CompactionEnds
Serves(c) == machine = "server" /\ S!Served(c)
ServicesFairness ==
    /\ WF_ofServer(Moves) /\ WF_ofServer(Compacts)
    /\ \A c \in Calls : WF_ofServer(Serves(c))

ServicesSpec == ServicesInit /\ [][ServicesNext]_servicesVars
FairServicesSpec == ServicesSpec /\ ServicesFairness
----------------------------------------------------------------------------
(* Hub: three connections, by two agents with and without a proof. *)
MCConns == {"c1", "c2", "c3"}
Claim(t, a, p) == [tenant |-> t, agent |-> a, proof |-> p]
MCOwners ==
    {[c \in MCConns |-> CASE c = "c1" -> Claim(1, "ann", TRUE)
                         [] c = "c2" -> Claim(1, "ann", FALSE)
                         [] OTHER -> Claim(1, "bob", FALSE)],
     [c \in MCConns |-> CASE c = "c1" -> Claim(1, "ann", TRUE)
                         [] c = "c2" -> Claim(1, "bob", FALSE)
                         [] OTHER -> Claim(2, "ann", TRUE)]}

(* Resume: mail, loops and facts of two tenants, by project or task.  The     *)
(* names are those of Resume, which cannot be taken from an instance of it    *)
(* that these values are the constants of.                                    *)
Anyone == "anyone"
NoId == "no entity"
NoName == "no name"
Row(section, tenant, to, key) == [section |-> section, tenant |-> tenant, to |-> to, key |-> key]
MCItems == [i \in {"h1", "h2", "m1", "m2", "l1", "l2", "f1", "f2"} |->
    CASE i = "h1" -> Row("messages", 1, Anyone, <<"p", NoId>>)
      [] i = "h2" -> Row("messages", 2, Anyone, <<"p", NoId>>)
      [] i = "m1" -> Row("messages", 1, "ann", <<"p", NoId>>)
      [] i = "m2" -> Row("messages", 1, "bob", <<NoId, "t">>)
      [] i \in {"l1", "l2"} -> Row("openLoops", 1, NoName, <<"p", NoId>>)
      [] i \in {"f1", "f2"} -> Row("currentFacts", 1, NoName, <<"p", "t">>)]
MCCost == [some \in SUBSET DOMAIN MCItems |->
    Cardinality(some) + Cardinality(some \intersect {"l2", "f1"})]
MCCame == {[h \in {"h1", "h2"} |-> IF h = "h1" THEN 1 ELSE 2]}
MCDirectory == [n \in {"proj", "task", "both"} |->
    CASE n = "proj" -> {"p"} [] n = "task" -> {"t"} [] n = "both" -> {"p", "q"}]
Ref(p, t) == [project |-> p, task |-> t]
MCScopes == {Ref("proj", NoName), Ref("proj", "task"), Ref("both", "task")}
MCCallers == [c \in {"Ann", "bob"} |-> IF c = "Ann" THEN "ann" ELSE "bob"]
MCIncludes == {{"messages", "openLoops", "currentFacts"}, {"messages", "currentFacts"}}

(* Registry: an agent with an alias and a display name, and an ephemeral one. *)
MCBase == [x \in {"ann", "ann-cli", "e1", "Ann", "Eve"} |->
    CASE x \in {"ann", "ann-cli", "Ann"} -> "ann" [] x = "e1" -> "e1" [] x = "Eve" -> "eve"]

(* Gate: one key or many tenants, with Redis and without. *)
Conf(m, s, r, d) == [multi |-> m, server |-> s, redis |-> r, dev |-> d, jwt |-> m]
MCConfs == {Conf(FALSE, "none", FALSE, FALSE), Conf(FALSE, "plain", TRUE, TRUE),
            Conf(TRUE, "nac", TRUE, FALSE)}
Token(o, a, m) == [org |-> o, asks |-> a, member |-> m]
NoToken == Token("none", "none", {})
Call(p, j, k, d) == [path |-> p, jwt |-> j, key |-> k, dev |-> d]
MCRequests ==
    {Call("call", Token("acme", "default", {"default"}), "k1", "none"),
     Call("message", Token("acme", "default", {}), "k1", "none"),
     Call("message", NoToken, "server", "acme"), Call("call", NoToken, "junk", "none")}
MCKeyTenant == [k \in {"k1"} |-> "acme"]

----------------------------------------------------------------------------
(* Presence and the table of clients follow the connections (message-hub).    *)
HubIsSafe == machine = "hub" => H!HubIsSafe

(* The database outlives every connection, nothing outlives the shutdown, and *)
(* a close that was asked for is not forgotten.                               *)
ServerIsSafe == machine = "server" => S!ServerIsSafe

(* A shutdown comes to its end from any point of the start, if its clients    *)
(* let it.                                                                    *)
CloseEnds == S!CloseEnds

(* A resume says what it leaves out, and a walk over its pages arrives.       *)
ResumeIsSound == machine = "resume" => R!ResumeIsSound

(* A broadcast reaches whom it was for, and the two views of who is there     *)
(* agree.                                                                     *)
RegistryIsSound == machine = "registry" => A!RegistryIsSound

(* The limits hold while Redis comes and goes.                                *)
GateIsSafe == machine = "gate" => G!GateIsSafe

(* What no single step may do: tell a client out of use anything, take a      *)
(* shutdown back or the database from a call, keep half of the                *)
(* acknowledgements of one call, collect a registration that is in use.       *)
StepIsSafe ==
    /\ machine = "hub" => H!HubStep
    /\ machine = "server" => S!ServerStep
    /\ machine = "resume" => R!ResumeStep
    /\ machine = "registry" => A!RegistryStep
StepsAreSafe == [][StepIsSafe]_servicesVars

(* resume.ts: what a page leaves out follows on the next ones.                *)
RemainderFollows == machine = "resume" => R!RemainderFollows

(* security.ts: a tenant is held to its quota of the day.                     *)
DailyQuotaHolds == machine = "gate" => G!DailyQuotaHolds
=============================================================================
