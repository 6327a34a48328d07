-------------------------------- MODULE Server --------------------------------
(***************************************************************************)
(* The life of the server process: start and close, which may overlap, the *)
(* connections of its clients and the calls that come on them, the         *)
(* scheduled compaction of events, and the restore of a snapshot, which    *)
(* swaps the database under them.                                          *)
(*                                                                         *)
(* A closed listener takes no new connection in, and closes those that are *)
(* idle.  One that is not keeps bringing calls in, for as long as its      *)
(* client wants, and the shutdown waits for it: no handler asks whether    *)
(* the server is shutting down.                                            *)
(*                                                                         *)
(* Handles are connections to the database, numbered as they are opened.   *)
(* The memory manager uses the last one; the credential store and the      *)
(* tenant resolver keep the one they were built with.                      *)
(***************************************************************************)
EXTENDS Integers, FiniteSets

CONSTANTS
    Calls,          \* clients, with one connection and one call at a time
    MaxHandles,
    MaxTasks,       \* compactions at once
    MaxTroubles     \* failures of a listener, of a stop or of a file

VARIABLES
    life,       \* lifecycleState
    boot,       \* startServer: "no", "hub", "listen", "up", "ending", "failing", "over"
    stop,       \* shutdownResources: "no", "hub", "compaction", "drain", "done"
    asked,      \* close was called
    hub,        \* the message hub runs
    http,       \* the HTTP server listens
    timer,      \* compaction is scheduled
    tasks,      \* compactions that run
    plain,      \* a request that is no upgrade is held on the hub's port
    running,    \* calls whose handler has not ended
    connected,  \* clients whose connection is open
    idle,       \* those of them that are kept alive between two calls
    backs,      \* call -> the handle its restore backs up first, or None
    handle,     \* of the memory manager
    opened,     \* handles that are open
    restoring,
    troubles

serverVars == <<life, boot, stop, asked, hub, http, timer, tasks, plain,
                running, connected, idle, backs, handle, opened, restoring, troubles>>
starting == <<boot, hub>>
clients == <<connected, idle>>
calling == <<plain, running, backs, handle, restoring>>
serving == <<clients, calling>>

None == 0
First == 1      \* the handle of the constructor

ServerInit ==
    /\ life = "initialized" /\ boot = "no" /\ stop = "no" /\ asked = FALSE
    /\ hub = FALSE /\ http = FALSE /\ timer = FALSE /\ tasks = 0
    /\ plain = FALSE /\ running = {} /\ connected = {} /\ idle = {} /\ backs = [c \in Calls |-> None]
    /\ handle = First /\ opened = {First}
    /\ restoring = FALSE /\ troubles = 0

(* MemoryManager.close *)
CloseDatabase == opened' = opened \ {handle}

Trouble == troubles < MaxTroubles /\ troubles' = troubles + 1
Closing == life \in {"closing", "closed"}

----------------------------------------------------------------------------
(* shutdownResources: the first caller begins it.  With nothing listening it  *)
(* closes the database at once; otherwise new connections stop now, as do the *)
(* idle ones, and the rest follows.                                           *)
Shutdown(hubRuns, listens, then) ==
    IF stop # "no" THEN /\ life' = then /\ http' = listens
                        /\ UNCHANGED <<stop, timer, opened, clients>>
    ELSE IF hubRuns \/ listens
    THEN /\ stop' = "hub" /\ http' = FALSE /\ life' = then
         /\ connected' = connected \ idle /\ idle' = {}
         /\ UNCHANGED <<timer, opened>>
    ELSE /\ stop' = "done" /\ http' = FALSE /\ life' = "closed"
         /\ timer' = FALSE /\ CloseDatabase /\ UNCHANGED clients

Start ==
    /\ life = "initialized"
    /\ life' = "starting" /\ boot' = "hub"
    /\ UNCHANGED <<stop, asked, hub, http, timer, tasks, serving, opened, troubles>>

(* The hub listens: start goes on, unless it was closed meanwhile. *)
HubStarted ==
    /\ boot = "hub" /\ hub' = TRUE
    /\ IF Closing
       THEN boot' = "ending" /\ Shutdown(TRUE, FALSE, life)
       ELSE boot' = "listen" /\ timer' = TRUE /\ UNCHANGED <<life, stop, http, opened, clients>>
    /\ UNCHANGED <<asked, tasks, calling, troubles>>

(* ... and the HTTP server *)
HttpStarted ==
    /\ boot = "listen"
    /\ IF Closing
       THEN boot' = "ending" /\ Shutdown(TRUE, TRUE, life)
       ELSE /\ boot' = "up" /\ http' = TRUE /\ life' = "ready"
            /\ UNCHANGED <<stop, timer, opened, clients>>
    /\ UNCHANGED <<asked, hub, tasks, calling, troubles>>

(* A port is taken. *)
StartFailed ==
    /\ boot \in {"hub", "listen"} /\ Trouble
    /\ boot' = "failing"
    /\ Shutdown(hub, FALSE, "closing")
    /\ UNCHANGED <<asked, hub, tasks, calling>>

(* The start waits for the shutdown it began.  If that failed, an ending start *)
(* is caught as a failed one, and the state is "closing" for good.             *)
StartEnded ==
    /\ boot \in {"ending", "failing"} /\ stop = "done"
    /\ boot' = "over"
    /\ life' = IF boot = "ending" /\ troubles > 0 THEN "closing" ELSE "closed"
    /\ UNCHANGED <<stop, asked, hub, http, timer, tasks, serving, opened, troubles>>

(* the first of the signals a process is stopped with *)
Signal == ~asked /\ asked' = TRUE

(* close: of a server that starts, the start itself shuts it down *)
Close ==
    /\ Signal
    /\ IF life = "closed" THEN UNCHANGED <<life, stop, http, timer, opened, clients>>
       ELSE IF life = "starting"
       THEN life' = "closing" /\ UNCHANGED <<stop, http, timer, opened, clients>>
       ELSE Shutdown(hub, http, "closing")
    /\ UNCHANGED <<starting, tasks, calling, troubles>>

(* a mutant of After: what fails ends the shutdown *)
AfterOrNothing(next) == IF troubles' = troubles THEN next ELSE "failed"

(* A failure is kept for the end, the shutdown goes on. *)
After(next) == next

(* The hub is stopped, whether or not that fails; but its HTTP server, which    *)
(* answers upgrades only, is not closed while a plain request is held there.    *)
StopHub ==
    /\ stop = "hub"
    /\ hub' = FALSE
    /\ (~plain /\ UNCHANGED troubles) \/ (hub /\ Trouble)
    /\ stop' = After("compaction")
    /\ UNCHANGED <<life, boot, asked, http, timer, tasks, serving, opened>>

(* Then no compaction begins any more, and those under way are waited for ... *)
StopCompaction ==
    /\ stop = "compaction"
    /\ timer' = FALSE
    /\ stop' = IF tasks = 0 THEN "drain" ELSE "tasks"
    /\ UNCHANGED <<life, boot, asked, hub, http, tasks, serving, opened, troubles>>

TasksEnded ==
    /\ stop = "tasks" /\ tasks = 0
    /\ stop' = "drain"
    /\ UNCHANGED <<life, boot, asked, hub, http, timer, tasks, serving, opened, troubles>>

(* a mutant of Drained: the database does not wait for the listener *)
DrainedAtOnce == TRUE

(* The listener is closed once no connection is left, idle or not. *)
Drained == connected = {}

(* ... and last the database is closed. *)
Drain ==
    /\ stop = "drain" /\ Drained
    /\ stop' = "done" /\ life' = "closed"
    /\ CloseDatabase
    /\ UNCHANGED <<boot, asked, hub, http, timer, tasks, serving, troubles>>

CompactionBegins ==
    /\ timer /\ tasks < MaxTasks
    /\ tasks' = tasks + 1
    /\ UNCHANGED <<life, boot, stop, asked, hub, http, timer, serving, opened, troubles>>

CompactionEnds ==
    /\ tasks > 0
    /\ tasks' = tasks - 1
    /\ UNCHANGED <<life, boot, stop, asked, hub, http, timer, serving, opened, troubles>>

----------------------------------------------------------------------------
ofLife == <<life, boot, stop, asked, hub, http, timer, tasks, plain>>

(* those of whose next call not everything has come yet: all that have just   *)
(* connected, and those that send again                                       *)
Sending == connected \ (running \union idle)

Connect(c) ==
    /\ http /\ c \notin connected \union running
    /\ connected' = connected \union {c}
    /\ UNCHANGED <<ofLife, running, idle, backs, handle, opened, restoring, troubles>>

Send(c) ==
    /\ c \in idle /\ idle' = idle \ {c}
    /\ UNCHANGED <<ofLife, running, connected, backs, handle, opened, restoring, troubles>>

(* A call that has come gets past the check of the restore flag ... *)
Accept(c) ==
    /\ c \in Sending /\ ~restoring
    /\ running' = running \union {c}
    /\ UNCHANGED <<ofLife, clients, backs, handle, opened, restoring, troubles>>

(* ... or not *)
Refuse(c) ==
    /\ c \in Sending /\ restoring
    /\ idle' = idle \union {c}
    /\ UNCHANGED <<ofLife, running, connected, backs, handle, opened, restoring, troubles>>

(* A handler ends; a connection that is still there is kept alive. *)
Answered(c) ==
    /\ running' = running \ {c} /\ idle' = idle \union ({c} \intersect connected)
    /\ UNCHANGED connected

Answer(c) ==
    /\ c \in running /\ backs[c] = None
    /\ Answered(c)
    /\ UNCHANGED <<ofLife, backs, handle, opened, restoring, troubles>>

(* The client goes away: its connection is closed, a handler runs on. *)
Leave(c) ==
    /\ c \in connected
    /\ connected' = connected \ {c} /\ idle' = idle \ {c}
    /\ UNCHANGED <<ofLife, running, backs, handle, opened, restoring, troubles>>

(* An idle connection is kept for some seconds only. *)
Expire(c) == c \in idle /\ Leave(c)

(* The port of the hub: createServer without a handler of requests *)
PlainRequest ==
    /\ hub /\ ~plain /\ plain' = TRUE
    /\ UNCHANGED <<life, boot, stop, asked, hub, http, timer, tasks, clients, running, backs,
                   handle, opened, restoring, troubles>>
PlainLeaves ==
    /\ plain /\ plain' = FALSE
    /\ UNCHANGED <<life, boot, stop, asked, hub, http, timer, tasks, clients, running, backs,
                   handle, opened, restoring, troubles>>

(* The restore of a snapshot: the flag is set, and the database is backed up. *)
(* On a closed handle it has ended before it awaits anything.                 *)
Restore(c) ==
    /\ c \in running /\ backs[c] = None /\ handle \in opened
    /\ handle + Cardinality({d \in running : backs[d] # None}) < MaxHandles
    /\ backs' = [backs EXCEPT ![c] = handle] /\ restoring' = TRUE
    /\ UNCHANGED <<ofLife, running, clients, handle, opened, troubles>>

RestoreEnds(c) ==
    /\ backs[c] # None
    /\ backs' = [backs EXCEPT ![c] = None] /\ restoring' = FALSE
    /\ Answered(c)

(* Its backup is made: the handle is closed, the file copied and opened. *)
Swap(c) ==
    /\ RestoreEnds(c)
    /\ backs[c] \in opened
    /\ handle' = handle + 1
    /\ opened' = (opened \ {handle}) \union {handle'}
    /\ UNCHANGED <<ofLife, troubles>>

(* The copy fails: what was closed stays closed. *)
CopyFails(c) ==
    /\ RestoreEnds(c) /\ Trouble
    /\ backs[c] \in opened
    /\ CloseDatabase
    /\ UNCHANGED <<ofLife, handle>>

(* The backup fails, or another restore or the shutdown closes its handle. *)
BackupFails(c) ==
    /\ RestoreEnds(c)
    /\ Trouble \/ (backs[c] \notin opened /\ UNCHANGED troubles)
    /\ UNCHANGED <<ofLife, handle, opened>>

----------------------------------------------------------------------------
Booting == HubStarted \/ HttpStarted \/ StartEnded
Stopping == StopHub \/ StopCompaction \/ TasksEnded \/ Drain
RestoreMoves(c) == Swap(c) \/ BackupFails(c)
(* what becomes of a client without its doing *)
Served(c) == Answer(c) \/ RestoreMoves(c) \/ Expire(c)

ServerNext ==
    \/ Start \/ Booting \/ StartFailed \/ Close \/ Stopping
    \/ CompactionBegins \/ CompactionEnds \/ PlainRequest \/ PlainLeaves
    \/ \E c \in Calls : \/ Connect(c) \/ Send(c) \/ Accept(c) \/ Refuse(c) \/ Answer(c) \/ Leave(c)
                         \/ Restore(c) \/ RestoreMoves(c) \/ CopyFails(c)

ServerSpec == ServerInit /\ [][ServerNext]_serverVars

(* A promise that is awaited is settled: of a listener, a compaction, a        *)
(* handler of a call, a backup of the database; and an idle connection         *)
(* expires.                                                                    *)
ServerFairness ==
    /\ WF_serverVars(Booting \/ Stopping) /\ WF_serverVars(CompactionEnds)
    /\ \A c \in Calls : WF_serverVars(Served(c))

FairServerSpec == ServerSpec /\ ServerFairness

----------------------------------------------------------------------------
(* While a connection is open, and whoever waits for an answer has one, the   *)
(* database of the manager is open, unless a restore has lost the file; and   *)
(* once the shutdown is over nothing listens, compacts or holds a handle,     *)
(* whoever began it and however the start went.                               *)
DrainsBeforeClosing ==
    /\ connected # {} /\ troubles = 0 => handle \in opened
    /\ stop = "done" => /\ ~hub /\ ~http /\ ~timer /\ tasks = 0
                        /\ opened = {}

(* The calls are refused for a restore only while one is under way.           *)
FlagIsLowered == restoring => \E c \in running : backs[c] # None

(* A close that was asked for is under way, or the start that it found will    *)
(* come to it; and it ends as closed, unless something failed.                 *)
CloseIsDue ==
    /\ asked /\ stop = "no" => life = "closing" /\ boot \in {"hub", "listen"}
    /\ stop = "done" /\ troubles = 0 => life = "closed"

ServerIsSafe == DrainsBeforeClosing /\ FlagIsLowered /\ CloseIsDue

(* A shutdown that has begun goes through: it is not begun again, takes no     *)
(* connection in, so that what calls still come are of clients that were      *)
(* there, and, once the compactions are waited for, begins none; and a handle *)
(* is closed when no connection is left, or by the restore that backed it up. *)
ServerStep ==
    /\ stop # "no" => stop' # "no" /\ ~http' /\ connected' \subseteq connected
    /\ stop = "done" => stop' = "done" /\ running' \subseteq running
    /\ stop \in {"tasks", "drain", "done"} => tasks' <= tasks
    /\ \A h \in opened \ opened' :
           connected' = {} \/ \E c \in running : backs[c] = h /\ backs'[c] = None

(* If from some time on no client has a call half sent, and none a plain      *)
(* request on the port of the hub, a close that is asked for ends, at         *)
(* whatever point of the start it comes, whoever is still being served and    *)
(* whatever fails on the way.  A client that does neither, or that sends one   *)
(* call after the other, holds it open for as long as it likes.                *)
ClientsRest == <>[](Sending = {} /\ ~plain)
CloseEnds == ClientsRest => (asked ~> stop = "done" /\ (troubles = 0 => life = "closed"))
=============================================================================
