---------------------------- MODULE Services_proof ----------------------------
(***************************************************************************)
(* Proofs about the services: those of Server, for any number of calls,    *)
(* handles, compactions and failures; those of Gate, for any requests,     *)
(* tenants, limits and faults; those of Hub, for any number of connections *)
(* and agents; those of Registry, for any registrations and any number of  *)
(* broadcasts; and what they and those of Resume say of a run of           *)
(* MCServices.                                                             *)
(***************************************************************************)
EXTENDS MCServices, WellFoundedInduction, TLAPS

(* Server *)
Flags ==
    /\ hub \in BOOLEAN /\ http \in BOOLEAN /\ timer \in BOOLEAN
    /\ asked \in BOOLEAN /\ restoring \in BOOLEAN
Counts ==
    /\ life \in {"initialized", "starting", "ready", "closing", "closed"}
    /\ tasks \in Nat /\ troubles \in Nat /\ handle \in Nat \ {S!None}
    /\ backs \in [Calls -> Nat]
Typed == Flags /\ Counts

(* The start and the shutdown take turns: while the start is under way a close *)
(* only leaves word, and what ends the start begins the shutdown.              *)
InTurns ==
    /\ boot \in {"hub", "listen"} =>
           stop = "no" /\ (life = "starting" \/ (life = "closing" /\ asked))
    /\ life = "starting" => boot \in {"hub", "listen"}
    /\ life = "initialized" => boot = "no" /\ stop = "no" /\ ~hub /\ ~http
    /\ stop = "no" => boot \in {"hub", "listen"} \/ life \in {"initialized", "ready"}
    /\ life = "ready" => stop = "no"

(* What the steps of the shutdown have put an end to stays ended. *)
Ended ==
    /\ stop # "no" => ~http
    /\ stop \notin {"no", "hub"} => ~hub
    /\ stop \in {"tasks", "drain", "done"} => ~timer
    /\ stop \in {"drain", "done"} => tasks = 0
    /\ stop = "no" /\ ~hub => ~timer /\ tasks = 0
    /\ boot = "hub" => ~hub
    /\ boot \in {"hub", "listen"} => ~http
    /\ stop = "no" /\ ~http => connected = {}
    /\ stop = "done" => connected = {}

(* One handle is open, that of the manager, unless a failed restore or the end *)
(* has closed it.                                                              *)
OneHandle ==
    /\ opened \subseteq {handle}
    /\ stop # "done" /\ troubles = 0 => handle \in opened
    /\ stop = "done" => opened = {}

(* Who backs up before a restore is a call that runs. *)
BackedByCalls == \A c \in Calls : backs[c] # S!None => c \in running

ServerInv ==
    Typed /\ InTurns /\ Ended /\ OneHandle /\ BackedByCalls /\ S!FlagIsLowered

LEMMA ServerBegins == S!ServerInit => ServerInv
<1> SUFFICES ASSUME S!ServerInit PROVE ServerInv
  OBVIOUS
<1> USE DEF S!ServerInit, S!None, S!First
<1>1. Flags
  BY DEF Flags
<1>5. Counts
  BY DEF Counts
<1>2. InTurns /\ Ended
  BY DEF InTurns, Ended
<1>3. OneHandle
  BY DEF OneHandle
<1>4. BackedByCalls /\ S!FlagIsLowered
  BY DEF BackedByCalls, S!FlagIsLowered
<1> QED BY <1>1, <1>2, <1>3, <1>4, <1>5 DEF ServerInv, Typed

(* shutdownResources: nothing, its first step, or all of it at once. *)
LEMMA ShutdownEffect ==
    ASSUME NEW hubRuns \in BOOLEAN, NEW listens \in BOOLEAN, NEW then,
           S!Shutdown(hubRuns, listens, then)
    PROVE  \/ /\ stop # "no" /\ life' = then /\ (http' <=> listens) /\ http' \in BOOLEAN
              /\ stop' = stop /\ timer' = timer /\ opened' = opened /\ connected' = connected
           \/ /\ stop = "no" /\ life' = then /\ http' = FALSE
              /\ stop' = "hub" /\ timer' = timer /\ opened' = opened /\ connected' \subseteq connected
           \/ /\ stop = "no" /\ ~hubRuns /\ ~listens /\ life' = "closed" /\ http' = FALSE
              /\ stop' = "done" /\ timer' = FALSE /\ opened' = opened \ {handle}
              /\ connected' = connected
BY DEF S!Shutdown, S!CloseDatabase, S!clients

(* The handle stays as it is, or is closed for good. *)
LEMMA HandleKeeps ==
    ASSUME Typed, OneHandle, handle' = handle,
           troubles' = troubles \/ troubles' = troubles + 1,
           \/ opened' = opened /\ (stop' = "done" <=> stop = "done")
           \/ opened' = opened \ {handle} /\ stop' = "done"
    PROVE  OneHandle'
<1>1. opened' \subseteq {handle'}
  BY DEF OneHandle
<1>2. troubles' = 0 => troubles = 0
  BY DEF Typed, Counts
<1>3. stop' # "done" /\ troubles' = 0 => handle' \in opened'
  BY <1>2 DEF OneHandle
<1>4. stop' = "done" => opened' = {}
  BY DEF OneHandle
<1> QED BY <1>1, <1>3, <1>4 DEF OneHandle

(* The start and the shutdown touch no call, and close connections at most. *)
LEMMA OnlyFewer ==
    ASSUME S!Start \/ S!Booting \/ S!StartFailed \/ S!Close \/ S!Stopping
             \/ S!CompactionBegins \/ S!CompactionEnds
    PROVE  UNCHANGED <<running, backs, handle, restoring>> /\ connected' \subseteq connected
<1> USE DEF S!serving, S!calling, S!clients, S!starting, S!Shutdown
<1>1. CASE S!Start \/ S!StartEnded \/ S!CompactionBegins \/ S!CompactionEnds
  BY <1>1 DEF S!Start, S!StartEnded, S!CompactionBegins, S!CompactionEnds
<1>2. CASE S!HubStarted \/ S!HttpStarted \/ S!StartFailed
  BY <1>2 DEF S!HubStarted, S!HttpStarted, S!StartFailed
<1>3. CASE S!Close
  BY <1>3 DEF S!Close
<1>4. CASE S!Stopping
  BY <1>4 DEF S!Stopping, S!StopHub, S!StopCompaction, S!TasksEnded, S!Drain
<1> QED BY <1>1, <1>2, <1>3, <1>4 DEF S!Booting

(* The steps of the start and of the shutdown. *)
LEMMA LifeKeeps ==
    ASSUME ServerInv,
           S!Start \/ S!Booting \/ S!StartFailed \/ S!Close \/ S!Stopping
             \/ S!CompactionBegins \/ S!CompactionEnds
    PROVE  ServerInv'
<1> USE DEF ServerInv, S!Trouble
<1>1. UNCHANGED <<running, backs, handle, restoring>> /\ connected' \subseteq connected
  BY OnlyFewer
<1>2. (BackedByCalls /\ S!FlagIsLowered)'
  BY <1>1 DEF BackedByCalls, S!FlagIsLowered
<1>3. CASE S!Start
  <2> USE <1>3, <1>1 DEF S!Start, S!starting, S!serving, S!calling, S!clients, S!Closing
  <2>1. Flags'
    BY DEF Typed, Flags
  <2>5. Counts'
    BY DEF Typed, Flags, Counts
  <2>2. InTurns'
    BY DEF Typed, Flags, Counts, InTurns, Ended
  <2>3. Ended'
    BY DEF Typed, Flags, Counts, InTurns, Ended
  <2>4. OneHandle'
    BY HandleKeeps DEF Typed, Flags, Counts, InTurns
  <2> QED BY <1>2, <2>1, <2>2, <2>3, <2>4, <2>5 DEF Typed
<1>4. CASE S!HubStarted
  <2> USE <1>4, <1>1 DEF S!HubStarted, S!starting, S!serving, S!calling, S!clients, S!Closing
  <2>0. S!Closing => S!Shutdown(TRUE, FALSE, life)
    OBVIOUS
  <2>1. Flags'
    BY <2>0, ShutdownEffect DEF Typed, Flags
  <2>5. Counts'
    BY <2>0, ShutdownEffect DEF Typed, Flags, Counts
  <2>2. InTurns'
    BY <2>0, ShutdownEffect DEF Typed, Flags, Counts, InTurns, Ended
  <2>3. Ended'
    BY <2>0, ShutdownEffect DEF Typed, Flags, Counts, InTurns, Ended
  <2>4. OneHandle'
    BY <2>0, ShutdownEffect, HandleKeeps DEF Typed, Flags, Counts, InTurns
  <2> QED BY <1>2, <2>1, <2>2, <2>3, <2>4, <2>5 DEF Typed
<1>5. CASE S!HttpStarted
  <2> USE <1>5, <1>1 DEF S!HttpStarted, S!starting, S!serving, S!calling, S!clients, S!Closing
  <2>0. S!Closing => S!Shutdown(TRUE, TRUE, life)
    OBVIOUS
  <2>1. Flags'
    BY <2>0, ShutdownEffect DEF Typed, Flags
  <2>5. Counts'
    BY <2>0, ShutdownEffect DEF Typed, Flags, Counts
  <2>2. InTurns'
    BY <2>0, ShutdownEffect DEF Typed, Flags, Counts, InTurns, Ended
  <2>3. Ended'
    BY <2>0, ShutdownEffect DEF Typed, Flags, Counts, InTurns, Ended
  <2>4. OneHandle'
    BY <2>0, ShutdownEffect, HandleKeeps DEF Typed, Flags, Counts, InTurns
  <2> QED BY <1>2, <2>1, <2>2, <2>3, <2>4, <2>5 DEF Typed
<1>6. CASE S!StartFailed
  <2> USE <1>6, <1>1 DEF S!StartFailed
  <2>1. hub \in BOOLEAN /\ hub' = hub /\ asked' = asked /\ tasks' = tasks
    BY DEF Typed, Flags
  <2>2. \/ /\ stop # "no" /\ life' = "closing" /\ http' = FALSE
           /\ stop' = stop /\ timer' = timer /\ opened' = opened
        \/ /\ stop = "no" /\ life' = "closing" /\ http' = FALSE
           /\ stop' = "hub" /\ timer' = timer /\ opened' = opened
        \/ /\ stop = "no" /\ ~hub /\ life' = "closed" /\ http' = FALSE
           /\ stop' = "done" /\ timer' = FALSE /\ opened' = opened \ {handle}
    BY <2>1 DEF S!Shutdown, S!CloseDatabase
  <2>3. Flags'
    BY <2>1, <2>2 DEF Typed, Flags
  <2>4. Counts'
    BY <2>1, <2>2 DEF Typed, Counts
  <2>5. InTurns'
    BY <2>1, <2>2 DEF InTurns
  <2>6. Ended'
    BY <2>1, <2>2 DEF InTurns, Ended
  <2>7. OneHandle'
    BY <2>2, HandleKeeps
  <2> QED BY <1>2, <2>3, <2>4, <2>5, <2>6, <2>7 DEF Typed
<1>7. CASE S!StartEnded
  <2> USE <1>7, <1>1 DEF S!StartEnded, S!starting, S!serving, S!calling, S!clients, S!Closing
  <2>1. Flags'
    BY DEF Typed, Flags
  <2>5. Counts'
    BY DEF Typed, Flags, Counts
  <2>2. InTurns'
    BY DEF Typed, Flags, Counts, InTurns, Ended
  <2>3. Ended'
    BY DEF Typed, Flags, Counts, InTurns, Ended
  <2>4. OneHandle'
    BY HandleKeeps DEF Typed, Flags, Counts, InTurns
  <2> QED BY <1>2, <2>1, <2>2, <2>3, <2>4, <2>5 DEF Typed
<1>8. CASE S!Close
  <2> USE <1>8, <1>1 DEF S!Close, S!Signal, S!starting, S!serving, S!calling, S!clients, S!Closing
  <2>0. life \notin {"closed", "starting"} => S!Shutdown(hub, http, "closing")
    OBVIOUS
  <2>1. Flags'
    BY <2>0, ShutdownEffect DEF Typed, Flags
  <2>5. Counts'
    BY <2>0, ShutdownEffect DEF Typed, Flags, Counts
  <2>2. InTurns'
    BY <2>0, ShutdownEffect DEF Typed, Flags, Counts, InTurns, Ended
  <2>3. Ended'
    BY <2>0, ShutdownEffect DEF Typed, Flags, Counts, InTurns, Ended
  <2>4. OneHandle'
    BY <2>0, ShutdownEffect, HandleKeeps DEF Typed, Flags, Counts, InTurns
  <2> QED BY <1>2, <2>1, <2>2, <2>3, <2>4, <2>5 DEF Typed
<1>9. CASE S!StopHub
  <2> USE <1>9, <1>1 DEF S!StopHub, S!After, S!starting, S!serving, S!calling, S!clients, S!Closing
  <2>1. Flags'
    BY DEF Typed, Flags
  <2>5. Counts'
    BY DEF Typed, Flags, Counts
  <2>2. InTurns'
    BY DEF Typed, Flags, Counts, InTurns, Ended
  <2>3. Ended'
    BY DEF Typed, Flags, Counts, InTurns, Ended
  <2>4. OneHandle'
    BY HandleKeeps DEF Typed, Flags, Counts, InTurns
  <2> QED BY <1>2, <2>1, <2>2, <2>3, <2>4, <2>5 DEF Typed
<1>10. CASE S!StopCompaction
  <2> USE <1>10, <1>1 DEF S!StopCompaction, S!starting, S!serving, S!calling, S!clients, S!Closing
  <2>1. Flags'
    BY DEF Typed, Flags
  <2>5. Counts'
    BY DEF Typed, Flags, Counts
  <2>2. InTurns'
    BY DEF Typed, Flags, Counts, InTurns, Ended
  <2>3. Ended'
    BY DEF Typed, Flags, Counts, InTurns, Ended
  <2>4. OneHandle'
    BY HandleKeeps DEF Typed, Flags, Counts, InTurns
  <2> QED BY <1>2, <2>1, <2>2, <2>3, <2>4, <2>5 DEF Typed
<1>11. CASE S!TasksEnded
  <2> USE <1>11, <1>1 DEF S!TasksEnded, S!starting, S!serving, S!calling, S!clients, S!Closing
  <2>1. Flags'
    BY DEF Typed, Flags
  <2>5. Counts'
    BY DEF Typed, Flags, Counts
  <2>2. InTurns'
    BY DEF Typed, Flags, Counts, InTurns, Ended
  <2>3. Ended'
    BY DEF Typed, Flags, Counts, InTurns, Ended
  <2>4. OneHandle'
    BY HandleKeeps DEF Typed, Flags, Counts, InTurns
  <2> QED BY <1>2, <2>1, <2>2, <2>3, <2>4, <2>5 DEF Typed
<1>12. CASE S!Drain
  <2> USE <1>12, <1>1 DEF S!Drain, S!Drained, S!CloseDatabase, S!starting, S!serving, S!calling, S!clients, S!Closing
  <2>1. Flags'
    BY DEF Typed, Flags
  <2>5. Counts'
    BY DEF Typed, Flags, Counts
  <2>2. InTurns'
    BY DEF Typed, Flags, Counts, InTurns, Ended
  <2>3. Ended'
    BY DEF Typed, Flags, Counts, InTurns, Ended
  <2>4. OneHandle'
    BY HandleKeeps DEF Typed, Flags, Counts, InTurns
  <2> QED BY <1>2, <2>1, <2>2, <2>3, <2>4, <2>5 DEF Typed
<1>13. CASE S!CompactionBegins
  <2> USE <1>13, <1>1 DEF S!CompactionBegins, S!starting, S!serving, S!calling, S!clients, S!Closing
  <2>1. Flags'
    BY DEF Typed, Flags
  <2>5. Counts'
    BY DEF Typed, Flags, Counts
  <2>2. InTurns'
    BY DEF Typed, Flags, Counts, InTurns, Ended
  <2>3. Ended'
    BY DEF Typed, Flags, Counts, InTurns, Ended
  <2>4. OneHandle'
    BY HandleKeeps DEF Typed, Flags, Counts, InTurns
  <2> QED BY <1>2, <2>1, <2>2, <2>3, <2>4, <2>5 DEF Typed
<1>14. CASE S!CompactionEnds
  <2> USE <1>14, <1>1 DEF S!CompactionEnds, S!starting, S!serving, S!calling, S!clients, S!Closing
  <2>1. Flags'
    BY DEF Typed, Flags
  <2>5. Counts'
    BY DEF Typed, Flags, Counts
  <2>2. InTurns'
    BY DEF Typed, Flags, Counts, InTurns, Ended
  <2>3. Ended'
    BY DEF Typed, Flags, Counts, InTurns, Ended
  <2>4. OneHandle'
    BY HandleKeeps DEF Typed, Flags, Counts, InTurns
  <2> QED BY <1>2, <2>1, <2>2, <2>3, <2>4, <2>5 DEF Typed
<1> QED BY <1>3, <1>4, <1>5, <1>6, <1>7, <1>8, <1>9, <1>10, <1>11, <1>12, <1>13, <1>14 DEF S!Booting, S!Stopping

(* The steps of a call. *)
Calling(c) ==
    \/ S!Connect(c) \/ S!Send(c) \/ S!Accept(c) \/ S!Refuse(c) \/ S!Answer(c) \/ S!Leave(c)
    \/ S!Restore(c) \/ S!RestoreMoves(c) \/ S!CopyFails(c)

LEMMA CallKeeps ==
    ASSUME ServerInv, NEW c \in Calls,
           Calling(c)
    PROVE  ServerInv'
<1> USE DEF ServerInv, S!None, S!CloseDatabase, S!Trouble, S!ofLife, S!clients
<1>1. UNCHANGED S!ofLife
  BY DEF Calling, S!Connect, S!Send, S!Accept, S!Refuse, S!Answer, S!Answered, S!Leave, S!Restore,
         S!RestoreMoves, S!Swap, S!BackupFails, S!CopyFails
<1>2. Flags'
  BY <1>1 DEF Typed, Flags, Calling, S!Connect, S!Send, S!Accept, S!Refuse, S!Answer, S!Answered,
              S!Leave, S!Restore, S!RestoreMoves, S!Swap, S!BackupFails, S!CopyFails, S!RestoreEnds
<1>8. Counts'
  BY <1>1 DEF Typed, Counts, Calling, S!Connect, S!Send, S!Accept, S!Refuse, S!Answer, S!Answered,
              S!Leave, S!Restore, S!RestoreMoves, S!Swap, S!BackupFails, S!CopyFails, S!RestoreEnds
<1>3. InTurns'
  BY <1>1 DEF InTurns
<1>4. Ended'
  BY <1>1 DEF Ended, Calling, S!Connect, S!Send, S!Accept, S!Refuse, S!Answer, S!Answered, S!Leave,
              S!Restore, S!RestoreMoves, S!Swap, S!BackupFails, S!CopyFails, S!RestoreEnds
<1>5. OneHandle'
  <2> USE <1>1 DEF Typed, Counts, OneHandle
  <2>1. CASE \/ S!Connect(c) \/ S!Send(c) \/ S!Accept(c) \/ S!Refuse(c) \/ S!Answer(c)
              \/ S!Leave(c) \/ S!Restore(c)
    BY <2>1 DEF Calling, S!Connect, S!Send, S!Accept, S!Refuse, S!Answer, S!Answered, S!Leave, S!Restore
  <2>2. CASE S!Swap(c)
    <3>1. opened = {handle} /\ stop # "done"
      BY <2>2 DEF S!Swap
    <3> QED BY <3>1, <2>2 DEF S!Swap
  <2>3. CASE S!BackupFails(c)
    BY <2>3 DEF S!BackupFails
  <2>4. CASE S!CopyFails(c)
    BY <2>4 DEF S!CopyFails
  <2> QED BY <2>1, <2>2, <2>3, <2>4 DEF Calling, S!RestoreMoves
<1>6. BackedByCalls'
  BY DEF Typed, Counts, BackedByCalls, Calling, S!Connect, S!Send, S!Accept, S!Refuse, S!Answer,
         S!Answered, S!Leave, S!Restore, S!RestoreMoves, S!Swap, S!BackupFails, S!CopyFails,
         S!RestoreEnds
<1>7. S!FlagIsLowered'
  BY DEF Typed, Counts, S!FlagIsLowered, Calling, S!Connect, S!Send, S!Accept, S!Refuse, S!Answer,
         S!Answered, S!Leave, S!Restore, S!RestoreMoves, S!Swap, S!BackupFails, S!CopyFails,
         S!RestoreEnds
<1> QED BY <1>2, <1>3, <1>4, <1>5, <1>6, <1>7, <1>8 DEF Typed

LEMMA ServerStays == ServerInv /\ [S!ServerNext]_(S!serverVars) => ServerInv'
<1> USE DEF ServerInv, Typed, Flags, Counts, InTurns, Ended, OneHandle, BackedByCalls, S!FlagIsLowered
<1>1. ServerInv /\ UNCHANGED S!serverVars => ServerInv'
  BY DEF S!serverVars
<1>2. ServerInv /\ (S!PlainRequest \/ S!PlainLeaves) => ServerInv'
  <2>1. S!PlainRequest \/ S!PlainLeaves =>
           UNCHANGED <<life, boot, stop, asked, hub, http, timer, tasks, running, connected, backs, handle,
                       opened, restoring, troubles>>
    BY DEF S!clients, S!PlainRequest, S!PlainLeaves
  <2> SUFFICES ASSUME ServerInv,
                      UNCHANGED <<life, boot, stop, asked, hub, http, timer, tasks, running, connected,
                                  backs, handle, opened, restoring, troubles>>
               PROVE  ServerInv'
    BY <2>1
  <2>2. Typed'
    OBVIOUS
  <2>3. InTurns' /\ Ended'
    OBVIOUS
  <2>4. OneHandle' /\ BackedByCalls' /\ S!FlagIsLowered'
    OBVIOUS
  <2> QED BY <2>2, <2>3, <2>4
<1> HIDE DEF ServerInv
<1> QED BY <1>1, <1>2, LifeKeeps, CallKeeps DEF S!ServerNext, Calling

(* A close that was asked for is not forgotten (CloseIsDue).                   *)
Due ==
    /\ S!CloseIsDue
    /\ life = "closing" /\ stop = "done" => troubles > 0
    /\ stop = "done" => life \in {"closing", "closed"}

LEMMA DueStays ==
    ASSUME ServerInv, Due, [S!ServerNext]_(S!serverVars)
    PROVE  Due'
<1> USE DEF Due, S!CloseIsDue
<1>0. troubles \in Nat /\ hub \in BOOLEAN /\ http \in BOOLEAN /\ InTurns
  BY DEF ServerInv, Typed, Counts, Flags
<1>1. CASE \/ S!Start \/ S!StartEnded \/ S!CompactionBegins \/ S!CompactionEnds
           \/ S!PlainRequest \/ S!PlainLeaves \/ UNCHANGED S!serverVars
  BY <1>0, <1>1 DEF InTurns, S!PlainRequest, S!PlainLeaves, S!Start, S!StartEnded, S!CompactionBegins,
                    S!CompactionEnds, S!serving, S!serverVars
<1>2. CASE S!HubStarted
  BY <1>0, <1>2, ShutdownEffect DEF InTurns, S!HubStarted, S!serving, S!Closing
<1>3. CASE S!HttpStarted
  BY <1>0, <1>3, ShutdownEffect DEF InTurns, S!HttpStarted, S!serving, S!Closing
<1>4. CASE S!StartFailed
  <2>1. S!Shutdown(hub, FALSE, "closing") /\ troubles' = troubles + 1 /\ stop = "no"
        /\ UNCHANGED asked
    BY <1>0, <1>4 DEF InTurns, S!StartFailed, S!Trouble, S!serving
  <2> QED BY <2>1, <1>0, ShutdownEffect
<1>5. CASE S!Close
  <2>1. asked' = TRUE /\ UNCHANGED <<boot, troubles>>
    BY <1>5 DEF S!Close, S!Signal, S!starting, S!serving
  <2>2. CASE life \in {"closed", "starting"}
    BY <1>0, <1>5, <2>1, <2>2 DEF InTurns, S!Close
  <2>3. CASE life \notin {"closed", "starting"}
    <3>1. S!Shutdown(hub, http, "closing")
      BY <1>5, <2>3 DEF S!Close
    <3> QED BY <1>0, <2>1, <2>3, <3>1, ShutdownEffect
  <2> QED BY <2>2, <2>3
<1>6. CASE S!StopHub \/ S!StopCompaction \/ S!TasksEnded \/ S!Drain
  BY <1>0, <1>6 DEF S!StopHub, S!StopCompaction, S!TasksEnded, S!Drain, S!After, S!Trouble, S!serving
<1>7. ASSUME NEW c \in Calls,
             Calling(c)
      PROVE  Due'
  <2>1. UNCHANGED <<life, boot, stop, asked>> /\ troubles' \in {troubles, troubles + 1}
    BY <1>7 DEF Calling, S!Connect, S!Send, S!Accept, S!Refuse, S!Answer, S!Answered, S!Leave,
                S!Restore, S!RestoreMoves, S!Swap, S!BackupFails, S!CopyFails, S!ofLife, S!Trouble
  <2> QED BY <1>0, <2>1
<1> QED BY <1>1, <1>2, <1>3, <1>4, <1>5, <1>6, <1>7 DEF S!ServerNext, S!Booting, S!Stopping, Calling

(* Server: the database is open while anybody is connected, nothing           *)
(* outlives the shutdown, calls are refused only during a restore, and a      *)
(* close that was asked for is not forgotten.                                 *)
THEOREM ServerKeepsSafe == S!ServerSpec => []S!ServerIsSafe
<1>1. S!ServerInit => Due
  BY DEF S!ServerInit, Due, S!CloseIsDue
<1>2. ServerInv /\ Due => S!ServerIsSafe
  BY DEF ServerInv, Typed, Counts, Ended, OneHandle, Due, S!ServerIsSafe, S!DrainsBeforeClosing
<1> QED BY <1>1, <1>2, ServerBegins, ServerStays, DueStays, PTL DEF S!ServerSpec

(* What the steps of the start and of the shutdown leave alone, and what they  *)
(* do to the handle.                                                           *)
LEMMA ShutdownGoesThrough ==
    ASSUME ServerInv,
           S!Start \/ S!Booting \/ S!StartFailed \/ S!Close \/ S!Stopping
             \/ S!CompactionBegins \/ S!CompactionEnds
    PROVE  S!ServerStep
<1> USE DEF ServerInv
<1>1. UNCHANGED <<running, backs, handle>> /\ connected' \subseteq connected
  BY OnlyFewer
<1>2. /\ stop # "no" => stop' # "no" /\ ~http'
      /\ stop = "done" => stop' = "done"
  <2>1. CASE S!Start \/ S!StartEnded \/ S!CompactionBegins \/ S!CompactionEnds
    BY <2>1 DEF Ended, S!Start, S!StartEnded, S!CompactionBegins, S!CompactionEnds
  <2>2. CASE S!HubStarted \/ S!HttpStarted
    BY <2>2 DEF InTurns, S!HubStarted, S!HttpStarted
  <2>3. CASE S!StopHub \/ S!StopCompaction \/ S!TasksEnded \/ S!Drain
    BY <2>3 DEF S!StopHub, S!StopCompaction, S!TasksEnded, S!Drain, S!After, Ended
  <2>4. CASE S!StartFailed
    BY <2>4 DEF InTurns, S!StartFailed
  <2>5. CASE S!Close
    <3>1. CASE life \in {"closed", "starting"}
      BY <2>5, <3>1 DEF Ended, S!Close
    <3>2. CASE life \notin {"closed", "starting"}
      <4>1. S!Shutdown(hub, http, "closing") /\ hub \in BOOLEAN /\ http \in BOOLEAN
        BY <2>5, <3>2 DEF S!Close, Typed, Flags
      <4> QED BY <4>1, ShutdownEffect DEF Ended
    <3> QED BY <3>1, <3>2
  <2> QED BY <2>1, <2>2, <2>3, <2>4, <2>5 DEF S!Booting, S!Stopping
<1>3. stop \in {"tasks", "drain", "done"} => tasks' <= tasks
  <2>1. CASE S!CompactionBegins
    BY <2>1 DEF Ended, S!CompactionBegins
  <2>2. CASE S!CompactionEnds
    BY <2>2 DEF Typed, Counts, S!CompactionEnds
  <2>3. CASE tasks' = tasks
    BY <2>3 DEF Typed, Counts
  <2> QED BY <2>1, <2>2, <2>3 DEF S!Start, S!Booting, S!HubStarted, S!HttpStarted, S!StartFailed, S!StartEnded,
             S!Close, S!Stopping, S!StopHub, S!StopCompaction, S!TasksEnded, S!Drain
<1>4. ASSUME NEW h \in opened \ opened' PROVE connected' = {}
  BY <1>1, <1>4 DEF InTurns, Ended, S!Start, S!Booting, S!HubStarted, S!HttpStarted, S!StartFailed,
                    S!StartEnded, S!Close, S!Stopping, S!StopHub, S!StopCompaction, S!TasksEnded,
                    S!Drain, S!Drained, S!CompactionBegins, S!CompactionEnds, S!Shutdown, S!starting
<1> QED BY <1>1, <1>2, <1>3, <1>4 DEF S!ServerStep

(* A connection is taken in while the server listens, and a call closes no     *)
(* handle but by its restore.                                                  *)
LEMMA CallsGoThrough ==
    ASSUME ServerInv, NEW c \in Calls,
           Calling(c)
    PROVE  S!ServerStep
<1> USE DEF ServerInv, S!ofLife, S!RestoreEnds, S!clients
<1>1. UNCHANGED <<stop, http, tasks>> /\ tasks \in Nat
  BY DEF Typed, Counts, Calling, S!Connect, S!Send, S!Accept, S!Refuse, S!Answer, S!Answered, S!Leave,
         S!Restore, S!RestoreMoves, S!Swap, S!BackupFails, S!CopyFails
<1>2. /\ stop # "no" => ~http /\ connected' \subseteq connected
      /\ stop = "done" => running' \subseteq running
  BY DEF Ended, S!Sending, Calling, S!Connect, S!Send, S!Accept, S!Refuse, S!Answer, S!Answered,
         S!Leave, S!Restore, S!RestoreMoves, S!Swap, S!BackupFails, S!CopyFails
<1>3. ASSUME NEW h \in opened \ opened'
      PROVE  c \in running /\ backs[c] = h /\ backs'[c] = S!None
  <2>1. opened' = opened \/ S!Swap(c) \/ S!CopyFails(c)
    BY DEF Calling, S!Connect, S!Send, S!Accept, S!Refuse, S!Answer, S!Answered, S!Leave, S!Restore,
           S!RestoreMoves, S!BackupFails
  <2>2. backs[c] \in opened /\ backs[c] # S!None /\ backs' = [backs EXCEPT ![c] = S!None]
    BY <2>1, <1>3 DEF S!Swap, S!CopyFails
  <2> QED BY <2>2, <1>3 DEF Typed, Counts, OneHandle, BackedByCalls
<1> QED BY <1>1, <1>2, <1>3 DEF S!ServerStep

(* A shutdown goes through, takes no connection in, and takes the database     *)
(* from nobody who is connected.                                               *)
THEOREM ShutdownsGoThrough == S!ServerSpec => [][S!ServerStep]_(S!serverVars)
<1>1. ServerInv /\ [S!ServerNext]_(S!serverVars) => [S!ServerStep]_(S!serverVars)
  <2>1. ServerInv /\ (S!PlainRequest \/ S!PlainLeaves) => S!ServerStep
    BY DEF ServerInv, Ended, Typed, Counts, S!PlainRequest, S!PlainLeaves, S!clients, S!ServerStep
  <2> QED BY <2>1, ShutdownGoesThrough, CallsGoThrough DEF S!ServerNext, Calling
<1> QED BY <1>1, ServerBegins, ServerStays, PTL DEF S!ServerSpec

(* Gate *)
CountsHold ==
    /\ counts \in [{"memory", "redis"} -> [G!Shared -> Nat]]
    /\ let \in [G!Shared -> Nat] /\ faults \in Nat

(* A process without Redis stays without. *)
NeverDialed ==
    /\ conf.redis <=> link # "none"
    /\ begun \/ ~conf.redis \/ \A l \in G!Shared : counts["redis"][l] = 0
    /\ link = "ready" => begun

Lower(a, b) == IF a <= b THEN a ELSE b
InMemory(l) == Lower(counts["memory"][l], Points)
InRedis(l) == Lower(counts["redis"][l], Points)

(* What was let through was counted in Redis, or in memory since the last time *)
(* that was begun anew: at a fault, or once when the first dialing is given up. *)
Epochs == faults + IF link = "over" /\ ~begun THEN 1 ELSE 0
EpochsAreCounted == \A l \in G!Shared :
    IF conf.redis
    THEN let[l] <= InMemory(l) + InRedis(l) + Points * Epochs
    ELSE let[l] <= InMemory(l)

(* Who a request that passed is taken for: OneIdentity, from there on. *)
Identical(c) ==
    /\ c = [stage |-> c.stage, request |-> c.request, tenant |-> c.tenant, context |-> c.context]
    /\ c.tenant # G!None =>
        /\ c.context = c.tenant \/ (conf.dev /\ c.request.key = "server")
        /\ G!Verified(c.request) =>
               c.context \in {c.request.jwt.org} \union c.request.jwt.member
        /\ c.request.key \in DOMAIN KeyTenant /\ ~G!Verified(c.request) =>
               c.tenant = KeyTenant[c.request.key]

Identified ==
    /\ call.stage \in {"general", "message", "handler"} => Identical(call)
    /\ call.stage = "waiting" =>
        /\ call.limiter \in G!Shared
        /\ call.next.stage # "waiting"
        /\ call.next.stage \in {"general", "message", "handler"} => Identical(call.next)

GateInv ==
    CountsHold /\ NeverDialed /\ G!StoreAnswers /\ EpochsAreCounted /\ Identified
LEMMA OneMoreEpoch ==
    ASSUME NEW p \in Nat, NEW n \in Nat
    PROVE  p * n \in Nat /\ p * (n + 1) = p * n + p
OBVIOUS

LEMMA EpochsType == CountsHold => Epochs \in Nat
BY DEF CountsHold, Epochs

(* Nothing was let through, and counts were left alone. *)
LEMMA EpochsKeep ==
    ASSUME G!GateAssumption, CountsHold, EpochsAreCounted,
           UNCHANGED <<conf, counts, let>>, Epochs' = Epochs \/ Epochs' = Epochs + 1
    PROVE  EpochsAreCounted'
<1>1. Points * Epochs' >= Points * Epochs /\ {Points * Epochs, Points * Epochs'} \subseteq Nat
  BY OneMoreEpoch, EpochsType DEF G!GateAssumption
<1>2. ASSUME NEW l \in G!Shared
      PROVE  IF conf.redis THEN let[l] <= InMemory(l) + InRedis(l) + Points * Epochs'
                           ELSE let[l] <= InMemory(l)
  <2>1. InMemory(l) \in Int /\ InRedis(l) \in Int /\ let[l] \in Nat
    BY DEF InMemory, InRedis, Lower, CountsHold, G!GateAssumption
  <2> QED BY <1>1, <2>1 DEF EpochsAreCounted
<1> QED BY <1>2 DEF EpochsAreCounted, InMemory, InRedis

(* The limiters in memory begin anew. *)
LEMMA MemoryBegins ==
    ASSUME G!GateAssumption, CountsHold, EpochsAreCounted, G!UseMemory, conf.redis,
           UNCHANGED <<conf, let>>, Epochs' = Epochs + 1
    PROVE  EpochsAreCounted'
<1>1. Points * Epochs' = Points * Epochs + Points /\ Points * Epochs \in Nat
  BY OneMoreEpoch, EpochsType DEF G!GateAssumption
<1>2. ASSUME NEW l \in G!Shared
      PROVE  let'[l] <= InMemory(l)' + InRedis(l)' + Points * Epochs'
  <2>1. let[l] <= InMemory(l) + InRedis(l) + Points * Epochs
    BY DEF EpochsAreCounted
  <2>2. InMemory(l) <= Points /\ InMemory(l) \in Int /\ InRedis(l) \in Int /\ let[l] \in Nat
    BY DEF InMemory, InRedis, Lower, CountsHold, G!GateAssumption
  <2>3. InMemory(l)' = 0 /\ InRedis(l)' = InRedis(l)
    BY DEF InMemory, InRedis, Lower, G!UseMemory, G!Zero, CountsHold, G!GateAssumption
  <2> QED BY <1>1, <2>1, <2>2, <2>3, G!GateAssumption DEF G!GateAssumption
<1> QED BY <1>2 DEF EpochsAreCounted

(* A shared limiter was asked. *)
LEMMA CountKeeps ==
    ASSUME G!GateAssumption, CountsHold, EpochsAreCounted,
           NEW b \in {"memory", "redis"}, NEW l \in G!Shared, NEW next, G!Count(b, l, next),
           b = "redis" => conf.redis,
           conf' = conf, Epochs' = Epochs \/ Epochs' = Epochs + 1
    PROVE  EpochsAreCounted'
<1>1. Points * Epochs' >= Points * Epochs /\ {Points * Epochs, Points * Epochs'} \subseteq Nat
  BY OneMoreEpoch, EpochsType DEF G!GateAssumption
<1>2. ASSUME NEW m \in G!Shared
      PROVE  /\ \A x \in {"memory", "redis"} : counts'[x][m] \in Nat
             /\ let[m] \in Nat /\ let'[m] \in Nat
             /\ let'[m] - let[m] <= (InMemory(m)' - InMemory(m)) + (InRedis(m)' - InRedis(m))
             /\ b = "memory" => InRedis(m)' = InRedis(m)
  <2>1. counts'[b][m] = IF m = l THEN counts[b][m] + 1 ELSE counts[b][m]
    BY DEF G!Count, CountsHold
  <2>2. \A x \in {"memory", "redis"} \ {b} : counts'[x][m] = counts[x][m]
    BY DEF G!Count, CountsHold
  <2>3. let'[m] = IF m = l /\ counts[b][l] < Points THEN let[m] + 1 ELSE let[m]
    BY DEF G!Count, CountsHold
  <2>4. \A x \in {"memory", "redis"} : counts[x][m] \in Nat
    BY DEF CountsHold
  <2> QED BY <2>1, <2>2, <2>3, <2>4 DEF InMemory, InRedis, Lower, CountsHold, G!GateAssumption
<1>3. ASSUME NEW m \in G!Shared
      PROVE  IF conf.redis THEN let'[m] <= InMemory(m)' + InRedis(m)' + Points * Epochs'
                           ELSE let'[m] <= InMemory(m)'
  <2>1. {InMemory(m), InRedis(m), InMemory(m)', InRedis(m)'} \subseteq Int
    BY <1>2 DEF InMemory, InRedis, Lower, CountsHold, G!GateAssumption
  <2>2. CASE conf.redis
    BY <1>1, <1>2, <2>1, <2>2 DEF EpochsAreCounted
  <2>3. CASE ~conf.redis
    BY <1>2, <2>1, <2>3 DEF EpochsAreCounted
  <2> QED BY <2>2, <2>3
<1> QED BY <1>3 DEF EpochsAreCounted

LEMMA GateBegins == G!GateAssumption /\ G!GateInit => GateInv
<1> SUFFICES ASSUME G!GateAssumption, G!GateInit PROVE GateInv
  OBVIOUS
<1>1. CountsHold
  BY DEF G!GateInit, CountsHold, G!Zero
<1>2. NeverDialed
  BY DEF G!GateInit, NeverDialed, G!Zero
<1>3. G!StoreAnswers
  BY DEF G!GateInit, G!StoreAnswers, G!Idle
<1>4. EpochsAreCounted
  <2>1. Epochs = 0 /\ Points * Epochs = 0
    BY DEF G!GateInit, Epochs, G!GateAssumption
  <2>2. \A l \in G!Shared : InMemory(l) = 0 /\ InRedis(l) = 0 /\ let[l] = 0
    BY DEF G!GateInit, InMemory, InRedis, Lower, G!GateAssumption, G!Zero
  <2> QED BY <2>1, <2>2 DEF EpochsAreCounted
<1>5. Identified
  BY DEF G!GateInit, Identified, G!Idle
<1> QED BY <1>1, <1>2, <1>3, <1>4, <1>5 DEF GateInv

(* The connection to Redis and the health check. *)
LEMMA LinkKeeps ==
    ASSUME G!GateAssumption, GateInv,
           G!Connect \/ G!Ready \/ G!Retry \/ G!GiveUp \/ G!Lose \/ G!PingFails \/ G!Recover
    PROVE  GateInv'
<1> USE DEF GateInv, NeverDialed, G!StoreAnswers
<1>1. UNCHANGED <<conf, let>> /\ (call' = call \/ (call' = G!Idle /\ call.stage = "waiting"))
  BY DEF G!Connect, G!Ready, G!Retry, G!GiveUp, G!Lose, G!PingFails, G!Recover, G!CutOff, G!tenantVars, G!countVars
<1>2. Identified'
  BY <1>1 DEF Identified, Identical, G!Verified, G!Idle
<1>3. /\ counts' = counts \/ G!UseMemory
      /\ faults' = faults \/ faults' = faults + 1
  BY DEF G!Connect, G!Ready, G!Retry, G!GiveUp, G!Lose, G!PingFails, G!Recover, G!Error, G!Fallback, G!UseRedis, G!Fault
<1>4. CountsHold'
  BY <1>1, <1>3 DEF CountsHold, G!UseMemory, G!Zero
<1>5. CASE G!Connect
  <2>1. Epochs' = Epochs
    BY <1>5 DEF G!Connect, Epochs
  <2>2. EpochsAreCounted'
    BY <1>1, <1>5, <2>1, EpochsKeep DEF G!Connect
  <2>3. NeverDialed' /\ G!StoreAnswers'
    BY <1>5 DEF G!Connect
  <2> QED BY <1>2, <1>4, <2>2, <2>3
<1>6. CASE G!Ready
  <2>1. Epochs' = Epochs
    BY <1>6 DEF G!Ready, Epochs
  <2>2. EpochsAreCounted'
    BY <1>1, <1>6, <2>1, EpochsKeep DEF G!Ready, G!UseRedis
  <2>3. NeverDialed' /\ G!StoreAnswers'
    BY <1>6 DEF G!Ready, G!UseRedis
  <2> QED BY <1>2, <1>4, <2>2, <2>3
<1>7. CASE G!Retry
  <2>1. Epochs' = Epochs /\ UNCHANGED <<counts, backend>>
    BY <1>7 DEF G!Retry, Epochs, G!Error, G!Fallback
  <2>2. EpochsAreCounted'
    BY <1>1, <2>1, EpochsKeep
  <2>3. NeverDialed' /\ G!StoreAnswers'
    BY <1>7, <2>1 DEF G!Retry
  <2> QED BY <1>2, <1>4, <2>2, <2>3
<1>8. CASE G!GiveUp
  <2>1. EpochsAreCounted'
    <3>1. CASE begun
      <4>1. Epochs' = Epochs /\ counts' = counts
        BY <1>8, <3>1 DEF G!GiveUp, Epochs, G!Fallback
      <4> QED BY <1>1, <4>1, EpochsKeep
    <3>2. CASE ~begun
      <4>1. Epochs' = Epochs + 1 /\ G!UseMemory
        BY <1>8, <3>2 DEF G!GiveUp, Epochs, CountsHold
      <4> QED BY <1>1, <1>8, <4>1, MemoryBegins DEF G!GiveUp
    <3> QED BY <3>1, <3>2
  <2>2. backend' = "memory" \/ backend' = backend
    BY <1>8 DEF G!GiveUp, G!Fallback, G!UseMemory
  <2>3. \A l \in G!Shared : counts'["redis"][l] = counts["redis"][l]
    BY <1>3 DEF G!UseMemory, CountsHold
  <2>4. NeverDialed' /\ G!StoreAnswers'
    BY <1>8, <2>2, <2>3 DEF G!GiveUp
  <2> QED BY <1>2, <1>4, <2>1, <2>4
<1>9. CASE G!Lose \/ G!PingFails
  <2>1. EpochsAreCounted'
    <3>1. Epochs' = Epochs + 1
      BY <1>9 DEF G!Lose, G!PingFails, Epochs, G!Fault, CountsHold
    <3> QED BY <1>1, <1>3, <1>9, <3>1, EpochsKeep, MemoryBegins DEF G!Lose, G!PingFails
  <2>2. backend' # "redis"
    BY <1>9 DEF G!Lose, G!PingFails, G!Error, G!Fallback, G!UseMemory
  <2>3. NeverDialed' /\ G!StoreAnswers'
    BY <1>9, <2>2 DEF G!Lose, G!PingFails, G!CutOff, G!Idle
  <2> QED BY <1>2, <1>4, <2>1, <2>3
<1>10. CASE G!Recover
  <2>1. Epochs' = Epochs
    BY <1>10 DEF G!Recover, Epochs
  <2>2. EpochsAreCounted'
    BY <1>1, <1>10, <2>1, EpochsKeep DEF G!Recover, G!UseRedis
  <2>3. NeverDialed' /\ G!StoreAnswers'
    BY <1>10 DEF G!Recover, G!UseRedis
  <2> QED BY <1>2, <1>4, <2>2, <2>3
<1> QED BY <1>5, <1>6, <1>7, <1>8, <1>9, <1>10

(* An administrator's changes touch none of it. *)
LEMMA ChangesKeep == ASSUME G!GateAssumption, GateInv, G!Administrate PROVE GateInv'
<1>1. UNCHANGED <<conf, G!redisVars, counts, faults, let, call>>
  BY DEF G!Administrate, G!SetQuotas, G!RevokeApiKey, G!DeleteTenant, G!countVars
<1>2. CountsHold' /\ NeverDialed' /\ G!StoreAnswers'
  BY <1>1 DEF GateInv, CountsHold, NeverDialed, G!StoreAnswers, G!redisVars
<1>3. EpochsAreCounted'
  BY <1>1 DEF GateInv, EpochsAreCounted, InMemory, InRedis, Epochs, G!redisVars
<1>4. Identified'
  BY <1>1 DEF GateInv, Identified, Identical, G!Verified
<1> QED BY <1>2, <1>3, <1>4 DEF GateInv

(* A shared limiter is asked, and answers at once or is waited for. *)
LEMMA ConsumeKeeps ==
    ASSUME G!GateAssumption, GateInv, NEW l \in G!Shared, NEW next, G!Consume(l, next),
           next.stage # "waiting",
           next.stage \in {"general", "message", "handler"} => Identical(next),
           faults' = faults \/ faults' = faults + 1, UNCHANGED <<conf, G!redisVars>>
    PROVE  GateInv'
<1> USE DEF GateInv
<1>1. Epochs' = Epochs \/ Epochs' = Epochs + 1
  BY DEF Epochs, CountsHold, G!redisVars
<1>2. CASE backend = "redis"
  <2>1. call' = [stage |-> "waiting", limiter |-> l, next |-> next] /\ UNCHANGED <<counts, let>>
    BY <1>2 DEF G!Consume
  <2>2. CountsHold' /\ NeverDialed' /\ G!StoreAnswers'
    BY <1>2, <2>1 DEF CountsHold, NeverDialed, G!StoreAnswers, G!redisVars
  <2>3. EpochsAreCounted'
    BY <1>1, <2>1, EpochsKeep
  <2>4. Identified'
    BY <2>1 DEF Identified, Identical, G!Verified
  <2> QED BY <2>2, <2>3, <2>4
<1>3. CASE backend # "redis"
  <2>1. G!Count("memory", l, next)
    BY <1>3 DEF G!Consume
  <2>2. CountsHold'
    BY <2>1 DEF G!Count, CountsHold
  <2>3. EpochsAreCounted'
    BY <1>1, <2>1, CountKeeps
  <2>4. NeverDialed'
    BY <2>1 DEF NeverDialed, G!redisVars, G!Count, CountsHold
  <2>5. call' = next \/ call' = G!Idle
    BY <2>1 DEF G!Count
  <2>6. G!StoreAnswers'
    BY <2>5 DEF G!StoreAnswers, G!redisVars, G!Idle
  <2>7. Identified'
    BY <2>5 DEF Identified, Identical, G!Verified, G!Idle
  <2> QED BY <2>2, <2>3, <2>4, <2>6, <2>7
<1> QED BY <1>2, <1>3

(* A step of the request that asks no shared limiter. *)
LEMMA RequestKeeps ==
    ASSUME G!GateAssumption, GateInv, UNCHANGED <<conf, G!redisVars, counts, let>>,
           faults' = faults \/ faults' = faults + 1,
           call'.stage # "waiting",
           call'.stage \in {"general", "message", "handler"} => Identical(call')
    PROVE  GateInv'
<1> USE DEF GateInv
<1>1. Epochs' = Epochs \/ Epochs' = Epochs + 1
  BY DEF Epochs, CountsHold, G!redisVars
<1>2. EpochsAreCounted'
  BY <1>1, EpochsKeep
<1>3. CountsHold' /\ NeverDialed' /\ G!StoreAnswers'
  BY DEF CountsHold, NeverDialed, G!StoreAnswers, G!redisVars
<1>4. Identified'
  BY DEF Identified, Identical, G!Verified
<1> QED BY <1>2, <1>3, <1>4

(* The tenant a credential names is the one the request passes as. *)
LEMMA EntryIsIdentified ==
    ASSUME G!GateAssumption, GateInv, G!ByJwt \/ G!ByTenantKey \/ G!ByServerKey
    PROVE  call'.stage = "general" /\ Identical(call')
<1> USE DEF G!Limited
<1>1. CASE G!ByJwt
  BY <1>1 DEF G!ByJwt, G!JwtContext, Identical, G!Known, G!Verified, G!Resolved
<1>2. CASE G!ByTenantKey
  BY <1>2 DEF G!ByTenantKey, Identical
<1>3. CASE G!ByServerKey
  <2>1. call.request.key = "server" /\ ~G!Verified(call.request)
    BY <1>3 DEF G!ByServerKey, G!Legacy
  <2>2. PICK x : /\ call' = G!Limited(call.request, G!Known(G!DefaultTenant), x)
                 /\ conf.dev \/ x = G!DefaultTenant
    BY <1>3 DEF G!ByServerKey
  <2> QED BY <2>1, <2>2 DEF Identical, G!Known, G!GateAssumption
<1> QED BY <1>1, <1>2, <1>3

(* A request keeps its identity on the way to its handler. *)
LEMMA OnwardIsIdentified ==
    ASSUME GateInv, G!Metered
    PROVE  G!Onward.stage \in {"message", "handler"} /\ Identical(G!Onward)
<1>1. Identical(call)
  BY DEF GateInv, Identified, G!Metered
<1>2. PICK s \in {"message", "handler"} : G!Onward = [call EXCEPT !.stage = s]
  BY DEF G!Onward
<1>3. G!Onward = [stage |-> s, request |-> call.request, tenant |-> call.tenant,
                context |-> call.context]
  BY <1>1, <1>2 DEF Identical
<1> QED BY <1>1, <1>3 DEF Identical

LEMMA RequestsKeep ==
    ASSUME G!GateAssumption, GateInv,
           \/ \E r \in Requests : G!Arrive(r)
           \/ G!ByJwt \/ G!ByTenantKey \/ G!ByServerKey \/ G!Refuse
           \/ G!Answered \/ G!Pace \/ G!Share \/ G!Handle
    PROVE  GateInv'
<1>1. CASE (\E r \in Requests : G!Arrive(r)) \/ G!Handle
  BY <1>1, RequestKeeps DEF G!Arrive, G!Handle, G!Idle
<1>2. CASE G!ByJwt \/ G!ByTenantKey \/ G!ByServerKey
  BY <1>2, EntryIsIdentified, RequestKeeps DEF G!ByJwt, G!ByTenantKey, G!ByServerKey, G!Fault, G!countVars
<1>3. CASE G!Pace
  BY <1>3, OnwardIsIdentified, RequestKeeps DEF G!Pace, G!Idle
<1>4. CASE G!Refuse
  BY <1>4, ConsumeKeeps DEF G!Refuse, G!Shared, G!Idle, G!Fault
<1>5. CASE G!Share
  <2>1. call.stage \in G!Shared
    BY <1>5 DEF G!Share, G!Metered, G!Shared
  <2> QED BY <1>5, <2>1, OnwardIsIdentified, ConsumeKeeps DEF G!Share, G!Fault
<1>6. CASE G!Answered
  <2> USE DEF GateInv
  <2>1. G!Count("redis", call.limiter, call.next) /\ call.limiter \in G!Shared
    BY <1>6 DEF G!Answered, Identified
  <2>2. link = "ready" /\ conf.redis /\ begun
    BY <1>6 DEF G!Answered, G!StoreAnswers, NeverDialed
  <2>3. CountsHold'
    BY <1>6, <2>1 DEF G!Answered, G!Count, CountsHold
  <2>4. EpochsAreCounted'
    BY <1>6, <2>1, <2>2, CountKeeps DEF G!Answered, Epochs, G!redisVars
  <2>5. NeverDialed'
    BY <1>6, <2>2 DEF G!Answered, NeverDialed, G!redisVars
  <2>6. call' = call.next \/ call' = G!Idle
    BY <2>1 DEF G!Count
  <2>7. G!StoreAnswers'
    BY <1>6, <2>6 DEF G!Answered, G!StoreAnswers, G!redisVars, G!Idle, Identified
  <2>8. Identified'
    BY <1>6, <2>6 DEF G!Answered, Identified, Identical, G!Verified, G!Idle
  <2> QED BY <2>3, <2>4, <2>5, <2>7, <2>8
<1> QED BY <1>1, <1>2, <1>3, <1>4, <1>5, <1>6

(* Gate: faults of Redis or of the tenants' database neither lift the limits  *)
(* nor let a request pass as another tenant than its credentials name.        *)
THEOREM GateKeepsSafe == ASSUME G!GateAssumption PROVE G!GateSpec => []G!GateIsSafe
<1>1. GateInv /\ [G!GateNext]_(G!gateVars) => GateInv'
  <2>1. GateInv /\ UNCHANGED G!gateVars => GateInv'
    <3> SUFFICES ASSUME GateInv, UNCHANGED G!gateVars PROVE GateInv'
      OBVIOUS
    <3> USE DEF GateInv, G!gateVars, G!redisVars, G!countVars
    <3>1. CountsHold' /\ NeverDialed' /\ G!StoreAnswers'
      BY DEF CountsHold, NeverDialed, G!StoreAnswers
    <3>2. EpochsAreCounted'
      BY DEF EpochsAreCounted, InMemory, InRedis, Epochs
    <3>3. Identified'
      BY DEF Identified, Identical, G!Verified
    <3> QED BY <3>1, <3>2, <3>3
  <2> QED BY <2>1, LinkKeeps, ChangesKeep, RequestsKeep DEF G!GateNext
<1>2. GateInv => G!GateIsSafe
  <2> SUFFICES ASSUME GateInv PROVE G!GateIsSafe
    OBVIOUS
  <2>1. G!PointsAreKept
    <3> SUFFICES ASSUME NEW l \in G!Shared
                 PROVE  let[l] <= Points * (1 + IF conf.redis THEN 1 + faults ELSE 0)
      BY DEF G!PointsAreKept
    <3>1. faults \in Nat /\ Points \in Nat /\ let[l] \in Nat
      BY DEF GateInv, CountsHold, G!GateAssumption
    <3>2. /\ InMemory(l) \in Int /\ InMemory(l) <= Points
          /\ InRedis(l) \in Int /\ InRedis(l) <= Points
      BY DEF GateInv, InMemory, InRedis, Lower, CountsHold, G!GateAssumption
    <3>3. CASE ~conf.redis
      BY <3>1, <3>2, <3>3 DEF GateInv, EpochsAreCounted
    <3>4. CASE conf.redis
      <4>1. /\ Points * (1 + (1 + faults)) = Points * faults + Points + Points
            /\ Points * (faults + 1) = Points * faults + Points /\ Points * faults \in Nat
        BY <3>1, OneMoreEpoch
      <4>2. let[l] <= InMemory(l) + InRedis(l) + Points * Epochs
        BY <3>4 DEF GateInv, EpochsAreCounted
      <4>3. CASE link = "over" /\ ~begun
        <5>1. InRedis(l) = 0 /\ Epochs = faults + 1
          BY <3>4, <4>3 DEF GateInv, NeverDialed, InRedis, Lower, Epochs, G!GateAssumption
        <5> QED BY <3>1, <3>2, <3>4, <4>1, <4>2, <5>1
      <4>4. CASE ~(link = "over" /\ ~begun)
        <5>1. Epochs = faults
          BY <3>1, <4>4 DEF Epochs
        <5> QED BY <3>1, <3>2, <3>4, <4>1, <4>2, <5>1
      <4> QED BY <4>3, <4>4
    <3> QED BY <3>3, <3>4
  <2>2. G!OneIdentity
    BY DEF GateInv, Identified, Identical, G!OneIdentity
  <2> QED BY <2>1, <2>2 DEF GateInv, G!GateIsSafe
<1>3. G!GateInit => GateInv
  BY GateBegins
<1> QED BY <1>1, <1>2, <1>3, PTL DEF G!GateSpec

(* Hub *)
HubTyped ==
    /\ ws = [c \in Conns |-> ws[c]] /\ seen = [c \in Conns |-> seen[c]]
    /\ clients \subseteq Conns
    /\ lane = [l \in {H!LaneOf(c) : c \in Conns} |-> lane[l]]

(* A connection the hub is closing was found inactive, or the hub stops; who *)
(* is not in the table has heard nothing.                                    *)
Closed ==
    /\ stage \in {"up", "stopping", "stopped"}
    /\ \A c \in Conns : ws[c] = "closing" /\ stage = "up" => ~H!Active(c)
    /\ \A c \in Conns \ clients : seen[c] = {}
    /\ stage = "stopped" =>
          clients = {} /\ \A c \in Conns : ws[c] \in {"none", "closed"}

HubInv == HubTyped /\ Closed /\ H!HubIsSafe

LEMMA HubBegins == H!HubInit => HubInv
BY DEF H!HubInit, HubInv, HubTyped, Closed, H!HubIsSafe, H!PresenceIsTrue, H!TableIsLive

(* Keys, credentials and agents go out of use and do not come back. *)
LEMMA InactiveStays ==
    ASSUME HubTyped, [H!HubNext]_(H!hubVars), NEW c \in Conns, ~H!Active(c)
    PROVE  ~H!Active(c)'
<1> USE DEF H!Active, H!Authenticates, H!Claimable, H!LaneOf
<1>1. ASSUME NEW l \in DOMAIN lane, H!Enforce(l) PROVE ~H!Active(c)'
  BY <1>1 DEF H!Enforce, HubTyped
<1>2. ASSUME NEW d, H!Break(d) PROVE ~H!Active(c)'
  BY <1>2 DEF H!Break
<1>3. CASE UNCHANGED H!principal
  BY <1>3 DEF H!principal
<1>4. [H!HubNext]_(H!hubVars) =>
         \/ UNCHANGED H!principal
         \/ \E d \in Conns : H!Break(d)
         \/ \E l \in DOMAIN lane : H!Enforce(l)
  BY DEF H!HubNext, H!hubVars, H!principal, H!Connect, H!Refuse, H!Register, H!Heartbeat, H!Close, H!Push,
         H!Monitor, H!Stop, H!Terminate
<1> QED BY <1>1, <1>2, <1>3, <1>4

(* A broadcast, whatever it says and to whomever: it keeps what is known of  *)
(* the table if those who leave left it, and those who join are in it.       *)
LEMMA TellKeeps ==
    ASSUME HubInv, UNCHANGED <<stage, H!principal>>, stage # "stopped",
           NEW told \in SUBSET Conns, NEW order, NEW tenant, NEW joined,
           NEW left \in SUBSET Conns, NEW sockets,
           H!Tell(told, order, tenant, joined, left, sockets),
           clients \subseteq told \cup left,
           \A c \in told \ clients : seen[c] = {} /\ ws[c] \in {"open", "closing"}
                                     /\ (ws[c] = "closing" => stage = "stopping"),
           \A c \in told : sockets[c] = ws[c],
           \A c \in Conns \ told : /\ ws[c] = "closing" => sockets[c] # "open"
                                   /\ sockets[c] = "closing" /\ stage = "up" => ~H!Active(c),
           \A a \in joined : \E c \in told : /\ H!Stays(c) /\ owner[c].agent = a
                                             /\ owner[c].tenant = tenant
    PROVE  HubInv'
<1> DEFINE evicted == {c \in told : ~H!Stays(c)}
<1>1. /\ clients' = told \ evicted
      /\ ws' = [c \in Conns |-> IF c \in evicted THEN "closing" ELSE sockets[c]]
      /\ \A c \in Conns \ clients' : seen'[c] = {}
      /\ seen' = [c \in Conns |-> seen'[c]]
      /\ \A c \in clients' : ws[c] # "open" => seen'[c] = seen[c]
  BY DEF H!Tell
<1>2. ASSUME NEW c \in clients', ws[c] = "open"
      PROVE  seen'[c] \subseteq
                (seen[c] \ H!Agents(owner[c].tenant, left \cup evicted))
                   \cup (IF owner[c].tenant = tenant THEN joined ELSE {})
  BY <1>2 DEF H!Tell, H!Offline
<1>3. UNCHANGED <<stage, auth, owner, broken, lane>>
  BY DEF H!principal
<1>4. \A c \in Conns : H!Active(c)' = H!Active(c) /\ H!Stays(c) = H!Active(c)
  BY <1>3 DEF H!Active, H!Stays, H!Authenticates, H!Claimable, H!LaneOf
<1>5. HubTyped'
  BY <1>1, <1>3 DEF HubInv, HubTyped, H!LaneOf
<1>6. Closed'
  <2>1. ASSUME NEW c \in Conns, ws'[c] = "closing", stage = "up" PROVE ~H!Active(c)
    <3>1. CASE c \in evicted
      BY <1>4, <3>1
    <3>2. CASE c \notin evicted
      BY <1>1, <2>1, <3>2 DEF HubInv, Closed
    <3> QED BY <3>1, <3>2
  <2>2. \A c \in Conns : H!Active(c)' = H!Active(c)
    BY <1>4
  <2> HIDE DEF evicted
  <2> QED BY <1>1, <1>3, <2>1, <2>2 DEF HubInv, Closed
<1>7. H!TableIsLive'
  BY <1>1, <1>3 DEF HubInv, H!HubIsSafe, H!TableIsLive
<1>8. H!PresenceIsTrue'
  <2> SUFFICES ASSUME NEW c \in clients', ws'[c] = "open", NEW a \in seen'[c]
               PROVE  \E d \in clients' : owner[d].tenant = owner[c].tenant
                                          /\ owner[d].agent = a
    BY <1>3 DEF H!PresenceIsTrue, H!Agents
  <2>1. c \in told /\ ws[c] = "open"
    BY <1>1
  <2>2. \/ a \in seen[c] /\ a \notin H!Agents(owner[c].tenant, left \cup evicted)
        \/ owner[c].tenant = tenant /\ a \in joined
    BY <1>2, <2>1
  <2>3. CASE a \in seen[c] /\ a \notin H!Agents(owner[c].tenant, left \cup evicted)
    <3>1. c \in clients
      BY <2>1, <2>3
    <3>2. PICK d \in clients : owner[d].tenant = owner[c].tenant /\ owner[d].agent = a
      BY <2>1, <2>3, <3>1 DEF HubInv, H!HubIsSafe, H!PresenceIsTrue, H!Agents
    <3>3. d \notin left \cup evicted
      BY <2>3, <3>2 DEF H!Agents
    <3> QED BY <1>1, <3>2, <3>3
  <2>4. CASE owner[c].tenant = tenant /\ a \in joined
    BY <1>1, <2>4
  <2> QED BY <2>2, <2>3, <2>4
<1> QED BY <1>5, <1>6, <1>7, <1>8 DEF HubInv, H!HubIsSafe

(* What a disconnection asks of the sockets. *)
LEMMA DisconnectKeeps ==
    ASSUME HubInv, UNCHANGED <<stage, H!principal>>, stage # "stopped",
           NEW left \in SUBSET Conns, NEW sockets, H!Disconnect(left, sockets),
           sockets = [c \in Conns |-> sockets[c]],
           \A c \in Conns \ left : sockets[c] = ws[c],
           \A c \in left : /\ ws[c] = "closing" => sockets[c] # "open"
                           /\ sockets[c] = "closing" /\ stage = "up" => ~H!Active(c)
    PROVE  HubInv'
<1>1. CASE left \cap clients = {}
  <2>1. ws' = sockets /\ UNCHANGED <<clients, seen>>
    BY <1>1 DEF H!Disconnect, H!table
  <2>2. UNCHANGED <<stage, auth, owner, broken, lane>>
    BY DEF H!principal
  <2>3. HubTyped'
    BY <2>1, <2>2 DEF HubInv, HubTyped, H!LaneOf
  <2>4. Closed'
    BY <2>1, <2>2 DEF HubInv, HubTyped, Closed, H!Active, H!Authenticates, H!Claimable, H!LaneOf
  <2>5. H!HubIsSafe'
    BY <1>1, <2>1, <2>2
       DEF HubInv, HubTyped, H!HubIsSafe, H!PresenceIsTrue, H!TableIsLive, H!Agents
  <2> QED BY <2>3, <2>4, <2>5 DEF HubInv
<1>2. CASE left \cap clients # {}
  <2>1. H!Tell(clients \ left, before, H!Nowhere, {}, left \cap clients, sockets)
    BY <1>2 DEF H!Disconnect
  <2>2. clients \ left \in SUBSET Conns /\ left \cap clients \in SUBSET Conns
    BY DEF HubInv, HubTyped
  <2>3. \A c \in Conns \ (clients \ left) :
           /\ ws[c] = "closing" => sockets[c] # "open"
           /\ sockets[c] = "closing" /\ stage = "up" => ~H!Active(c)
    BY DEF HubInv, Closed
  <2>4. \A c \in clients \ left : sockets[c] = ws[c]
    BY <2>2
  <2> QED BY <2>1, <2>2, <2>3, <2>4, TellKeeps
<1> QED BY <1>1, <1>2

(* A key, a credential or an agent that goes out of use closes nothing yet.  *)
LEMMA OutOfUseKeeps ==
    ASSUME HubInv, UNCHANGED <<stage, owner, ws, clients, seen>>,
           lane' = [l \in DOMAIN lane |-> lane'[l]],
           \A c \in Conns : ~H!Active(c) => ~H!Active(c)'
    PROVE  HubInv'
<1>1. HubTyped'
  BY DEF HubInv, HubTyped, H!LaneOf
<1>2. Closed'
  BY DEF HubInv, Closed
<1>3. H!HubIsSafe'
  BY DEF HubInv, H!HubIsSafe, H!PresenceIsTrue, H!TableIsLive, H!Agents
<1> QED BY <1>1, <1>2, <1>3 DEF HubInv

LEMMA HubStepKeeps == HubInv /\ [H!HubNext]_(H!hubVars) => HubInv'
<1> SUFFICES ASSUME HubInv, [H!HubNext]_(H!hubVars) PROVE HubInv'
  OBVIOUS
<1>0. HubTyped /\ Closed /\ H!HubIsSafe
  BY DEF HubInv
<1>1. ASSUME NEW c \in Conns, H!Connect(c) PROVE HubInv'
  <2>1. /\ ws[c] = "none" /\ stage # "stopped"
        /\ UNCHANGED <<stage, auth, owner, broken, lane, clients, seen>>
        /\ ws' = [ws EXCEPT ![c] = "open"]
    BY <1>1 DEF H!Connect, H!principal, H!table
  <2>2. /\ ws'[c] = "open" /\ c \notin clients
        /\ \A d \in Conns \ {c} : ws'[d] = ws[d]
        /\ ws' = [d \in Conns |-> ws'[d]]
    BY <1>0, <2>1 DEF HubTyped, H!HubIsSafe, H!TableIsLive
  <2>3. HubTyped'
    BY <1>0, <2>1, <2>2 DEF HubTyped, H!LaneOf
  <2>4. Closed'
    BY <1>0, <2>1, <2>2 DEF Closed, H!Active, H!Authenticates, H!Claimable, H!LaneOf
  <2>5. H!HubIsSafe'
    BY <1>0, <2>1, <2>2 DEF HubTyped, H!HubIsSafe, H!PresenceIsTrue, H!TableIsLive, H!Agents
  <2> QED BY <2>3, <2>4, <2>5 DEF HubInv
<1>2. ASSUME NEW c \in Conns, H!Refuse(c) PROVE HubInv'
  <2>1. /\ ~H!Active(c) /\ UNCHANGED <<stage, H!principal>> /\ stage # "stopped"
        /\ H!Disconnect({c}, [ws EXCEPT ![c] = "closing"])
    BY <1>2 DEF H!Refuse, H!Receives
  <2>2. PICK sockets : sockets = [ws EXCEPT ![c] = "closing"]
    OBVIOUS
  <2>3. /\ sockets = [d \in Conns |-> sockets[d]] /\ sockets[c] = "closing"
        /\ \A d \in Conns \ {c} : sockets[d] = ws[d]
    BY <1>0, <2>2 DEF HubTyped
  <2>4. {c} \in SUBSET Conns /\ H!Disconnect({c}, sockets)
    BY <2>1, <2>2
  <2> HIDE DEF HubInv
  <2> QED BY <2>1, <2>3, <2>4, DisconnectKeeps
<1>3. ASSUME NEW c \in Conns, H!Register(c) PROVE HubInv'
  <2>1. /\ H!Active(c) /\ UNCHANGED <<stage, H!principal>> /\ stage # "stopped"
        /\ ws[c] \in {"open", "closing"}
        /\ H!Tell(clients \union {c},
                IF c \in clients THEN before ELSE before \union (clients \X {c}),
                owner[c].tenant, {owner[c].agent}, {}, ws)
    BY <1>3 DEF H!Register, H!Receives
  <2>2. ws[c] = "closing" => stage = "stopping"
    BY <1>0, <2>1 DEF Closed
  <2>3. c \notin clients => seen[c] = {}
    BY <1>0 DEF Closed
  <2>4. clients \union {c} \in SUBSET Conns
    BY <1>0 DEF HubTyped
  <2>5. \A d \in Conns : ws[d] = "closing" /\ stage = "up" => ~H!Active(d)
    BY <1>0 DEF Closed
  <2>6. H!Stays(c)
    BY <2>1 DEF H!Stays
  <2> QED BY <2>1, <2>2, <2>3, <2>4, <2>5, <2>6, TellKeeps
<1>4. ASSUME UNCHANGED <<stage, H!principal, ws, clients, seen>> PROVE HubInv'
  <2>1. UNCHANGED <<auth, owner, broken, lane>>
    BY <1>4 DEF H!principal
  <2>2. \A d \in Conns : H!Active(d)' = H!Active(d)
    BY <2>1 DEF H!Active, H!Authenticates, H!Claimable, H!LaneOf
  <2>3. lane' = [l \in DOMAIN lane |-> lane'[l]]
    BY <1>0, <2>1 DEF HubTyped
  <2> QED BY <1>4, <2>1, <2>2, <2>3, OutOfUseKeeps
<1>5. ASSUME NEW c \in Conns, H!Close(c) PROVE HubInv'
  <2>1. /\ UNCHANGED <<stage, H!principal>> /\ ws[c] \in {"open", "closing"}
        /\ H!Disconnect({c}, [ws EXCEPT ![c] = "closed"])
    BY <1>5 DEF H!Close
  <2>2. PICK sockets : sockets = [ws EXCEPT ![c] = "closed"]
    OBVIOUS
  <2>3. /\ sockets = [d \in Conns |-> sockets[d]] /\ sockets[c] = "closed"
        /\ \A d \in Conns \ {c} : sockets[d] = ws[d]
    BY <1>0, <2>2 DEF HubTyped
  <2>4. stage # "stopped"
    BY <1>0, <2>1 DEF Closed
  <2>5. {c} \in SUBSET Conns /\ H!Disconnect({c}, sockets)
    BY <2>1, <2>2
  <2> QED BY <2>1, <2>3, <2>4, <2>5, DisconnectKeeps
<1>6. ASSUME NEW c \in Conns, H!Break(c) PROVE HubInv'
  <2>1. \A d \in Conns : ~H!Active(d) => ~H!Active(d)'
    BY <1>0, InactiveStays
  <2> QED BY <1>0, <1>6, <2>1, OutOfUseKeeps DEF H!Break, HubTyped, H!table
<1>7. ASSUME NEW l \in DOMAIN lane, H!Enforce(l) PROVE HubInv'
  <2>1. \A d \in Conns : ~H!Active(d) => ~H!Active(d)'
    BY <1>0, InactiveStays
  <2> QED BY <1>0, <1>7, <2>1, OutOfUseKeeps DEF H!Enforce, HubTyped, H!table
<1>8. CASE H!Push
  <2>1. /\ UNCHANGED <<stage, H!principal>> /\ stage # "stopped"
        /\ H!Tell(clients, before, H!Nowhere, {}, {}, ws)
    BY <1>8 DEF H!Push
  <2>2. clients \in SUBSET Conns
    BY <1>0 DEF HubTyped
  <2>3. \A d \in Conns : ws[d] = "closing" /\ stage = "up" => ~H!Active(d)
    BY <1>0 DEF Closed
  <2> QED BY <2>1, <2>2, <2>3, TellKeeps
<1>9. CASE H!Monitor
  <2>1. PICK left \in SUBSET clients : H!Disconnect(left, ws)
    BY <1>9 DEF H!Monitor
  <2>2. /\ UNCHANGED <<stage, H!principal>> /\ stage # "stopped" /\ left \in SUBSET Conns
    BY <1>0, <1>9 DEF H!Monitor, HubTyped
  <2> QED BY <1>0, <2>1, <2>2, DisconnectKeeps DEF HubTyped, Closed
<1>10. CASE H!Stop
  <2>1. /\ stage = "up" /\ stage' = "stopping"
        /\ UNCHANGED <<auth, owner, broken, lane, clients, seen>>
        /\ ws' = [c \in Conns |-> IF ws[c] = "open" THEN "closing" ELSE ws[c]]
    BY <1>10 DEF H!Stop, H!principal, H!table
  <2>2. HubTyped'
    BY <1>0, <2>1 DEF HubTyped, H!LaneOf
  <2>3. Closed'
    BY <1>0, <2>1 DEF HubTyped, Closed
  <2>4. H!HubIsSafe'
    BY <1>0, <2>1 DEF HubTyped, H!HubIsSafe, H!PresenceIsTrue, H!TableIsLive, H!Agents
  <2> QED BY <2>2, <2>3, <2>4 DEF HubInv
<1>11. CASE H!Terminate
  <2>1. /\ stage' = "stopped" /\ UNCHANGED <<auth, owner, broken, lane>>
        /\ clients' = {} /\ seen' = [c \in Conns |-> {}]
        /\ ws' = [c \in Conns |-> IF ws[c] = "none" THEN "none" ELSE "closed"]
    BY <1>11 DEF H!Terminate, H!principal
  <2>2. HubTyped'
    BY <1>0, <2>1 DEF HubTyped, H!LaneOf
  <2>3. Closed'
    BY <1>0, <2>1 DEF HubTyped, Closed
  <2>4. H!HubIsSafe'
    BY <1>0, <2>1 DEF HubTyped, H!HubIsSafe, H!PresenceIsTrue, H!TableIsLive, H!Agents
  <2> QED BY <2>2, <2>3, <2>4 DEF HubInv
<1>12. CASE UNCHANGED H!hubVars
  BY <1>4, <1>12 DEF H!hubVars, H!principal
<1>13. ASSUME NEW c \in Conns, H!Heartbeat(c) PROVE HubInv'
  BY <1>4, <1>13 DEF H!Heartbeat, H!table
<1> QED BY <1>1, <1>2, <1>3, <1>5, <1>6, <1>7, <1>8, <1>9, <1>10, <1>11, <1>12, <1>13
        DEF H!HubNext

(* The message hub: what a client has heard is so, and who was closed for    *)
(* want of a proof is not in the table, for any number of connections.       *)
THEOREM HubKeepsSafe == H!HubSpec => []H!HubIsSafe
<1>1. HubInv => H!HubIsSafe
  BY DEF HubInv
<1> QED BY <1>1, HubBegins, HubStepKeeps, PTL DEF H!HubSpec

(* Whoever is out of use is told nothing and loses its place.                *)
LEMMA NoneInactiveIsTold ==
    ASSUME HubTyped, [H!HubNext]_(H!hubVars)
    PROVE  H!HubStep
<1> SUFFICES ASSUME NEW c \in clients, ~H!Active(c),
                    <<clients, seen>>' # <<clients, seen>>
             PROVE  c \notin clients'
  BY DEF H!HubStep
<1>1. ASSUME NEW told, NEW order, NEW tenant, NEW joined, NEW left, NEW sockets,
             H!Tell(told, order, tenant, joined, left, sockets)
      PROVE  c \notin clients'
  BY <1>1 DEF H!Tell, H!Stays
<1>2. ASSUME NEW left, NEW sockets, H!Disconnect(left, sockets) PROVE c \notin clients'
  BY <1>1, <1>2 DEF H!Disconnect, H!table
<1> QED BY <1>1, <1>2 DEF H!HubNext, H!hubVars, H!table, H!Connect, H!Refuse, H!Register, H!Heartbeat,
                          H!Close, H!Break, H!Enforce, H!Push, H!Monitor, H!Stop, H!Terminate

LEMMA ToldOnlyWhenActive == H!HubSpec => [][H!HubStep]_(H!hubVars)
<1>1. HubInv /\ [H!HubNext]_(H!hubVars) => H!HubStep
  BY NoneInactiveIsTold DEF HubInv
<1> QED BY <1>1, HubBegins, HubStepKeeps, PTL DEF H!HubSpec

(* Registry *)
Registration == [name : Displays, caps : Caps, status : {"active", "inactive"},
                 updated : Nat, expires : Nat]
Sending == [on : {TRUE}, todo : SUBSET Ids, not : SUBSET Ids, must : SUBSET Ids,
            may : SUBSET Ids]
Ending == [must : SUBSET Ids, may : SUBSET Ids, failed : BOOLEAN]

RowsTyped ==
    /\ now \in Nat /\ now <= MaxNow
    /\ DOMAIN rows \subseteq Ids /\ rows \in [DOMAIN rows -> Registration]
    /\ \A id \in DOMAIN rows : rows[id].updated <= now

SendsTyped ==
    /\ boxes \in Seq([Ids -> Nat]) /\ ended \in Seq(Ending)
    /\ send = A!Quiet \/ send \in Sending
    /\ Len(boxes) = Len(ended) + (IF send.on THEN 1 ELSE 0)

(* The broadcast that runs: whom it is stored for already, whom it is still  *)
(* to be stored for, and that these are all it was for.                      *)
Underway(box) ==
    \A id \in Ids :
        /\ \/ box[id] = 0
           \/ box[id] = 1 /\ id \notin send.todo /\ id \in send.may \ send.not
        /\ id \in send.todo => id \in send.may \ send.not
        /\ id \in send.must \ send.not => id \in send.todo \/ box[id] = 1

RegistryInv ==
    /\ RowsTyped /\ SendsTyped
    /\ send.on => Underway(boxes[Len(boxes)])
    /\ A!BroadcastReaches

LEMMA RegistryBegins == A!RegistryInit => RegistryInv
<1> SUFFICES ASSUME A!RegistryInit PROVE RegistryInv
  OBVIOUS
<1>1. RowsTyped
  <2>1. now \in Nat /\ now <= MaxNow
    BY RegistryBounds DEF A!RegistryAssumption, A!RegistryInit
  <2>2. DOMAIN rows = {}
    BY DEF A!RegistryInit
  <2>3. rows \in [DOMAIN rows -> Registration]
    BY <2>2 DEF A!RegistryInit
  <2> QED BY <2>1, <2>2, <2>3 DEF RowsTyped
<1>2. SendsTyped /\ ~send.on
  BY DEF A!RegistryInit, SendsTyped, A!Quiet
<1>3. A!BroadcastReaches
  BY DEF A!RegistryInit, A!BroadcastReaches
<1> QED BY <1>1, <1>2, <1>3 DEF RegistryInv

(* What the steps do to the registrations. *)
LEMMA RowSteps ==
    ASSUME RowsTyped, [A!RegistryNext]_(A!registryVars)
    PROVE  RowsTyped'
<1> USE DEF RowsTyped
<1>1. CASE A!Register
  <2>1. PICK id \in Ids, row \in Registration :
           /\ row.updated = now
           /\ rows' = [i \in DOMAIN rows \union {id} |-> IF i = id THEN row ELSE rows[i]]
    <3>1. PICK id \in Ids, name \in Displays, caps \in Caps, ttl \in Ttls :
             LET row == [name |-> name, caps |-> caps, status |-> "active", updated |-> now,
                         expires |-> IF ttl = A!Forever THEN A!Forever ELSE now + ttl]
             IN rows' = [i \in DOMAIN rows \union {id} |-> IF i = id THEN row ELSE rows[i]]
      BY <1>1 DEF A!Register
    <3>2. PICK expires \in Nat : expires = IF ttl = A!Forever THEN A!Forever ELSE now + ttl
      BY RegistryBounds DEF A!RegistryAssumption, A!Forever
    <3>3. PICK row : row = [name |-> name, caps |-> caps, status |-> "active",
                            updated |-> now, expires |-> expires]
      OBVIOUS
    <3>4. row \in Registration /\ row.updated = now
      BY <3>3 DEF Registration
    <3>5. rows' = [i \in DOMAIN rows \union {id} |-> IF i = id THEN row ELSE rows[i]]
      BY <3>1, <3>2, <3>3
    <3> QED BY <3>4, <3>5
  <2>2. now' = now
    BY <1>1 DEF A!Register
  <2> QED BY <2>1, <2>2
<1>2. CASE A!Unregister
  <2>1. PICK id \in DOMAIN rows :
           rows' = [rows EXCEPT ![id].status = "inactive", ![id].updated = now]
    BY <1>2 DEF A!Unregister
  <2>2. now' = now
    BY <1>2 DEF A!Unregister
  <2> QED BY <2>1, <2>2 DEF Registration
<1>3. ASSUME NEW ids, rows' = A!Without(ids), now' = now PROVE RowsTyped'
  BY <1>3 DEF A!Without
<1>4. CASE A!Collect \/ A!CollectEphemeral
  BY <1>3, <1>4 DEF A!Collect, A!CollectEphemeral
<1>5. CASE A!Tick
  <2>1. rows' = rows /\ now' = now + 1 /\ now < MaxNow
    BY <1>5 DEF A!Tick
  <2>2. now' \in Nat /\ now' <= MaxNow
    BY <2>1, RegistryBounds DEF A!RegistryAssumption
  <2>3. \A id \in DOMAIN rows : rows[id] \in Registration /\ rows[id].updated <= now
    OBVIOUS
  <2>4. \A id \in DOMAIN rows : rows[id].updated <= now'
    BY <2>1, <2>3 DEF Registration
  <2> QED BY <2>1, <2>2, <2>4
<1>6. CASE UNCHANGED <<rows, now>>
  BY <1>6
<1> QED BY <1>1, <1>2, <1>4, <1>5, <1>6
        DEF A!RegistryNext, A!Send, A!Deliver, A!Answer, A!StoreFails, A!End, A!registryVars

(* A change of the registrations takes nobody into a broadcast that runs. *)
LEMMA WatchKeeps ==
    ASSUME RegistryInv, UNCHANGED <<boxes, ended>>,
           send' = send \/ (send.on /\ \E kept \in SUBSET send.must :
                                          send' = [send EXCEPT !.must = kept])
    PROVE  /\ SendsTyped' /\ (send'.on => Underway(boxes[Len(boxes)])')
           /\ A!BroadcastReaches'
<1>1. A!BroadcastReaches'
  BY DEF RegistryInv, A!BroadcastReaches
<1>2. CASE send' = send
  BY <1>1, <1>2 DEF RegistryInv, SendsTyped, Underway
<1>3. CASE send.on /\ \E kept \in SUBSET send.must : send' = [send EXCEPT !.must = kept]
  <2>1. send \in Sending
    BY <1>3 DEF RegistryInv, SendsTyped, A!Quiet
  <2>2. /\ send' \in Sending /\ send'.on = send.on /\ send'.todo = send.todo
        /\ send'.not = send.not
        /\ send'.may = send.may /\ send'.must \subseteq send.must
    BY <1>3, <2>1 DEF Sending
  <2>3. SendsTyped'
    BY <2>2 DEF RegistryInv, SendsTyped
  <2>4. Underway(boxes[Len(boxes)])'
    BY <1>3, <2>2 DEF RegistryInv, Underway
  <2> QED BY <1>1, <2>3, <2>4
<1> QED BY <1>2, <1>3

LEMMA RegistryStepKeeps == RegistryInv /\ [A!RegistryNext]_(A!registryVars) => RegistryInv'
<1> SUFFICES ASSUME RegistryInv, [A!RegistryNext]_(A!registryVars) PROVE RegistryInv'
  OBVIOUS
<1>0. RowsTyped' /\ RowsTyped /\ SendsTyped /\ A!BroadcastReaches
  BY RowSteps DEF RegistryInv
<1>1. CASE A!Register \/ A!Unregister \/ A!Collect \/ A!CollectEphemeral
  <2>1. UNCHANGED <<boxes, ended>> /\ A!Watch
    BY <1>1 DEF A!Register, A!Unregister, A!Collect, A!CollectEphemeral
  <2>2. \/ send' = send
        \/ send.on /\ \E kept \in SUBSET send.must : send' = [send EXCEPT !.must = kept]
    BY <2>1 DEF A!Watch
  <2> QED BY <1>0, <2>1, <2>2, WatchKeeps DEF RegistryInv
<1>2. CASE A!Tick
  <2>1. \/ send' = send
        \/ send.on /\ \E kept \in SUBSET send.must : send' = [send EXCEPT !.must = kept]
    BY <1>2 DEF A!Tick
  <2> QED BY <1>0, <1>2, <2>1, WatchKeeps DEF RegistryInv, A!Tick
<1>3. CASE A!Send
  <2>0. PICK from \in Ids, want \in Caps, alone \in BOOLEAN :
           LET to == A!Reached(want) \ (IF alone THEN {from} ELSE {})
               live == {id \in DOMAIN rows : rows[id].status = "active" /\ rows[id].expires > now
                                             /\ want \subseteq rows[id].caps}
           IN /\ send' = [on |-> TRUE, todo |-> to, not |-> IF alone THEN {from} ELSE {},
                          must |-> live, may |-> live]
              /\ boxes' = Append(boxes, [id \in Ids |-> 0])
    BY <1>3 DEF A!Send
  <2>1. PICK live :
           /\ live = {id \in DOMAIN rows : rows[id].status = "active" /\ rows[id].expires > now
                                            /\ want \subseteq rows[id].caps}
           /\ send' = [on |-> TRUE, todo |-> A!Reached(want) \ (IF alone THEN {from} ELSE {}),
                       not |-> IF alone THEN {from} ELSE {}, must |-> live, may |-> live]
           /\ boxes' = Append(boxes, [id \in Ids |-> 0])
    BY <2>0
  <2>2. A!Reached(want) = live
    BY <1>0, <2>1, RegistryBounds
       DEF A!RegistryAssumption, RowsTyped, Registration, A!Reached, A!Status, A!Expired, A!Forever
  <2>3. live \subseteq Ids /\ ~send.on /\ ended' = ended
    BY <1>0, <1>3, <2>1 DEF RowsTyped, A!Send
  <2>4. PICK to, not : to = live \ not /\ not \subseteq Ids
                       /\ send' = [on |-> TRUE, todo |-> to, not |-> not, must |-> live,
                                   may |-> live]
    BY <2>1, <2>2
  <2>5. /\ boxes' \in Seq([Ids -> Nat]) /\ Len(boxes') = Len(boxes) + 1
        /\ boxes'[Len(boxes')] = [id \in Ids |-> 0]
        /\ \A n \in DOMAIN boxes : boxes'[n] = boxes[n]
    BY <1>0, <2>1 DEF SendsTyped
  <2>6. SendsTyped'
    BY <1>0, <2>3, <2>4, <2>5 DEF SendsTyped, Sending
  <2>7. Underway(boxes[Len(boxes)])'
    BY <2>4, <2>5 DEF Underway
  <2>8. A!BroadcastReaches'
    <3>1. \A n \in DOMAIN ended : n \in DOMAIN boxes
      BY <1>0, <2>3 DEF SendsTyped
    <3> QED BY <1>0, <2>3, <2>5, <3>1 DEF A!BroadcastReaches
  <2> QED BY <1>0, <2>6, <2>7, <2>8 DEF RegistryInv
<1>4. CASE A!Deliver
  <2>1. PICK to \in send.todo :
           /\ send.on /\ ended' = ended
           /\ boxes' = [boxes EXCEPT ![Len(boxes)][to] = @ + 1]
           /\ send' = [send EXCEPT !.todo = @ \ {to}]
    BY <1>4 DEF A!Deliver
  <2>2. send \in Sending /\ to \in Ids
    <3>1. send # A!Quiet
      BY <2>1 DEF A!Quiet
    <3>2. send \in Sending
      BY <1>0, <3>1 DEF SendsTyped
    <3>3. send.todo \subseteq Ids
      BY <3>2 DEF Sending
    <3> QED BY <2>1, <3>2, <3>3
  <2>3. PICK last : last = Len(boxes)
    OBVIOUS
  <2>4. /\ last \in DOMAIN boxes /\ last \in Nat /\ boxes[last] \in [Ids -> Nat]
        /\ last = Len(ended) + 1
    BY <1>0, <2>1, <2>3 DEF SendsTyped
  <2>5. /\ boxes' \in Seq([Ids -> Nat]) /\ Len(boxes') = last
        /\ boxes'[last] = [boxes[last] EXCEPT ![to] = @ + 1]
        /\ \A n \in DOMAIN boxes : n # last => boxes'[n] = boxes[n]
    BY <1>0, <2>1, <2>2, <2>3, <2>4 DEF SendsTyped
  <2>6. /\ send' \in Sending /\ send'.on = send.on /\ send'.todo = send.todo \ {to}
        /\ send'.not = send.not /\ send'.may = send.may /\ send'.must = send.must
    BY <2>1, <2>2 DEF Sending
  <2>7. SendsTyped'
    BY <1>0, <2>1, <2>3, <2>5, <2>6 DEF SendsTyped
  <2>8. Underway(boxes[last])
    BY <2>1, <2>3 DEF RegistryInv
  <2>9. boxes[last][to] = 0 /\ to \in send.may \ send.not
    BY <2>1, <2>2, <2>8 DEF Underway
  <2>10. /\ boxes'[last][to] = 1
         /\ \A id \in Ids \ {to} : boxes'[last][id] = boxes[last][id]
    BY <2>2, <2>4, <2>5, <2>9
  <2>11. Underway(boxes[Len(boxes)])'
    <3>1. ASSUME NEW id \in Ids
          PROVE  /\ \/ boxes'[last][id] = 0
                    \/ /\ boxes'[last][id] = 1 /\ id \notin send'.todo
                       /\ id \in send'.may \ send'.not
                 /\ id \in send'.todo => id \in send'.may \ send'.not
                 /\ id \in send'.must \ send'.not => id \in send'.todo \/ boxes'[last][id] = 1
      BY <2>6, <2>8, <2>9, <2>10 DEF Underway
    <3> QED BY <2>5, <3>1 DEF Underway
  <2>12. A!BroadcastReaches'
    <3>1. \A n \in DOMAIN ended : n \in DOMAIN boxes /\ n # last
      BY <1>0, <2>4 DEF SendsTyped
    <3> QED BY <1>0, <2>1, <2>5, <3>1 DEF A!BroadcastReaches
  <2> QED BY <1>0, <2>7, <2>11, <2>12 DEF RegistryInv
<1>5. ASSUME NEW failed \in BOOLEAN, send.on, A!End(failed), failed \/ send.todo = {}
      PROVE  RegistryInv'
  <2>1. send \in Sending
    BY <1>0, <1>5 DEF SendsTyped, A!Quiet
  <2>2. PICK entry : entry = [must |-> send.must \ send.not, may |-> send.may \ send.not,
                              failed |-> failed]
    OBVIOUS
  <2>3. entry \in Ending
    BY <2>1, <2>2 DEF Sending, Ending
  <2>4. /\ ended' = Append(ended, entry) /\ send' = A!Quiet /\ boxes' = boxes
    BY <1>5, <2>2 DEF A!End
  <2>5. PICK last : last = Len(boxes)
    OBVIOUS
  <2>6. last = Len(ended) + 1 /\ last \in DOMAIN boxes
    BY <1>0, <1>5, <2>5 DEF SendsTyped
  <2>7. /\ ended' \in Seq(Ending) /\ Len(ended') = last /\ ended'[last] = entry
        /\ DOMAIN ended' = DOMAIN ended \cup {last}
        /\ \A n \in DOMAIN ended : ended'[n] = ended[n]
    BY <1>0, <2>3, <2>4, <2>6 DEF SendsTyped
  <2>8. SendsTyped' /\ ~send'.on
    BY <1>0, <2>4, <2>5, <2>7 DEF SendsTyped, A!Quiet
  <2>9. Underway(boxes[last])
    BY <1>5, <2>5 DEF RegistryInv
  <2>10. ASSUME NEW id \in Ids
         PROVE  /\ boxes[last][id] <= 1
                /\ boxes[last][id] = 1 => id \in entry.may
                /\ id \in entry.must /\ ~entry.failed => boxes[last][id] = 1
    BY <1>5, <2>2, <2>9 DEF Underway
  <2>11. A!BroadcastReaches'
    BY <1>0, <2>4, <2>7, <2>10 DEF A!BroadcastReaches
  <2> QED BY <1>0, <2>8, <2>11 DEF RegistryInv
<1>6. CASE A!Answer \/ A!StoreFails
  BY <1>5, <1>6 DEF A!Answer, A!StoreFails
<1>7. CASE UNCHANGED A!registryVars
  BY <1>0, <1>7, WatchKeeps DEF A!registryVars, RegistryInv
<1> QED BY <1>1, <1>2, <1>3, <1>4, <1>6, <1>7 DEF A!RegistryNext

LEMMA Least ==
    ASSUME NEW T, T \subseteq Nat, T # {}
    PROVE  \E x \in T : \A y \in T : x <= y
<1> DEFINE Below == OpToRel(<, Nat)
<1> HIDE DEF Below
<1>1. IsWellFoundedOn(Below, Nat)
  BY NatLessThanWellFounded DEF Below
<1>2. \E t \in T : \A u \in T : ~ (<<u, t>> \in Below)
  BY <1>1, WFMin
<1>3. PICK t \in T : \A u \in T : ~ (u < t)
  BY <1>2 DEF OpToRel, Below
<1> QED BY <1>3

(* Of some sessions one is the oldest and one is the newest: none is newer  *)
(* than today.                                                              *)
LEMMA FirstAndLast ==
    ASSUME RowsTyped, NEW sessions, sessions \subseteq DOMAIN rows, sessions # {}
    PROVE  /\ \E id \in sessions : A!IsOldest(id, sessions)
           /\ \E id \in sessions : A!IsNewest(id, sessions)
<1>1. \A id \in sessions : rows[id].updated \in Nat /\ rows[id].updated <= now
  BY DEF RowsTyped, Registration
<1>2. now \in Nat
  BY DEF RowsTyped
<1>3. \E id \in sessions : A!IsOldest(id, sessions)
  <2>1. PICK T : T = {rows[id].updated : id \in sessions}
    OBVIOUS
  <2>2. T \subseteq Nat /\ T # {}
    BY <1>1, <2>1
  <2>3. PICK x \in T : \A y \in T : x <= y
    BY <2>2, Least
  <2>4. PICK id \in sessions : x = rows[id].updated
    BY <2>1
  <2>5. \A other \in sessions : rows[other].updated \in T
    BY <2>1
  <2>6. \A other \in sessions : rows[id].updated <= rows[other].updated
    BY <2>3, <2>4, <2>5
  <2> QED BY <2>6 DEF A!IsOldest
<1>4. \E id \in sessions : A!IsNewest(id, sessions)
  <2>1. PICK T : T = {now - rows[id].updated : id \in sessions}
    OBVIOUS
  <2>2. T \subseteq Nat /\ T # {}
    BY <1>1, <1>2, <2>1
  <2>3. PICK x \in T : \A y \in T : x <= y
    BY <2>2, Least
  <2>4. PICK id \in sessions : x = now - rows[id].updated
    BY <2>1
  <2>5. \A other \in sessions : now - rows[other].updated \in T
    BY <2>1
  <2>6. \A other \in sessions : now - rows[id].updated <= now - rows[other].updated
    BY <2>3, <2>4, <2>5
  <2>7. \A other \in sessions : rows[other].updated <= rows[id].updated
    BY <1>1, <1>2, <2>6
  <2> QED BY <2>7 DEF A!IsNewest
<1> QED BY <1>3, <1>4

(* The views of who is there agree whatever the registrations are. *)
LEMMA RowsShowOneView == RowsTyped => A!ViewsAgree
<1> SUFFICES ASSUME RowsTyped, NEW agent \in A!Canonicals
             PROVE  /\ A!Rollup(agent).status = "active"
                         <=> \E id \in A!Reached({}) : A!Canonical(id) = agent
                    /\ A!Roster(agent).status = "active" => A!Rollup(agent).status = "active"
                    /\ A!Rollup(agent).seen = A!Roster(agent).seen
  BY DEF A!ViewsAgree
<1>1. PICK sessions : sessions = A!Sessions(agent)
  OBVIOUS
<1>2. sessions \subseteq DOMAIN rows /\ sessions # {}
  BY <1>1 DEF A!Sessions, A!Canonicals
<1>3. PICK first : first = CHOOSE id \in sessions : A!IsOldest(id, sessions)
  OBVIOUS
<1>4. PICK newest : newest = CHOOSE id \in sessions : A!IsNewest(id, sessions)
  OBVIOUS
<1>5. first \in sessions /\ newest \in sessions /\ A!IsNewest(newest, sessions)
  BY <1>2, <1>3, <1>4, FirstAndLast
<1>6. PICK times : times = {rows[id].updated : id \in sessions}
  OBVIOUS
<1>7. A!Max(times) = rows[newest].updated
  <2>1. \A id \in sessions : rows[id].updated \in Nat
    BY <1>2 DEF RowsTyped, Registration
  <2>2. rows[newest].updated \in times /\ times \subseteq Nat
    BY <1>5, <1>6, <2>1
  <2>3. \A time \in times : time <= rows[newest].updated
    BY <1>5, <1>6 DEF A!IsNewest
  <2>4. PICK top : top = rows[newest].updated
    OBVIOUS
  <2>5. PICK m : m = CHOOSE x \in times : \A y \in times : x >= y
    OBVIOUS
  <2>6. top \in times /\ \A y \in times : top >= y
    BY <2>2, <2>3, <2>4
  <2>7. m \in times /\ \A y \in times : m >= y
    BY <2>5, <2>6
  <2>8. m = top
    BY <2>2, <2>6, <2>7
  <2> QED BY <2>4, <2>5, <2>8 DEF A!Max
<1>8. PICK active \in BOOLEAN :
         active <=> \E id \in sessions : A!Status(rows[id]) = "active"
  OBVIOUS
<1>9. /\ A!Rollup(agent).status = IF active THEN "active" ELSE A!Status(rows[first])
      /\ A!Rollup(agent).seen = A!Max(times)
  BY <1>1, <1>3, <1>6, <1>8 DEF A!Rollup
<1>10. /\ A!Roster(agent).seen = rows[newest].updated
       /\ A!Roster(agent).status = "active" => A!Status(rows[newest]) = "active"
  BY <1>1, <1>4 DEF A!Roster
<1>11. A!Rollup(agent).status = "active" <=> active
  BY <1>5, <1>8, <1>9
<1>12. active <=> \E id \in A!Reached({}) : A!Canonical(id) = agent
  BY <1>1, <1>8 DEF A!Sessions, A!Reached
<1> QED BY <1>5, <1>7, <1>8, <1>9, <1>10, <1>11, <1>12

(* RegistryIsSound (send_ai_message, get_agent_status, /api/agent-status): a *)
(* broadcast reaches whom it was for once, and the views agree.              *)
THEOREM BroadcastsReach == A!RegistrySpec => []A!RegistryIsSound
<1>1. RegistryInv => A!RegistryIsSound
  BY RowsShowOneView DEF RegistryInv, A!RegistryIsSound
<1> QED BY RegistryBegins, RegistryStepKeeps, <1>1, PTL DEF A!RegistrySpec

(* What the collectors take is expired, inactive, or an ephemeral id nobody *)
(* renewed.                                                                 *)
LEMMA WhatIsTaken == RegistryInv /\ [A!RegistryNext]_(A!registryVars) => A!RegistryStep
<1> SUFFICES ASSUME RegistryInv, [A!RegistryNext]_(A!registryVars),
                    NEW id \in DOMAIN rows \ DOMAIN rows', A!Status(rows[id]) = "active"
             PROVE  id \in Ephemeral /\ now - rows[id].updated > Retain
  BY DEF A!RegistryStep
<1>1. RowsTyped
  BY DEF RegistryInv
<1>2. A!Register => DOMAIN rows \subseteq DOMAIN rows'
  BY DEF A!Register
<1>3. A!Unregister => DOMAIN rows' = DOMAIN rows
  BY DEF A!Unregister
<1>4. CASE A!Collect
  <2>1. PICK expired \in BOOLEAN, age \in {0, 1, A!Forever} :
           \E batch \in A!Candidates(expired, age) : rows' = A!Without(batch)
    BY <1>4 DEF A!Collect
  <2>2. PICK batch \in A!Candidates(expired, age) : rows' = A!Without(batch)
    BY <2>1
  <2>3. id \in batch
    BY <2>2 DEF A!Without
  <2>4. A!Reasons(rows[id], expired, age) # {}
    BY <2>2, <2>3 DEF A!Candidates
  <2>5. rows[id].status \in {"active", "inactive"}
    BY <1>1 DEF RowsTyped, Registration
  <2> QED BY <2>4, <2>5 DEF A!Reasons, A!Status
<1>5. CASE A!CollectEphemeral
  <2>1. id \in Ephemeral /\ rows[id].updated < now - Retain
    BY <1>5 DEF A!CollectEphemeral, A!Without
  <2>2. rows[id].updated \in Nat /\ now \in Nat /\ Retain \in Nat
    BY <1>1, RegistryBounds DEF A!RegistryAssumption, RowsTyped, Registration
  <2> QED BY <2>1, <2>2
<1> QED BY <1>2, <1>3, <1>4, <1>5
        DEF A!RegistryNext, A!Tick, A!Send, A!Deliver, A!Answer, A!StoreFails, A!End, A!registryVars

LEMMA NoneInUseIsTaken == A!RegistrySpec => [][A!RegistryStep]_(A!registryVars)
BY WhatIsTaken, RegistryBegins, RegistryStepKeeps, PTL DEF A!RegistrySpec
-----------------------------------------------------------------------------
(* The run, whose machines have nothing to do with one another. *)
(* The manager's database outlives every connection, and nothing outlives the shutdown. *)
THEOREM ServerStaysSafe == ServicesSpec => []ServerIsSafe
<1>1. machine = "server" /\ ServicesInit => S!ServerInit
  BY DEF ServicesInit
<1>2. machine = "server" /\ [ServicesNext]_servicesVars => (machine = "server")' /\ [S!ServerNext]_(S!serverVars)
  BY DEF ServicesNext, servicesVars, ofHub, ofServer, ofResume, ofRegistry, ofGate, S!serverVars
<1>3. ~(machine = "server") /\ [ServicesNext]_servicesVars => (~(machine = "server"))'
  BY DEF ServicesNext, servicesVars
<1>4. S!ServerSpec => []S!ServerIsSafe
  BY ServerKeepsSafe
<1> QED BY <1>1, <1>2, <1>3, <1>4, PTL DEF ServicesSpec, ServerIsSafe, S!ServerSpec

(* The limits and the identities hold while Redis comes and goes. *)
THEOREM LimitsStaySafe == ServicesSpec => []GateIsSafe
<1>1. machine = "gate" /\ ServicesInit => G!GateInit
  BY DEF ServicesInit
<1>2. machine = "gate" /\ [ServicesNext]_servicesVars => (machine = "gate")' /\ [G!GateNext]_(G!gateVars)
  BY DEF ServicesNext, servicesVars, ofHub, ofServer, ofResume, ofRegistry, ofGate, G!gateVars, G!redisVars, G!tenantVars, G!countVars
<1>3. ~(machine = "gate") /\ [ServicesNext]_servicesVars => (~(machine = "gate"))'
  BY DEF ServicesNext, servicesVars
<1>4. G!GateSpec => []G!GateIsSafe
  BY GateKeepsSafe, GateBounds
<1> QED BY <1>1, <1>2, <1>3, <1>4, PTL DEF ServicesSpec, GateIsSafe, G!GateSpec

(* What resume shows is accounted for, is the reader's own, and a walk comes to all of it. *)
THEOREM WalksAreFollowed == ServicesSpec => []ResumeIsSound
<1>1. machine = "resume" /\ ServicesInit => R!ResumeInit
  BY DEF ServicesInit
<1>2. machine = "resume" /\ [ServicesNext]_servicesVars => (machine = "resume")' /\ [R!ResumeNext]_(R!resumeVars)
  BY DEF ServicesNext, servicesVars, ofHub, ofServer, ofResume, ofRegistry, ofGate, R!resumeVars
<1>3. ~(machine = "resume") /\ [ServicesNext]_servicesVars => (~(machine = "resume"))'
  BY DEF ServicesNext, servicesVars
<1>4. R!ResumeSpec => []R!ResumeIsSound
  BY R!WalksStaySound, ResumeBounds
<1> QED BY <1>1, <1>2, <1>3, <1>4, PTL DEF ServicesSpec, ResumeIsSound, R!ResumeSpec

(* Presence and the table of clients follow the connections. *)
THEOREM PresenceStaysTrue == ServicesSpec => []HubIsSafe
<1>1. machine = "hub" /\ ServicesInit => H!HubInit
  BY DEF ServicesInit
<1>2. machine = "hub" /\ [ServicesNext]_servicesVars => (machine = "hub")' /\ [H!HubNext]_(H!hubVars)
  BY DEF ServicesNext, servicesVars, ofHub, ofServer, ofResume, ofRegistry, ofGate, H!hubVars
<1>3. ~(machine = "hub") /\ [ServicesNext]_servicesVars => (~(machine = "hub"))'
  BY DEF ServicesNext, servicesVars
<1>4. H!HubSpec => []H!HubIsSafe
  BY HubKeepsSafe
<1> QED BY <1>1, <1>2, <1>3, <1>4, PTL DEF ServicesSpec, HubIsSafe, H!HubSpec

(* A broadcast reaches whom it was for, and the views of who is there agree. *)
THEOREM RegistryStaysSound == ServicesSpec => []RegistryIsSound
<1>1. machine = "registry" /\ ServicesInit => A!RegistryInit
  BY DEF ServicesInit
<1>2. machine = "registry" /\ [ServicesNext]_servicesVars => (machine = "registry")' /\ [A!RegistryNext]_(A!registryVars)
  BY DEF ServicesNext, servicesVars, ofHub, ofServer, ofResume, ofRegistry, ofGate, A!registryVars
<1>3. ~(machine = "registry") /\ [ServicesNext]_servicesVars => (~(machine = "registry"))'
  BY DEF ServicesNext, servicesVars
<1>4. A!RegistrySpec => []A!RegistryIsSound
  BY BroadcastsReach
<1> QED BY <1>1, <1>2, <1>3, <1>4, PTL DEF ServicesSpec, RegistryIsSound, A!RegistrySpec

LEMMA HubSteps == ServicesSpec => [][machine = "hub" => H!HubStep]_servicesVars
<1>1. machine = "hub" /\ ServicesInit => H!HubInit
  BY DEF ServicesInit
<1>2. machine = "hub" /\ [ServicesNext]_servicesVars
         => (machine = "hub")' /\ [H!HubNext]_(H!hubVars)
  BY DEF ServicesNext, servicesVars, ofHub, ofServer, ofResume, ofRegistry, ofGate, H!hubVars
<1>3. ~(machine = "hub") /\ [ServicesNext]_servicesVars => (~(machine = "hub"))'
  BY DEF ServicesNext, servicesVars
<1>4. H!HubSpec => [][H!HubStep]_(H!hubVars)
  BY ToldOnlyWhenActive
<1>5. UNCHANGED H!hubVars => H!HubStep
  BY DEF H!HubStep, H!hubVars
<1> QED BY <1>1, <1>2, <1>3, <1>4, <1>5, PTL DEF ServicesSpec, H!HubSpec

LEMMA ServerSteps == ServicesSpec => [][machine = "server" => S!ServerStep]_servicesVars
<1>1. machine = "server" /\ ServicesInit => S!ServerInit
  BY DEF ServicesInit
<1>2. machine = "server" /\ [ServicesNext]_servicesVars
         => (machine = "server")' /\ [S!ServerNext]_(S!serverVars)
  BY DEF ServicesNext, servicesVars, ofHub, ofServer, ofResume, ofRegistry, ofGate, S!serverVars
<1>3. ~(machine = "server") /\ [ServicesNext]_servicesVars => (~(machine = "server"))'
  BY DEF ServicesNext, servicesVars
<1>4. S!ServerSpec => []ServerInv
  BY ServerBegins, ServerStays, PTL DEF S!ServerSpec
<1>5. S!ServerSpec => [][S!ServerStep]_(S!serverVars)
  BY ShutdownsGoThrough
<1>6. ServerInv /\ UNCHANGED S!serverVars => S!ServerStep
  BY DEF ServerInv, Typed, Counts, Ended, S!ServerStep, S!serverVars
<1> QED BY <1>1, <1>2, <1>3, <1>4, <1>5, <1>6, PTL DEF ServicesSpec, S!ServerSpec

LEMMA RegistrySteps == ServicesSpec => [][machine = "registry" => A!RegistryStep]_servicesVars
<1>1. machine = "registry" /\ ServicesInit => A!RegistryInit
  BY DEF ServicesInit
<1>2. machine = "registry" /\ [ServicesNext]_servicesVars
         => (machine = "registry")' /\ [A!RegistryNext]_(A!registryVars)
  BY DEF ServicesNext, servicesVars, ofHub, ofServer, ofResume, ofRegistry, ofGate, A!registryVars
<1>3. ~(machine = "registry") /\ [ServicesNext]_servicesVars => (~(machine = "registry"))'
  BY DEF ServicesNext, servicesVars
<1>4. A!RegistrySpec => [][A!RegistryStep]_(A!registryVars)
  BY NoneInUseIsTaken
<1>5. UNCHANGED A!registryVars => A!RegistryStep
  BY DEF A!RegistryStep, A!registryVars
<1> QED BY <1>1, <1>2, <1>3, <1>4, <1>5, PTL DEF ServicesSpec, A!RegistrySpec

(* Acknowledgements stay; a call adds those of all it names, or none. *)
LEMMA ResumeSteps == [ServicesNext]_servicesVars /\ machine = "resume"
                       => R!ResumeNext \/ UNCHANGED servicesVars
BY DEF ServicesNext

LEMMA AllOrNone == R!ResumeNext => R!ResumeStep
<1> SUFFICES ASSUME R!ResumeNext PROVE R!ResumeStep
  OBVIOUS
<1>1. CASE named' = R!Silent /\ acks' = acks
  BY <1>1 DEF R!ResumeStep, R!Silent
<1>2. CASE R!BeginSession
  <2>1. PICK caller \in DOMAIN Callers, ids \in (SUBSET R!Handoffs) \ {{}} :
           /\ acks' = acks \union R!Acked(ids, R!Reader(caller))
           /\ named' = [ids |-> ids, agent |-> R!Reader(caller),
                        ok |-> \A h \in ids : Items[h].tenant = R!Tenant]
    BY <1>2 DEF R!BeginSession
  <2>2. PICK mine : mine = {[handoff |-> h, agent |-> R!Reader(caller)] : h \in ids}
    OBVIOUS
  <2>3. /\ named'.ids = ids /\ named'.agent = R!Reader(caller)
        /\ named'.ok <=> \A h \in ids : Items[h].tenant = R!Tenant
    BY <2>1
  <2>4. R!Acked(ids, R!Reader(caller)) =
           IF \A h \in ids : Items[h].tenant = R!Tenant THEN mine ELSE {}
    BY <2>2 DEF R!Acked
  <2>5. {[handoff |-> h, agent |-> named'.agent] : h \in named'.ids} = mine
    BY <2>2, <2>3, Zenon
  <2> QED BY <2>1, <2>3, <2>4, <2>5 DEF R!ResumeStep
<1> QED BY <1>1, <1>2 DEF R!ResumeNext, R!Resume, R!Follow, R!Arrive, R!Touch, R!Supersede,
                          R!Change

(* No step tells a client out of use anything, takes a shutdown back, takes a *)
(* connection in during one or the database from a client that is connected,  *)
(* keeps half of the acknowledgements of one call, or collects a registration *)
(* in use.                                                                    *)
THEOREM ServiceStepsStaySafe == ServicesSpec => StepsAreSafe
<1>1. [ServicesNext]_servicesVars =>
         [machine = "resume" => R!ResumeStep]_servicesVars
  BY ResumeSteps, AllOrNone
<1> QED BY <1>1, HubSteps, ServerSteps, RegistrySteps, PTL DEF ServicesSpec, StepsAreSafe, StepIsSafe
===============================================================================
