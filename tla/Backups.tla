-------------------------------- MODULE Backups --------------------------------
(***************************************************************************)
(* The snapshots of the database: files in backup directories, each with a *)
(* manifest.  Creating one awaits the backup; everything else is one       *)
(* synchronous handler, which a crash, or a full disk, may cut short at    *)
(* any of its file operations.  A manifest is written in place, so a write *)
(* that is cut short leaves one that cannot be read.                       *)
(*                                                                         *)
(* A snapshot has an id of its own, by which its entry is found; its file  *)
(* is named by the millisecond of its creation and a label, which another  *)
(* snapshot may share.  In one directory the two then share one file.      *)
(*                                                                         *)
(* A directory here is a place, not one of the path names that lead to it. *)
(***************************************************************************)
EXTENDS Integers, FiniteSets

CONSTANTS
    Scanned,        \* where listSnapshots looks, in its order; one of two
                    \* locations may be a folder of the other, or the same
    Folders,        \* folders of folders, which a caller may name as well
    MaxSnapshots, MaxCuts, MaxMoves

VARIABLES
    named,      \* id -> the name of its file
    files,      \* [dir, name] -> "half", "whole"
    lists,      \* dir -> ids of its manifest, or Torn
    creating,   \* [dir, id] whose backup is awaited
    op,         \* the handler that runs: its next file operation
    last,       \* number of snapshots begun
    answered,   \* the caller was told that it exists
    deleted,    \* a caller asked to delete it
    cuts,       \* crashes and full disks
    torn,       \* history: a manifest was cut short
    moves

backupVars == <<named, files, lists, creating, op, last, answered, deleted, cuts, torn, moves>>

Torn == {0}
Idle == [at |-> "idle"]
(* getBackupLocations, and the folders in them *)
Locations == {Scanned[i] : i \in DOMAIN Scanned}
Dirs == Locations \union Folders

BackupsAssumption == DOMAIN Scanned \subseteq Nat

BackupsInit ==
    /\ named = <<>> /\ files = <<>> /\ lists = [d \in Dirs |-> {}] /\ creating = {} /\ op = Idle
    /\ last = 0 /\ answered = {} /\ deleted = {} /\ cuts = 0 /\ torn = FALSE /\ moves = 0

File(dir, id) == <<dir, named[id]>>
With(file, state) == [f \in DOMAIN files \union {file} |-> IF f = file THEN state ELSE files[f]]
Without(file) == [f \in DOMAIN files \ {file} |-> files[f]]

(* No other snapshot, of now or earlier, was given its name. *)
HasItsName(id) == \A j \in 1..last : named[j] = named[id] => j = id

(* readManifest: one that cannot be read is empty *)
Manifest(dir) == IF lists[dir] = Torn THEN {} ELSE lists[dir]

(* listSnapshots: entries of the directories it scans whose file exists *)
Listed(id) ==
    {i \in DOMAIN Scanned : /\ id \in Manifest(Scanned[i])
                            /\ File(Scanned[i], id) \in DOMAIN files}

Found(id) == Scanned[CHOOSE i \in Listed(id) : \A j \in Listed(id) : i <= j]

Cut == cuts < MaxCuts /\ cuts' = cuts + 1

----------------------------------------------------------------------------
(* createSnapshot, up to the backup: under a name of its own, or, at the same  *)
(* millisecond and with the same label, under that of another one              *)
Create ==
    /\ op = Idle /\ last < MaxSnapshots /\ last' = last + 1
    /\ \E dir \in Dirs, name \in {last + 1} \union {named[i] : i \in 1..last} :
          /\ named' = [i \in 1..(last + 1) |-> IF i = last + 1 THEN name ELSE named[i]]
          /\ files' = With(<<dir, name>>, "half")
          /\ creating' = creating \union {<<dir, last + 1>>}
    /\ UNCHANGED <<lists, op, answered, deleted, cuts, torn, moves>>

BackupEnds ==
    /\ op = Idle
    /\ \E new \in creating :
          /\ File(new[1], new[2]) \in DOMAIN files
          /\ creating' = creating \ {new}
          /\ files' = With(File(new[1], new[2]), "whole")
          /\ op' = [at |-> "add", for |-> "create", id |-> new[2], to |-> new[1]]
    /\ UNCHANGED <<named, lists, last, answered, deleted, cuts, torn, moves>>

(* statSync: a caller removed the file, as that of another snapshot *)
BackupIsGone ==
    /\ op = Idle
    /\ \E new \in creating :
          File(new[1], new[2]) \notin DOMAIN files /\ creating' = creating \ {new}
    /\ UNCHANGED <<named, files, lists, op, last, answered, deleted, cuts, torn, moves>>

BackupFails ==
    /\ op = Idle /\ Cut
    /\ \E new \in creating : creating' = creating \ {new}
    /\ UNCHANGED <<named, files, lists, op, last, answered, deleted, torn, moves>>

(* moveSnapshot, up to the copy; to where it is, nothing moves *)
Move ==
    /\ op = Idle /\ moves < MaxMoves /\ moves' = moves + 1
    /\ \E id \in 1..last, to \in Dirs :
          /\ Listed(id) # {} /\ to # Found(id)
          /\ files' = With(File(to, id), "half")
          /\ op' = [at |-> "copy", for |-> "move", id |-> id, from |-> Found(id), to |-> to]
    /\ UNCHANGED <<named, lists, creating, last, answered, deleted, cuts, torn>>

CopyEnds ==
    /\ op.at = "copy"
    /\ files' = With(File(op.to, op.id), files[File(op.from, op.id)])
    /\ op' = [op EXCEPT !.at = "add"]
    /\ UNCHANGED <<named, lists, creating, last, answered, deleted, cuts, torn, moves>>

(* a mutant of CopyFails: the failure is ignored, as that of a manifest is *)
CopyFailsQuietly ==
    /\ op.at = "copy" /\ Cut
    /\ files' = Without(File(op.to, op.id)) /\ op' = [op EXCEPT !.at = "add"]
    /\ UNCHANGED <<named, lists, creating, last, answered, deleted, torn, moves>>

(* What was copied of a file is removed again. *)
CopyFails ==
    /\ op.at = "copy" /\ Cut
    /\ files' = Without(File(op.to, op.id)) /\ op' = Idle
    /\ UNCHANGED <<named, lists, creating, last, answered, deleted, torn, moves>>

AfterAdd(o) == IF o.for = "create" THEN Idle ELSE [o EXCEPT !.at = "remove"]

AddEntry ==
    /\ op.at = "add"
    /\ lists' = [lists EXCEPT ![op.to] = Manifest(op.to) \union {op.id}]
    /\ answered' = IF op.for = "create" THEN answered \union {op.id} ELSE answered
    /\ op' = AfterAdd(op)
    /\ UNCHANGED <<named, files, creating, last, deleted, cuts, torn, moves>>

AddFails ==
    /\ op.at = "add" /\ Cut
    /\ lists' = [lists EXCEPT ![op.to] = Torn] /\ torn' = TRUE /\ op' = Idle
    /\ UNCHANGED <<named, files, creating, last, answered, deleted, moves>>

(* deleteSnapshot: the file, then the entry *)
Delete ==
    /\ op = Idle
    /\ \E id \in 1..last :
          /\ Listed(id) # {}
          /\ op' = [at |-> "unlink", for |-> "delete", id |-> id, from |-> Found(id)]
          /\ deleted' = deleted \union {id}
    /\ UNCHANGED <<named, files, lists, creating, last, answered, cuts, torn, moves>>

AfterRemove == op' = IF op.for = "move" THEN [op EXCEPT !.at = "unlink"] ELSE Idle

RemoveEntry ==
    /\ op.at = "remove"
    /\ lists' = [lists EXCEPT ![op.from] = IF @ = Torn THEN Torn ELSE @ \ {op.id}]
    /\ AfterRemove
    /\ UNCHANGED <<named, files, creating, last, answered, deleted, cuts, torn, moves>>

(* A failure of this one is ignored. *)
RemoveFails ==
    /\ op.at = "remove" /\ Cut
    /\ lists' = [lists EXCEPT ![op.from] = Torn] /\ torn' = TRUE
    /\ AfterRemove
    /\ UNCHANGED <<named, files, creating, last, answered, deleted, moves>>

Unlink ==
    /\ op.at = "unlink"
    /\ files' = Without(File(op.from, op.id))
    /\ op' = IF op.for = "delete" THEN [op EXCEPT !.at = "remove"] ELSE Idle
    /\ UNCHANGED <<named, lists, creating, last, answered, deleted, cuts, torn, moves>>

(* The process ends: before, or in the middle of, the next file operation. *)
Crash ==
    /\ Cut /\ (op # Idle \/ creating # {})
    /\ creating' = {} /\ op' = Idle
    /\ \/ UNCHANGED <<named, lists, torn>>
       \/ /\ op.at = "add" /\ lists' = [lists EXCEPT ![op.to] = Torn] /\ torn' = TRUE
       \/ /\ op.at = "remove" /\ lists' = [lists EXCEPT ![op.from] = Torn] /\ torn' = TRUE
    /\ UNCHANGED <<named, files, last, answered, deleted, moves>>

BackupsNext ==
    \/ Create \/ BackupEnds \/ BackupIsGone \/ BackupFails \/ Move \/ CopyEnds \/ CopyFails
    \/ AddEntry \/ AddFails \/ Delete \/ RemoveEntry \/ RemoveFails \/ Unlink \/ Crash

BackupsSpec == BackupsInit /\ [][BackupsNext]_backupVars

----------------------------------------------------------------------------
Going(id) == op # Idle /\ op.id = id
Copies(id) == {d \in Dirs : File(d, id) \in DOMAIN files /\ files[File(d, id)] = "whole"}
(* the snapshots that share no name with another, of which there is this to say *)
Own == {id \in 1..last : HasItsName(id)}

(* A snapshot a caller was told of, and did not ask to delete, has a whole copy *)
(* of its file: no move loses it, wherever it stops.  It takes a second failure, *)
(* of the same snapshot: a move of what the first two left over the whole file. *)
NoneIsLost ==
    cuts < 2 => \A id \in Own \intersect (answered \ deleted) : Copies(id) # {}

(* While no manifest was cut short, it can be found, if it is where one looks.  *)
NoneIsHidden ==
    ~torn => \A id \in Own \intersect (answered \ deleted) :
        Listed(id) # {} \/ Going(id) \/ \E d \in Folders : id \in Manifest(d)

(* The first one that is found of a snapshot can be restored; it takes a second *)
(* failure, in the retry of a move that was cut short, to change that.          *)
FoundIsWhole ==
    \A id \in Own : Listed(id) # {} /\ ~Going(id) /\ cuts < 2 => Found(id) \in Copies(id)

(* Without such a failure it is found in one directory, however often that is   *)
(* scanned, and a deleted one no more.                                          *)
FoundOnce ==
    cuts = 0 => \A id \in Own : ~Going(id) =>
        /\ Cardinality({Scanned[i] : i \in Listed(id)}) <= 1 /\ Cardinality(Copies(id)) <= 1
        /\ id \in deleted => Listed(id) = {} /\ Copies(id) = {}

BackupsAreSafe == NoneIsLost /\ NoneIsHidden /\ FoundIsWhole /\ FoundOnce
=============================================================================
