----------------------------- MODULE Migration ------------------------------
(***************************************************************************)
(* One execute run of an offline tool on a database others may still use:  *)
(* "restore" is migration 007, "adjudicate" its companion.  What they do   *)
(* to the rows is in Cleanup; here the database is a version, and a run is *)
(* the order of its backup, its lock, its files and its report.            *)
(*                                                                         *)
(* A path names an inode: the database's own "db", the tool's backup       *)
(* "copy", its report "note", or a file "theirs" that somebody else put    *)
(* there.  Other processes write the database while it is not locked, and  *)
(* remove, replace or overwrite files at any moment.  A report is written  *)
(* in place: truncated, written, synced, looked at once more; each of      *)
(* these may fail, and the process may die between them.                   *)
(***************************************************************************)
EXTENDS Integers

CONSTANTS
    Tools,         \* subset of {"restore", "adjudicate"}
    MaxWrites,     \* writes of other connections
    MaxMeddling,   \* files removed, replaced or overwritten by others
    MaxFaults      \* failed system calls

VARIABLES
    tool, pc,
    db,        \* committed database: [version, done]
    locked,    \* the tool holds the write lock, its work uncommitted
    at,        \* inode at each path
    copy,      \* content of the tool's backup inode
    note,      \* content of the tool's report inode
    known,     \* that content is what ownership.hash and ctimeNs remember
    seen,      \* database of the reviewed analysis
    hash,      \* content of the backup when it was verified
    report,    \* the report in memory
    result,    \* what the run returned
    writes, meddling, faults

counters == <<writes, meddling, faults>>
onDisk == <<note, known>>
vars == <<tool, pc, db, locked, at, copy, onDisk, seen, hash, report, result, counters>>

Paths == {"database", "temporary", "backup", "report"}
Nobody == "nobody"
Databases == [version : 0..MaxWrites, done : BOOLEAN]
NoDatabase == [version |-> -1, done |-> FALSE]
Spoilt == [version |-> -2, done |-> FALSE]
(* what the logical snapshots of two files tell apart *)
Contents == Databases \union {NoDatabase, Spoilt}
Statuses == {"none", "pending", "refused", "aborted", "rolled-back", "applied",
             "committed-backup-verification-failed", "applied-report-write-failed"}
Reports == [status : Statuses \union {"spoilt", "torn"}, backup : BOOLEAN, restored : BOOLEAN]
(* where the report in memory is about to be written to its file *)
WriteSteps == {"refuse", "pending", "record", "final", "correct", "undo", "giveup"}
Steps == WriteSteps \union
         {"analyze", "lock", "stage", "copy", "verify", "publish", "mutate", "check",
          "commit", "after", "judge", "last", "catch", "abort", "ended", "dead"}

Blank == [status |-> "none", backup |-> FALSE, restored |-> FALSE]
(* a report cut short: no reader finds a status in it *)
Torn == [Blank EXCEPT !.status = "torn"]

MigrationAssumption ==
    /\ Tools \subseteq {"restore", "adjudicate"}
    /\ {MaxWrites, MaxMeddling, MaxFaults} \subseteq Nat

TypeOK ==
    /\ tool \in Tools /\ pc \in Steps /\ db \in Databases /\ locked \in BOOLEAN
    /\ at \in [Paths -> {Nobody, "db", "copy", "note", "theirs"}]
    /\ copy \in Contents /\ seen \in Contents /\ hash \in Contents
    /\ note \in Reports /\ known \in BOOLEAN /\ report \in Reports /\ result \in Statuses \union {"thrown"}
    /\ writes \in 0..MaxWrites /\ meddling \in 0..MaxMeddling /\ faults \in 0..MaxFaults

Init ==
    /\ tool \in Tools
    /\ pc = "analyze"
    /\ db = [version |-> 0, done |-> FALSE]
    /\ locked = FALSE
    /\ at = [p \in Paths |-> CASE p = "database" -> "db" [] p = "report" -> "note"
                               [] OTHER -> Nobody]
    /\ copy = NoDatabase /\ seen = NoDatabase /\ hash = NoDatabase
    /\ note = Blank /\ known = TRUE /\ report = Blank /\ result = "none"
    /\ writes = 0 /\ meddling = 0 /\ faults = 0

Go(step) == pc' = step

----------------------------------------------------------------------------
(* Reports and artifacts *)

(* the report path is still the tool's own; migration 007 also wants its content *)
OwnsReport == at["report"] = "note" /\ (tool = "restore" => known)

(* where a written report leads *)
Written ==
    CASE pc = "pending" -> IF tool = "restore" THEN "lock" ELSE "stage"
      [] pc = "record" -> "commit"
      [] pc = "final" /\ report.status = "applied" -> "last"
      [] OTHER -> "ended"

(* where one leads that could not be written, and what the run then returns *)
Thrown ==
    CASE pc \in {"refuse", "pending"} -> "abort"
      [] pc = "record" -> "catch"
      [] pc = "undo" /\ tool = "restore" -> "abort"
      [] OTHER -> "ended"
Unwritten ==
    CASE pc = "final" /\ report.status = "applied" -> "applied-report-write-failed"
      [] pc = "giveup" /\ tool = "restore" -> "thrown"
      [] OTHER -> report.status

Leave(step, status) ==
    /\ Go(step)
    /\ result' = IF step = "ended" THEN status ELSE result

(* writeReport, or the exception it throws before it touches the file *)
WriteReport ==
    /\ pc \in WriteSteps
    /\ IF OwnsReport
       THEN note' = report /\ known' = TRUE /\ Leave(Written, report.status)
       ELSE UNCHANGED onDisk /\ Leave(Thrown, Unwritten)
    /\ UNCHANGED <<tool, db, locked, at, copy, seen, hash, report, counters>>

(* the file as a write leaves it that does not come to its end *)
CutShort ==
    \/ UNCHANGED onDisk
    \/ note' \in {Torn, report} /\ known' = FALSE

(* a call of writeReport fails: the truncation, the write, the sync or the look after *)
WriteBreaks ==
    /\ pc \in WriteSteps /\ OwnsReport /\ faults < MaxFaults
    /\ faults' = faults + 1
    /\ CutShort
    /\ Leave(Thrown, Unwritten)
    /\ UNCHANGED <<tool, db, locked, at, copy, seen, hash, report, writes, meddling>>

(* the path still leads to the inode that was opened, or made *)
IsDatabase == at["database"] = "db"
IsStaged == at["temporary"] = "copy"

(* verifyArtifact *)
BackupStands == at["backup"] = "copy" /\ copy = hash

Return(status) == result' = status /\ Go("ended")

----------------------------------------------------------------------------
(* The run, up to its commit *)

(* A database that is not ready, or a confirmation of another one, is refused; *)
(* the pending report is on disk before anything else is.                       *)
Analyze ==
    /\ pc = "analyze"
    /\ seen' = db
    /\ \/ report' = [Blank EXCEPT !.status = "pending"] /\ Go("pending")
       \/ report' = [Blank EXCEPT !.status = "refused"] /\ Go("refuse")
    /\ UNCHANGED <<tool, db, locked, at, copy, onDisk, hash, result, counters>>

(* a mutant of Lock: the review is trusted *)
LocksBlindly ==
    /\ pc = "lock"
    /\ locked' = TRUE
    /\ Go(IF tool = "restore" THEN "stage" ELSE "publish")
    /\ UNCHANGED <<tool, db, at, copy, onDisk, seen, hash, report, result, counters>>

(* BEGIN IMMEDIATE, then the analysis again: it must be the one reviewed *)
Lock ==
    /\ pc = "lock"
    /\ locked' = TRUE
    /\ IF db = seen /\ IsDatabase
       THEN Go(IF tool = "restore" THEN "stage" ELSE "publish")
       ELSE Go("catch")
    /\ UNCHANGED <<tool, db, at, copy, onDisk, seen, hash, report, result, counters>>

(* a new file of a name nobody else has, for the backup *)
Stage ==
    /\ pc = "stage"
    /\ at' = [at EXCEPT !["temporary"] = "copy"]
    /\ Go(IF tool = "adjudicate" /\ ~IsDatabase THEN "catch" ELSE "copy")
    /\ UNCHANGED <<tool, db, locked, copy, onDisk, seen, hash, report, result, counters>>

(* backup(), through the same connection or a second one opened by the path *)
Copy ==
    /\ pc = "copy"
    /\ IF IsStaged /\ (tool = "restore" => IsDatabase)
       THEN copy' = db /\ Go("verify")
       ELSE copy' = copy /\ Go("catch")
    /\ UNCHANGED <<tool, db, locked, at, onDisk, seen, hash, report, result, counters>>

(* the backup is opened, checked and hashed; adjudication holds no lock yet *)
Verify ==
    /\ pc = "verify"
    /\ IF IsStaged /\ IsDatabase /\ copy = seen
          /\ (tool = "adjudicate" => db = seen)
       THEN hash' = copy /\ Go(IF tool = "restore" THEN "publish" ELSE "lock")
       ELSE hash' = hash /\ Go("catch")
    /\ UNCHANGED <<tool, db, locked, at, copy, onDisk, seen, report, result, counters>>

(* publishNoClobber: link fails where there is a file; adjudication hashes once more *)
Publish ==
    /\ pc = "publish"
    /\ IF /\ at["temporary"] # Nobody /\ at["backup"] = Nobody
          /\ tool = "adjudicate" => IsStaged /\ copy = hash
       THEN /\ at' = [at EXCEPT !["backup"] = at["temporary"], !["temporary"] = Nobody]
            /\ Go("mutate")
       ELSE at' = at /\ Go("catch")
    /\ UNCHANGED <<tool, db, locked, copy, onDisk, seen, hash, report, result, counters>>

(* The link is made and a later call fails: it is taken back while the temporary *)
(* name is there; adjudication also syncs the directory after it has removed it.  *)
PublishBreaks ==
    /\ pc = "publish" /\ faults < MaxFaults
    /\ at["temporary"] # Nobody /\ at["backup"] = Nobody
    /\ faults' = faults + 1
    /\ \/ at' = at
       \/ /\ tool = "adjudicate"
          /\ at' = [at EXCEPT !["backup"] = at["temporary"], !["temporary"] = Nobody]
    /\ Go("catch")
    /\ UNCHANGED <<tool, db, locked, copy, onDisk, seen, hash, report, result, writes, meddling>>

(* the published backup is verified, then the rows change in the transaction *)
Mutate ==
    /\ pc = "mutate"
    /\ IF BackupStands
       THEN report' = [report EXCEPT !.backup = TRUE] /\ Go("check")
       ELSE report' = report /\ Go("catch")
    /\ UNCHANGED <<tool, db, locked, at, copy, onDisk, seen, hash, result, counters>>

(* a mutant of Check: the backup is reported after the commit only *)
ReportsLate ==
    /\ pc = "check"
    /\ Go(IF BackupStands /\ OwnsReport THEN "commit" ELSE "catch")
    /\ UNCHANGED <<tool, db, locked, at, copy, onDisk, seen, hash, report, result, counters>>

(* Before the commit: the backup still stands and the report is still owned.  *)
(* Migration 007 also writes the backup into it.                              *)
Check ==
    /\ pc = "check"
    /\ Go(IF BackupStands /\ (tool = "adjudicate" => OwnsReport /\ IsDatabase)
          THEN IF tool = "restore" THEN "record" ELSE "commit"
          ELSE "catch")
    /\ UNCHANGED <<tool, db, locked, at, copy, onDisk, seen, hash, report, result, counters>>

Commit ==
    /\ pc = "commit"
    /\ db' = [db EXCEPT !.done = TRUE]
    /\ locked' = FALSE
    /\ Go("after")
    /\ UNCHANGED <<tool, at, copy, onDisk, seen, hash, report, result, counters>>

----------------------------------------------------------------------------
(* After the commit *)

Judged == [report EXCEPT !.status =
              IF BackupStands THEN "applied" ELSE "committed-backup-verification-failed"]

After ==
    /\ pc = "after"
    /\ report' = Judged
    /\ Go("judge")
    /\ UNCHANGED <<tool, db, locked, at, copy, onDisk, seen, hash, result, counters>>

(* the backup once more, before the final report *)
Final ==
    /\ pc = "judge"
    /\ report' = IF report.status = "applied" THEN Judged ELSE report
    /\ Go("final")
    /\ UNCHANGED <<tool, db, locked, at, copy, onDisk, seen, hash, result, counters>>

(* and after the report said applied *)
Last ==
    /\ pc = "last"
    /\ report' = Judged
    /\ IF BackupStands THEN Return("applied") ELSE Go("correct") /\ result' = result
    /\ UNCHANGED <<tool, db, locked, at, copy, onDisk, seen, hash, counters>>

----------------------------------------------------------------------------
(* Failures *)

(* Any step up to the commit can throw; outside the inner try it only aborts. *)
Fault ==
    /\ faults < MaxFaults
    /\ pc \in {"analyze", "lock", "stage", "copy", "verify", "mutate", "check", "commit"}
    /\ faults' = faults + 1
    /\ Go(IF pc = "analyze" \/ (pc = "lock" /\ tool = "restore") THEN "abort" ELSE "catch")
    /\ UNCHANGED <<tool, db, locked, at, copy, onDisk, seen, hash, report, result, writes, meddling>>

(* unlinkIfSameObject, which never throws *)
WithoutTemporary == [at EXCEPT !["temporary"] = IF @ = "copy" THEN Nobody ELSE @]

(* The inner catch: the tool's own temporary file goes, the transaction rolls *)
(* back, and the report says whether the database is what it was.             *)
Catch ==
    /\ pc = "catch"
    /\ locked' = FALSE
    /\ at' = WithoutTemporary
    /\ report' = [report EXCEPT
          !.status = IF tool = "restore" \/ locked THEN "rolled-back" ELSE "aborted",
          !.restored = db = seen /\ (tool = "adjudicate" => IsDatabase)]
    /\ Go("undo")
    /\ UNCHANGED <<tool, db, copy, onDisk, seen, hash, result, counters>>

(* The inner catch throws itself: adjudication at its rollback only, migration *)
(* 007 also when it reads the database after it.                               *)
CatchBreaks ==
    /\ pc = "catch" /\ faults < MaxFaults
    /\ faults' = faults + 1
    /\ at' = WithoutTemporary
    /\ locked' = locked \/ (tool = "restore" /\ locked' = FALSE)
    /\ Go("abort")
    /\ UNCHANGED <<tool, db, copy, onDisk, seen, hash, report, result, writes, meddling>>

(* the outer catch *)
Abort ==
    /\ pc = "abort"
    /\ locked' = FALSE
    /\ report' = [report EXCEPT !.status = "aborted"]
    /\ Go("giveup")
    /\ UNCHANGED <<tool, db, at, copy, onDisk, seen, hash, result, counters>>

(* The process dies: SQLite rolls an open transaction back.  It may die inside  *)
(* writeReport, and between the link of a publication and the unlink after it.  *)
Crash ==
    /\ pc \notin {"ended", "dead"}
    /\ Go("dead")
    /\ locked' = FALSE
    /\ IF pc \in WriteSteps /\ OwnsReport THEN CutShort ELSE UNCHANGED onDisk
    /\ \/ at' = at
       \/ /\ pc = "publish" /\ at["backup"] = Nobody
          /\ at' = [at EXCEPT !["backup"] = at["temporary"]]
    /\ UNCHANGED <<tool, db, copy, seen, hash, report, result, counters>>

----------------------------------------------------------------------------
(* Everybody else *)

Others ==
    /\ ~locked /\ writes < MaxWrites
    /\ writes' = writes + 1
    /\ db' = [db EXCEPT !.version = @ + 1]
    /\ UNCHANGED <<tool, pc, locked, at, copy, onDisk, seen, hash, report, result, meddling, faults>>

Meddle ==
    /\ meddling < MaxMeddling
    /\ meddling' = meddling + 1
    /\ \/ /\ \E p \in Paths, i \in {Nobody, "theirs"} :
                /\ p = "temporary" => at[p] # Nobody   \* its name is drawn at random
                /\ at' = [at EXCEPT ![p] = i]
          /\ UNCHANGED <<copy, onDisk>>
       \/ /\ \E p \in Paths : at[p] = "copy"
          /\ copy' = Spoilt
          /\ UNCHANGED <<at, onDisk>>
       \/ /\ at["report"] = "note"
          /\ note' = [Blank EXCEPT !.status = "spoilt"] /\ known' = FALSE
          /\ UNCHANGED <<at, copy>>
    /\ UNCHANGED <<tool, pc, db, locked, seen, hash, report, result, writes, faults>>

Run ==
    \/ Analyze \/ Lock \/ Stage \/ Copy \/ Verify \/ Publish \/ PublishBreaks
    \/ Mutate \/ Check \/ Commit \/ After \/ Final \/ Last
    \/ WriteReport \/ WriteBreaks \/ Fault \/ Catch \/ CatchBreaks \/ Abort \/ Crash

Next == Run \/ Others \/ Meddle

Spec == Init /\ [][Next]_vars

----------------------------------------------------------------------------
(* A report and a result never claim more than the database shows: applied only *)
(* when it was committed, refused, aborted and rolled back only when it was not; *)
(* a run that throws committed nothing.                                          *)
NotCommitted == {"pending", "refused", "aborted", "rolled-back"}
ReportsAreTrue ==
    /\ result = "applied" => db.done
    /\ result \in NotCommitted \union {"thrown"} => ~db.done
    /\ note.status \in {"applied", "committed-backup-verification-failed"} => db.done
    /\ note.status \in NotCommitted \ {"pending"} => ~db.done
    /\ note.restored => ~db.done

(* A commit has its backup, whatever becomes of the report: the reviewed database  *)
(* stands whole under the backup's name, which the audit row of the same commit    *)
(* holds.  Migration 007's report names it too, even when the run died just then,  *)
(* unless the run died in a write of it or such a write failed.  A run that says   *)
(* applied or refused has a report that says so.                                   *)
CommitIsAccountedFor ==
    meddling = 0 =>
        /\ db.done => at["backup"] = "copy" /\ copy = seen
        /\ db.done /\ tool = "restore" =>
               IF note = Torn THEN pc = "dead" \/ faults > 0
                              ELSE note.backup /\ note.status \in {"pending", "applied"}
        /\ result \in {"applied", "refused"} => note.status = result

(* A run that came to its end leaves no lock and no half-made backup. *)
NothingIsLeft == pc = "ended" => ~locked /\ ~IsStaged

MigrationIsSafe ==
    TypeOK /\ ReportsAreTrue /\ CommitIsAccountedFor /\ NothingIsLeft

(* At the commit the database is still the one in the published backup, the      *)
(* writes of other connections included, unless somebody touched the files.      *)
(* A run never takes a name away from a file of somebody else.                   *)
CommitStep ==
    /\ db'.done /\ ~db.done => /\ copy = db \/ meddling > 0
                              /\ hash = db
    /\ meddling' = meddling =>
          \A p \in Paths : at[p] = "theirs" =>
             at'[p] = "theirs" \/ (p = "temporary" /\ at'["backup"] = "theirs")
=============================================================================
