----------------------------- MODULE Upkeep_proof -----------------------------
(***************************************************************************)
(* Proofs about the offline tools and the stores: those of Vacuum and of   *)
(* Migration, for any number of writes to the source, of files that others *)
(* move and of failures; those of Cleanup, for any rows and any number of  *)
(* runs of the tools; and what they and those of Graph, Backups and        *)
(* Credentials say of a run of MCUpkeep.                                   *)
(***************************************************************************)
EXTENDS MCUpkeep, FiniteSetTheorems, TLAPS

(* Vacuum *)
Published == at["output"] = "copy"

(* What is written to the source is a new version of it. *)
VersionsCount == source.version = writes

(* The staged file gets a name that nobody has. *)
NameIsNew ==
    /\ pc \in {"plan", "refuse", "pending", "reserve"} => at["temporary"] = V!Nobody
    /\ pc \in {"reject", "giveup"} => ~V!IsStaged

(* The output's name is the tool's from the link on only. *)
LinkedByPromote ==
    pc \in {"plan", "refuse", "pending", "reserve", "vacuum", "inspect", "reject", "promote"} =>
        ~Published

(* A staged file that was verified is a clean copy of what was planned, and   *)
(* stays the file that it was until somebody meddles with it.                 *)
StagedIsPlanned ==
    /\ staged # V!NoDatabase => staged = planned /\ staged.clean
    /\ pc \in {"plan", "refuse", "pending", "reserve", "vacuum", "inspect"} => staged = V!NoDatabase
    /\ pc \in {"promote", "reopen", "recheck", "report"} => staged # V!NoDatabase
    /\ Published => staged # V!NoDatabase
    /\ Published /\ meddling = 0 => copy = staged

(* promotedByThisRun, once it was looked at, says that the output is there.   *)
PromotedIsThere ==
    /\ pc \in {"reopen", "report"} => promoted
    /\ pc = "recheck" /\ ~promoted => ~V!OutputMatches
    /\ pc \in {"reopen", "recheck", "report"} /\ meddling = 0 => Published
    /\ Published /\ ~promoted => copy # staged \/ faults > 0 \/ pc = "dead"
    /\ pc = "giveup" /\ Published => copy # staged \/ (faults > 0 /\ ~promoted)

(* The run has an end at its return only, and the report too, unless a write  *)
(* of it failed.                                                              *)
EndsAtReturn ==
    /\ result # "none" => pc = "ended"
    /\ pc \notin {"ended", "dead"} => note \in {"none", "pending"} \/ faults > 0
    /\ result = "verified" => note = "verified"
    /\ result = "verified" /\ meddling = 0 => Published
    /\ note = "verified" /\ meddling = 0 => Published \/ faults > 0

VacuumInv ==
    /\ V!TypeOK /\ VersionsCount /\ NameIsNew /\ LinkedByPromote
    /\ StagedIsPlanned /\ PromotedIsThere /\ EndsAtReturn /\ V!FailureTakesBack

LEMMA VacuumBegins == V!VacuumAssumption /\ V!Init => VacuumInv
<1> SUFFICES ASSUME V!VacuumAssumption, V!Init PROVE VacuumInv
  OBVIOUS
<1>1. at["output"] = V!Nobody /\ at["temporary"] = V!Nobody /\ at["report"] = "note"
  BY DEF V!Init, V!Paths
<1>2. V!TypeOK
  <2>1. at \in [V!Paths -> {V!Nobody, "db", "copy", "note", "theirs"}]
    BY DEF V!Init, V!Nobody
  <2>2. source \in V!Databases
    BY DEF V!VacuumAssumption, V!Init, V!Databases
  <2>3. {copy, planned, staged} \subseteq V!Contents /\ note \in V!Statuses
    BY DEF V!Init, V!Contents, V!Statuses
  <2>4. writes \in 0..MaxWrites /\ meddling \in 0..MaxMeddling /\ faults \in 0..MaxFaults
    BY DEF V!VacuumAssumption, V!Init
  <2>5. pc = "plan" /\ promoted \in BOOLEAN /\ result \in V!Statuses \union {"thrown"}
    BY DEF V!Init, V!Statuses
  <2> QED BY <2>1, <2>2, <2>3, <2>4, <2>5 DEF V!TypeOK
<1>3. StagedIsPlanned /\ PromotedIsThere /\ LinkedByPromote
  BY <1>1 DEF V!Init, StagedIsPlanned, PromotedIsThere, LinkedByPromote, Published, V!Nobody
<1>4. VersionsCount /\ NameIsNew /\ EndsAtReturn /\ V!FailureTakesBack
  BY <1>1 DEF V!Init, VersionsCount, NameIsNew, EndsAtReturn, V!FailureTakesBack
<1> QED BY <1>2, <1>3, <1>4 DEF VacuumInv

LEMMA VacuumKeeps == V!VacuumAssumption /\ VacuumInv /\ [V!Next]_(V!vars) => VacuumInv'
<1> SUFFICES ASSUME V!VacuumAssumption, VacuumInv, [V!Next]_(V!vars) PROVE VacuumInv'
  OBVIOUS
<1> USE DEF V!VacuumAssumption, VacuumInv, V!TypeOK, VersionsCount, NameIsNew, LinkedByPromote, StagedIsPlanned,
     PromotedIsThere, EndsAtReturn, V!FailureTakesBack, Published, V!Nobody, V!Paths, V!NoDatabase,
     V!Spoilt, V!Databases, V!Contents, V!Statuses, V!Go, V!Return, V!OwnsReport, V!IsStaged, V!IsEqual,
     V!OutputMatches, V!WriteSteps, V!Saying, V!CutShort, V!counters
<1>1. CASE V!Plan
  BY <1>1 DEF V!Plan
<1>2. CASE V!WriteBreaks
  <2> USE <1>2 DEF V!WriteBreaks, V!Thrown
  <2>1. V!TypeOK' /\ VersionsCount'
    OBVIOUS
  <2>2. NameIsNew' /\ LinkedByPromote'
    OBVIOUS
  <2>3. StagedIsPlanned' /\ PromotedIsThere'
    OBVIOUS
  <2>4. EndsAtReturn' /\ V!FailureTakesBack'
    OBVIOUS
  <2> QED BY <2>1, <2>2, <2>3, <2>4
<1>3. CASE V!Reserve
  BY <1>3 DEF V!Reserve
<1>4. CASE V!VacuumInto
  BY <1>4 DEF V!VacuumInto
<1>5. CASE V!Inspect
  <2> USE <1>5 DEF V!Inspect, V!WithoutTemporary
  <2>1. at' \in [V!Paths -> {V!Nobody, "db", "copy", "note", "theirs"}]
    OBVIOUS
  <2>2. at'["output"] = at["output"] /\ at'["report"] = at["report"]
        /\ (pc' = "reject" => at'["temporary"] # "copy")
    OBVIOUS
  <2>3. V!TypeOK' /\ VersionsCount'
    BY <2>1
  <2>4. NameIsNew' /\ LinkedByPromote'
    BY <2>2
  <2>5. StagedIsPlanned' /\ PromotedIsThere'
    BY <2>2
  <2>6. EndsAtReturn' /\ V!FailureTakesBack'
    BY <2>2
  <2> HIDE DEF VersionsCount, NameIsNew, LinkedByPromote, StagedIsPlanned, PromotedIsThere,
               EndsAtReturn, V!TypeOK, V!FailureTakesBack
  <2> QED BY <2>3, <2>4, <2>5, <2>6 DEF VacuumInv
<1>6. CASE V!Promote
  <2> USE <1>6 DEF V!Promote
  <2>1. V!TypeOK' /\ VersionsCount'
    <3>1. at' \in [V!Paths -> {V!Nobody, "db", "copy", "note", "theirs"}]
      OBVIOUS
    <3>2. promoted' \in BOOLEAN /\ (pc' = "reopen" \/ pc' = "fail")
      OBVIOUS
    <3> QED BY <3>1, <3>2
  <2>2. NameIsNew' /\ LinkedByPromote'
    OBVIOUS
  <2>3. StagedIsPlanned' /\ PromotedIsThere'
    OBVIOUS
  <2>4. EndsAtReturn' /\ V!FailureTakesBack'
    OBVIOUS
  <2> HIDE DEF VersionsCount, NameIsNew, LinkedByPromote, StagedIsPlanned, PromotedIsThere,
               EndsAtReturn, V!TypeOK, V!FailureTakesBack
  <2> QED BY <2>1, <2>2, <2>3, <2>4 DEF VacuumInv
<1>7. CASE V!PromoteBreaks
  BY <1>7 DEF V!PromoteBreaks
<1>8. CASE V!Reopen
  BY <1>8 DEF V!Reopen
<1>9. CASE V!Recheck
  BY <1>9 DEF V!Recheck
<1>10. CASE V!WriteReport
  <2> USE <1>10 DEF V!WriteReport, V!Thrown
  <2>1. V!TypeOK' /\ VersionsCount'
    OBVIOUS
  <2>2. NameIsNew' /\ LinkedByPromote'
    OBVIOUS
  <2>3. StagedIsPlanned' /\ PromotedIsThere'
    OBVIOUS
  <2>4. EndsAtReturn' /\ V!FailureTakesBack'
    OBVIOUS
  <2> QED BY <2>1, <2>2, <2>3, <2>4
<1>11. CASE V!Fail
  <2>1. at' \in [V!Paths -> {V!Nobody, "db", "copy", "note", "theirs"}]
    BY <1>11 DEF V!Fail, V!WithoutOutput
  <2>2. at'["temporary"] # "copy"
    BY <1>11 DEF V!Fail, V!WithoutOutput
  <2>3. at'["output"] = IF promoted /\ V!OutputMatches THEN V!Nobody ELSE at["output"]
    BY <1>11 DEF V!Fail, V!WithoutOutput
  <2> QED BY <1>11, <2>1, <2>2, <2>3 DEF V!Fail
<1>12. CASE V!Fault
  BY <1>12 DEF V!Fault
<1>13. CASE V!Crash
  <2> USE <1>13 DEF V!Crash, V!WithoutTemporary
  <2>1. at' \in [V!Paths -> {V!Nobody, "db", "copy", "note", "theirs"}]
    OBVIOUS
  <2>2. at'["output"] = at["output"] \/ (pc = "promote" /\ at'["output"] = "copy")
    OBVIOUS
  <2>3. V!TypeOK' /\ VersionsCount' /\ NameIsNew' /\ LinkedByPromote'
    BY <2>1, <2>2
  <2>4. StagedIsPlanned' /\ PromotedIsThere'
    BY <2>1, <2>2
  <2>5. EndsAtReturn' /\ V!FailureTakesBack'
    BY <2>1, <2>2
  <2> QED BY <2>3, <2>4, <2>5
<1>14. CASE V!Others
  BY <1>14 DEF V!Others
<1>15. CASE V!Meddle
  BY <1>15 DEF V!Meddle
<1>16. CASE UNCHANGED V!vars
  BY <1>16 DEF V!vars
<1> QED BY <1>1, <1>2, <1>3, <1>4, <1>5, <1>6, <1>7, <1>8, <1>9, <1>10, <1>11, <1>12, <1>13, <1>14, <1>15, <1>16 DEF V!Next

(* Vacuum: whatever fails, and wherever the run stops, the output is a whole, *)
(* clean copy, a run that failed takes its files back, and a report says      *)
(* "verified" of an output that is gone only if a call failed.                *)
THEOREM VacuumStaysSafe == ASSUME V!VacuumAssumption PROVE V!Spec => []V!VacuumIsSafe
<1>1. V!Init => VacuumInv
  BY VacuumBegins
<1>2. VacuumInv /\ [V!Next]_(V!vars) => VacuumInv'
  BY VacuumKeeps
<1>3. VacuumInv => V!VacuumIsSafe
  BY DEF VacuumInv, V!VacuumIsSafe, V!OutputIsWhole, StagedIsPlanned, EndsAtReturn, Published, V!IsEqual
<1> QED BY <1>1, <1>2, <1>3, PTL DEF V!Spec

(* Vacuum: no step of the run takes a name from a file of somebody else.      *)
THEOREM TheirFilesKeepTheirNames ==
    ASSUME V!VacuumAssumption PROVE V!Spec => [][V!TheirFilesStay]_(V!vars)
<1>1. VacuumInv /\ [V!Next]_(V!vars) => [V!TheirFilesStay]_(V!vars)
  <2> SUFFICES ASSUME VacuumInv, V!Next, meddling' = meddling, NEW p \in V!Paths, at[p] = "theirs"
              PROVE  at'[p] = "theirs"
    BY DEF V!TheirFilesStay
  <2> USE DEF VacuumInv, V!TypeOK, NameIsNew, V!Nobody, V!Paths
  <2>1. CASE V!Reserve
    BY <2>1 DEF V!Reserve
  <2>2. CASE V!Promote \/ V!PromoteBreaks
    BY <2>2 DEF V!Promote, V!PromoteBreaks, V!IsStaged
  <2>3. CASE V!Fail \/ V!Inspect \/ V!Crash
    BY <2>3 DEF V!Fail, V!Inspect, V!Crash, V!WithoutTemporary, V!WithoutOutput, V!OutputMatches
  <2>4. CASE V!Meddle
    BY <2>4 DEF V!Meddle
  <2>5. CASE UNCHANGED at
    BY <2>5
  <2> QED BY <2>1, <2>2, <2>3, <2>4, <2>5 DEF V!Next, V!Plan, V!VacuumInto, V!Reopen,
       V!Recheck, V!WriteReport, V!WriteBreaks, V!Fault, V!Others
<1>2. V!Init => VacuumInv
  BY VacuumBegins
<1>3. VacuumInv /\ [V!Next]_(V!vars) => VacuumInv'
  BY VacuumKeeps
<1> QED BY <1>1, <1>2, <1>3, PTL DEF V!Spec

(* Migration *)
Early == {"analyze", "refuse", "pending"}
Locking == {"publish", "mutate", "check", "record", "commit"}
Working == {"lock", "stage", "copy", "verify"} \union Locking
Committed == {"after", "judge", "final", "last", "correct"}
Failing == {"catch", "undo", "abort", "giveup"}

(* The database is committed by one step, and others only add versions to it. *)
CommittedOnce ==
    /\ db.version = writes
    /\ pc \in Early \union Working \union Failing => ~db.done
    /\ pc \in Committed => db.done
    /\ pc = "ended" <=> result # "none"
    /\ result \in M!NotCommitted \union {"thrown"} => ~db.done
    /\ result \in {"applied", "applied-report-write-failed", "committed-backup-verification-failed"} => db.done

(* What the report in memory, and the one on disk, may say at each step. *)
ReportFollows ==
    /\ pc = "analyze" => report = M!Blank
    /\ pc = "refuse" => report.status = "refused"
    /\ pc \in {"pending", "after"} \union Working => report.status = "pending"
    /\ pc \in {"judge", "final"} => report.status \in {"applied", "committed-backup-verification-failed"}
    /\ pc = "last" => report.status = "applied"
    /\ pc = "correct" => report.status = "committed-backup-verification-failed"
    /\ pc = "undo" => report.status \in {"rolled-back", "aborted"}
    /\ pc = "giveup" => report.status = "aborted"
    /\ pc \in {"check", "record", "commit"} \union Committed => report.backup
    /\ pc \in Early \union Working \union Committed => ~report.restored
NoteFollows ==
    /\ pc \in Early => note.status \in {"none", "spoilt"} /\ ~note.restored
    /\ pc \in Working => note.status \in {"pending", "spoilt"} /\ ~note.restored
    /\ ~db.done => note.status \in M!NotCommitted \union {"none", "spoilt", "torn"}
    /\ db.done => /\ ~note.restored
                  /\ note.status \in {"pending", "spoilt", "torn", "applied",
                                     "committed-backup-verification-failed"}
    /\ meddling = 0 =>
           /\ note.status # "spoilt"
           /\ pc = "commit" /\ tool = "restore" => note.backup /\ note.status = "pending"
           /\ pc = "last" => note.status = "applied"

(* From the lock on, the database is the one in the verified backup. *)
LockedIsBackedUp ==
    /\ pc \in Early \union Committed \union {"undo", "giveup", "ended", "dead"} => ~locked
    /\ pc \in Locking => locked /\ hash = seen
    /\ locked /\ pc \in Working => db = seen
    /\ tool = "restore" => /\ pc \in {"stage", "copy", "verify"} => locked
                           /\ pc = "lock" => ~locked
    /\ tool = "adjudicate" /\ pc = "lock" => hash = seen

(* The backup has the tool's temporary name, then its own. *)
NamesFollow ==
    /\ pc \in Early \union {"stage"} => at["temporary"] = M!Nobody
    /\ pc = "lock" /\ tool = "restore" => at["temporary"] = M!Nobody
    /\ pc \in {"mutate", "check", "record", "commit", "undo", "abort", "giveup", "ended"}
              \union Committed => at["temporary"] # "copy"
    /\ meddling = 0 =>
           /\ pc \in {"copy", "verify", "publish"} => M!IsStaged
           /\ pc = "lock" /\ tool = "adjudicate" => M!IsStaged /\ copy = hash
           /\ pc \in Locking => copy = hash
           /\ pc \in {"mutate", "check", "record", "commit"} \union Committed => M!BackupStands
           /\ pc \in {"judge", "final", "last"} => report.status = "applied"
           /\ pc # "correct"

MigrationInv ==
    /\ M!TypeOK /\ CommittedOnce /\ ReportFollows /\ NoteFollows /\ LockedIsBackedUp
    /\ NamesFollow /\ M!CommitIsAccountedFor

LEMMA MigrationBegins == M!MigrationAssumption /\ M!Init => MigrationInv
<1> SUFFICES ASSUME M!MigrationAssumption, M!Init PROVE MigrationInv
  OBVIOUS
<1> USE DEF M!Init, M!Blank, Early, Locking, Working, Committed, Failing, M!Nobody, M!NotCommitted
<1>1. at["temporary"] = M!Nobody /\ at["report"] = "note"
  BY DEF M!Paths
<1>2. M!TypeOK
  <2>1. at \in [M!Paths -> {M!Nobody, "db", "copy", "note", "theirs"}]
    OBVIOUS
  <2>2. db \in M!Databases
    BY DEF M!MigrationAssumption, M!Databases
  <2>3. copy \in M!Contents /\ seen \in M!Contents /\ hash \in M!Contents
    BY DEF M!Contents
  <2>4. note \in M!Reports /\ report \in M!Reports /\ result \in M!Statuses \union {"thrown"}
    BY DEF M!Reports, M!Statuses
  <2>5. writes \in 0..MaxWrites /\ meddling \in 0..MaxMeddling /\ faults \in 0..MaxFaults
    BY DEF M!MigrationAssumption
  <2>6. pc = "analyze" /\ locked \in BOOLEAN /\ known \in BOOLEAN /\ tool \in Tools
    OBVIOUS
  <2> QED BY <2>1, <2>2, <2>3, <2>4, <2>5, <2>6 DEF M!TypeOK, M!Steps
<1>3. CommittedOnce /\ ReportFollows /\ NoteFollows
  BY DEF CommittedOnce, ReportFollows, NoteFollows
<1>4. LockedIsBackedUp /\ NamesFollow /\ M!CommitIsAccountedFor
  BY <1>1 DEF LockedIsBackedUp, NamesFollow, M!CommitIsAccountedFor, M!OwnsReport
<1> QED BY <1>2, <1>3, <1>4 DEF MigrationInv

(* What the changes of a report make of it, and a step that changes no data. *)
LEMMA BlankWith ==
    ASSUME NEW s \in M!Statuses \union {"spoilt"}
    PROVE  /\ [M!Blank EXCEPT !.status = s] \in M!Reports
           /\ [M!Blank EXCEPT !.status = s].status = s
           /\ [M!Blank EXCEPT !.status = s].backup = FALSE /\ [M!Blank EXCEPT !.status = s].restored = FALSE
BY DEF M!Blank, M!Reports

LEMMA BlankReports ==
    \A s \in {"pending", "refused", "spoilt"} :
        LET r == [M!Blank EXCEPT !.status = s]
        IN  r \in M!Reports /\ r.status = s /\ r.backup = FALSE /\ r.restored = FALSE
BY BlankWith DEF M!Statuses

LEMMA WithBackup ==
    ASSUME NEW r \in M!Reports
    PROVE  /\ [r EXCEPT !.backup = TRUE] \in M!Reports /\ [r EXCEPT !.backup = TRUE].backup
           /\ [r EXCEPT !.backup = TRUE].status = r.status /\ [r EXCEPT !.backup = TRUE].restored = r.restored
BY DEF M!Reports

LEMMA TypeOfControl ==
    ASSUME M!TypeOK, UNCHANGED <<tool, db, at, copy, seen, hash, M!onDisk, report, result, M!counters>>,
           pc' \in M!Steps, locked' \in BOOLEAN
    PROVE  M!TypeOK'
BY DEF M!TypeOK, M!onDisk, M!counters

LEMMA TypeOfFailing ==
    ASSUME M!TypeOK, UNCHANGED <<tool, db, copy, seen, hash, result, writes, meddling>>,
           at' \in [M!Paths -> {M!Nobody, "db", "copy", "note", "theirs"}], note' \in M!Reports,
           known' \in BOOLEAN, report' \in M!Reports, pc' \in M!Steps, locked' \in BOOLEAN,
           faults' \in 0..MaxFaults
    PROVE  M!TypeOK'
BY DEF M!TypeOK

LEMMA TypeOfMeddling == ASSUME M!MigrationAssumption, M!TypeOK, M!Meddle PROVE M!TypeOK'
<1> USE DEF M!Meddle, M!onDisk
<1>1. at' \in [M!Paths -> {M!Nobody, "db", "copy", "note", "theirs"}]
  BY DEF M!TypeOK
<1>2. copy' \in M!Contents
  BY DEF M!TypeOK, M!Contents
<1>3. note' \in M!Reports /\ known' \in BOOLEAN
  <2>1. [M!Blank EXCEPT !.status = "spoilt"] \in M!Reports
    BY BlankWith
  <2> QED BY <2>1 DEF M!TypeOK
<1>4. meddling' \in 0..MaxMeddling
  BY DEF M!TypeOK, M!MigrationAssumption
<1> QED BY <1>1, <1>2, <1>3, <1>4 DEF M!TypeOK

LEMMA TypeOfAnalysis == ASSUME M!TypeOK, M!Analyze PROVE M!TypeOK'
<1>1. seen' \in M!Contents /\ UNCHANGED <<tool, db, locked, at, copy, M!onDisk, hash, result, M!counters>>
  BY DEF M!Analyze, M!TypeOK, M!Contents
<1>2. report' \in M!Reports /\ pc' \in M!Steps
  BY BlankWith DEF M!Analyze, M!Go, M!Steps, M!WriteSteps, M!Statuses
<1> QED BY <1>1, <1>2 DEF M!TypeOK, M!onDisk, M!counters

(* A write of the report that ends or breaks changes what is on disk, where the  *)
(* run goes on, and perhaps what it returns.                                     *)
LEMMA TornIsReport ==
    M!Torn \in M!Reports /\ M!Torn.status = "torn" /\ M!Torn.backup = FALSE /\ M!Torn.restored = FALSE
BY DEF M!Torn, M!Blank, M!Reports

LEMMA TypeOfCommit == ASSUME M!TypeOK, M!Commit PROVE M!TypeOK'
<1>1. db' \in M!Databases
  BY DEF M!TypeOK, M!Commit, M!Databases
<1>2. pc' \in M!Steps /\ locked' \in BOOLEAN
  BY DEF M!Commit, M!Go, M!Steps
<1> QED BY <1>1, <1>2 DEF M!TypeOK, M!Commit, M!onDisk, M!counters

LEMMA TypeOfCrash == ASSUME M!TypeOK, M!Crash PROVE M!TypeOK'
<1>1. note' \in M!Reports /\ known' \in BOOLEAN
  BY TornIsReport DEF M!TypeOK, M!Crash, M!CutShort, M!onDisk
<1>2. at' \in [M!Paths -> {M!Nobody, "db", "copy", "note", "theirs"}]
  BY DEF M!TypeOK, M!Crash, M!Paths
<1>3. report' \in M!Reports /\ locked' \in BOOLEAN
  BY DEF M!TypeOK, M!Crash
<1>4. pc' \in M!Steps /\ faults' \in 0..MaxFaults
  BY DEF M!TypeOK, M!Crash, M!Go, M!Steps, M!counters
<1>5. UNCHANGED <<tool, db, copy, seen, hash, result, writes, meddling>>
  BY DEF M!Crash, M!counters
<1> QED BY <1>1, <1>2, <1>3, <1>4, <1>5, TypeOfFailing

LEMMA TypeOfWriting ==
    ASSUME M!MigrationAssumption, M!TypeOK, ReportFollows, M!WriteReport \/ M!WriteBreaks
    PROVE  M!TypeOK'
<1>1. note' \in M!Reports /\ known' \in BOOLEAN
  BY TornIsReport DEF M!TypeOK, M!WriteReport, M!WriteBreaks, M!CutShort, M!onDisk
<1>2. pc' \in M!Steps
  BY DEF M!WriteReport, M!WriteBreaks, M!Leave, M!Go, M!Written, M!Thrown, M!Steps
<1>3. result' \in M!Statuses \union {"thrown"}
  <2>1. result' \in {result, report.status, M!Unwritten}
    BY DEF M!WriteReport, M!WriteBreaks, M!Leave
  <2>2. pc \in M!WriteSteps
    BY DEF M!WriteReport, M!WriteBreaks
  <2>3. report.status \in M!Statuses
    BY <2>2 DEF ReportFollows, M!WriteSteps, M!Statuses, Working, Locking
  <2>4. M!Unwritten \in M!Statuses \union {"thrown"}
    BY <2>3 DEF M!Unwritten, M!Statuses
  <2> QED BY <2>1, <2>3, <2>4 DEF M!TypeOK
<1>4. faults' \in 0..MaxFaults /\ writes' = writes /\ meddling' = meddling
  BY DEF M!TypeOK, M!MigrationAssumption, M!WriteReport, M!WriteBreaks, M!counters
<1>5. UNCHANGED <<tool, db, locked, at, copy, seen, hash, report>>
  BY DEF M!WriteReport, M!WriteBreaks
<1> QED BY <1>1, <1>2, <1>3, <1>4, <1>5 DEF M!TypeOK

LEMMA MigrationKeeps == M!MigrationAssumption /\ MigrationInv /\ [M!Next]_(M!vars) => MigrationInv'
<1> SUFFICES ASSUME M!MigrationAssumption, MigrationInv, [M!Next]_(M!vars) PROVE MigrationInv'
  OBVIOUS
<1> USE DEF M!MigrationAssumption, MigrationInv, M!TypeOK, CommittedOnce, ReportFollows, NoteFollows,
     LockedIsBackedUp, NamesFollow, M!CommitIsAccountedFor, Early, Locking, Working, Committed,
     Failing, M!NotCommitted, M!Nobody, M!Paths, M!NoDatabase, M!Spoilt, M!Databases, M!Contents, M!Statuses,
     M!Reports, M!Steps, M!WriteSteps, M!Go, M!Return, M!OwnsReport, M!IsDatabase, M!IsStaged, M!BackupStands,
     M!Judged, M!onDisk, M!counters
<1>1. CASE M!Analyze
  <2> USE <1>1 DEF M!Analyze
  <2>1. report' \in M!Reports /\ ~report'.backup /\ ~report'.restored
        /\ report'.status = IF pc' = "pending" THEN "pending" ELSE "refused"
    BY BlankReports
  <2>2. M!TypeOK'
    BY TypeOfAnalysis
  <2>3. CommittedOnce' /\ ReportFollows'
    BY <2>1
  <2>4. NoteFollows'
    BY <2>1
  <2>5. LockedIsBackedUp' /\ NamesFollow'
    BY <2>1
  <2>6. M!CommitIsAccountedFor'
    BY <2>1
  <2> QED BY <2>2, <2>3, <2>4, <2>5, <2>6
<1>2. CASE M!WriteReport
  <2> USE <1>2 DEF M!WriteReport, M!Leave, M!Written, M!Thrown, M!Unwritten
  <2>1. M!TypeOK'
    BY TypeOfWriting
  <2>2. CommittedOnce'
    BY <2>1
  <2>3. ReportFollows'
    BY <2>1
  <2>4. NoteFollows'
    BY <2>1
  <2>5. LockedIsBackedUp' /\ NamesFollow'
    BY <2>1
  <2>6. M!CommitIsAccountedFor'
    BY <2>1, TornIsReport
  <2> QED BY <2>1, <2>2, <2>3, <2>4, <2>5, <2>6
<1>22. CASE M!WriteBreaks
  <2> USE <1>22 DEF M!WriteBreaks, M!CutShort, M!Leave, M!Thrown, M!Unwritten
  <2>1. M!TypeOK'
    BY TypeOfWriting
  <2>2. CommittedOnce'
    BY <2>1
  <2>3. ReportFollows'
    BY <2>1
  <2>4. NoteFollows'
    BY <2>1, TornIsReport
  <2>5. LockedIsBackedUp' /\ NamesFollow'
    BY <2>1
  <2>6. M!CommitIsAccountedFor'
    BY <2>1, TornIsReport
  <2> QED BY <2>1, <2>2, <2>3, <2>4, <2>5, <2>6
<1>3. CASE M!Lock
  BY <1>3 DEF M!Lock
<1>4. CASE M!Stage
  BY <1>4 DEF M!Stage
<1>5. CASE M!Copy
  BY <1>5 DEF M!Copy
<1>6. CASE M!Verify
  BY <1>6 DEF M!Verify
<1>7. CASE M!Publish
  BY <1>7 DEF M!Publish
<1>8. CASE M!PublishBreaks
  BY <1>8 DEF M!PublishBreaks
<1>9. CASE M!Mutate
  <2> USE <1>9 DEF M!Mutate
  <2>1. report' = report \/ (report' \in M!Reports /\ report'.backup /\ report'.status = report.status
                                /\ report'.restored = report.restored)
    BY WithBackup
  <2>2. M!TypeOK'
    BY <2>1
  <2>3. CommittedOnce'
    BY <2>1
  <2>4. ReportFollows'
    BY <2>1
  <2>5. NoteFollows'
    BY <2>1
  <2>6. LockedIsBackedUp'
    BY <2>1
  <2>7. NamesFollow'
    BY <2>1
  <2>8. M!CommitIsAccountedFor'
    BY <2>1
  <2> QED BY <2>2, <2>3, <2>4, <2>5, <2>6, <2>7, <2>8
<1>10. CASE M!Check
  <2> USE <1>10 DEF M!Check
  <2>1. M!TypeOK'
    OBVIOUS
  <2>2. CommittedOnce' /\ ReportFollows'
    OBVIOUS
  <2>3. NoteFollows'
    OBVIOUS
  <2>4. LockedIsBackedUp'
    OBVIOUS
  <2>5. NamesFollow'
    OBVIOUS
  <2>6. M!CommitIsAccountedFor'
    OBVIOUS
  <2> QED BY <2>1, <2>2, <2>3, <2>4, <2>5, <2>6
<1>11. CASE M!Commit
  <2> USE <1>11 DEF M!Commit
  <2>1. M!TypeOK'
    BY TypeOfCommit
  <2>2. CommittedOnce' /\ ReportFollows'
    OBVIOUS
  <2>3. NoteFollows'
    OBVIOUS
  <2>4. LockedIsBackedUp' /\ NamesFollow'
    OBVIOUS
  <2>5. M!CommitIsAccountedFor'
    BY TornIsReport
  <2> QED BY <2>1, <2>2, <2>3, <2>4, <2>5
<1>12. CASE M!After
  <2> USE <1>12 DEF M!After
  <2>1. M!TypeOK'
    OBVIOUS
  <2>2. CommittedOnce' /\ ReportFollows'
    OBVIOUS
  <2>3. NoteFollows'
    OBVIOUS
  <2>4. LockedIsBackedUp' /\ NamesFollow'
    OBVIOUS
  <2>5. M!CommitIsAccountedFor'
    OBVIOUS
  <2> QED BY <2>1, <2>2, <2>3, <2>4, <2>5
<1>13. CASE M!Final
  <2> USE <1>13 DEF M!Final
  <2>1. M!TypeOK'
    OBVIOUS
  <2>2. CommittedOnce' /\ ReportFollows'
    OBVIOUS
  <2>3. NoteFollows'
    OBVIOUS
  <2>4. LockedIsBackedUp' /\ NamesFollow'
    OBVIOUS
  <2>5. M!CommitIsAccountedFor'
    OBVIOUS
  <2> QED BY <2>1, <2>2, <2>3, <2>4, <2>5
<1>14. CASE M!Last
  <2> USE <1>14 DEF M!Last
  <2>1. M!TypeOK'
    OBVIOUS
  <2>2. CommittedOnce' /\ ReportFollows'
    OBVIOUS
  <2>3. NoteFollows'
    OBVIOUS
  <2>4. LockedIsBackedUp' /\ NamesFollow'
    OBVIOUS
  <2>5. M!CommitIsAccountedFor'
    OBVIOUS
  <2> QED BY <2>1, <2>2, <2>3, <2>4, <2>5
<1>15. CASE M!Fault
  BY <1>15 DEF M!Fault
<1>16. CASE M!Catch
  <2> USE <1>16 DEF M!Catch, M!WithoutTemporary
  <2>1. report' \in M!Reports /\ report'.backup = report.backup /\ report'.status \in {"rolled-back", "aborted"}
    OBVIOUS
  <2>2. at' \in [M!Paths -> {M!Nobody, "db", "copy", "note", "theirs"}]
          /\ at'["report"] = at["report"] /\ at'["backup"] = at["backup"] /\ at'["temporary"] # "copy"
    OBVIOUS
  <2>3. M!TypeOK'
    BY <2>1, <2>2, TypeOfFailing
  <2>4. CommittedOnce' /\ ReportFollows'
    BY <2>1, <2>2
  <2>5. NoteFollows'
    BY <2>1, <2>2
  <2>6. LockedIsBackedUp' /\ NamesFollow'
    BY <2>1, <2>2
  <2>7. M!CommitIsAccountedFor'
    BY <2>1, <2>2
  <2> QED BY <2>3, <2>4, <2>5, <2>6, <2>7
<1>17. CASE M!CatchBreaks
  <2> USE <1>17 DEF M!CatchBreaks, M!WithoutTemporary
  <2>1. at' \in [M!Paths -> {M!Nobody, "db", "copy", "note", "theirs"}]
          /\ at'["report"] = at["report"] /\ at'["backup"] = at["backup"] /\ at'["temporary"] # "copy"
    OBVIOUS
  <2>2. M!TypeOK'
    <3>1. faults' \in 0..MaxFaults
      OBVIOUS
    <3>3. locked' \in BOOLEAN
      OBVIOUS
    <3>4. pc' \in M!Steps
      OBVIOUS
    <3>2. UNCHANGED <<tool, db, copy, seen, hash, result, writes, meddling, report, note, known>>
      OBVIOUS
    <3> QED BY <2>1, <3>1, <3>2, <3>3, <3>4, TypeOfFailing
  <2>3. CommittedOnce' /\ ReportFollows'
    BY <2>1
  <2>4. NoteFollows'
    BY <2>1
  <2>5. LockedIsBackedUp' /\ NamesFollow'
    BY <2>1
  <2>6. M!CommitIsAccountedFor'
    BY <2>1
  <2> QED BY <2>2, <2>3, <2>4, <2>5, <2>6
<1>23. CASE M!Abort
  <2> USE <1>23 DEF M!Abort
  <2>1. report' \in M!Reports /\ report'.status = "aborted"
    OBVIOUS
  <2>2. M!TypeOK'
    BY <2>1, TypeOfFailing
  <2>3. CommittedOnce' /\ ReportFollows'
    BY <2>1
  <2>4. NoteFollows'
    BY <2>1
  <2>5. LockedIsBackedUp' /\ NamesFollow'
    BY <2>1
  <2>6. M!CommitIsAccountedFor'
    BY <2>1
  <2> QED BY <2>2, <2>3, <2>4, <2>5, <2>6
<1>18. CASE M!Crash
  <2> USE <1>18 DEF M!Crash, M!CutShort
  <2>1. at' \in [M!Paths -> {M!Nobody, "db", "copy", "note", "theirs"}]
          /\ at'["temporary"] = at["temporary"] /\ (at'["backup"] = at["backup"] \/ pc = "publish")
    OBVIOUS
  <2>2. M!TypeOK'
    BY TypeOfCrash
  <2>3. CommittedOnce' /\ ReportFollows'
    OBVIOUS
  <2>4. NoteFollows'
    BY TornIsReport
  <2>5. LockedIsBackedUp' /\ NamesFollow'
    BY <2>1
  <2>6. M!CommitIsAccountedFor'
    BY <2>1, TornIsReport
  <2> QED BY <2>2, <2>3, <2>4, <2>5, <2>6
<1>19. CASE M!Others
  BY <1>19 DEF M!Others
<1>20. CASE M!Meddle
  <2> USE <1>20 DEF M!Meddle
  <2>1. M!TypeOK'
    BY TypeOfMeddling
  <2>2. CommittedOnce'
    OBVIOUS
  <2>3. ReportFollows'
    OBVIOUS
  <2>4. NoteFollows'
    BY BlankReports
  <2>5. LockedIsBackedUp'
    OBVIOUS
  <2>6. NamesFollow'
    OBVIOUS
  <2>7. M!CommitIsAccountedFor'
    OBVIOUS
  <2> QED BY <2>1, <2>2, <2>3, <2>4, <2>5, <2>6, <2>7
<1>21. CASE UNCHANGED M!vars
  BY <1>21 DEF M!vars
<1> QED BY <1>1, <1>2, <1>3, <1>4, <1>5, <1>6, <1>7, <1>8, <1>9, <1>10, <1>11, <1>12, <1>13, <1>14, <1>15, <1>16, <1>17, <1>18, <1>19, <1>20, <1>21,
          <1>22, <1>23 DEF M!Next, M!Run

(* Migration: a report claims no more than the database shows, whatever fails, *)
(* the writing of the report included, and whatever others do to the files;    *)
(* and what was committed has its backup, whatever became of the report.       *)
THEOREM MigrationStaysSafe == ASSUME M!MigrationAssumption PROVE M!Spec => []M!MigrationIsSafe
<1>1. M!Init => MigrationInv
  BY MigrationBegins
<1>2. MigrationInv /\ [M!Next]_(M!vars) => MigrationInv'
  BY MigrationKeeps
<1>3. MigrationInv => M!MigrationIsSafe
  <2> SUFFICES ASSUME MigrationInv PROVE M!MigrationIsSafe
    OBVIOUS
  <2>1. M!ReportsAreTrue
    BY DEF MigrationInv, M!TypeOK, M!Reports, CommittedOnce, NoteFollows, M!ReportsAreTrue, M!NotCommitted, M!Statuses
  <2>2. M!NothingIsLeft
    BY DEF MigrationInv, LockedIsBackedUp, NamesFollow, M!NothingIsLeft, M!IsStaged
  <2> QED BY <2>1, <2>2 DEF M!MigrationIsSafe, MigrationInv
<1> QED BY <1>1, <1>2, <1>3, PTL DEF M!Spec

LEMMA CommitIsBackedUp == ASSUME MigrationInv, M!Next PROVE M!CommitStep
<1>1. db'.done /\ ~db.done => (copy = db \/ meddling > 0) /\ hash = db
  <2> SUFFICES ASSUME db'.done, ~db.done PROVE (copy = db \/ meddling > 0) /\ hash = db
    OBVIOUS
  <2>1. db' = db \/ M!Commit \/ M!Others
    BY DEF M!Next, M!Run, M!Analyze, M!WriteReport, M!WriteBreaks, M!Lock, M!Stage, M!Copy, M!Verify,
           M!Publish, M!PublishBreaks, M!Mutate, M!Check, M!After, M!Final, M!Last, M!Fault, M!Catch,
           M!CatchBreaks, M!Abort, M!Crash, M!Meddle
  <2>2. ~M!Others
    BY DEF M!Others, MigrationInv, M!TypeOK, M!Databases
  <2>3. pc = "commit"
    BY <2>1, <2>2 DEF M!Commit
  <2>4. hash = db /\ (meddling = 0 => copy = hash)
    BY <2>3 DEF MigrationInv, LockedIsBackedUp, NamesFollow, Locking, Working
  <2>5. meddling # 0 => meddling > 0
    BY DEF MigrationInv, M!TypeOK
  <2> QED BY <2>4, <2>5
<1>2. ASSUME meddling' = meddling, NEW p \in M!Paths, at[p] = "theirs"
      PROVE  at'[p] = "theirs" \/ (p = "temporary" /\ at'["backup"] = "theirs")
  <2> USE DEF MigrationInv, M!TypeOK, M!Nobody, M!Paths
  <2>1. CASE M!Stage
    BY <1>2, <2>1 DEF M!Stage, NamesFollow, Early
  <2>2. CASE M!Publish \/ M!PublishBreaks \/ M!Crash
    BY <1>2, <2>2 DEF M!Publish, M!PublishBreaks, M!Crash
  <2>3. CASE M!Catch \/ M!CatchBreaks
    BY <1>2, <2>3 DEF M!Catch, M!CatchBreaks, M!WithoutTemporary
  <2>4. CASE M!Meddle
    BY <1>2, <2>4 DEF M!Meddle
  <2>5. CASE UNCHANGED at
    BY <1>2, <2>5
  <2> QED BY <2>1, <2>2, <2>3, <2>4, <2>5 DEF M!Next, M!Run, M!Analyze, M!WriteReport, M!WriteBreaks, M!Lock,
       M!Copy, M!Verify, M!Mutate, M!Check, M!Commit, M!After, M!Final, M!Last, M!Fault, M!Abort, M!Others
<1> QED BY <1>1, <1>2 DEF M!CommitStep

(* Migration: what is committed is in the published backup, and no step takes  *)
(* a name from a file of somebody else.                                        *)
THEOREM CommitsAreBackedUp == ASSUME M!MigrationAssumption PROVE M!Spec => [][M!CommitStep]_(M!vars)
<1>1. M!Init => MigrationInv
  BY MigrationBegins
<1>2. MigrationInv /\ [M!Next]_(M!vars) => MigrationInv'
  BY MigrationKeeps
<1>3. MigrationInv /\ [M!Next]_(M!vars) => [M!CommitStep]_(M!vars)
  BY CommitIsBackedUp
<1> QED BY <1>1, <1>2, <1>3, PTL DEF M!Spec
-----------------------------------------------------------------------------
(* Cleanup *)
(* A database without issues has none of any kind. *)
LEMMA ReadyHasNoIssues ==
    ASSUME NEW d, Ready(d)
    PROVE  /\ \A m \in Pointers(d) : PointerIssue(d, m) = {}
           /\ \A r \in d.shared : r.type = "entity" => r.parses
           /\ \A o \in Observations(d) : ObservationIssue(d, o) = {}
           /\ \A r \in Relations(d) : RelationIssue(d, r) = {}
           /\ \A r \in Copies(d) : CopyIssue(d, r) = {}
           /\ \A x \in d.index : OwnerIssue(d, x) = {}
           /\ \A x \in Targets(d) : VectorIssue(d, x) = {}
<1>1. /\ PointerIssues(d) = {} /\ DetailIssues(d) = {}
      /\ UNION {ObservationIssue(d, o) : o \in Observations(d)} = {}
      /\ UNION {RelationIssue(d, r) : r \in Relations(d)} = {}
      /\ UNION {CopyIssue(d, r) : r \in Copies(d)} = {}
      /\ UNION {OwnerIssue(d, x) : x \in d.index} = {}
      /\ UNION {VectorIssue(d, x) : x \in Targets(d)} = {}
  <2> DEFINE I1 == UNION {ObservationIssue(d, o) : o \in Observations(d)}
             I2 == UNION {RelationIssue(d, r) : r \in Relations(d)}
             I3 == UNION {CopyIssue(d, r) : r \in Copies(d)}
             I4 == UNION {OwnerIssue(d, x) : x \in d.index}
             I5 == UNION {VectorIssue(d, x) : x \in Targets(d)}
  <2>0. Issues(d) = PointerIssues(d) \union DetailIssues(d)
                   \union I1 \union I2 \union I3 \union I4 \union I5
    BY Zenon DEF Issues
  <2>1. PointerIssues(d) \union DetailIssues(d)
                   \union I1 \union I2 \union I3 \union I4 \union I5 = {}
    BY <2>0, Zenon DEF Ready
  <2> HIDE DEF I1, I2, I3, I4, I5
  <2>2. /\ PointerIssues(d) = {} /\ DetailIssues(d) = {}
        /\ I1 = {} /\ I2 = {} /\ I3 = {} /\ I4 = {} /\ I5 = {}
    BY <2>1
  <2> QED BY <2>2 DEF I1, I2, I3, I4, I5
<1>2. ASSUME NEW r \in d.shared, r.type = "entity", ~r.parses PROVE FALSE
  <2>1. Issue("invalid_entity_json", "shared", r, NoReason) \in DetailIssues(d)
    BY <1>2, Zenon DEF DetailIssues
  <2> QED BY <1>1, <2>1
<1>3. \A m \in Pointers(d) : PointerIssue(d, m) = {}
  BY <1>1 DEF PointerIssues
<1>4. \A o \in Observations(d) : ObservationIssue(d, o) = {}
  BY <1>1
<1>5. \A r \in Relations(d) : RelationIssue(d, r) = {}
  BY <1>1
<1>6. \A r \in Copies(d) : CopyIssue(d, r) = {}
  BY <1>1
<1>7. \A x \in d.index : OwnerIssue(d, x) = {}
  BY <1>1
<1>8. \A x \in Targets(d) : VectorIssue(d, x) = {}
  BY <1>1
<1> QED BY <1>2, <1>3, <1>4, <1>5, <1>6, <1>7, <1>8

(* The directory loses the details, and nothing else. *)
LEMMA DirectoryLosesDetails ==
    ASSUME NEW d, NEW e, e.shared = d.shared \ Doomed(d)
    PROVE  /\ Details(e) = {}
           /\ \A t, x : LookupId(e, t, x) = {y \in LookupId(d, t, x) : ~IsDetail(y)}
           /\ \A t, n : LookupName(e, t, n) = {y \in LookupName(d, t, n) : ~IsDetail(y)}
           /\ \A t, ref : Resolve(e, t, ref) = {y \in Resolve(d, t, ref) : ~IsDetail(y)}
<1>1. Details(d) \subseteq Doomed(d)
  BY DEF Doomed, GraphTargets
<1>2. Details(e) = {}
  BY <1>1 DEF Details
<1>3. \A y \in Doomed(d) : IsDetail(y) \/ y.type \in {"observation", "relation", "ai_message"}
  BY DEF Doomed, GraphTargets, Details, PrivateObservations, Observations, PrivateRelations,
         Relations, SharedPlans, Copies
<1>4. \A y \in Directory(d) : IsDetail(y) \/ y.type = "entity" \/ y.type = "message_detail"
  BY DEF Directory
<1>5. Directory(e) = {y \in Directory(d) : ~IsDetail(y)}
  <2>1. \A y : y.type = "message_detail" => IsDetail(y)
    BY DEF IsDetail
  <2>2. \A y \in Directory(d) : ~IsDetail(y) => y \notin Doomed(d)
    BY <1>3, <1>4, <2>1
  <2>3. \A y \in Directory(d) : ~IsDetail(y) => y \in Directory(e)
    BY <2>2 DEF Directory
  <2>4. \A y \in Directory(e) : y \in Directory(d) /\ ~IsDetail(y)
    BY <1>2 DEF Directory, Details
  <2> QED BY <2>3, <2>4
<1>6. \A t, x : LookupId(e, t, x) = {y \in LookupId(d, t, x) : ~IsDetail(y)}
  BY <1>5 DEF LookupId
<1>7. \A t, n : LookupName(e, t, n) = {y \in LookupName(d, t, n) : ~IsDetail(y)}
  BY <1>5 DEF LookupName
<1>8. \A t, ref : Resolve(e, t, ref) = {y \in Resolve(d, t, ref) : ~IsDetail(y)}
  BY <1>6, <1>7 DEF Resolve
<1> QED BY <1>2, <1>6, <1>7, <1>8

(* A pointer without an issue has a body to put back. *)
LEMMA PointersArePlanned ==
    ASSUME NEW d, NEW m \in Pointers(d), PointerIssue(d, m) = {}
    PROVE  \E p \in PointerPlans(d) : p[1] = m
<1> DEFINE found == LookupName(d, m.tenant, m.content.name)
           e == CHOOSE x \in found : TRUE
<1>1. found # {} /\ IsDetail(e)
  BY DEF PointerIssue
<1>2. e \in found
  BY <1>1
<1>3. e \in Details(d)
  BY <1>1, <1>2 DEF Details, LookupName, Directory
<1> HIDE DEF e
<1>4. <<m, e>> \in Pointers(d) \X Details(d) /\ <<m, e>>[1] = m /\ <<m, e>>[2] = e
  BY <1>3
<1>5. <<m, e>> \in PointerPlans(d)
  BY <1>2, <1>4 DEF PointerPlans
<1> QED BY <1>4, <1>5

(* Migration 007: one run is enough. *)
LEMMA MigratedIsClean ==
    ASSUME NEW d, Ready(d)
    PROVE  Clean(Migrated(d))
<1> DEFINE e == Migrated(d)
<1>1. /\ e.shared = d.shared \ Doomed(d)
      /\ e.index = d.index \ VectorPlans(d)
  BY DEF Migrated
<1>0. /\ \A t, x : LookupId(e, t, x) = {y \in LookupId(d, t, x) : ~IsDetail(y)}
      /\ \A t, n : LookupName(e, t, n) = {y \in LookupName(d, t, n) : ~IsDetail(y)}
      /\ \A t, ref : Resolve(e, t, ref) = {y \in Resolve(d, t, ref) : ~IsDetail(y)}
  BY <1>1, DirectoryLosesDetails
<1>2. Pointers(e) = {}
  <2> SUFFICES ASSUME NEW m \in e.messages PROVE ~Points(m)
    BY DEF Pointers
  <2> DEFINE plan(q) == {p \in PointerPlans(d) : p[1] = q}
             body(q) == (CHOOSE p \in plan(q) : TRUE)[2].body
  <2>1. e.messages = {IF plan(q) = {} THEN q ELSE [q EXCEPT !.content = Text(body(q))] : q \in d.messages}
    BY DEF Migrated
  <2>2. PICK q \in d.messages : m = IF plan(q) = {} THEN q ELSE [q EXCEPT !.content = Text(body(q))]
    BY <2>1
  <2>3. CASE plan(q) = {}
    <3>1. m = q
      BY <2>2, <2>3
    <3>2. q \notin Pointers(d)
      BY <2>3, PointersArePlanned, ReadyHasNoIssues
    <3> QED BY <3>1, <3>2 DEF Pointers
  <2>4. CASE plan(q) # {}
    <3>1. m = [q EXCEPT !.content = Text(body(q))]
      BY <2>2, <2>4
    <3>2. m.content = Text(body(q))
      BY <3>1
    <3> QED BY <3>2 DEF Points, Text
  <2> QED BY <2>3, <2>4
<1> HIDE DEF e
<1>3. Details(e) = {}
  BY <1>1, DirectoryLosesDetails
<1>4. PointerPlans(e) = {} /\ PointerIssues(e) = {}
  BY <1>2 DEF PointerPlans, PointerIssues
<1>5. DetailIssues(e) = {}
  BY <1>1, <1>3, ReadyHasNoIssues DEF DetailIssues
<1>6. ASSUME NEW t, NEW ref, \A y \in Resolve(d, t, ref) : ~IsDetail(y)
      PROVE  /\ Resolve(e, t, ref) = Resolve(d, t, ref)
             /\ LookupId(e, t, ref.id) = LookupId(d, t, ref.id)
             /\ LookupName(e, t, ref.name) = LookupName(d, t, ref.name)
  <2>1. /\ \A y \in LookupId(d, t, ref.id) : ~IsDetail(y)
        /\ \A y \in LookupName(d, t, ref.name) : ~IsDetail(y)
    BY <1>6 DEF Resolve
  <2>2. Resolve(e, t, ref) = {y \in Resolve(d, t, ref) : ~IsDetail(y)}
    BY <1>0, Zenon
  <2>3. LookupId(e, t, ref.id) = {y \in LookupId(d, t, ref.id) : ~IsDetail(y)}
    BY <1>0, Zenon
  <2>4. LookupName(e, t, ref.name) = {y \in LookupName(d, t, ref.name) : ~IsDetail(y)}
    BY <1>0, Zenon
  <2> QED BY <1>6, <2>1, <2>2, <2>3, <2>4
<1>7. ASSUME NEW o \in Observations(e)
      PROVE  ObservationIssue(e, o) = {} /\ PrivateParents(e, o) = {}
  <2>1. o \in Observations(d) /\ o \notin Doomed(d)
    BY <1>1 DEF Observations
  <2>2. ObservationIssue(d, o) = {}
    BY <2>1, ReadyHasNoIssues
  <2>3. PrivateParents(d, o) = {}
    BY <2>1, <2>2 DEF Doomed, GraphTargets, PrivateObservations
  <2>4. \A y \in Resolve(d, o.tenant, o.parent) : ~IsDetail(y)
    BY <2>3 DEF PrivateParents, Parents
  <2>5. /\ Parents(e, o) = Parents(d, o)
        /\ LookupId(e, o.tenant, o.parent.id) = LookupId(d, o.tenant, o.parent.id)
        /\ LookupName(e, o.tenant, o.parent.name) = LookupName(d, o.tenant, o.parent.name)
    BY <1>6, <2>4 DEF Parents
  <2>6. PrivateParents(e, o) = PrivateParents(d, o)
    BY <2>5 DEF PrivateParents
  <2>7. ObservationIssue(e, o) = ObservationIssue(d, o)
    BY <2>5, <2>6, Zenon DEF ObservationIssue
  <2> QED BY <2>2, <2>3, <2>6, <2>7
<1>8. ASSUME NEW r \in Relations(e)
      PROVE  RelationIssue(e, r) = {}
             /\ \A x \in Resolve(e, r.tenant, r.from) \union Resolve(e, r.tenant, r.to) : ~IsDetail(x)
  <2>1. r \in Relations(d) /\ r \notin Doomed(d)
    BY <1>1 DEF Relations
  <2>2. RelationIssue(d, r) = {}
    BY <2>1, ReadyHasNoIssues
  <2>3. \A x \in Resolve(d, r.tenant, r.from) \union Resolve(d, r.tenant, r.to) : ~IsDetail(x)
    BY <2>1, <2>2 DEF Doomed, GraphTargets, PrivateRelations
  <2>4. /\ Resolve(e, r.tenant, r.from) = Resolve(d, r.tenant, r.from)
        /\ Resolve(e, r.tenant, r.to) = Resolve(d, r.tenant, r.to)
    BY <1>6, <2>3
  <2>5. RelationIssue(e, r) = RelationIssue(d, r)
    BY <2>4, Zenon DEF RelationIssue, EndIssue
  <2> QED BY <2>2, <2>3, <2>4, <2>5
<1>9. Copies(e) = {}
  BY <1>1, ReadyHasNoIssues DEF Copies, Doomed, SharedPlans
<1>10. GraphTargets(e) = {} /\ SharedPlans(e) = {}
  BY <1>3, <1>7, <1>8, <1>9 DEF GraphTargets, PrivateObservations, PrivateRelations, SharedPlans
<1>11. Targets(d) = VectorPlans(d)
  BY ReadyHasNoIssues DEF VectorPlans
<1>12. ASSUME NEW x \in e.index
       PROVE  OwnerIssue(e, x) = {} /\ ~FollowsARow(e, x) /\ ~IsMessageVector(x)
  <2>1. x \in d.index /\ x \notin Targets(d)
    BY <1>1, <1>11
  <2>2. OwnerIssue(d, x) = {}
    BY <2>1, ReadyHasNoIssues
  <2>3. ~FollowsARow(d, x) /\ ~IsMessageVector(x)
    BY <2>1, <2>2 DEF Targets
  <2>4. ~FollowsARow(e, x)
    BY <1>10 DEF FollowsARow
  <2>5. UnlinkedReason(d, x) = NoReason
    BY <2>2, <2>3 DEF OwnerIssue, NoReason
  <2>6. UnlinkedReason(e, x) = NoReason
    <3> DEFINE c == x.copy
    <3>1. CASE x.type = "observation" /\ PrivateAmong(Resolve(d, x.tenant, c.parent))
      BY <2>5, <3>1 DEF UnlinkedReason, NoReason
    <3>2. CASE x.type = "observation" /\ ~PrivateAmong(Resolve(d, x.tenant, c.parent))
      <4>1. \A y \in Resolve(d, x.tenant, c.parent) : ~IsDetail(y)
        BY <3>2 DEF PrivateAmong
      <4>2. /\ Resolve(e, x.tenant, c.parent) = Resolve(d, x.tenant, c.parent)
            /\ LookupId(e, x.tenant, c.parent.id) = LookupId(d, x.tenant, c.parent.id)
            /\ LookupName(e, x.tenant, c.parent.name) = LookupName(d, x.tenant, c.parent.name)
        BY <1>6, <4>1
      <4>3. UnlinkedReason(e, x) = UnlinkedReason(d, x)
        BY <3>2, <4>2 DEF UnlinkedReason, NoReason
      <4> QED BY <2>5, <4>3
    <3>3. CASE x.type # "observation"
      <4>1. \A t, ref : Resolve(e, t, ref) \subseteq Resolve(d, t, ref)
        BY <1>1, DirectoryLosesDetails
      <4>2. PrivateAmong(Resolve(e, x.tenant, c.from) \union Resolve(e, x.tenant, c.to))
            => PrivateAmong(Resolve(d, x.tenant, c.from) \union Resolve(d, x.tenant, c.to))
        BY <4>1 DEF PrivateAmong
      <4> QED BY <2>5, <3>3, <4>2 DEF UnlinkedReason, NoReason
    <3> QED BY <3>1, <3>2, <3>3
  <2>8. OwnerIssue(e, x) = {}
    BY <2>3, <2>4, <2>6 DEF OwnerIssue, NoReason
  <2> QED BY <2>3, <2>4, <2>8
<1>13. Targets(e) = {}
  BY <1>12 DEF Targets
<1>14. VectorPlans(e) = {}
  BY <1>13 DEF VectorPlans
<1>15. Issues(e) = {}
  <2>1. PointerIssues(e) \union DetailIssues(e) = {}
    BY <1>4, <1>5
  <2>2. UNION {ObservationIssue(e, o) : o \in Observations(e)} = {}
    BY <1>7
  <2>3. UNION {RelationIssue(e, r) : r \in Relations(e)} = {}
    BY <1>8
  <2>4. UNION {CopyIssue(e, r) : r \in Copies(e)} = {}
    BY <1>9
  <2>5. UNION {OwnerIssue(e, x) : x \in e.index} = {}
    BY <1>12
  <2>6. UNION {VectorIssue(e, x) : x \in Targets(e)} = {}
    BY <1>13
  <2> QED BY <2>1, <2>2, <2>3, <2>4, <2>5, <2>6 DEF Issues
<1>16. Clean(e)
  BY <1>4, <1>10, <1>14, <1>15 DEF Clean, Ready
<1> QED BY <1>16 DEF e

-----------------------------------------------------------------------------
(* Tuples and sets *)
LEMMA KeysAgree == \A r, s : Key(r) = Key(s) <=> r.tenant = s.tenant /\ r.id = s.id
BY DEF Key

LEMMA OneAtMost ==
    ASSUME NEW S, IsFiniteSet(S), ~(Cardinality(S) > 1), NEW x \in S, NEW y \in S PROVE x = y
<1>1. Cardinality(S) \in Nat /\ (Cardinality(S) = 0 <=> S = {})
  BY FS_CardinalityType, FS_EmptySet
<1>2. Cardinality(S) = 1
  BY <1>1
<1>3. PICK z : S = {z}
  BY <1>2, FS_Singleton
<1> QED BY <1>3

LEMMA OneOfThem ==
    ASSUME NEW S, IsFiniteSet(S), ~(Cardinality(S) # 1), NEW x \in S, NEW y \in S PROVE x = y
BY FS_Singleton

LEMMA LookupsAreFinite ==
    ASSUME NEW d, IsFiniteSet(d.shared)
    PROVE  /\ \A t, n : IsFiniteSet(LookupName(d, t, n))
           /\ \A t, ref : IsFiniteSet(Resolve(d, t, ref))
<1>1. \A t, n : LookupName(d, t, n) \in SUBSET d.shared
  BY DEF LookupName, Directory
<1>2. \A t, ref : Resolve(d, t, ref) \in SUBSET d.shared
  BY DEF Resolve, LookupName, LookupId, Directory
<1> QED BY <1>1, <1>2, FS_Subset

(* A planned pointer names one detail, which its sender stored for the message. *)
LEMMA PlanIsExact ==
    ASSUME NEW d, IsFiniteSet(d.shared), NEW p \in PointerPlans(d)
    PROVE  /\ p[1] \in d.messages /\ Points(p[1])
           /\ p[2] \in d.shared /\ IsDetail(p[2]) /\ p[2].tenant = p[1].tenant
           /\ p[2].by = p[1].from /\ p[2].name = ExpectedName(p[1])
           /\ \A q \in PointerPlans(d) : q[1] = p[1] => q[2] = p[2]
<1> DEFINE m == p[1]
           found == LookupName(d, m.tenant, m.content.name)
           e == CHOOSE x \in found : TRUE
<1>1. /\ m \in Pointers(d) /\ p[2] \in Details(d) /\ PointerIssue(d, m) = {} /\ p[2] \in found
      /\ \A q \in PointerPlans(d) : q[1] = m => q[2] \in found
  BY DEF PointerPlans
<1>2. /\ m.content.name = ExpectedName(m) /\ ~(Cardinality(found) > 1)
      /\ e.name = m.content.name /\ e.by = m.from
  BY <1>1 DEF PointerIssue
<1>3. IsFiniteSet(found)
  BY LookupsAreFinite
<1>4. e \in found
  BY <1>1
<1> HIDE DEF e
<1>5. \A x \in found : x = e
  BY <1>2, <1>3, <1>4, OneAtMost
<1>6. p[2] = e /\ \A q \in PointerPlans(d) : q[1] = m => q[2] = e
  BY <1>1, <1>5
<1>7. p[2].tenant = m.tenant
  BY <1>1 DEF LookupName
<1> QED BY <1>1, <1>2, <1>6, <1>7 DEF Pointers, Details

(* What is found about an entity that parses is about a detail. *)
LEMMA EntityFindingsAreDetails ==
    ASSUME NEW d, Distinct(d.shared), NEW f \in Issues(d), f.table = "shared",
           NEW r \in d.shared, At(f) = Key(r), r.parses, r.type = "entity"
    PROVE  IsDetail(r)
<1> DEFINE Of(x, table) == f.table = table /\ f.tenant = x.tenant /\ f.id = x.id
<1>0. \A x \in d.shared : Of(x, "shared") => x = r
  BY DEF At, Key, Distinct
<1>1. CASE f \in PointerIssues(d)
  <2>1. PICK m \in Pointers(d) : f \in PointerIssue(d, m)
    BY <1>1 DEF PointerIssues
  <2> DEFINE found == LookupName(d, m.tenant, m.content.name)
             e == CHOOSE x \in found : TRUE
  <2>2. Of(m, "messages") \/ (found # {} /\ IsDetail(e) /\ Of(e, "shared"))
    BY <2>1 DEF PointerIssue, Issue
  <2>3. found # {} => e \in d.shared
    BY DEF LookupName, Directory
  <2> QED BY <1>0, <2>2, <2>3
<1>2. CASE f \in DetailIssues(d)
  <2>1. PICK x \in d.shared : Of(x, "shared") /\ (IsDetail(x) \/ ~x.parses)
    BY <1>2 DEF DetailIssues, Details, Issue
  <2> QED BY <1>0, <2>1
<1>3. CASE f \in UNION {ObservationIssue(d, o) : o \in Observations(d)}
  <2>1. PICK o \in Observations(d) : f \in ObservationIssue(d, o)
    BY <1>3
  <2>2. Of(o, "shared")
    BY <2>1 DEF ObservationIssue, Issue
  <2> QED BY <1>0, <2>2 DEF Observations
<1>4. CASE f \in UNION {RelationIssue(d, o) : o \in Relations(d)}
  <2>1. PICK o \in Relations(d) : f \in RelationIssue(d, o)
    BY <1>4
  <2>2. Of(o, "shared")
    BY <2>1 DEF RelationIssue, EndIssue, Issue
  <2> QED BY <1>0, <2>2 DEF Relations
<1>5. CASE f \in UNION {CopyIssue(d, o) : o \in Copies(d)}
  <2>1. PICK o \in Copies(d) : f \in CopyIssue(d, o)
    BY <1>5
  <2>2. Of(o, "shared")
    BY <2>1 DEF CopyIssue, Issue
  <2> QED BY <1>0, <2>2 DEF Copies
<1>6. CASE f \in UNION {OwnerIssue(d, x) : x \in d.index}
  <2>1. PICK x \in d.index : f \in OwnerIssue(d, x)
    BY <1>6
  <2> QED BY <2>1 DEF OwnerIssue, Issue
<1>7. CASE f \in UNION {VectorIssue(d, x) : x \in Targets(d)}
  <2>1. PICK x \in Targets(d) : f \in VectorIssue(d, x)
    BY <1>7
  <2> QED BY <2>1 DEF VectorIssue, Issue
<1> QED BY <1>1, <1>2, <1>3, <1>4, <1>5, <1>6, <1>7 DEF Issues

-----------------------------------------------------------------------------
(* The rows on their way through the tools *)

(* A message before and after a tool: the same, or a pointer and the body that *)
(* its sender stored for it.                                                   *)
SameMail(d, m, n) ==
    \/ n = m
    \/ /\ Points(m) /\ IsMail(n)
       /\ n.id = m.id /\ n.tenant = m.tenant /\ n.from = m.from /\ n.to = m.to
       /\ \E s \in d.shared :
             /\ IsDetail(s) /\ s.tenant = m.tenant /\ s.by = m.from
             /\ s.name = ExpectedName(m) /\ n.content = Text(s.body)

(* What makes a row private, and where its words are when it is gone.    *)
IsPrivate(w, r) ==
    \/ IsDetail(r)
    \/ r.type = "ai_message"
    \/ r.type = "observation" /\ Parents(w, r) # {} /\ \A e \in Parents(w, r) : IsDetail(e)
    \/ r.type = "relation" /\ \E ref \in {r.from, r.to} :
          LET found == Resolve(w, r.tenant, ref)
          IN found # {} /\ \A e \in found : IsDetail(e)

IsKept(mails, h, r) ==
    \/ r \in h
    \/ IsDetail(r) /\ \E m \in mails : m.tenant = r.tenant /\ m.content = Text(r.body)
    \/ /\ r.type = "ai_message"
       /\ \E m \in mails : /\ m.tenant = r.tenant /\ m.from = r.sender /\ m.to = r.recipient
                           /\ r.text.shape = "text" => m.content = r.text
    \/ r.type \in {"observation", "relation"}

CleanInv ==
    /\ Distinct(was.shared) /\ IsFiniteSet(was.shared) /\ db.shared \subseteq was.shared
    /\ \A r \in was.shared : r.name # NoName => r.name \in r.names
    /\ Distinct(db.messages) /\ \A m \in db.messages : IsMail(m)
    /\ NoSlot \notin was.vectors /\ db.vectors \subseteq was.vectors
    /\ \A x \in db.index, r \in db.shared : Key(x) = Key(r) => x.type = r.type
    /\ \A r \in was.shared \ db.shared : r.type = "entity" /\ r.parses => IsDetail(r)
    /\ CleanupIsSafe

(* Messages keep their keys and their columns, and no two become one. *)
LEMMA MailsAreDistinct ==
    ASSUME NEW d, NEW S, NEW F, S = {F[m] : m \in d.messages},
           \A m \in d.messages : SameMail(d, m, F[m]),
           Distinct(d.messages), \A m \in d.messages : IsMail(m)
    PROVE  /\ Distinct(S) /\ \A m \in S : IsMail(m)
           /\ {Key(m) : m \in S} = {Key(m) : m \in d.messages}
<1>1. \A m \in d.messages : Key(F[m]) = Key(m) /\ IsMail(F[m])
  BY DEF SameMail, Key
<1>2. Distinct(S)
  <2> SUFFICES ASSUME NEW r \in S, NEW s \in S, Key(r) = Key(s) PROVE r = s
    BY DEF Distinct
  <2>1. PICK m \in d.messages : r = F[m]
    OBVIOUS
  <2>2. PICK n \in d.messages : s = F[n]
    OBVIOUS
  <2>3. m = n
    BY <1>1, <2>1, <2>2 DEF Distinct
  <2> QED BY <2>1, <2>2, <2>3
<1>3. \A m \in S : IsMail(m)
  BY <1>1
<1>4. {Key(m) : m \in S} = {Key(m) : m \in d.messages}
  BY <1>1, Zenon
<1> QED BY <1>2, <1>3, <1>4

(* What is text stays as it is. *)
LEMMA TextStays ==
    ASSUME NEW d, NEW F, NEW m \in d.messages, SameMail(d, m, F[m]), m.content.shape = "text"
    PROVE  F[m] = m
BY DEF SameMail, Points

(* What a tool keeps of the invariant, given what it does. *)
LEMMA ToolsKeepSafe ==
    ASSUME CleanInv, was' = was, copies' = copies, held \subseteq held',
           NEW F, db'.messages = {F[m] : m \in db.messages},
           \A m \in db.messages : SameMail(db, m, F[m]),
           db'.shared \subseteq db.shared, db'.index \subseteq db.index,
           db'.vectors \subseteq db.vectors, db'.lookups \subseteq db.lookups,
           \A r \in db.shared \ db'.shared :
              /\ IsKept(db'.messages, held', r)
              /\ r \in held' \/ IsPrivate(was, r)
              /\ r.type = "entity" /\ r.parses => IsDetail(r)
              /\ Key(r) \notin db'.lookups /\ IndexOf(db', Key(r)) = {},
           \A x \in db.index : x.slot \in db'.vectors => x \in db'.index,
           \A x \in db'.index : x.slot \in db.vectors => x.slot \in db'.vectors
    PROVE  CleanInv'
<1>1. /\ Distinct(db'.messages) /\ \A m \in db'.messages : IsMail(m)
      /\ {Key(m) : m \in db'.messages} = {Key(m) : m \in db.messages}
  <2>1. Distinct(db.messages) /\ \A m \in db.messages : IsMail(m)
    BY DEF CleanInv
  <2> QED BY <2>1, MailsAreDistinct
<1>2. \A m \in db.messages : F[m] \in db'.messages
  OBVIOUS
<1>3. NothingIsLost'
  <2> SUFFICES ASSUME NEW r \in was.shared \ db'.shared PROVE IsKept(db'.messages, held', r)
    BY DEF NothingIsLost, IsKept
  <2>1. CASE r \in db.shared
    BY <2>1
  <2>2. CASE r \notin db.shared
    <3>1. IsKept(db.messages, held, r)
      BY <2>2 DEF CleanInv, CleanupIsSafe, NothingIsLost, IsKept
    <3>2. CASE r \in held \/ r.type \in {"observation", "relation"}
      BY <3>2 DEF IsKept
    <3>3. ASSUME IsDetail(r), NEW m \in db.messages, m.tenant = r.tenant, m.content = Text(r.body)
          PROVE  IsKept(db'.messages, held', r)
      <4>0. m.content.shape = "text" /\ SameMail(db, m, F[m])
        BY <3>3 DEF Text
      <4>1. F[m] = m
        BY <4>0, TextStays
      <4> QED BY <1>2, <3>3, <4>1 DEF IsKept
    <3>4. ASSUME r.type = "ai_message", NEW m \in db.messages,
                 m.tenant = r.tenant, m.from = r.sender, m.to = r.recipient,
                 r.text.shape = "text" => m.content = r.text
          PROVE  IsKept(db'.messages, held', r)
      <4>1. F[m].tenant = m.tenant /\ F[m].from = m.from /\ F[m].to = m.to
        BY DEF SameMail
      <4>2. r.text.shape = "text" => F[m] = m
        BY <3>4, TextStays
      <4>3. F[m] \in db'.messages
        BY <1>2
      <4>4. r.text.shape = "text" => F[m].content = r.text
        BY <3>4, <4>2
      <4> QED BY <3>4, <4>1, <4>3, <4>4 DEF IsKept
    <3> QED BY <3>1, <3>2, <3>3, <3>4 DEF IsKept
  <2> QED BY <2>1, <2>2
<1>4. MailKeepsItsSender'
  <2>1. {Key(m) : m \in db'.messages} = {Key(m) : m \in was.messages}
    BY <1>1 DEF CleanInv, CleanupIsSafe, MailKeepsItsSender
  <2>2. ASSUME NEW n \in db'.messages, n \notin was.messages
        PROVE  \E d \in was.shared :
                  /\ IsDetail(d) /\ d.tenant = n.tenant /\ d.by = n.from
                  /\ d.name = ExpectedName(n) /\ n.content = Text(d.body)
    <3>1. PICK m \in db.messages : n = F[m]
      OBVIOUS
    <3>2. CASE n = m
      BY <2>2, <3>2 DEF CleanInv, CleanupIsSafe, MailKeepsItsSender
    <3>3. CASE n # m
      <4>1. /\ n.id = m.id /\ n.tenant = m.tenant /\ n.from = m.from
            /\ \E s \in db.shared :
                  /\ IsDetail(s) /\ s.tenant = m.tenant /\ s.by = m.from
                  /\ s.name = ExpectedName(m) /\ n.content = Text(s.body)
        BY <3>1, <3>3 DEF SameMail
      <4>2. ExpectedName(n) = ExpectedName(m)
        BY <4>1 DEF ExpectedName
      <4>3. db.shared \subseteq was.shared
        BY DEF CleanInv
      <4> QED BY <4>1, <4>2, <4>3
    <3> QED BY <3>2, <3>3
  <2> QED BY <2>1, <2>2 DEF MailKeepsItsSender
<1>5. PublicRowsStay'
  <2> SUFFICES ASSUME NEW r \in was.shared, r \notin db'.shared, r \notin held'
               PROVE  IsPrivate(was, r)
    BY DEF PublicRowsStay, IsPrivate
  <2>1. CASE r \in db.shared
    BY <2>1
  <2>2. CASE r \notin db.shared
    BY <2>2 DEF CleanInv, CleanupIsSafe, PublicRowsStay, IsPrivate
  <2> QED BY <2>1, <2>2
<1>6. NothingDangles'
  <2>1. ASSUME NEW r \in was.shared, r \notin db'.shared
        PROVE  Key(r) \notin db'.lookups /\ IndexOf(db', Key(r)) = {}
    <3>1. CASE r \in db.shared
      BY <2>1, <3>1
    <3>2. CASE r \notin db.shared
      <4>1. Key(r) \notin db.lookups /\ IndexOf(db, Key(r)) = {}
        BY <3>2 DEF CleanInv, CleanupIsSafe, NothingDangles
      <4> QED BY <4>1 DEF IndexOf
    <3> QED BY <3>1, <3>2
  <2>2. ASSUME NEW v \in db'.vectors, v \in {x.slot : x \in was.index}
        PROVE  v \in {x.slot : x \in db'.index}
    <3>1. v \in {x.slot : x \in db.index}
      BY <2>2 DEF CleanInv, CleanupIsSafe, NothingDangles
    <3> QED BY <2>2, <3>1
  <2>3. ASSUME NEW x \in db'.index, x.slot \in was.vectors
        PROVE  x.slot \in db'.vectors
    <3>1. x.slot \in db.vectors
      BY <2>3 DEF CleanInv, CleanupIsSafe, NothingDangles
    <3> QED BY <3>1
  <2> QED BY <2>1, <2>2, <2>3 DEF NothingDangles
<1>7. CopiesAreClean'
  BY DEF CleanInv, CleanupIsSafe, CopiesAreClean
<1>8. /\ Distinct(was.shared)' /\ IsFiniteSet(was.shared)' /\ (db.shared \subseteq was.shared)'
      /\ (\A r \in was.shared : r.name # NoName => r.name \in r.names)'
      /\ (NoSlot \notin was.vectors /\ db.vectors \subseteq was.vectors)'
  BY DEF CleanInv, Distinct
<1>9. \A x \in db'.index, r \in db'.shared : Key(x) = Key(r) => x.type = r.type
  BY DEF CleanInv
<1>10. \A r \in was.shared \ db'.shared : r.type = "entity" /\ r.parses => IsDetail(r)
  BY DEF CleanInv
<1> QED BY <1>1, <1>3, <1>4, <1>5, <1>6, <1>7, <1>8, <1>9, <1>10 DEF CleanInv, CleanupIsSafe, Distinct

-----------------------------------------------------------------------------
(* Migration 007 *)

(* An entity that is public is where it was found. *)
LEMMA PublicParentsStay ==
    ASSUME CleanInv
    PROVE  \A t, ref : /\ Resolve(db, t, ref) \subseteq Resolve(was, t, ref)
                       /\ \A e \in Resolve(was, t, ref) : IsDetail(e) \/ e \in Resolve(db, t, ref)
<1>1. db.shared \subseteq was.shared
  BY DEF CleanInv
<1>2. \A r \in was.shared \ db.shared : r.type = "entity" /\ r.parses => IsDetail(r)
  BY DEF CleanInv
<1>3. Directory(db) \subseteq Directory(was)
  BY <1>1 DEF Directory
<1>4. \A e \in Directory(was) : IsDetail(e) \/ e \in Directory(db)
  <2>1. \A e : e.type = "message_detail" => IsDetail(e)
    BY DEF IsDetail
  <2> QED BY <1>2, <2>1 DEF Directory
<1>5. \A t, x : /\ LookupId(db, t, x) \subseteq LookupId(was, t, x)
                /\ \A e \in LookupId(was, t, x) : IsDetail(e) \/ e \in LookupId(db, t, x)
  BY <1>3, <1>4 DEF LookupId
<1>6. \A t, n : /\ LookupName(db, t, n) \subseteq LookupName(was, t, n)
                /\ \A e \in LookupName(was, t, n) : IsDetail(e) \/ e \in LookupName(db, t, n)
  BY <1>3, <1>4 DEF LookupName
<1> QED BY <1>5, <1>6 DEF Resolve

(* A body goes back to the message that its plan names. *)
LEMMA MigrationMovesMail ==
    ASSUME NEW d, IsFiniteSet(d.shared), Ready(d), \A m \in d.messages : IsMail(m)
    PROVE  \E F : /\ Migrated(d).messages = {F[m] : m \in d.messages}
                  /\ \A m \in d.messages : SameMail(d, m, F[m])
                  /\ \A p \in PointerPlans(d) : F[p[1]].content = Text(p[2].body)
<1> DEFINE plan(m) == {p \in PointerPlans(d) : p[1] = m}
           body(m) == (CHOOSE p \in plan(m) : TRUE)[2].body
           F == [m \in d.messages |->
                    IF plan(m) = {} THEN m ELSE [m EXCEPT !.content = Text(body(m))]]
<1>1. Migrated(d).messages =
         {IF plan(m) = {} THEN m ELSE [m EXCEPT !.content = Text(body(m))] : m \in d.messages}
  BY DEF Migrated
<1>2. Migrated(d).messages = {F[m] : m \in d.messages}
  BY <1>1, Zenon
<1>3. \A m \in d.messages : \A b :
         LET n == [m EXCEPT !.content = b]
         IN /\ IsMail(n) /\ n.content = b
            /\ n.id = m.id /\ n.tenant = m.tenant /\ n.from = m.from /\ n.to = m.to
  <2> TAKE m \in d.messages
  <2> DEFINE r == [id |-> m.id, tenant |-> m.tenant, from |-> m.from, to |-> m.to,
                   content |-> m.content, legacy |-> m.legacy]
  <2>1. m = r
    BY DEF IsMail
  <2>2. \A b : [r EXCEPT !.content = b] =
                 [id |-> m.id, tenant |-> m.tenant, from |-> m.from, to |-> m.to,
                  content |-> b, legacy |-> m.legacy]
    OBVIOUS
  <2>3. \A b : [m EXCEPT !.content = b] =
                 [id |-> m.id, tenant |-> m.tenant, from |-> m.from, to |-> m.to,
                  content |-> b, legacy |-> m.legacy]
    BY <2>1, <2>2
  <2> QED BY <2>3 DEF IsMail
<1>4. ASSUME NEW p \in PointerPlans(d)
      PROVE  /\ p[1] \in d.messages /\ plan(p[1]) # {} /\ body(p[1]) = p[2].body
             /\ F[p[1]].content = Text(p[2].body) /\ SameMail(d, p[1], F[p[1]])
  <2> DEFINE m == p[1]
  <2>1. /\ m \in d.messages /\ Points(m)
        /\ p[2] \in d.shared /\ IsDetail(p[2]) /\ p[2].tenant = m.tenant
        /\ p[2].by = m.from /\ p[2].name = ExpectedName(m)
        /\ \A q \in PointerPlans(d) : q[1] = m => q[2] = p[2]
    BY PlanIsExact
  <2>2. p \in plan(m)
    OBVIOUS
  <2>3. (CHOOSE q \in plan(m) : TRUE) \in plan(m)
    BY <2>2
  <2>4. body(m) = p[2].body
    BY <2>1, <2>3
  <2>5. F[m] = [m EXCEPT !.content = Text(p[2].body)]
    BY <2>1, <2>2, <2>4
  <2> DEFINE n == [m EXCEPT !.content = Text(p[2].body)]
  <2>6. /\ IsMail(n) /\ n.content = Text(p[2].body)
        /\ n.id = m.id /\ n.tenant = m.tenant /\ n.from = m.from /\ n.to = m.to
    BY <1>3, <2>1, Zenon
  <2> HIDE DEF n, F
  <2>7. F[m] = n
    BY <2>5 DEF n
  <2>8. SameMail(d, m, n)
    BY <2>1, <2>6 DEF SameMail
  <2> QED BY <2>1, <2>2, <2>4, <2>6, <2>7, <2>8
<1>5. ASSUME NEW m \in d.messages PROVE SameMail(d, m, F[m])
  <2>1. CASE plan(m) = {}
    <3>1. F[m] = m
      BY <2>1
    <3> QED BY <3>1 DEF SameMail
  <2>2. CASE plan(m) # {}
    <3>1. PICK p \in PointerPlans(d) : p[1] = m
      BY <2>2
    <3> HIDE DEF F, plan, body
    <3>2. SameMail(d, p[1], F[p[1]])
      BY <1>4
    <3> QED BY <3>1, <3>2
  <2> QED BY <2>1, <2>2
<1> HIDE DEF F
<1> QED BY <1>2, <1>4, <1>5

(* A detail that 007 takes has its body put back, a copy has its message. *)
LEMMA MigrationKeepsWords ==
    ASSUME NEW d, IsFiniteSet(d.shared), Ready(d),
           NEW F, \A m \in d.messages : SameMail(d, m, F[m]),
           \A p \in PointerPlans(d) : F[p[1]].content = Text(p[2].body),
           NEW mails, mails = {F[m] : m \in d.messages},
           NEW h, NEW r \in Doomed(d)
    PROVE  IsKept(mails, h, r)
<1>1. CASE r \in Details(d)
  <2>1. PICK p \in PointerPlans(d) : p[2] = r
    <3>1. DetailIssues(d) = {}
      <4>1. Issues(d) = {}
        BY DEF Ready
      <4> QED BY <4>1 DEF Issues
    <3>2. Restorable(r)
      BY <1>1, <3>1, Zenon DEF DetailIssues
    <3>3. ~ \A p \in PointerPlans(d) : p[2] # r
      BY <1>1, <3>1, <3>2, Zenon DEF DetailIssues
    <3> QED BY <3>3
  <2>2. p[1] \in d.messages /\ p[2].tenant = p[1].tenant
    BY PlanIsExact
  <2>3. F[p[1]].tenant = p[1].tenant /\ F[p[1]] \in mails
    BY <2>2 DEF SameMail
  <2>4. F[p[1]].content = Text(r.body)
    BY <2>1
  <2> QED BY <1>1, <2>1, <2>2, <2>3, <2>4 DEF IsKept, Details
<1>2. CASE r \in PrivateObservations(d) \/ r \in PrivateRelations(d)
  BY <1>2 DEF IsKept, PrivateObservations, PrivateRelations, Observations, Relations
<1>3. CASE r \in SharedPlans(d)
  <2> DEFINE found == Originals(d, r)
             m == CHOOSE x \in found : TRUE
  <2>1. found # {} /\ m.tenant = r.tenant
        /\ <<m.from, m.to, m.content>> = <<r.sender, r.recipient, r.text>>
    BY <1>3 DEF SharedPlans, CopyIssue
  <2>2. m \in d.messages
    BY <2>1 DEF Originals
  <2> HIDE DEF m
  <2>3. F[m] \in mails /\ F[m].tenant = m.tenant /\ F[m].from = m.from /\ F[m].to = m.to
    BY <2>2 DEF SameMail
  <2>4. r.text.shape = "text" => F[m] = m
    BY <2>1, <2>2, TextStays
  <2>5. r.type = "ai_message"
    BY <1>3 DEF SharedPlans, Copies
  <2> QED BY <2>1, <2>3, <2>4, <2>5 DEF IsKept
<1> QED BY <1>1, <1>2, <1>3 DEF Doomed, GraphTargets

(* What 007 takes is private, also where the rows were found. *)
LEMMA MigrationTakesPrivate ==
    ASSUME CleanInv, Ready(db), NEW r \in Doomed(db)
    PROVE  IsPrivate(was, r)
<1>0. IsFiniteSet(db.shared)
  BY FS_Subset DEF CleanInv
<1>1. CASE r \in Details(db) \/ r \in SharedPlans(db)
  BY <1>1 DEF IsPrivate, Details, SharedPlans, Copies
<1>2. ASSUME NEW t, NEW ref, NEW e \in Resolve(db, t, ref), IsDetail(e),
             ~(Cardinality(Resolve(db, t, ref)) # 1)
      PROVE  /\ Resolve(was, t, ref) # {}
             /\ \A x \in Resolve(was, t, ref) : IsDetail(x)
  <2>1. IsFiniteSet(Resolve(db, t, ref))
    BY <1>0, LookupsAreFinite
  <2>2. \A x \in Resolve(db, t, ref) : x = e
    BY <1>2, <2>1, OneOfThem
  <2> QED BY <1>2, <2>2, PublicParentsStay
<1>3. CASE r \in PrivateObservations(db)
  <2>1. r.type = "observation" /\ ObservationIssue(db, r) = {} /\ PrivateParents(db, r) # {}
    BY <1>3 DEF PrivateObservations, Observations
  <2>2. PICK e \in Resolve(db, r.tenant, r.parent) : IsDetail(e)
    BY <2>1 DEF PrivateParents, Parents
  <2>3. ~(Cardinality(Resolve(db, r.tenant, r.parent)) # 1)
    BY <2>1, <2>2 DEF ObservationIssue, Parents
  <2> QED BY <1>2, <2>1, <2>2, <2>3 DEF IsPrivate, Parents
<1>4. CASE r \in PrivateRelations(db)
  <2>1. /\ r.type = "relation" /\ RelationIssue(db, r) = {}
        /\ \E e \in Resolve(db, r.tenant, r.from) \union Resolve(db, r.tenant, r.to) : IsDetail(e)
    BY <1>4 DEF PrivateRelations, Relations
  <2>2. EndIssue(db, r, r.from) = {} /\ EndIssue(db, r, r.to) = {}
    BY <2>1 DEF RelationIssue
  <2>3. PICK ref \in {r.from, r.to} : \E e \in Resolve(db, r.tenant, ref) : IsDetail(e)
    BY <2>1
  <2>4. PICK e \in Resolve(db, r.tenant, ref) : IsDetail(e)
    BY <2>3
  <2>5. EndIssue(db, r, ref) = {}
    BY <2>2
  <2>6. ~(Cardinality(Resolve(db, r.tenant, ref)) # 1)
    BY <2>4, <2>5 DEF EndIssue
  <2>7. /\ Resolve(was, r.tenant, ref) # {}
        /\ \A x \in Resolve(was, r.tenant, ref) : IsDetail(x)
    BY <1>2, <2>4, <2>6
  <2> QED BY <2>1, <2>7 DEF IsPrivate
<1> QED BY <1>1, <1>3, <1>4 DEF Doomed, GraphTargets

(* The index row of a removed row goes with it, and a vector that stays has *)
(* an owner.                                                                *)
LEMMA MigrationLeavesNoIndex ==
    ASSUME NEW d, Ready(d), NoSlot \notin d.vectors,
           \A x \in d.index, r \in d.shared : Key(x) = Key(r) => x.type = r.type
    PROVE  /\ \A r \in Doomed(d) : IndexOf(Migrated(d), Key(r)) = {}
           /\ \A x \in d.index : x.slot \in Migrated(d).vectors => x \in Migrated(d).index
           /\ \A x \in Migrated(d).index : x.slot \in d.vectors => x.slot \in Migrated(d).vectors
<1>1. /\ Migrated(d).index = d.index \ VectorPlans(d)
      /\ Migrated(d).vectors = d.vectors \ {x.slot : x \in VectorPlans(d)}
  BY DEF Migrated
<1>2. Targets(d) = VectorPlans(d)
  BY ReadyHasNoIssues DEF VectorPlans
<1>3. ASSUME NEW r \in Doomed(d), NEW x \in d.index, Key(x) = Key(r)
      PROVE  x \in VectorPlans(d)
  <2>1. OwnerIssue(d, x) = {}
    BY ReadyHasNoIssues
  <2>2. FollowsARow(d, x) \/ IsMessageVector(x)
    <3>1. CASE r \in GraphTargets(d)
      BY <1>3, <3>1 DEF FollowsARow
    <3>2. CASE r \in SharedPlans(d)
      <4>1. r \in d.shared /\ r.type = "ai_message"
        BY <3>2 DEF SharedPlans, Copies
      <4> QED BY <1>3, <4>1 DEF IsMessageVector
    <3> QED BY <3>1, <3>2 DEF Doomed
  <2> QED BY <1>2, <2>1, <2>2 DEF Targets
<1>4. \A r \in Doomed(d) : IndexOf(Migrated(d), Key(r)) = {}
  BY <1>1, <1>3 DEF IndexOf
<1>5. \A x \in d.index : x.slot \in Migrated(d).vectors => x \in Migrated(d).index
  BY <1>1
<1>6. ASSUME NEW x \in Migrated(d).index, x.slot \in d.vectors
      PROVE  x.slot \in Migrated(d).vectors
  <2>1. SUFFICES ASSUME NEW y \in VectorPlans(d), y.slot = x.slot PROVE FALSE
    BY <1>1, <1>6
  <2>2. x \in d.index /\ x # y /\ y.slot # NoSlot /\ y.slot \in d.vectors
    BY <1>1, <1>6, <2>1
  <2>3. VectorIssue(d, y) = {}
    BY <1>2, ReadyHasNoIssues
  <2>4. x \in {z \in d.index : z.slot = y.slot /\ z # y}
    BY <2>1, <2>2
  <2> QED BY <2>2, <2>3, <2>4 DEF VectorIssue
<1> QED BY <1>4, <1>5, <1>6

LEMMA MigrateKeepsSafe ==
    ASSUME CleanInv, Migrate
    PROVE  CleanInv'
<1>0. /\ Ready(db) /\ db' = Migrated(db) /\ held' = held /\ was' = was /\ copies' = copies
      /\ IsFiniteSet(db.shared) /\ \A m \in db.messages : IsMail(m)
  BY FS_Subset DEF CleanInv, Migrate
<1>1. /\ db'.shared = db.shared \ Doomed(db)
      /\ db'.index = db.index \ VectorPlans(db)
      /\ db'.vectors = db.vectors \ {x.slot : x \in VectorPlans(db)}
      /\ db'.lookups = db.lookups \ {Key(r) : r \in Doomed(db)}
  BY <1>0 DEF Migrated
<1>2. PICK F : /\ Migrated(db).messages = {F[m] : m \in db.messages}
               /\ \A m \in db.messages : SameMail(db, m, F[m])
               /\ \A p \in PointerPlans(db) : F[p[1]].content = Text(p[2].body)
  BY <1>0, MigrationMovesMail
<1>3. db'.messages = {F[m] : m \in db.messages}
  BY <1>0, <1>2
<1>4. /\ \A r \in Doomed(db) : IndexOf(db', Key(r)) = {}
      /\ \A x \in db.index : x.slot \in db'.vectors => x \in db'.index
      /\ \A x \in db'.index : x.slot \in db.vectors => x.slot \in db'.vectors
  <2>1. NoSlot \notin db.vectors
        /\ \A x \in db.index, r \in db.shared : Key(x) = Key(r) => x.type = r.type
    BY DEF CleanInv
  <2>2. /\ \A r \in Doomed(db) : IndexOf(Migrated(db), Key(r)) = {}
        /\ \A x \in db.index : x.slot \in Migrated(db).vectors => x \in Migrated(db).index
        /\ \A x \in Migrated(db).index : x.slot \in db.vectors => x.slot \in Migrated(db).vectors
    BY <1>0, <2>1, MigrationLeavesNoIndex
  <2> QED BY <1>0, <2>2
<1>5. ASSUME NEW r \in db.shared, r \notin db'.shared
      PROVE  /\ IsKept(db'.messages, held', r)
             /\ r \in held' \/ IsPrivate(was, r)
             /\ r.type = "entity" /\ r.parses => IsDetail(r)
             /\ Key(r) \notin db'.lookups /\ IndexOf(db', Key(r)) = {}
  <2>1. r \in Doomed(db)
    BY <1>1, <1>5
  <2>2. IsKept(db'.messages, held', r)
    BY <1>0, <1>2, <1>3, <2>1, MigrationKeepsWords
  <2>3. IsPrivate(was, r)
    BY <1>0, <2>1, MigrationTakesPrivate
  <2>4. r.type = "entity" => IsDetail(r)
    BY <2>3 DEF IsPrivate
  <2> QED BY <1>1, <1>4, <2>1, <2>2, <2>3, <2>4
<1>6. held \subseteq held'
  BY <1>0
<1>7. /\ db'.shared \subseteq db.shared /\ db'.index \subseteq db.index
      /\ db'.vectors \subseteq db.vectors /\ db'.lookups \subseteq db.lookups
  BY <1>1
<1> QED BY <1>0, <1>2, <1>3, <1>4, <1>5, <1>6, <1>7, ToolsKeepSafe

-----------------------------------------------------------------------------
(* The adjudication *)

LEMMA PlanDecides ==
    ASSUME NEW d, NEW plan \in Manifests(Options(d, Findings(d)))
    PROVE  /\ DOMAIN plan = Issues(d)
           /\ \A f \in Issues(d) :
                 /\ plan[f].do \in Supported(d, f) /\ IsExact(d, f, plan[f])
                 /\ plan[f].do \in Targeted => \E m \in d.messages :
                       plan[f].to = [tenant |-> m.tenant, id |-> m.id]
<1> DEFINE O == Options(d, Findings(d))
<1>1. /\ O = [f \in Issues(d) |-> {x \in Decisions(d, f) : IsExact(d, f, x)}]
      /\ DOMAIN O = Issues(d)
      /\ \A f \in Issues(d) : O[f] = {x \in Decisions(d, f) : IsExact(d, f, x)}
  BY DEF Options, Findings
<1> HIDE DEF O
<1>2. /\ plan \in [DOMAIN O -> UNION {O[f] : f \in DOMAIN O}]
      /\ \A f \in DOMAIN O : plan[f] \in O[f]
  <2>1. Manifests(O) \subseteq {x \in [DOMAIN O -> UNION {O[f] : f \in DOMAIN O}] :
                                   \A f \in DOMAIN O : x[f] \in O[f]}
    BY DEF Manifests
  <2>2. plan \in Manifests(O)
    BY DEF O
  <2> QED BY <2>1, <2>2, Zenon
<1>3. ASSUME NEW f \in Issues(d)
      PROVE  /\ plan[f].do \in Supported(d, f) /\ IsExact(d, f, plan[f])
             /\ plan[f].do \in Targeted => \E m \in d.messages :
                   plan[f].to = [tenant |-> m.tenant, id |-> m.id]
  <2>1. plan[f] \in Decisions(d, f) /\ IsExact(d, f, plan[f])
    BY <1>1, <1>2
  <2> HIDE DEF O
  <2>2. PICK x : x = plan[f]
    OBVIOUS
  <2>3. x \in [do : Supported(d, f), to : {NoTarget} \union
                   {[tenant |-> m.tenant, id |-> m.id] : m \in d.messages}]
        /\ (x.do \in Targeted <=> x.to # NoTarget)
    BY <2>1, <2>2, Zenon DEF Decisions
  <2>4. x.do \in Supported(d, f) /\ x.to \in {NoTarget} \union
                   {[tenant |-> m.tenant, id |-> m.id] : m \in d.messages}
    BY <2>3
  <2> QED BY <2>1, <2>2, <2>3, <2>4
<1> QED BY <1>1, <1>2, <1>3

(* The row a finding is about is the one with its key. *)
LEMMA FindingsRow ==
    ASSUME NEW d, NEW f, Rows(d, f) # {}
    PROVE  /\ f.table = "shared" => Row(d, f) \in d.shared /\ Key(Row(d, f)) = At(f)
           /\ Key(Row(d, f)) = At(f)
<1>1. Row(d, f) \in Rows(d, f)
  BY DEF Row
<1> QED BY <1>1 DEF Rows

LEMMA MessageIsThere ==
    ASSUME NEW d, Distinct(d.messages), NEW m \in d.messages
    PROVE  Message(d, [tenant |-> m.tenant, id |-> m.id]) = m
<1> DEFINE to == [tenant |-> m.tenant, id |-> m.id]
<1>1. Key(m) = <<to.tenant, to.id>>
  BY DEF Key
<1>2. \A n \in d.messages : Key(n) = <<to.tenant, to.id>> => n = m
  BY <1>1 DEF Distinct
<1> QED BY <1>1, <1>2 DEF Message

(* What an accepted decision says about the row it is for. *)
LEMMA DecisionIsExact ==
    ASSUME NEW d, Distinct(d.shared), Distinct(d.messages),
           NEW plan \in Manifests(Options(d, Findings(d))),
           NEW f \in OnSource(plan), NEW r \in d.shared, At(f) = Key(r)
    PROVE  \/ /\ Effect(plan[f]).do = "quarantine"
              /\ r.type = "entity" /\ r.parses => IsDetail(r)
           \/ /\ plan[f].do = "restore_mailbox"
              /\ \E m \in d.messages : /\ plan[f].to = [tenant |-> m.tenant, id |-> m.id]
                                       /\ RestoreIsExact(d, r, m)
           \/ /\ plan[f].do = "private_duplicate"
              /\ \E m \in d.messages : DuplicateIsExact(r, m)
<1>1. /\ f \in Issues(d) /\ plan[f].do # "stale_vector_remove"
      /\ plan[f].do \in Supported(d, f) /\ IsExact(d, f, plan[f])
      /\ plan[f].do \in Targeted => \E m \in d.messages :
                       plan[f].to = [tenant |-> m.tenant, id |-> m.id]
  BY PlanDecides DEF OnSource
<1>2. /\ Rows(d, f) # {} /\ plan[f].do \in Dispositions
      /\ plan[f].do = "quarantine_backing_observation" \/ f.table = "shared"
  BY <1>1 DEF Supported
<1>3. CASE plan[f].do = "quarantine_backing_observation"
  <2>1. BackingIsExact(d, f)
    BY <1>1, <1>3 DEF IsExact
  <2>2. PICK s \in d.shared : Key(s) = Key(Row(d, f)) /\ s.type = "observation"
    BY <2>1 DEF BackingIsExact
  <2>3. s = r
    BY <1>2, <2>2, FindingsRow DEF Distinct
  <2> QED BY <1>3, <2>2, <2>3 DEF Effect
<1>4. CASE plan[f].do # "quarantine_backing_observation"
  <2>1. f.table = "shared" /\ Effect(plan[f]) = plan[f]
    BY <1>2, <1>4 DEF Effect
  <2>2. Row(d, f) = r
    BY <1>2, <2>1, FindingsRow DEF Distinct
  <2>3. CASE plan[f].do = "quarantine"
    BY <1>1, <2>1, <2>3, EntityFindingsAreDetails
  <2>4. CASE plan[f].do = "restore_mailbox"
    <3>1. PICK m \in d.messages : plan[f].to = [tenant |-> m.tenant, id |-> m.id]
      BY <1>1, <2>4 DEF Targeted
    <3>2. RestoreIsExact(d, r, Message(d, plan[f].to))
      BY <1>1, <2>2, <2>4 DEF IsExact
    <3> QED BY <2>4, <3>1, <3>2, MessageIsThere
  <2>5. CASE plan[f].do = "private_duplicate"
    <3>1. PICK m \in d.messages : plan[f].to = [tenant |-> m.tenant, id |-> m.id]
      BY <1>1, <2>5 DEF Targeted
    <3>2. DuplicateIsExact(r, Message(d, plan[f].to))
      BY <1>1, <2>2, <2>5 DEF IsExact
    <3> QED BY <2>5, <3>1, <3>2, MessageIsThere
  <2> QED BY <1>1, <1>2, <1>4, <2>3, <2>4, <2>5 DEF Dispositions
<1> QED BY <1>3, <1>4

(* A restored body is what the plan says of the message. *)
LEMMA RestoredRow ==
    ASSUME NEW d, Distinct(d.shared), Distinct(d.messages),
           NEW plan \in Manifests(Options(d, Findings(d))),
           NEW f \in OnSource(plan), plan[f].do = "restore_mailbox",
           NEW m \in d.messages, plan[f].to = [tenant |-> m.tenant, id |-> m.id]
    PROVE  Row(d, f) \in d.shared /\ Key(Row(d, f)) = At(f) /\ RestoreIsExact(d, Row(d, f), m)
<1>1. /\ f \in Issues(d) /\ plan[f].do \in Supported(d, f) /\ IsExact(d, f, plan[f])
  BY PlanDecides DEF OnSource
<1>2. Rows(d, f) # {} /\ f.table = "shared"
  BY <1>1 DEF Supported
<1>3. RestoreIsExact(d, Row(d, f), Message(d, plan[f].to))
  BY <1>1 DEF IsExact
<1>4. Message(d, plan[f].to) = m
  BY MessageIsThere
<1> QED BY <1>2, <1>3, <1>4, FindingsRow

(* Two details for one pointer are a finding that no disposition settles. *)
LEMMA OneBodyToRestore ==
    ASSUME NEW d, IsFiniteSet(d.shared), NEW plan \in Manifests(Options(d, Findings(d))),
           NEW m \in d.messages, NEW s \in d.shared, NEW t \in d.shared,
           s.name # NoName => s.name \in s.names, t.name # NoName => t.name \in t.names,
           RestoreIsExact(d, s, m), RestoreIsExact(d, t, m)
    PROVE  s.body = t.body
<1>1. CASE m.content.shape = "text"
  <2>1. m.content = Text(s.body) /\ m.content = Text(t.body)
    BY <1>1 DEF RestoreIsExact, Pointer, Text
  <2> QED BY <2>1 DEF Text
<1>2. CASE m.content.shape # "text" /\ s # t
  <2> DEFINE found == LookupName(d, m.tenant, m.content.name)
             f == Issue("ambiguous_pointer_payload", "messages", m, NoReason)
  <2>1. m.content = Pointer(s.name) /\ m.content = Pointer(t.name)
    BY <1>2 DEF RestoreIsExact, Text
  <2>2. /\ m.content.shape = "pointer" /\ m.content.name = s.name /\ m.content.name = t.name
    BY <2>1 DEF Pointer
  <2>3. \A x \in {s, t} : /\ x.parses /\ x.marked /\ x.name # NoName /\ x.name \in x.names
                          /\ x.tenant = m.tenant /\ x.name = ExpectedName(m)
    BY DEF RestoreIsExact
  <2>4. s \in Directory(d) /\ t \in Directory(d)
    BY <2>3 DEF Directory, IsDetail
  <2>5. s \in found /\ t \in found
    BY <2>2, <2>3, <2>4 DEF LookupName
  <2>6. IsFiniteSet(found)
    BY LookupsAreFinite
  <2>7. Cardinality(found) > 1
    BY <1>2, <2>5, <2>6, OneAtMost
  <2> HIDE DEF found
  <2>8. f \in PointerIssue(d, m)
    <3>1. found # {} /\ m.content.name = ExpectedName(m) /\ m.content.shape # "malformed"
      BY <2>2, <2>3, <2>5
    <3> QED BY <2>7, <3>1 DEF PointerIssue, found
  <2>9. f \in Issues(d)
    <3>1. m \in Pointers(d)
      BY <1>2 DEF Pointers, Points
    <3>2. f \in PointerIssues(d)
      BY <2>8, <3>1 DEF PointerIssues
    <3> HIDE DEF f
    <3> QED BY <3>2 DEF Issues
  <2>10. plan[f].do \in Supported(d, f)
    BY <2>9, PlanDecides
  <2>11. f.code \notin VectorCodes /\ f.table # "shared"
         /\ f.reason # "unresolved_private_shaped_observation"
    BY DEF Issue, VectorCodes, NoReason
  <2> HIDE DEF f
  <2>12. FALSE
    BY <2>10, <2>11 DEF Supported
  <2> QED BY <2>12
<1>3. CASE s = t
  BY <1>3
<1> QED BY <1>1, <1>2, <1>3

LEMMA AdjudicationMovesMail ==
    ASSUME NEW d, IsFiniteSet(d.shared), Distinct(d.shared), Distinct(d.messages),
           \A m \in d.messages : IsMail(m),
           \A r \in d.shared : r.name # NoName => r.name \in r.names,
           NEW plan \in Manifests(Options(d, Findings(d)))
    PROVE  \E F : /\ Adjudicated(d, plan).messages = {F[m] : m \in d.messages}
                  /\ \A m \in d.messages : SameMail(d, m, F[m])
                  /\ \A f \in OnSource(plan), m \in d.messages :
                        /\ plan[f].do = "restore_mailbox"
                        /\ plan[f].to = [tenant |-> m.tenant, id |-> m.id]
                        => F[m].content = Text(Row(d, f).body)
<1> DEFINE sources(m) == {Row(d, f) : f \in {g \in OnSource(plan) :
                             /\ plan[g].do = "restore_mailbox"
                             /\ plan[g].to = [tenant |-> m.tenant, id |-> m.id]}}
           body(m) == (CHOOSE s \in sources(m) : TRUE).body
           F == [m \in d.messages |->
                    IF sources(m) = {} THEN m ELSE [m EXCEPT !.content = Text(body(m))]]
<1>1. Adjudicated(d, plan).messages =
         {IF sources(m) = {} THEN m ELSE [m EXCEPT !.content = Text(body(m))] : m \in d.messages}
  BY DEF Adjudicated
<1>2. Adjudicated(d, plan).messages = {F[m] : m \in d.messages}
  BY <1>1, Zenon
<1>3. \A m \in d.messages : \A b :
         LET n == [m EXCEPT !.content = b]
         IN /\ IsMail(n) /\ n.content = b
            /\ n.id = m.id /\ n.tenant = m.tenant /\ n.from = m.from /\ n.to = m.to
            /\ b = m.content => n = m
  <2> TAKE m \in d.messages
  <2> DEFINE r == [id |-> m.id, tenant |-> m.tenant, from |-> m.from, to |-> m.to,
                   content |-> m.content, legacy |-> m.legacy]
  <2>1. m = r
    BY DEF IsMail
  <2>2. \A b : [r EXCEPT !.content = b] =
                 [id |-> m.id, tenant |-> m.tenant, from |-> m.from, to |-> m.to,
                  content |-> b, legacy |-> m.legacy]
    OBVIOUS
  <2>3. \A b : [m EXCEPT !.content = b] =
                 [id |-> m.id, tenant |-> m.tenant, from |-> m.from, to |-> m.to,
                  content |-> b, legacy |-> m.legacy]
    BY <2>1, <2>2
  <2> QED BY <2>1, <2>3 DEF IsMail
<1>4. ASSUME NEW m \in d.messages, NEW s \in sources(m)
      PROVE  s \in d.shared /\ RestoreIsExact(d, s, m)
  <2>1. PICK f \in OnSource(plan) : /\ s = Row(d, f) /\ plan[f].do = "restore_mailbox"
                                    /\ plan[f].to = [tenant |-> m.tenant, id |-> m.id]
    OBVIOUS
  <2> QED BY <2>1, RestoredRow
<1>5. ASSUME NEW m \in d.messages, NEW s \in sources(m)
      PROVE  F[m].content = Text(s.body) /\ SameMail(d, m, F[m])
  <2>1. s \in d.shared /\ RestoreIsExact(d, s, m)
    BY <1>4
  <2> DEFINE t == CHOOSE x \in sources(m) : TRUE
  <2>2. t \in sources(m)
    OBVIOUS
  <2>3. t \in d.shared /\ RestoreIsExact(d, t, m)
    BY <1>4, <2>2
  <2>4. body(m) = s.body
    <3> HIDE DEF t
    <3>1. t.body = s.body
      BY <2>1, <2>3, OneBodyToRestore
    <3> QED BY <3>1 DEF t
  <2> DEFINE n == [m EXCEPT !.content = Text(s.body)]
  <2>5. sources(m) # {}
    OBVIOUS
  <2>6. F[m] = n
    BY <2>4, <2>5
  <2>7. /\ IsMail(n) /\ n.content = Text(s.body)
        /\ n.id = m.id /\ n.tenant = m.tenant /\ n.from = m.from /\ n.to = m.to
        /\ Text(s.body) = m.content => n = m
    BY <1>3, Zenon
  <2> HIDE DEF n, F, sources
  <2>8. SameMail(d, m, n)
    <3>1. CASE m.content = Text(s.body)
      BY <2>7, <3>1 DEF SameMail
    <3>2. CASE m.content # Text(s.body)
      <4>1. m.content = Pointer(s.name)
        BY <2>1, <3>2 DEF RestoreIsExact
      <4>2. Points(m)
        BY <4>1 DEF Pointer, Points
      <4>3. /\ IsDetail(s) /\ s.tenant = m.tenant /\ s.by = m.from /\ s.name = ExpectedName(m)
        BY <2>1 DEF RestoreIsExact, IsDetail
      <4> QED BY <2>1, <2>7, <4>2, <4>3 DEF SameMail
    <3> QED BY <3>1, <3>2
  <2> QED BY <2>6, <2>7, <2>8
<1>6. ASSUME NEW m \in d.messages PROVE SameMail(d, m, F[m])
  <2>1. CASE sources(m) = {}
    <3>1. F[m] = m
      BY <2>1
    <3> QED BY <3>1 DEF SameMail
  <2>2. CASE sources(m) # {}
    BY <1>5, <2>2
  <2> QED BY <2>1, <2>2
<1>7. ASSUME NEW f \in OnSource(plan), NEW m \in d.messages, plan[f].do = "restore_mailbox",
             plan[f].to = [tenant |-> m.tenant, id |-> m.id]
      PROVE  F[m].content = Text(Row(d, f).body)
  <2>1. Row(d, f) \in sources(m)
    BY <1>7
  <2> QED BY <1>5, <2>1
<1> HIDE DEF F
<1> QED BY <1>2, <1>6, <1>7

LEMMA AdjudicateKeepsSafe ==
    ASSUME CleanInv, Adjudicate
    PROVE  CleanInv'
<1>0. PICK plan \in Manifests(Options(db, Findings(db))) :
         /\ Accepts(db, plan) /\ db' = Adjudicated(db, plan)
         /\ held' = held \union Quarantined(db, plan) /\ was' = was /\ copies' = copies
  BY DEF Adjudicate
<1> DEFINE removed == VectorDeletes(db, plan)
<1>1. /\ db'.shared = {r \in db.shared : Key(r) \notin SourceKeys(plan)}
      /\ db'.index = db.index \ removed
      /\ db'.vectors = db.vectors \ {x.slot : x \in removed}
      /\ db'.lookups = db.lookups \ SourceKeys(plan)
  BY <1>0 DEF Adjudicated
<1>2. /\ IsFiniteSet(db.shared) /\ Distinct(db.shared) /\ Distinct(db.messages)
      /\ \A m \in db.messages : IsMail(m)
      /\ \A r \in db.shared : r.name # NoName => r.name \in r.names
      /\ NoSlot \notin db.vectors
  BY FS_Subset DEF CleanInv, Distinct
<1>3. PICK F : /\ Adjudicated(db, plan).messages = {F[m] : m \in db.messages}
               /\ \A m \in db.messages : SameMail(db, m, F[m])
               /\ \A f \in OnSource(plan), m \in db.messages :
                     /\ plan[f].do = "restore_mailbox"
                     /\ plan[f].to = [tenant |-> m.tenant, id |-> m.id]
                     => F[m].content = Text(Row(db, f).body)
  BY <1>2, AdjudicationMovesMail
<1>4. db'.messages = {F[m] : m \in db.messages}
  BY <1>0, <1>3
<1>5. DOMAIN plan = Issues(db)
  BY PlanDecides
<1>6. removed \subseteq db.index
  BY DEF VectorDeletes, IndexOf
<1>7. ASSUME NEW x \in db'.index, x.slot \in db.vectors
      PROVE  x.slot \in db'.vectors
  <2>1. SUFFICES ASSUME NEW y \in removed, y.slot = x.slot PROVE FALSE
    BY <1>1, <1>7
  <2>2. x \in Owners(db, y)
    BY <1>1, <1>2, <1>7, <2>1 DEF Owners
  <2>3. x \in removed
    BY <1>0, <2>1, <2>2 DEF Accepts
  <2> QED BY <1>1, <2>3
<1>8. \A x \in db.index : x.slot \in db'.vectors => x \in db'.index
  BY <1>1
<1>9. ASSUME NEW r \in db.shared, r \notin db'.shared
      PROVE  /\ IsKept(db'.messages, held', r)
             /\ r \in held' \/ IsPrivate(was, r)
             /\ r.type = "entity" /\ r.parses => IsDetail(r)
             /\ Key(r) \notin db'.lookups /\ IndexOf(db', Key(r)) = {}
  <2>1. Key(r) \in SourceKeys(plan)
    BY <1>1, <1>9
  <2>2. PICK f \in OnSource(plan) : At(f) = Key(r)
    BY <2>1 DEF SourceKeys
  <2>3. IndexOf(db', Key(r)) = {}
    <3>1. \A x \in db.index : Key(x) = Key(r) => x \in removed
      BY <2>2 DEF VectorDeletes, IndexOf, OnSource
    <3> QED BY <1>1, <3>1 DEF IndexOf
  <2>4. Key(r) \notin db'.lookups
    BY <1>1, <2>1
  <2>5. CASE /\ Effect(plan[f]).do = "quarantine"
             /\ r.type = "entity" /\ r.parses => IsDetail(r)
    <3>1. r \in held'
      BY <1>0, <2>2, <2>5 DEF Quarantined
    <3> QED BY <2>3, <2>4, <2>5, <3>1 DEF IsKept
  <2>6. ASSUME plan[f].do = "restore_mailbox", NEW m \in db.messages,
               plan[f].to = [tenant |-> m.tenant, id |-> m.id], RestoreIsExact(db, r, m)
        PROVE  IsKept(db'.messages, held', r) /\ IsDetail(r)
    <3>1. IsDetail(r) /\ r.tenant = m.tenant
      BY <2>6 DEF RestoreIsExact, IsDetail
    <3>2. Row(db, f) \in db.shared /\ Key(Row(db, f)) = At(f)
      BY <1>2, <2>6, RestoredRow
    <3>3. Row(db, f) = r
      BY <1>2, <2>2, <3>2 DEF Distinct
    <3>4. F[m].content = Text(r.body)
      BY <1>3, <2>6, <3>3
    <3>5. F[m].tenant = m.tenant /\ F[m] \in db'.messages
      BY <1>3, <1>4 DEF SameMail
    <3> QED BY <3>1, <3>4, <3>5 DEF IsKept
  <2>7. ASSUME NEW m \in db.messages, DuplicateIsExact(r, m)
        PROVE  IsKept(db'.messages, held', r) /\ r.type = "ai_message"
    <3>1. /\ r.type = "ai_message" /\ r.tenant = m.tenant /\ r.sender = m.from
          /\ r.recipient = m.to /\ r.text = m.content
      BY <2>7 DEF DuplicateIsExact
    <3>2. /\ F[m] \in db'.messages /\ F[m].tenant = m.tenant
          /\ F[m].from = m.from /\ F[m].to = m.to
      BY <1>3, <1>4 DEF SameMail
    <3>3. r.text.shape = "text" => F[m] = m
      BY <1>3, <3>1, TextStays
    <3> QED BY <3>1, <3>2, <3>3 DEF IsKept
  <2>8. \/ /\ Effect(plan[f]).do = "quarantine"
           /\ r.type = "entity" /\ r.parses => IsDetail(r)
        \/ /\ plan[f].do = "restore_mailbox"
           /\ \E m \in db.messages : /\ plan[f].to = [tenant |-> m.tenant, id |-> m.id]
                                     /\ RestoreIsExact(db, r, m)
        \/ /\ plan[f].do = "private_duplicate"
           /\ \E m \in db.messages : DuplicateIsExact(r, m)
    BY <1>2, <2>2, DecisionIsExact
  <2>9. CASE /\ plan[f].do = "restore_mailbox"
             /\ \E m \in db.messages : /\ plan[f].to = [tenant |-> m.tenant, id |-> m.id]
                                       /\ RestoreIsExact(db, r, m)
    BY <2>3, <2>4, <2>6, <2>9 DEF IsPrivate
  <2>10. CASE \E m \in db.messages : DuplicateIsExact(r, m)
    BY <2>3, <2>4, <2>7, <2>10 DEF IsPrivate
  <2> QED BY <2>5, <2>8, <2>9, <2>10
<1>10. held \subseteq held'
  BY <1>0
<1>11. /\ db'.shared \subseteq db.shared /\ db'.index \subseteq db.index
       /\ db'.vectors \subseteq db.vectors /\ db'.lookups \subseteq db.lookups
  BY <1>1
<1> HIDE DEF removed
<1> QED BY <1>0, <1>3, <1>4, <1>7, <1>8, <1>9, <1>10, <1>11, ToolsKeepSafe

-----------------------------------------------------------------------------
LEMMA InitIsClean ==
    ASSUME CleanupAssumption, Init
    PROVE  CleanInv
<1>1. PICK S \in SUBSET (Mails \union Shareds) :
         /\ Distinct(S \cap Mails) /\ Distinct(S \cap Shareds)
         /\ \E all \in BOOLEAN, stray \in {{}} \union {{x} : x \in Strays}, lost \in Lost :
               LET found == {r \in S \cap Shareds : all}
                   index == {Indexed(r) : r \in found} \union stray
               IN /\ Distinct(index)
                  /\ db = [messages |-> S \cap Mails, shared |-> S \cap Shareds,
                           index |-> index,
                           vectors |-> {x.slot : x \in index} \ ({NoSlot} \union lost),
                           lookups |-> {Key(r) : r \in S \cap Shareds}]
  BY DEF Init, kSubset
<1>2. PICK all \in BOOLEAN, stray \in {{}} \union {{x} : x \in Strays}, lost \in Lost :
         LET found == {r \in S \cap Shareds : all}
             index == {Indexed(r) : r \in found} \union stray
         IN db = [messages |-> S \cap Mails, shared |-> S \cap Shareds,
                  index |-> index,
                  vectors |-> {x.slot : x \in index} \ ({NoSlot} \union lost),
                  lookups |-> {Key(r) : r \in S \cap Shareds}]
  BY <1>1
<1>3. /\ db.messages = S \cap Mails /\ db.shared = S \cap Shareds
      /\ NoSlot \notin db.vectors
      /\ db.index \subseteq {Indexed(r) : r \in S \cap Shareds} \union Strays
      /\ was = db /\ held = {} /\ copies = {}
  BY <1>2 DEF Init
<1>4. IsFiniteSet(db.shared)
  <2>1. db.shared \subseteq Shareds
    BY <1>3
  <2> QED BY <2>1, FS_Subset DEF CleanupAssumption
<1>5. \A x \in db.index, r \in db.shared : Key(x) = Key(r) => x.type = r.type
  <2> SUFFICES ASSUME NEW x \in db.index, NEW r \in db.shared, Key(x) = Key(r)
               PROVE  x.type = r.type
    OBVIOUS
  <2>1. CASE x \in Strays
    BY <1>3, <2>1 DEF CleanupAssumption
  <2>2. CASE x \in {Indexed(s) : s \in S \cap Shareds}
    <3>1. PICK s \in S \cap Shareds : x = Indexed(s)
      BY <2>2
    <3>2. Key(s) = Key(r) /\ x.type = s.type
      BY <3>1 DEF Indexed, Key
    <3> QED BY <1>1, <1>3, <3>1, <3>2 DEF Distinct
  <2> QED BY <1>3, <2>1, <2>2
<1>6. CleanupIsSafe
  BY <1>3 DEF CleanupIsSafe, NothingIsLost, MailKeepsItsSender, PublicRowsStay, NothingDangles,
              CopiesAreClean
<1>7. /\ Distinct(db.messages) /\ Distinct(db.shared)
      /\ \A m \in db.messages : IsMail(m)
      /\ \A r \in db.shared : r.name # NoName => r.name \in r.names
  BY <1>1, <1>3 DEF CleanupAssumption
<1> QED BY <1>3, <1>4, <1>5, <1>6, <1>7 DEF CleanInv

LEMMA ReleaseKeepsSafe ==
    ASSUME CleanInv, Release
    PROVE  CleanInv'
<1>1. held' = {} /\ was' = db /\ db' = db /\ copies' = copies
  BY DEF Release
<1>2. IsFiniteSet(db.shared) /\ Distinct(db.shared)
  BY FS_Subset DEF CleanInv, Distinct
<1>3. CleanupIsSafe'
  BY <1>1 DEF CleanInv, CleanupIsSafe, NothingIsLost, MailKeepsItsSender, PublicRowsStay,
              NothingDangles, CopiesAreClean
<1>4. /\ (Distinct(was.shared) /\ IsFiniteSet(was.shared))'
      /\ Distinct(db.messages)' /\ (NoSlot \notin was.vectors)'
  BY <1>1, <1>2 DEF CleanInv, Distinct
<1>5. /\ db'.shared \subseteq was'.shared /\ db'.vectors \subseteq was'.vectors
      /\ \A r \in was'.shared : r.name # NoName => r.name \in r.names
      /\ \A m \in db'.messages : IsMail(m)
      /\ \A x \in db'.index, r \in db'.shared : Key(x) = Key(r) => x.type = r.type
      /\ \A r \in was'.shared \ db'.shared : r.type = "entity" /\ r.parses => IsDetail(r)
  BY <1>1 DEF CleanInv
<1> QED BY <1>3, <1>4, <1>5 DEF CleanInv

(* A database with nothing left to migrate has no pointer and no detail. *)
LEMMA CleanHasNone ==
    ASSUME NEW d, Clean(d)
    PROVE  Pointers(d) = {} /\ Details(d) = {}
<1>1. Ready(d) /\ PointerPlans(d) = {} /\ GraphTargets(d) = {}
  BY DEF Clean
<1>2. Details(d) = {}
  BY <1>1 DEF GraphTargets
<1>3. \A m \in Pointers(d) : FALSE
  <2> TAKE m \in Pointers(d)
  <2>1. PointerIssue(d, m) = {}
    BY <1>1, ReadyHasNoIssues
  <2> QED BY <1>1, <2>1, PointersArePlanned
<1> QED BY <1>2, <1>3

LEMMA SanitizeKeepsSafe ==
    ASSUME CleanInv, Sanitize
    PROVE  CleanInv'
<1>1. Clean(db) /\ copies' = copies \union {db} /\ db' = db /\ held' = held /\ was' = was
  BY DEF Sanitize
<1>2. Pointers(db) = {} /\ Details(db) = {}
  BY <1>1, CleanHasNone
<1>3. CopiesAreClean'
  BY <1>1, <1>2 DEF CleanInv, CleanupIsSafe, CopiesAreClean
<1>4. NothingIsLost /\ MailKeepsItsSender /\ PublicRowsStay /\ NothingDangles
  BY DEF CleanInv, CleanupIsSafe
<1>6. NothingIsLost'
  BY <1>1, <1>4 DEF NothingIsLost
<1>7. MailKeepsItsSender'
  BY <1>1, <1>4 DEF MailKeepsItsSender
<1>8. PublicRowsStay'
  BY <1>1, <1>4 DEF PublicRowsStay
<1>9. NothingDangles'
  BY <1>1, <1>4 DEF NothingDangles
<1>5. (/\ Distinct(was.shared) /\ IsFiniteSet(was.shared) /\ db.shared \subseteq was.shared
       /\ \A r \in was.shared : r.name # NoName => r.name \in r.names
       /\ Distinct(db.messages) /\ \A m \in db.messages : IsMail(m)
       /\ NoSlot \notin was.vectors /\ db.vectors \subseteq was.vectors
       /\ \A x \in db.index, r \in db.shared : Key(x) = Key(r) => x.type = r.type
       /\ \A r \in was.shared \ db.shared : r.type = "entity" /\ r.parses => IsDetail(r))'
  BY <1>1 DEF CleanInv, Distinct
<1> QED BY <1>3, <1>5, <1>6, <1>7, <1>8, <1>9 DEF CleanInv, CleanupIsSafe

LEMMA CleanStepKeepsSafe ==
    ASSUME CleanInv, [Next]_cleanupVars
    PROVE  CleanInv'
<1>1. CASE Adjudicate
  BY <1>1, AdjudicateKeepsSafe
<1>2. CASE Migrate
  BY <1>2, MigrateKeepsSafe
<1>3. CASE Release
  BY <1>3, ReleaseKeepsSafe
<1>4. CASE Sanitize
  BY <1>4, SanitizeKeepsSafe
<1>5. CASE UNCHANGED cleanupVars
  <2>1. db' = db /\ held' = held /\ was' = was /\ copies' = copies
    BY <1>5 DEF cleanupVars
  <2> QED BY <2>1 DEF CleanInv, CleanupIsSafe, NothingIsLost, MailKeepsItsSender, PublicRowsStay,
                      NothingDangles, CopiesAreClean, Distinct
<1> QED BY <1>1, <1>2, <1>3, <1>4, <1>5 DEF Next

(* Whatever the tools do to a database, in any order and as often as they are  *)
(* run, no private words are lost, no message is put into another's mouth, no  *)
(* public row goes undecided, nothing of a removed row can still be found, and *)
(* what the sanitation publishes is clean.                                     *)
THEOREM CleanupStaysSafe ==
    ASSUME CleanupAssumption
    PROVE  Spec => []CleanupIsSafe
<1>1. Init => CleanInv
  BY InitIsClean
<1>2. CleanInv /\ [Next]_cleanupVars => CleanInv'
  BY CleanStepKeepsSafe
<1>3. CleanInv => CleanupIsSafe
  BY DEF CleanInv
<1> QED BY <1>1, <1>2, <1>3, PTL DEF Spec

(* Migration 007 need not be run twice: what it leaves, it finds clean. *)
THEOREM OneRunIsEnough == Spec => [][OneRunCleans]_cleanupVars
<1>1. Migrate => Clean(db')
  BY MigratedIsClean DEF Migrate
<1>2. [Next]_cleanupVars => [OneRunCleans]_cleanupVars
  BY <1>1 DEF OneRunCleans
<1> QED BY <1>2, PTL DEF Spec
-----------------------------------------------------------------------------
(* The run, whose machines have nothing to do with one another. *)
(* A run of migration 007 or of the adjudication claims no more than is so. *)
THEOREM RunStaysSafe == UpkeepSpec => []RunIsSafe
<1>1. machine = "migration" /\ UpkeepInit => M!Init
  BY DEF UpkeepInit
<1>2. machine = "migration" /\ [UpkeepNext]_upkeepVars => (machine = "migration")' /\ [M!Next]_(M!vars)
  BY DEF UpkeepNext, upkeepVars, ofTools, ofStores, ofCleanup, ofMigration, ofVacuum, ofBoth, ofGraph, ofBackups, ofCredentials, M!vars, M!onDisk, M!counters
<1>3. ~(machine = "migration") /\ [UpkeepNext]_upkeepVars => (~(machine = "migration"))'
  BY DEF UpkeepNext, upkeepVars
<1>4. M!Spec => []M!MigrationIsSafe
  BY MigrationStaysSafe, MigrationBounds
<1> QED BY <1>1, <1>2, <1>3, <1>4, PTL DEF UpkeepSpec, RunIsSafe, M!Spec

(* What the sanitation publishes is whole and clean, or taken back. *)
THEOREM CopyStaysSafe == UpkeepSpec => []CopyIsSafe
<1>1. machine = "vacuum" /\ UpkeepInit => V!Init
  BY DEF UpkeepInit
<1>2. machine = "vacuum" /\ [UpkeepNext]_upkeepVars => (machine = "vacuum")' /\ [V!Next]_(V!vars)
  BY DEF UpkeepNext, upkeepVars, ofTools, ofStores, ofCleanup, ofMigration, ofVacuum, ofBoth, ofGraph, ofBackups, ofCredentials, V!vars, V!counters
<1>3. ~(machine = "vacuum") /\ [UpkeepNext]_upkeepVars => (~(machine = "vacuum"))'
  BY DEF UpkeepNext, upkeepVars
<1>4. V!Spec => []V!VacuumIsSafe
  BY VacuumStaysSafe, VacuumBounds
<1> QED BY <1>1, <1>2, <1>3, <1>4, PTL DEF UpkeepSpec, CopyIsSafe, V!Spec

(* Keys lead to rows, no row is lost, and every row has a vector or waits for one. *)
THEOREM GraphStaysSound == UpkeepSpec => []GraphIsSound
<1>1. machine = "graph" /\ UpkeepInit => G!GraphInit
  BY DEF UpkeepInit
<1>2. machine = "graph" /\ [UpkeepNext]_upkeepVars => (machine = "graph")' /\ [G!GraphNext]_(G!graphVars)
  BY DEF UpkeepNext, upkeepVars, ofTools, ofStores, ofCleanup, ofMigration, ofVacuum, ofBoth, ofGraph, ofBackups, ofCredentials, G!graphVars
<1>3. ~(machine = "graph") /\ [UpkeepNext]_upkeepVars => (~(machine = "graph"))'
  BY DEF UpkeepNext, upkeepVars
<1>4. G!GraphSpec => []G!GraphIsSound
  BY G!GraphStaysSound
<1> QED BY <1>1, <1>2, <1>3, <1>4, PTL DEF UpkeepSpec, GraphIsSound, G!GraphSpec

(* No failure, wherever it falls, loses a snapshot that a caller was told of,   *)
(* and that shares its name with no other.                                      *)
THEOREM SnapshotsStaySafe == UpkeepSpec => []BackupsAreSafe
<1>1. machine = "backups" /\ UpkeepInit => B!BackupsInit
  BY DEF UpkeepInit
<1>2. machine = "backups" /\ [UpkeepNext]_upkeepVars => (machine = "backups")' /\ [B!BackupsNext]_(B!backupVars)
  BY DEF UpkeepNext, upkeepVars, ofTools, ofStores, ofCleanup, ofMigration, ofVacuum, ofBoth, ofGraph, ofBackups, ofCredentials, B!backupVars
<1>3. ~(machine = "backups") /\ [UpkeepNext]_upkeepVars => (~(machine = "backups"))'
  BY DEF UpkeepNext, upkeepVars
<1>4. B!BackupsSpec => []B!BackupsAreSafe
  BY B!BackupsStaySafe, SnapshotPlaces
<1> QED BY <1>1, <1>2, <1>3, <1>4, PTL DEF UpkeepSpec, BackupsAreSafe, B!BackupsSpec

(* Calls of agents are proven, and secrets and replacements stay in their lane. *)
THEOREM CredentialsStaySafe == UpkeepSpec => []CredentialsAreSafe
<1>1. machine = "credentials" /\ UpkeepInit => C!CredentialsInit
  BY DEF UpkeepInit
<1>2. machine = "credentials" /\ [UpkeepNext]_upkeepVars => (machine = "credentials")' /\ [C!CredentialsNext]_(C!credentialVars)
  BY DEF UpkeepNext, upkeepVars, ofTools, ofStores, ofCleanup, ofMigration, ofVacuum, ofBoth, ofGraph, ofBackups, ofCredentials, C!credentialVars
<1>3. ~(machine = "credentials") /\ [UpkeepNext]_upkeepVars => (~(machine = "credentials"))'
  BY DEF UpkeepNext, upkeepVars
<1>4. C!CredentialsSpec => []C!CredentialsAreSafe
  BY C!CallsAreProven, CredentialBounds
<1> QED BY <1>1, <1>2, <1>3, <1>4, PTL DEF UpkeepSpec, CredentialsAreSafe, C!CredentialsSpec

(* What the rows may become on the way through the tools. *)
THEOREM RowsStaySafe == UpkeepSpec => []RowsAreSafe
<1>1. machine = "cleanup" /\ UpkeepInit => Init
  BY DEF UpkeepInit
<1>2. machine = "cleanup" /\ [UpkeepNext]_upkeepVars
         => (machine = "cleanup")' /\ [Next]_cleanupVars
  BY DEF UpkeepNext, upkeepVars, ofTools, ofStores, ofCleanup, ofMigration, ofVacuum, ofBoth, ofGraph,
         ofBackups, ofCredentials, cleanupVars
<1>3. ~(machine = "cleanup") /\ [UpkeepNext]_upkeepVars => (~(machine = "cleanup"))'
  BY DEF UpkeepNext, upkeepVars
<1>4. Spec => []CleanupIsSafe
  BY CleanupStaysSafe, CleanupRows
<1> QED BY <1>1, <1>2, <1>3, <1>4, PTL DEF UpkeepSpec, RowsAreSafe, Spec

LEMMA CleanupSteps == UpkeepSpec => [][machine = "cleanup" => OneRunCleans]_upkeepVars
<1>1. OneRunCleans
  BY MigratedIsClean DEF OneRunCleans, Migrate
<1> QED BY <1>1, PTL

LEMMA MigrationSteps == UpkeepSpec => [][machine = "migration" => M!CommitStep]_upkeepVars
<1>1. machine = "migration" /\ UpkeepInit => M!Init
  BY DEF UpkeepInit
<1>2. machine = "migration" /\ [UpkeepNext]_upkeepVars
         => (machine = "migration")' /\ [M!Next]_(M!vars)
  BY DEF UpkeepNext, upkeepVars, ofTools, ofStores, ofCleanup, ofMigration, ofVacuum, ofBoth, ofGraph,
         ofBackups, ofCredentials, M!vars, M!onDisk, M!counters
<1>3. ~(machine = "migration") /\ [UpkeepNext]_upkeepVars => (~(machine = "migration"))'
  BY DEF UpkeepNext, upkeepVars
<1>4. M!Spec => [][M!CommitStep]_(M!vars)
  BY CommitsAreBackedUp, MigrationBounds
<1>5. UNCHANGED M!vars => M!CommitStep
  BY DEF M!CommitStep, M!vars
<1> QED BY <1>1, <1>2, <1>3, <1>4, <1>5, PTL DEF UpkeepSpec, M!Spec

LEMMA VacuumSteps == UpkeepSpec => [][machine = "vacuum" => V!TheirFilesStay]_upkeepVars
<1>1. machine = "vacuum" /\ UpkeepInit => V!Init
  BY DEF UpkeepInit
<1>2. machine = "vacuum" /\ [UpkeepNext]_upkeepVars
         => (machine = "vacuum")' /\ [V!Next]_(V!vars)
  BY DEF UpkeepNext, upkeepVars, ofTools, ofStores, ofCleanup, ofMigration, ofVacuum, ofBoth, ofGraph,
         ofBackups, ofCredentials, V!vars, V!counters
<1>3. ~(machine = "vacuum") /\ [UpkeepNext]_upkeepVars => (~(machine = "vacuum"))'
  BY DEF UpkeepNext, upkeepVars
<1>4. V!Spec => [][V!TheirFilesStay]_(V!vars)
  BY TheirFilesKeepTheirNames, VacuumBounds
<1>5. UNCHANGED V!vars => V!TheirFilesStay
  BY DEF V!TheirFilesStay, V!vars
<1> QED BY <1>1, <1>2, <1>3, <1>4, <1>5, PTL DEF UpkeepSpec, V!Spec

LEMMA GraphSteps == UpkeepSpec => [][machine = "graph" => G!GraphStep]_upkeepVars
<1>1. machine = "graph" /\ UpkeepInit => G!GraphInit
  BY DEF UpkeepInit
<1>2. machine = "graph" /\ [UpkeepNext]_upkeepVars
         => (machine = "graph")' /\ [G!GraphNext]_(G!graphVars)
  BY DEF UpkeepNext, upkeepVars, ofTools, ofStores, ofCleanup, ofMigration, ofVacuum, ofBoth, ofGraph,
         ofBackups, ofCredentials, G!graphVars
<1>3. ~(machine = "graph") /\ [UpkeepNext]_upkeepVars => (~(machine = "graph"))'
  BY DEF UpkeepNext, upkeepVars
<1>4. G!GraphSpec => [][G!GraphStep]_(G!graphVars)
  BY G!GraphStepsAreSound
<1>5. UNCHANGED G!graphVars => G!GraphStep
  BY DEF G!GraphStep, G!graphVars
<1> QED BY <1>1, <1>2, <1>3, <1>4, <1>5, PTL DEF UpkeepSpec, G!GraphSpec

LEMMA CredentialSteps == UpkeepSpec => [][machine = "credentials" => C!CredentialStep]_upkeepVars
<1>1. machine = "credentials" /\ UpkeepInit => C!CredentialsInit
  BY DEF UpkeepInit
<1>2. machine = "credentials" /\ [UpkeepNext]_upkeepVars
         => (machine = "credentials")' /\ [C!CredentialsNext]_(C!credentialVars)
  BY DEF UpkeepNext, upkeepVars, ofTools, ofStores, ofCleanup, ofMigration, ofVacuum, ofBoth, ofGraph,
         ofBackups, ofCredentials, C!credentialVars
<1>3. ~(machine = "credentials") /\ [UpkeepNext]_upkeepVars => (~(machine = "credentials"))'
  BY DEF UpkeepNext, upkeepVars
<1>4. C!CredentialsSpec => [][C!CredentialStep]_(C!credentialVars)
  BY C!EnforcementFollowsAProof, CredentialBounds
<1>5. UNCHANGED C!credentialVars => C!CredentialStep
  BY DEF C!CredentialStep, C!credentialVars
<1> QED BY <1>1, <1>2, <1>3, <1>4, <1>5, PTL DEF UpkeepSpec, C!CredentialsSpec

(* No step ends a migration 007 that the next run of it would not find clean,  *)
(* commits what the published backup lacks, takes a name from a file of        *)
(* others, loses a row of the graph, or enforces a lane without a proof.       *)
THEOREM StepsStaySafe == UpkeepSpec => StepsAreSafe
BY CleanupSteps, MigrationSteps, VacuumSteps, GraphSteps, CredentialSteps, PTL
   DEF StepsAreSafe, StepIsSafe
===============================================================================
