------------------------------- MODULE Vacuum -------------------------------
(***************************************************************************)
(* Sanitation of a clean database: a run plans on the stopped source,      *)
(* VACUUMs it into a staged file, verifies that, publishes it by a hard    *)
(* link that never replaces a file, and verifies it again before it says   *)
(* so.  A path names the source "db", the staged file "copy", the report   *)
(* "note", or a file "theirs" of somebody else.  The report is truncated   *)
(* and written in place, and its directory synced; each of these may fail, *)
(* and the process may die between them.                                   *)
(***************************************************************************)
EXTENDS Integers

CONSTANTS MaxWrites, MaxMeddling, MaxFaults

VARIABLES
    pc,
    source,     \* content of the source: [version, clean]
    at,         \* inode at each path
    copy,       \* content of the staged file
    note,       \* status in the report file
    planned,    \* the source that was planned on
    staged,     \* content of the staged file when it was verified
    promoted,   \* promotedByThisRun
    result,
    writes, meddling, faults

vars == <<pc, source, at, copy, note, planned, staged, promoted, result,
          writes, meddling, faults>>
counters == <<writes, meddling, faults>>

Paths == {"source", "temporary", "output", "report"}
Nobody == "nobody"
(* clean: no residue and no row in a custody table *)
Databases == [version : 0..MaxWrites, clean : BOOLEAN]
NoDatabase == [version |-> -1, clean |-> FALSE]
Spoilt == [version |-> -2, clean |-> FALSE]
Contents == Databases \union {NoDatabase, Spoilt}
Statuses == {"none", "refused", "pending", "verified", "verification-failed"}
(* where the report is about to be written *)
WriteSteps == {"refuse", "pending", "reject", "report", "giveup"}

(* The bounds are numbers. *)
VacuumAssumption == {MaxWrites, MaxMeddling, MaxFaults} \subseteq Nat

TypeOK ==
    /\ pc \in WriteSteps \union {"plan", "reserve", "vacuum", "inspect", "promote",
                                 "reopen", "recheck", "fail", "ended", "dead"}
    /\ source \in Databases /\ promoted \in BOOLEAN
    /\ at \in [Paths -> {Nobody, "db", "copy", "note", "theirs"}]
    /\ {copy, planned, staged} \subseteq Contents
    /\ note \in Statuses \union {"torn"} /\ result \in Statuses \union {"thrown"}
    /\ writes \in 0..MaxWrites /\ meddling \in 0..MaxMeddling /\ faults \in 0..MaxFaults

Init ==
    /\ pc = "plan"
    /\ source \in [version : {0}, clean : BOOLEAN]
    /\ at = [p \in Paths |-> CASE p = "source" -> "db" [] p = "report" -> "note"
                               [] OTHER -> Nobody]
    /\ copy = NoDatabase /\ planned = NoDatabase /\ staged = NoDatabase
    /\ note = "none" /\ promoted = FALSE /\ result = "none"
    /\ writes = 0 /\ meddling = 0 /\ faults = 0

Go(step) == pc' = step
Return(status) == result' = status /\ Go("ended")
OwnsReport == at["report"] = "note"
(* the staged name still leads to the file this run made *)
IsStaged == at["temporary"] = "copy"
(* cleanupTemporary *)
WithoutTemporary == [at EXCEPT !["temporary"] = IF @ = "copy" THEN Nobody ELSE @]
(* the staged file says what the planned source said *)
IsEqual == copy = planned

(* what the report says where it is written; a report of an output that did not *)
(* match cannot get there: promoted is TRUE                                     *)
Saying ==
    CASE pc = "refuse" -> "refused"
      [] pc = "pending" -> "pending"
      [] pc = "report" /\ promoted -> "verified"
      [] OTHER -> "verification-failed"

(* where the exception of a write leads: out of the run, to the catch, nowhere *)
Thrown ==
    CASE pc \in {"refuse", "pending"} -> Return("thrown")
      [] pc \in {"reject", "report"} -> result' = result /\ Go("fail")
      [] OTHER -> Return("verification-failed")

(* write, or the exception it throws before it touches the file *)
WriteReport ==
    /\ pc \in WriteSteps
    /\ IF OwnsReport
       THEN /\ note' = Saying
            /\ IF pc = "pending" THEN result' = result /\ Go("reserve") ELSE Return(Saying)
       ELSE note' = note /\ Thrown
    /\ UNCHANGED <<source, at, copy, planned, staged, promoted, counters>>

(* the file as a write leaves it that does not come to its end *)
CutShort == note' \in {note, "torn", Saying}

(* a call of the write fails: the truncation, the writing, a sync or the look after *)
WriteBreaks ==
    /\ pc \in WriteSteps /\ OwnsReport /\ faults < MaxFaults
    /\ faults' = faults + 1
    /\ CutShort /\ Thrown
    /\ UNCHANGED <<source, at, copy, planned, staged, promoted, writes, meddling>>

(* planVacuumSanitation; the report of a refusal is the only thing it writes *)
Plan ==
    /\ pc = "plan"
    /\ planned' = source
    /\ Go(IF source.clean THEN "pending" ELSE "refuse")
    /\ UNCHANGED <<source, at, copy, note, staged, promoted, result, counters>>

(* The path must still name the planned file, of its size and time; a write that *)
(* is only in the log does not show there.                                       *)
Reserve ==
    /\ pc = "reserve"
    /\ \/ /\ at["source"] = "db"
          /\ at' = [at EXCEPT !["temporary"] = "copy"]
          /\ Go("vacuum")
       \/ /\ at["source"] # "db" \/ source # planned
          /\ at' = at
          /\ Go("fail")
    /\ UNCHANGED <<source, copy, note, planned, staged, promoted, result, counters>>

(* VACUUM INTO reads one snapshot of whatever the source path names *)
VacuumInto ==
    /\ pc = "vacuum"
    /\ IF IsStaged
       THEN /\ copy' = IF at["source"] = "db" THEN source ELSE Spoilt
            /\ Go("inspect")
       ELSE copy' = copy /\ Go("fail")
    /\ UNCHANGED <<source, at, note, planned, staged, promoted, result, counters>>

(* a mutant of Inspect: the staged file need only be clean *)
InspectsCopyOnly ==
    /\ pc = "inspect"
    /\ IF IsStaged /\ copy.clean
       THEN staged' = copy /\ Go("promote")
       ELSE staged' = staged /\ Go("fail")
    /\ UNCHANGED <<source, at, copy, note, planned, promoted, result, counters>>

(* the source is unchanged and the staged file is its clean equal, or it goes *)
Inspect ==
    /\ pc = "inspect"
    /\ \/ /\ at["source"] = "db" /\ source = planned
          /\ IsStaged /\ IsEqual /\ copy.clean
          /\ staged' = copy /\ at' = at /\ Go("promote")
       \/ /\ IsStaged /\ ~(at["source"] = "db" /\ source = planned /\ IsEqual /\ copy.clean)
          /\ staged' = staged /\ at' = WithoutTemporary /\ Go("reject")
       \/ /\ ~IsStaged
          /\ staged' = staged /\ at' = at /\ Go("fail")
    /\ UNCHANGED <<source, copy, note, planned, promoted, result, counters>>

(* publishNoClobber, after one more look at the report, the name and the hash *)
Promote ==
    /\ pc = "promote"
    /\ IF /\ OwnsReport /\ IsStaged /\ copy = staged
          /\ at["output"] = Nobody
       THEN /\ at' = [at EXCEPT !["output"] = "copy", !["temporary"] = Nobody]
            /\ promoted' = TRUE
            /\ Go("reopen")
       ELSE UNCHANGED <<at, promoted>> /\ Go("fail")
    /\ UNCHANGED <<source, copy, note, planned, staged, result, counters>>

(* A call after the link fails.  The link is taken back while the staged name is *)
(* there; once that is removed, a failed sync of the directory leaves the output. *)
PromoteBreaks ==
    /\ pc = "promote" /\ faults < MaxFaults
    /\ OwnsReport /\ IsStaged /\ copy = staged /\ at["output"] = Nobody
    /\ faults' = faults + 1
    /\ \/ at' = at
       \/ at' = [at EXCEPT !["output"] = "copy", !["temporary"] = Nobody]
    /\ Go("fail")
    /\ UNCHANGED <<source, copy, note, planned, staged, promoted, result, writes, meddling>>

(* verifiedOutputMatches, and unlinkIfOwnedDatabaseOutput *)
OutputMatches == at["output"] = "copy" /\ copy = staged
WithoutOutput == [at EXCEPT !["output"] = IF OutputMatches THEN Nobody ELSE @]

Reopen ==
    /\ pc = "reopen"
    /\ promoted' = OutputMatches
    /\ Go("recheck")
    /\ UNCHANGED <<source, at, copy, note, planned, staged, result, counters>>

Recheck ==
    /\ pc = "recheck"
    /\ Go(IF OutputMatches THEN "report" ELSE "fail")
    /\ UNCHANGED <<source, at, copy, note, planned, staged, promoted, result, counters>>

(* The catch: the staged name and the output go while they are the tool's own; *)
(* only then is a report rewritten that may say "verified".                    *)
Fail ==
    /\ pc = "fail"
    /\ at' = [(IF promoted THEN WithoutOutput ELSE at)
                EXCEPT !["temporary"] = IF @ = "copy" THEN Nobody ELSE @]
    /\ Go("giveup")
    /\ UNCHANGED <<source, copy, note, planned, staged, promoted, result, counters>>

Fault ==
    /\ faults < MaxFaults
    /\ pc \in {"reserve", "vacuum", "inspect", "promote", "reopen", "recheck"}
    /\ faults' = faults + 1
    /\ Go("fail")
    /\ UNCHANGED <<source, at, copy, note, planned, staged, promoted, result, writes, meddling>>

(* The process dies, perhaps inside a write of the report, between the two *)
(* names of a publication, or between the two unlinks of the catch.        *)
Crash ==
    /\ pc \notin {"ended", "dead"}
    /\ Go("dead")
    /\ IF pc \in WriteSteps /\ OwnsReport THEN CutShort ELSE note' = note
    /\ \/ at' = at
       \/ pc = "promote" /\ IsStaged /\ copy = staged /\ at["output"] = Nobody
          /\ at' = [at EXCEPT !["output"] = "copy"]
       \/ pc = "fail" /\ at' = WithoutTemporary
    /\ UNCHANGED <<source, copy, planned, staged, promoted, result, counters>>

(* somebody who did not stop, and may bring residue back *)
Others ==
    /\ writes < MaxWrites
    /\ writes' = writes + 1
    /\ \E c \in BOOLEAN : source' = [version |-> source.version + 1, clean |-> c]
    /\ UNCHANGED <<pc, at, copy, note, planned, staged, promoted, result, meddling, faults>>

Meddle ==
    /\ meddling < MaxMeddling
    /\ meddling' = meddling + 1
    /\ \/ /\ \E p \in Paths, i \in {Nobody, "theirs"} :
                /\ p = "temporary" => at[p] # Nobody
                /\ at' = [at EXCEPT ![p] = i]
          /\ copy' = copy
       \/ /\ \E p \in Paths : at[p] = "copy"
          /\ copy' = Spoilt
          /\ at' = at
    /\ UNCHANGED <<pc, source, note, planned, staged, promoted, result, writes, faults>>

Next ==
    \/ Plan \/ Reserve \/ VacuumInto \/ Inspect \/ Promote \/ PromoteBreaks \/ Reopen
    \/ Recheck \/ WriteReport \/ WriteBreaks \/ Fail \/ Fault \/ Crash \/ Others \/ Meddle

Spec == Init /\ [][Next]_vars

----------------------------------------------------------------------------
(* Whatever the run's end, a crash included: a file of the tool's under the output's  *)
(* name is a whole, clean copy of the planned source.  A run that returns "verified"  *)
(* leaves it there, and a report that says so.  A report can say so of an output that *)
(* is gone only when its own write failed after its last byte: the catch takes the    *)
(* output back first and rewrites the report second.                                  *)
OutputIsWhole ==
    meddling = 0 =>
        /\ at["output"] = "copy" => IsEqual /\ copy.clean
        /\ result = "verified" => at["output"] = "copy" /\ note = "verified"
        /\ note = "verified" => at["output"] = "copy" \/ faults > 0

(* A run that failed takes back its files, an output it had already published *)
(* included, as long as they are its own.  What it leaves is the output of a   *)
(* publication that broke off after the staged name was gone.  Its report says *)
(* so, unless it is no longer its own or a call failed.                        *)
FailureTakesBack ==
    result = "verification-failed" =>
        /\ ~IsStaged
        /\ at["output"] = "copy" => copy # staged \/ (faults > 0 /\ ~promoted)
        /\ faults = 0 /\ OwnsReport => note = "verification-failed"

VacuumIsSafe == TypeOK /\ OutputIsWhole /\ FailureTakesBack

(* A file of somebody else keeps its name, whatever the run does. *)
TheirFilesStay ==
    meddling' = meddling => \A p \in Paths : at[p] = "theirs" => at'[p] = "theirs"
=============================================================================
