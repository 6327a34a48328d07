------------------------------ MODULE MCUpkeep ------------------------------
(* The offline tools and the stores they keep, in one run of TLC.  They are *)
(* machines of their own: the initial state chooses which of them moves,    *)
(* and the variables of the others stay at a fixed value.                   *)
EXTENDS MCCleanup

CONSTANTS
    Machines,                                       \* those that may be chosen
    Tools, MaxWrites, MaxMeddling,                  \* Migration, Vacuum
    MaxFaults,                                      \* of several of them
    Names, MaxText, MaxMemories, MaxTrash, MaxJobs, MaxSlips,       \* Graph
    Scanned, Folders, MaxSnapshots, MaxCuts, MaxMoves,              \* Backups
    Lanes, Starts, Claims, Bases, Grants, Modes,                    \* Credentials
    MaxIds, MaxNow, MaxAge

VARIABLES
    machine,                                        \* the one that moves
    tool, locked, known, seen, hash, report,        \* Migration, with db
    source, planned, staged, promoted,              \* Vacuum
    pc, at, copy, note, result, writes, meddling, faults,   \* both
    rows, learnt, lookup, vecs, tombs, trash, backup, jobs, binned, gone, bare, \* Graph
    named, lists, creating, answered, deleted, cuts, torn, moves,   \* Backups
    now, mode, principals, creds, attested, req, canaries,          \* Credentials
    last, slips, files, op                          \* two of the last three

M == INSTANCE Migration
V == INSTANCE Vacuum
G == INSTANCE Graph_proof WITH MaxRows <- MaxMemories
B == INSTANCE Backups_proof
C == INSTANCE Credentials_proof

(* the assumptions of the proofs *)
ASSUME CleanupRows == CleanupAssumption
ASSUME MigrationBounds == M!MigrationAssumption
ASSUME VacuumBounds == V!VacuumAssumption
ASSUME SnapshotPlaces == B!BackupsAssumption
ASSUME CredentialBounds == C!CredentialsAssumption

ofCleanup == <<held, was, copies>>
ofMigration == <<tool, locked, known, seen, hash, report>>
ofVacuum == <<source, planned, staged, promoted>>
ofBoth == <<pc, at, copy, note, result, writes, meddling, faults>>
ofTools == <<db, ofCleanup, ofMigration, ofVacuum, ofBoth>>
ofGraph == <<rows, learnt, lookup, vecs, tombs, trash, backup, jobs, binned, gone, bare>>
ofBackups == <<named, lists, creating, answered, deleted, cuts, torn, moves>>
ofCredentials == <<now, mode, principals, creds, attested, req, canaries>>
ofStores == <<ofGraph, ofBackups, ofCredentials, last, slips, files, op>>
upkeepVars == <<machine, ofTools, ofStores>>

NoCleanup == held = 0 /\ was = 0 /\ copies = 0
NoMigration == tool = 0 /\ locked = 0 /\ known = 0 /\ seen = 0 /\ hash = 0 /\ report = 0
NoVacuum == source = 0 /\ planned = 0 /\ staged = 0 /\ promoted = 0
Neither ==
    /\ pc = 0 /\ at = 0 /\ copy = 0 /\ note = 0
    /\ result = 0 /\ writes = 0 /\ meddling = 0 /\ faults = 0
NoTool == db = 0 /\ NoCleanup /\ NoMigration /\ NoVacuum /\ Neither
NoGraph ==
    /\ rows = 0 /\ learnt = 0 /\ lookup = 0 /\ vecs = 0 /\ tombs = 0 /\ trash = 0
    /\ backup = 0 /\ jobs = 0 /\ binned = 0 /\ gone = 0 /\ bare = 0
NoBackups ==
    /\ named = 0 /\ lists = 0 /\ creating = 0 /\ answered = 0 /\ deleted = 0
    /\ cuts = 0 /\ torn = 0 /\ moves = 0
NoCredentials ==
    /\ now = 0 /\ mode = 0 /\ principals = 0 /\ creds = 0
    /\ attested = 0 /\ req = 0 /\ canaries = 0
NoStore ==
    /\ NoGraph /\ NoBackups /\ NoCredentials
    /\ last = 0 /\ slips = 0 /\ files = 0 /\ op = 0

UpkeepInit ==
    /\ machine \in Machines
    /\ \/ /\ machine = "cleanup" /\ Init
          /\ NoMigration /\ NoVacuum /\ Neither /\ NoStore
       \/ machine = "migration" /\ M!Init /\ NoCleanup /\ NoVacuum /\ NoStore
       \/ machine = "vacuum" /\ V!Init /\ db = 0 /\ NoCleanup /\ NoMigration /\ NoStore
       \/ /\ machine = "graph" /\ G!GraphInit /\ NoTool
          /\ NoBackups /\ NoCredentials /\ files = 0 /\ op = 0
       \/ /\ machine = "backups" /\ B!BackupsInit /\ NoTool
          /\ NoGraph /\ NoCredentials /\ slips = 0
       \/ /\ machine = "credentials" /\ C!CredentialsInit /\ NoTool
          /\ NoGraph /\ NoBackups /\ last = 0

UpkeepNext ==
    /\ UNCHANGED machine
    /\ \/ /\ machine = "cleanup" /\ Next
          /\ UNCHANGED <<ofMigration, ofVacuum, ofBoth, ofStores>>
       \/ /\ machine = "migration" /\ M!Next
          /\ UNCHANGED <<ofCleanup, ofVacuum, ofStores>>
       \/ /\ machine = "vacuum" /\ V!Next
          /\ UNCHANGED <<db, ofCleanup, ofMigration, ofStores>>
       \/ /\ machine = "graph" /\ G!GraphNext
          /\ UNCHANGED <<ofTools, ofBackups, ofCredentials, files, op>>
       \/ /\ machine = "backups" /\ B!BackupsNext
          /\ UNCHANGED <<ofTools, ofGraph, ofCredentials, slips>>
       \/ /\ machine = "credentials" /\ C!CredentialsNext
          /\ UNCHANGED <<ofTools, ofGraph, ofBackups, last>>

UpkeepSpec == UpkeepInit /\ [][UpkeepNext]_upkeepVars

----------------------------------------------------------------------------
(* Backups: a folder of the one location is the other one. *)
MCScanned == <<"root", "folder", "folder">>

NameSymmetry == Permutations(Names)                                 \* Graph

(* Credentials: one agent in two tenants, one of which has a trusted key and *)
(* one that lacks the scope.                                                 *)
Ann(tenant) == [tenant |-> tenant, agent |-> "ann"]
MCLanes == {Ann(1), Ann(2)}
MCStarts == {[l \in MCLanes |-> "absent"]}
MCBases == {[tenant |-> 1, trusted |-> TRUE, scopes |-> {}],
            [tenant |-> 1, trusted |-> FALSE, scopes |-> {"other"}]}
MCGrants == {[from |-> 0, until |-> 1, scopes |-> {s}] : s \in {"exact", "other"}}

----------------------------------------------------------------------------
(* What the rows may become on the way through the tools. *)
RowsAreSafe == machine = "cleanup" => CleanupIsSafe

(* What a run of migration 007 or of the adjudication says is so, whatever failed. *)
RunIsSafe == machine = "migration" => M!MigrationIsSafe

(* What the sanitation publishes is whole and clean, or taken back. *)
CopyIsSafe == machine = "vacuum" => V!VacuumIsSafe

(* The graph's rows, their index, their vectors, the trash and the backup say  *)
(* the same (memory/index.ts).                                                 *)
GraphIsSound == machine = "graph" => G!GraphIsSound

(* A snapshot that was announced is whole, and is where its manifest says.     *)
BackupsAreSafe == machine = "backups" => B!BackupsAreSafe

(* Calls of agents are proven, and secrets and replacements stay in their      *)
(* lane, whatever fails or is revoked meanwhile (agent-auth).                  *)
CredentialsAreSafe == machine = "credentials" => C!CredentialsAreSafe

(* What no single step may do: end a migration 007 that the next run of it     *)
(* would not find clean, commit what the published backup lacks, lose a row on *)
(* its way to the trash, enforce a lane without a proof.                       *)
StepIsSafe ==
    /\ machine = "cleanup" => OneRunCleans
    /\ machine = "migration" => M!CommitStep
    /\ machine = "vacuum" => V!TheirFilesStay
    /\ machine = "graph" => G!GraphStep
    /\ machine = "credentials" => C!CredentialStep
StepsAreSafe == [][StepIsSafe]_upkeepVars

(* The compaction of orphaned vectors spares the memories there are            *)
(* (memory/index.ts).                                                          *)
OnlyOrphansGo == [][machine = "graph" => G!OnlyOrphansGo]_upkeepVars
=============================================================================
