# Verification of hythe

TLA+ modules, TLC runs and TLAPS proofs for hythe (the repository in `../src`),
a server that keeps the shared memory, the messages and the resumable working
state of a set of agents in one SQLite database per process.

The first component taken up is the one whose mistakes are the most expensive
and the hardest to test: the ENG-4 *control plane*, where agents checkpoint
working states on a branching history, an idempotent retry may arrive at any
time, and a reconcile folds the branches again. The second is the *mailbox*: the
messages agents send each other, pushed to sockets, paged, acknowledged,
superseded and archived. Around these two stand the *stores and their offline tools*
(the memory graph with its vectors, snapshots, credentials, the clean-up
migration) and the *services* (hub, server life cycle, resume pages,
registrations, request middleware).

Paths below are relative to `src/src/` unless they begin with `docs/`.

## 1. Inventory

| component | state | operations | what is hard | what makes it correct | module |
|---|---|---|---|---|---|
| checkpoint writer (`unified-server/eng4/checkpoint.ts`) | snapshots, payloads, change ledger | write, record, patch, reconcile | requests formed from old views, retries after lost replies, a self-check before commit | one snapshot per key, retries replay, an admitted plan commits | Checkpoint |
| heads (`eng4/heads.ts`) | pointer row, retirement rows | advance, designate, effective head | stale parents, resurrected heads, an older binary that knows no pointer | the pointed head is live and only moves forward | Heads |
| reconciliation (`eng4/reconcile.ts`) | payload records, resolution rows | evaluate, record, verify | values that earlier reconciles retired, opaque values, fail-closed verifiers | nothing divergent is forgotten, evidence verifies for ever | Divergence |
| versions (`eng4/versions.ts`) | fact and loop versions, coverage, cutover | dual write, backfill, parity | snapshots an older binary wrote, inherited owners | parity holds on every history the writers produce | Versions |
| value selection (`eng4/selection.ts`) | none | accepted, divergent and legacy values | a value that no head holds any more | every stored value is shown | ReadModel |
| resume and resource reader (`eng4/resume.ts`, `resource.ts`) | none; cursors held by clients | bundle, page, fetch | budgets, offset cursors while others write | a page accounts for what it leaves out, a walk arrives | Resume |
| sessions (`eng4/session.ts`) | handoff acknowledgements | begin, end | acknowledgement and resume are two transactions | all acknowledgements of a call or none | Resume |
| canonical form, contracts, registration (`eng4/canonical.ts`, `contracts.ts`, `schemas.ts`, `register.ts`, `memo.ts`) | none | fingerprint, validate, dispatch | – | equal requests and only they share a fingerprint | – |
| messages (`unified-server/memory/index.ts`, tools in `unified-neural-mcp-server.ts`) | rows of `ai_messages` with four nullable times and `superseded_by`; a send's loop over its recipients | send, post, push, page, detail, mark, archive, compact | awaits between storing, pushing and recording; a crash between two UPDATEs; offset paging while mail arrives; corrections of corrections | read implies delivered implies offered; the first correction stands and none closes a cycle; a drain is complete and ends | Mailbox, Inbox |
| memory graph (`memory/index.ts`, `memory/sqlite-vec-client.ts`) | `shared_memory`, lookup keys, vectors, failed deletions, trash | create, observe, replace, delete, update, import, export, trash, restore, compact, rebuild | awaited embeddings between a row and what is derived from it | keys and vectors follow the rows, no row is lost | Graph |
| snapshots (`memory/index.ts`) | files and manifests in several directories | create, move, list, delete | a crash or a full disk between two file operations; names that collide, locations that overlap | an announced snapshot is whole and can be found, unless another has its name | Backups |
| MCP server (`unified-neural-mcp-server.ts`) | life-cycle state, listeners, database handles, calls | start, close, accept, answer, restore | close during start, a restore that swaps the file under calls, connections that outlive their calls and the listener | the manager's handle outlives every connection, a shutdown leaves nothing and ends once its clients let it | Server |
| registrations (same file) | registrations with expiry | register, unregister, collect, broadcast, list | recipients computed once while registrations change; three answers to who is there | a broadcast reaches whom it was for; the views agree | Registry |
| message hub (`message-hub/`) | sockets, registered clients, presence | register, broadcast, heartbeat, evict, stop | a broadcast that evicts, which broadcasts; sockets that are still closing | who is heard to be online is; nothing is told to a client out of use | Hub |
| agent credentials (`agent-auth/`) | principals, credentials, attestations, secret files | issue, promote, rotate, revoke, validate, bind | an operator process beside the server; a secret file before a commit | a call that acts was proved; enforcement follows a proof | Credentials |
| middleware and tenants (`middleware/security.ts`, `tenant/`) | limiters, their store, quotas, keys | authenticate, pace, limit, fall back, recover | events of the Redis client in any order, tenants changed under a request | the limiters count in a store that answers; one identity per request | Gate |
| migration 007 and adjudication (`migrations/007-*.mjs`, `private-message-residue-adjudication.mjs`) | mailbox, shared rows, index, vectors, quarantine; backup and report files | analyze, plan, execute, release | a database others write meanwhile; a failure between commit and report, or inside the writing of a report | no body is lost or given to another; what a report says is true | Residue, Adjudication, Cleanup, Migration |
| sanitation (`migrations/vacuum-sanitized-database.mjs`) | a staged copy, an output, a report | plan, VACUUM INTO, verify, publish | a publication before its last verification | what is published is whole and clean, or taken back | Vacuum |
| observability, notifications, stdio bridge, command line, scripts | counters, output | – | – | – | – |

Components interact through the one database (every `better-sqlite3` call is
synchronous, so a transaction is atomic also with respect to the event loop),
through awaited calls to the vector store and Redis, through callbacks of
sockets and timers, and, where another process is involved (operator tool,
migrations), through the files and locks of the database. `PROJECT.json` lists every
component with its status and every hazard with its line.

## 2. Modules

    Heads <- Versions <- Divergence <- Checkpoint <- ReadModel <- MCCheckpoint
                                                     ReadModel <- Checkpoint_proof
    (Checkpoint INSTANCEs HeadFrontier)

    Mailbox <- MCMailbox                 Mailbox <- Mailbox_proof
    (Mailbox INSTANCEs Inbox)

    Residue <- Adjudication <- Cleanup <- MCCleanup <- MCUpkeep <- Upkeep_proof
             Migration, Vacuum, Graph_proof, Backups_proof, Credentials_proof <--+

               Hub, Server, Registry, Gate, Resume_proof <-- MCServices <- Services_proof

An arrow to the left is EXTENDS; `Checkpoint` and `Mailbox` INSTANCE the abstract
specifications that they implement, `HeadFrontier` and `Inbox`, and the
two suites `MCUpkeep` and `MCServices` INSTANCE the modules under them, by way of
the module with its theorems where there is one (`X_proof` EXTENDS `X`). A suite
is several machines in one specification: the initial state chooses one of them
(`machine`), every step is a step of that one, and the variables of the others
keep a fixed value. The machines of a suite share variables only as names; a
suite checks what each module's own specification would check.

### The control plane

- **Heads** – snapshot forest, retirement rows, pointer of one (tenant, scope).
- **Versions** – facts and loops: changes, in-place rows, ledger tuples, backfill,
  version parity.
- **Divergence** – accepted lineage, divergent terminals, what a reconcile must
  answer, its payload record, and the verifiers.
- **Checkpoint** – the writer: the answer to any request, the actions of admitted
  ones, what clients may send, and all properties.
- **HeadFrontier** – the abstract promise of the head machinery: a set of open heads,
  of which at most one is current, that a write extends (`Extend`) or widens (`Branch`)
  and only a reconcile narrows (`Fold`); whether the deployed binary `designates`
  changes at any time (`Deploy`).
- **ReadModel** – what a resume of version 3 shows of facts and loops. A read is
  synchronous and writes nothing, so this is a set of operators over the state
  of `Checkpoint`.
- **MCCheckpoint** – adds TLC's symmetry set.
- **Checkpoint_proof** – theorems.

#### State

| variable | code |
|---|---|
| `snapshots[s]` | row of `eng4_state_snapshots` at revision `s`, with its payload (`request`, `record`, `state`), its ledger and version rows (`ledger`) and who wrote the version rows (`source`) |
| `retirements` | `eng4_head_retirements` |
| `pointer` | `eng4_scope_current`; `NoPointer` when there is no row |
| `rows` | `eng4_facts`, `eng4_open_loops` (last writer wins) |
| `binary`, `rollbacks` | which server is deployed, how often an older one was put back |

A revision identifies a snapshot because revisions are unique in a scope and
allocated as max + 1 in the inserting transaction, and because triggers of
migration 005 forbid updates and deletes. So the table is a sequence.

#### Actions

| action | code |
|---|---|
| `Writing` / `Write` | `performCheckpoint`, operations write, record, patch: lookup, admission, insert, changes, versions, pointer |
| `Reconciling` / `Reconcile` | operation reconcile, with retirement rows, pointer and the parity check before the commit (`NewestPassesParity'`) |
| `PreH1Writing` | the same writer in a binary older than the pointer (external; only its effect on the tables matters) |
| `Upgrade` | `applyEng4Schema`; its backfill transaction is applied where the older binary wrote, since nothing reads those rows before the upgrade and its result depends on lower revisions only |
| `Rollback` | the deployment puts an older binary back, the case `versions.ts:47` and `:374` provide for |

A checkpoint is *one* synchronous transaction, hence one action. What is not
atomic is everything before it: the client read a bundle some time ago, and
its request may be delayed, repeated, or never answered. So a write may name any
parent that ever existed, a plan may be formed from the frontier at any past
moment (`LiveHeadsAt`), and every request that was ever admitted may arrive
again (`SentAgain`). A refused request (conflict, mismatch, replay, error)
changes no table: it is a stuttering step, and its answer is the operator
`Answer`, whose order of tests is the code's.

#### Abstractions

- An item's value is one symbol, except a loop's owner: the owner is the one
  field a change may omit and then inherits, so it alone is kept apart.
- The two change lists of a request are one sequence; ordinals are compared only
  between changes of the same id, hence of one list.
- An idempotency key is chosen by the client. Up to renaming, a fresh one is the
  number of the snapshot it would name. A key reused for another request is
  answered `idempotency-mismatch`, which is a stutter.
- Result versions 1 and 2 differ in the reply only and are one version, "legacy".
- A request that names an unknown fact or loop is refused whole (`ValidChanges`).
- Payload bytes, hashes and tampering are left out: a payload is the request and
  record it was built from. The parity checks are kept, because legal
  histories could break them.
- Resolutions and rejected lineages are enumerated only for plans whose two
  compare-and-set values hold; with any other plan the answer is `conflict`
  before they are read.

### The mailbox

**Mailbox** – the messages of one tenant and the tools that touch them. **Inbox** – what
it promises of each message, without calls, sockets, pages and crashes: accepted
(`Accept`, with what it corrects), raised along a ladder from stored over offered and
delivered to read (`Raise`), put aside by its recipient (`PutAside`) or, once it
was read, by the server (`Sweep`). **MCMailbox** – TLC's symmetry set.
**Mailbox_proof** – theorems.

| variable | code |
|---|---|
| `stored`, `row` | rows of `ai_messages`: `from_agent`, `to_agent`, `created_at` |
| `delivered`, `read`, `archived` | rows where the column of that name is not null |
| `replacedBy` | `superseded_by`; its domain is where `superseded_at` is not null |
| `sends` | per sender the `send_ai_message` call in progress: recipients left, and whether it is about to store, to push or to record the push |
| `call` | a reading tool between its UPDATE of `delivered_at` and that of `read_at` |
| `session` | per agent its walk through the pages: offset, messages given, and (history) what was unread when it began |
| `listening` | agents the message hub counts a notified socket for (external) |
| `offered` | history: rows pushed to, selected for or named by their recipient |

| action | code |
|---|---|
| `BeginSend`, `StoreMessage`, `StoreFails`, `Push`, `MarkPushed` | the tool `send_ai_message`, one action between two awaits; a throw of `storeMessage` ends the loop over the recipients, a failed record of a push does not |
| `PostMessage` | `POST /ai-message`: the row, and no push |
| `GetPage`, `GetDetail`, then `FinishRead` | `getMessagesPage`, `getMessageById`: COUNT, SELECT and the first UPDATE, then the second and the answer |
| `StartWalk`, `WalkPage` | a client that follows `hasMore` and `nextOffset`: a *drain* marks what it gets as read, a *browse* does not |
| `MarkMessagesRead`, `ArchiveMessages`, `CompactMessages` | one statement or transaction each |
| `Tick`, `HubChanges`, `Crash` | environment |

A read runs to its answer without an await, so nothing but a crash falls
between its UPDATEs: all other actions wait for `call = NoCall`. A message's text,
type and priority are left out; nothing here depends on them but a filter that
works like `from`. Identifiers are random, so that a tie of `created_at` (which
has seconds) is broken arbitrarily: the model lets the store pick any unused one.
An agent is its exact identifier. Recipients of a send are any set of agents,
which covers the direct, the broadcast and the capability form.

### The stores and their tools

**Residue** is migration 007 as a function of the database: `Issues` is
`analyzePrivateMessageResidue`, `Migrated` is `applyAnalysis`. A database is five sets
(messages, shared rows, index rows, vectors, lookup keys). A name is a key and a
spelling, so that variants of a name (`lookup.js`) are told apart from equal ones;
a body is a symbol. **Adjudication** adds the findings, the dispositions the
tool supports for each, the proof it demands of a disposition (`IsExact`) and
what an accepted plan does (`Adjudicated`). **Cleanup** makes state of them: one
action per tool that got through (`Adjudicate`, `Migrate`, `Release`, `Sanitize`),
from any small database. `CleanupIsSafe` says of the whole way: no body leaves
unless a message of its tenant has it or the quarantine, no message is given a body
but its own sender's, no public row leaves without a decision, and nothing of a removed row stays findable.

**Migration** is one execute run of either tool, with the database a version: the
analysis, the pending report, the lock, backup and its publication, the work, the
commit, and the reports and checks after it, each an action, with failed system calls
(`Fault`), a crash, writes of other connections while the lock is not held (`Others`)
and files others remove, replace or overwrite (`Meddle`). A report is truncated,
written and synced in place: `WriteReport` is a write that comes to its end or is
refused before it begins, `WriteBreaks` one that fails on the way, also after the
commit, and `Crash` may fall inside it. What is then in the file is what was there,
nothing that can be read (`Torn`), or the new report (`CutShort`). Migration 007 remembers the hash and
the change time of its last whole write (`known`) and refuses to write again after one that broke; the
adjudication asks for the inode only. `MigrationIsSafe` relates
the report, the result and the database at every such point; `CommitStep` says that
what is committed is what was backed up. **Vacuum** is the same for the sanitation
and its publication by a hard link, with `Saying` for what the report would say.

**Graph** models the memories of one tenant.

| variable | code |
|---|---|
| `rows`, `learnt` | `shared_memory` (entities, relations, observations) and `individual_memory` |
| `lookup`, `vecs`, `tombs` | `graph_lookup_keys`, `neural_vec_index` with its vectors, `failed_weaviate_deletes` |
| `trash`, `backup` | `data_trash`; an export a client kept |
| `jobs` | calls that wait for an embedding, with what they do next |

A handler runs in one turn up to its first await of an embedding; each
embedding ends in an action of its own, in any order (`Done`, and the loop over
inline observations in `Materialize`, `Mark`). **Backups** models snapshot files and
manifests; a handler is a sequence of file operations (`op`), and `Crash`, a failed copy or
a manifest that is cut short may fall between any two. A snapshot is an id, under which its
entry is found, and a file name (`named`) that another snapshot may have as well: the name is made of a
millisecond and a label. `Scanned` is the sequence of the directories `listSnapshots` reads, in
which one may stand twice, as a location that is a folder of another location does. A
directory is a place: that two path names lead to one place is not modelled (section 8). **Credentials** models the
server's request (`Present`, `MarkUsed`, `Whoami`, `Bind`: one SQL statement each), the
operator's runs (secret file, then commit, `WriteSecret`, `CommitRun`, `FailRun`, each
preceded by the checks of its command) and the clock.

### The services

**Hub** – one action per socket or timer callback; a broadcast that finds inactive
clients disconnects them, and these disconnections broadcast again, inside the same
action (`Disconnect`, `Tell`). **Server** – `startServer` and `close` cut at their awaits
(`boot`, `stop`), the connections of clients and the calls on them, the scheduled compaction, and
the restore of a snapshot (`Restore`, `Swap`, `CopyFails`, `BackupFails`), which closes a
database handle and opens the next; `opened` is the set of open handles. A client connects, sends
(`Sending` while its call has not come whole), has its call taken or refused (`Accept`, `Refuse`), is
answered and kept alive (`idle`) until it sends again, leaves or expires. A listener that is
closed takes no connection in and drops the idle ones; it waits for the others, and as no
middleware asks whether the server is shutting down, they may bring calls in all the
same. `plain` is a request without an upgrade on the hub's port: nothing answers it, and the hub's
`stop` waits for it. **Resume** –
pages under a budget, their coverage and cursors, over sections that change
between two pages (`Arrive`, `Touch`, `Supersede`), with the acknowledgements of
`begin_session`. A section is the set of its items with the time each was last
written (`stamp`): its order is `Before`, an offset into it a `Rank`, and what a
page takes are the items up to which the total fits (`Admitted`). What an item
costs is a constant, additive over sets as the code's running total is.
**Registry** – registrations with expiry, both collectors, and a
broadcast that computes its recipients once and then stores one message per
turn; `Rollup`, `Roster` and `Reached` are the three answers to who is there. **Gate** – one
request through `security.ts`: the limiter before authentication, JWT, tenant key,
server key, quotas, the tenant's pace and the shared limiters, while Redis connects, is
lost, fails its health check and comes back, and the tenants are administered.
A JWT is the tenant it is issued for, the tenant it asks for and those it may.

## 3. Runs

All revisions, requests, faults and changes of an instance are bounded by
constants whose names begin with `Max`, and clients may stop at any time, so
deadlock is not an error except for the mailbox, in which nothing can deadlock.
Symmetry is taken over names the specification only compares for equality.

| run | instance | what it shows |
|---|---|---|
| Heads | no items, 1 agent, both versions, retirement acknowledged, 6 snapshots | pointer, frontier and keys; retries over histories of that length |
| Rollback | 2 fields, 2 contents, every operation, one rollback, 4 snapshots | the refinement of `HeadFrontier`; repair from every head, designation only by reconcile; merge patches against concurrent writes |
| Divergence | one fact, strict and lenient, 5 snapshots | a strict reconcile leaves nothing undecided, what was left unresolved stays owed, and a resume shows every stored value |
| Opaque | one loop older than the ledger, two agents, 3 snapshots | backfilled owners nobody can prove: the evidence verifies, an admitted reconcile commits, the views agree without branches |
| Mail | 1 sender, 1 reader, 2 messages, pages of one, every tool, a drain | the refinement of `Inbox`; a drain settles a full page whenever it goes on, misses nothing and ends |
| Correct | 2 senders, 2 readers, 3 messages, sends that supersede | corrections are sound and the first stands |
| Upkeep | the six machines of the stores, see below | the rows, the runs of the tools, the copy, the graph, the snapshots, the credentials |
| Services | the five machines of the services, see below | presence, life cycle, resume pages, registrations, limiters; a shutdown ends |
| Owner | one loop, two agents, 4 snapshots | *violation*: section 6 |
| Orphans | the graph alone | *violation*: section 6 |
| Remainder | resume alone | *violation*: section 6 |
| Quota | the gate alone | *violation*: section 6 |

**Control plane.** A conflict needs two
snapshots, a branch three, a reconcile of it a fourth; a write on a retired head
is a fifth, and a reconcile that adopts it a sixth. A retry adds no snapshot. A
rolled back binary writes on the pointed head with the second snapshot, and a
reconcile repairs it with the third or fourth. Runs about values need only one
item, since items never interact, and values are compared for equality only; one
is enough where a branch that asserts it and one that does not
already disagree, and an owner is a second value of the same loop.

**Mailbox.** Two messages are enough for a page to leave one out and for a row to be
corrected; three for a correction of a correction and two rivals for one message.
Three senders or readers would add nothing: a row has one of each, and corrections
compare them for equality. A compaction takes rows more than a day old, so the
clock of `Mail` reads 0 and 2. Every send of the two runs corrects something; what none
corrects is posted (`PostMessage`), or sent with a correction that has no effect
(`Correct`). That a step concerns the messages of one mailbox only is left to the proof
(`InboxImplemented`, for any number of them).

**Upkeep.** *cleanup*: every database of up to three of nineteen rows chosen so that
each pair of rows meets some rule (a pointer and its detail, a detail of another
sender, tenant or spelling, an observation or relation on either end, a legacy
copy, index rows that are shared, foreign or lack their vector), with or without
an index and one lost vector; rules of the analysis join at most three rows. *migration*, *vacuum*: two
foreign writes, two foreign files, one failed system call and a crash, at any
step: one failure is enough to reach every branch of the error handling, and a
foreign file enough to make the error handling itself fail; a failed write of a report is one of
the failures, a crash inside one comes on top. *graph*: two names, two memories, two texts, two calls in
flight, one entry in the trash, one failure: enough for a call to meet the
deletion, the update and the return of the row it waits for. *backups*: two
snapshots, of two names or of one, in three directories of which one is scanned twice, two failures, so
that a retry can fail as well.
*credentials*: one agent in two tenants, two credentials (one and its replacement), two
times: a credential is valid at one and expired at the other.

**Services.** *hub*: three connections of two agents or tenants, with and without proof, so that
an agent can be online twice, and an eviction can meet another one; a monitor may be late
twice. *server*: two clients with a connection each, a plain request, two compactions, a
restore and a failure. *resume*: two
items per section, of two costs, two tenants and two entities, three changes:
one before each of the pages of a walk. *registry*: an agent with an alias and an
ephemeral id, three days, one broadcast. *gate*: two tenants, one of which has a
key, four kinds of requests, three requests, one loss of Redis, one administrative change.

Every property has a mutant in `PROJECT.json`: a plausible bug in the mapped
code (a dropped test, heads read after the insert, an owner taken from the wrong
place, a replacement that is not looked at, a failure that does not fall back)
under which TLC finds the property violated in the same run.

**Fairness.** None is assumed of the control plane or the stores: what is checked
there is safety, and the code schedules nothing by itself. `FairSpec` of the
mailbox assumes that a synchronous stretch runs to its end (weak fairness of
`FinishRead`, no await in it) and that an agent in the middle of a drain keeps
asking for the next page and is served: strong fairness of `WalkPage`, because the
requests of others make it wait for a moment again and again, and Node serves
requests in the order of their arrival. Nothing is assumed of senders or of the
clock. `ServerFairness` assumes that an awaited promise is settled: of a listener
that opens or closes, of a compaction, of the handler of a call, of a backup of the
database; and that a connection which stays idle is closed, as Node does after
`keepAliveTimeout`. It assumes no step of a client, neither that it leaves nor that it sends. But a close
cannot end against its clients: a call that is half sent (Node stops
looking for those when the listener closes), a client that sends one call after the other on
the connection it has, and a plain request on the hub's port each hold it open. So
`CloseEnds` has a premise, `ClientsRest`: from some time on nobody has a call half sent, nor a plain
request on that port. Without either half TLC finds a close that never ends.
`ServicesFairness` is the same while the server is the machine that moves.

## 4. Proofs

Every invariant and action property of the runs that pass is also a theorem, for
every value of the constants that satisfies the assumptions named below, but three
that section 4.4 names. The runs show that the models are not vacuous and find what
is false quickly; the theorems remove the bounds.

### 4.1 The control plane

For any number of agents, items, fields, snapshots and rollbacks (`Checkpoint_proof`,
from `BoundsAssumption`, which says no more than that bounds are numbers and that
the symbols for "no owner", "no value" and "absent" are none of the others):

| theorem | property |
|---|---|
| `TypeCorrect` | `TypeOK` |
| `KeysNameOneSnapshot` | `OneSnapshotPerKey` |
| `RequestsReplayForEver` | `RetryReplays` |
| `PointedHeadIsLive` | `PointerIsLive` |
| `ConflictHasAHead` | `HistoryHasAHead` |
| `PointerOnlyMovesForward` | `PointerMovesForward` |
| `ReconcileLeavesOneHead` | `ReconcileConverges` |
| `NoExpectationReturns` | `ExpectationsNeverReturn` |
| `OnlyReconcileRepairs` | `DesignationOnlyByReconcile` |
| `FrontierImplemented` | `FrontierIsImplemented` |
| `EvidenceAlwaysStands` | `EvidenceStands` |
| `RepairAlwaysOpen` | `RepairStaysOpen` |
| `AdmittedReconcilesPass` | what `AdmittedReconcilesCommit` says without `ENABLED` |
| `StrictOwesNothing`, `OwedStaysUntilAnswered` | `StrictLeavesNothingOwed`, `OwedUntilAnswered` |
| `LineShowsTheRows` | `ViewsAgreeOnALine` |
| `StoredValuesAreShown` | `EveryStoredValueIsShown` |
| `WorkingStatesStayValid`, `DerivedStatesKeepTheRest` | `StatesStayValid`, `DerivedStateKeepsTheRest` |

1. *Types.* The interesting conjunct of `TypeOK` is `Parent(s) < s`: it is what
   keeps the forest well founded, and it follows from the admission test that the
   parent exists.
2. *Keys.* A fresh key is larger than every key in use (`FreshKeyKeepsKeysApart`),
   and a repeated request finds its own snapshot and is not admitted.
3. *Frontier.* `PointerIsLive` is not inductive: nothing in it excludes a
   retirement row for the snapshot about to be inserted, or a pointer in a scope
   an old binary started. `FrontierInv` adds three parts to it:
   `RetirementsLookBack` (a retired snapshot is older than the one that retired
   it), `PointerNamesAState` and `OldBinaryHasNoPointer`. The lemmas
   `WriteFrontier` and `ReconcileFrontier` say what the two kinds of insert do to
   `LiveHeads`: a write takes its parent out, if it was live, and puts itself in;
   a reconcile leaves itself alone.
4. *Steps.* `StepEffect` classifies every step of the specification by its effect
   on the tables (a current write, an old binary's write, a reconcile, or none).
   Each action property and the step simulation of the refinement are then short
   case splits on it.
5. *Refinement.* `seen = States`, `open = LiveHeads`, `current = pointer.state`,
   `designates = (binary = "current")`. A write on a live head maps to `Extend`, on any
   other parent to `Branch`, the first to `Start`, a reconcile to `Fold`, an upgrade and
   a rollback to `Deploy`. A write of an older binary is an `Extend` that leaves
   `current` where it is, then on a head that is no longer open; it takes no
   assumption on the number of rollbacks, since no action of the
   frontier asks whether `current` is open.
6. *Lineages.* `lineageOf` is a recursive function over revisions. No induction is
   used: `LineageIs` shows that its equation holds of every snapshot, and `OnALine` that a lineage is a chain
   (each member but the head has its child on it, the lineage of a member is the
   rest of the chain), both by the least counterexample (`NatLessThanWellFounded`).
7. *Evidence.* That every verifier accepts every snapshot for ever needs all of the
   tables at once, `EvidenceInv`: the in-place rows are what the last change says
   (`RowsFollow`), each ledger is that of its request or of the backfill
   (`LedgersHold`), a record is that of its reconcile and speaks of what exists
   (`RecordsAreKept`), each retirement is due to the record that lists it and each
   record's retirements are there (`RetirementsAttributed`, `RetirementsRecorded`),
   and every reconcile passes its parity (`ReconcilesHold`). That part of a new
   reconcile is what the code checks before it commits; the proof is that later
   inserts, retirements and backfills leave it true of the old ones.
   `AdmittedReconcilesPass` shows that the check never refuses a reconcile that
   was admitted.
8. *Values.* If the last writer of an item is on the accepted lineage it is what was
   accepted there. If not, take the newest snapshot that has it in its lineage
   (`OnSomeDivergentChain`): nothing is based on it, so it is a live or a retired head, and the last
   writer is the terminal of its chain, hence listed as divergent; and its value is
   that of the row (`RowsFollow`).

### 4.2 The mailbox and the stores

Of the mailbox, for any number of agents and messages, any page size and any
clock (`Mailbox_proof`, from `MailboxAssumption`):

| theorem | property |
|---|---|
| `TypeCorrect` | `TypeOK` |
| `ReadsWereDelivered` | `ReadImpliesDelivered` |
| `DeliveriesWereOffered` | `DeliveredWasOffered` |
| `CorrectionsStaySound` | `CorrectionsAreSound` |
| `CorrectionsStand` | `FirstCorrectionStands` |
| `DrainsAreComplete` | `WalkIsComplete`, of agents that drain |
| `DrainsAdvance` | `DrainAdvances` |
| `InboxImplemented` | `InboxIsImplemented` |

`ReadImpliesDelivered` and `DeliveredWasOffered`, the ladder of `Inbox` (stated in
`Mailbox_proof`; the run checks them as part of `InboxIsImplemented`), are not inductive: they need what is
in flight, `SelectedIsDelivered` (the rows a reading call is about to mark read
are delivered already) and `MarkedIsOffered` (a push about to be recorded was
taken by a socket); together they are `Receipts`. For corrections
`OnlyInserts` shows that rows and corrections change by `Insert` alone. Its new row
is not superseded, so it cannot belong to a set of superseded rows: a set that
contains a row it corrects is left through it, any other set is left where it was
left before (`InsertIsSound`). This avoids an induction along the chain. The table
must be known to be finite for counts to be numbers, hence `Typed`, which
is `TypeOK` and that. For a drain, `Draining` says what is owed between two pages (a
message that was unread at the start is given, settled or still unread) and what a
page in flight says of the rest: when it reports no more, the rows it selected are all
that is left. A browse leaves its messages unread, so that its offset counts on a
list from which another tool may take them (section 5); the theorem is about drains.

That a drain which goes on has settled a full page (`DrainsAdvance`) is about counting. A
drain asks from offset 0 and its page lies in a list of at least as many messages as it
was told (`Paging`), since nothing comes between the SELECT and its answer
(`NothingBetween`); when it is told of more than it got, the list is longer than a page, and
then the first page is full (`FirstPageIsFull`): rows of a page have different ranks below
`PageSize` (`AheadGrows`), so they are no more than that; and the newest of the rows left
out has rows of the page only ahead of it, so they are no fewer. This is the one place
where ties of `created_at` must be broken by the identifier (`NewerIsAnOrder`).

*Refinement of the inbox.* `sent = stored`, `envelope` and `corrected` are columns, `aside =
archived`, and the marks of a message are what `offered`, `delivered` and `read` say of it
(`Marks`). That these are always a rung of the ladder is `Receipts`; the call in flight must
belong to the agent whose rows it names (`AnswersTheAsker`), or its second UPDATE would raise
the messages of two mailboxes in one step. Sending, paging, acknowledging and archiving then
map to one step each (`SelectImplements`, `InsertImplements`, `SendImplements`,
`ReceiveImplements`); beginning a send, a walk, the clock, the hub and a crash are stutters.

Of the stores, for any names, rows, files, keys and any number of calls, failures
and crashes. `X_proof` has the theorem about the component; `Upkeep_proof` has those
of the cleanup, the migration and the sanitation, and draws each to the run:

| theorem | in the run | property |
|---|---|---|
| `Graph_proof.GraphStaysSound`, `GraphStepsAreSound` | `GraphStaysSound` | `GraphIsSound`, `GraphStep` |
| `BackupsStaySafe` (`BackupsAssumption`: positions are numbers) | `SnapshotsStaySafe` | `BackupsAreSafe` |
| `CallsAreProven`, `EnforcementFollowsAProof` (`CredentialsAssumption`) | `CredentialsStaySafe` | `CredentialsAreSafe`, `CredentialStep` |
| `CleanupStaysSafe`, `OneRunIsEnough` (`CleanupAssumption`) | `RowsStaySafe` | `RowsAreSafe`, `OneRunCleans` |
| `MigrationStaysSafe`, `CommitsAreBackedUp` (`MigrationAssumption`) | `RunStaysSafe` | `RunIsSafe`, `CommitStep` |
| `VacuumStaysSafe`, `TheirFilesKeepTheirNames` (`VacuumAssumption`) | `CopyStaysSafe` | `CopyIsSafe`, `TheirFilesStay` |
| | `StepsStaySafe` | `StepsAreSafe` of the suite |

Each assumption is evaluated by TLC in the run, as `...Bounds` of the suite. What has to
be added to make the invariants inductive is what is under way:

- *Graph* (`GraphInv`): a row that is in no table any more, nor deleted on request, is in
  an entry of the trash that no import is emptying (`Kept`); keys may lag behind a
  text, never behind the names (`SameNames`); a row that should have a vector has one
  or a call that is going to embed it (`Embedded`). Ids are numbers handed out in
  order, so a row marks older rows only.
- *Backups* (`BackupsInv`): a creation has its file before its entry, a move has both
  copies until the old entry is gone, and a deletion was asked for (`CreationIsWhole`,
  `MoveIsBacked`, `DeletionIsAsked`); then each announced snapshot whose name is its own (`Own`) has an entry
  that leads to a whole file, unless two disks failed it (`EachHasACopy`). Of two snapshots with
  one name nothing is claimed: the second is written over the first. Nothing is assumed of the
  locations, which may overlap; what is found once is a directory, not an entry of a listing.
- *Credentials*: `Admitted`, a token that was let in stays that of a row in the tenant of
  the base key, because rows keep lane and grant (`Follows`) whatever the operator
  commits during the call. `Pending`, the tables a run will commit follow those there
  are and enforce a lane only where a proof stands (`Shown`), which lasts until the commit since
  the server's writes wait for the operator's exclusive transaction. `Delivered` with
  `Numbered`, the secret files are those of the rows the run will leave, and an
  identifier that is drawn is of no row and no file. `RunBegins` says what a command has to
  establish; each command is an instance of it.
- *Cleanup* (`CleanInv`): keys are distinct in every table, the index speaks of rows
  by their type, and an entity that is gone and can be read was a detail. `ToolsKeepSafe`
  takes the tools one by one: `PlanIsExact` and `MigratedIsClean` are what the
  migration's analysis promises of its own result, `DecisionIsExact` and
  `OneBodyToRestore` what an accepted plan of the adjudication determines.
- *Migration* and *Vacuum* (`MigrationInv`, `VacuumInv`): per program point what the lock,
  the backup, the report on disk and the names of the files are, whatever others do
  while the lock is not held; `FailureTakesBack` follows from who made the link. Where a
  report can be torn, what accounts for a commit is the backup under its name, which the audit row of the
  same commit holds; the report does as well, unless the run died or a call failed in its writing
  (`CommitIsAccountedFor`).

### 4.3 The services

For any connections, calls, items, registrations, requests, tenants and limits, and
any number of steps of the environment. `Services_proof` has the theorems about four of the
machines, `Resume_proof` that about the fifth:

| theorem | in the run | property |
|---|---|---|
| `HubKeepsSafe` | `PresenceStaysTrue` | `HubIsSafe` |
| `ServerKeepsSafe`, `ShutdownsGoThrough` | `ServerStaysSafe` | `ServerIsSafe`, `ServerStep` |
| `WalksStaySound` (`ResumeAssumption`) | `WalksAreFollowed` | `ResumeIsSound` |
| `BroadcastsReach` (`RegistryAssumption`) | `RegistryStaysSound` | `RegistryIsSound` |
| `GateKeepsSafe` (`GateAssumption`) | `LimitsStaySafe` | `GateIsSafe` |
| | `ServiceStepsStaySafe` | `StepsAreSafe` of the suite |

- *Hub.* A client that is out of use (its socket closing, its credential revoked,
  its lane enforced) stays out of use (`InactiveStays`); so an eviction inside a broadcast can
  only shrink the set of those who are told, however deep it nests.
- *Server* (`ServerInv`): start and shutdown take turns (while the start is under
  way a close only leaves word), what the shutdown has ended stays ended, no handle
  but the manager's is ever open and that one is open until the shutdown is done
  unless a restore failed, and who backs up before a restore is a call that runs, so
  that the flag of the restore is lowered. `Due` adds that a close which was asked for is
  under way, or left to the start that is. `ShutdownsGoThrough` says that nothing takes a shutdown
  back, that no connection is added to those it waits for (`OnlyFewer`), though calls on these may
  be, and that no handle is taken from a client that is connected but by the restore that backed it up.
- *Resume* (`WalksHold`). `AdmittedIsAStart`: who comes before an item that was taken was
  taken, since costs only add up; with it the one cursor accounts for everything behind it
  (`PageIsClosed`). `RestIsOwed`: what was due and not taken has a rank at or behind
  the cursor's offset. An arrival only raises ranks (`OwedStays`), so what is owed
  stays owed until a page gives it, and a walk with arrivals alone ends complete;
  this is what fails in `Remainder`, where a rank falls. `PageLeadsOn`: if every item fits
  the budget by itself, the first that is due is taken.
- *Registry* (`RegistryInv`): while a broadcast runs, an agent has its message once, is still
  to get it, or was not among those it is for (`Underway`). The three views agree because
  each is a test for the newest or the oldest of the sessions of an agent, which exist.
- *Gate* (`GateInv`). `EpochsAreCounted`: what a limiter let through was counted in
  Redis, or in memory since memory last began anew, and that happens at most once
  per fault, or once when the first connection is given up. `Identical`: the tenant a request passes
  as is that of its credentials at every stage it waits in.

### 4.4 Only model-checked

`DrainEnds` and `CloseEnds` are liveness properties under fairness, which the prover
does not reach. What they rest on besides fairness is proved: `DrainsAdvance`, that a drain has
settled a page whenever it goes on, and `CloseIsDue` with `ServerStep`, that a close is due
until it is done and the connections it waits for only become fewer. TLC puts the two together. `AdmittedReconcilesCommit` speaks of `ENABLED`; `AdmittedReconcilesPass` proves
what the action's guard needs, that the parity check of an admitted reconcile
passes.

## 5. What the checks say about the code

- The designation of a scope is repaired by a reconcile only, and every scope can
  be repaired from each of its live heads, whatever older binaries did to it.
- The comment at `heads.ts:164` says an invalid designation "cannot arise from
  correct operation". That is so until an older binary is put back
  (`PointerIsLive` is conditional for that reason): its write on the pointed head
  leaves the pointer on a dead head. `versions.ts:47` acknowledges such rollbacks,
  so the two comments speak of different operations; the code handles both.
- Compare-and-set is free of ABA: neither a head set nor a pointer value returns.
- A cursor that the reader follows while nothing but new items arrive reaches every
  item that was there; other changes can shift it (`Remainder`).
- Evictions nested in broadcasts never leave a stale "online" with a client that is
  itself still registered and open.
- A restore that meets calls and a shutdown in any order leaves the memory manager
  with an open database while anybody is connected, as long as no file and no listener
  fails. That is not so of the credential store and the tenant resolver, which keep the
  handle they were built with (`unified-neural-mcp-server.ts:79`, `:87`) and find it closed after
  the first restore (`index.ts:6151-6212`).
- The limiters pass at most their points once per store they counted in and
  once more per loss of Redis: memory starts afresh at each fall back.

Met while proving:

- That an announced snapshot keeps a whole copy holds up to one crash or full disk; a second one,
  of the same snapshot, can take it (`NoneIsLost` has `cuts < 2`): a move of what the
  first two calls left behind is then made over the whole file.
- A loop whose last change an older binary wrote, with an owner nothing proves, is
  listed as divergent without its value; so `EveryStoredValueIsShown` excepts it. An
  earlier form did not, and no run was long enough to refute it.
- Two registrations of an agent may have the same time of their last update; which of
  them is the newest is then up to SQLite, and `Rollup` leaves it open. What is proved
  holds of every choice.
- The limits are kept for any number of points, the budget of a page for any costs:
  nothing in `Gate` or `Resume` depends on a page or a window having room for one.
  Only that a walk leads on (`PageLeadsOn`) needs every item to fit by itself: an item
  larger than the budget stops it at the same cursor until a client asks with more.

Met while modelling, and true of the models, without a run of their own:

- `created_at` is `YYYY-MM-DD hh:mm:ss`, the bound of `getMessagesPage` is an ISO
  text with a `T` (`index.ts:3012`), and SQLite compares texts. On the day of the
  bound every row sorts before it, so `since` drops messages it should keep; the
  cutoff of `archiveMessagesDetailed` (`index.ts:3663`) takes messages of its day that
  are younger. `Mailbox` compares as the code does (`Since`, `ByAge`). `CompactMessages`
  compares two texts of SQLite's form and is right.
- `nextOffset` (`unified-neural-mcp-server.ts:4026`) counts messages of a list that is
  queried again. A walk over unread messages that does not mark them, and reads one
  in detail as `shared/toolSchemas.ts:576` advises, starts its next page one message
  too late.
- An issue without a tenant has no row to decide about
  (`private-message-residue-adjudication.mjs:738`), so no plan can cover it and the
  adjudication of that database never runs: `Supported` is empty there.
- `restoreFromTrash` (`index.ts:6338-6351`) skips a row that came back by an import
  meanwhile, and drops its trashed version with the entry; a crash during the
  embeddings keeps the entry of rows that are restored already.
- `stopHttpListener` says it waits for "requests already accepted"
  (`unified-neural-mcp-server.ts:5194`); it waits for connections. One that was active
  when the listener was closed still carries new calls into the handlers, for no middleware
  asks for the shutdown (`:114-222`), and a client that keeps sending keeps the server up.
- A request without an upgrade on the hub's port has no handler to answer it
  (`message-hub/websocket-server.ts:183`), and `stop` waits for it (`:647-653`).
- The writing of a report ends with a sync of its directory (`vacuum-sanitized-database.mjs:193-195`). When that fails, the
  report on disk says "verified" already and the catch removes the output (`:771-775`) before
  it rewrites the report (`:785`): after a crash between the two, or when the rewrite fails too, a "verified" report has
  no output (`OutputIsWhole`).
- A report that was begun after the commit and cut short says nothing
  (`007-private-message-residue.mjs:1357-1362`): the commit is then accounted for by the audit row
  of the run and the backup it names (`CommitIsAccountedFor`).
- The file name of a snapshot is a millisecond and a label (`index.ts:6056-6060`): two of one name in
  one directory are one file, and to delete, move or restore one is to do it with the other.
  A location inside another one (`index.ts:5822-5826`, `:5858-5880`) is listed twice (`:6115-6125`).
- A snapshot in a folder of a folder is made and moved to (`index.ts:6109-6146`) but not
  listed (`index.ts:5933`): `NoneIsHidden` says so.
- The note of a failed deletion outlives a new embedding of the same row: the retry
  then deletes the new vector (`index.ts:5471`).
- Observations and relations that come back from the trash or an import have no
  vector until a rebuild (`bare`).
- A crash in the middle of writing a manifest empties the listing of its
  directory; the files stay (`NoneIsLost`, and `torn` in `NoneIsHidden`).
- A fact that was accepted as superseded is in neither `currentFacts` nor
  `legacyValues` of a version 3 resume.
- With tenants, a server key of the form of a tenant's key (`nac_`) is refused
  (`middleware/security.ts:602-622`).
- A request that waits for Redis when the connection drops is answered as limited;
  Redis is not tried again after the client has given up, and the event that would
  say so (`end`, `security.ts:270`) is not emitted by this client.
- A token that asks for a tenant it is no member of does not fail the request: the
  API key is tried next.
- The dashboard's roster and `get_agent_status` choose the representative of an agent
  differently; `ViewsAgree` holds what they do agree on.

## 6. Findings

`Owner`: a loop change that omits its owner inherits the owner of the *in-place*
row (`checkpoint.ts:279`), which the last writer on any branch set. So a write on
the accepted line can record, as its own accepted value, an owner that only a
divergent branch ever named. The design note says such values are "never merged
silently" (`docs/design/ENG4-HEAD-RECONCILIATION.md:346`).

`Orphans`: the compaction of orphaned vectors (`index.ts:6624`) deletes every vector whose
id has no row in `shared_memory`. Learnings and preferences are rows of
`individual_memory`, embedded into the same index (`index.ts:2161`): the compaction,
announced as "vector rows whose source memory no longer exists" (`index.ts:6615`),
takes the vectors of memories that exist, and nothing but a rebuild returns them.

`Remainder`: a cursor is a section and an offset into it, and the section is computed
again for the next page (`resume.ts:475`). A loop that is updated moves to the
front of its section, a fact that is superseded leaves it; the offset then points
past an item no page has shown. `resume.ts:12` promises "a cursor to the remainder".

`Quota`: the middleware asks for the quota "requests" (`security.ts:720`) and "messages"
(`:838`); `checkQuota` (`tenant/tenant-manager.ts:497`) knows `requests_per_day` and
`messages_per_day`, and for any other name there is no limit. So the refusal "Daily
request quota exceeded" never comes.

## 7. Plan

In the order of importance.

1. **Clients** over `Checkpoint`: agents with a read view, a pending request, a
   lost reply, retry after conflict; progress under weak fairness of delivery and
   of a retry loop; why a patch loop may starve while a write loop does not.
2. **Aliases** of an address in the mailbox.
3. **Compositions**: hub and credentials, where a revocation evicts; resume over the
   state of `Checkpoint` and of the mailbox instead of sections of its own.

## 8. Not modelled

- *Canonical form, contracts and validators*: payload hashing and canonical JSON are
  taken for what they are used for (equal requests share a fingerprint), schemas for
  the sets that requests are drawn from.
- *Dispatch*: the registration of tools and the memo keep no state beyond a call.
- *Resume*: `changesSince` and the rendering of a bundle. *Resource reader*: slices of
  one immutable payload.
- *Versions*: cutover and backfill marks. Revisions only grow, so no call puts an
  uncovered snapshot below a cutover; the marks guard against rows that were erased.
- *Messages*: the fall back to `shared_memory` of a database older than the mailbox,
  aliases of an address, previews of the retired context tool.
- *Graph*: searches and rankings, which write nothing, and the merging of entities.
- *Server*: the transports and sessions of the MCP library, tools that only
  format an answer. *Hub*: which subscriptions choose the receivers of a push.
- *Middleware*: headers, CORS and request logs. *Tenants*: `admin-routes.ts` is not
  mounted by the server; statistics.
- *Migrations* 001 to 004 and 006: one transaction each, or statements that change
  nothing the second time. 005 and 008 give the tables that are modelled.
- *Observability, notifications*: output; nothing of the program reads the alerts of
  `slo.ts` back.
- *Stdio bridge, command line, clients, scripts*: byte forwarding and shell scripts.
- *Snapshots*: path names. Two names of one directory, by a symbolic link or a
  mount, are one place in `Backups`, so that a move between them moves nothing; the code compares
  names (`index.ts:5962-5985`) and would copy a file onto itself and remove it.

Crashes of the operating system (lost writes, torn pages) are SQLite's business and
left to it; a crash here is the end of the process.
