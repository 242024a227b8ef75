# Verification of mempalace

TLA+ modules of the stateful core of mempalace, the TLC configurations that
check them on small instances, and theorems about them that TLAPS checks for
every value of the constants. All code references are to
`src/crates/core/src/` unless a path says otherwise.

- [How to run it](#how-to-run-it)
- [The system](#the-system)
- [What is hard about it](#what-is-hard-about-it)
- [The modules](#the-modules)
- [The runs](#the-runs)
- [What is proved](#what-is-proved)
- [Where the code and its documents disagree](#where-the-code-and-its-documents-disagree)
- [What is not modelled](#what-is-not-modelled)
- [Plan](#plan)

## How to run it

    tlc -workers 2 -config MCPalaceStore.cfg MCPalaceStore
    tlapm PalaceStoreProofs.tla

Every `MC<module>*.cfg` belongs to the module `MC<module>.tla`; the table of
[runs](#the-runs) says which of them are meant to end with a violation.
Operators named as mutants in their comments (`AdmitKeepingEvicted`,
`RestoreUnchecked`, ...) belong to no specification: each is a plausible mistake in
the operator below it, and putting it in that operator's place makes TLC find a
property violated. They show that the properties depend on the code.

## The system

mempalace keeps what agents and users say ("drawers") in a *palace* directory,
and serves it to them through a command line, an MCP server and a REST server.
Nothing but the file system, SQLite and a few mutexes coordinates these
processes; most operations open the stores they need, work, and drop them.

| Component | State | Operations | Meets the others through |
| --- | --- | --- | --- |
| Online duplicate filter (`dedup_window.rs`) | insert-order log and membership index behind one mutex | `check_and_record`, `purge_expired` | `PalaceDb::add_drawer` asks it before it adds a drawer (`palace_db.rs:3063`); at this commit its tests alone call it |
| Palace database (`palace_db.rs`, `drawer_store.rs`) | SQLite table of drawers, JSON file, one in-memory copy per handle | open (four ways), migrate, add, flush, delete, delete by source | every request, miner and job opens a handle of its own on the same files |
| Mine gate (`mine_palace_lock.rs`, `mine_pid_guard.rs`, `cli.rs`) | a lock file in the home directory, a PID file in the palace | acquire, steal, release of each | all mines, of the command line, the MCP server and `init` |
| Coordination tools (`mcp_server.rs`, `CoordinationDb` in `palace_db.rs`) | tables of actions, dependencies, leases | create, update, next, lease, routine run | agents; each call opens the database anew |
| Knowledge graph (`knowledge_graph.rs`) | table of facts with validity | `add_triple`, `invalidate`, `supersede`, queries | MCP tools and miners; each opens a connection of its own |
| MCP server (`mcp_server.rs`) | none between calls but the path and a few caches | some two hundred tools | calls all of the above |
| REST server (`rest_api.rs`) | one `Mutex<AppState>` | one route per tool | holds the mutex over a call (line 2237) |
| Write daemon (`daemon.rs`) | singleton slot, bounded channel, shutdown flag, status | start, stop, ensure, shutdown, submit with and without waiting, loop | opens palace handles for its jobs; at this commit only `daemon_status` is called from elsewhere (`mcp_server.rs:2095`) |
| Background tasks (`background.rs`, `auto_forget.rs`, `retention.rs`) | timers | sweep, forget, consolidate | open palace handles |
| Vector indexes (`palace/store/*`) | shards and manifests on disk, services | flush, load, search | used by the palace facade; the sharded files are written and read by `usearch_sqlite.rs` alone |
| Repair (`repair.rs`) | none but directories next to the palace: staging, backup, the palace put aside | rebuild the index, from SQLite, of the vectors | replaces the directory that every other component has its files in; started by hand |
| Miners (`miner.rs`, `convo_miner.rs`) | none but the drawers they filed | scan, test for files already mined, split, classify, add, flush | behind the mine gate, through palace handles; files that others edit |
| Sweeper (`sweeper.rs`) | none but the drawers it filed, from which it takes its cursor | parse, skip, store, flush | transcripts that agents are writing; palace handles; no lock |
| Search, text understanding, embeddings, configuration, export | none, or read only | pure functions and adapters | called by the servers |

`PROJECT.json` lists all of them, the ones that are left out too, each with the
reason.

What makes each of the modelled components correct:

- the filter answers Duplicate exactly for what it holds, holds what the window
  and the capacity say, and its two structures stay one;
- an acknowledged drawer is served until somebody removes it, through crashes,
  migrations and stale handles, and the two places it is read from agree when
  nothing went wrong;
- one process mines at a time, and nobody is locked out by the remains of another;
- a mine files what it passes and skips only what is filed; a sweep leaves no
  message out, and what is no longer touched gets into the palace in the end;
- a lease is exclusive and touched by its holder alone, actions handed out are
  ready, and no set of actions waits for itself;
- one fact is current about a topic, history is not rewritten, and what was
  true once can be found by its date;
- one daemon is in charge, writes begin in the order in which they were
  accepted, an accepted job is carried out or lost to a shutdown and never left
  lying, and whoever waits for room is answered;
- a published generation of the index stays whole, and a load returns what was
  published while it ran, or fails;
- a repair that fails or dies keeps every drawer, and what else is in a palace,
  where it can be found.

## What is hard about it

- **Interleaving.** The filter reads the clock before it takes the mutex. The
  palace's handles each rewrite the whole JSON file from their own snapshot. The
  gate checks a file and then creates it. Leases are looked up and inserted by
  two statements on a connection of the call's own. `add_triple` takes and
  leaves its lock for every statement.
- **Files that change.** A miner tests a file, looks at its time and reads it at
  different moments, while somebody edits it; the sweeper loads the palace, then
  reads a transcript that an agent is writing.
- **Crashes and partial failure.** A JSON file is truncated and rewritten in
  place; a row insert that fails is only logged; a migration goes in batches; a
  PID file is created and then written; dependencies go in one by one; the
  insert of a fact may fail after its rival has been ended. Shards and manifest are
  written in place and rolled back by hand; a repair moves the palace through four
  directories, and restores a backup without knowing whether it is complete. One
  drawer of a file makes the next mine skip the file, one message of a session the
  next sweep all older ones.
- **Stale state.** A lock judged dead is removed by path; a lease is renewed by
  the row found earlier; a conflict is closed by the id found earlier.
- **Time.** Windows, times to live, a liveness test by process age, an id that
  changes with the month.
- **Ordering and liveness.** Stealing and retrying by recursion; a daemon that
  drops the job it has just received, and is stopped by sleeping instead of by
  joining its thread; tasks whose runtime is dropped.

`PROJECT.json` lists the hazards one by one, each at its line and with the
properties that would show it going wrong.

## The modules

Each component has a module `X` with its state, actions and properties, a
module `MCX` for TLC and a module `XProofs` for TLAPS; abstract specifications
(`IndexRegister`) have a module of their own. The two components that fill the
palace are proved about where they meet the others: `Mining` in `MineGateProofs`,
which shows how far there is one mine at a time, as `Mining` has it, and
`Sweep` in `PalaceStoreProofs`, which establishes that what a sweep has stored stays
there. One proof module extends both there, so the two modules keep their names
apart from their hosts' (`MinerTypeOK`, `SweepSpec`, `Kill`, ...).

Nothing in the code keeps processes, stores or calls apart that the models would
keep apart: acquisitions, calls and flushes overlap in every run and every theorem.
Where an overlap or a failure does break what a component is for, a history variable
records the one event that does it (`raced`, `contested`, `entangled`, `cut`,
`unchecked`, `shared`, ...), and the property says that nothing else does. Each of these
events is told again [below](#where-the-code-and-its-documents-disagree).

### DedupWindow

`dedup_window.rs`. `call[t]` is a thread's `check_and_record` in flight; `queue`
and `seen` are the two fields of `Inner`; `clock` is `Instant::now()`.

| Action | Code |
| --- | --- |
| `ReadClock(t, h)` | hash the content and read the clock (118-127) |
| `CheckAndRecord(t)` | the body under the mutex (129-156): purge, then `Refuse` or `Admit` with eviction down to the capacity |
| `PurgeExpired` | `purge_expired`, which reads the clock under the mutex (157-162) |
| `Tick` | the clock; no call waits for the mutex longer than `MaxStall` |

History variables remember the last admission of a hash, the admissions since
(counted up to `Capacity`), and the latest instant a purge has used.
The instant kept in the membership index is never read by the code, so `seen` is
the set of its keys.

### PalaceStore

`palace_db.rs` and `drawer_store.rs`. `rows` is the SQLite table, `json` the
JSON file (absent, torn or a map), `docs[h]` the collection of handle `h`. A
drawer is its id; its source file is a function of the id, as the miner derives
one from the other.

| Action | Code |
| --- | --- |
| `OpenStore`, `LoadStore`, `OpenEmptyStore`, `FindEmptyStore` | `PalaceDb::open_collection` (1242-1283): count the rows, then load them, or look into the JSON file, which is empty or to be migrated |
| `OpenFallback` | the same without a usable table (1284-1295) |
| `OpenForSearch` | `open_collection_with_embedder` (2051-2123), which serves the JSON file and migrates on the side |
| `StartMigration`, `MigrateBatch`, `FinishMigration` | `migrate_from_json`: look at the table again, read the file, insert one transaction per batch, reload |
| `IgnoreMigrationError` | a batch fails, and the search path goes on without it (`palace_db.rs:2077`) |
| `Add` | `upsert_documents`: memory first, then the row, whose failure is only logged |
| `BeginFlush`, `BeginDelete`, `EndSave` | `save` in its two halves: `fs::write` truncates, then writes |
| `Close` | the handle is dropped; every caller flushes first |
| `PurgeSource` | `tool_delete_by_source`, on the table alone |
| `Crash` | the process dies, or an error ends an open |

Two handles that save at once write over one another: the one that finishes
last may leave the tail of the other's content behind (`mixed`, `EndSave`).
`upset` remembers the gravest disturbance so far, because the properties differ
in what they survive: `AckedDrawersAreServed`, and `MigrationIsLossless` for
migrations all of whose batches succeed, hold after anything, `TornOnlyByAccident`
until a crash or an overlap of handles, `ViewsAgreeAtRest` only while nothing has
happened.

### MineGate

`mine_palace_lock.rs`, `mine_pid_guard.rs`, and the order `cli.rs` takes them in
(3487-3555). `pc[p]` is where a process is; each file is named by its creator, so
that a write through an open handle reaches the file it was opened on even when
that has been removed and created again. One action per file operation; the
processes in `Direct` (`init`, the MCP server's mine tool) skip the palace lock.
`Age` is the sixtieth second of a process, after which the palace lock may take
it for dead (`mine_palace_lock.rs:145`); the PID guard asks the kernel instead.

A write into a file just created may fail (`FailStamp`, `FailSign`): the caller is
refused, and the empty file stays. `failed` has the processes this happened to.
`raced` has those that truncated or removed a PID file other than the one they had
looked at, since the last time nobody was running. That is the race between the
look (57) and `File::create` (76), which the code leaves open; `MutualExclusion` says
that two processes mine only after it, and never because of a stolen lock, a late
release, a failed write or a kill.

### Coordination

The tools of `mcp_server.rs` from 3537 on over `CoordinationDb`. `status`,
`deps` and `leases` are the tables, `call[c]` the call an agent has in flight.
A call of one statement is one action; a longer one begins (the lookups) and
goes on, one statement a step: `CreateAction` then `AddDependency` for each
dependency, `BeginRoutine` then `InsertStep`, `BeginAcquire` then `EndAcquire`,
and so on. `Die` ends a call between two of its statements. A read that changes
nothing is part of the step that uses what it read.

The calls of agents overlap freely, between their statements too: over stdio and from
several processes nothing keeps them apart, and the REST server's mutex
(`rest_api.rs:2237`) covers its own calls only. A statement may fail: the dependency
that fails is logged and the loop goes on (3570), any other error ends the call
(`Die`). An action may be declared to depend on itself, or on one that does not exist.

What goes wrong by that is recorded. `cut` has the actions whose creation lost a
dependency. `entangled` has those that wait for an action which was created
while their own creation was in flight. `met` has the agents whose call on a lease
has looked its action up before another call granted a lease on it, and `contested`
the leases such a call went on to grant.

### KnowledgeGraph

`knowledge_graph.rs`. A topic is a subject with a predicate; a fact is a topic
with an object; its id adds the month of its insertion (494). `recorded`
and `to` are the table, `call[c]` the `add_triple` in flight, `today` the wall
clock. A day stands for a date or an instant in RFC 3339: the code compares them
as text.

| Action | Code |
| --- | --- |
| `BeginAdd` | the interval check, the entities and the search for the same current fact (415-461), which finds nothing when it fails |
| `FindConflict` | the search for a contradicting current fact (463-471), the same |
| `CloseConflict` | the `UPDATE` that ends it (471-491) |
| `InsertFact` | the `INSERT`, which the primary key may refuse (493-519) |
| `Invalidate` | `invalidate` (521-541), one statement |
| `Supersede` | `supersede` (1628-1761), one transaction |
| `Die` | the process dies between two statements, or a write fails and the call returns the error |

Calls of several connections overlap. `misled` has the callers whose lookups failed to
see a current fact of their topic, or were made untrue since by another call
(`TooLateFor`), and `unchecked` the topics that got a current fact from such a call, or
from a supersession of a fact about another topic: `supersede` does not look for
conflicts, and its replacement may be about anything. `OneCurrent` says that no other
topic has two current facts. `EndedStaysEnded` excepts one step: line 481 ends the
contradicted fact by its id alone, and rewrites the end that another call has
given it since the search.

### Daemon

`daemon.rs`. `slot` is the process-wide slot, `down` the shutdown flags, `loop`,
`queue` and `job` the thread of each daemon, its channel and the job it has
received; `handle[c]` is the clone of a handle a client has kept, `call[c]` its
call in flight.

| Action | Code |
| --- | --- |
| `Stop`, `Wake` | `stop_daemon` (248-283) in its two halves: take the handle and set the flag under the write lock, then sleep |
| `Start`, `Wake`, `Spawn` | `start_daemon` (187-241): stop what there is, then look at the slot again and spawn under a second write lock |
| `Ensure` | `ensure_daemon` (335-350): look under the read lock, start afterwards |
| `Shutdown`, `Drop` | the flag set through a kept handle (134-136); a handle dropped |
| `Submit`, `SubmitSync`, `Accept`, `Refuse` | `submit` (118-131), which waits for room, and `submit_job_sync` (305-330), which does not |
| `Receive`, `Begin`, `BreakLoop`, `Finish`, `HangUp` | `daemon_loop` (365-383): `recv`, the flag, `process_job`, the end of the loop |

The channel closes when the slot, every kept handle and every call in flight
have let go of the sender (`Referred`). The loop looks at the flag only when it
has received a job, so a daemon may outlive its stop for as long as its queue
stays empty and somebody keeps a handle. When it ends, the receiver is dropped
with everything in the channel.

### ShardedIndex and IndexRegister

`palace/store/usearch_sqlite.rs`, `flush_sharded` and `try_load_sharded`.
`shard[g][n]` and `manifest[g]` are the files of a generation, `flush[w]` and
`load[r]` the calls of stores and processes. A version of the index is the number
of the flush that saves it, a shard's content the version it is a piece of, and a
manifest's the version whose shards it lists, because their names follow from the
generation. `Readable` are the versions of the dimension that loads expect: a manifest
of another one is refused (527-533), as those of `flush_sharded_async` are, which
always have dimension 0 (569, 582).
One action per file operation.

| Action | Code |
| --- | --- |
| `BeginFlush` | the scan for the highest manifest and the serialisation (387-434) |
| `CreateShard`, `WriteShard` | `File::create`, which truncates, then `write_all` and `sync_all` (436-458) |
| `FailShard` | an error and the rollback of the shards on the list (460-466) |
| `CreateManifest`, `WriteManifest`, `FailManifest` | `fs::write` in its two halves, and its error (468-487) |
| `Crash` | the process dies between two of them |
| `Scan`, `ReadManifest`, `ReadShard` | `try_load_sharded` (497-552), file by file |

`IndexRegister` says what this comes to: a register that a flush replaces, which is
unreadable from the moment a manifest is begun until it is complete (`Spoil`,
`Publish`), and stays so if the flush is cut short there or has another dimension;
versions are published in the order in which their flushes began, and a flush that is
done after a later one replaces nothing (`ComeLate`). A load returns a value that the
register had while the load ran. `ImplementsRegister` is the refinement, with the
register's value mapped to what a load that takes no time would return (`Content`); the
histories `current` and `seen` record the last version published and what the register
has been during each load.

Flushes overlap. A store holds its own mutex while it flushes, but two stores, in one
process or several, can both find the same highest generation, and then take the same
next one: `shared` has the generations in which that happened. `Clash` is what it is to
the register: whatever a load finds there is anything until a later flush publishes.
`PublishedIsWhole` is about every other generation.

### Repair

`repair.rs`: `rebuild_index` (912), `rebuild_from_sqlite` (487),
`rebuild_vector_index` (209), which take a backup (1097), rebuild through a
staging directory (994) and restore the backup when that fails (1129). `dir` is the
four directories: the palace, `<palace>.tmp`, `palace.palace.bak`,
`<palace>.pre-repair.bak`. A directory is what is in it: a database, the drawers
in its table, the drawers in the JSON file, and everything else. `Served` is what
opening the palace serves (`palace_db.rs:1242-1295`), `Opened` what it leaves.

| Action | Code |
| --- | --- |
| `Store` | a user of the palace opens, adds and flushes, at any moment |
| `Look`, `OpenHalf` | a user opens the palace and stores nothing, which creates a missing directory and fills an empty table, or a part of it (`drawer_store.rs:800`) |
| `BeginIndex`, `BeginSqlite`, `BeginVector` | up to the backup (912-932, 487-506, 209-244) |
| `ClearBackup`, `CopyBackup`, `PartialBackup` | `take_pre_repair_backup` (1097-1123); its failure is only warned about, and it leaves out symbolic links and succeeds |
| `Count` | `rebuild_from_sqlite` opens the palace and gives up on an empty one (515-531) |
| `ClearStaging`, `Fill`, `FailStaging` | the new palace (994-1046), whose rows may fail to be inserted unnoticed |
| `ClearAside`, `Demote`, `Promote`, `Discard`, `FailDemote`, `FailPromote` | the swap (1053-1066) |
| `Succeed`, `Restore`, `Reinstate`, `FailReinstate` | the backup is dropped (964, 602, 289) or restored (1129-1137) |
| `Crash` | the process dies at or in the middle of a step |

`whole` says that the backup is a copy of all of the palace. `risk` remembers the
gravest thing that has happened. It is "cut" when a process
died, or the last attempt to put the palace back failed, at a point where the
palace is missing or incomplete while whole copies exist; and "lossy" when a
repair then went ahead over those copies, when an incomplete backup was restored,
when the new table lacks rows, when somebody stored drawers while a repair was
running, or when a user who opened the palace filled a part of its empty table and
died. Those are the losses of drawers the code admits, and the only ones:
`ServedAtRest` is about the first level, `NothingLost` about the first two.
`RestOutlivesFailures` needs no such level, and names the three steps at which
what is not a drawer goes: a rebuild that succeeds drops it, because it copies drawers
only; a failed repair restores an incomplete backup; a repair begins that finds it only
in the leftovers of another, and clears them. The removal of the palace before the backup
is renamed may stop half-way (`Remains`), as its result is not looked at. What cannot be
read counts as empty, and one repair runs at a time.

### Mining

`mpr mine` over a directory: `Miner::mine_file` (`miner.rs:1054`) and
`mine_conversations` (`convo_miner.rs:133`), with the test for files already
mined and the write of `palace_db.rs`. `file[f]` is what the file holds, `rows`
the table; a version of a file stands for its content and its modification time.
How a version is cut into chunks, and the room of each chunk, is the constant
`Shape`.

| Action | Code |
| --- | --- |
| `StartMine(m)` | the directory is scanned (`miner.rs:1285`, `convo_miner.rs:147`) in one of the modes project, exchange and general |
| `Skip(f)`, `Begin(f)` | `file_already_mined_with_mode` (`palace_db.rs:2657`): one drawer with the file's present time is enough |
| `Stat`, `Read` | the look at the time and the read, in the order of the miner: `miner.rs:1064` looks first, `convo_miner.rs` last |
| `Add(stored)` | one turn of the loop of `PalaceDb::add` (2462), whose failure is only logged |
| `End` | the flush; no later open reads the JSON file while the table has rows |
| `Edit`, `Kill` | somebody writes, replaces or removes a file at any moment; the mine is killed |

One mine runs at a time, which [MineGate](#minegate) shows but for the race it names;
two mines at once are not modelled. Files share no rows, so one
file shows everything. What the properties except is in two histories. `left` has
the versions that a file has gone away from: when it comes back with its old time,
what is left of it may count as the whole. `cut` has the versions whose filing was
cut short by a crash or a failed insert: the drawers that got in make the next
mine skip the rest for ever. Exchange mining is excepted altogether, because it
takes a project's drawers for its own (`palace_db.rs:2679`).

### Sweep

`sweeper.rs`: `sweep` (220), `sweep_directory` (347), the parser, the cursor and
`flush_batch`. `log[f]` has the times of the messages ever written to a transcript,
`gone[f]` how many of them a compaction has removed, `stored` the messages filed, `sweep[s]` what a process is doing. Agents append messages to
their transcripts at any moment, with the time of day.

| Action | Code |
| --- | --- |
| `Open(s, f)` | `PalaceDb::open`, and the cursor of the session taken from what it loaded (225-240) |
| `Parse(s)`, `FailParse(s)` | `parse_claude_jsonl` reads the file (110-168), later than the palace; a file that cannot be read has no messages (112), and the sweep succeeds |
| `Skip(s)`, `Store(s)` | a message older than the cursor, or another (236-284); an insert that fails is only logged |
| `Finish(s)`, `Leave(s)` | the flush; the process exits or goes on with the next file |
| `Kill`, `Write`, `Compact`, `Tick` | the sweep is killed between two rows; an agent writes; a compaction rewrites a transcript without its oldest messages (`convo_miner.rs:191`); the clock |

Batches decide only when a message is stored, and a crash can fall between any two
rows, so a message is stored in a step. The cursor is sound because a transcript is
filed in its order, which crashes and a second sweep do not change: what is older
than a drawer has been filed. It is not sound for transcripts that share a session
(`Overtaken`), and neither would it be for one whose times go backwards, or that
mixes sessions; the last two are assumed away. `lost` has the messages that a compaction
removed before they were filed, `failed` those whose insert failed.

## The runs

| Run | Config | Expect | What it shows | Bounds |
| --- | --- | --- | --- | --- |
| `dedup` | `MCDedupWindow.cfg` | pass | log and index stay one; forgetting and refusing stay within window, capacity and stall, although clocks arrive out of order | 2 threads, 3 hashes, capacity 2, window 2, clock 0..5, stall 1 |
| `palace` | `MCPalaceStore.cfg` | pass | no acknowledged drawer is lost, no migration loses any, the file is torn only by accident, both views agree in quiet use | 2 handles, 2 drawers of 2 sources, batches of 1 |
| `palace_delete` | `MCPalaceStoreDelete.cfg` | violation | a deleted drawer comes back | same |
| `gate` | `MCMineGate.cfg` | pass | one miner at a time short of the race at the PID file, no remains, no refusal without a reason | 3 processes, one of them direct |
| `coordination` | `MCCoordination.cfg` | pass | exclusive leases, no circles, ready actions, up to the named races and failures | 2 agents, 2 actions, 2 leases, clock 0..1, time to live up to 1 |
| `kg` | `MCKnowledgeGraph.cfg` | pass | one current fact, ends never move, up to the named races and failures | 2 callers, 2 topics, 2 objects, 2 days in 2 months, 3 facts; callers start facts on the second day or give no start, and end them on the first or give no end |
| `daemon` | `MCDaemon.cfg` | pass | one daemon in charge, jobs begun in order and settled, waiting clients answered | 2 clients, 2 daemons, 2 jobs, capacity 1 |
| `index` | `MCShardedIndex.cfg` | pass | published generations stay whole and files and loads implement a register, short of two flushes that take one generation | 2 stores, 2 loads, 3 flushes of 2, 1 and 2 shards, the second of another dimension |
| `repair` | `MCRepair.cfg` | pass | drawers and everything else survive failures and deaths, up to the named losses | 2 drawers, any number of repairs one after another |
| `repair_failure` | `MCRepairFailure.cfg` | violation | a failed repair destroys the palace it had not touched | same, nobody stores meanwhile |
| `mining` | `MCMining.cfg` | pass | what a mine passed is filed, no edit is skipped, files at rest are filed in the end, up to the named exceptions | 1 file, 3 versions, 2 rooms, 3 edits, 1 fault, any number of mines |
| `sweep` | `MCSweep.cfg` | pass | no message is left out, each is filed in the end, up to the named exceptions | 2 sweeps at once, 2 transcripts of a session with 2 and 1 messages, the first of which is compacted, clock 1..2, 1 fault |

Why these bounds are enough for what the runs look for:

- **DedupWindow.** Three hashes exceed a capacity of two, so that entries are
  evicted; a clock of five lets an entry expire and its successor expire again;
  a stall of one lets two calls lock in the opposite order of their clocks.
- **PalaceStore.** Two handles are the least that can overlap, and two drawers
  with batches of one row the least migration that can be interrupted. The
  theorems are about any number of both.
- **MineGate.** A holder of the palace lock, a thief, and a process that never looks at
  the lock. Each attempt creates each file once.
- **Coordination.** Two actions make a circle. Two leases and a clock of one
  let a lease expire or be released and be followed by another holder's, while
  a renewal is on its way.
- **KnowledgeGraph.** Two days in two months tell a fact re-stated in its month
  from one re-stated in the next; the dates given lie before, at and after the
  present day. Three facts are two that contradict each other and the first one again.
- **Daemon.** Two daemons let one work off its last job while its successor
  begins; two jobs on a channel with room for one make the second wait, be turned
  away, or be lost in the channel. Two clients race to stop, start and ensure.
- **ShardedIndex.** A flush of one shard between two of two shards leaves the
  second shard of a failed flush behind under the name the next one uses; with
  three flushes the third finds what two failures have left. Two loads are one
  more than any property relates.
- **Repair.** Two drawers tell a directory that serves all from one that serves
  some, and leave one to be stored while a repair runs. The number of repairs,
  failures and deaths is not bounded.
- **Mining.** A file appears, changes and changes back; versions have more, fewer
  and no chunks, in the same room and in another, so that drawers are replaced and
  left over. One fault is enough to leave a file half filed.
- **Sweep.** Two messages may have the same time or not, and a fault or a compaction
  falls before, between or after them; the third belongs to another transcript of the
  session.

Deadlock is checked except in `MineGate`, where every process mines once and the
system stops when all have ended. Symmetry is used on interchangeable values
only (threads, hashes, handles, processes that are not direct, agents, actions,
leases, callers, topics, objects, drawers), and
never in a run with a liveness property.

**Fairness.** Three modules have liveness properties. `Daemon` gives weak fairness to `Step(i)`, the daemon's thread, whose jobs come
to an end, and to `Answer(c)`, the end of a submission: it is enabled when there
is room, or no receiver left to wait for. Tokio hands out room in the order in
which it was asked for; here the jobs are finitely many, and weak fairness is
enough. Clients never have to start, stop, submit, wake or drop anything.

`Mining` gives weak fairness to `Mine`, the steps of the mine that runs, and
`Sweep` to `Step(s)` of each sweep: the operating system runs a process that is not
killed, and neither waits for anything. Besides, mines of every mode and sweeps of
every transcript are started again and again (strong fairness of `StartMine(m)`, and of
`Open` by some sweep): nothing in the code starts them, the user or the hooks of an
agent do. Edits, writes, crashes and failures are not fair, and bounded.

## What is proved

TLAPS checks every theorem for every value of the constants that the named
`ASSUME` of the module admits: any number of threads, handles, processes,
agents, callers; any window, batch size, calendar.

| Module | Invariant | Theorems |
| --- | --- | --- |
| `DedupWindowProofs` | `Inv` | `TypeCorrectness`, `LogMatchesIndexAlways`, `ForgottenOnlyWhenDueAlways` (not a property of the run: `ReadmittedOnlyWhenDue` is what follows from it), `ReadmittedOnlyWhenDueAlways`, `DuplicatesAreRecentAlways` |
| `PalaceStoreProofs` | `PalaceInv` | `TypeCorrectness`, `TornOnlyByAccidentAlways`, `ViewsAgreeAtRestAlways`, `MigrationIsLosslessAlways`, `AckedDrawersAreServedAlways` |
| the same, of `Sweep` | `SweepInv` | `SweepTypeCorrectness`, `FiledInOrderAlways`, `SweptIsFiledAlways` |
| `MineGateProofs` | `GateInv` | `TypeCorrectness`, `MutualExclusionAlways`, `NoLitterAlways`, `RefusedOnlyForAReasonAlways` |
| the same, of `Mining` | `MinerInv` | `MiningTypeCorrectness`, `StampIsHonestAlways`, `OneVouchesForAllAlways`, `PassedIsFiledAlways` |
| `CoordinationProofs` | `CoordinationInv` | `TypeCorrectness`, `LeaseExclusiveAlways`, `NoStandstillAlways`, `OnlyHolderTouchesLeaseAlways`, `HandedIsReadyAlways` |
| `KnowledgeGraphProofs` | `GraphInv` | `TypeCorrectness`, `OneCurrentAlways`, `EndedStaysEndedAlways` |
| `DaemonProofs` | `DaemonInv` | `TypeCorrectness`, `OneInChargeAlways`, `BegunInOrderAlways`, `NoJobVanishesAlways` (not a property of the run) |
| `ShardedIndexProofs` | `IndexInv` | `TypeCorrectness`, `PublishedIsWholeAlways`, `Refinement` |
| `RepairProofs` | `RepairInv` | `TypeCorrectness`, `ServedAtRestAlways`, `NothingLostAlways`, `RestOutlivesFailuresAlways` |

In each of them no property is inductive by itself, and the invariant says what
the steps in between rely on.

- **DedupWindow.** That forgetting is due follows from what the log says about
  history (`HistoryMatchesLog`): an entry has as many younger entries behind it
  as admissions have followed, up to the capacity. `SkewBounded` bounds how far
  instants in the log are out of order by `MaxStall`, which is what bounds the
  age behind a Duplicate.
- **PalaceStore.** `Durable` has no regard for accidents: acknowledged rows are in
  the table, and a migration's debts are in the table or in its list. It holds
  because nothing but a purge by source removes rows. `Undisturbed` is layered:
  short of crashes and overlaps there is one handle, which alone can leave the
  file torn (`Alone`), and while nothing at all has happened, table, file and
  memory agree as far as that handle has come (`Calm`).
- **MineGate.** Mutual exclusion rests on the PID guard alone. The process that mines
  has its PID in the file, and the one that signs has it open, empty and as the one
  it created (`Held`), until a look that is out of date is acted upon (`raced`). What
  is read in the file is the PID of somebody who has come through the gate, and who
  stays dead once found dead (`Departed`): that is why removing it robs nobody. Stolen
  palace locks do no harm. `NoLitter` needs every present file to have a creator who
  will remove it, was killed, or could not write into it (`Owned`), and
  `RefusedOnlyForAReason` that a file found and gone again betrays company
  (`Witnessed`).
- **Coordination.** A declared dependency is in the table, on its way there, or
  the creation lost it (`DeclaredKept`); declared dependencies are on older actions, and
  so in no circle (`Ordered`), and any other in the table is explained by the action
  itself or an overlap (`Explained`); what a call found out about leases is still true
  when it acts on it, unless it has met another's grant (`Claiming`).
- **KnowledgeGraph.** What each statement of `add_triple` found out is still true
  at the next one, unless the caller is misled (`Informed`): the fact is not current,
  the fact about to end is all that stands in its way, and nothing does at the insert
  (`Told`).
- **Daemon.** Everything that has begun was accepted before all that is pending
  with a daemon that has not been told to stop (`Ahead`). It survives a begin
  because only the daemon in charge has anything pending that may still begin
  (`OneInCharge`), and because stamps count up along its channel (`Stamped`).
  `Accounted` is what `AcceptedIsSettled` and `SubmittersAnswered` need besides fairness:
  a job is always where its fate says, and an accepted one with a thread that is
  still there, because a thread hangs up only when its channel is empty and nobody
  can put anything into it any more.
- **ShardedIndex.** A flush works at most one generation above the highest manifest,
  those on different generations are in the order of their versions (`Ranked`), and two
  on the same one are known to share it (`Claimed`). One that shares with none
  has only its own shards behind it (`Proper`): that is why it cannot touch what is
  published, and why its manifest names whole shards. For the refinement, what a
  load is going to return has been the register's value since it began (`Witnessed`),
  so every outcome is among `seen`.
- **Repair.** `DrawersKept` and `RestKept` say for every step of a repair which of
  the four directories hold all drawers and everything else, the second of them
  whatever has happened before; `CutShort` says that
  after a repair was cut short some directory does, until a repair goes ahead.
- **Mining.** Whatever time the miner or a project drawer carries is the present one
  of its file or one the file has lost (`StampsKnown`), and so is the relation of that
  time to the content: the project miner takes the time first, so an edit in between
  leaves an old time on new content, which the next mine sees, and never the reverse.
  While the mine is busy with a file, the drawers it found there are of times the file
  has lost (`OldAreStale`), because otherwise it had skipped the file; so the chunks it
  overwrites are none that anybody still vouches for. Therefore one drawer with a time
  vouches for its whole version (`OneVouchesForAll`), which makes skipping by one
  drawer right, up to mines that were cut short; and a file nobody touched since the
  mine came to it is as the mine saw it (`SeenInCalm`).
- **Sweep.** Transcripts are written in the order of time (`LogOrdered`). Before a
  message of a transcript is filed, the older ones are taken care of
  (`FiledInOrder`), and a cursor is the time of some drawer of the session
  (`CursorSeen`). A message older than the cursor is thus older than a drawer of its own
  transcript, and was taken care of before that drawer, or older than a drawer of
  another one, and overtaken. So what a sweep has behind it is taken care of
  (`BehindIsTaken`), be it stored or skipped, and so is what a compaction has removed
  (`GoneIsTaken`): it was stored, or it is lost. That there is a latest drawer at all,
  whose time `Cursor` chooses, is `GreatestExists`, from the well-foundedness of
  the natural numbers.

Only model-checked: `AcceptedIsSettled`, `SubmittersAnswered` and both
`EventuallyFiled`, since liveness under fairness is beyond the prover, and the
properties that the code violates. Every other property of every run is a theorem.
`MiningAssumption` asks among others that `Absent`, which stands for no mode too, be none
of the modes, and `SweepAssumption` that the clock, which starts at one, have at least
one value: neither says anything of the code.

## Where the code and its documents disagree

| Run | Property | Disagreement |
| --- | --- | --- |
| `palace_delete` | `DeleteIsIrreversible` | `delete_id` (`palace_db.rs:2631`) never touches the table that the next open reads; the tool says "Irreversible" (`mcp_server.rs:940`) |
| `repair_failure` | `FailurePreservesOriginal` | "10 repair failures -> 10 preserved originals" (`repair.rs:941`): an incomplete backup is restored over a palace that was left untouched |

Read on the way, and not given a run:

- A handle that found no rows, and then an empty JSON file, serves nothing, although
  another may have stored drawers in between and a third may have emptied the file
  with a flush of its own: `AckedDrawersAreServed` excepts it, and fails without the
  exception on three handles.
- The PID guard "Prevents concurrent mine processes" (`mine_pid_guard.rs:3`) by looking
  for a file (57) and then creating it with truncation (76): two processes that
  both look before either creates both mine. A write that fails there, or at the lock
  (`mine_palace_lock.rs:65-74`), leaves an empty file; an empty PID file refuses every
  later mine.
- When a batch of the migration fails, the search path drops the error
  (`palace_db.rs:2077`) and serves the JSON file; the table has a part of it, which is
  what every later open through the store serves.
- The miner of transcripts has a "mtime-keyed already-mined cache"
  (`convo_miner.rs:190`), but its drawers carry no `normalize_version`, and
  `palace_db.rs:2696` takes those for stale: every mine files every transcript again.
  That also hides that it takes the file's time after it has read the file.
- A file mined as part of a project is skipped by exchange mining as long as it
  does not change, since drawers without a mode count as exchange
  (`palace_db.rs:2679`): the "silently a no-op" that `convo_miner.rs:184` speaks of
  is still there between these two.
- A mine that is killed, or fails to insert a row, half-way through a file leaves
  the rest of it unfiled until the file changes, because one drawer with the
  file's time is enough to skip it (`palace_db.rs:2723`). Chunks that a
  file no longer has stay in the palace: nothing removes the drawers of an
  older, longer version.
- `sweep` is to "ingest every user/assistant message not already represented"
  (`sweeper.rs:213`). Of two transcripts of one session, the older messages of the
  one that is swept second are skipped; so is a message whose insert failed, as soon
  as a later one is in. A transcript that cannot be read counts as empty (112), and
  the sweep as a success. Messages that a compaction removes between two sweeps are
  never filed.
- `tool_lease` finds out with one statement that "Action already has an active lease"
  (`mcp_server.rs:3707`) and inserts its own with another, so two agents that look first
  both get it. A renewal looks at the status of the lease and not at its expiry
  (`palace_db.rs:738`): one that expired since the lookup comes back to life next to
  the one that was granted meanwhile.
- `tool_action_create` accepts an action that depends on itself
  (`mcp_server.rs:3567-3571`), which is never ready, and two creations that overlap can
  wait for one another. A dependency that cannot be stored is logged (3570), and the
  action is handed out without it.
- A lookup of `add_triple` that fails counts as one that has found nothing
  (`knowledge_graph.rs:453-471`), and a second current fact goes in. So it does
  when two connections look before either inserts. The contradicted fact is ended by
  its id (481): an end that it got since the search is rewritten.
- A triple's id ends in the year and the month (`knowledge_graph.rs:494`), so a
  fact goes in once a month. Stating a fact, one that contradicts it, and the first
  again ends the second and then fails on the primary key: nothing is current,
  where `README.md:318` promises automatic invalidation.
- `daemon.rs:4` promises "serial (non-concurrent) access" and `:245` that stopping
  "waits for the background thread to finish"; it sleeps for a hundred milliseconds
  (275), and a longer job runs on beside those of the next daemon.
- A flush of the sharded index that dies or fails in the manifest leaves a torn one
  of the highest generation. Loads then fail, although `usearch_sqlite.rs:380` says
  that "the next load falls back to the previous generation"; the next flush heals
  it. Generations are "monotonic [...] across processes [...] because we always pick
  max+1" (396-398), but two flushes that look before either has published pick the same
  one, and a load may then join shards of both. `flush_sharded_async` writes dimension
  0 (569), which every load with the real dimension refuses (527).
- A backup leaves out symbolic links and succeeds (`repair.rs:1116-1118`): what a failed
  repair restores then lacks what they led to.
- A successful rebuild copies drawers only: the knowledge graph, the coordination
  tables, sessions and the audit log in the palace directory are gone, where
  `README.md:603` and `plugin/skills/_shared/TROUBLESHOOTING.md` speak of rebuilding the index.
- After a death between the two renames "a follow-up repair can still see the old
  data" (`repair.rs:1050`) unless somebody opens the palace first: the directory is
  created anew, and the follow-up repair removes the old one.
- `rebuild_from_sqlite` reports `rolled_back: true` when the restore has failed
  too; a truncation it detects (`truncation_guard`) changes nothing.
- `dedup_window.rs:72` and `:158` call the log age-monotonic, "Front is the oldest". It
  is not, because the clock is read before the mutex is taken (126);
  `DuplicatesAreRecent` bounds what this costs.
- `drawer_store.rs:16-21` says `save()` is a no-op with a drawer store; the code
  writes the JSON file every time.
- `tool_delete_by_source`, also announced as irreversible (`mcp_server.rs:946`),
  removes rows and leaves the JSON file, which the search path serves.
- A renewal or release that changes no row answers with success
  (`mcp_server.rs:3775`). `src/website/reference/mcp-tools.md:439` offers yet other
  statuses than the tool's own description.
- The tool offers the statuses `Done` and `Cancelled` (`mcp_server.rs:1026`), the
  frontier compares with `done` and `cancelled` (`palace_db.rs:642`): an action
  ended in the words of the description keeps blocking its dependents.
- Only `add_triple` compares a fact's end with its beginning
  (`knowledge_graph.rs:430`), and for its own argument alone: `invalidate` and the
  resolution of a conflict (481) can leave a fact that ends before it begins, and
  no query as of a day finds it.
- `daemon.rs:116` says that `submit` returns once the job is finished (it returns
  when the job is in the channel), and `daemon.rs:9` that the daemon starts by
  itself on a submission (`submit_job_sync` returns `None`). After `shutdown`
  through a handle, `ensure_daemon` goes on handing out the dead daemon.
- `supersede` promises half-open intervals (`knowledge_graph.rs:1614`), the
  queries compare with `valid_to >=` (591).

## What is not modelled

- Within the modelled components: PID reuse, `force_cleanup` and the Windows variants of
  the gate; contents, metadata, BM25 and embedding caches of the palace; signals,
  sentinels, checkpoints and team shares of the coordination database (single
  inserts or reads); transaction time, typed memory edges, clusters and the
  queries of the knowledge graph. Of the index, the structure in memory, and files lost with the power (the manifest is not fsynced); of
  repair, scanning, pruning and the repair of sequence ids. Of the miners, how files are
  found, split and assigned to rooms, and `split_mega_files.rs`, `file_index.rs`,
  `diary_ingest.rs`.
- The composition of the filter with the store (`add_drawer_with_dedup`,
  `palace_db.rs:3063`): nothing but its tests calls it at this commit.
- Components left out: those where nothing but string processing, arithmetic on
  scores, calls to services or command-line output would be left of the code. `PROJECT.json` has the
  reason for each.

## Plan

Done: DedupWindow, PalaceStore, MineGate, Coordination, KnowledgeGraph, Daemon,
ShardedIndex with IndexRegister, Repair, Mining, Sweep, in the order of what their failure costs:
lost memories first, then mines that destroy one another's work, then wrong answers.

Next, most important first:

1. **FactTimeline**: an abstract timeline of each topic, implemented by
   KnowledgeGraph under a refinement mapping as long as dates come in order; the
   queries as of a day.
2. **LeaseRegister**: an abstract register of who holds what until when, which
   Coordination implements up to contested leases.
3. **Reservations** (`coordination/file_reservations.rs`) and the retention
   sweep (`background.rs:232`), which fetches its first page again until nothing
   is left.
