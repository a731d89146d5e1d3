# TLA+ models of DataDock

DataDock is one Go process: a web server for browsing, querying and importing
into SQL databases. It embeds a tinySQL database, which also holds its own
tables (settings, users, pipelines, schedules, snapshots of query logic), and it
lets browser sessions connect to other databases. Requests run concurrently;
most state lives in maps under mutexes or in tinySQL rows that are written with
separate `DELETE` and `INSERT` statements, without transactions. The properties
here are about what that concurrency, failures and restarts may do.

## 1. Inventory

Paths are relative to the repository root.

| Component | State | Operations | What makes it correct |
|---|---|---|---|
| **Connection manager** `connections.go`, handlers in `handlers.go`, `session.go` | registry `id -> *DBConnection` (owner, open database), fallback and default IDs, per-session choice, persisted marks, all under one mutex | add, use, share, forget, make default, rebind a session | no pointer dangles, closed databases are never handed out, sessions see only their own and shared connections |
| **Connection persistence** `settings.go`, `admin_auth.go`, `main.go` | one settings row with the shared configurations | save (delete + insert), forget, default; load and auto-detect at startup | the row follows the registry; saved connections survive restarts, forgotten ones do not come back |
| **Accounts and sign-in** `users.go`, `admin_users.go`, `admin_auth.go`, `session.go` | user rows, authenticated sessions with a role and a deadline, failed-login counters, the legacy administrator password | first-run setup, login, logout, password change and reset, role change, disable, delete, session rotation and revocation | an enabled administrator always remains; a session's rights follow the account; lockout bounds guesses |
| **Native RBAC mirror** `native_rbac.go` | tinySQL users and role grants | mirrored by every account operation, bootstrapped at startup | agrees with the account rows |
| **Runtime settings** `settings.go`, settings handlers | a dozen fields under separate mutexes; one row per key | read-modify-write by six handlers; delete + insert per key | two updates do not undo each other; the stored values are those in force |
| **Maintenance mode, audit** `session.go`, `audit.go` | the read-only flag; an append-only log | gate of every mutating route | no gated write begins while the mode is on |
| **Pipelines** `pipelines.go` | versioned pipeline rows, run rows | save (never in place), load the latest, run steps with a bounded worker pool, record the run | versions are unique and immutable; a run executes every step or reports why not; it ends |
| **Match configurations and schedules** `match_config.go`, `match_schedule.go`, `matching.go` | configuration and schedule rows, job registrations, run rows | save, delete, register, unregister, scheduled run | registrations and rows agree; every run leaves a record |
| **Matcher** `internal/match` | none (pure) | normalise, block, score, assign | symmetric scores, blocking loses no equal keys |
| **Logic search** `logic_search.go`, `embeddings.go` | index status per connection, vectors per object | reindex in the background, incremental update by hash, search, delete with the connection | one reindex per connection; the index ends in agreement with the catalog |
| **Job scheduler** `scheduler_executor.go`, `internal/jobs` | tinySQL jobs | execute SQL or a match run | |
| **File watcher** `file_watcher.go` | seen and failed files | scan, import, move on | a file is imported once; failures are retried |
| **Snapshot export and restore** `snapshot_restore.go` | database file, backups | validate, back up, replace the file; restart | the restored data is what a restart loads |
| **Records and queries** `db.go`, `queries.go`, `resultutil`, `bi.go` | table rows, a row-count cache, query history | insert with a generated ID, update, delete, windowed reads | IDs are unique; a window is what paging promises |
| **Row policies** `row_policy.go` | one policy per table and role | save, delete, rewrite of queries | a session sees the rows its policy admits |
| **Migration** `migration.go` | source and target tables | copy a table between connections | all rows or an error |
| **Importers** `internal/importer`, `geojson.go` | none (pure) | CSV, Excel, JSON, XML, spatial formats, PMTiles | what is parsed is what was written |
| **SQL classifier** `internal/sqlutil`, `dialect.go` | none (pure) | split, classify, quote | a read-only statement is never a write |
| **Routing, maps, tiles** `routing.go`, `map_*.go`, `geojson_export.go`, `spatial_report.go` | caches | shortest routes, tiles, exports | |
| **LLM, RAG** `llm.go`, `llm_discovery.go`, `rag.go` | provider settings | prompts over HTTP | external service |
| **Catalog browser** `catalog_browser.go`, `catalog` | none | lists the objects of a server | |
| **Verbose log** `verbose.go` | none | redacted log | |
| **Web client** `static/`, `templates/`, `docs/`; **deployment** `deploy/`, `scripts/`, `.github/` | DOM; none | rendering; packaging | |

### How the parts interact

- A request enters through `withSession` (`session.go`), which resolves the
  session's connection once and puts it in the request's context; everything the
  request does later uses that object, whatever happens to the registry meanwhile.
- Requests share state through maps under a mutex each (registry, sessions, login
  attempts, settings) and through tinySQL rows. A mutex covers one operation on one
  map; a handler that needs two operations, or a map and a row, is not atomic.
- Background goroutines (cron jobs, scheduled matches, reindexing, the file watcher,
  the workers of a pipeline run) use the same functions without a session.
- The settings table is shared by the runtime settings, the saved connections and
  the legacy password hash; every settings save writes that hash again.
- At startup (`main.go`): load the settings, restore the connections, detect others
  from the environment, rebuild the RBAC mirror, migrate the legacy password. A clean
  stop writes the snapshot in memory mode; a crash falls back to the last one.

### What is hard

Interleaved handlers that check, then act (first-administrator setup, the last
administrator, saving connections); work that goes on after the fact it started from has
changed (logins, admin requests, reindexing, scheduled matches); replacements by
`DELETE` and `INSERT` that may stop half-way; restarts from an older snapshot; and
the channels, cancellation and deadlines of a pipeline run. `PROJECT.json` lists each
hazard at its line, with the property about it or the reason there is none.

## 2. The modules and how they depend on each other

| Module | Composes / refines | Questions |
|---|---|---|
| `Connections` | | registry safety, isolation of sessions |
| `ConnectionStore` | extends `Connections` | what is stored, through failures and crashes |
| `Accounts` | | last administrator, session rights, old passwords, RBAC mirror |
| `PipelineRun` | refines `PipelinePromise` | the worker pool and the run's record |
| `PipelineStore` | | versions, imports, runs traceable to their definition |
| `BI` | | owners of saved queries, charts and dashboards |
| `Settings` | | lost updates, rows saved one by one, restarts |
| `Snapshot` | | restores, backups and what a start loads |
| `LoginLockout` | | how many guesses a lockout admits |
| `Records` | | identifiers, row policies |
| `MatchSchedule` | | rows, cron entries and runs; no request waits for ever |
| `FileWatcher` | | tables catch up with files that change |
| `LogicIndex` | | what a reindex leaves behind |
| `Matcher`, `Tiles`, `TableImport`, `RowReading`, `Statements`, `Gates`, `Routing` | | algorithms against reference definitions |
| `Services` | extends `Records`, instances of `PipelineStore`, `BI`, `Settings`, `Snapshot`, `LoginLockout` | the services side by side |
| `Background` | extends `MatchSchedule`, instances of `FileWatcher`, `LogicIndex` | the background work side by side |
| `MCConnections` | extends `ConnectionStore` | one run |
| `MCAccounts`, `MCServices`, `MCBackground` | each extends its component | the values of the constants for TLC |
| `AccountsProofs`, `PipelineRunProofs`, `LoginLockoutProofs` | each extends its component | the theorems of section 5 |
| `ConnectionsProofs` | extends `ConnectionStore` | theorems about the registry and about what is stored |
| `ServicesProofs` | extends `Services`, an instance of `LoginLockoutProofs` | theorems about records, BI, pipelines, settings and restores |
| `BackgroundProofs` | extends `Background` | theorems about schedules and the index |
| `Algorithms` | extends `Matcher`, `RowReading`, `Statements`, `Gates`, `Routing` | what is right of the answer to a question about each |
| `AlgorithmsProofs` | extends `Algorithms` | folds and recursive functions; theorems about candidates, reading rows, statements and gates |
| `RoutingProofs` | extends `AlgorithmsProofs` | the theorem about routes |
| `MCAlgorithms` | extends `Algorithms`, instances of `Tiles`, `TableImport` | one run |

`Services` and `Background` instantiate components that share no state, with their
constants left open; the proofs are about these instances, too. `MCServices` and
`MCBackground` put them into one run each. As they share no state, their product would only multiply states: a variable `part` names
the one that moves in a behaviour, the others stay as they were initialised, and the
properties are those of the components. `MCConnections` does the same with the registry and the
store, which do share state: the part `registry` is `Connections` with two sessions, beside a
store that is out of date (`degraded`), the part `store` is `ConnectionStore` with one. The fairness of a component is conjoined with
its part. `MCAlgorithms` asks questions: a behaviour chooses a topic and half of an
input, then the other half (`asked`), and each invariant evaluates the algorithm and its
reference on the question; the routing search, which has steps, is a topic of its own.

Worth doing next: theorems about the scores of the matcher, about the importers and the tile
archives, whose readers are written with `RECURSIVE` operators, and about the convex hull;
abstract specifications of the settings and of the index that their modules implement.

## 3. What is modelled

### Connections

`conns` is `ConnectionManager.conns`, `conn[o]` the fields of the connection object `o`
that matter (ID, owner, whether its database is open); `active`, `defaultID`,
`activeBySession` and `persisted` are the fields of the same names. Every method that
takes the mutex is an operator, and an action where a handler calls it. A handler between
whose calls others may run is several actions: `addConnectionHandler` reads the form
(`SubmitConnection`), opens the database (`OpenFails` returns here, with the registry
untouched), registers it (`AddConnection`) and chooses it (`FinishAdd`), and `adding[s]`
says how far it is. `disambiguateIDLocked`
walks through `Candidates[s][id]`, an arbitrary finite sequence of IDs: the suffix derived
from the session and its counter. `overwritten` is history: the IDs under which `Add` has
replaced a shared connection by the private one of a session (`connections.go:348`), until
somebody shares or removes it.

### ConnectionStore

`ConnectionStore` extends `Connections` with the settings row `managed_connections`
(`stored`, a sequence of rows because `DELETE` and `INSERT` are separate and two saves
can insert twice) and one record per admin request (`op[a]`), which stops after every
statement. A startup that discovers databases saves them, too: `starting` stands between
its statements (`StartupDelete`, `StartupInsert`, or `StartupFail`, which the code only
logs), before the first request is served. `Restart` is a clean stop and start, `Crash` a start from the stored rows (or, in
memory mode, from `snapshot`, what the last clean stop left). `loadManagedConnections`
stops at the first database that cannot be opened; detection from the environment
(`EnvIDs`) follows. `promised`, `forgotten` and `degraded` are history: what an admin
was told, and whether a failure has happened that the promise excludes. `MidSave` says that a
save stands between its delete and its insert. What is stored is IDs; the address that a
configuration opens is left out, so that a connection is saved if its ID is.

### Accounts

`users` is the table, one record per row; `authed[s]` the signed-in sessions with the
copy of the role they got; `legacy` and `stored` are the in-memory and stored
hash of the legacy password; `mirror` is the tinySQL user of each name. A request
`op[r]` has a kind (login, setup, create, role, disable, enable, reset, delete,
change) and stops before each statement, before the slow hash and before each
revocation, so that others interleave there. `StatementFails` is a statement that returns an error,
with the return or the rollback of that place. `SignOut` (logout and expiry), `SaveSettings`
(any handler that saves the settings and with them the hash), `SetupMode` (auth-mode
none) and `Restart` (with the startup migration and the mirror's bootstrap) are actions of their own. Names are compared exactly, and a session's deadline is an
action that may happen at any time. Spellings of one name and the lockout are
`LoginLockout`. `Restart` finds the rows as they were, which the write-through modes and a
clean stop in memory mode guarantee; so do the restarts of `Settings` and `FileWatcher`. A
crash in memory mode goes back to the last clean stop as a whole, which `ConnectionStore`
has for the rows it keeps.

### PipelineRun and PipelinePromise

`PipelinePromise` says what a caller of `runPipeline` relies on: steps start in order, at
most `parallel` at once, each ends once, only steps that never started are skipped,
and the verdict is honest. `PipelineRun` is the code: the producer, the workers, the
goroutine that closes the results, the collector, and the record. An action is one
channel operation or one return. The unbuffered `jobs` channel is a joint step of
producer and worker (`Handover`); `results` is a sequence with room for every step;
a `select` with several ready cases is a choice between actions, so a worker may take
a step after the cancellation. `Fate(i)` maps the places a step can be at (a worker,
the channel, the collector, the final lineage) to the outcome of `PipelinePromise`.
A statement's result is a choice of success and failure; SQL text, sources and
digests are left out.

### PipelineStore

`rows` is the pipelines table and `runs` the recorded runs, each with the definition it
really ran as history; both are sets, as no query asks for the order of the insertions
(an export sorts, `Listings`) and equal rows are never told apart. A save is two steps (`ReadVersion`, `Insert`), an
import one pair per definition, in the order of name and version, with the digests it
knows; a run loads its definition, and records name and version when it ends. Deleting and
exporting are one statement each. Definitions are records of a name, a parallelism that
`IsValid` normalises (0 is 1), and steps that read or write.

### BI

Three tables kept alike, indexed by `Kind`, sets of rows for the same reason. A save looks the object up, checks its owner,
deletes the rows of its ID and inserts; a removal looks up, checks and deletes. A lookup that
finds no row is followed by no check, for saves and removals alike (`handlers.go:3951`,
`:3985`), and an object without an owner, left from before there were accounts
(`handlers.go:3894`), is anybody's. A form may name any object, there or not, and any owner,
which a new object keeps. Sessions belong to an administrator, to users or, without accounts, to nobody.
`sure` is history: the request found the object with one named owner, and nobody who did
not has stored a row of it since.

### Settings

`memory` is `RuntimeSettings` as the process has it, `stored[k]` the rows of key `k`. Six
settings stand for the ways the code treats one: `llm` and `embedding` (sent by the form
or, if empty, kept, `Carried`), `index` (stored text that is parsed with a default),
`warm` (a flag), `maintenance` and `password` (carried over by forms that lack
them). A handler copies, changes and applies in one of the shapes the six handlers have;
a save then goes through the keys in an arbitrary order (a Go map), two statements each,
storing what memory holds when the save began. `Restart` loads, merges the command line
and applies. `synced` and `lost` are history: whether the last change was saved to the end by
a request that ran alone, and whether a restart ever found no row of the password.

### Snapshot

`memory`, `file` and `backups` are databases, as sets of writes. Writes pass the gate and
happen later (`Admit`, `Write`); jobs do not ask. A restore is staged, validated, backed
up and renamed (`Stage`, `Backup`, `Replace`), each of which can fail; a clean stop writes
memory to the file, a crash does not. Errors of `os.Stat` other than a missing file
(`snapshot_restore.go:144`) are left out.

### LoginLockout

`attempts` is the map of counters, `now` a clock in ticks. The counters are of names as they are
typed (`admin_auth.go:501`), while an account is found under every spelling that differs in the
case of letters (`users.go:125`): `Account` holds the spellings of each. A login asks the gate,
looks the account up (`LookupFails`), compares and records. `wrong` counts per name what was
compared since its counter was last forgotten (by a success or an expiry).

### Records

One table and its policy. A request resolves the policy, then its session's name, then
runs its statement; inserts read `MAX(id)` and insert under `recordIDMu` (`holder`). `rows`
is indexed by the number of the insert, which tells rows apart that share an identifier. The
policy is replaced by a delete and an insert. A session without an account has the empty text as
its owner value, and so its rows are those with an empty owner column, which an
administrator's insert may leave. `touched` collects the rows that requests
under a policy read or changed, `misread` whether a failed `MAX` gave identifier 1.

### MatchSchedule

`configs[c]` counts the rows of a configuration, `schedules[c]` holds the rows of its
schedule, `entries` the registered cron entries, `holder` is `namedConfigMu`. Saving goes
through lock, load, delete, insert, registration and unlock; deleting takes no lock and
goes from the configuration to the entry to the schedule's row. A run (`Fire` to `Record`)
loads, matches, looks the connection up, writes and updates its schedule's row. `Fail` is a
failing statement with what the code then does.

### FileWatcher

`files[f]` is a stamp of size and time and what the file holds (nothing, perhaps), `seen` the
stamp that was noted, `tables` what was imported last, and whether without a gap. The watcher's
loop is `Scan`, then `Stat`, `Read` and `Import` per file, and files
change in between; two files may map to one table. Writing a file gives it a new stamp or one
it had before (`blurred`, history), since the watcher compares size and time only. An import
whose INSERTs are refused or too late counts these rows as skipped and succeeds
(`ImportSkips`); only a file that cannot be parsed, or a table that cannot be created or
truncated, is tried again (`ImportFails`). An emptied file leaves the rows of before.

### LogicIndex

`rows` is the table of vectors, with the text (hash) and the model they are stored
under. A reindex takes the flag, resolves the connection, fetches the definitions one by
one, compares with the stored hashes, replaces row by row and prunes; others alter the
catalog, change the model, forget and register the connection. `exact` is history: the
last reindex saw no failure and no change.

### The algorithms

- **Matcher**: `Match`, `runMatch` and what they call. Words are members of a small set,
  `Fold` is the table of foldings (case, umlauts, digraphs), `Lowered` that of letter
  case alone (columns, `exact_ci`), scores are exact
  fractions where the code has floats, NaN is a fraction with denominator 0. The
  reference scores a pair without a loop (`MeanOfWeakest`), and states which pairs
  blocking must keep and which candidates must survive. Both tables have the same list of
  columns, and the key columns, which only label the answer, are left out.
- **Tiles**: the readers of PMTiles and MBTiles and the tile handler, with varints, delta-coded
  directories, the Hilbert curve and the flip of rows. The reference numbers tiles from
  the coordinates (`TileID`), the inverse of what the code does.
- **TableImport**: `importRecords` with headers, type inference and truncation, and the
  readers that have an algorithm: fixed width, INI, GeoJSON, HTML tables, iCalendar,
  SQLite tables, JSON objects.
- **RowReading**: the three window readers, pages of a table under a row policy, and the
  migration of a table, which may fail at any row, between databases either of which may
  lack it, creating it or not.
- **Statements**: the tokenizer, which skips leading parentheses, and the separator scanner
  over characters, and the classification over tokens (a byte order mark is left out). The reference collects the verbs a database would execute.
- **Gates**: which routes let a request through, by authentication mode, role, maintenance
  mode and mirror.
- **Routing**: `loadRoutingGraph`, Dijkstra's search with outdated heap entries (one
  action per pop), the path, its line and the convex hull. A cost is a column, a property (an
  edge without it refuses the request) or the distance. The reference computes costs
  by rounds.

## 4. Runs

| Run | Module, configuration | Shows |
|---|---|---|
| `connections` | `MCConnections`, `MCConnections.cfg` | Whatever IDs are submitted and whatever happens while their databases are opened: the registry's pointers do not dangle, dropped connections are closed, no session displaces another's private connection, and none works on another's private connection except under an ID of a shared one that was overwritten. With one admin request at a time: the row follows the registry, saved connections survive unless a save is cut short, forgotten ones stay gone, through startups that save, failing statements, unreachable databases, crashes and both storage modes. |
| `accounts_serial` | `MCAccounts`, `MCAccountsSerial.cfg` | One request at a time, with failures, restarts and sessions that come and go: an administrator remains, roles and passwords take effect, the mirror agrees. |
| `accounts_concurrent` | `MCAccounts`, `MCAccountsConcurrent.cfg` | Two requests at once: a session's rights are those of an enabled account unless a change overtook its login or is about to revoke it. |
| `last_admin_race` | `MCAccounts`, `MCLastAdminRace.cfg` | *Violation.* Two administrators demote or disable each other, and nobody is left. |
| `pipeline_run` | `PipelineRun`, `MCPipelineRun.cfg` | The worker pool implements `PipelinePromise`, nobody sends on the closed channel, the run ends and its goroutines are gone. |
| `run_unrecorded` | `PipelineRun`, `MCRunUnrecorded.cfg` | *Violation.* A run longer than five seconds leaves no record: the deadline of the record starts before the steps. |
| `services` | `MCServices`, `MCServices.cfg` | Pipelines stay traceable and imports add only what is new; who was found to own a BI object removes no other owner's row; settings survive saves, other forms and restarts; restores lose no database; a lockout bounds the guesses at a name as it is typed; identifiers are unique; a row policy holds. |
| `account_guesses` | `LoginLockout`, `MCAccountGuesses.cfg` | *Violation.* Two spellings of one account stand twice the guesses. |
| `anonymous_rows` | `Records`, `MCAnonymousRows.cfg` | *Violation.* A session without an account reads a row whose owner column is empty. |
| `background` | `MCBackground`, `MCBackground.cfg` | No name has two rows, an enabled schedule is registered, every request for a schedule ends, tables take on the latest state of their files, an undisturbed reindex is exact. |
| `restore_lost` | `Snapshot`, `MCRestoreLost.cfg` | *Violation.* After a restore, the clean stop of the restart the operator is asked for overwrites the restored file. |
| `algorithms` | `MCAlgorithms`, `MCAlgorithms.cfg` | The algorithms agree with their reference definitions on all inputs within the bounds. |

### Bounds, and why they are enough

- **connections.** One ID every session types, the ID its suffix leads to and the
  built-in one; three objects besides the built-in one, so that a replaced connection,
  its replacement and a third can coexist. Two sessions on the registry, as what goes wrong
  between sessions is between an owner and one other; one beside the store, where
  it does not matter who opened a connection once it is shared. There the session opens one
  connection, startup discovers the other, and one administrator's request is under way.
  Statements fail and databases are unreachable in the write-through mode only, to keep the
  run short; the theorems cover both modes. Objects are symmetric.
- **accounts.** Two names (the administrator's and one more), two rows, two sessions,
  and two passwords (one where passwords are not the question); three roles serially, two
  concurrently, since `user` and `readonly` differ only in the mirror. Two rows let a
  duplicate insert happen.
- **pipeline_run.** Three steps and one to four workers: fewer workers than steps, as
  many, and more (the code starts no more than there are steps). `run_unrecorded`
  needs one worker and two steps.
- **services.** Two requests wherever requests interleave (pipelines: one that writes and
  one that runs; BI: of an administrator, a user or nobody; logins: three, as many as the failures that lock, at an account of two spellings), and per part what its
  hazards need: two versions of a pipeline and a bundle with a repeated, a
  differently spelled and an invalid definition; two identifiers in one BI table, which share nothing with the other two tables; one crash or one failing
  statement at any point of a save, after which another request comes; two stops of the
  server with one write and two restores; two records, one change of the policy.
  `account_guesses` needs two logins, `anonymous_rows` one record.
- **background.** One configuration, two requests, one run and one failure; three files
  on two tables, three states of the files and one import that fails or skips rows; two objects, texts and
  models, two reindexes and three changes by others.
- **algorithms.** One row against two, either way round, with and without a threshold and with columns
  that are there or not, and up
  to two fields of every comparison method that can be combined; strings of four letters of three; directories of two entries with
  runs of up to five tiles on levels 0 to 2 (the curve up to level 4); imports of three rows and
  two columns over a cell of every type, with ragged rows; texts of six characters over the
  quotes, comments, separators and a parenthesis; five tokens over the verbs, brackets and functions that
  matter; every situation of the gates; every graph of four edges over four nodes that
  share one edge, with three costs in a column, a property that one edge lacks, or none, and limits within and beyond them; hulls of up to five points of a grid.

Deadlock is checked where a system must always go on (`PipelineRun`); the other
configurations switch it off because a system in which every ID, row, object or change
that the bounds allow is used up may stop, and the questions of `MCAlgorithms` end.

### Fairness

- `PipelineRun!FairSpec`: weak fairness of each goroutine's enabled operation (Go's
  scheduler runs a runnable goroutine), of the collector and the record, of the end of a
  statement *once its context is done* (a running statement may otherwise take for ever;
  tinySQL checks the context), and of the interruption, which is the query timeout
  (`withQueryTimeout`; 60 seconds unless the operator switches it off, in which case
  no run promises to end). Failure of a step, an early interruption and the end of the
  record's context are not fair: they may never happen.
- `MatchSchedule` (in `MCBackground`): weak fairness of the steps of a request that is
  under way (its statements are bounded by the query timeout), strong fairness of taking
  the lock, because `sync.Mutex` hands over to a waiter that starves. Runs, failures and
  new requests are not fair.
- `FileWatcher` (in `MCBackground`): weak fairness of the watcher's loop, which a ticker
  drives. Nobody has to write files and no import has to fail.

## 5. Proofs

All proofs are for every value of the constants, from the named assumptions of the
modules, which say that the constants are of the kind the model needs:
`ConnectionsAssumption`, `StoreAssumption`, `AccountsAssumption`, `NoneAssumption`,
`RunAssumption`, `PipelineAssumption` (what is sent is a pipeline definition),
`SettingsAssumption` (the forms have the fields the handlers
read, a save ranges over all settings, an empty text is no password hash) and
`IndexAssumption` (there is a text and a model). TLC evaluates each of them. The bounds of the
runs (`MaxRows`, `MaxEvents`, `MaxStops` and the like) are constants without an assumption, so
the theorems hold for every bound.

What a theorem needs beyond that is a hypothesis it states. They are of two kinds. Some say
that a value of the model is what it stands for: the mark of a free lock is nobody's
name (`None \notin Actor`, `Nobody \notin Req`), the requests are finitely many and the
limit of failures is positive (`Limits`), limits and sizes of pages are positive (`Sizes`), distances are numbers and only those of a point to itself are 0
(`Metric`), a graph is finite and has numbers or nothing as costs (`Loaded`, part of `RoutingSpec`), and the line
of an edge runs between its nodes (`Drawn`; the code takes the lines from the data as they are). `Asking` says of every question that
it is one: what is asked about rows are rows and numbers, and so on; the answers are right whatever
the order of the questions. About the matcher it says that thresholds and scores are finite: NaN,
which a numeric field may parse, is passed by nothing (hazard at `match.go:248`). The others restrict the behaviour, and each is one
without which the property is false; section 6 tells what goes wrong:

- `Serial`: one request for accounts at a time (`last_admin_race`, and `accounts_serial` with
  two requests).
- `OneAdmin`: one administrator's request about saved connections at a time; the sessions
  beside it are any number.
- `OneWriter`: one request that saves or imports pipelines at a time, beside any number of
  runs, exports and deletions.
- `MirrorWorks`: the statements about the mirror succeed; their errors are logged and
  ignored (`native_rbac.go`).

| Theorem | Statement | Argument |
|---|---|---|
| `ConnectionsProofs!RegistryTypes`, `RegistrySafe`, `DroppedAreClosed` | `Spec => []RegistryInv`, by its conjuncts | `RegistryInv` adds to the properties that the built-in ID stays registered. Each operator of the manager (`Add`, `Remove`, `SetDefault`, ...) has a lemma. |
| `ConnectionsProofs!NotDisplaced` | `Spec => PrivateNotDisplaced` | Follows from `RegistryInv` for the current state and a case per operation. |
| `ConnectionsProofs!Isolation` | `Spec => []OnlyOverwrittenLeak` | Not inductive: a visible choice may become invisible when the connection behind the ID changes. `ChoiceVisible` (whatever a session chose is visible to it), `BuiltInShared`, `FallbackShared` and `PersistedShared` together are, each except under an ID of `overwritten`. |
| `ConnectionsProofs!RegistryEndures`, `IsolationEndures` | the same of `StoreSpec` | `StoreImplements`: every step of an administrator's request, of a failure or of a discovery is a step of `Connections` or leaves the registry alone; a restart or a crash leaves a booted registry, for which the invariants hold (`RequestsInv`: what was stored, or is about to be, names each connection once). Any number of administrators. |
| `ConnectionsProofs!StoredMatches`, `SavedStay`, `ForgottenGone` | if `OneAdmin`, `StoreSpec => []StoredInSync`, `[]SavedSurvives`, `[]ForgottenStaysGone` | `Saving`: the value that the request under way writes is what a save would write now, since nobody else changes the persisted connections. `StartupAlone`: nobody else is at the row while startup saves. `StaysPromised` and `StaysForgotten` carry the promises over to the marks in memory and to the snapshot a crash in memory mode falls back to. |
| `AccountsProofs!Types` | `Spec => []TypeOK` | `StepsFit`: each kind of request stands only at steps of its handler, with the fields those steps use. |
| `AccountsProofs!SessionsFollowAccounts` | `Spec => []SessionsFollow` | `CopiesCurrent`: the copy of the row that a login works with is current unless the login was overtaken. `SessionsMatch` states the property with the revocations still due. Each handler step has a lemma about the requests it overtakes. |
| `AccountsProofs!AdminsRemain` | if `Serial`, `Spec => []NobodyLockedOut` | `OneRow`: one row per name, as nobody inserts between the check and the insert. `Guarded`: the rows a request is about to change leave an enabled administrator over, and whoever creates an account was let in by one. |
| `AccountsProofs!RolesInEffect` | if `Serial`, `Spec => []RoleTakesEffect` | `RolesMatch` excuses only a session whose account is being demoted by the request under way; without one, nobody is excused. |
| `AccountsProofs!OldPasswordsOut` | `Spec => []OldPasswordOut`, for any number of requests | Not inductive: it excuses every session of an account that anybody is changing. `PasswordsMatch` names the request that is about to end the session (`Ending`, not the one that spares it); if two changes overlap, the other one ends it. `Knows`: a login that nothing overtook carries a password that opens its account. |
| `AccountsProofs!MirrorInStep` | if `Serial` and `MirrorWorks`, `Spec => []MirrorFollows` | `Told`: what the request under way is about to tell the mirror fits the rows; nobody else is waiting to (`Telling`). |
| `PipelineRunProofs!Types`, `NoSend`, `RoomForResults` | `Spec => []TypeOK`, `[]NoSendOnClosed`, `[]AlwaysRoom` | `RunInv`: a step handed over is at exactly one place (`OnePlace`), and work stops early only for a reason the collector knows (`StopsForAReason`). Room: the steps in the channel are distinct and not the reporter's, so fewer than all. |
| `PipelineRunProofs!PoolKeepsPromise` | `Spec => KeepsPromise` | Refinement. `FateFacts`: the choices in `Fate` have one candidate, by `OnePlace`. Then `Handover` is `Start` (a waiting worker is a free slot: the running steps inject into the other workers), `StepEnds` is `End`, `Settle` is `Settle`, and the rest changes no fate. |
| `BackgroundProofs!NamesUnique` | if `None \notin Actor`, `Spec => []OneRowPerName` | `LockHeld`: who is between lock and unlock holds the lock. `RoomToInsert`: a row that is about to be inserted is not there, which the holder's delete established and no other step undoes, as only the holder inserts. |
| `BackgroundProofs!SchedulesRegistered` | if `None \notin Actor`, `Spec => []EnabledIsRegistered` | `RowSaved`: the row that is about to be registered is the one in the table, or that is gone. `EnabledAccounted`: the entry is there, or a request is about to add it or to delete the row; a delete, which takes no lock, is thereby excused. |
| `BackgroundProofs!IndexIsExact` | `Index!Spec => []IndexExact` | `OneReindex` (the flag), `OneRowPerObject` (the row that is about to be inserted was deleted, and nobody else inserts). `Undisturbed`: as long as nothing disturbed a reindex, the definitions it fetched are the catalog's, and each object is still to be looked at or has its row. |
| `ServicesProofs!OwnersHold` | `Objects!Spec => OwnersDecide` | Not inductive by itself: the row a request deletes may be another's insert. `Settled`: who is sure of an object may change what any of its rows says, and any that a save which is sure will insert (`Owners`), and these all agree with the owner the save itself holds (`Decided`). An insert of a save that is not sure leaves nobody sure. |
| `ServicesProofs!RunsTraced` | if `OneWriter`, `Pipes!Spec => []RunTraceable` | `VersionsUnique`, kept because the version a writer holds is above all stored ones (`VersionFree`): nobody else inserts, and deletions only take away. `RunStands`: until a deletion, what a run loaded is the definition stored under its version. |
| `ServicesProofs!ImportsAddNew` | if `OneWriter`, `Pipes!Spec => ImportAddsNew` | `Knows`: an import knows the digests of all rows that bear a name it knows. `IsNews`: the definition it holds is not among them. |
| `ServicesProofs!PasswordStays` | `Tuning!Spec => []PasswordKept` | `PasswordSafe`: no copy of the settings that a request or main will apply, and no row, has an empty hash. A form is the exception until it has carried the hash over (`HasPassword`). |
| `ServicesProofs!SavedAlone`, `RestartsKeep` | `Tuning!Spec => []SavedWhenAlone`, `RestartKeeps` | `Written`: what an actor that runs alone has not stored yet is on its list. `SyncInv` with `Fixed(memory)` (the applied settings are unchanged by applying them again) gives the restart. |
| `ServicesProofs!OpenedSurvives` | `Restores!Spec => []OpenedKept` | `BackedUp`: whoever is about to replace the file has seen the database of the start go into a backup, its own or an earlier one. `NobodyRestores`: no request survives a stop. |
| `ServicesProofs!GuessesHeld` | `GuessesLimited` for the instance in `Services` | By instantiation. |
| `ServicesProofs!IdentifiersUnique` | if `Nobody \notin Req`, `Spec => []IdsUnique` | `Fresh`: the identifier an insert holds is above all in the table; updates and deletes keep it so, and other inserts wait (`LockHeld`). That there is a highest identifier follows from `Bounded` and the least-number principle. |
| `ServicesProofs!PolicyHolds` | if `Nobody \notin Req`, `Spec => []OwnRowsOnly` | `PolicyKnown`: a request that is sure to be restricted is on its way to `Resolve`, or is restricted and owns what it writes. |
| `LoginLockoutProofs!GuessesLimited` | if `Limits`, `Spec => []GuessesBounded` | `Counted`: the wrong guesses at a name that is not locked are counted or held by a login that will count them. `Limited`: together with the logins that compare now they are below the bound. A login moves between disjoint sets, so their cardinalities add up to at most the requests. |
| `AlgorithmsProofs!CandidatesAnswered` | `Asking => []CandidatesRight`, for any tables and options | `Best` is the invariant of the loop over the targets: the list is in order, no longer than it may be, has each candidate at most once, and a good one that it lacks is not better than any it has. An insertion keeps that (`InsertDescends`, `InsertApart`, `InsertKeeps`): what it drops is the last of a full list. `LessFacts`: fractions are ordered. `NamesakesMeet`: a name in common is a key in common. `ReportFacts`: the report of a run places the candidates of one row after the other and loses none. |
| `AlgorithmsProofs!RowsAnswered` | if `Sizes`, `Asking => []RowsRight`, for any rows, offsets, limits and tables, missing ones included | Each loop is a fold with an invariant: what was read after `k` rows is the window of the first `k`. The windows of a walk meet (`PartsMeet`), pages are the rows of their owner (`PagesFlattened`). |
| `AlgorithmsProofs!GatesAnswered` | `Asking => []GatesRight`, in every situation | By the cases of mode, role, setting and session. |
| `AlgorithmsProofs!StatementsAnswered` | `Asking => []StatementsRight`, for any text and any tokens | `SeeTheSame`: from the last position to the first, the scanner that carries its state sees what the tokenizer, which jumps, sees; a literal or comment is one jump of the one and many steps of the other (`FoundLiteral`, `FoundInside`). `FurtherReads`: EXPLAIN ANALYZE leads only to texts classified like the whole; `MainFacts`: a WITH that counts as SELECT has no modifying verb before its statement. |
| `RoutingProofs!RoutesFound` | if `Metric`, `RoutingSpec /\ Drawn(graph) => []RoutesRight` | `SearchInv` is Dijkstra's invariant: costs that are final do not change (`Nearest`), the arcs of final nodes are relaxed (`Spread`), and each node was reached from one that was final earlier (`Led`, `Ranked`; costs alone would not order them, as arcs may be free). By that order the final costs are those of the rounds (`CheapestFound`). `PathFound` and `PathCosts` unfold the path, `LineLeads` its line. |

The algorithms are folds and recursive functions, and induction with an operator as parameter is
beyond the installed provers. `AlgorithmsProofs` therefore states induction for sets: a set
of numbers that has 0 and each next number (`UpTo`) or each one before (`Downwards`) has all, by
the least-number principle; a fold is a function on the sets of positions whose step is a function
(`IsFold`, `FoldExists`, `FoldKeeps`), and a function defined by recursion exists
(`RecursionExists`). The theorems about algorithms say nothing of the mapping from characters
and values to the members of small sets (section 3); that is the model's part.

Every safety property that a passing run checks is thereby proved, except two of
`algorithms`. `ScoresRight` needs long arithmetic on fractions, letters and digits (a mean of weakest
scores, the Jaro-Winkler similarity, check digits), products of variables that the SMT solver
does not decide. `MapsAndFilesRight` speaks of readers written with `RECURSIVE` operators, and
of a curve and a hull. Both stay with TLC. Only model-checked are also `RunEnds`, `GoroutinesEnd`,
`RequestsEnd` and `CatchesUp`: liveness under fairness is beyond the prover.

## 6. Where the code and its documents differ

Each of these is a violating run, and `PROJECT.json` quotes the sentence it violates:

- `last_admin_race` (`users.go`, `assertNotLastEnabledAdmin`): two requests count two
  administrators and remove one each.
- `run_unrecorded` (`pipelines.go`, `runPipeline`): a run of more than five seconds leaves no record.
- `restore_lost` (`main.go` and `snapshot_restore.go`): a clean stop overwrites what was restored.
- `account_guesses` (`admin_auth.go:501`, `users.go:125`): each spelling of a name has a counter of
  its own, and all of them lead to one account.
- `anonymous_rows` (`row_policy.go:142`): the empty owner value of a session without an account equals
  an empty owner column.

Three more sentences of the code and its documents do not hold. The modules state them, and TLC
refutes them in an instance of the runs' size; what holds instead is the property of a run:

- `Connections!ActiveIsVisible` ("other concurrent users on the same running server neither see
  nor can switch to it", `handlers.go:1230`): a session that submits the ID of a shared
  connection, the built-in one for example, or whose own ID an administrator shares while its
  database is being opened, replaces it by its private one (`connections.go:348`, `:360`), and
  who works on the shared one is handed that. It
  keeps the persisted mark, too, so the next save stores it. `OnlyOverwrittenLeak` excuses the
  IDs under which this has happened, and no others.
- `BI!OnlyOwnersChange` ("only the owner or an admin may modify", and "delete", an object,
  `handlers.go:3953`, `:3987`): an object is momentarily missing while it is saved
  (`bi.go:138`), and who looks it up then is not asked for its owner; the delete or save that
  follows removes the owner's new row. The same way a form that is still
  open creates a deleted object again, with the owner the form names. `OwnersDecide` is about
  requests that found the object with an owner (`sure`).
- `FileWatcher!ComesToHold`, under `FairSpec` ("the table name is derived from the filename and
  refreshed on update", `README.md:277`): an import that lost rows counts as a success
  (`file_watcher.go:86`), and the table lacks them for as long as the file does not change.
  `CatchesUp` is about the rows that are there.

A property that holds under an assumption of its run is violated without it; change the
constant and TLC shows how:

- `connections` with two admins: a save that read the list before another admin's forget writes
  the forgotten connection back (`settings.go:328`); the other two properties fail likewise.
- `accounts_serial` with two requests: a login overtaken by a role change keeps the old
  role (`admin_auth.go:595`), although "a role change must take effect immediately"
  (`admin_users.go:93`).
- `services` with two requests that write pipelines: two saves at once store one
  version twice (`pipelines.go:190`), and a run's version names two definitions, although
  appending versions "makes a PipelineRun's version reference reproducible after edits"
  (`pipelines.go:179`). A pipeline that is deleted and saved again starts at version 1, so older runs
  name what they did not run; `RunTraceable` excuses those by its history variable
  `deletes`.
- `SavedSurvives` without `~MidSave` or with a crash there: a stop between the delete and
  the insert of a save, an administrator's or the startup's own (`settings.go:356`), leaves
  no row, and the next start knows none of the saved connections.
- `CatchesUp` without `blurred` or for emptied files: a file that changes without a new size or time is
  not read again (`file_watcher.go:75`), and one without records leaves the rows of before.
- `PasswordKept` without `~lost`: a crash between the delete and the insert of the password's
  row leaves none (`settings.go:284`), and the next start works without a password. A settings
  form that reads the empty hash then (`handlers.go:1041`) and is applied after the
  administrator has set a new password wipes that one, too.

In the models, without a property of their own, since no document promises otherwise:

- A database that is down at startup ends the loading loop and is dropped with the rest by
  the next save (`settings.go:368`, `degraded` in `ConnectionStore`).
- A role change re-enables a disabled account in the RBAC mirror (`native_rbac.go:122`).
- A login as `admin` with the legacy password creates the account again after another
  administrator deleted it (`admin_auth.go:571`).
- Replacing a row policy leaves the table without one between two statements, and for good
  if the second fails (`row_policy.go:55`).
- A failing `MAX(id)` gives a record identifier 1 (`db.go:681`).
- A reindex takes the client of one model and stores under another if the model is changed
  in between (`logic_search.go:171`, `:212`); the vectors stay until their text changes.
- A NaN in a numeric field scores NaN, and such a candidate displaces better ones
  (`match.go:195`).
- A migration that fails keeps its rows, and repeating it copies them again
  (`migration.go:91`).
- An import that truncates and whose rows are all refused leaves an empty table
  (`importer.go:308`); rows longer than the header lose their last cells.
- An INI key named `section` overwrites the section's column, lines of an alarm overwrite
  those of its event, and geometry collections inside collections are passed over.

## 7. What is not modelled

- **Audit log and verbose log, LLM and RAG clients, catalog browser, query history**: no
  decision of the program depends on what they keep.
- **Format readers** that decode by a library or byte by byte (Excel, XML, YAML, TOML,
  GeoPackage, shapefiles, Parquet, MessagePack, CBOR, BSON, vCard and others), and the
  output formats (map, GeoJSON and report exports): wrong bytes are better found by the
  tests with sample files that the repository has.
- **Dialects**: the texts of statements for other databases.
- **The ranking of logic search and of RAG**, which is arithmetic on vectors.
- **The age of the cached row count** of a table: pages are modelled for an arbitrary count
  that is not too small.
- **Cron scheduling, jobs and tinySQL** are external: an entry may fire at any time, a
  statement is atomic, succeeds or fails, and its rows are visible to the next one.
- **Requests that use a connection another request closes** (`session.go:54`): the
  registry cannot prevent it, and the query fails with an error.
- **The web client and the deployment files.**
