# A formal model of gabysql

gabysql is a single-file SQL engine in Rust: a page file with a write-ahead log,
B+Trees over its pages, a SQL engine over the trees, and an HTTP server, a command
line and an MCP gateway over the engine. This directory holds TLA+ modules for
the part of it whose correctness depends on order, failure, concurrency and state that
is kept in two places, the TLC configurations that check them on small instances, and
TLAPS proofs for every value of the constants.

`PROJECT.json` lists, for every definition that models code, the file and lines it
stands for (`map`), the runs and their properties, a mutation of the model that
breaks each property, the hazards of the code by line, the disagreements between
code and documentation that the runs show, and the theorems.

    tlc -workers 2 -config MCWal.cfg MCWal          # a run
    tlapm StorageProofs.tla                         # a proof, about 10 minutes

Paths below are relative to the repository; `sql.rs:100` is `src/sql.rs`, line 100.

## 1. The system

    clients ── HTTP ──▶ server.rs ─┐
    MCP host ─ stdio ─▶ gabysql-mcp┤
    shell ────────────▶ gabysql ───┤
                                   ▼
                    sql.rs  Engine (parse, plan, execute, constraints, RBAC, RLS)
                       │  catalog.rs (objects)   index.rs (buckets)
                       ▼
                    bptree.rs  B+Trees over pages
                       ▼
                    storage.rs  Pager: cache, transaction, savepoints, lock
                       ▼
                    storage.rs  Wal + the .db file        backup.rs (copy, verify)

An `Engine` borrows one `Pager` exclusively (`&mut`), so inside a process everything
below the server is sequential per database. Concurrency is between processes, which
meet at the exclusive lock on the `.db` file, and between the handler threads of the
server, which meet at `write_lock`, at the session slot and at that same lock.

### Components

| component | state it keeps | operations | hard behaviour | what makes it correct |
|---|---|---|---|---|
| Pager (`storage.rs:284-480, 600-900`) | header, page cache with dirty flags, `in_tx`, savepoint stack | begin, commit, rollback, page_data, write_page, new_page, set_catalog_root_page, savepoints | eviction in the middle of a transaction, snapshots older than the cache, pages past the end of the file | no dirty page is lost; it is a transactional store with savepoints |
| WAL, commit, recovery (`storage.rs:520-680, 905-1161`) | `.wal` and `.db`, in the system's cache and on disk | Wal::create, append, commit marker, apply, sync, unlink; scan_commit, replay_to | kill and power loss at any step, torn pages, a second crash inside recovery, removal that fails | what was acknowledged is there, an interrupted commit is whole or absent |
| Page checksums (`storage.rs:60-285`) | a CRC per page | encode, verify | torn writes | a torn page is never served |
| Database files, lock, backup (`storage.rs:19-58, 480-600`, `backup.rs`, `bin/gabysql.rs`) | directory entries, inodes, file locks | init, open, backup, restore, verify, DROP DATABASE | two processes, a kill between two system calls, names reused for other files | an answer OK means a whole database |
| B+Tree (`bptree.rs`) | leaves linked by `next`, internal nodes | insert, upsert, delete, get, range, scan, cursors | splits over several levels, leaves emptied and never merged, puts that fail half way | it is a map; tree and chain agree |
| HTTP server (`server.rs`) | `write_lock`, `SessionStore`, connection counter | accept, GET and POST handlers, /tx/*, CREATE/DROP DATABASE | handler interleavings, idle sessions, panics, a name dropped while open | one Pager per file; isolation; acknowledged means committed |
| Engine transactions (`sql.rs:3267-3535`) | `explicit_tx` | batch, BEGIN, COMMIT, ROLLBACK, SAVEPOINT | implicit batch transaction turned explicit half way | a batch is all or nothing unless it says otherwise |
| Catalog and schema changes (`catalog.rs`, `sql.rs:3828-5700, 8238-8600`) | a B+Tree of objects keyed by a 64-bit hash of the name; rows stored by position | CREATE, ALTER, RENAME and DROP of tables, columns, constraints, indexes, views, triggers, routines | names kept in the descriptions of other objects, rows older than a column, a trigger that changes the table it fires on | rows show what they were given, constraints and indexes speak of columns that exist |
| Secondary indexes (`index.rs`, `sql.rs:12791-13030`) | hash and ordered buckets in a B+Tree | insert, remove, lookup, unique check | bucket overflow, composite fingerprints, NULLs, -0.0 | index and rows agree |
| DML (`sql.rs:8603-9037, 11947-12646, 13030-`) | rows, autoincrement | INSERT, UPDATE, DELETE, TRUNCATE, ON CONFLICT | a failure between two row changes | constraints hold after each statement that succeeded |
| Foreign keys (`sql.rs:15859-16534`) | rows of parent and child tables | check_fk, delete_with_cascade, move_row_and_cascade | cycles, RESTRICT under CASCADE | no orphan row |
| Triggers, procedures, functions, control flow (`sql.rs:3338-3446, 7352-8053`) | variables, call and trigger depth, a pending RETURN value | CALL, IF, LOOP, WHILE, FOR, EXIT, RETURN, RAISE, EXCEPTION | errors, EXIT and RETURN travel the same way up | each is caught by its own, counters and names are given back, the batch ends |
| Access control, RLS (`sql.rs:5775-5966, 7019-7262`) | accounts, grants, policies, the session's user | a decision per statement and per row | policies asked in a WHERE and in memory, a failure between two rows | nothing without a grant, no row but what a policy admits |
| Planner, statistics (`sql.rs:2709-2981, 6227-7018`) | statistics and their age | choice of an index path and a join algorithm | a plan chosen by stale statistics, a filter that belongs to another plan | every path returns the same rows |
| SELECT (`sql.rs:9529-14470, 21980-22500`) | none | access paths, joins, aggregates, windows, CTE, set operations | three-valued logic in two evaluators and three joins | the SQL answer |
| Expressions, types, casts (`sql.rs:17347-20170`) | none | evaluation | overflow, NULL, LIKE | the SQL answer |
| Parser, row codec, crypto (`sql.rs`) | none | text and bytes | - | round trips |
| Database log (`dblog.rs`) | log files | append, rotate | rotation that fails half way | no line is lost silently |
| Command line, server binary, MCP gateway, benchmarks, web and desktop clients | - | drive the above | - | - |

### How the parts interact

* The engine calls the Pager for every page it reads or writes; the B+Trees,
  the catalog and the indexes hold page numbers, never pages.
* `Engine::exec` begins a transaction for a batch and commits or rolls it back at
  the end; a session of the server lends one Engine, with its transaction
  open, to several requests.
* A `Pager` owns its file, hence its lock; whatever drops it (an answer, a panic, the
  end of a session, the end of the process) releases the lock.
* The `.wal` is found by name, the lock belongs to the open file. These two can come
  apart when names are reused; section 7 says where.

## 2. Modules

| module | models | by |
|---|---|---|
| `TxStore` | what a Pager promises to the engine | abstract specification: committed and working state, a stack of named states |
| `Pager` | cache, header, transaction, savepoints | one action per public operation; `disk`, `header`, `cache`, `inTx`, `savepoints` are the fields; the LRU order is a free choice among clean pages |
| `Wal` | commit, rollback, open and replay | one action per write, sync and unlink; `db`/`wal` are what a read returns, `dbDisk`/`walDisk` what is on stable storage; `env` is the kind of faults a behaviour has |
| `DbFile` | init, exec, backup, restore, verify, DROP DATABASE of several processes | one action per system call; paths, inodes and locks apart |
| `Server` | accept loop, handlers, sessions, CREATE/DROP DATABASE | one action per stretch of a handler between two points where others can come in |
| `BPlusTree` | one tree | one action for the descent to the leaf, one per parent on the way up; `path` holds the frames of `put_recursive` that wait |
| `ForeignKeys` | INSERT, REPLACE, UPDATE, DELETE and TRUNCATE over tables that reference each other | one action per foreign key of one row that a cascade looks at; `queue`, `visited`, `moving` and `next` are the locals of the two loops |
| `Script` | the batch of one request: transactions, blocks, loops, routines, triggers | one action per statement begun, per turn and per way out; `frames` is the call stack of `Engine::exec` |
| `Schema` | the catalog, DDL, and the rows and index entries it carries along | one action per statement that succeeds |
| `Access` | users, roles, grants, policies, and the statements they govern | one action per statement that changes rights, one per row or per view of a statement that reads or writes |
| `Relational` | aggregates, groups, windows, set operations, WITH RECURSIVE | operators over sequences of rows |
| `Select` | plans, filters and subqueries over tables with indexes and statistics | the executor as operators over the state; INSERT, UPDATE, DELETE, CREATE INDEX and ANALYZE as actions |
| `Joins` | joins, derived tables and VALUES over the same state | the three join algorithms and the choice among them, as operators |
| `StorageProofs` (of `Pager`, `BPlusTree` and `Wal`), `DbFileProofs`, `ServerProofs`, `ForeignKeysProofs`, `ScriptProofs`, `SchemaProofs`, `AccessProofs`, `SelectProofs` | - | theorems |
| `MC*` | - | instances for TLC; `MCSelect` also has the reference definitions of the answers |

The modules at the bottom are layers, each of which replaces the one below it by what
that one has been shown to promise:

* `Pager` makes commit one step; `Wal` opens that step up. `Pager` implements
  `TxStore`, which is what `BPlusTree` (a page written is a page read back),
  `Server` and `Script` (a commit adds the pending rows at once, a rollback drops
  them, ROLLBACK TO returns to what the savepoint saw) assume.
* `Wal` has one database and one process at a time, as the lock grants; `DbFile` asks
  whether the lock does grant it, and shortens the log phase to one step.
* `BPlusTree` is a map with ranges, and that is what tables, indexes and the catalog are in
  `ForeignKeys`, `Schema`, `Access` and `Select`.

The modules of the engine cut it by concern, since one with everything could not be
checked. Each has the whole control of the handlers it is about and leaves out what
another one has:

| of a statement | module |
|---|---|
| when it starts and ends, its triggers, its place in the batch's transaction | `Script` |
| uniqueness, foreign keys, ON CONFLICT, cascades, rollback in the middle | `ForeignKeys` |
| row layout, defaults, CHECK, the description of the table it works from | `Schema` |
| privileges, policies, RETURNING, failure between two rows | `Access` |
| which rows its WHERE finds and by which plan, index maintenance | `Select` |

### Pager

`cache[p]` is a page's bytes and dirty bit or `NotCached`. `Inserted` is
`PageCache::insert`: a new page in a full cache takes the place of a clean one, and
the cache grows if none is clean. `new_page` and `set_catalog_root_page` re-encode
page 0 in the same action, as the code does. `Reopen` is close followed by open.

### Wal

A transaction writes its own number into the pages it dirties, so a mixture of two is
visible. A kill keeps everything written, the last append possibly cut inside a
record's header (`"hdr"`) or page (`"data"`); a power loss keeps, page by page, the
synced or the written contents or a torn page, and any part of the WAL.
`scan_commit` reads the whole WAL before anything is applied; `replay_to` verifies and
applies record by record, which is two actions, `ReplayPage` and `ReplayRefused`.
`remove_file` may fail where the code drops its result. `env`, chosen once and for all
at the start, says which of these a behaviour has: kills, power losses, the writes and
syncs that may fail, failing unlinks, and how many transactions and crashes.

### DbFile

A process runs a job: the system calls of one command. `Start` makes the checks the
code makes by name before it opens anything. `allowed[i]` is what the clients of file
`i` may find in it: one state, or two while a commit is in doubt. `Supported` says which jobs keep
databases whole; the run's jobs are, which an ASSUME of `MCDbFile` has TLC evaluate.

### Server

A statement `n` changes the rows `<<n, 1>>` and `<<n, 2>>`, so half a statement is
visible. `writeLock` is held from `Enter` to the answer; the handlers of /tx/* and of
/exec with a session id begin with `gc_idle` (`Live`, `Held`, `Collected`); plain /exec and
the GETs do not, and neither do the models of them. `Panic` drops the handler's Pager, poisons the mutex
if the handler held it, and leaves the connection counted.

### BPlusTree

Entries have sizes and leaves a room, internal entries a count. A leaf that overflows
is halved by number of entries; a half that does not fit makes the put fail after a
page was allocated (`LeafSplitFails`). `delete` never merges. `Get`, `RangeOf`,
`CursorRange` and `Scan` are the reads; `Lower` and `Upper` are the swap of bounds that are not
in order. What the code reports as an error it never expects, a separator that the parent has
already (`bptree.rs:289`), has no action: `SplitsGoIn`, a part of `WellFormed`, says that it does not
come up.

### ForeignKeys

A row is its primary key and its referencing columns; `rows[t][p]` is what `get_row`
returns and `index[i]` the pairs in the buckets of the index on column `i`. A statement
begins with its targets resolved (`todo`), as the code does before it changes
anything. For DELETE and REPLACE, `queue` and `visited` are the worklist of
`delete_with_cascade` and `next` the foreign key its loop over the catalog is at:
`SkipFk`, `CascadeDelete`, `CascadeSet` and `RefuseDelete` are the arms of the loop,
`DeleteRow` what follows it. For an UPDATE of a primary key, `moving` holds what
`move_row_and_cascade_on_update` was called with, `CascadeMove` and `RefuseMove` are its
loop and `MoveRow` its last part, which uses the row and the index values from before the
cascade, as the code does. `CanSet` and `SetColumn` are `cascade_set_fk_tuple`. ON
CONFLICT DO UPDATE is an UPDATE whose targets are the rows in conflict. NOT NULL and CHECK
are one set of accepted values per column. `Fail` is the rollback of the batch, which
is the statement; with `KeepPartial` the rows changed so far stay, as they do in a session
or after an EXCEPTION handler.

### Script

`frames` holds one record per Rust call that runs statements: the batch, a branch of an IF
or a CASE, a LOOP or WHILE, a FOR over a range or over rows, a block with its handlers, a
SET that calls a function and the function, a DML statement and each trigger it fires.
A `Result::Err` on its way up is `signal`, and EXIT and RETURN are errors too, as in the
code, so every frame says what it does with each. Besides the stack the engine counts:
`execDepth` for the log, `triggerDepth` for the cascade, `pending` for the value of a
RETURN, `explicit` for the transaction; `scope` is `var_scope`. `Next` lets any statement
come next and any condition be true, so the behaviours are all batches up to the bounds.
`work`, `saves` and `durable` are the transaction as `TxStore` has it, with the number of
a statement for the rows it changes.

### Schema

`catalog[n]` is what is stored under name `n`: the description of a table, or the kind
of the other object. `rows[root][k]` is the stored sequence of values, without column
names and shorter than the table when it is older than a column; `DecodeRow` is how it
is read. `told` remembers what each row was given under each column. An INSERT on a table
with a BEFORE trigger is two steps: `held` is the description it read first, and statements
of the trigger's body come in between: on other tables (`Unheld`), and no rename of a table
the row refers to (`Unreferenced`). A statement that fails is rolled back and is no step. `Quirks` admits statements whose bad outcome is known (section 7).

### Access

A table has a key and one value; a predicate is the function from values to true, false,
unknown or error that it comes to. `RlsVerdict` and `RlsFails` are the WHERE that
`apply_rls` adds, `FilterKeeps` the filter over rows in memory that RETURNING uses and
`WithCheck` the one for rows to be written. A WHERE of policies joined by OR goes from left to
right and stops at the first that is true or fails (`Deciding`, `AnyOf`). A SELECT opens a view per step (`ExpandView`) and
a write goes on row by row, in any order of its keys, so that a row that fails leaves those
before it. `Fail` is
either the end of the batch or a handler that catches the error and keeps what was done.
`saved` is the catalog and the rows a rollback returns to; `current_user` is not
among them.

### Relational, Select and Joins

A WHERE is a record. `Select` follows `exec_select`: `Plan` chooses among the key, the
composite key, an index, a covering scan and the scan of the table, `PostFilter` says
whether the WHERE is evaluated once more on what the plan fetched, and then come
order, offset, limit and projection. Estimates that only choose between plans are a
free choice (`est`), statistics age by `Age`. A condition has a `Depth`, and what is told of a
condition (`HasRef`, `Equalities`, `Verdict`) is a function over all of them; the answers
of subqueries are the function `Subs`. `Targets` is `resolve_target_pks`. The three join algorithms
have the comparison of values each (`HashMatches`, `NestedMatches`, `IndexLoop`). `MCSelect` asks
every query of a list in every reachable state and compares the answer with a definition that
knows no plan, index or page.

## 3. Runs

| run | instance | what it shows |
|---|---|---|
| `pager` | 3 pages, cache of 2, 2 values, 2 savepoint names, stack of 2 | eviction, growth, savepoints and rollback lose nothing; `Pager` implements `TxStore` |
| `wal` | 3 pages (two can tear) and 4 environments: kills or power losses, up to 3 transactions and 3 crashes | what was acknowledged is served and durable, the WAL is ahead of the `.db`, a left-over WAL is harmless, recovery ends |
| `dbfile` | 2 paths, 3 inodes, 2 processes, kills, versions | commands find, and answer for, whole databases |
| `server` | 2 handlers, a name and 2 files, 2 statements, 2 sessions, panics, drops, restarts, fairness | one Pager per file; isolation; failed work leaves nothing, acknowledged work stays; every request is answered |
| `bptree` | 5 keys, 3 sizes of value, 11 pages, leaves of 2 units, internal nodes of 2 entries | tree, chain and map agree, and every read is exact, over every sequence of calls |
| `fk` | 2 tables, 2 keys, 3 schemas of 3 foreign keys | no orphan, no wrong index entry, no constraint skipped; DELETE and UPDATE of a key do what the actions say and nothing else |
| `script` | stacks of 5 frames, 4 statements, i64 of two bits, loops of 2 turns, triggers 1 deep | counters, scopes, the log and the transaction survive every way out of every statement; the batch is answered |
| `schema` | 3 names, 3 columns, 2 keys, 3 trees, 5 statements | rows show what they were given, indexes and constraints speak of the rows and columns there are |
| `access` | a user, a role, PUBLIC, a table of 2 rows under 2 views, every pair of 8 policies, 2 statements | nobody reads or changes what grants and policies keep from him; both ways of asking a policy agree |
| `query` | 2 tables of up to 3 rows with NULLs, simple and composite keys, every set of 4 indexes, 2 statements | indexes have the entries of the rows, each plan fetches what its WHERE is true of and answers what it means, UPDATE and DELETE touch the rows a scan would find, each join algorithm returns what the join means; groups, windows, set operations and recursion are what they are defined to be |
| `select_all` | the same | *violated*: a SELECT on a composite key returns rows its WHERE refuses (section 6) |
| `view_cycle` | 2 views of each other | *violated*: the expansion of views is not cut (section 6) |

Some properties are conjunctions, so that a run asks one question once. `LocksAreKept` is
types and one Pager per file; `AnswersStand` is `RefusedLeavesNothing` and `AckedIsKept`;
`OnlyWholeDatabases` is types, `ServesCommitted` and `GoodIsCommitted`; `WellFormed` is types,
`ChainIsTree`, `ChainHoldsMap`, `NoPageLost` and `SplitsGoIn`; `ReadsAreExact` is `GetFinds` and
`RangesAreExact`, which has scans and cursors; `CascadesAreExact` is `DeleteIsExact` and
`MoveIsExact`; `StackIsTold` is types and `CountersMatch`; `ScopesAreKept` is
`ScopeGivenBack` and `ValueIsItsOwn`; `CatalogIsWhole` is types and `CatalogNamesResolve`;
`RowsObeySchema` is `ChecksHold` and `IntegrityClean`; `ReadsFollowGrants` is types,
`RightsAsTold` and `ReadsAreAdmitted`.

Why these bounds are enough:

* `pager`: two pages above the header fill the cache with dirty pages, make it grow
  and let it evict around a savepoint; the stack of two holds two savepoints of one
  name. The proofs remove the bounds.
* `wal`: with three pages a commit can be cut before, between and after two
  writes, with and without page 0; the second crash falls into the recovery of the first
  and the third into the one after it; with three transactions a WAL can outlive the next
  transaction. The proofs remove the bounds.
* `dbfile`: two processes are enough for every race over a lock; three inodes give
  the database, its copy and a file dropped but open. The proofs remove the bounds.
* `server`: two handlers are every pair of requests; DROP and CREATE give the name a second
  file while its first is open; two sessions give a session that takes the slot of one
  that expired, and two statements give each a row of its own to lose. The proofs remove the
  bounds.
* `bptree`: a leaf holds one large or two small entries, and an internal node two separators, so
  five keys split the root twice: trees of three levels, a write of an internal node
  below the root, and the split of a full root. A split of an internal node *below* the
  root needs more keys than TLC can finish with. `MaxWasted` lets one put fail after it
  allocated. The proofs remove the bounds.
* `fk`: `Cycle` brings a cascade back to where it began through two tables and through one;
  `Diamond` reaches a row by two columns with different actions, one of them NOT NULL, and
  is a tree under CASCADE; `Guarded` has a CHECK that a cascaded key breaks, a SET NULL into
  a NOT NULL column, UNIQUE and RESTRICT, so every refusal happens after a change. Two keys
  per table make four rows, enough for a row deleted by one path and nulled by another.
* `script`: five frames are a loop in a block in a function called by a SET of the batch, or a
  trigger with a block below a statement below a loop, which is every pair of kinds one
  directly inside the other, with a third around them. With two turns a loop ends, is left
  and reaches its limit. An i64 of two bits saturates and runs down to its smallest value. The
  proofs remove the bounds.
* `schema`: three names are a table, one it refers to, and another object or a new name; five
  statements are enough to create both, fill one, change the other and change it back, and
  three trees are two tables and an index.
* `access`: two policies are every combination of ALL with one action, for all with for one,
  of USING, WITH CHECK and neither; two rows are one that passes before one that fails; the
  starting catalogs already hold grants, policies and rows, so two statements are one that
  changes a right and one that asks it. The proofs remove the bounds.
* `query`: two statements from loaded tables give indexes built before and after rows,
  statistics fresh and stale; three rows give a bucket of two and a row outside it, a tie, and
  a NULL on each side of a join. Each WHERE is asked in key order, with a page, rising and
  falling; NTILE, LAG and LEAD with an order, and to be refused without one. The fingerprints
  of MCSelect do not follow the order of the pairs they encode.

Bounds are named in the CONSTANTS of each module (`\* bound:`). They stop actions
(`env.maxTx`, `ver < MaxVer`, `count < MaxStatements`, `MustSplit`); no property
mentions one. Deadlock is checked except in the runs of `Wal`, `Schema`, `Access` and
`Select`, where the bound on transactions or statements ends a behaviour, as a client does
that sends nothing more.

Constants that choose what a behaviour may meet rather than how much of it: `Environments`,
`Tails`, `Tearable` (Wal), `Panics`, `Drops` (Server), `Jobs`, `Existing` (DbFile), `Schemas`,
`SelfMoves`, `KeepPartial` (ForeignKeys), `Quirks` (Schema), `Catalogs` (Access), `KnownLimits`
(MCSelect). The runs that pass say which environment the code does withstand:

* kills, with cut appends and a log that cannot be written or, if its removal works,
  synced, but not errors while the `.db` is written;
* power losses with torn pages and failing unlinks, but not mixed with kills: a kill
  leaves a WAL that was never synced, and a power loss during its replay can take
  both the WAL and part of the `.db`;
* several processes, of which one creates each database, and nobody drops or
  overwrites a database another one may be using;
* statements whose batch is rolled back when they fail, SET DEFAULT with the default
  NULL, and no row that references itself when its key changes;
* no statement of `Quirks`: dropping or renaming what a foreign key then still names
  (`"dangling"`), a column a CHECK names (`"checked"`), a default no row was tested with (`"default"`), DDL on
  a table in a trigger of the same table (`"trigger"`);
* no query of `KnownLimits`, each with its line in section 7.

### Instances beside the runs

These configurations show, each by a violation, what sections 6 and 7 say of the code; they
are run by hand.

| command (`tlc -config ...`) | property violated | what it shows |
|---|---|---|
| `MCWalBadRecord.cfg MCWal` | `RefusedReplaySparesDb` | a refused replay has already changed the `.db` |
| `MCDbFileRestore.cfg MCDbFile` | `GoodIsCommitted` | restore over a database with a WAL answers OK for something else |
| `MCDbFileDrop.cfg MCDbFile` | `OnlyWholeDatabases` | DROP DATABASE killed after the `.db` leaves a WAL that the next database of that name replays |
| `MCServerDrop.cfg MCServer` | `AckedIsThere` | a commit acknowledged into a dropped database |
| `MCForeignKeysSelf.cfg MCForeignKeys` | `NoOrphans` | a row that is its own parent and changes its key is left an orphan |
| `MCSchemaReplace.cfg MCSchema` | `NothingReplaced` | CREATE or RENAME over a name replaces an object of another kind |

## 4. Fairness

* `Wal!FairSpec`: weak fairness of `Recovery`. Open is straight-line code with no wait, and
  a database that is down is opened by the next command. Commit needs no fairness:
  nothing is claimed about its end.
* `Server!FairSpec`: for each handler, weak fairness of `Handle` (a handler never waits
  for anything but `write_lock`; opening a locked file fails at once) and of `Enter`
  (`std::sync::Mutex` gives a free mutex to some waiter). Because weak fairness
  of `Enter` allows one waiter to be passed over while others keep coming, the property
  is claimed only for behaviours in which requests stop coming. No client is assumed to
  end its session.
* `Script!Spec`: weak fairness of `Next`. One thread runs a batch and waits for nothing, so
  while there is a frame there is a step. A batch has finitely many statements of its own and
  what repeats them, loops and triggers, has a limit: that it ends is the property
  `BatchEnds`. Function calls have no such limit in the code; the bound on frames is theirs
  (section 7).

The other modules claim no liveness: a B+Tree call and a Pager operation are single calls
that run to their end, and a statement's steps are as many as its rows.

## 5. Proofs

That the variables of `Pager`, `Wal` and `ForeignKeys` keep their types is proved and no run states it; the
other modules have their type invariants inside the invariants that the runs check or the proofs use.

`StorageProofs`, of the Pager (from `BoundsAssumption` alone), proves for every number of pages, cache
capacity, depth of the savepoint stack and set of contents:

* `TypeCorrect`, `CacheCorrect` (`CacheSound`), `SavepointsCorrect` (`SnapshotsSound`);
* `Refinement`: `Spec => ImplementsTxStore`;
* `NothingLeftOpen` (`QuietOutsideTx`, which no run needs to state besides): outside a
  transaction nothing is dirty and no savepoint exists.

The inductive invariant is the conjunction of the four state invariants.
`CacheSound` alone is not inductive: after ROLLBACK TO the cache is a snapshot taken
earlier, so each snapshot must be as sound as the cache, relative to *its* header and to a
file that does not change while a snapshot exists. The lemma on `Inserted` (eviction
changes no view of the cache) carries every operation that loads or allocates.

`StorageProofs`, of the B+Tree (from `TreeAssumption`), proves for every set of integer keys, set
of values with any sizes, room of a leaf, capacity of an internal node and number of pages:

* `TreeReads` (`ReadsAreExact`) and `TreeKeepsForm` (`WellFormed`), the two invariants of the run;
* on the way, `TreeTyped` (`TreeTypeOK`) and `TreeFinds` (`GetFinds`).

What the run checks is about what recursive functions compute, and is not inductive. The
invariant that is, `TreeInv`, has no recursion in it: there are a height `h`, a routing `r`
and a line of leaves `ls` such that `Good` holds.

* `r[i][k]` is the page of level `i` that a descent for `k` goes through. `Routing`: levels share no
  page, keys that share a page share its parent, the keys of a page are next to each other,
  and each page that was not wasted has a key. A tree of any shape is so a table of pages
  by levels and keys.
* `Leads`: the routing is what the separators say, except on the level `f` of a split whose right half
  the parent does not know yet. `Flight`: then `path` is the way from the root to that parent, the right half is
  no child of it, and the left half still has a key. Between calls there is no such level.
* `LeavesOK` and `InnersOK`: a leaf holds the map for exactly its keys, in order; the separators of
  an internal node are keys of that node, and one of its keys is below all of them.
* `Chain`: `ls` has every leaf once, in the order of the keys, linked by `next`.

Every step but two leaves `r` and `ls` as they are or moves the keys of a page from a separator on to the
new page (`Moved`, the lemma `MovedRouting`): a leaf split on level 0, an internal split on the
level above the last one. `SplitRoot` adds a level (`Lifted`). `LeafSplitFails` wastes a page. That `PickChild`
leads, after each of them, where the routing says is `InsertedNode` and `SplitNode`.

The properties follow from `Good` in states. A recursive function is met with the set of the arguments up to
which it is what its definition says: if some were missing there would be a least one
(`LeastNat`, `StepsFromZero`). So `PathTo` is the column of the key in `r` (`PathIs`), `ChainFrom` of a leaf is
the rest of `ls` (`ChainIs`), the entries along it hold the map for the keys of those leaves (`EntriesFrom`),
and the leaves under a page are the part of `ls` for its keys (`InOrderIs`).

`StorageProofs`, of the Wal (from `WalAssumption` and `SentinelAssumption`), proves for every number of
pages, transactions and crashes and for every set of environments:

* `WalTypeCorrect` (`WalTypeOK`), without a condition;
* `AckedIsServed` (`ServesAcked`), `WriteAhead` (`RedoReady`), `AckedIsDurable`
  (`AckIsDurable`) and `LeftoverWalHarmless` (`StaleWalHarmless`) from `OneFault`: no
  environment has both kills and power losses, errors are of the log (`"log"`,
  `"logsync"`) and not of the `.db`, and where the log's sync may fail, removing the WAL does
  not.

The inductive invariant has one conjunct per program point, relating the two views of
each file to `acked` and `doubt`: for instance in `"apply"` every page of the `.db` is
either its old or its new value and the synced WAL records all the new ones; in
`"replay"`, whatever is on the disk, the pages not yet replayed are in the WAL; in
`"failed"`, that the WAL of the transaction about to be rolled back is not a committed
one, or will be removed. The last conjunct, needed only when unlinks fail or are undone by a
power loss, says that a committed WAL left behind records what the disk already holds.

`ServerProofs` (from `ServerAssumption`: finitely many handlers, a cap on connections of at
least one, and values that can be told apart) proves for every number of handlers, names,
files, statements and sessions, with or without panics and dropped databases:

* `LocksHeld` (`LocksAreKept`), `AnswersHeld` (`AnswersStand`), `IsolationHolds`
  (`Isolated`) and `OwnersEnd` (`EndedByOwner`). `Invariance` has the inductive invariant,
  `TypeOK` and four parts:
* `HandlersOK` ties a handler's place to its request, its Pager and `write_lock`.
* `LocksOK` says that a file's lock is held by one handler, or by the session, or by nobody.
  `OnePager` follows from it and cannot be proved alone: that a file is free is what the
  lock says, so the lock has to be right first.
* `CountsOK` counts the handlers under way, each paid for in `active`, and in the
  statements and sessions that are left. A panic leaves a connection counted, so `active` is an
  upper bound and not the number of handlers.
* `WorkOK` says that rows belong to statements that were executed, and that what a session
  has done is in its pending rows and in no file. Without it neither half of `AnswersStand`
  is inductive: a rollback refuses statements, which is harmless only if none of their rows
  was committed, and a commit acknowledges statements, which is true only if all their
  rows are pending.

`ForeignKeysProofs` (from `ForeignKeysAssumption` and `Supported`) proves for every set of
tables and keys and every schema, with any cycle of foreign keys in it:

* `TypeCorrect`, `IndexCorrect` (`IndexExact`), `ReferencesCorrect` (`NoOrphans`),
  `ConstraintsCorrect` (`CascadesRespectConstraints`);
* the action property `CascadesExact` (`CascadesAreExact`), whose reference `Doomed` is not computed
  but described: the smallest set of rows that has the targets and all that refer to it.

`Supported` names what the code does not withstand and section 7 describes: statements
whose failure is not rolled back, rows whose key changes and that reference themselves, and
defaults other than NULL. `NoOrphans` is about states between statements; inside one, a
reference may dangle, and the inductive invariant says which ones may:

* in a delete, those of rows that are still in the worklist. It is preserved because the
  rows that reference the row at hand by a foreign key already looked at are all in
  the worklist (`VisitOK`): a row that was visited before and is there has not been handled;
* in a change of a key, those to the new key, while no foreign key already looked at
  leads to the old one (`MoveOK`). It needs that the row that moves is still as it was
  read, which is where a reference to itself would break it, and that the rows still
  to be handled keep out of its way (`TodoOK`).

A cascade finds its children in an index, so `NoOrphans` depends on `IndexExact` at every
step: the two are proved together. `SavedOK` carries both to the state that a failed
statement goes back to.

`ConstraintsCorrect` has a second invariant over the first (`ConstraintsOK`). UNIQUE is asked
of an index that the cascade itself is changing (`Taken`), which is the rows only by
`IndexExact`. A cascade that sets several rows writes one value into all of them, and
does so only to the children of one key: had the column been UNIQUE, there would be one.
What a row that moves may hold was asked before its children were moved, and nothing that
happens in between takes that back: no row gets the key it moves to.

`CascadesExact` has a third (`SoFarOK`), which compares the rows with those the statement began with. Of a
DELETE it says one direction only: what has gone, or waits in the worklist, is doomed, and a value
that was nulled referred to a doomed row. A column of a CASCADE key is never written, so a child found
now was a child then (`DoomedChild`), although rows go and are nulled in between. The other direction
needs nothing new: when the worklist is empty no reference dangles (`RefsOK`), so a row that
refers to one that has gone by CASCADE has gone too, and what has gone contains the smallest such
set (`GoneAreDoomed`). Of an UPDATE of one key it says which foreign keys have already
been followed.

`ScriptProofs` (from `Limits`: an i64 with one more negative value than positive ones, marks that
are not values, loops of at least one turn) proves for batches of any length and nesting:

* `StackHolds` (`StackIsTold`), `LogHolds` (`LogTellsStatements`), `CommitsAreWhole`
  (`NothingHalfCommitted`), and `ValuesHold`, the half of `ScopesAreKept` about functions;
* `ScopesHold` (`ScopesAreKept`) from `DistinctColumns`: no SELECT of a FOR loop returns two
  columns of one name. `exec_for_select` (`sql.rs:7677`) saves and restores a variable per column, in
  order, so of a name that comes twice it gives back what the loop itself put there. The run's
  loops have one column.

`Skeleton` reduces the 30 or so statements to what they do to the stack: nothing, one frame more,
a SET with its function, or one or two frames less with an outcome. The proofs are about
that skeleton. The inductive invariant adds to the properties what contains what:

* `NestingOK`: the batch is the bottom frame, a function has its SET below it, a trigger its DML
  statement, and a SET always has its function above it. The counters count frames of certain
  kinds, so a statement that ends must take away what it added.
* `BatchOK`: no outcome is under way between batches, and savepoints belong to an explicit
  transaction, without which `NothingHalfCommitted` fails at the end of a batch.
* `LogOK`: a record of a failure may be there before the answer is, while the batch's own statement
  fails.
* `ReturnOK`: while RETURN unwinds, `pending_return_value` is what the innermost call said last,
  whatever handlers and loops are on the way. It is what makes a function's value its own.
* `LoopsOK`: a loop saved each of its names once.

`SchemaProofs` (from `SchemaAssumption`: NULL is not a key or a name, column lists are not empty)
proves for any names, columns, keys and column lists, and any number of statements:

* `RowsKept` (`RowsKeepTheirValues`), `IndexesExact` (`IndexesTellRows`), `CatalogCorrect`
  (`CatalogIsWhole`) and `SchemaObeyed` (`RowsObeySchema`), from `Supported`: no statement of
  `Quirks`, each of which breaks one of them (section 7).

The inductive invariant is about the store and the catalog at once:

* `TableOK`: a row decoded by the table's description is what it was given (`told`), and
  is stored under its key; an index has the entries of what was given, a CHECK holds of it. It speaks of
  `told`, not of the rows, so that a statement that renames a column or adds one has only to show
  what its new description makes of rows it did not write: that `DecodeRow` by the new one is what `told` became.
* a row is never longer than its table has columns. Otherwise ADD COLUMN would give a name to a
  value left over; it is why DROP COLUMN must rewrite every row (`DropColumnUnwritten` breaks it).
* `RootsOK`: no two tables and no two indexes share a page, so that a statement on one table leaves the
  others as they are (`TableFrame`). Pages are never given back, so it holds after DROP TABLE too.
* `RefsOK`: foreign keys resolve, and their values are keys there. RENAME of a table or of a key
  column changes the descriptions of other tables in the same step.
* `HeldOK`: the description an INSERT still holds differs from the catalog's only in the columns
  its foreign keys name, which is what a rename of a key in another table does to it.

The attempt to prove `HeldOK` showed that it was not inductive as the model first stood, and that the code has the
same hole: a trigger that renames the table the row refers to, and creates another under that name, makes
the INSERT look its value up in the wrong table. TLC confirms it in nine states with
`"trigger"` in `Quirks`, more than the run's bound of statements; `Unreferenced` sets it aside.

`AccessProofs` (from `AccessAssumption`: PUBLIC and the superuser are not accounts, an INSERT policy has
no USING, every starting catalog is consistent) proves for any accounts, tables, views, policies, keys
and predicates:

* `ReadsHold` (`ReadsFollowGrants`), `PathsHold` (`PathsAgree`) and the action property `ChangesHold`
  (`ChangesAreAdmitted`).

`RightsAsTold` survives a rollback only if what was saved tells the same rights as the grants saved
with it (`SavedOK`), and `PathsAgree` needs that two policies of a table differ in name
(`CatalogOK`), or the first of two that decide would not be one. `WorkOK` is about the time between two rows: the
statement under way was allowed to begin, and the keys that an UPDATE or DELETE has still to change
hold rows that its USING reached, by the policies of now, because no other statement comes between.
`PathsAgree` compares a search through the policies in order of name, which an error or a
true ends, with a search that ignores order; they keep the same rows when the first does not
end in an error.

`DbFileProofs` (from `DbFileAssumption`) proves for any number of paths, files, WALs, processes,
transactions and jobs, with or without kills:

* `DatabasesAreWhole` (`OnlyWholeDatabases`) and `RedoHolds` (`RedoByName`), from `Supported`.

`Supported` constrains what processes are asked to do, not how they interleave: nothing is
forced; one process makes a given path (by init or as the destination of a backup); a path that
transactions use is neither dropped nor the destination of a copy; a copy is not itself copied.
Each clause is needed: with two processes, TLC finds a violation of `OnlyWholeDatabases` in every
instance that breaks one of them (sections 6 and 7 name the code behind it). The inductive invariant `IInv`:

* `ProcOK` says for each system call of a job what its process knows: `NamesOK` of names (what
  it will make is still absent), `FileOpenOK` of locks and headers, `WalKnown` of the WAL that has its path's
  name, `CopyOK` of the pages copied so far. The code checks by name and acts by open file; these are the facts
  that still hold when it acts.
* `OfOnePath`, `OneCopyist`, `WalsOK`: a file belongs to one path, also after the name is gone; a copy has one
  writer; a WAL belongs to one database that has a header. Without the first, a lock on a file
  says nothing about the WAL of a path.
* `FileOK`: what a recovery by name would make of a file (`Redone`) is what its clients may see, at
  every moment, whether or not a process has it open. A commit moves `Redone` once, when its log is
  complete; writing the pages, replaying them and removing the WAL leave it as it is.

A step is shown to keep the invariant in two parts: what it does to the files of others is one of
a few effects (`Effects`), under which everybody else's facts stay (`OthersOK`, `GlobalsOK`); then
what the process itself knows next.

`SelectProofs` (from `TableAssumption`, `KeyAssumption`: fingerprints of keys do not collide, those of
buckets may, and `ConditionAssumption`: a condition is deeper than its parts) proves for every set of
tables, columns, values, keys, index lists, conditions and statistics, and any number of rows and statements:

* `IndexesCorrect` (`IndexesHoldRows`), `PlansCorrect` (`PlansAgree`) and `TargetsCorrect` (`TargetsAgree`).

The inductive invariant adds to `IndexesHoldRows` that tables are finite. `Without` removes the entries of rows
one by one, which is the entries of the rows that stay because an entry names its row's key.

* What a condition is told is a recursive function. That it is what its definition says needs no
  induction theorem: `ConditionInduction` takes a condition of least depth among those of which a
  claim fails, and `ConditionRecursion` builds the function depth by depth. From it
  follows `EqualitiesMean`: an AND of equalities is true of a row exactly if the row has each value.
* A lookup finds exactly the rows with the value (`LookupFinds`), or in a composite index those with
  its fingerprint and perhaps others (`BucketHasHolding`), which is why the code filters these. With
  `KeyFindsHolding`, `EqualityFinds`, `BetweenFinds`, `ByValueFinds` and `SubqueryFinds` there is a
  lemma per kind of plan.
* `PlanRight` goes through the choices of `Plan` and `PostFilter` together: a plan that fetches the rows of a
  key, an index or a subquery has no filter only where those are exactly the ones, and a plan given up
  for its estimate has one. It holds whatever the subqueries answer.
* `PlansAgree` leaves aside, by name, what section 7 lists: `PartialKey`, `NullLookup` and `PkPrefix`;
  and `LooseIn`, an IN whose subquery mentions the row, which the plan asks without it: as the answers
  are any, with and without the row they need not be one. `TargetsAgree` leaves nothing aside.

Only model-checked: liveness (`RecoversEventually`, `EveryRequestAnswered`, `BatchEnds`),
which is beyond the prover, and four invariants of `MCSelect`. `AnswersAreExact` and `StatementsAreExact` compare
whole answers, in order, with the reference evaluation of `MCSelect`; what is left of them after `PlansAgree`
and `TargetsAgree` is sorting and cutting pages, by operators on sequences (`SetToSortSeq`,
`SelectSeq`) that the provers cannot expand, and the reference, which is RECURSIVE. `JoinsAreExact` and `ShapesAreExact` are about
what folds and recursion compute over rows of any number (`Joins`, `Relational`), which is induction over data.
## 6. Where code and documents disagree

* `select_all`: `composite_pk_fast_path_active` (`sql.rs:10135`) counts the equalities of a
  WHERE and the columns of the composite key and compares the numbers, not the names. With
  `PRIMARY KEY (a, b)`, `WHERE a = 1 AND v = 2` drops the post filter although no composite
  lookup applies, and the scan that is made instead returns every row. The comment at
  `sql.rs:10130-10134` and `CHANGELOG.md:2744` describe a WHERE that covers the key.
* `view_cycle`: `expand_view_in_from` gives its depth back (`sql.rs:8219`) before the SELECT it
  returns is executed, so the depth never grows and neither a cycle nor a long chain of views is
  cut. `docs/SQL_REFERENCE.md:646`, `docs/adr/0025-views.md:53`, `CHANGELOG.md:2782` and
  `TROUBLESHOOTING.md:462` promise `[GBY-4076]`.

By the instances of section 3 that are run by hand:

* `MCWalBadRecord`: `replay_to` (`storage.rs:1085`) applies records before it has verified
  the later ones, so a replay refused for a bad CRC leaves a mixture in the `.db`.
  `RUNBOOK.md:123` and `docs/TECHNICAL_SPECS.md:63` say it does not.
* `MCDbFileRestore`: `backup` (`backup.rs:65`) truncates the destination and leaves its
  `.wal`; the reopen that verifies the copy replays that WAL over it, and the
  comparison of headers passes. `backup.rs:8-9` and ADR-0015:61 promise otherwise.
* `MCServerDrop`: DROP DATABASE (`server.rs:1133`) does not ask whether a session has the
  database open, and the session's commit is acknowledged into an unlinked file.
  `tests/m13_server.rs:129` states what /tx/commit is for.
* `MCForeignKeysSelf`: `move_row_and_cascade_on_update` cascades to the row that moves as to any
  child, and then inserts the row encoded before the cascade (`sql.rs:12594`): its own
  reference keeps the old key, and the index an entry for it. The comment at
  `sql.rs:12363-12366` says this case is idempotent; `docs/STATUS.md:50` says self references
  work.
* `MCSchemaReplace`: `get_table` answers for tables alone, so CREATE TABLE, CREATE TABLE AS and
  RENAME over the name of a view, a trigger or a routine replace it.
  `docs/SQL_REFERENCE.md:647`, `docs/adr/0025-views.md:25` and the comment at `sql.rs:5225` say
  that all objects share one namespace.

## 7. Known limits

What the code does by reading, that no run of this project states as a property.

Storage, files, server and rows:


* An I/O error while `commit` writes or syncs the `.db` makes the caller roll back,
  and rollback removes the WAL that could have repaired the mixed `.db`
  (`storage.rs:648-676`). `Wal` has the step (an environment whose `errors`
  has `"apply"` or `"dbsync"`); the run and the proofs exclude it.
* A failing log sync, then a failing `remove_file`, then a kill: the WAL of a
  transaction reported as rolled back is complete, and the next open applies it.
* A kill after the marker is written and before it is synced, then a replay, then a power
  loss during that replay: both copies can be lost in part.
* A torn page 0 blocks the replay that would repair it (`storage.rs:537`), and a WAL that
  ends inside a record's header refuses the open (`RUNBOOK.md:123` says it is discarded).
  Both are the exceptions `RecoversEventually` names.
* A cache that outgrew its capacity with dirty pages never shrinks back, since an insert
  evicts at most one page; the comment at `storage.rs:308-313` says it drains.
* Non-forced create tests `path.exists()` and then opens with truncate: a database made
  in between is emptied. Forced create truncates before it asks for the lock, so a
  locked database is emptied too (`USER_MANUAL.md:36`, ADR-0013:69 say it fails), and it
  leaves an old `.wal`, which the next open replays into the new database.
* `backup` truncates its destination before the source has been read;
  `USER_MANUAL.md:35` says the source is checked first.
* DROP DATABASE removes the `.db` and then the `.wal`; a crash in between leaves a WAL for
  the next database of that name. `DbFile` has both steps; the run that passes drops only
  the copy, which has no WAL; `MCDbFileDrop.cfg` drops the database.
* After DROP and CREATE of a name that is still open, two Pagers of different inodes share
  one `.wal` name and each truncates and removes the other's.
* In a session a statement that fails half way leaves its half in the transaction, and a
  commit keeps it (ADR-0090:47-49 calls it deliberate). `SessionExec` has it.
* ROLLBACK inside a batch drops also the statements before its BEGIN; in a session, all
  that earlier requests did. `SessionRollbackScript` has it.
* SAVEPOINT in a session's request is refused, because each request has a new Engine
  (`API.md:335` documents it).
* Plain /exec does not collect an expired session: the session keeps its database's lock,
  and plain /exec on that database fails, until a /tx/* request or a request with a session
  id comes (`server.rs:49-51` says any request collects).
* A /tx/commit whose answer was lost is answered 404 when repeated, whether or not it was made.
* A GET holds the file's lock while it reads, and a writer that comes meanwhile fails.
* A panic poisons `write_lock` for the life of the process and leaks one connection.
* A commit of a session that fails in the Pager is not in `Server`; it is in `Wal`.
* Leaves that deletes have emptied stay in the tree for ever.
* A full leaf is halved by the number of its entries (`bptree.rs:235`), so an entry that
  fits a page can be refused because one half does not (`LeafSplitFails` has it;
  `docs/TECHNICAL_SPECS.md:78` says a full leaf is split).
* RESTRICT at the second level of a cascade, or a constraint of a child, fails after
  earlier rows were deleted or set (`sql.rs:16135` and `docs/ERROR_CODES.md:89, 170` promise no
  partial state). A batch is rolled back; a session keeps the partial rows, orphans
  among them, and so does a batch whose BEGIN ... EXCEPTION block handles the error, since
  `exec_block` (`sql.rs:7762`) sets no savepoint. With `KeepPartial` TRUE `NoOrphans` fails.
* An UPDATE that changes a row's key and sets its reference to its *old* key is accepted,
  and to its new key refused: `check_fk_value` allows the key from before. With
  `SelfMoves = {"assigned"}` `NoOrphans` fails.
* SET DEFAULT does not ask whether the default's row exists, or is the one being deleted.
* A row that references itself with RESTRICT can never be deleted.
* `detect_conflict_pks` (`sql.rs:17574`) looks a composite UNIQUE index up with its first
  column alone, so ON CONFLICT finds no conflict there.
* INTEGRITY CHECK (`sql.rs:3937`) goes from index entries to rows, not from rows to entries.
* -0.0 and 0.0 compare equal and have different index keys.

Blocks, loops and routines (`Script` has each of these as the code does it):

* EXIT in the body of a function, procedure or trigger ends the loop of the caller.
* A WHEN OTHERS handler catches a RETURN, which is an error like others on its way up.
* A block sets no savepoint: what it did before the error its handler catches stays.
* A user's RAISE whose text holds one of the sentinels is taken for the signal.
* A FOR up to the largest i64 saturates its counter and ends at the limit with an error.
* FOR r IN (SELECT) with two columns of one name gives the outer variable back wrongly: the
  second entry saved is the first one's value. `ScopeGivenBack` speaks of the first.
* COMMIT in a trigger commits the half of the statement that was done.
* `var_scope` keeps what a CALL declared; functions recurse without a limit of their own.

Schema changes (`Quirks` admits those that break a property):

* DROP TABLE removes an object of any kind and asks for no foreign key that names it.
* Renaming a table that refers to itself, or the key of one, leaves its foreign key behind;
  dropping or renaming a column leaves its CHECKs behind.
* ADD COLUMN ... REFERENCES with a DEFAULT gives the rows there are a reference nobody checked;
  a DEFAULT wider than its VARCHAR or TINYINT is accepted, and a later DROP COLUMN fails
  while it rewrites the rows.
* A trigger's body may change the schema, although `errors.rs:510-513` says it is refused, and
  `exec_insert` goes on with the description it read before (`sql.rs:8616, 8745`). If the body changes
  that table, the row is written by the old one. If it renames the table that a foreign key of
  the row names (`sql.rs:4614-4637` corrects the catalog, not the description held) and makes another of
  that name, the value is looked up in the new one and may have no row in the table it refers to.
* A column of a composite index other than its first can be dropped; a column of a composite
  key other than its first cannot be renamed.
* RENAME keeps the names of indexes, so two tables can own `uq_t_c`. Triggers, policies,
  grants and statistics stay with the name, not with the table.
* INTEGRITY CHECK reports orphans for composite foreign keys that have none
  (`sql.rs:4037-4048`) and does not see missing entries.
* CREATE TABLE AS makes its table before it finds that a column has values of two types.
* A composite index on a nullable column refuses an INSERT with NULL after its row was written.

Access:

* Policies for SELECT are not added for the right side of a JOIN.
* ON CONFLICT DO UPDATE and REPLACE ask neither the UPDATE or DELETE privilege nor the USING
  of the row in conflict; TRUNCATE asks no policy.
* GRANT, CREATE USER and DDL need no privilege. What is granted to a role reaches nobody.
  Grants and policies outlive the user or the table they name.
* `current_user` is not part of the transaction: it survives a ROLLBACK.
* A policy with WITH CHECK alone makes a SELECT fail, while RETURNING passes it over.
* The targets of an UPDATE are found before its triggers run.
* The column names of CREATE VIEW v(a, b) rename nothing (`sql.rs:8238-8269`).

Queries (names in quotes are members of `KnownLimits`, which the `query` run sets aside):

* `"partial_key"`: the first finding of section 6.
* `"null_lookup"`: `WHERE col = NULL` on a column with a hash index returns the rows with NULL
  (`sql.rs:10376, 15273`).
* `"pk_prefix"`: `=`, IN, a correlated reference and the index-loop join on the first column of
  a composite key look its value up as the row's key (`sql.rs:10461, 10530, 10573, 16951`).
* `"cut_twice"`: a correlated EXISTS after a fresh ANALYZE is paged twice, so OFFSET skips
  twice as many.
* `"early_limit"`: LIMIT without ORDER BY cuts the rows before they are grouped
  (`sql.rs:10654-10716`; `BENCHMARK.md:81`).
* DISTINCT is applied after LIMIT, not at all to a join, and to the source rows of a SELECT with
  windows.
* A correlated equality whose outer value is NULL is an error (`sql.rs:10573-10584`);
  NOT (x IN (..., NULL)) is true.
* The hash join compares typed keys, so INT 1 does not meet FLOAT 1.0, and an ON with both
  columns on the right never matches.
* SUM narrows from i128 to i64 (`sql.rs:14038`), a window's SUM wraps (`sql.rs:22213`). A running
  window goes by rows, not by peers, and LAST_VALUE is the partition's last.
* WITH RECURSIVE ... UNION keeps duplicates of its anchor. A set operation returns its rows in
  the order of a hash map; ORDER BY puts NULL last there and first in a SELECT.
* A subquery on a column without an index is refused, unless stale statistics make the scan be
  chosen.
* Two composite keys with one fingerprint are one row.

## 8. Plan

Written so far, in this order because each is what the next one relies on: `TxStore`,
`Pager`, `Wal`, `Server`, `DbFile`, `BPlusTree`, `StorageProofs`,
`ForeignKeys`, `ForeignKeysProofs`, `Script`, `Schema`, `Access`, `Relational`, `Select`, `Joins`,
`ServerProofs`, `ScriptProofs`, `AccessProofs`, `DbFileProofs`, `SchemaProofs`, `SelectProofs`.

What would come next: the three join algorithms as sets of pairs of rows, so that their agreement could be
proved as that of the access paths is; and `LeafCursor`
with its position as state, which `CursorRange` evaluates in one step because it borrows the Pager.

Not modelled, and why:

* The tokenizer and parser, the bytes of rows and pages, JSON and HTTP text: functions of text and
  bytes with no state that outlives a call.
* Scalar expressions, casts, text, date and JSON functions: plain evaluation. Three-valued logic
  and comparison are in `Select`.
* Cryptographic functions and CRC-32: numeric kernels with published vectors. Passwords: an
  authorization is its success.
* The file of the database log and its rotation: one writer under a mutex whose errors are
  dropped, and nothing reads it. Which records are written is in `Script`.
* The target column of ON CONFLICT (`sql.rs:17574`): `Conflicts` asks the key and every UNIQUE column.
  Composite foreign keys that share a column, and the refusal of an ON UPDATE action that would change the
  child's primary key (`sql.rs:12463-12478`).
* INSERT ... SELECT as a source of rows: it is a SELECT and then an INSERT of each row.
* Two names with one 64-bit hash: names are distinct values in `Schema`. `get_object` (`catalog.rs:2376`)
  reports such a pair.
* The MCP gateway, the server's executable, benchmarks, demo data, web and desktop programs:
  clients of what is modelled, with no state between their calls.
