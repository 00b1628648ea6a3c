# The OLTP database in TLA+

A verification project for the repository's two bodies of code:

* the C++ database: a TCP SQL server with one worker thread, a planner and
  executors, and table files with a B+tree primary index behind a buffer pool;
* two large Rust prototypes kept beside it under `experiments/`: a disk B-tree with a
  cursor (`experiments/cursor/btree.rs`) and an SQL parser
  (`experiments/parser_in_rust/parser.rs`).

The modules here model their parts, TLC checks them on small instances, and
TLAPS proves the theorems of the `*Proofs` modules for every value of the
constants.

`PROJECT.json` lists the components, the runs, the lines of code behind each
definition (`map`), the hazards, the findings, the mutants and the theorems.

To repeat a run: `tlc -config OltpServer_safety.cfg OltpServerMC` (module and
configuration of each run are in the tables below). To repeat the proofs:
`tlapm OltpServerProofs.tla`, and so on.

Paths below leave out the leading `src/` of the repository copy where that is
clear: `server/main.cpp` is `src/server/main.cpp`, `src/storage/...` is
`src/src/storage/...`, `experiments/...` is `src/experiments/...`.

## 1. The system

    client/main.cpp ──TCP──> server/main.cpp: select() loop ──task_queue──> database worker
                                                                        │
                                        Orchestrator::run_query (one statement)
                                        parse → analyse → TransactionManager::execute(
                                             plan → executors → Storage ) → flush catalog
                                                                        │
             DatabaseManager ── Storage engine of the current database ─┤
                                 ├─ CatalogManager   pages 0 and 1 of each table
                                 ├─ BPlusTree        the primary index, pages 2, 3, ...
                                 ├─ BufferPoolManager  frames over the pages ≥ 2
                                 └─ StorageManager   one file stream for each table

### Components

| Component | State it keeps | Operations | What is hard about it | What makes it correct |
|---|---|---|---|---|
| SQL server (`server/main.cpp`) | map of connections (state, receive buffer, session database, response), task queue, the two mutexes | accept; read and write branches of the `select()` loop; worker: wait, take, run, store | two threads; a pointer into the map kept over an unlock; partial `recv()` and `send()`; pipelined lines; hang-ups at any time; one `DatabaseManager` for all sessions | the pointer stays valid; a pending connection has one task; statements are answered once, in order; sessions do not see each other's database |
| Transaction manager (`src/transaction`) | queue, id counter, completed id, exception slot, two condition variables | `execute`, `worker_loop`, constructor, destructor | lost wake-ups, the counter outside the mutex, one exception slot for all, shutdown | returns after its own function ran; throws its own exception; serial, in queue order; always returns; the join ends (the first, second and fourth for one caller) |
| Buffer pool (`src/storage/bufferpool_manager.cpp`) | frames: page, pins, dirty flag, LRU stamp, bytes | fetch, unpin, mark_dirty, flush, flush_all | eviction against pins, dirty pages, read errors half way, a caller that reads behind its unpin | a page is in one frame; a page changes by its callers' writes only, and nothing marked is lost; a pinned frame is not taken |
| B+tree and page layout (`src/storage/bplustree.cpp`, `page_layout.cpp`) | pages, root and free list (on page 0) | search, key_exists, scans, insert with splits, remove with purge, unlink, free | split cases by position; deleted records that move; freed pages; space accounting | a row store: lookups and scans find exactly the rows stored |
| Catalog manager (`catalog_manager.cpp`) | pages 0 and 1 of up to three tables, dirty flags | load with LRU eviction, flush, counters | page 0 and the data pages are written apart; counters must survive | no number that a stored row has is handed out again; page 0 and the pages agree |
| Storage manager (`storage_manager.cpp`) | one stream for each table | create, read and write of a page | sticky stream errors | what was written is read |
| Database manager (`db_manager.cpp`) | current database | create, drop, use, list | the directory may vanish | a session's name names an existing database |
| Engine and orchestrator (`src/executor/storage.cpp`, `orchestrator.cpp`) | the storage object of the current database | run_query | a statement that fails between catalog and data pages; the engine replaced by `use_db`; a crash | the next engine finds what the last one left |
| Executors, cursor (`src/executor`) | iterator positions | insert, update, delete, scans, filter, project | scanning while modifying; update as remove and insert | a statement touches exactly the rows its WHERE selects |
| Planner, index scan (`src/planner`) | none | WHERE to a key range | which conjuncts remain as a filter; byte order against number order | rows returned are those that satisfy WHERE |
| Evaluator, analyser, parser, serializer | none | pure functions | numeric edges | - |
| Client, network (`client/`, `src/network`) | socket, buffer | send, read up to the terminator | framing | one response for each request |
| Disk B-tree and cursor, Rust (`experiments/cursor/btree.rs`) | pages: nodes and overflow chains | insert, try_insert, remove, get, max, cursor; balancing | redistribution among siblings of entries of any length, at every level; a page 0 that is smaller; who frees a chain; page numbers that move | entries and pages neither lost nor doubled; a balanced tree after each call; searches and the cursor agree with a sorted list |
| SQL parser, Rust (`experiments/parser_in_rust/parser.rs`) | position in the token stream | try_parse, parse_statement, parse_expression | precedences spread over three methods; optional parts; errors that say what was expected | a tree says what the text says; the expressions are those of the grammar; suggestions are right |
| Other prototypes (`experiments/`), stand-alone mains, build files | - | - | not part of the database | - |

How they interact. The main thread and the database worker share the connection
map (under `conn_mutex`) and the task queue (under `queue_mutex`). The worker
calls `run_query`, which calls `TransactionManager::execute`, which hands the
statement to a third thread and blocks: the third thread is the only one that
touches pages. Trees and cursors call the buffer pool (fetch, write through the
pointer, mark dirty, unpin); the pool calls the storage manager; pages 0 and 1
go past the pool, through the catalog manager. Each statement first replaces the
Storage object of the last one (`use_db`): its destructor writes what the pool still
holds. The prototypes are programs of their own; nothing else uses them.

## 2. The modules

| Module | Models | Lines of code | 
|---|---|---|
| `SqlSessions` | what the server promises its sessions (abstract) | - |
| `OltpServer` | `server/main.cpp` with its clients, and `run_query` as one step | `server/main.cpp` |
| `OltpServerSessions` | how the states of `OltpServer` map to those of `SqlSessions` | - |
| `OltpServerMC` | bounds | - |
| `OltpServerProofs` | theorems: both threads and the statements on their way; the refinement | - |
| `TransactionManager` | `transaction_manager.cpp` | the whole file |
| `TransactionManagerProofs` | theorems | - |
| `PageStore` | what a pool promises its callers (abstract) | - |
| `BufferPool` | `bufferpool_manager.cpp` and the discipline of its callers | the whole file |
| `BufferPoolMC`, `BufferPoolProofs` | bounds; theorems | - |
| `RowStore` | what a table promises its executors (abstract) | - |
| `BPlusTree` | `bplustree.cpp`, `page_layout.cpp`, the free list of `page.h` | both files |
| `BPlusTreeMC`, `BPlusTreeProofs` | bounds; theorems | - |
| `Statements` | a statement over one table: planner, executors, evaluation of WHERE and SET | `planner.cpp`, `executors.cpp`, `executor_factory.cpp`, parts of `evaluator.cpp`, `tuple_codec.cpp`, `orchestrator.cpp` |
| `StatementsMC`, `StatementsProofs` | the keys and clauses of the instances; theorems | - |
| `Engine`, `EngineMC`, `EngineProofs` | one table file from statement to statement, with crashes; bounds; theorems | `orchestrator.cpp` (flush), `db_manager.cpp` (use_db), `catalog_manager.cpp` (page 0), `bplustree.cpp`, `executors.cpp` (INSERT, DELETE, UPDATE) |
| `KeyComparators`, `BTreePages`, `BTree` | the keys; pages, searches and cursor; the operations and `balance()` | `experiments/cursor/btree.rs` |
| `BTreeTests`, `BTreeMC` | its 38 unit tests as runs of the model; the small trees | the `tests` module of the file |
| `BTreeProofs`, `BTreeShapeProofs` | theorems about `balance()`; about the tree that the operations leave | - |
| `SqlParser` | the parser from the token stream up | `experiments/parser_in_rust/parser.rs` |
| `SqlGrammar` | the language without a parser, and the properties (abstract) | - |
| `SqlParserTests`, `SqlParserMC` | its unit tests; the inputs | the `tests` module of the file |

A definition that no action uses and that stands just before another one (for
example `FirstSlotUpToLast` before `FirstSlot`) is a mutant of it: a plausible
mistake that some property must catch. They are used only to show that the
properties can fail.

### OltpServer

State. `connections` is the map (a function on the ids in it), `taskQueue` the
queue, `worker` the program counter and locals of the database worker, `loop`
those of the main thread (the two `fd_set`s and the iteration), `mgrDb` the
current database of the one `DatabaseManager`, `disk` the directories. The rest
is the other side of the sockets: `wire`, `peerOpen`, `sent`, `lines`,
`delivered`.

Actions. The main thread: `Snapshot` (the fd_sets, under `conn_mutex`), `Select`
(which of them are ready), `Accept`, then, with `conn_mutex` held to the end of
the iteration, one action for each branch of one connection (receive, end of
stream, complete or partial send, send error), and `Erase`. The worker: take a
task (under `queue_mutex`), copy the session's database, run the query with no
lock, store the response (under `conn_mutex`); `conn_ptr` is the id that the
worker remembered, used without the lock. A handler of the main thread is one
action because it holds the mutex; the worker's steps in between are separate
because it does not.

Bytes. A line is its text and its newline, two tokens, so `recv()` can stop
inside a line, between two, or take several. A response is sent in up to two
parts. What a statement *is* matters only as far as sessions can tell: USE,
CREATE DATABASE, and any other one (a query), which may fail. `Quota` says how many
lines a client sends and `Kinds` of which kinds they may be.

Environment. Clients send (`SendLine` is `send_line` of `tcp_client.cpp`), close or
shut down at any time; a directory may be removed at any time, also between the USE of
a session and its query (`SessionDbMissing`).

### TransactionManager

Each section under `mtx_` is one action; the load and the store of
`next_txn_id_++`, which is outside the mutex, are two. A thread asleep on a
condition variable is notified, or wakes for no reason, and then tests its
predicate again. Any number of callers may call. `CallsAlone(c)` says that nobody but c
has called so far, as in the server, where the database worker is the only one: three of
the properties are about such a caller and say so.

### BufferPool

`frames` are the frames, `disk` the table files. Callers write through a pointer
while the page is pinned (`WritePage`) and mark it dirty (`MarkDirty`) before the
unpin: `touched` holds what is written and not yet marked. `peek` is the page
that `split_leaf` reads behind its unpin (`bplustree.cpp:340-350`). A read may
throw (`FetchReadError`), and a fetch throws when every frame is pinned
(`FetchNoFrame`). The caller is then cut short: its pins stay for good, and so does
what it wrote and had not marked, as in `split_leaf`, which links the leaf to its new
neighbour before it fetches the old one (`bplustree.cpp:309-319`). `Replace` is the
destructor, at any time and in any such state: it flushes the frames that are marked, and
a write that was never marked goes with its frame, unless the page was marked before.

`PageStore` has for each page what a caller reads (`content`) and what the next pool
will read (`kept`). A page changes only by a `Write` of a caller that has it pinned, in
the caller's own step and no other page with it; fetches, evictions and failed reads
change neither. `Renew` replaces the pool.

### BPlusTree

One call of `insert()` (it calls itself after a split) and one turn of the loop
of `remove()` is one action. All records of a table have one size, so a leaf is
full after `LeafCap` records; `used` counts the record space that was handed out
and not yet purged, which is what decides when the page layout throws. The
executors' discipline is part of the model: a key is inserted after `key_exists`
said no, and removed after a scan found it. `orphans` is a history variable:
leaves freed below the root page.

`RowStore` holds what a scan sees and what a lookup finds together with the request under
way. A request that ends normally has made its change for scans and lookups at once, and
a refusal, which changes nothing, is one that the caller is told (`Failed`): a row that
nobody sees after an insertion that ended normally is a violation.

### Statements

`table` is the row store that `RowStore` promises, so the defects of the tree do
not mix with those of the planner; `page` says on which leaf a key lies, since a
sequential scan goes through the pages in the order of the file and an index scan
through the leaves. `plan` is what the chain of plan nodes comes to. `Submit` is
`build_plan` and `build_executor`; `ScanNext` and `ScanEnd` are one `next()` of
the scan with the filters above it; `DeleteRow` and `UpdateRow` are one turn of
the loops of the two executors, `UpdateDuplicate` the exception in the middle;
`Insert` is a whole INSERT; `Return` ends the statement. Whether changes wait for
the end of the scan follows from `plan.collect` and is no rule of the model: without
the Collect node the actions interleave. Keys are 32-bit numbers, and the tree orders
them by their bytes (`ByteLess`); `ExtractPkRange` forgets what the planner forgets.

### Engine

`file` is the table file: page 0 (`header`: root, free list, next row id) and the
data pages. `catalog` is page 0 as the `CatalogManager` of the current Storage
object has it, with its dirty flag; `pool` holds the dirty data pages. `phase` says
whether the object is new, runs its statement, has answered or has refused it;
`todo` are the keys its statement has collected and not dealt with. `before`, `images`
and `cutShort` are history variables: the table when the statement began, the rows that
its UPDATE replaced within their leaf (each as it was and as it is), and whether an
UPDATE ever ended without its answer. The properties compare with them, and a bound
of `Begin` reads the last.

`Begin` is `use_db` at the next statement: a new catalog and an empty pool, once
the old pool has written its pages (`WriteBack`, one page at a time and in any
order). `WriteBack` happens in the middle of DELETE and UPDATE too, whose statements
touch as many pages as evict others. `InsertRow`, `DeleteRow` and `UpdateRow` are one
turn of the loop of an executor with all the tree does, `InsertDuplicate`,
`UpdateDuplicate` and `FailToRead` the exceptions, which skip the flush; `Answer` is
the flush and the end. `Crash` is a kill, or the process that dies in the destructor
of the pool: nothing that was not in the file is there any more.

The tree is the one of `BPlusTree`, as long as it is one leaf or a root with two, and
each deletion purges its leaf. `Removed` takes a key from every leaf of the chain that
holds it (`Holders`), for two rows may have one key: an UPDATE that gives the row of
the separator a new image takes it from the high leaf and puts it into the low one, and
a kill may come between the writes of the two. (Both leaves are then in order, so that
the next engine starts from a sound tree with one row too many.) Here rows take one unit
or more, so that an UPDATE can split a leaf.

### BTree

`pages` maps the numbers of pages in use to nodes (cells and a right child) and
overflow pages; `geo` holds the sizes and the tuning of one tree, which is chosen
at the start. A call of insert, try_insert or remove is one step up to the place
where it calls `balance()`, and each level of `balance()`, which moves the cells of
one group of siblings and calls itself on their parent, is one step: `bal` holds its
arguments and the internal node that `remove()` has still to look at. `removed` is the
cell that `remove()` returned, until the caller frees its chain. `dict` is a history
variable: the entries that the calls should have left. Cells have lengths in bytes,
so the distribution, its two corrections and the boundary of page 0 are computed as
in the code; the layout inside a page and the pager, which are not in the
repository, are external.

`BTreeTests` adds `test` and `script`: a test is a list of calls on a tree with the
page size of the test, and `TestsPass` compares what the test asserts.

### SqlParser

The tokenizer is not in the repository, so an input is a sequence of tokens. `call`
is the method called, `self` the parser (tokens and position), `parsed` the trees
so far and `outcome` whether it still works, is done, or which error it returned,
where, and what that error suggests. One step of `try_parse` is one statement of its
loop. The methods are operators with the names of the code; `SqlGrammar` says what
they should do by other means: the text of a tree, an ambiguous grammar of
expressions, and a condition that picks the one tree of a text.

## 3. The runs

Twelve runs; the ones that pass explore every reachable state of the instance.

| Run | Instance | Shows |
|---|---|---|
| `OltpServer_safety` (`OltpServerMC`) | 2 connections, one with 2 lines (USE, a query), one with 1 (USE or blank), 2 databases | `WorkerPointerValid`: the entry behind `conn_ptr` is never erased under the worker. `OneTaskPerPending`: a connection in `PENDING_RESULT` has exactly one task, queued or with the worker. `SessionsAreIsolated`: the server implements `SqlSessions`, so each statement runs in the database of its own session although all share one `DatabaseManager` |
| `OltpServer_live` (`OltpServerMC`) | 1 connection, 3 pipelined lines | `StatementsConserved`: no statement is lost, repeated or reordered between the wire, the receive buffer, the queue, the worker and the answers. `EveryStatementAnswered`: each is answered or the connection ends, if clients read or hang up |
| `TransactionManager_two` (`TransactionManager`) | 2 callers, 2 calls each | `SerialInQueueOrder`: functions run once, one at a time, in the order of the queue, which may hold two. `ShutdownCompletes`. For a caller that is alone: `ReturnsAfterRun`, `OwnException`, `CallReturns` |
| `BufferPool_two` (`BufferPoolMC`) | 3 pages of 2 tables, 2 frames, 2 values, 5 fetches | `PageInOneFrame`, `CleanFrameMatchesDisk`, `PeekedPageStays`, and `ImplementsPageStore`: a page changes by the writes of the callers that have it pinned and by nothing else, and what they marked outlives the pool |
| `BPlusTree_append` (`BPlusTreeMC`) | 7 ascending keys, leaves of 3, up to 5 pages, deletions that leave a row in each leaf below the root | `RowsAreSeen`: for scans and lookups by key together the pages implement `RowStore`. `SpaceIsReused`: nothing points to a free page, and no insertion fails for want of the room that deletions gave back |
| `BPlusTree_pages` (`BPlusTreeMC`) | 5 keys in any order, leaves of 3, root of 3, up to 5 pages, any deletions, marked first and purged by the second of a leaf, until a freed leaf is used again | `PagesInOrder`: slots are sorted and the leaves one doubly linked chain. `RowsStayOnPages`: no step changes the stored rows of a key other than its own, but a split that copies a marked record, by just that one |
| `BPlusTree_middle` (`BPlusTreeMC`) | 8 keys, leaves of 4 | violated: section 6 |
| `Statements_all` (`StatementsMC`) | keys -1, 1, 2, 3 and 256, two values, every table, every layout on two leaves, WHERE clauses of every form (29), 4 SET clauses | `ExactlyMatchingRows`: a statement deals with all the rows that satisfy WHERE and no others, but for a forgotten comparison and for single rows whose bytes and number are on different sides of the lower bound. `AppliedAtOnce`: an answered DELETE or UPDATE did what it says to the table as it was. `UpdateKeepsRows`: UPDATE loses no row, also when it is refused in the middle |
| `Statements_where` (`StatementsMC`) | keys 1 to 3 | violated: section 6 |
| `Engine_all` (`EngineMC`) | 3 keys, rows of 1 or 2 units, leaves of 3, 5 row ids, 4 pages | `NextEngineFindsTheTable`: what one Storage object leaves in the file, after an answer, a refusal or a crash, is a sound tree for the next one, in which each row is once, untouched rows are as they were, and of each row replaced within its leaf there is either the old or the new one (with the exceptions it names). `RowIdsStayFresh`: no stored row has an id that is still to be handed out |
| `BTree_all` (`BTreeMC`) | 7 small trees and those of the 38 tests | `EntriesKept`, `PagesAccounted`: at every level of `balance()` the entries are those the calls should have left, in order, and each page in use belongs to the tree, once. `BalancedTree`: leaves at one depth and, for the lengths of these trees, nothing out of balance but what the call is under way for; with entries of one length, half full pages. `EntriesAreFound`: get, max and the cursor agree with the sorted entries. `BalanceGoesUp`: each level climbs, so `balance()` ends. `TestsPass` |
| `SqlParser_all` (`SqlParserMC`) | texts of the tests and what becomes of them with one wrong token; short expressions; chains of operators; scripts | `StatementsAreTheText`: written out again, the statements are the tokens consumed. `ExpressionsOfTheGrammar`: exactly the expressions of the language are accepted, each with its one tree. `SuggestionsWork`: with a token that an error says it expected, the call gets further. `TestsPass` |

### Bounds and why they are enough

* Server: two connections are needed for one session to disturb another, two
  databases to tell whose was used. One session selects a database and then executes
  in it; meanwhile the other one changes the database of the manager, and the directory
  may go before the query, or come and go before the USE: 1,631,414 states. The third
  line and the other kinds are left to the theorems. Each connection's own line handling
  does not depend on the others, so three lines on one connection cover the order of
  pipelined statements: one with the worker, one in the buffer, one on the wire.
  Ids are not reused (`next_connection_id` only grows), so a second connection
  may open after the first was closed.
* Transaction manager: two calls cover a call after a success, after a failure, and
  each order of sleeping and waking; the second caller makes a queue of two, and ids
  that are drawn in another order than that of the queue. As long as the other caller has
  not called, a caller is alone. The theorems remove both bounds.
* Pool: two frames and three pages make each fetch evict; five fetches are
  enough to fill the pool, evict a dirty frame, and read the page back.
  Two tables make pages that differ only in the table.
* Tree: a leaf of the real database holds 2 to some hundred records, and the
  purge threshold is 30% of the page. `LeafCap` and `PurgeAt` are related by the
  record size r: a page is purged after one deleted record when r ≥ 1,228
  bytes, so when `LeafCap` ≤ 6. `BPlusTree_append` and `BPlusTree_middle` keep to that.
  `BPlusTree_pages` is about records that stay marked until a second deletion
  and are moved by splits meanwhile, in trees of several leaves: its leaf of three with
  `PurgeAt = 2` is a leaf of six or more scaled down, since seven keys in leaves of six
  (541,461 states with `MaxPages` 3, no error either) do not split a leaf in the middle
  of others. The code compares only how many records fit, how many are dead and
  which slot is the middle one, and `TreeRowsStayOnPages` and `TreePagesInOrder` hold for
  every `LeafCap` and `PurgeAt`. `InternalCap` 3 is a table with
  keys of about 2,000 bytes; with INT keys the root has room for some 600
  separators, which no instance fills and which only delays the same step.
  Deadlock is not checked for the tree, since its instances run out of keys.
  `BPlusTree_append` is the use with an AUTO_INCREMENT key as long as the numbers
  are ascending in the order of their bytes, which are little-endian: up to 255.
* Statements: the keys are such that the order of the bytes is not that of the numbers,
  256 before 1 and -1 behind all; a range has rows below, at, between and above its
  ends; two leaves in either order make sequential and index order differ. Every
  table is an initial state, so a second statement meets nothing new. The clauses are a
  comparison of the key or of the value, ranges written both ways round, and pairs with
  and without a lower bound that the planner takes for a range, those where it forgets
  the other comparison included.
* Engine: three rows of one unit fill a leaf of three, and an UPDATE that makes one
  larger splits it; five row ids allow three INSERTs and an UPDATE of two rows, or an
  UPDATE that moves the root and is then refused. Four pages are a root, two leaves
  and a page that a crash leaked. After a statement has left a table half written,
  only the attempt to read a zeroed root is followed (`At`), and after an UPDATE
  without its answer one more statement (`Begin`). Three rows are too few for one
  UPDATE to replace rows in each of two leaves; that a kill with one of them written
  keeps each of these rows once is left to the theorem.
* Disk B-tree: what `balance()` does depends on how many cells fit in a page, how
  many siblings there are, and how the sizes differ. The small trees have two to
  four cells of one length in a page, with enough keys for three levels, a root on
  page 0 that has room for one or two of them, cells of two lengths, and overflow
  chains of one and two pages; every sequence of calls on them is explored. The trees
  of the tests have the code's own sizes (pages of hundreds of bytes, three levels,
  up to five siblings in a group), on the sequences of calls of the tests. Keys are integers
  and strings whose bytes do not have the order of their contents, for the comparators.
  The lengths are such that no distribution goes wrong (section 6): `TypeOK` and
  `BalancedTree` say nothing of other lengths.
* Parser: precedences meet in pairs and triples of operators, with a sign and a group
  on either side, which the chains enumerate; everything of up to five tokens over
  seven kinds of them is what the grammar is compared on; one wrong token at each
  place of each text reaches every error.

### Fairness

* `OltpServer!FairSpec`: `Fairness` is what the code's own threads give. Both are
  scheduled (weak fairness of the steps of the main thread and of the worker); a
  socket that stays readable is reported by `select()` in time, and `recv()` gets the
  bytes that are there (strong fairness for each connection, since the main thread
  serves others in between). `ClientsReadOrHangUp` is a condition on the clients, which
  the code cannot enforce: one whose answer is being sent reads its socket in the end or
  hangs up. If it does neither, `send()` returns EAGAIN for ever and the connection
  stays in `WRITING` with its statements unanswered, which `EveryStatementAnswered` does
  not promise to exclude; the server has no timeout. Clients need not send or close.
  The property allows that the connection ends.
* `TransactionManager!FairSpec`: weak fairness of the worker and of a caller
  inside a call. Spurious wake-ups are allowed and never counted on, and nobody
  has to call `execute()` or to destroy the object.
* Everything else is safety, without fairness. `balance()` is sequential and must end
  whatever is scheduled, which `BalanceGoesUp` shows by a measure that each level
  decreases.

## 4. What is proved

All leaves are checked by TLAPS; no module states a fact without a proof. The
constants carry only the assumptions named in the modules (`ServerAssumption`,
`TxnAssumption`, `PoolAssumption`, `TreeAssumption`, `StatementsAssumption`,
`EngineAssumption`, `GeometriesAssumption`), which TLC evaluates in the runs.

`OltpServerProofs`, for any number of connections, lines and databases:

* `ServerTypeOK`, `PendingIffTask` (`OneTaskPerPending`), `WorkerPointerIsValid`
  (`WorkerPointerValid`).
* `WorkerPointerValid` is not inductive: it must be known that the entry the
  worker points at is pending, and that no other task names it. `IInv` adds
  `LoopInvariant` (ids are handed out once, and the fd_sets and the iteration
  name entries of the map), `PendingHasTask` and `TaskIsPending` (the pending
  entries are exactly those with a task, queued or with the worker) and
  `TasksDistinct` (no two tasks of one connection). The main thread erases only
  closed entries, and closes only entries that are in one of its fd_sets, which
  pending ones never join: so what the worker points at is never erased.

In the same module, for any number of connections and of pipelined
statements, and however `recv()` cuts lines and `send()` responses:

* `StatementsAreConserved` (`StatementsConserved`). The *stream* of a connection is
  its receive buffer followed by what is on the wire, and `Taken` is the number of
  the last statement that was taken out of it. The invariant `SInv` says of each
  live connection that its stream holds exactly the statements that were sent after
  `Taken`, one time and in order, each text followed by its newline, and that its
  task, or the worker, or its response holds statement `Taken` itself. So a step
  either moves tokens from the wire to the buffer, which leaves the stream as it is,
  or takes the first line of the stream and moves `Taken` on by one. Where the code
  skips blank lines it takes several lines, of which only the last is a statement:
  that the first statement of the stream is what it takes is an induction over the
  tokens, carried out as the argument of a least counterexample
  (`WellFoundedInduction`).
* Of the worker, `SInv` says that the reply it holds has the number of its statement
  and that, while it runs, the one `DatabaseManager` is in its session's database.

And the refinement, for the same constants:

* `SessionsIsolated` (`SessionsAreIsolated`): every behaviour of the server is one of
  `SqlSessions`. The worker's `RunQuery` and `SessionDbMissing` are the abstract
  `Execute` (the answer exists from then on, first in the worker, then in the
  response, then at the client, without changing place in the sequence of answers);
  a client's statement is `Submit`; the close of a connection is `End`, and may lose
  the one answer that is on its way; a directory that vanishes is `Remove`; all
  other steps leave the abstract state alone. That `Execute` runs in the session's
  own database is where `SInv` is needed.

`TransactionManagerProofs`:

* `TransactionManagerTypeOK` and `TransactionsAreSerial` (`SerialInQueueOrder`),
  for any number of callers and calls. `SerialInQueueOrder` is inductive given
  the types: a function moves from the waiting to the running to the run.
* `LoneCallerReturnsAfterRun` (`ReturnsAfterRun`) and `LoneCallerGetsOwnException`
  (`OwnException`), for any number of calls and for a caller that is the only one that
  has called, which is the server's case. The invariant `CallInv` says
  where a call stands: nothing is queued or running before it enqueues; from
  then on its task is queued, or runs, or has succeeded, or has failed, or is
  completed, and only then does the completed id reach the id of the call.
  With a second caller this is false (section 6).

`BufferPoolProofs`, for any pages, contents and number of frames:

* `PoolTypeOK`, `OneFramePerPage` (`PageInOneFrame`), `CleanFramesMatchDisk`
  (`CleanFrameMatchesDisk`), `PeekedPageIsSafe` (`PeekedPageStays`), and
  `PoolImplementsPageStore` (`ImplementsPageStore`): the initial states of the
  pool map to initial states of `PageStore` and each step to a step or a
  stutter, where the content of a page is that of its frame if it has one and of
  the file otherwise, and what is kept of it is the content if its frame is marked and
  the file otherwise. A fetch maps to `Pin`, and so to no change of any content.
* The refinement needs `PageInOneFrame` (else the content of a page is not
  defined) and `CleanFrameMatchesDisk` (else an eviction changes it); the latter
  needs that what is written and not yet marked stays pinned, also after a fetch that
  threw. `PeekedPageStays` needs that the peeked page was used last and that
  another frame is unpinned or free for the page that `split_leaf` fetches (`MayFetch`):
  where the rest of the pool stays pinned, by operations that were cut short, that
  fetch would take the frame that is read.

`BPlusTreeProofs`, for any keys, capacities of leaves and of the root, purge ratio and
number of pages, and for any insertions and removals:

* `TreeTypeOK` (`TypeOK`) and `TreePagesInOrder` (`PagesInOrder`).
* Neither is inductive. `Shape` says what a file can look like: the leaf 2 and nothing
  else, in use or freed, or, from the first split on, page 4 as the root for good and all
  other pages leaves. Only so is it known that the page a split takes from the free list
  is a leaf and not the root, that the page after the last one is the new root when the
  root is split, and that no page links to the root.
* `Chained` says that, as long as no freed leaf was used again, the pages off the free
  list are the members of one sequence in which `next` and `prev` lead from each to its
  neighbours, that the pages on the free list are empty, and that a removal stands on
  none of them. A split puts a page into the sequence (`ChainGrows`), the freeing of a
  leaf takes one out (`ChainShrinks`), and an insertion that fails because the leaf has
  no record left has still put its new page in. Why a removal stands on no freed page:
  it starts on a page with a record, and goes on along `next`, within the sequence.
* Slots stay sorted because an insertion goes to the first slot that is not below its
  key, a split keeps the lower half and copies the upper, and a purge keeps a part.
* `TreeRowsStayOnPages` (`RowsStayOnPages`, an action property), for trees of any size
  and any purge ratio, and whatever becomes of the separators, under one condition,
  `[]NoneReused`: no freed leaf was used again; without it two callers write one page
  (section 6), and `BPlusTree_pages` is cut off there too. Where records stay marked, a
  split brings back those it copies (section 6): `Revived` counts them, and the theorem
  says that nothing else comes back and that nothing is lost.
  `Rows(pages, used, k)` is the set of places with a row of key k on the pages in use.
  An insertion, a split and a purge each map the places before the step one to one to
  those after it (`RowsInsert`, `RowsSplit`, `RowsPurge`), so the number changes as the
  property says; that the freed leaf held no other row is what an empty purge says
  (`RowsDrop`). `Chained` is needed for the page of a step to be one of those in use.
* `OneLeafReusesSpace` (`SpaceIsReused`) and `OneLeafIsARowStore` (`RowsAreSeen`), for
  any purge ratio, until the first split: the hypothesis
  `[]OneLeaf` says that the root is a leaf. `FewKeysNeedOneLeaf` shows when that is
  always so (`OneLeafIsEnough`: keys and marked records fit in the leaf), and then has
  no other hypothesis. `OneLeafKeysAreFound`
  (`KeyExistsFindsRows`) adds what `BPlusTree_middle` finds violated after the first
  split. With two leaves and keys in any order all three can fail (section 6).
* The invariant behind them, `Lone` and `Serving`: of the records with one key only the
  first may be live (`FirstIsLive`), which is why a lookup, that looks at the first
  slot only, agrees with a scan; fewer records are marked than call for a purge, so
  that the room in the leaf is that of its rows (`LeafHasRoom`); a key under insertion
  has no row; and a removal has passed no row of its key (`Passed`), which is why it may
  end at the first greater key.
* `AscendingKeysAreARowStore` (`RowsAreSeen`) and `AscendingKeysAreFound`
  (`SpaceIsReused`, `KeyExistsFindsRows`), through any number of splits, when keys
  ascend. `KeysAscend` is the hypothesis, on constants only, and each part of it is
  needed. `Appending`: each new key is above all others, as AUTO_INCREMENT numbers are
  while their bytes are in order; with other keys see section 6. `LeafCap >= 2`: a split
  of a full leaf leaves records in both halves. `MaxPages <= InternalCap + 1`: the file
  is no larger than what one root page has separators for, beyond which
  `split_internal` is a stub. Where there are deletions, `PurgeAt = 1` and `Sparing`: a
  record that stays marked comes back in a split, and a leaf that is emptied below the
  root is freed while the root still refers to it. `BPlusTree_append` satisfies it.
* The invariant behind them, `Ascending`, has four parts: `Shape`, as above; `InLine`,
  that leaf i is page i + 1, or i + 2 from the fourth page on, where the root is, that
  the leaves are linked in this order, that all keys of one are below those of the next,
  and that the root has all leaves as children, separated by a key above all of the
  left and not above any of the right; `Arrives`, that an insertion under way has a
  key above all stored ones, and a separator to spare if its leaf is full; `Departs`,
  that a removal under way is at its record, which is not the last of its leaf, or is
  done with it. A lookup then ends in the only leaf that may have the key
  (`LookupFinds`), so that scans and lookups see the same rows, and an insertion always
  goes to the last leaf (`ToTheLastLeaf`), whose separator is appended
  (`AddLastChild`): the branch in which the code confuses the children is never taken.

`StatementsProofs`, for tables of any 32-bit keys, any values, clauses and layout of
the leaves:

* `StatementsTypeOK`, `UpdateLosesNoRow` (`UpdateKeepsRows`), `ScansAreExact`
  (`ExactlyMatchingRows`) and `ChangesAreAppliedAtOnce` (`AppliedAtOnce`), on no
  condition on keys or clauses. The code does not give every scan the rows of WHERE
  (section 6), and the properties say row by row where it does not: a row is excepted
  if its bytes put it on the other side of the lower bound than its number does
  (`InByteOrder`), and where the planner has forgotten a comparison (`ConjunctDropped`)
  the rows still satisfy the other one. An UPDATE uses no range, and is exact.
* `RowsAreThoseOfWhere`: with no comparison forgotten, a drained scan has exactly the
  rows of WHERE, if it is without a lower bound, whatever the keys, or if keys and
  constants are from 0 to 255.
* The invariant says that what came out of the scan is, each once and in the order of
  the scan, the selected rows it has passed (`RowsAreRead`), that the scan meets the
  table as it was, since the changes wait for its end (`TableIsChanged`: nothing is
  applied before `drained`), and that afterwards the table is the old one with the
  rows dealt with replaced; that an update never lands on the key of a row still to be dealt
  with (`ImagesApart`) rests on the uniqueness check of the code.

`EngineProofs`, for any keys, row sizes, room in a leaf, row ids and pages:

* `RowIdsAreNotReused` (`RowIdsStayFresh`). The counter in the catalog is ahead of
  all rows (`CounterAhead`). That it still is after a crash or a refusal, when the one
  in the file takes its place, needs `FileCounterAhead`: what is in the file, and what
  a write-back may put there before page 0, has ids below the counter of the file.
  An INSERT has one row and dirties nothing before it (`InsertsOne`), so its row is
  not in the pool when it is refused; and a counter that is not marked dirty is that
  of the file (`CounterMarked`). UPDATE breaks this, and the property excepts what
  follows an UPDATE that ended without its answer (section 6).
* `EngineTypesAreKept` (`TypeOK`): pages numbered without gaps, only pages of the file
  named by page 0, row ids and the room of every leaf within their limits, in memory
  and in the file. The room needs the lemmas about `Units`, a fold over sets: that it
  is defined by any order of its elements (`SumsAgree`, `UnitsOfOneLess`), so that a
  row more adds its size and fewer rows never take more room.
* `TheNextEngineFindsTheTable` (`NextEngineFindsTheTable`), the action property of
  this module. After an answer or a refusal all pages are written before the next
  statement, and it is enough that the tree in memory is good and that page 0 in the
  file agrees with it, or is still that of an unmoved root. A kill is the hard case:
  the file then holds any mixture of old and new pages. `TablesInv` says why that
  mixture is a tree:
  - as long as the root has not moved, the file, the tree in memory and the tree the
    statement found have pages of one shape, with the same links and separators
    (`OldTreeStands`, `MixedPagesStand`), and differ in rows only;
  - page by page, rows of the file are old ones or those in memory, and an old row that
    is still in memory is on the same page of the file (`OldRowsOK`), because DELETE
    and UPDATE touch no row of a key they have still to deal with (`WorkLeft`);
  - where the root did move, what is left of the old one is a leaf that is linked to
    another (`OldRootIsLeft`), and what may be in the file of the new one is zeros or
    the page itself (`NewRootInFile`): so a file that is sound is the file of the tree in
    memory, and the next statement starts from a good tree or, as its history says,
    from one that was not sound (`LeftAlone`).

  The lemmas below it say what the operators do to a good tree, for any number of rows:
  `SplitIsGood` (the halves of a split leaf are in order, for which `HalvesAreInOrder`
  counts the rows below each row), `PutIsGood`, `RootMadeIsGood`, `RemovedIsGood` and
  `UpdatedIsGood` (a root that the removal frees is made again on the same page).
  `TablesInv` was also checked on the instance of `Engine_all`. The exceptions are
  those the property names: the theorem says that there are no others in the model,
  whose bounds (one split, no empty leaf below the root) still hold.
* That each row is there, and once, takes two more invariants. `RowsApart`: no row is on
  two pages (`Apart`, a part of `Sound`), in memory or in the file, nor, until the root
  has moved, on one page in memory and another in the file; the image that an UPDATE puts
  on the other leaf has an id of its own, and nothing is said of the two.
  `ImagesOK`: of a row that was replaced within its leaf the file has the old or the new
  image on that leaf, whichever was written (`CrashKeepsTheTable`). And when all pages
  are written, file and memory are one tree with a moved root too (`AllWritten`,
  `WrittenTablesAreSound`).

`BTreeProofs`, for any pages, any number of siblings and of cells, and any sizes of
pages and of the reserve on page 0. The theorems are about cells of at most half a page
(`HalfPages`, which is what `minimum_keys` of two or more gives; four is the default)
and, when more than two pages share them, of one size (`OneLength`). The second
restriction is needed: section 6 shows what `balance()` does with cells of several sizes.

* `PagesGetWhatFits`. No count of the distribution goes below zero, which would be a
  panic with half of the siblings drained; every cell goes to a page or becomes a
  divider, in order; no page gets more than it has room for, and those after the second
  get at least half. The argument follows the code. The distribution from the left leaves
  parts of which none but the last has room for the cell after it (`Greedy`). Filling
  page i takes cells from the page on its left, one each turn, and keeps that a page with
  what is on its left exceeds a page (`Filling`), so a page that still has less than half
  of its room has a neighbour with more than half, from which a cell can be taken, and
  there are enough turns. `div_cell` is the cell that moves (`Pointed`) if there are two
  pages; with more, only its size is, if the cells have one size: the place where the
  proof for all sizes fails is the one where the code does.
* `RegroupLeavesNoOverflow`. What the siblings had before does not matter: after one
  regrouping none of their pages has more than it has room for. This also takes the
  order of the cells of the group, the places where `regrouped` cuts them, that the
  array of the heap has the page numbers it was made of (`HeapOrderKeeps`), and that new
  numbers are of pages not in use (`NextPagesAreFree`).
* `NodeLevelsFit` and `RootLevelsFit`: so each level of `balance()` that moves cells leaves
  its group without an overflow and does not panic. For a page below the root it is
  assumed that it is a child of the last of `parents` and that this node has nodes as
  children (`Family`), as every state of `BTree_all` has it.
* `BalanceRises` (`BalanceGoesUp`), for behaviours whose states have their types
  (`TypeOK`, which the run checks): the recursion of `balance()` ends. Below the root each
  level goes up. The root comes again, with fewer bytes: there are never more pages in
  a distribution than cells (`AsManyPages`), so the root, which keeps the dividers, keeps
  fewer cells than it had. The second call that `remove()` makes is made once.

`BTreeShapeProofs` is about whole behaviours of the tree, for every height of it: trees
of entries of one length that also need no overflow page (`FixedCells`: `HalfPages`,
`OneLength` and `FitsInCells`), such as a table with integer keys and rows of one size.

* `TreesKeepTypes` (`TypeOK`): so no level of `balance()` panics, neither by a count
  below zero nor by a cell or page that is not there, and every page that a call or its
  path names is a node in use.
* `OnlyPendingPagesAreUnbalanced` (`OnlyPendingUnbalanced`, a part of `BalancedTree`):
  only the page that `balance()` is called for, or the one page below an empty root, has
  too many cells or none.
* `BalanceEnds`: `BalanceGoesUp` without the premise of `BalanceRises`.
* `PagesAreAccounted` (`PagesAccounted`): every page in use is reached from the root, and
  once, whatever `balance()` took from the free list or gave back to it, also between two
  of its levels.
* `LeavesAtOneDepth` (`SameDepth`, a part of `BalancedTree`).

The invariant is `TreeInv`. `TypeOK` is far from inductive: that a level finds the
siblings of its page takes that the parents it was handed are the page's ancestors, and
that a child is a child once. So `Tree` says that the pages are one, by a height and a
parent for each page (`h`, `up`, which are not in the code): the children of a node are
different pages one level lower with that node as their parent, and each page but the
root is a child of its parent. A recursion over the pages is then one over their heights.
`Called` says that `parents` leads from the root to the page of the call (`Descends`),
`NoneEmpty` and `NoneTooLarge` which pages may be out of balance. Per operation:

* the searches end at a node of the tree with the path to it (`SearchEnds`, from
  `BinarySearchEnds`, which is an induction over the gap of the binary search);
* `insert()` and `remove()` change cells and not children (`ChangeKeepsTree`), also when
  the removed cell is one of an internal node and a leaf below it gives the substitute;
* a level of `balance()` takes the cells of a group with their left children, which
  `regrouped` gives to new pages: `RegroupingIs` says which child comes after which, that
  none is lost and none is twice, and `NodeUnbalancedKeepsInv`
  that the result is a tree with the heights it had;
* the root gains a level (`LoweredRootIsTree`) or loses one (`RaisedRootIsTree`).

The last two theorems are about walks over all the nodes and over all the cells. Those
are recursions too, now over the heights (`Ranked`), and `Subtrees` says, from the bottom
up, that the children of a page have no page in common below them: a walk lists each page
once (`Listing`, `NodesBelowAre`), at a depth that with its height makes that of the root.

## 5. Only model-checked

Outside the prover's reach: liveness under fairness (`EveryStatementAnswered`,
`CallReturns`, `ShutdownCompletes`), and the parser with its grammar, which are written
with RECURSIVE operators.

Of the disk B-tree, what is said of trees with overflow pages or with entries of several
lengths (that no subtraction goes below zero is false there, see section 6), and
`EntriesKept`, `HalfFullOfOneLength` and `EntriesAreFound`, which speak of the order of
the keys, of how full the pages are and of the cursor. The tests (`TestsPass`) are single
runs anyway.

## 6. Disagreements between code and comments

Two runs TLC finds violated:

* `BPlusTree_middle`: when a leaf that is neither the
  first nor the last child is split, the separator gets the rightmost child
  (`bplustree.cpp:355-372`), so rows of the lower half are not found by key, against
  `bplustree.h:34`, and the uniqueness check accepts the key again.
* `Statements_where`: `key >= c AND anything` counts as a range and nothing else is kept
  as a filter (`planner.cpp:58-67`, `138-143`, `226-229`), against `planner.cpp:28` and
  the planner's README: SELECT returns and DELETE removes rows that do not satisfy the
  other side.

Seen with TLC and without a run of their own:

* A split copies the deleted records of the upper half and clears their mark
  (`bplustree.cpp:322-327`, `page_layout.cpp:121`): where purges are rare (`PurgeAt`
  above 1), deleted rows come back, against `bplustree.h:42`.
* The bytes of an INT key are copied as they lie in memory (`tuple_codec.cpp:65`) and
  compared with `memcmp`, so on a little-endian machine 256 comes before 1, and
  `id >= 1`, whose scan starts at 1 (`plan.h:48`), misses it. `id = 300` also returns
  45, which lies behind 300 and passes `id <= 300`.
* `parent_page` is never set (`page_layout.cpp:25` and `43` write 0), so a leaf below
  the root that is emptied goes to the free list while the root still points to it
  (`bplustree.cpp:229`), against `bplustree.h:42`: `SpaceIsReused` fails as
  soon as the table has two leaves. What follows when such a page is used again is
  cut off in `BPlusTree_pages` (`NoneReused`).
* A split keeps `free_start` and `free_end` of the lower half
  (`bplustree.cpp:330-332`), so descending insertions end in the exception
  "slot_index out of range" of the page layout (`page_layout.cpp:52`):
  `InsertsSucceed` fails without `Appending` in a table of several leaves.
* `balance()` of the prototype fills the last pages of a group from their left
  neighbours, and the position of the divider between two pages (`div_cell`,
  `btree.rs:1730`) is set for the last page only. When the page before it is to be
  filled too, the cells that are counted are not those that move. Entries of one length
  hide it. With pages of 4096 bytes, the default minimum of four keys, and keys in
  ascending order, twelve insertions (six payloads of 1008 bytes, three of 8, three of
  1008) leave a page with 4108 bytes where 4084 fit, against `btree.rs:1143`; eleven
  (four, three, four) count below zero, and a debug build panics with the pages drained.
  It came up in an attempt to prove that every distribution fits in its pages.
* The last step of the distribution gives the first page a cell of the second when the
  first is less than half full (`btree.rs:1745`). With two entries to a page (a tree
  made with `minimum_keys` 2) that can leave the second page empty: `max()` then
  returns nothing, and the cursor ends at the empty leaf, although the tree has entries.
* After a blank line the read branch takes only one line
  (`server/main.cpp:223-245`), so a complete statement can stay in the buffer of a
  connection at rest until more bytes arrive: `EveryStatementAnswered` fails with
  `Blank`. The shipped client sends no blank lines.
* `execute()` called by two threads at once may return before its function ran, or
  never (`ReturnsAfterRun` and `CallReturns` without `CallsAlone`): `next_txn_id_++` is
  outside the mutex, and the completed id goes down when queue order is not id order.
  The server has one caller.
* With a full root, `split_internal` (a stub, `bplustree.cpp:378-382`) replaces a
  child that still holds rows.
* When the second leaf of a tree is split, the first child may be dropped from
  the root (`bplustree.cpp:355-356`), so that scans start behind it.
* When the directory of a session's database has vanished, the response names no
  current database although the session keeps the name.

Of the engine (each is an exception that `NextEngineFindsTheTable` or
`RowIdsStayFresh` names, and without which the property fails):

* The server ends only by being killed: its loop has no exit. The pages of the last
  statement are then lost although it was answered, as the destructor of the pool
  that would write them runs at the next statement.
* Page 0 was flushed with the answer. If that statement made the root (the first
  INSERT) or moved it (a split), page 0 names a page of zeros after the kill, whose
  leaf chain leads to page 0, which the pool refuses to cache
  (`bufferpool_manager.cpp:27`): every later INSERT, DELETE or UPDATE that looks up a
  key throws. If it was a DELETE that emptied the root, a sequential scan still shows
  the rows of the freed page.
* A refused UPDATE has changed rows and does not flush: when it moved the root, the
  next engine starts from the old one. It gives each row a new id
  (`executors.cpp:285`), so ids of rows it keeps are handed out again.
* An UPDATE removes each row and inserts its image, which may belong into the other
  leaf (`executors.cpp:310-315`). A kill when only one of the two leaves is written
  leaves the row in neither, or in both with its old and its new values. Rows that stay
  in their leaf are written with it and are safe.
* The AUTO_INCREMENT counter goes the same way: an INSERT that is refused because its
  number is taken leaves the counter as it was in the file, and so does each retry.
* `~BufferPoolManager` looks up tables in a map that has been destroyed
  (`storage.h:18-25`): undefined behaviour, here either the pages are written or the
  process ends.

Of the prototypes:

* The comment of `balance()` promises that no page of any tree is less than half full
  (`btree.rs:1143`); `BalancedTree` and `TypeOK` claim less, and say of which trees. With
  three cells to a page four of them become pages of two and one. With entries of two
  lengths the last step of the distribution
  (`btree.rs:1747-1750`) leaves such pages, and the test `split_root` expects one.
* With at most two cells in a page an empty leaf may stay below the root.
* New page numbers are said to be in ascending order (`btree.rs:1769`); they are in the
  order of the array of a heap. The test at `btree.rs:4288` is named for the reverse
  order and inserts in ascending order.
* ORDER BY is said to take identifiers only (`parser.rs:603`); it parses expressions.
  The error of a missing operand does not name TRUE and FALSE, which are accepted.

## 7. Not modelled, and the plan

Not modelled for good: the C++ parser (a recursive descent over one text without
state of its own; the Rust one is modelled), the other prototypes under
`experiments/` and the stand-alone mains, console output, the text of responses and
errors; of the disk B-tree its JSON output, errors of its pager (the caller rolls
back) and the layout inside a page; the tokenizer of the Rust parser, which is not
there; the LRU of the catalog, which the server cannot reach, since each statement has
an engine of its own and opens one table.

Not modelled yet: CREATE TABLE and CATALOG, which `analyse()` carries out before the
transaction; the schema on page 1; AUTO_INCREMENT; an insertion that throws between the
two halves of an UPDATE; string keys and OR in `Statements`; framing in the client.

Deliberate abstractions: records of one size in `BPlusTree`; keys compared in the order
of their bytes; contents of pages as opaque values in the pool; one statement as one
step in the server; storage errors only at page reads; in `Statements`, integers
only, no OR (never a range, always a filter), no ORDER BY (the executor factory
refuses its plan), removal and insertion of an updated row as one step; in `Engine`,
one table, a tree of at most two leaves, and a purge at each deletion.
