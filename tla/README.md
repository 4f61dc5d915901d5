# A TLA+ verification of houndr

houndr is a trigram code-search server. It clones the configured git
repositories, keeps one memory-mapped index per repository, polls for changes,
and answers searches over HTTP. This directory holds TLA+ models of its core,
the TLC runs that check them, and TLAPS proofs of the theorems that matter most.
Paths below are relative to the repository root; `file.rs:n` names a line there.

## 1. Inventory

| Component | Source | State it keeps | Operations |
| --- | --- | --- | --- |
| Indexing pipeline | `crates/houndr-repo/src/pipeline.rs` | `indexes/<name>.idx`, `manifests/<name>.json` | `index_repo`, incremental build, manifest load and save |
| Clone store | `houndr-repo/src/vcs.rs` | bare clones, tracking refs, the default-branch marker | clone or open, fetch, tree walks, blob reads |
| Index file | `houndr-index/src/writer.rs`, `reader.rs` | `.idx` and `.tmp` files, mappings | write and rename, open and validate, lookups |
| Trigrams, builder, postings | `houndr-index/src/trigram.rs`, `builder.rs`, `posting.rs` | none (pure) | extraction, index build, posting intersection |
| Query | `houndr-index/src/query.rs` | none, apart from the counters of one search | plan, search, context blocks |
| Shared state and cache | `houndr-server/src/state.rs` | readers, LRU cache, statuses, refs, heartbeat, each behind its own lock | get, set, clear, swap |
| HTTP API | `houndr-server/src/api.rs` | one handler per request | search, streamed search, repos, status, healthz |
| Watcher | `houndr-server/src/main.rs` | cycle, tasks, semaphore, shutdown token | pre-load, poll, run_indexing, orphan cleanup, shutdown |
| Middleware, UI assets | `main.rs`, `ui.rs` | rate limiter per address | stateless layers |
| Web UI | `houndr-server/static/app.js` | the query in flight, results, poll timer | debounced search, streaming, status poll |
| Library watcher | `houndr-repo/src/watcher.rs` | as the watcher, without statuses and shutdown | not used by the server |
| Configuration | `houndr-repo/src/config.rs` | none after startup | parse, validate, resolve environment variables |

How they interact. The watcher starts a cycle: it removes orphans, spawns one
tokio task per repository, each of which takes a permit and runs `index_repo` on
a blocking thread under a timeout, and collects the results in order. A run
talks to git, to the manifest and to the index file, and returns an open reader.
At the end of the cycle the merged readers replace those in `AppState` under a
write lock, and the cache is cleared. A search handler looks into the cache,
takes read guards on readers and refs, searches all repositories in parallel and
stores its answer. Shutdown cancels a token, which a bridge task copies to the
flag the blocking threads poll.

What is hard, and therefore what the properties are about:

* an index and a manifest are replaced one after the other, with failures,
  cancellation and crashes in between, and the next incremental build trusts both;
* the tracking ref is what "HEAD unchanged" is decided on, but it moves long
  before the index does;
* the timeout abandons a thread it cannot stop, which then overlaps with a later
  run of the same repository, down to the name of the temporary file;
* the cache and the readers are two pieces of shared state with two locks, and
  clearing comes after swapping;
* the trigrams of a query must be in every match, which is not evident for a regex,
  and what the filter drops no later stage can bring back;
* the candidates of one index are verified in parallel, and three separate atomic
  counters decide what is listed and what is only counted;
* results and final event of a stream share one bounded channel with a client that
  may be slow or leave, while blocking threads wait for room in it;
* shutdown can hit any await of the watcher, any stage of a run and any moment of
  the file protocol;
* the files of a repository outlive the configuration they were made under, and
  are removed by a cleanup that knows them by directory names alone.

What makes each component correct, in a sentence: a *run* builds what a full walk of
HEAD would (pipeline); the *published file* is always whole and mapped bytes never
change (index file); a *query plan* never rejects a file that matches, and the counters
of a search agree however its workers interleave (query); the *cache* never answers from
replaced readers (shared state); the *statuses and readers* tell what the last cycle did
and every cycle ends (watcher); a *stream* ends with its summary and its producers end
with the client (streaming); what is *stored* for a repository belongs to its
configuration, and goes when the configuration drops it (clone store, cleanup).
`PROJECT.json` lists the hazards line by line.

## 2. Modules

| Module | Models | Its role |
| --- | --- | --- |
| `RepoPipeline` | `index_repo` with `vcs.rs`, its environment | core, one action per stage |
| `RepoMirror` | what a repository's pipeline promises | abstract specification |
| `RepoPipelineProofs` | | types, incremental correctness, safety under errors and under every fault, refinement of `RepoMirror` |
| `IndexFile` | `write_index`, `IndexReader::open` | file protocol on names and inodes |
| `AtomicIndex` | what the index file promises | abstract specification |
| `IndexFileProofs` | | whole files, refinement of `AtomicIndex`; what is written is read back |
| `IndexLayout` | the layout of `write_index`, the lookups of `reader.rs`, `posting.rs` | pure: cells and offsets; `IndexFile` extends it |
| `GitStore` | `vcs.rs` and `cleanup_orphaned_repos` over changing configurations | what is on disk per name |
| `GitStoreProofs` | | what is stored belongs to its configuration, and goes with it |
| `SearchCache` | `AppState`, `search_handler`, swap and clear | locks, cache, generations |
| `SearchCacheProofs` | | fresh answers |
| `IndexingCycle` | `main`'s watcher, `run_indexing`, shutdown; `watcher.rs` | tasks, permits, statuses |
| `IndexingCycleProofs` | | limits, statuses, what replaces a reader |
| `Trigrams` | `trigram.rs`, `builder.rs`, `search_trigrams` | pure: texts, postings, candidates |
| `QueryPlan` | `QueryPlan::new`, `collect_literals` | pure: functions by recursion over regex plans |
| `LineMatches` | `find_literal_matches`, `build_blocks_with_context` | pure: what is shown of a file |
| `SearchExecution` | `execute_search` | parallel verification with its counters |
| `SearchStream` | `search_handler`, `search_stream_handler` | tasks, channel, client; extends `SearchExecution` |
| `SearchProofs` | | exact counts, honest answers, the end of a stream |
| `Search` | a search from query to answer | composes `QueryPlan`, `Trigrams`, `LineMatches` and `SearchStream` |
| `QueryProofs` | | the filter keeps every match, answers are complete, what is shown of a file is right |
| `DataInduction` | | induction and recursion over data, and flattened sequences: the lemmas the other proofs share |
| `MC*` | | model values and instances for TLC |

### RepoPipeline

State: `remote` (the branch of the remote), what is on disk (`cloned`, `head`,
`manifest`, `index`), what the server holds (`reader`, the `cancel` flag, the
worker a cycle `attached` itself to), and for each blocking thread its stage `pc`
and its locals. A tree is a function from the paths that survive the exclude
patterns and the symlink test to blob ids; a blob's content is its id, and the
size and binary filters are the set `Indexable`. An index is the function of the
content it holds.

Each stage of `index_repo` is an action, and each fallible step has its `?`:
`OpenClone`, `InitClone`, `CloneFetch` (vcs.rs:28-111), `Fetch` (118-154), `Reuse`
(pipeline.rs:42-49), `LoadManifest`, `LoadIndex`, `Build` (with `FileList`, 99-171),
`WriteIndex`, `WalkManifest`, `SaveManifest` (whose failures the code ignores),
`Reopen`, `Return`; `Fail` is every `?`, `Bail` every way of finding the flag up.
`StartWrite` is the last test of the flag and the creation of the temporary file,
`WriteIndex` the rename at the end of `write_index`. Two runs that are inside it at a
time work on one temporary file (finding 3), so what either renames is `Torn`: an index
of which nothing is known, that may open or not (`Opened`), and from which an
incremental build copies what is not known either. A run may also find the temporary
file renamed away (`FailMixed`). `Boot` pre-loads the index if it opens, so a process
may start without a reader. The environment moves the branch (`Push`), starts runs,
times out, shuts down, restarts and crashes.

`Build` reads HEAD, the old index and the blobs in one step. A second run could
move the tracking ref within a real build; a run resolves the ref once per walk,
so this is the same as the build coming before or after the fetch, except that
the manifest of the incremental build and that of `WalkManifest` are two walks,
which are two actions. A blob that the full walk cannot read is skipped by the
code and an error in the incremental one; here both are errors.

`happened` is a history variable: the kinds of fault that have happened so far. The
properties name their premises with it (`NoFaults`, `OnlyErrors`, no "overlap"), so one
state space serves them all and none is checked where it is vacuous: every kind of fault
is in the run, and the theorems below need no assumption on `Faults`.

### IndexFile

State: the bytes of every inode as a body and a footer, the names `<name>.tmp` and
`<name>.idx`, each writer's phase, descriptor and checksum, and for each mapping
its inode and the image it validated. `write_index` opens the temporary file
three times by name (create, read back, append), which is why names and inodes
are apart. Bodies are the index asked for, `Empty`, or `Torn`; two writers that
share an inode may leave either's bytes or a mixture. `Overlap` says whether a
second writer may start before the first has left, which a timed-out run allows.
Crashes keep the written pages: power failure is not modelled, for nothing in the
code syncs and no property could be claimed.

### IndexLayout

A file is a sequence of cells: a field of a table, a byte of a path or content, an id of
a posting list. `WriteIndex` lays the parts out as the phases of `write_index` do, each
offset being what comes before, kept to 32 bits for paths (`U32`, with `MaxPathOffset`
in place of `u32::MAX`); a path beyond that is `TooLarge`, more documents or trigrams
than fit into 32 bits (`MaxCount`) are `TooMany`, and either refuses the index. The
length of a posting list is cut to 32 bits by the code without a check; no list is that
long. A trigram shares its word with the inline bit and the length of an inline list of
up to three ids, as in the file. `LookupTrigram` is the binary search, `SearchFile`
takes the shortest list and cuts it down by the inline lists and then by the serialized
ones. A roaring bitmap is written as its ids, so the length of a serialized list is a
number of ids and not of bytes; magic, version, padding and footer are left out.

### GitStore

State: the process (its `config`, whether it is cleaning up, indexing or idle, the
`orphans` still to remove and the one being removed, each configured name's `run`
and `result`, the `readers`), what is on disk per name (`clone`, `index`, `manifest`)
and the `tip` of the branches at the remote. A configuration maps names to a URL and
a ref or none; `Top` maps a name to the entry of `repos/` its clone lies in, which
for `org/repo` is `org`. A clone is a directory that does not open (`plain`), a
repository without a remote (`bare`), a usable one, or one that opens and may lack
anything but its remote (`damaged`), with its origin, its marker file and its tracking
refs.

`clone_or_open` is `StartInit`, `EndInit`, `AddRemote`, then `Contact` (the default
branch is asked for, or the configured ref taken) or `ContactFails` ("main" is taken),
which write the marker; `Open` is its other branch, and `MarkerFails` the ignored error
of the write. `CloneFetch` and `Fetch` move the tracking ref and decide between `Reuse`
and `Build`. `cleanup_orphaned_repos` is `StartRemoval`, `RemoveClone` or
`RemovalFails`, `RemoveIndex`, `RemoveManifest`, one file operation each, then
`StartRuns`. A removal of a clone that fails, or that a crash cuts short, leaves any
part of it (`LeftOf`): all of it, a repository without its remote, marker or refs, a
directory that does not open, or nothing; the loop goes on to the index and the manifest
all the same. `Restart` starts the server with any configuration, between cycles or
between removals; `Crash` does so at any moment. What the stages of a run do to the
content of an index is in `RepoPipeline`: here an index is known by its remote, branch
and commit, and opens. A thread that a timeout has left over from an earlier cycle is
not in this module either; it is in the two others.

Three history variables carry the premises of the properties: `entries`, what a
name was configured as since there is something of it on disk; `guessed`, whether the
default branch of what is on disk may be the "main" of a failed contact; `cut`, whether
a removal has
failed or a crash has interrupted one.

### SearchCache

A generation stands for one content of `AppState.readers`. A request goes through
cache lookup, plan, the two read guards, search and store; the watcher waits for
the write lock of the refs once per indexed repository, then for that of the
readers, then clears the cache. Locks follow tokio's rule: once a writer waits,
later readers queue. The guards held are functions of the stages. `floor` is the
generation whose cycle was complete when a request arrived, so `FreshAnswer` can
speak about what a user could expect. `Abandon` is the timeout layer or a closed
connection dropping the handler.

### IndexingCycle

State: the watcher's stage and the index of the repository it is spawning or
collecting, the token, each repository's task and number of threads, the merged
and the published readers (dated by their cycle), the statuses. `TimeOut` ends a
task and leaves its thread, `StrayEnds` is such a thread coming to its end.
`AbortTask` goes through the handles one by one as the loop does; `DropCycle` is
the `select!` dropping `run_indexing`, which detaches the tasks. `Signal` and `Cancel`
are the two ends of draining the HTTP server; `Leave` is `main` returning, with which the
runtime drops every task; `Exit` waits for the threads; `SecondSignal` ends the
process, or does nothing once the task that listens for it is dropped. `timedOut`
records a timeout for the properties. `WatcherInit` begins the loop of
`start_watcher` in the library instead: it spawns, limits, times out and collects
in the same way, keeps no statuses (`untracked`) and has no token to be cancelled by.

### Trigrams, QueryPlan

A text is a sequence of characters with `Newline` between its lines. `Build` gives
each trigram its documents, `SearchTrigrams` intersects them. `QueryTrigrams` is
what a query is looked up by: `CollectLiterals` is `collect_literals` over the
kinds of `regex_syntax`'s HIR, which is given as a value, since the parser is a
library; an assertion (`^`, `$`, `\b`) is a `Look`, which like an empty part ends a
joined literal. `Matches` is what the verification accepts, line by line, each line
without its carriage return; `Accepts` says which parts of a line (`Span`) an HIR
matches and is the reference the filter is held against. Here a trigram is its
three characters and a posting list the set it stands for; how they lie in a file is
in `IndexLayout`. What recurs over an HIR is a function on `Hirs`, the HIRs in
question with all their parts, and `Height` is their height as trees: a proof by
induction on it is one over regexes of any depth.

### LineMatches

`FindMatches` is `find_literal_matches`: the lines of a text, each folded to lower
case for a case-insensitive query, scanned from the end of one occurrence to the
next, up to a number of lines. `ToLower` gives a character one or more characters.
`Blocks` is `build_blocks_with_context`: each matching line with `Context` lines
around it, ranges that overlap or adjoin merged by `Merge`. A range is in
characters; the code goes over bytes to characters, the page takes them as UTF-16 units
(`app.js`), which is the same inside the Basic Multilingual Plane only and left out.
The lower case of a character does not depend on its neighbours, as in Unicode it does
for the final sigma alone.

### SearchExecution, SearchStream, Search

Per document, `doc` says where its verification is, and every atomic addition of
`execute_search` is an action: `Verify`, `CountFound` (the `fetch_add` whose old value
decides), `CountOverflowFile`, `CountOverflowMatches`, then `Collect` per reader. What a
scan finds is data, the number of ranges on each matching line. Totals over files and
readers are sizes of sets (`Occurrences`, `TotalFiles`), which unlike folds can be
proved about. `SearchStream` drives it in the two ways of `api.rs`: `SearchAll` and
`Respond` for the JSON handler; for the stream `SpawnTask`, `Spawn`, `StartJoining`,
`TaskResult`, `SendResult`, `Join`, `SendDone`, with the bounded `channel` and a client
that receives, sees the end or disconnects. A send waits for room and fails without
effect once the receiver is gone. `TaskPanics` is a blocking task that panics in its
search: nothing of it is sent, its handle is an error and counts for nothing. A panic
under the JSON handler ends the request, and is left out. `Search` fixes a query and
contents, takes the candidates from the index, and refuses the queries without a plan.

## 3. Runs

| Run | Instance | Shows |
| --- | --- | --- |
| `RepoPipeline_faults` | 2 threads (symmetric), 2 commits, 3 paths, at most 3 of 6 kinds of fault | `TypeOK`, `ManifestMatchesIndex`, `BuiltIsHead`, `ReaderIsSnapshot`, `ResultIsHead`, `NoForeignContent`, `KeepServing` |
| `RepoPipeline_mirror` | 1 thread, 3 commits, no fault, fair | `Converges`, `ImplementsMirror` |
| `RepoPipeline_stale` | 1 thread, errors | violates `ReadyIsHead` |
| `RepoPipeline_shutdown` | 1 thread, one kind: shutdown | violates `ReuseIsExact` |
| `IndexFile_serial` | 2 writers in turn, 2 readers, 4 inodes (symmetric), indexes of up to 10 documents or trigrams | `TypeOK`, `PublishedIsWhole`, `MappedIntact`, `ImplementsRegister`, `AllReadBack` |
| `IndexFile_overlap` | the same, overlapping | violates `MappedIntact` |
| `SearchCache_locks` | 2 requests, 2 keys, capacity 1, 2 swaps, fair | `TypeOK`, `CacheCoherent`, `FreshAnswer`, `PublishesEventually`, `AnsweredEventually` |
| `Search_answers` | 2 readers with 3 and 1 documents, limit 0, 1 or 2, channel of 1, 14 queries, fair | `TypeOK`, `ResultExact`, `DoneIsLast`, `TruncationIsHonest`, `FilterKeepsMatches`, `CompleteAnswer`, `ScanShowsMatches`, `RequestEnds` |
| `Search_lines` | three matching lines with 3, 1 and 2 occurrences | violates `TotalIsMatchingLines` |
| `Search_filter` | a case-insensitive literal; a regex with two branches | violates `FindsEveryMatch` |
| `GitStore_configs` | 3 names (`flat`, `org`, `org/nested`), 2 remotes, 3 configurations, 1 push, 2 restarts, 1 fault, fair | `TypeOK`, `ResultIsConfigured`, `ConfiguredIsKept`, `OrphansLeaveNothing`, `ServedEventually` |
| `IndexingCycle_cycles` | 3 repositories, 2 permits, 2 cycles, fair; server and library | `TypeOK`, `StatusMatchesCycle`, `ConcurrencyLimit`, `OneRunPerRepo`, `OnlySuccessReplaces`, `CycleEnds`, `ShutdownEnds` |

The largest, `GitStore_configs`, has 889,295 distinct states and takes some three minutes
with two workers. Every property has a mutant
in `PROJECT.json`: a plausible bug in the mapped code (blob ids not compared,
deleted files kept, the guard dropped before the cache is written, an off-by-one
permit, a rename before the footer) under which TLC finds it violated.

The bounds. Two commits suffice for the fault run because the harm of a stale manifest
needs one commit and a way back to it; the trees differ by a changed, a deleted and a
binary file, which are the cases of the incremental build. The fault-free run has a
third commit, a revert of one file, so that chains of incremental builds occur. Kinds of
fault are bounded, not their number: errors, say, may follow each other for ever; three
kinds are what a timeout, two writers in the file at a time and a crash or a further
error take. Two threads are what a timeout needs; the proofs cover any number. Four
inodes are one per name and mapping, and the file system is never full. One cache slot
for two keys makes every store of the other key evict; two swaps let an answer be two
generations old. Three repositories for two permits keep one waiting; two cycles let a
run of the first live in the second, and with two cycles a repository never has more
than two threads. Three documents in one reader let two workers go past a limit of 1 at
once, and a limit of 2 is reached exactly; with a limit of 0 every match is counted
only; two matching lines per file are kept of three, with different numbers of ranges,
so that the cap and the unit of the count matter. A channel of one event makes a second
sender wait and a disconnect free it. The filter is tried on every text of up to four
letters with a capital, on every one of up to four of two letters, a character without
case and the line break, and on a literal followed by letters, carriage return and line
break: a trigram with a character, the end of a line or a change of case on either side.
What is shown is tried on every text of up to seven letters and line breaks, where three
matching lines have gaps of every width around one line of context (the code has two),
and on every text of up to four characters with a capital and with a character whose
lower case has two, and of up to four with a carriage return.

The layout is tried on up to nine documents with paths of up to two bytes, where
offsets of paths reach and pass the `MaxPathOffset` of 6; on 8, 9 and 10 documents or
trigrams, on either side of the `MaxCount` of 9; on lists of one to six
ids, on either side of the three an entry holds; and on up to three trigrams,
the smallest and the largest among them, with every lookup of a neighbour that is
not there. The two restarts of `GitStore` lead away from a configuration and back;
the three configurations share a name with and without a ref, drop one, and
configure a nested name together with its parent. One fault suffices for each
single failure to meet every configuration; two faults in one history are not
explored.

Fairness. In `RepoPipeline` the poll loop starts a run whenever none is awaited and
threads proceed; faults are not fair. In `SearchCache` searches end, and locks are
strongly fair, as tokio's semaphore-based lock is first come, first served; requests
need not come, and the store of an answer is part of the weakly fair handler. In
`IndexingCycle` the watcher, the semaphore and the timers proceed, but a thread in
`index_repo` may hang for ever, before a shutdown and in it: a connect that hangs
without transferring does not look at the flag, and the flag is set by a task of its own
(main.rs:313), which may be dropped before it has run. So `ShutdownEnds` says that a
shutdown gets past everything that is awaited, and is over or waits for nothing but
threads in `index_repo`. `CycleEnds` is checked for the library's watcher as well, under
the same fairness. In `GitStore` cleanup and cycles go on and every run ends; faults,
pushes and restarts are not fair and finitely many, and `ServedEventually` is about what
follows the last of them.

In `Search` the workers, the spawned task and the blocking tasks are scheduled, none has
to panic, and a client either goes on reading or disconnects: TCP keeps no third choice
open for ever but a client that stays connected and never reads, which would hold its
blocking threads as long as it likes, and `RequestEnds` rests on there being none.

`CHECK_DEADLOCK` is off for the runs of `Search`, whose state is that of one request
and which stop when it has ended (`RequestEnds` says that they stop nowhere else). It
is on everywhere else: the end of the process is an action that repeats itself.

### Findings

1. `RepoPipeline_stale`: a run that fails after its fetch leaves the tracking ref
   ahead of the index. The next run finds HEAD unchanged and returns the old index,
   and the repository is Ready with it until the branch moves again
   (pipeline.rs:43; `docs/architecture.md:498` reads otherwise).
2. `RepoPipeline_shutdown`: a shutdown between the rename of the index and the
   saving of the manifest parts the two. After a restart and a branch that moves
   back, an unchanged blob id is given the content of another one (pipeline.rs:80;
   `docs/architecture.md:465`).
3. `IndexFile_overlap`: after a timeout two runs share a temporary file, and the
   published file is written to under a reader's mapping (writer.rs:55;
   `docs/architecture.md:477`).
4. `Search_lines`: the match totals are documented as matching lines (query.rs:176,
   api.rs:47) and count the occurrences on them (query.rs:230, 238), of listed and of
   counted files alike, and of the first 1000 matching lines of a file only, where
   `README.md:100` speaks of accurate totals. What the code does count is exact under
   any interleaving: that is `ResultExact`.
5. `Search_filter`: a case-insensitive literal is looked up by its lower-case trigrams
   in an index of the files as they are written, so a file with the match in
   capitals only is passed over (query.rs:68; `README.md:98`). The letters of a
   case-insensitive regex are classes: in general no literal is left, and the query is
   refused for want of trigrams, as is the example of `README.md:109`. But where the
   pattern switches the flag off, as `(?-i:FOO)` does, the literal stays, is put into
   lower case as well (query.rs:100) and looked up as `foo`.
6. `Search_filter`, its other query: the literals of all branches of an alternation are required
   together, as are those of parts that may be absent, so files that match one
   branch are passed over (query.rs:446; `README.md:15`). TLC stops at the first
   counterexample; with `-continue` it shows those of both queries.

`FilterKeepsMatches` is what remains true of the filter: it keeps every match of the
queries whose literals are in every match as they are looked up (`NeedsItsLiterals`):
literals with case, literals without letters, and regexes with no literal in an optional
part and, case-insensitive, none with a capital. `CompleteAnswer` follows it to the
answer: of those queries a JSON answer that is not truncated has every file of the
searched repositories with a match. It takes documents to be valid text, as a document
that is not UTF-8 has no lines for the verification. One thing the runs do not claim:
with `max_search_results` set to 0 the JSON answer says that nothing was found, while
the stream gives the counts, so `TruncationIsHonest` takes a limit above 0.

`GitStore` states its properties with the premises under which they hold. Without
them TLC finds these histories, which are limits of the code and not listed as
findings:

* The clone of a nested name (`org/repo`, which vcs.rs:35 provides for) lies below
  an entry that is no configured name, so each cleanup removes it and each cycle
  clones it anew; its index is found under the full name, and stays when the name
  is dropped from the configuration (main.rs:453). `ConfiguredIsKept` and
  `OrphansLeaveNothing` are stated for the names this spares.
* Configured both, `org` and `org/repo` share a directory: if `org/repo` is cloned first,
  `org` finds a directory that is no repository, cannot open it, and never heals.
* When the remote cannot be asked for its default branch, "main" goes into the
  marker and is used from then on, although architecture.md:653 and config.rs:100
  speak of the remote's default. Hence `guessed` in `ResultIsConfigured`.
* A ref or URL that changes across a restart takes effect only when the branch
  moves: the origin of an existing clone is never updated, and a way from one ref to
  another and back finds HEAD unchanged and returns the index of the other.
  Hence `Steady`.
* A crash between `init_bare` and the registration of the remote leaves a clone that
  opens and can never be fetched into; no later run repairs it. Hence the
  condition on the clone in `ServedEventually`.
* A removal that is interrupted, or fails half way, can leave an index and a manifest no
  later cleanup finds, since it looks for clones. Hence `cut`. A clone it leaves may
  still open without what was removed of it; if the name is configured again before the
  next cleanup, no run need repair it. Hence the conditions on the clone in
  `ServedEventually` and `ConfiguredIsKept`.

`IndexingCycle` has another limit of the code. `docs/architecture.md:549` and the comment
at main.rs:518 call a second Ctrl-C the backstop for stuck blocking tasks. The task that
listens for it is dropped when `main` returns, which is before the runtime starts to wait
for the threads, and tokio has replaced the signal's default for good: from then on, when
a stuck thread is what holds the process up, the signal does nothing (`SecondSignal`).
Hence the second case of `ShutdownEnds`.

A tag as a configured ref is not found at all, for `head_sha` looks at branches
only; the model's refs are branches. `ScanShowsMatches` leaves the marks out on a
case-insensitive search of a line whose lower case has another number of
characters: they count characters of the lower-case line (query.rs:284) and
stand beside the match in the original.

## 4. Proofs

`RepoPipelineProofs`

* `TypeCorrect`: `Spec => []TypeOK`, under every fault.
* `IncrementalCorrect`, `FileListCorrect`: if the old index is what the old manifest
  describes, the incremental build of any tree equals the full walk of it. This is
  an equality of functions over arbitrary trees, proved from what is copied and
  what is read, and the step on which everything below hangs.
* `SafeUnderErrors`: `Spec => [](ManifestMatchesIndex /\ BuiltIsHead /\
  ReaderIsSnapshot)`. None of the three is inductive. `ErrorsInv` adds that there
  is one run at a time and nobody shuts down (`Solo`), and what a run knows at each
  stage (`Knows`): that the manifest it loaded is the one on disk, that what it
  loaded as a pair is a pair, that what it has written is what it has built, and
  that what it is about to save belongs to it. `UntilWorse` makes it hold up to the
  first fault worse than an error; faults never un-happen (`Monotone`).

Under every kind of fault of the model (errors, ignored failures, timeouts, shutdowns,
crashes, overlapping writers):

* `OnlyOwnContent`: `Spec => []NoForeignContent`, which speaks of all that happens until
  two runs are inside `write_index` at a time; what they publish then is not known. The
  invariant says that up to then every index in a file, a reader or a local variable is
  grounded and no run is `mixed`, and `FileListGrounded` that the incremental build keeps
  this whatever manifest it is given: a wrong manifest copies an outdated content, never a
  foreign one. `UntilOverlap` makes it hold up to the first overlap.
* `StaysSearchable`: `Spec => KeepServing`, also beyond an overlap. A reader implies an
  index on disk for the next process to open, and a run that is about to return has an
  index to return; only a new process that cannot open the index has no reader.

Until the first fault:

* `ReturnsWhatItFetched`: `Spec => []ResultIsHead`. `Faithful` strengthens
  `ErrorsInv` by the reason why an unchanged HEAD allows the old index: no run being
  beyond the comparison of heads, the index is that of HEAD. One error breaks it,
  which is finding 1.
* `PipelineMirrors`: with `Faults = {}`, `Spec => Mirror!SafeSpec`: a fetch is a
  `See`, a returning run a `Serve`, all else a stutter.

The proofs about the pipeline assume `ConstantTypes`: trees are partial functions from
paths to blobs, `Indexable` is a set of blobs, and `None` and `Torn` are not among the
values they stand beside.

`IndexFileProofs`, for any number of writers, readers, inodes and contents

* `TypeCorrect`: with and without overlap. A writer at work has the index it was
  given, and its descriptor until the body is written (`HasWork`).
* `FilesStayWhole`: with `Overlap = FALSE`, `Spec => [](PublishedIsWhole /\
  MappedIntact)`. The rename publishes what earlier phases left in the temporary
  file, so `Owned` says that one writer is at work (`OneWriter`), that no name and
  no mapping but its own refers to the temporary inode (`TmpIsPrivate`), and what is
  in it at each phase (`TmpHolds`). `IndexFile_overlap` shows that the assumption is
  needed.
* `FilesAreRegister`: with `Overlap = FALSE`, `Spec => ImplementsRegister`. A rename is
  a `Replace`, an opening a `Look`, a dropped reader a `Drop`; a crash drops the
  views; everything done to the temporary file is a stutter.

The layout of an index file, in the same module, for any index:

* `LayoutReadsBack`: an index is refused because its paths are too long together or its
  documents or trigrams too many, or each path, content and search is read back from the
  file as it was built; `LayoutsAreReadBack`: `Spec => []AllReadBack`. The argument goes
  up from the cells. Parts written one after the other lie where the sum of the lengths
  before them says (`BeforeNext`, `FlattenHas`), so each of the six parts of the file is
  a slice of it (`FileHas`) and each entry of a table, path, content and posting list a
  slice of its part (`DocReads`, `PostingReads`); an offset that was not refused is not
  wrapped (`FitsU32`). `LookupFinds`: the binary search returns the list of a trigram
  that is there and nothing for another, by induction on the entries between its bounds.
  `SearchIsHolding`: intersecting the lists, shortest first, gives the documents with
  all the trigrams, and a list does not depend on being inline or serialized.

`SearchCacheProofs`, for any number of requests, keys, readers and swaps, any capacity

* `CacheServesFresh`: `Spec => [](CacheCoherent /\ FreshAnswer)`. A request between its
  search and its store still guards the readers it searched (`Guarded`, part of
  `TypeCorrect`), so a store cannot bring back an answer of replaced readers once the
  cache is cleared; `Floors` bounds how far swap and clearing are apart.

`IndexingCycleProofs`, for any number of repositories, permits and cycles, for the
server and for the library's watcher

* `RunsAreLimited`: `Spec => [](OneRunPerRepo /\ ConcurrencyLimit)`. Both hold over
  cycles because a cycle is over only when each of its tasks has ended (`Progress`),
  and a thread without its task takes a timeout or a shutdown (`Threads`).
* `StatusesAreTrue`: `Spec => []StatusMatchesCycle`. `CycleInv` dates the readers and
  says what has been merged, published and told of the repositories collected so far.
* `SuccessReplaces`: `Spec => OnlySuccessReplaces`, from `CycleInv`.

`GitStoreProofs`, for any names, remotes and configurations, any number of pushes,
restarts and faults

* `TypeCorrect`: together with `Shape`, which says what a run finds on disk at each
  step: what it builds from is there.
* `ConfiguredStays`: `Spec => ConfiguredIsKept`, an action property.
* `OrphansAreRemoved`: `Spec => []OrphansLeaveNothing`. `Traceable` says why cleanup
  misses nothing: whatever is left of a name has a clone, or the removal is at it, and
  the order clone, index, manifest is what makes this true step by step. What a removal
  leaves of a clone is no more than there was (`LeftOvers`).
* `ResultsAreConfigured`: `Spec => []ResultIsConfigured`. `Provenance` follows the
  origin, marker, tracking ref and index of a name back to the only entry it was
  made under; a guessed default branch takes a fault (`GuessedByFault`).

`SearchProofs`, for any number of readers and documents, any findings and limit, any
capacity of the channel and any interleaving of workers, tasks and client

* `AnswersExact`: `Spec => []ResultExact`. `ExecInv` adds to it that the
  counters count what they are for (`CountsRight`: `found_count` the files listed or
  past the limit, `overflow_files` those whose first addition is done,
  `overflow_matches` the occurrences in those whose second is, and the listed ones
  are as many as the limit or the count, whichever is less) and that a scanned file
  is where its ranges say (`ScansRight`). The lemmas are about cardinalities: a
  document that moves adds one to a set or takes one away (`MoveKeeps`), and ranges of
  disjoint sets of files add up (`RangesAddUp`).
* `TypeCorrect`: `Spec => []TypeOK`, of the workers, the handlers and the channel.
* `TruncationIsReported`: `Spec => []TruncationIsHonest`. The counts of several readers
  add up to the files there are, as no file is of two readers (`TotalsAddUp`, by a
  bijection), and a reader lists fewer files than it counts exactly when files are
  missing from the answer.
* `DoneComesLast`: `Spec => []DoneIsLast`. `StreamInv` says that a task goes on only
  when its search has returned, that all are started before the first is joined
  (`TasksRight`), that the total is that of the readers joined so far (`TotalRight`),
  and that the events sent are one for each task that has sent, and the final one
  (`EventsRight`). Only the readers whose search has not panicked count (`Answering`):
  one that has is missing from the results and from the total. `EventsRight` is about a
  client that has not left: what is sent to another is lost.

`QueryProofs`, for any alphabet, case folding, contents, regex plans of any height and
interleaving of the request

* `LiteralsAreInMatches`, by induction on the height of a plan: where no part with a
  literal can be left out (`SkipsLiterals`), every collected literal is on every line
  the plan matches a part of, whatever it looks at around the part. For a concatenation,
  neighbouring literals that were joined are side by side in the text (`JoinedIsThere`).
* `FilterIsSound`: `SearchSpec => []FilterKeepsMatches`, for the queries of
  `NeedsItsLiterals`, which is a condition of the property and no assumption on the
  constants: the regex `(?-i:FOO)` is among the queries, and outside the condition. A
  trigram of a part of a text is a trigram of the text (`ExtractPart`), a literal with
  one case only is found in the text as it is written (`OneCaseIsEnough`), and the
  candidates contain every document with all the trigrams (`CandidatesContainAll`).
* `SearchIsRequest`: `SearchSpec => Spec`, by which all that `SearchProofs` shows of a
  request holds of a search, and `AnswerIsComplete`: `SearchSpec => []CompleteAnswer`,
  from `TruncationIsReported` and the filter.
* `AllIsShown`: `ShowsMatches` for every text, pattern, context and maximum, and from
  it `ScansAreShown`: `SearchSpec => []ScanShowsMatches`. The lower case of a text has
  a character for each of its own where folding is one to one, so a mark on it is one
  on the text (`LowerOfPart`); a scan finds every occurrence that does not begin in
  one before it, by induction on what is left of the line (`ScanFinds`); the lines
  taken are the first ones with an occurrence, by counting those before
  (`MatchesAreHits`); and the ranges merged one after the other cover exactly the
  lines around them, with a line between two (`RangesCover`, `BlocksShowRanges`).

`DataInduction`. The library states induction with an operator as a parameter, which no
installed prover can instantiate, so here it is stated with sets: `Induction` says that
a set with 0 and the successor of each of its numbers has all numbers, from the
pigeon-hole principle for finite sets; `RankInduction` that a set closed under a rank
has everything; `Recursion`, from it, that a function defined by what it is on lower
ranks exists and satisfies its equation, and `StepRecursion` the same for a loop over a
sequence. `FlattenAppend` and the lemmas before it are what these give for `FlattenSeq`.

Each module assumes no more than the named assumptions of the modules it is about
(`ConstantTypes`, `IndexFileConstants`, `IndexLayoutConstants`, `SearchCacheConstants`,
`IndexingCycleConstants`, `GitStoreConstants`, `SearchExecutionConstants`,
`SearchStreamConstants`, `QueryPlanConstants`, `HirsAreTrees`, `LineMatchesConstants`
and `SearchConstants`), which TLC evaluates in the runs. The strengthened
invariants were model-checked on the instances of the runs before they were proved.

Every safety invariant and action property of the passing runs is a theorem. Only
model-checked, and why:

* all liveness (`Converges`, `PublishesEventually`, `AnsweredEventually`, `CycleEnds`,
  `ShutdownEnds`, `RequestEnds`, `ServedEventually`, and with `Converges` the liveness
  half of `ImplementsMirror`): the prover does not reach fairness or `ENABLED`;
* that the properties of the runs that expect a violation are violated: those are
  counterexamples, which TLC finds.

## 5. Not modelled, and the plan

Left out, with the reason:

* the Web UI: its state (the query in flight, the results, the poll timer) is in the
  page, and what reaches the server are requests, whose handlers are modelled; two
  of its hazards are listed in `PROJECT.json` without a property;
* the configuration: parsing and validation are pure and run once. What `validate`
  ensures enters as assumptions on constants, and `GitStore` changes the
  configuration between starts;
* the bytes of a roaring bitmap, the checksum, regex matching on a line and path
  globs, which are libraries and enter as values;
* credentials, and what libgit2 does inside a fetch or a walk;
* the handlers of `healthz`, `repos` and `status`, which read one lock each and
  keep nothing; the heartbeat depends on real durations;
* the middleware layers and the governor library; the timeout layer's effect, a
  dropped handler, is `Abandon` in `SearchCache`;
* static assets, deployment, benches: no program logic.

What may follow:

1. a refinement of `SearchStream` to an abstract stream of results, from `StreamInv`;
2. one of `IndexingCycle` to a register of readers, from `CycleInv`;
3. the environment of a search and that of a cycle in one module, so that the
   snapshot of `SearchStream` and the generations of `SearchCache` are one state.
