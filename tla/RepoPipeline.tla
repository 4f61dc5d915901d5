---------------------------- MODULE RepoPipeline ----------------------------
(***************************************************************************)
(* The indexing pipeline of one repository: index_repo() of                *)
(* crates/houndr-repo/src/pipeline.rs with the git operations of vcs.rs it *)
(* calls, run by the watcher of crates/houndr-server/src/main.rs.          *)
(*                                                                         *)
(* A tree maps paths to blobs; the paths are those left after the exclude  *)
(* patterns and the symlink test.  Two files of a repository survive a     *)
(* restart next to the clone: the index (the content of every indexable    *)
(* file) and the manifest (path -> blob id of a whole tree).  They are     *)
(* replaced by two separate renames, and the incremental build trusts them *)
(* to describe the same commit.                                            *)
(*                                                                         *)
(* An index file is a value here.  A run that is alone in write_index()    *)
(* replaces it in one step; two that are in it at a time share their       *)
(* temporary file and leave Torn, of which nothing is known.  How a single *)
(* writer gets there is the subject of IndexFile.                          *)
(***************************************************************************)
EXTENDS FiniteSets, Functions

CONSTANTS
    Commits,    \* commits the tracked branch may point to
    Paths,      \* paths that may occur in a tree
    Blobs,      \* blob ids; a blob's content is identified with its id
    Indexable,  \* the blobs within max_file_size that are not binary
    TreeOf,     \* the tree of each commit
    Workers,    \* threads of the blocking pool that may run index_repo
    Faults,     \* the kinds of fault that may happen
    MaxKinds,   \* bound: how many kinds in one behaviour, each any number of times
    Torn,       \* the unknown content of an index that two writers made
    None        \* Option::None

Trees == UNION {[S -> Blobs] : S \in SUBSET Paths}

\* "overlap": two threads are inside write_index at a time.
FaultKinds == {"error", "save", "cancel", "crash", "timeout", "overlap"}

ASSUME ConstantTypes ==
    /\ TreeOf \in [Commits -> Trees]
    /\ Indexable \subseteq Blobs
    /\ Faults \subseteq FaultKinds
    /\ MaxKinds \in 0..Cardinality(FaultKinds)
    /\ None \notin Commits \cup Trees \cup Workers \cup {Torn}
    /\ Torn \notin Trees

(***************************************************************************)
(* What the walks and the incremental build compute.                       *)
(***************************************************************************)

\* walk_files: the content of every file of t that passes the size and
\* binary filters.  This is what a correct index of t holds.
Indexed(t) == Restrict(t, {p \in DOMAIN t : t[p] \in Indexable})

\* Mutant: the path alone decides, the blob ids are not compared.
ReusableByPath(m, o, t) == DOMAIN t \cap DOMAIN m \cap DOMAIN o

\* The files whose content is copied from the old index o: same blob id in
\* the old manifest m and in the new tree t, and present in o.
Reusable(m, o, t) ==
    {p \in DOMAIN t \cap DOMAIN m \cap DOMAIN o : m[p] = t[p]}

\* Mutants: deleted files stay; changed blobs skip the size and binary test.
IncrementalKeepingDeleted(m, o, t) ==
    LET kept == Reusable(m, o, t) \cup (DOMAIN o \ DOMAIN t)
    IN  [p \in kept \cup DOMAIN Indexed(t) |-> IF p \in kept THEN o[p] ELSE t[p]]
IncrementalUnfiltered(m, o, t) ==
    [p \in DOMAIN t |-> IF p \in Reusable(m, o, t) THEN o[p] ELSE t[p]]

\* build_file_list_incremental with both an old manifest and an old index.
Incremental(m, o, t) ==
    LET reused == Reusable(m, o, t)
    IN  [p \in reused \cup DOMAIN Indexed(t) |->
            IF p \in reused THEN o[p] ELSE t[p]]

\* build_file_list_incremental: a full walk unless both are there.  What is
\* copied from an unknown index is unknown.
FileList(m, o, t) ==
    CASE m = None \/ o = None -> Indexed(t)
      [] o = Torn /\ m # None -> Torn
      [] OTHER -> Incremental(m, o, t)

\* IndexReader::open of x: an index two writers made may be refused or not.
Opened(x) == IF x = Torn THEN {Torn, None} ELSE {x}

-----------------------------------------------------------------------------
VARIABLES
    remote,     \* the commit the branch of the remote points to
    cloned,     \* the bare repository exists on disk
    head,       \* the commit its tracking ref points to, or None
    manifest,   \* manifests/<name>.json, or None
    index,      \* indexes/<name>.idx, or None
    reader,     \* what AppState.readers serves for this repository, or None
    cancel,     \* the shutdown token and the flag bridged from it
    attached,   \* the worker whose result the current cycle awaits, or None
    pc,         \* where each worker is in index_repo
    mani,       \* the manifest a worker has loaded or walked, or None
    old,        \* the old reader a worker has opened, or None
    built,      \* the index a worker has built, or None
    result,     \* the reader a worker is about to return, or None
    happened    \* the kinds of fault that have happened, for the properties

disk   == <<cloned, head, manifest, index>>
server == <<reader, cancel, attached>>
locals == <<mani, old, built, result>>
vars   == <<remote, disk, server, pc, locals, happened>>

Stages == {"idle", "open", "clone", "fetch", "reuse", "plan", "openold",
           "build", "write", "writing", "mixed", "rewalk", "save", "reopen", "return"}

\* Reading a manifest file yields a tree, opening an index file an index.
OptTrees == Trees \cup {None}
Images == OptTrees \cup {Torn}

TypeOK ==
    /\ remote \in Commits
    /\ cloned \in BOOLEAN
    /\ head \in Commits \cup {None}
    /\ manifest \in OptTrees
    /\ {index, reader} \subseteq Images
    /\ cancel \in BOOLEAN
    /\ attached \in Workers \cup {None}
    /\ pc \in [Workers -> Stages]
    /\ mani \in [Workers -> OptTrees]
    /\ {old, built, result} \subseteq [Workers -> Images]
    /\ happened \subseteq FaultKinds

Nothing == [w \in Workers |-> None]

Init ==
    /\ remote \in Commits
    /\ cloned = FALSE
    /\ head = None /\ manifest = None /\ index = None /\ reader = None
    /\ cancel = FALSE
    /\ attached = None
    /\ pc = [w \in Workers |-> "idle"]
    /\ mani = Nothing /\ old = Nothing /\ built = Nothing /\ result = Nothing
    /\ happened = {}

-----------------------------------------------------------------------------
\* Faults of these kinds happen in this step; every other step is faultless.
Happen(kinds) ==
    /\ kinds \subseteq Faults
    /\ Cardinality(happened \cup kinds) <= MaxKinds
    /\ happened' = happened \cup kinds
Fault(k) == Happen({k})
NoFault == UNCHANGED happened

GoTo(w, from, to) == pc[w] = from /\ pc' = [pc EXCEPT ![w] = to]

\* Mutant: a run that ends stays in its last stage, under a name of its own.
LeaveStopped(w) ==
    /\ pc' = [pc EXCEPT ![w] = "stopped"]
    /\ attached' = IF attached = w THEN None ELSE attached
    /\ UNCHANGED <<remote, disk, cancel, locals>>

\* w leaves index_repo: its locals die and, if the cycle still awaits it, so
\* does the await.
Leave(w) ==
    /\ pc' = [pc EXCEPT ![w] = "idle"]
    /\ mani' = [mani EXCEPT ![w] = None]
    /\ old' = [old EXCEPT ![w] = None]
    /\ built' = [built EXCEPT ![w] = None]
    /\ result' = [result EXCEPT ![w] = None]
    /\ attached' = IF attached = w THEN None ELSE attached
    /\ UNCHANGED <<remote, disk, cancel>>

(***************************************************************************)
(* The stages of index_repo, in the order of the code.  The cancellation   *)
(* flag is tested before fetch, after it, and on both sides of the build:  *)
(* such a stage is left only while the flag is down, and Bail is the other *)
(* outcome of the test.  A run that has begun to write is past the last.   *)
(***************************************************************************)

\* run_indexing spawns the task of this repository.  The next cycle starts
\* only after the previous one has collected its handle.
Start(w) ==
    /\ attached = None /\ ~cancel
    /\ GoTo(w, "idle", "open")
    /\ attached' = w
    /\ NoFault /\ UNCHANGED <<remote, disk, reader, cancel, locals>>

\* clone_or_open on an existing bare repository.
OpenClone(w) ==
    /\ cloned
    /\ GoTo(w, "open", "fetch")
    /\ NoFault /\ UNCHANGED <<remote, disk, server, locals>>

\* clone_or_open without one: init_bare and remote("origin").
InitClone(w) ==
    /\ ~cloned
    /\ GoTo(w, "open", "clone")
    /\ cloned' = TRUE
    /\ NoFault /\ UNCHANGED <<remote, head, manifest, index, server, locals>>

\* The initial single-branch fetch of a fresh clone; no second fetch follows.
CloneFetch(w) ==
    /\ ~cancel
    /\ GoTo(w, "clone", "plan")
    /\ head' = remote
    /\ NoFault /\ UNCHANGED <<remote, cloned, manifest, index, server, locals>>

\* Mutant: the old head is read after the fetch.
FetchComparingLate(w) ==
    /\ ~cancel
    /\ GoTo(w, "fetch", "reuse")
    /\ head' = remote
    /\ NoFault /\ UNCHANGED <<remote, cloned, manifest, index, server, locals>>

\* fetch(): moves the tracking ref and reports whether it moved.
Fetch(w) ==
    /\ ~cancel
    /\ GoTo(w, "fetch", IF head = remote THEN "reuse" ELSE "plan")
    /\ head' = remote
    /\ NoFault /\ UNCHANGED <<remote, cloned, manifest, index, server, locals>>

\* HEAD unchanged: return the index on disk, whatever it holds; rebuild if
\* there is none or it does not open.
Reuse(w) ==
    /\ ~cancel
    /\ \/ /\ index # None
          /\ GoTo(w, "reuse", "return")
          /\ result' = [result EXCEPT ![w] = index]
          /\ NoFault
       \/ /\ None \in Opened(index)
          /\ GoTo(w, "reuse", "plan")
          /\ NoFault /\ UNCHANGED result
       \/ /\ index # None
          /\ GoTo(w, "reuse", "plan")
          /\ Fault("error") /\ UNCHANGED result
    /\ UNCHANGED <<remote, disk, server, mani, old, built>>

\* load_manifest: a missing or unreadable manifest is None.
LoadManifest(w) ==
    /\ GoTo(w, "plan", "openold")
    /\ \/ mani' = [mani EXCEPT ![w] = manifest] /\ NoFault
       \/ mani' = [mani EXCEPT ![w] = None] /\ Fault("error")
    /\ UNCHANGED <<remote, disk, server, old, built, result>>

\* load_existing_index: a missing or invalid index is None.
LoadIndex(w) ==
    /\ GoTo(w, "openold", "build")
    /\ \/ /\ \E x \in Opened(index) : old' = [old EXCEPT ![w] = x]
          /\ NoFault
       \/ old' = [old EXCEPT ![w] = None] /\ Fault("error")
    /\ UNCHANGED <<remote, disk, server, mani, built, result>>

\* Walk the tree of HEAD, choose each file's content and build the index.
Build(w) ==
    /\ ~cancel /\ head # None
    /\ GoTo(w, "build", "write")
    /\ built' = [built EXCEPT ![w] = FileList(mani[w], old[w], TreeOf[head])]
    /\ mani' = [mani EXCEPT ![w] = None]
    /\ old' = [old EXCEPT ![w] = None]
    /\ NoFault /\ UNCHANGED <<remote, disk, server, result>>

\* w is inside write_index.
Writing(w) == pc[w] \in {"writing", "mixed"}

\* The last test of the flag, and write_index creates the temporary file; with
\* another run inside, both have the same one from then on.
StartWrite(w) ==
    /\ ~cancel /\ pc[w] = "write"
    /\ LET others == {v \in Workers : Writing(v)}
       IN  \/ /\ others = {}
              /\ pc' = [pc EXCEPT ![w] = "writing"]
              /\ NoFault
           \/ /\ others # {}
              /\ pc' = [v \in Workers |->
                          IF v \in others \cup {w} THEN "mixed" ELSE pc[v]]
              /\ Fault("overlap")
    /\ UNCHANGED <<remote, disk, server, locals>>

\* The rename of write_index replaces the index file: with what w has built,
\* if no other run has had the temporary file in its hands.  built is not used
\* any more.
WriteIndex(w) ==
    /\ \/ GoTo(w, "writing", "rewalk") /\ index' = built[w]
       \/ GoTo(w, "mixed", "rewalk") /\ index' = Torn
    /\ built' = [built EXCEPT ![w] = None]
    /\ NoFault /\ UNCHANGED <<remote, cloned, head, manifest, server, mani, old, result>>

\* The second walk of HEAD, for the manifest.  It aborts at the first entry
\* that finds the flag up, and its failure is ignored.
WalkManifest(w) ==
    /\ \/ /\ head # None
          /\ GoTo(w, "rewalk", "save")
          /\ mani' = [mani EXCEPT ![w] = TreeOf[head]]
          /\ NoFault
       \/ /\ cancel
          /\ GoTo(w, "rewalk", "reopen")
          /\ NoFault /\ UNCHANGED mani
       \/ /\ GoTo(w, "rewalk", "reopen")
          /\ Fault("save") /\ UNCHANGED mani
    /\ UNCHANGED <<remote, disk, server, old, built, result>>

\* save_manifest; its failure is ignored too.  Two runs that save at a time
\* share a temporary file as well: one may fail, or what they leave may not be
\* read, which are the faults here and in LoadManifest.
SaveManifest(w) ==
    /\ GoTo(w, "save", "reopen")
    /\ \/ manifest' = mani[w] /\ NoFault
       \/ Fault("save") /\ UNCHANGED manifest
    /\ mani' = [mani EXCEPT ![w] = None]
    /\ UNCHANGED <<remote, cloned, head, index, server, old, built, result>>

\* Open the index file that is on disk now.
Reopen(w) ==
    /\ GoTo(w, "reopen", "return")
    /\ result' = [result EXCEPT ![w] = index]
    /\ NoFault /\ UNCHANGED <<remote, disk, server, mani, old, built>>

\* Mutant: the merge keeps a reader that is there already.
ReturnIfAbsent(w) ==
    /\ pc[w] = "return"
    /\ reader' = IF attached = w /\ reader = None THEN result[w] ELSE reader
    /\ Leave(w) /\ NoFault

\* index_repo returns Ok: the cycle swaps the reader in if it still awaits w.
Return(w) ==
    /\ pc[w] = "return"
    /\ reader' = IF attached = w THEN result[w] ELSE reader
    /\ Leave(w) /\ NoFault

\* Mutant: a failed run takes the repository out of the reader map.
FailDroppingReader(w) ==
    /\ pc[w] \in {"open", "clone", "fetch", "build", "writing", "mixed", "reopen"}
    /\ Fault("error")
    /\ Leave(w) /\ reader' = None

\* A step that returns Err through `?': the old reader stays.
Fail(w) ==
    /\ pc[w] \in {"open", "clone", "fetch", "build", "writing", "mixed", "reopen"}
    /\ Fault("error")
    /\ Leave(w) /\ UNCHANGED reader

\* A step of w fails through another run: that one has renamed the temporary
\* file away, or the index the two have left does not open.
FailMixed(w) ==
    /\ pc[w] = "mixed" \/ (pc[w] = "reopen" /\ index = Torn)
    /\ Leave(w) /\ NoFault /\ UNCHANGED reader

\* The flag is found up: a test between two stages, a transfer callback or a
\* walk.
Bail(w) ==
    /\ cancel
    /\ pc[w] \in {"clone", "fetch", "reuse", "plan", "build", "write"}
    /\ Leave(w) /\ NoFault /\ UNCHANGED reader

Step(w) ==
    \/ OpenClone(w) \/ InitClone(w) \/ CloneFetch(w) \/ Fetch(w) \/ Reuse(w)
    \/ LoadManifest(w) \/ LoadIndex(w) \/ Build(w) \/ StartWrite(w)
    \/ WriteIndex(w) \/ WalkManifest(w) \/ SaveManifest(w) \/ Reopen(w)
    \/ Return(w) \/ FailMixed(w) \/ Bail(w)

(***************************************************************************)
(* The environment of the pipeline.                                        *)
(***************************************************************************)

\* Somebody moves the branch of the remote, forward or back.
Push ==
    /\ remote' \in Commits \ {remote}
    /\ NoFault /\ UNCHANGED <<disk, server, pc, locals>>

\* tokio::time::timeout around spawn_blocking gives up on the awaited run.
\* The thread itself goes on.
Timeout ==
    /\ attached # None
    /\ Fault("timeout")
    /\ attached' = None
    /\ UNCHANGED <<remote, disk, reader, cancel, pc, locals>>

\* Graceful shutdown: the token is cancelled, run_indexing is dropped and no
\* result is awaited any more; the blocking threads find the flag.
Shutdown ==
    /\ ~cancel
    /\ Fault("cancel")
    /\ cancel' = TRUE
    /\ attached' = None
    /\ UNCHANGED <<remote, disk, reader, pc, locals>>

\* A new process pre-loads the index it finds, if that opens.  kinds is what
\* made an end of the last process.
Boot(kinds) ==
    /\ \/ reader' \in Opened(index) /\ Happen(kinds)
       \/ index # None /\ reader' = None /\ Happen(kinds \cup {"error"})
    /\ cancel' = FALSE
    /\ attached' = None
    /\ pc' = [w \in Workers |-> "idle"]
    /\ mani' = Nothing /\ old' = Nothing /\ built' = Nothing /\ result' = Nothing
    /\ UNCHANGED <<remote, disk>>

\* After a graceful shutdown the runtime waits for every blocking thread.
Restart == cancel /\ (\A w \in Workers : pc[w] = "idle") /\ Boot({})

\* The process dies at any point.
Crash == Boot({"crash"})

Next ==
    \/ \E w \in Workers : Start(w) \/ Step(w) \/ Fail(w)
    \/ Push \/ Timeout \/ Shutdown \/ Restart \/ Crash

Spec == Init /\ [][Next]_vars

\* The poll loop starts a cycle whenever it can, and threads make progress.
Fairness ==
    /\ WF_vars(\E w \in Workers : Start(w))
    /\ \A w \in Workers : WF_vars(Step(w))
    /\ WF_vars(Restart)

FairSpec == Spec /\ Fairness

-----------------------------------------------------------------------------
(***************************************************************************)
(* Properties.                                                             *)
(***************************************************************************)

\* The premises of the properties: nothing has gone wrong, or nothing worse
\* than steps of index_repo that return an error.
NoFaults   == happened = {}
OnlyErrors == happened \subseteq {"error"}

\* A worker is between the rename of the index and that of the manifest.
Publishing(w) == pc[w] \in {"rewalk", "save"}

\* Index and manifest describe the same tree, if both are there and nobody is
\* between the two renames.
Paired ==
    manifest # None /\ index # None /\ (\A w \in Workers : ~Publishing(w))
        => index = Indexed(manifest)

\* Errors never part the index from the manifest: what the incremental build of
\* a later cycle takes for granted when it copies content for an equal blob id.
ManifestMatchesIndex == OnlyErrors => Paired

\* What a run has built from the old index, the two manifests and the changed
\* blobs is exactly what a full walk of HEAD would have given, until the run
\* has handed the file over.
BuiltIsHead ==
    OnlyErrors => \A w \in Workers :
        pc[w] \in {"write", "writing"} =>
            head # None /\ built[w] = Indexed(TreeOf[head])

\* The index of one single commit: no mixture of two.
Snapshot(x) == x = None \/ \E c \in Commits : x = Indexed(TreeOf[c])

\* Searches run against one commit, never against files of several: the
\* reader, the index on disk a restart would serve, and the reader a run is
\* about to return.
ReaderIsSnapshot ==
    OnlyErrors =>
        Snapshot(reader) /\ Snapshot(index) /\ \A w \in Workers : Snapshot(result[w])

\* Every reader a run is about to return is the index of the commit fetched.
ReturnsHead ==
    \A w \in Workers :
        pc[w] = "return" => head # None /\ result[w] = Indexed(TreeOf[head])

\* As long as nothing fails, a run returns the index of the commit it has
\* fetched, also on the path that skips the rebuild because HEAD is unchanged.
ResultIsHead == NoFaults => ReturnsHead

\* "HEAD unchanged? reuse existing IndexReader, set Ready": the same where a
\* step of an earlier run may have failed.
ReadyIsHead == OnlyErrors => ReturnsHead

\* "For unchanged files (same OID): reuses content directly from the old
\* index": every file of a build has the content its blob id at HEAD names.
ReuseIsExact ==
    \A w \in Workers : pc[w] = "write" =>
        \A p \in DOMAIN built[w] :
            p \in DOMAIN TreeOf[head] /\ built[w][p] = TreeOf[head][p]

\* x holds a file only with a content that some commit has at that path and
\* that passes the size and binary filters.
Grounded(x) ==
    x # None =>
        \A p \in DOMAIN x :
            /\ x[p] \in Indexable
            /\ \E c \in Commits : p \in DOMAIN TreeOf[c] /\ TreeOf[c][p] = x[p]

\* Whatever fails, times out, is cancelled or crashes, a search never shows a
\* file with a content it never had, nor a binary or oversized one, as long as
\* no two runs have been inside write_index at a time: a run that goes on after
\* its timeout may overlap with the next one anywhere else.  What two writers
\* publish is known to nobody (IndexFile_overlap).
NoForeignContent ==
    "overlap" \notin happened =>
        Grounded(reader) /\ Grounded(index) /\ \A w \in Workers : Grounded(built[w])

\* Once a repository is searchable, no failed, timed-out, abandoned or
\* overlapping run makes an end of that: only the start of a process may leave
\* it without a reader, and it finds an index to open.
KeepServing ==
    [][reader # None => index' # None /\ (reader' = None => Restart \/ Crash)]_vars

\* While nothing fails, the pipeline implements the mirror: head is the commit
\* seen, and the only steps that change the reader serve that commit.
Mirror == INSTANCE RepoMirror WITH
    Content <- [c \in Commits |-> Indexed(TreeOf[c])],
    seen <- head, served <- reader
ImplementsMirror == Mirror!Spec

\* A repository whose branch has come to rest is eventually served at that
\* commit, and stays so.
Converges ==
    \A c \in Commits : <>[](remote = c) => <>[](reader = Indexed(TreeOf[c]))
=============================================================================
