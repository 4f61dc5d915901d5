------------------------- MODULE RepoPipelineProofs -------------------------
(***************************************************************************)
(* Theorems about RepoPipeline, for every set of commits, paths, blobs and *)
(* workers: what holds up to the first fault worse than an error, what     *)
(* holds whatever happens, and what holds until the first fault.           *)
(***************************************************************************)
EXTENDS RepoPipeline, TLAPS

-----------------------------------------------------------------------------
(***************************************************************************)
(* What the builds compute.                                                *)
(***************************************************************************)

\* A function from some of the paths to blobs is a tree: the form in which
\* the other lemmas use the definition of Trees.
LEMMA TreeIntro ==
  ASSUME NEW t, DOMAIN t \subseteq Paths, t = [p \in DOMAIN t |-> t[p]],
         \A p \in DOMAIN t : t[p] \in Blobs
  PROVE  t \in Trees
  <1>1. t \in [DOMAIN t -> Blobs]
    OBVIOUS
  <1> QED
    BY <1>1 DEF Trees

\* What a tree is: a function with its domain among the paths.
LEMMA TreeElim ==
  ASSUME NEW t \in Trees
  PROVE  /\ DOMAIN t \subseteq Paths
         /\ t = [p \in DOMAIN t |-> t[p]]
         /\ \A p \in DOMAIN t : t[p] \in Blobs
  <1>1. PICK S \in SUBSET Paths : t \in [S -> Blobs]
    BY DEF Trees
  <1> QED
    BY <1>1

\* walk_files turns a tree into a tree.
LEMMA IndexedTree ==
  ASSUME NEW t \in Trees
  PROVE  Indexed(t) \in Trees
  <1> DEFINE S == {p \in DOMAIN t : t[p] \in Indexable}
  <1>1. Indexed(t) = [p \in S |-> t[p]]
    BY DEF Indexed, Restrict
  <1>2. DOMAIN Indexed(t) = S /\ \A p \in S : Indexed(t)[p] = t[p]
    BY <1>1
  <1>3. S \subseteq Paths /\ \A p \in S : t[p] \in Blobs
    BY TreeElim
  <1> HIDE DEF S
  <1>4. Indexed(t) = [p \in DOMAIN Indexed(t) |-> Indexed(t)[p]]
    BY <1>1, <1>2
  <1> QED
    BY <1>2, <1>3, <1>4, TreeIntro

\* The incremental build yields a tree, whatever old manifest and old index
\* it is given.
LEMMA IncrementalTree ==
  ASSUME NEW m \in Trees, NEW o \in Trees, NEW t \in Trees
  PROVE  Incremental(m, o, t) \in Trees
  <1> DEFINE R == Reusable(m, o, t)
             D == R \cup DOMAIN Indexed(t)
             f == [p \in D |-> IF p \in R THEN o[p] ELSE t[p]]
  <1>1. Incremental(m, o, t) = f
    BY DEF Incremental
  <1>2. R \subseteq DOMAIN t \cap DOMAIN o
    BY DEF Reusable
  <1>3. DOMAIN Indexed(t) \subseteq DOMAIN t
    BY DEF Indexed, Restrict
  <1>4. D \subseteq Paths
    BY <1>2, <1>3, TreeElim
  <1>5. \A p \in D : f[p] \in Blobs
    BY <1>2, <1>3, TreeElim
  <1>6. DOMAIN f = D /\ f = [p \in DOMAIN f |-> f[p]]
    OBVIOUS
  <1> HIDE DEF f, D, R
  <1>7. f \in Trees
    BY <1>4, <1>5, <1>6, TreeIntro
  <1> QED
    BY <1>1, <1>7

\* The heart of incremental indexing: if the old index is exactly what the
\* old manifest describes, copying content for equal blob ids and reading the
\* rest gives what a full walk of the new tree gives.
LEMMA IncrementalCorrect ==
  ASSUME NEW m \in Trees, NEW t \in Trees
  PROVE  Incremental(m, Indexed(m), t) = Indexed(t)
  <1> DEFINE R == Reusable(m, Indexed(m), t)
             D == R \cup DOMAIN Indexed(t)
  <1>1. Indexed(t) = [p \in DOMAIN Indexed(t) |-> t[p]]
    BY DEF Indexed, Restrict
  <1>2. ASSUME NEW p \in R
        PROVE  p \in DOMAIN Indexed(t) /\ Indexed(m)[p] = t[p]
    BY <1>2 DEF Reusable, Indexed, Restrict
  <1>3. D = DOMAIN Indexed(t)
    BY <1>2
  <1>4. Incremental(m, Indexed(m), t)
          = [p \in D |-> IF p \in R THEN Indexed(m)[p] ELSE t[p]]
    BY DEF Incremental
  <1>5. \A p \in D : (IF p \in R THEN Indexed(m)[p] ELSE t[p]) = t[p]
    BY <1>2
  <1> HIDE DEF R, D
  <1>6. Incremental(m, Indexed(m), t) = [p \in D |-> t[p]]
    BY <1>4, <1>5
  <1> QED
    BY <1>1, <1>3, <1>6

\* The file list of a run is a tree, or unknown if it starts from an unknown
\* index ...
LEMMA FileListTree ==
  ASSUME NEW m \in OptTrees, NEW o \in Images, NEW t \in Trees
  PROVE  /\ FileList(m, o, t) \in Trees \cup {Torn}
         /\ FileList(m, o, t) # None
         /\ o # Torn => FileList(m, o, t) # Torn
  <1>1. o # Torn => FileList(m, o, t) \in Trees
    BY IncrementalTree, IndexedTree DEF FileList, OptTrees, Images
  <1>2. o = Torn => FileList(m, o, t) \in Trees \cup {Torn}
    BY IndexedTree DEF FileList, OptTrees, Images
  <1>3. None \notin Trees /\ None # Torn /\ Torn \notin Trees
    BY ConstantTypes
  <1> QED
    BY <1>1, <1>2, <1>3

\* ... and the right one if what it starts from is missing or consistent.
LEMMA FileListCorrect ==
  ASSUME NEW m \in OptTrees, NEW o \in Images, NEW t \in Trees,
         m # None /\ o # None => o = Indexed(m)
  PROVE  FileList(m, o, t) = Indexed(t)
  <1>1. CASE m # None /\ o # None
    <2>1. m \in Trees /\ o = Indexed(m)
      BY <1>1 DEF OptTrees
    <2>2. o # Torn
      BY <2>1, IndexedTree, ConstantTypes
    <2> QED
      BY <1>1, <2>1, <2>2, IncrementalCorrect DEF FileList
  <1>2. CASE m = None \/ o = None
    BY <1>2, ConstantTypes DEF FileList
  <1> QED
    BY <1>1, <1>2

\* The tree of a commit is a tree, None is neither tree nor commit, and Torn is
\* neither of both.
LEMMA CommitTree ==
  /\ \A c \in Commits : TreeOf[c] \in Trees
  /\ None \notin Trees /\ None \notin Commits /\ None \notin Workers
  /\ Torn \notin Trees /\ None # Torn
  BY ConstantTypes

-----------------------------------------------------------------------------
(***************************************************************************)
(* Type correctness, whatever may fail.                                    *)
(***************************************************************************)

\* A run that ends leaves well-typed locals behind.
LEMMA LeaveType ==
  ASSUME TypeOK, NEW w \in Workers, Leave(w)
  PROVE  /\ UNCHANGED <<remote, cloned, head, manifest, index, cancel>>
         /\ attached' \in Workers \cup {None}
         /\ pc' \in [Workers -> Stages]
         /\ mani' \in [Workers -> OptTrees]
         /\ {old', built', result'} \subseteq [Workers -> Images]
  BY DEF TypeOK, Leave, Images, OptTrees, Stages, disk

\* A process that boots starts from well-typed state.
LEMMA BootType ==
  ASSUME TypeOK, NEW kinds \in SUBSET FaultKinds, Boot(kinds)
  PROVE  /\ UNCHANGED <<remote, cloned, head, manifest, index>>
         /\ reader' \in Images /\ cancel' \in BOOLEAN
         /\ happened' \subseteq FaultKinds
         /\ attached' \in Workers \cup {None}
         /\ pc' \in [Workers -> Stages]
         /\ mani' \in [Workers -> OptTrees]
         /\ {old', built', result'} \subseteq [Workers -> Images]
  BY DEF TypeOK, Boot, Happen, FaultKinds, Opened, Nothing, Images, OptTrees,
         Stages, disk

\* Only the kinds of fault there are are recorded.
LEMMA FaultType ==
  ASSUME happened \subseteq FaultKinds
  PROVE  /\ NoFault => happened' \subseteq FaultKinds
         /\ \A k \in FaultKinds : Fault(k) => happened' \subseteq FaultKinds
  BY DEF NoFault, Fault, Happen

\* What opens is what is there.
LEMMA OpenedIs ==
  ASSUME NEW x, NEW y \in Opened(x)
  PROVE  (y = x \/ y = None) /\ (y = None => x \in {None, Torn})
  BY DEF Opened

\* Every step, and every fault, leads from well-typed to well-typed states.
LEMMA TypeStep ==
  ASSUME TypeOK, [Next]_vars
  PROVE  TypeOK'
  <1> USE FaultType DEF TypeOK, FaultKinds
  <1>1. ASSUME NEW w \in Workers, Start(w) PROVE TypeOK'
    BY <1>1 DEF Start, GoTo, Stages, disk, locals
  <1>2. ASSUME NEW w \in Workers, OpenClone(w) PROVE TypeOK'
    BY <1>2 DEF OpenClone, GoTo, Stages, disk, server, locals
  <1>3. ASSUME NEW w \in Workers, InitClone(w) PROVE TypeOK'
    BY <1>3 DEF InitClone, GoTo, Stages, server, locals
  <1>4. ASSUME NEW w \in Workers, CloneFetch(w) PROVE TypeOK'
    BY <1>4 DEF CloneFetch, GoTo, Stages, server, locals
  <1>5. ASSUME NEW w \in Workers, Fetch(w) PROVE TypeOK'
    BY <1>5 DEF Fetch, GoTo, Stages, server, locals
  <1>6. ASSUME NEW w \in Workers, Reuse(w) PROVE TypeOK'
    <2>1. pc' \in [Workers -> Stages] /\ result' \in [Workers -> Images]
      BY <1>6 DEF Reuse, GoTo, Stages, disk, server
    <2>2. happened' \subseteq FaultKinds
      BY <1>6 DEF Reuse
    <2> QED
      BY <1>6, <2>1, <2>2 DEF Reuse, disk, server
  <1>7. ASSUME NEW w \in Workers, LoadManifest(w) PROVE TypeOK'
    BY <1>7 DEF LoadManifest, GoTo, Stages, OptTrees, disk, server
  <1>8. ASSUME NEW w \in Workers, LoadIndex(w) PROVE TypeOK'
    <2>1. PICK x \in Opened(index) \cup {None} : old' = [old EXCEPT ![w] = x]
      BY <1>8 DEF LoadIndex
    <2>2. x \in Images
      BY <2>1, OpenedIs DEF Images, OptTrees
    <2>3. happened' \subseteq FaultKinds
      BY <1>8 DEF LoadIndex
    <2> QED
      BY <1>8, <2>1, <2>2, <2>3 DEF LoadIndex, GoTo, Stages, disk, server
  <1>9. ASSUME NEW w \in Workers, Build(w) PROVE TypeOK'
    <2>1. TreeOf[head] \in Trees
      BY <1>9, CommitTree DEF Build
    <2>2. FileList(mani[w], old[w], TreeOf[head]) \in Images
      BY <2>1, FileListTree DEF OptTrees, Images
    <2> QED
      BY <1>9, <2>2 DEF Build, GoTo, Stages, Images, OptTrees, disk, server
  <1>10. ASSUME NEW w \in Workers, WriteIndex(w) PROVE TypeOK'
    BY <1>10 DEF WriteIndex, GoTo, Stages, Images, OptTrees, server
  <1>23. ASSUME NEW w \in Workers, StartWrite(w) PROVE TypeOK'
    <2>1. pc' \in [Workers -> Stages]
      BY <1>23 DEF StartWrite, Stages
    <2>2. happened' \subseteq FaultKinds
      BY <1>23 DEF StartWrite
    <2> QED
      BY <1>23, <2>1, <2>2 DEF StartWrite, disk, server, locals
  <1>11. ASSUME NEW w \in Workers, WalkManifest(w) PROVE TypeOK'
    <2>1. head # None => TreeOf[head] \in OptTrees
      BY CommitTree DEF OptTrees
    <2>2. pc' \in [Workers -> Stages] /\ mani' \in [Workers -> OptTrees]
      BY <1>11, <2>1 DEF WalkManifest, GoTo, Stages
    <2>3. happened' \subseteq FaultKinds
      BY <1>11 DEF WalkManifest
    <2> QED
      BY <1>11, <2>2, <2>3 DEF WalkManifest, disk, server
  <1>12. ASSUME NEW w \in Workers, SaveManifest(w) PROVE TypeOK'
    BY <1>12 DEF SaveManifest, GoTo, Stages, OptTrees, server
  <1>13. ASSUME NEW w \in Workers, Reopen(w) PROVE TypeOK'
    BY <1>13 DEF Reopen, GoTo, Stages, Images, OptTrees, disk, server
  <1>14. ASSUME NEW w \in Workers, Return(w) PROVE TypeOK'
    BY <1>14, LeaveType DEF Return
  <1>15. ASSUME NEW w \in Workers, Bail(w) \/ FailMixed(w) PROVE TypeOK'
    BY <1>15, LeaveType DEF Bail, FailMixed
  <1>16. ASSUME NEW w \in Workers, Fail(w) PROVE TypeOK'
    BY <1>16, LeaveType DEF Fail
  <1>17. CASE Push
    BY <1>17 DEF Push, disk, server, locals
  <1>18. CASE Timeout
    BY <1>18 DEF Timeout, disk, locals
  <1>19. CASE Shutdown
    BY <1>19 DEF Shutdown, disk, locals
  <1>20. CASE Restart
    BY <1>20, BootType DEF Restart
  <1>21. CASE Crash
    BY <1>21, BootType DEF Crash
  <1>22. CASE UNCHANGED vars
    BY <1>22 DEF vars, disk, server, locals
  <1> QED
    BY <1>1, <1>2, <1>3, <1>4, <1>5, <1>6, <1>7, <1>8, <1>9, <1>10, <1>11,
       <1>12, <1>13, <1>14, <1>15, <1>16, <1>17, <1>18, <1>19, <1>20, <1>21,
       <1>22, <1>23 DEF Next, Step

\* The initial state is well typed.
LEMMA TypeInit ==
  Init => TypeOK
  <1> SUFFICES ASSUME Init PROVE TypeOK
    OBVIOUS
  <1>1. Nothing \in [Workers -> OptTrees] /\ Nothing \in [Workers -> Images]
    BY DEF Nothing, OptTrees, Images
  <1>2. pc \in [Workers -> Stages]
    BY DEF Init, Stages
  <1>3. None \in OptTrees /\ None \in Images
    BY DEF OptTrees, Images
  <1> QED
    BY <1>1, <1>2, <1>3 DEF Init, TypeOK

\* The state is well typed in every reachable state, under every fault.
THEOREM TypeCorrect == Spec => []TypeOK
  BY TypeInit, TypeStep, PTL DEF Spec

-----------------------------------------------------------------------------
(***************************************************************************)
(* Safety while steps may fail but nothing else has gone wrong: no crash,  *)
(* no shutdown, no timeout, no ignored failure of the manifest.  The       *)
(* inductive invariant says that there is one run at a time, what that run *)
(* knows at each stage, and what is on disk between runs.                  *)
(***************************************************************************)

\* One run at a time, and nobody is shutting down.
Solo == ~cancel /\ \A w \in Workers : pc[w] # "idle" => attached = w

HasHead == {"reuse", "plan", "openold", "build", "write", "writing", "rewalk",
            "save", "reopen", "return"}

\* What a run knows at each stage.
Knows(w) ==
    /\ pc[w] \in HasHead => head # None
    /\ pc[w] = "openold" => mani[w] \in {None, manifest}
    /\ pc[w] = "build" /\ mani[w] # None /\ old[w] # None
           => old[w] = Indexed(mani[w])
    /\ pc[w] # "mixed"
    /\ pc[w] \in {"write", "writing"} => built[w] = Indexed(TreeOf[head])
    /\ pc[w] \in {"rewalk", "save", "reopen"} => index = Indexed(TreeOf[head])
    /\ pc[w] = "save" => mani[w] = TreeOf[head]
    /\ Snapshot(result[w])

ErrorsInv ==
    /\ TypeOK
    /\ Solo
    /\ \A w \in Workers : Knows(w)
    /\ Paired
    /\ Snapshot(reader) /\ Snapshot(index)

\* What is inductive: the invariant holds until something worse happens.
UntilWorse == TypeOK /\ (OnlyErrors => ErrorsInv)

\* A step that leaves only errors behind had no other fault.
LEMMA NoOtherFault ==
  ASSUME OnlyErrors'
  PROVE  /\ ~Fault("save") /\ ~Fault("cancel") /\ ~Fault("timeout") /\ ~Fault("overlap")
         /\ ~Crash
  BY DEF OnlyErrors, Fault, Happen, Crash, Boot

\* What has happened stays happened.
LEMMA HappenedStays ==
  ASSUME [Next]_vars
  PROVE  happened \subseteq happened'
  <1>1. /\ \A k : Fault(k) => happened \subseteq happened'
        /\ \A kinds : Boot(kinds) => happened \subseteq happened'
    BY DEF Fault, Happen, Boot
  <1>2. NoFault \/ UNCHANGED vars => happened \subseteq happened'
    BY DEF NoFault, vars
  <1>3. ASSUME NEW w \in Workers, Step(w) PROVE happened \subseteq happened'
    BY <1>1, <1>2, <1>3
       DEF Step, OpenClone, InitClone, CloneFetch, Fetch, Reuse, LoadManifest,
           LoadIndex, Build, StartWrite, WriteIndex, WalkManifest, SaveManifest,
           Reopen, Return, FailMixed, Bail
  <1> QED
    BY <1>1, <1>2, <1>3
       DEF Next, Start, Fail, Push, Timeout, Shutdown, Restart, Crash

\* Hence nothing worse than errors had happened before.
LEMMA Monotone ==
  ASSUME [Next]_vars, OnlyErrors'
  PROVE  OnlyErrors
  BY HappenedStays DEF OnlyErrors

\* The invariant gives the properties the runs check.
LEMMA ErrorsInvImplies ==
  UntilWorse => ManifestMatchesIndex /\ BuiltIsHead /\ ReaderIsSnapshot
  BY DEF UntilWorse, ManifestMatchesIndex, ErrorsInv, Knows, HasHead, BuiltIsHead, ReaderIsSnapshot

\* The index of the current head is a snapshot.
LEMMA HeadSnapshot ==
  ASSUME TypeOK, head # None
  PROVE  Snapshot(Indexed(TreeOf[head]))
  BY DEF TypeOK, Snapshot

\* A run that ends, with the reader it had or with its result, keeps the
\* invariant.
LEMMA LeaveErrors ==
  ASSUME ErrorsInv, NEW w \in Workers, Leave(w), TypeOK',
         pc[w] \notin {"idle", "rewalk", "save"},
         reader' \in {reader, result[w]}
  PROVE  ErrorsInv'
  <1>1. attached = w /\ ~cancel /\ cancel' = cancel
    BY DEF ErrorsInv, Solo, Leave
  <1>2. \A v \in Workers : pc'[v] = "idle"
    BY <1>1 DEF ErrorsInv, Solo, Leave, TypeOK
  <1>3. \A v \in Workers : Knows(v)'
    <2> TAKE v \in Workers
    <2>1. result'[v] \in {result[v], None}
      BY DEF Leave, ErrorsInv, TypeOK
    <2>2. Snapshot(result'[v])
      BY <2>1 DEF ErrorsInv, Knows, Snapshot
    <2> QED
      BY <1>2, <2>2 DEF Knows, HasHead, Snapshot
  <1>4. Paired'
    <2>1. \A v \in Workers : ~Publishing(v)
      BY <1>1 DEF ErrorsInv, Solo, Publishing
    <2> QED
      BY <2>1 DEF ErrorsInv, Paired, Leave, disk
  <1>5. Snapshot(reader)' /\ Snapshot(index)'
    BY DEF ErrorsInv, Knows, Snapshot, Leave, disk
  <1> QED
    BY <1>1, <1>2, <1>3, <1>4, <1>5 DEF ErrorsInv, Solo

\* A run that goes on keeps the invariant if it keeps its own part of it and
\* what is said about the files.
LEMMA RunErrors ==
  ASSUME ErrorsInv, NEW w \in Workers, NEW to, pc[w] # "idle",
         pc' = [pc EXCEPT ![w] = to], UNCHANGED <<server, remote>>, TypeOK',
         \A v \in Workers \ {w} : result'[v] = result[v],
         Knows(w)', Paired', Snapshot(index)'
  PROVE  ErrorsInv'
  <1>1. attached = w /\ ~cancel
    BY DEF ErrorsInv, Solo
  <1>2. \A v \in Workers \ {w} : pc[v] = "idle" /\ pc'[v] = "idle"
    BY <1>1 DEF ErrorsInv, Solo, TypeOK
  <1>3. ASSUME NEW v \in Workers \ {w} PROVE Knows(v)'
    <2>1. Snapshot(result'[v])
      BY DEF ErrorsInv, Knows, Snapshot
    <2> QED
      BY <1>2, <2>1 DEF Knows, HasHead, Snapshot
  <1>4. Solo'
    BY <1>1, <1>2 DEF Solo, server
  <1>5. Snapshot(reader)'
    BY DEF ErrorsInv, Snapshot, server
  <1> QED
    BY <1>3, <1>4, <1>5 DEF ErrorsInv

\* Every step that is no worse than an error keeps the invariant.
LEMMA ErrorsStep ==
  ASSUME OnlyErrors', ErrorsInv, [Next]_vars
  PROVE  ErrorsInv'
  <1> USE TypeStep DEF ErrorsInv
  <1>0. TypeOK'
    OBVIOUS
  <1>1. ASSUME NEW w \in Workers, Start(w) PROVE ErrorsInv'
    <2>1. \A v \in Workers : pc[v] = "idle"
      BY <1>1, CommitTree DEF Start, Solo
    <2>2. pc' = [pc EXCEPT ![w] = "open"] /\ attached' = w /\ ~cancel'
      BY <1>1 DEF Start, GoTo
    <2>3. Solo'
      BY <2>1, <2>2 DEF Solo, TypeOK
    <2>4. \A v \in Workers : Knows(v)'
      <3> TAKE v \in Workers
      <3>1. pc'[v] \in {"idle", "open"} /\ result'[v] = result[v]
        BY <1>1, <2>1, <2>2 DEF TypeOK, Start, locals
      <3>2. Snapshot(result'[v])
        BY <3>1 DEF Knows, Snapshot
      <3> QED
        BY <3>1, <3>2 DEF Knows, HasHead, Snapshot
    <2>5. Paired' /\ Snapshot(reader)' /\ Snapshot(index)'
      <3>1. \A v \in Workers : ~Publishing(v)
        BY <2>1 DEF Publishing
      <3> QED
        BY <1>1, <3>1 DEF Start, disk, Paired, Snapshot
    <2> QED
      BY <1>0, <2>3, <2>4, <2>5
  \* The stages before the index is built: the files stay as they are.
  <1>2. ASSUME NEW w \in Workers, NEW to \in Stages \ {"rewalk", "save"},
               pc[w] \notin {"idle", "rewalk", "save"},
               pc' = [pc EXCEPT ![w] = to],
               UNCHANGED <<server, remote, manifest, index>>,
               \A v \in Workers \ {w} : result'[v] = result[v],
               Knows(w)'
        PROVE  ErrorsInv'
    <2>1. Paired'
      <3>1. \A v \in Workers : ~Publishing(v)
        BY <1>2 DEF Solo, Publishing
      <3> QED
        BY <1>2, <3>1 DEF Paired
    <2>2. Snapshot(index)'
      BY <1>2 DEF Snapshot
    <2> QED
      BY <1>0, <1>2, <2>1, <2>2, RunErrors
  <1>3. ASSUME NEW w \in Workers, OpenClone(w) PROVE ErrorsInv'
    <2>1. pc' = [pc EXCEPT ![w] = "fetch"] /\ pc'[w] = "fetch" /\ pc[w] = "open"
      BY <1>3 DEF OpenClone, GoTo, TypeOK
    <2>2. Knows(w)'
      BY <1>3, <2>1 DEF OpenClone, locals, Knows, HasHead, Snapshot
    <2> QED
      BY <1>2, <1>3, <2>1, <2>2 DEF OpenClone, Stages, locals, disk
  <1>4. ASSUME NEW w \in Workers, InitClone(w) PROVE ErrorsInv'
    <2>1. pc' = [pc EXCEPT ![w] = "clone"] /\ pc'[w] = "clone" /\ pc[w] = "open"
      BY <1>4 DEF InitClone, GoTo, TypeOK
    <2>2. Knows(w)'
      BY <1>4, <2>1 DEF InitClone, locals, Knows, HasHead, Snapshot
    <2> QED
      BY <1>2, <1>4, <2>1, <2>2 DEF InitClone, Stages, locals
  <1>5. ASSUME NEW w \in Workers, CloneFetch(w) PROVE ErrorsInv'
    <2>1. pc' = [pc EXCEPT ![w] = "plan"] /\ pc'[w] = "plan" /\ pc[w] = "clone"
      BY <1>5 DEF CloneFetch, GoTo, TypeOK
    <2>2. head' # None
      BY <1>5, CommitTree DEF CloneFetch, TypeOK
    <2>3. Knows(w)'
      BY <1>5, <2>1, <2>2 DEF CloneFetch, locals, Knows, HasHead, Snapshot
    <2> QED
      BY <1>2, <1>5, <2>1, <2>3 DEF CloneFetch, Stages, locals
  <1>6. ASSUME NEW w \in Workers, Fetch(w) PROVE ErrorsInv'
    <2>1. PICK to \in {"reuse", "plan"} : pc' = [pc EXCEPT ![w] = to] /\ pc'[w] = to
      BY <1>6 DEF Fetch, GoTo, TypeOK
    <2>2. head' # None /\ pc[w] = "fetch"
      BY <1>6, CommitTree DEF Fetch, GoTo, TypeOK
    <2>3. Knows(w)'
      BY <1>6, <2>1, <2>2 DEF Fetch, locals, Knows, HasHead, Snapshot
    <2> QED
      BY <1>2, <1>6, <2>1, <2>2, <2>3 DEF Fetch, Stages, locals
  <1>7. ASSUME NEW w \in Workers, Reuse(w) PROVE ErrorsInv'
    <2>1. PICK to \in {"return", "plan"} : pc' = [pc EXCEPT ![w] = to] /\ pc'[w] = to
      BY <1>7 DEF Reuse, GoTo, TypeOK
    <2>2. pc[w] = "reuse" /\ result'[w] \in {result[w], index}
      BY <1>7 DEF Reuse, GoTo, TypeOK
    <2>3. \A v \in Workers \ {w} : result'[v] = result[v]
      BY <1>7 DEF Reuse, TypeOK
    <2>4. Snapshot(result'[w])
      BY <2>2 DEF Knows, Snapshot
    <2>5. Knows(w)'
      BY <1>7, <2>1, <2>2, <2>4 DEF Reuse, disk, Knows, HasHead, Snapshot
    <2> QED
      BY <1>2, <1>7, <2>1, <2>2, <2>3, <2>5 DEF Reuse, Stages, disk
  <1>8. ASSUME NEW w \in Workers, LoadManifest(w) PROVE ErrorsInv'
    <2>1. pc' = [pc EXCEPT ![w] = "openold"] /\ pc'[w] = "openold" /\ pc[w] = "plan"
      BY <1>8 DEF LoadManifest, GoTo, TypeOK
    <2>2. mani'[w] \in {None, manifest'}
      BY <1>8 DEF LoadManifest, TypeOK, disk
    <2>3. Knows(w)'
      BY <1>8, <2>1, <2>2 DEF LoadManifest, disk, Knows, HasHead, Snapshot
    <2> QED
      BY <1>2, <1>8, <2>1, <2>3 DEF LoadManifest, Stages, disk
  <1>9. ASSUME NEW w \in Workers, LoadIndex(w) PROVE ErrorsInv'
    <2>1. pc' = [pc EXCEPT ![w] = "build"] /\ pc'[w] = "build" /\ pc[w] = "openold"
      BY <1>9 DEF LoadIndex, GoTo, TypeOK
    <2>2. old'[w] \in {None, index} /\ mani' = mani
      BY <1>9, OpenedIs DEF LoadIndex, TypeOK
    <2>3. mani'[w] # None /\ old'[w] # None => old'[w] = Indexed(mani'[w])
      <3>1. \A v \in Workers : ~Publishing(v)
        BY <2>1 DEF Solo, Publishing
      <3> QED
        BY <2>1, <2>2, <3>1 DEF Knows, Paired
    <2>4. Knows(w)'
      BY <1>9, <2>1, <2>3 DEF LoadIndex, disk, Knows, HasHead, Snapshot
    <2> QED
      BY <1>2, <1>9, <2>1, <2>4 DEF LoadIndex, Stages, disk
  <1>10. ASSUME NEW w \in Workers, Build(w) PROVE ErrorsInv'
    <2>1. pc' = [pc EXCEPT ![w] = "write"] /\ pc'[w] = "write" /\ pc[w] = "build"
      BY <1>10 DEF Build, GoTo, TypeOK
    <2>2. TreeOf[head] \in Trees /\ mani[w] \in OptTrees /\ old[w] \in Images
      BY <1>10, CommitTree DEF Build, TypeOK
    <2>3. FileList(mani[w], old[w], TreeOf[head]) = Indexed(TreeOf[head])
      BY <2>1, <2>2, FileListCorrect DEF Knows
    <2>4. built'[w] = Indexed(TreeOf[head'])
      BY <1>10, <2>3 DEF Build, TypeOK, disk
    <2>5. Knows(w)'
      BY <1>10, <2>1, <2>4 DEF Build, disk, Knows, HasHead, Snapshot
    <2> QED
      BY <1>2, <1>10, <2>1, <2>5 DEF Build, Stages, disk
  \* The two renames, and what lies between them.
  <1>18. ASSUME NEW w \in Workers, StartWrite(w) PROVE ErrorsInv'
    <2>1. pc' = [pc EXCEPT ![w] = "writing"] /\ pc'[w] = "writing" /\ pc[w] = "write"
      BY <1>18, NoOtherFault DEF StartWrite, TypeOK
    <2>2. Knows(w)'
      BY <1>18, <2>1 DEF StartWrite, disk, locals, Knows, HasHead, Snapshot
    <2> QED
      BY <1>2, <1>18, <2>1, <2>2 DEF StartWrite, Stages, disk, locals
  <1>11. ASSUME NEW w \in Workers, WriteIndex(w) PROVE ErrorsInv'
    <2>1. pc' = [pc EXCEPT ![w] = "rewalk"] /\ pc'[w] = "rewalk" /\ pc[w] = "writing"
          /\ index' = built[w]
      BY <1>11 DEF WriteIndex, GoTo, TypeOK, Knows
    <2>2. Paired'
      BY <2>1 DEF Paired, Publishing
    <2>3. Snapshot(index)'
      BY <2>1, HeadSnapshot DEF Knows, HasHead, Snapshot
    <2>4. Knows(w)'
      BY <1>11, <2>1 DEF WriteIndex, Knows, HasHead, Snapshot
    <2> QED
      BY <1>0, <1>11, <2>1, <2>2, <2>3, <2>4, RunErrors DEF WriteIndex
  <1>12. ASSUME NEW w \in Workers, WalkManifest(w) PROVE ErrorsInv'
    <2>1. ~cancel /\ ~Fault("save")
      BY <1>12, NoOtherFault DEF Solo
    <2>2. pc' = [pc EXCEPT ![w] = "save"] /\ pc'[w] = "save" /\ pc[w] = "rewalk"
      BY <1>12, <2>1 DEF WalkManifest, GoTo, TypeOK
    <2>3. mani'[w] = TreeOf[head']
      BY <1>12, <2>1 DEF WalkManifest, TypeOK, disk
    <2>4. Paired'
      BY <2>2 DEF Paired, Publishing
    <2>5. Snapshot(index)'
      BY <1>12 DEF WalkManifest, disk, Snapshot
    <2>6. Knows(w)'
      BY <1>12, <2>2, <2>3 DEF WalkManifest, disk, Knows, HasHead, Snapshot
    <2> QED
      BY <1>0, <1>12, <2>2, <2>4, <2>5, <2>6, RunErrors DEF WalkManifest
  <1>13. ASSUME NEW w \in Workers, SaveManifest(w) PROVE ErrorsInv'
    <2>1. manifest' = mani[w]
      BY <1>13, NoOtherFault DEF SaveManifest
    <2>2. pc' = [pc EXCEPT ![w] = "reopen"] /\ pc'[w] = "reopen" /\ pc[w] = "save"
      BY <1>13 DEF SaveManifest, GoTo, TypeOK
    <2>3. index' = Indexed(manifest')
      BY <1>13, <2>1, <2>2 DEF SaveManifest, Knows
    <2>4. Paired'
      BY <2>3 DEF Paired
    <2>5. Snapshot(index)'
      BY <1>13 DEF SaveManifest, Snapshot
    <2>6. Knows(w)'
      BY <1>13, <2>2 DEF SaveManifest, Knows, HasHead, Snapshot
    <2> QED
      BY <1>0, <1>13, <2>2, <2>4, <2>5, <2>6, RunErrors DEF SaveManifest
  <1>14. ASSUME NEW w \in Workers, Reopen(w) PROVE ErrorsInv'
    <2>1. pc' = [pc EXCEPT ![w] = "return"] /\ pc'[w] = "return" /\ pc[w] = "reopen"
      BY <1>14 DEF Reopen, GoTo, TypeOK
    <2>2. Snapshot(result'[w]) /\ \A v \in Workers \ {w} : result'[v] = result[v]
      BY <1>14 DEF Reopen, TypeOK, Snapshot
    <2>3. Knows(w)'
      BY <1>14, <2>1, <2>2 DEF Reopen, disk, Knows, HasHead, Snapshot
    <2> QED
      BY <1>2, <1>14, <2>1, <2>2, <2>3 DEF Reopen, Stages, disk
  <1>15. ASSUME NEW w \in Workers, Return(w) \/ Fail(w) \/ FailMixed(w)
         PROVE  ErrorsInv'
    <2>1. Leave(w) /\ pc[w] \notin {"idle", "rewalk", "save"}
      BY <1>15 DEF Return, Fail, FailMixed
    <2>2. reader' \in {reader, result[w]}
      BY <1>15 DEF Return, Fail, FailMixed
    <2> QED
      BY <1>0, <2>1, <2>2, LeaveErrors
  \* No cancellation, hence none of these.
  <1>16. /\ \A w \in Workers : ~Bail(w)
         /\ ~Timeout /\ ~Shutdown /\ ~Restart /\ ~Crash
    BY NoOtherFault DEF Solo, Bail, Timeout, Shutdown, Restart
  <1>17. CASE Push \/ UNCHANGED vars
    <2>1. UNCHANGED <<disk, server, pc, locals>>
      BY <1>17 DEF Push, vars
    <2>2. UNCHANGED <<cloned, head, manifest, index, reader, cancel, attached, pc,
                      mani, old, built, result>>
      BY <2>1 DEF disk, server, locals
    <2>3. Solo'
      BY <2>2 DEF Solo
    <2>4. \A w \in Workers : Knows(w)'
      BY <2>2 DEF Knows, Snapshot
    <2>5. Paired' /\ Snapshot(reader)' /\ Snapshot(index)'
      BY <2>2 DEF Paired, Publishing, Snapshot
    <2> QED
      BY <1>0, <2>3, <2>4, <2>5
  <1> QED
    BY <1>1, <1>3, <1>4, <1>5, <1>6, <1>7, <1>8, <1>9, <1>10, <1>11, <1>12,
       <1>13, <1>14, <1>15, <1>16, <1>17, <1>18 DEF Next, Step

\* The initial state satisfies the invariant.
LEMMA ErrorsInit ==
  Init => ErrorsInv
  <1> SUFFICES ASSUME Init PROVE ErrorsInv
    OBVIOUS
  <1>1. TypeOK
    BY TypeInit
  <1>2. \A w \in Workers : pc[w] = "idle" /\ result[w] = None
    BY DEF Init, Nothing
  <1>3. \A w \in Workers : Knows(w)
    BY <1>2 DEF Knows, HasHead, Snapshot
  <1> QED
    BY <1>1, <1>2, <1>3
       DEF Init, ErrorsInv, Solo, Paired, Snapshot

\* As long as nothing worse has happened than steps that fail, index and
\* manifest describe the same tree between the two renames of a run, every run
\* builds exactly what a full walk of HEAD gives, and searches see one commit.
THEOREM SafeUnderErrors ==
  Spec => [](ManifestMatchesIndex /\ BuiltIsHead /\ ReaderIsSnapshot)
  <1>1. Init => UntilWorse
    BY TypeInit, ErrorsInit DEF UntilWorse
  <1>2. UntilWorse /\ [Next]_vars => UntilWorse'
    BY TypeStep, Monotone, ErrorsStep DEF UntilWorse
  <1> QED
    BY <1>1, <1>2, ErrorsInvImplies, PTL DEF Spec

-----------------------------------------------------------------------------
(***************************************************************************)
(* No foreign content, under every fault, until two runs are inside        *)
(* write_index at a time.                                                  *)
(***************************************************************************)

\* Grounded, and known.
Sound(x) == x # Torn /\ Grounded(x)

\* No index has been made by two writers, and everything that may find its way
\* into an index is grounded.
GroundedInv ==
    /\ TypeOK
    /\ \A w \in Workers : pc[w] # "mixed"
    /\ Sound(reader) /\ Sound(index)
    /\ \A w \in Workers : Sound(old[w]) /\ Sound(built[w]) /\ Sound(result[w])

\* What is inductive: the invariant holds until two runs overlap there.
UntilOverlap == TypeOK /\ ("overlap" \notin happened => GroundedInv)

\* What a full walk of a commit gives is grounded.
LEMMA IndexedGrounded ==
  ASSUME NEW c \in Commits
  PROVE  Grounded(Indexed(TreeOf[c]))
  BY DEF Grounded, Indexed, Restrict

\* So is what the incremental build gives, whatever manifest it trusts: a
\* wrong manifest copies an old content of the path, never one it did not have.
LEMMA FileListGrounded ==
  ASSUME NEW m, NEW o, NEW c \in Commits, Sound(o)
  PROVE  Grounded(FileList(m, o, TreeOf[c]))
  <1> USE DEF Sound
  <1>1. CASE m # None /\ o # None
    <2> DEFINE t == TreeOf[c]
               R == Reusable(m, o, t)
               f == [p \in R \cup DOMAIN Indexed(t) |-> IF p \in R THEN o[p] ELSE t[p]]
    <2>1. FileList(m, o, t) = f
      BY <1>1 DEF FileList, Incremental
    <2>2. ASSUME NEW p \in R
          PROVE  o[p] \in Indexable
                 /\ \E d \in Commits : p \in DOMAIN TreeOf[d] /\ TreeOf[d][p] = o[p]
      BY <1>1, <2>2 DEF Grounded, Reusable
    <2>3. ASSUME NEW p \in DOMAIN Indexed(t)
          PROVE  t[p] \in Indexable /\ p \in DOMAIN t
      BY <2>3 DEF Indexed, Restrict
    <2> HIDE DEF R
    <2>4. ASSUME NEW p \in DOMAIN f
          PROVE  f[p] \in Indexable
                 /\ \E d \in Commits : p \in DOMAIN TreeOf[d] /\ TreeOf[d][p] = f[p]
      <3>1. CASE p \in R
        BY <2>2, <3>1
      <3>2. CASE p \notin R
        BY <2>3, <3>2
      <3> QED
        BY <3>1, <3>2
    <2> HIDE DEF f
    <2> QED
      BY <2>1, <2>4 DEF Grounded
  <1>2. CASE ~(m # None /\ o # None)
    BY <1>2, IndexedGrounded DEF FileList
  <1> QED
    BY <1>1, <1>2

\* Only these steps touch what the invariant speaks of.
LEMMA GroundedStep ==
  ASSUME GroundedInv, [Next]_vars, "overlap" \notin happened'
  PROVE  GroundedInv'
  <1> USE DEF GroundedInv
  <1>0. TypeOK' /\ Sound(None) /\ ~Fault("overlap")
    BY TypeStep, ConstantTypes DEF Grounded, Sound, Fault, Happen
  <1> DEFINE Kept == UNCHANGED <<reader, index, old, built, result>>
             Apart == \A v \in Workers : pc'[v] # "mixed"
  <1>1. ASSUME Kept, Apart PROVE GroundedInv'
    BY <1>0, <1>1 DEF Grounded, Sound
  <1>10. ASSUME NEW w \in Workers, NEW to \in Stages \ {"mixed"},
                pc' = [pc EXCEPT ![w] = to]
         PROVE  Apart
    BY <1>10 DEF TypeOK
  <1> HIDE DEF Apart
  <1>2. ASSUME NEW w \in Workers,
               Start(w) \/ OpenClone(w) \/ InitClone(w) \/ CloneFetch(w) \/ Fetch(w)
               \/ LoadManifest(w) \/ StartWrite(w) \/ WalkManifest(w) \/ SaveManifest(w)
        PROVE  GroundedInv'
    <2>1. Kept
      BY <1>2 DEF Start, OpenClone, InitClone, CloneFetch, Fetch, LoadManifest,
                  StartWrite, WalkManifest, SaveManifest, disk, server, locals
    <2>2. \E to \in Stages \ {"mixed"} : pc' = [pc EXCEPT ![w] = to]
      BY <1>0, <1>2 DEF Start, OpenClone, InitClone, CloneFetch, Fetch, LoadManifest,
                  StartWrite, WalkManifest, SaveManifest, GoTo, Stages
    <2> QED
      BY <1>1, <1>10, <2>1, <2>2
  <1>3. ASSUME NEW w \in Workers, Reuse(w) \/ Reopen(w) PROVE GroundedInv'
    <2>1. UNCHANGED <<reader, index, old, built>>
      BY <1>3 DEF Reuse, Reopen, disk, server
    <2>2. \A v \in Workers : result'[v] \in {result[v], index}
      BY <1>3 DEF Reuse, Reopen, TypeOK
    <2>3. \E to \in Stages \ {"mixed"} : pc' = [pc EXCEPT ![w] = to]
      BY <1>3 DEF Reuse, Reopen, GoTo, Stages
    <2>4. Apart
      BY <1>10, <2>3
    <2>5. Sound(reader)' /\ Sound(index)'
          /\ \A v \in Workers : Sound(old[v])' /\ Sound(built[v])' /\ Sound(result[v])'
      BY <2>1, <2>2 DEF Grounded, Sound
    <2> QED
      BY <1>0, <2>4, <2>5 DEF Apart
  <1>4. ASSUME NEW w \in Workers, LoadIndex(w) PROVE GroundedInv'
    <2>1. UNCHANGED <<reader, index, built, result>>
      BY <1>4 DEF LoadIndex, disk, server
    <2>2. \A v \in Workers : old'[v] \in {old[v], index, None}
      BY <1>4, OpenedIs DEF LoadIndex, TypeOK
    <2>3. pc' = [pc EXCEPT ![w] = "build"]
      BY <1>4 DEF LoadIndex, GoTo
    <2>4. Apart
      BY <1>10, <2>3 DEF Stages
    <2>5. Sound(reader)' /\ Sound(index)'
          /\ \A v \in Workers : Sound(old[v])' /\ Sound(built[v])' /\ Sound(result[v])'
      BY <1>0, <2>1, <2>2 DEF Grounded, Sound
    <2> QED
      BY <1>0, <2>4, <2>5 DEF Apart
  <1>5. ASSUME NEW w \in Workers, Build(w) PROVE GroundedInv'
    <2>1. UNCHANGED <<reader, index, result>> /\ head \in Commits
      BY <1>5 DEF Build, disk, server, TypeOK
    <2>2. \A v \in Workers :
            /\ old'[v] \in {old[v], None}
            /\ built'[v] \in {built[v], FileList(mani[w], old[w], TreeOf[head])}
      BY <1>5 DEF Build, TypeOK
    <2>3. Sound(FileList(mani[w], old[w], TreeOf[head]))
      <3>1. mani[w] \in OptTrees /\ old[w] \in Images /\ old[w] # Torn
        BY DEF TypeOK, Sound
      <3>2. FileList(mani[w], old[w], TreeOf[head]) # Torn
        BY <2>1, <3>1, FileListTree, CommitTree
      <3> QED
        BY <2>1, <3>2, FileListGrounded DEF Sound
    <2>4. \A v \in Workers : Sound(old'[v]) /\ Sound(built'[v])
      BY <1>0, <2>2, <2>3
    <2>5. pc' = [pc EXCEPT ![w] = "write"]
      BY <1>5 DEF Build, GoTo
    <2>6. Apart
      BY <1>10, <2>5 DEF Stages
    <2> QED
      BY <1>0, <2>1, <2>4, <2>6 DEF Grounded, Sound, Apart
  <1>6. ASSUME NEW w \in Workers, WriteIndex(w) PROVE GroundedInv'
    <2>1. UNCHANGED <<reader, old, result>> /\ index' = built[w]
          /\ pc' = [pc EXCEPT ![w] = "rewalk"]
      BY <1>6 DEF WriteIndex, GoTo, server
    <2>2. \A v \in Workers : built'[v] \in {built[v], None}
      BY <1>6 DEF WriteIndex, TypeOK
    <2>3. Apart
      BY <1>10, <2>1 DEF Stages
    <2> QED
      BY <1>0, <2>1, <2>2, <2>3 DEF Grounded, Sound, Apart
  <1>7. ASSUME NEW w \in Workers, Return(w) \/ Fail(w) \/ FailMixed(w) \/ Bail(w)
        PROVE  GroundedInv'
    <2>1. index' = index /\ reader' \in {reader, result[w]}
      BY <1>7 DEF Return, Fail, FailMixed, Bail, Leave, disk
    <2>2. \A v \in Workers : /\ old'[v] \in {old[v], None}
                             /\ built'[v] \in {built[v], None}
                             /\ result'[v] \in {result[v], None}
      BY <1>7 DEF Return, Fail, FailMixed, Bail, Leave, TypeOK
    <2>3. Apart
      BY <1>7 DEF Return, Fail, FailMixed, Bail, Leave, TypeOK, Apart
    <2> QED
      BY <1>0, <2>1, <2>2, <2>3 DEF Grounded, Sound, Apart
  <1>8. CASE Push \/ Timeout \/ Shutdown \/ UNCHANGED vars
    <2>1. Kept /\ pc' = pc
      BY <1>8 DEF Push, Timeout, Shutdown, vars, disk, server, locals
    <2> QED
      BY <1>1, <2>1 DEF Apart
  <1>9. CASE Restart \/ Crash
    <2>1. index' = index /\ reader' \in {index, None}
          /\ \A v \in Workers : pc'[v] = "idle"
      BY <1>9, OpenedIs DEF Restart, Crash, Boot, disk
    <2>2. \A v \in Workers : old'[v] = None /\ built'[v] = None /\ result'[v] = None
      BY <1>9 DEF Restart, Crash, Boot, Nothing
    <2> QED
      BY <1>0, <2>1, <2>2 DEF Grounded, Sound
  <1> QED
    BY <1>2, <1>3, <1>4, <1>5, <1>6, <1>7, <1>8, <1>9 DEF Next, Step

\* The initial state holds no content at all.
LEMMA GroundedInit ==
  Init => GroundedInv
  <1> SUFFICES ASSUME Init PROVE GroundedInv
    OBVIOUS
  <1>1. \A w \in Workers : old[w] = None /\ built[w] = None /\ result[w] = None
    BY DEF Init, Nothing
  <1>2. Sound(None)
    BY CommitTree DEF Sound, Grounded
  <1> QED
    BY <1>1, <1>2, TypeInit DEF Init, GroundedInv

\* Under every fault and any overlap of runs but that of two inside
\* write_index, searches never show a file with a content it has in no commit,
\* nor one the filters should have kept out.
THEOREM OnlyOwnContent == Spec => []NoForeignContent
  <1>1. Init => UntilOverlap
    BY TypeInit, GroundedInit DEF UntilOverlap
  <1>2. UntilOverlap /\ [Next]_vars => UntilOverlap'
    BY TypeStep, GroundedStep, HappenedStays DEF UntilOverlap
  <1>3. UntilOverlap => NoForeignContent
    BY DEF UntilOverlap, GroundedInv, Sound, NoForeignContent
  <1> QED
    BY <1>1, <1>2, <1>3, PTL DEF Spec

-----------------------------------------------------------------------------
(***************************************************************************)
(* A searchable repository stays searchable, under every fault.            *)
(***************************************************************************)

\* A reader implies an index on disk for the next process to pre-load, and
\* a run that has come far enough has an index to return.
ServingInv ==
    /\ TypeOK
    /\ reader # None => index # None
    /\ \A w \in Workers :
        /\ pc[w] \in {"rewalk", "save", "reopen", "return"} => index # None
        /\ pc[w] \in {"write", "writing", "mixed"} => built[w] # None
        /\ pc[w] = "return" => result[w] # None

\* A run that goes on keeps the invariant if it keeps its own part of it.
LEMMA RunServing ==
  ASSUME ServingInv, NEW w \in Workers, NEW to, TypeOK', reader' = reader,
         pc' = [pc EXCEPT ![w] = to], index # None => index' # None,
         \A v \in Workers \ {w} : built'[v] = built[v] /\ result'[v] = result[v],
         to \in {"rewalk", "save", "reopen", "return"} => index' # None,
         to \in {"write", "writing", "mixed"} => built'[w] # None,
         to = "return" => result'[w] # None
  PROVE  ServingInv'
  <1>1. pc'[w] = to /\ \A v \in Workers \ {w} : pc'[v] = pc[v]
    BY DEF ServingInv, TypeOK
  <1> QED
    BY <1>1 DEF ServingInv

\* Every step, and every fault, keeps the invariant, and none but the start of a
\* process takes the reader away.
LEMMA ServingStep ==
  ASSUME ServingInv, [Next]_vars
  PROVE  /\ ServingInv'
         /\ reader # None => index' # None /\ (reader' = None => Restart \/ Crash)
  <1>0. TypeOK /\ TypeOK'
    BY TypeStep DEF ServingInv
  <1>1. ASSUME NEW w \in Workers,
               Start(w) \/ OpenClone(w) \/ InitClone(w) \/ CloneFetch(w) \/ Fetch(w)
               \/ LoadManifest(w) \/ LoadIndex(w)
        PROVE  ServingInv' /\ reader' = reader
    <2>1. UNCHANGED <<reader, index, built, result>>
      BY <1>1 DEF Start, OpenClone, InitClone, CloneFetch, Fetch, LoadManifest,
                  LoadIndex, disk, server, locals
    <2>2. PICK to \in {"open", "fetch", "clone", "plan", "reuse", "openold", "build"} :
            pc' = [pc EXCEPT ![w] = to]
      BY <1>1 DEF Start, OpenClone, InitClone, CloneFetch, Fetch, LoadManifest,
                  LoadIndex, GoTo
    <2> QED
      BY <1>0, <2>1, <2>2, RunServing
  <1>2. ASSUME NEW w \in Workers, Reuse(w) PROVE ServingInv' /\ reader' = reader
    <2>1. UNCHANGED <<reader, index, built>>
          /\ \A v \in Workers \ {w} : result'[v] = result[v]
      BY <1>0, <1>2 DEF Reuse, disk, server, TypeOK
    <2>2. PICK to \in {"return", "plan"} :
            /\ pc' = [pc EXCEPT ![w] = to]
            /\ to = "return" => index # None /\ result'[w] = index
      BY <1>0, <1>2 DEF Reuse, GoTo, TypeOK
    <2> QED
      BY <1>0, <2>1, <2>2, RunServing
  <1>3. ASSUME NEW w \in Workers, Build(w) PROVE ServingInv' /\ reader' = reader
    <2>1. UNCHANGED <<reader, index, result>> /\ pc' = [pc EXCEPT ![w] = "write"]
      BY <1>3 DEF Build, GoTo, disk, server
    <2>2. TreeOf[head] \in Trees
      BY <1>0, <1>3, CommitTree DEF Build, TypeOK
    <2>3. FileList(mani[w], old[w], TreeOf[head]) # None
      BY <1>0, <2>2, FileListTree DEF TypeOK
    <2>4. built'[w] # None /\ \A v \in Workers \ {w} : built'[v] = built[v]
      BY <1>0, <1>3, <2>3 DEF Build, TypeOK
    <2> QED
      BY <1>0, <2>1, <2>4, RunServing
  <1>4. ASSUME NEW w \in Workers, WriteIndex(w) PROVE ServingInv' /\ reader' = reader
    <2>1. UNCHANGED <<reader, result>> /\ pc' = [pc EXCEPT ![w] = "rewalk"]
          /\ index' \in {built[w], Torn} /\ pc[w] \in {"writing", "mixed"}
          /\ \A v \in Workers \ {w} : built'[v] = built[v]
      BY <1>0, <1>4 DEF WriteIndex, GoTo, server, TypeOK
    <2>2. index' # None
      BY <2>1, CommitTree DEF ServingInv
    <2> QED
      BY <1>0, <2>1, <2>2, RunServing
  <1>10. ASSUME NEW w \in Workers, StartWrite(w) PROVE ServingInv' /\ reader' = reader
    <2>1. UNCHANGED <<reader, index, built, result>>
      BY <1>10 DEF StartWrite, disk, server, locals
    <2>2. ASSUME NEW v \in Workers
          PROVE  \/ pc'[v] = pc[v]
                 \/ /\ pc'[v] \in {"writing", "mixed"}
                    /\ pc[v] \in {"write", "writing", "mixed"}
      BY <1>0, <1>10 DEF StartWrite, Writing, TypeOK
    <2> QED
      BY <1>0, <2>1, <2>2 DEF ServingInv
  <1>5. ASSUME NEW w \in Workers, WalkManifest(w) \/ SaveManifest(w)
        PROVE  ServingInv' /\ reader' = reader
    <2>1. UNCHANGED <<reader, index, built, result>> /\ pc[w] \in {"rewalk", "save"}
      BY <1>5 DEF WalkManifest, SaveManifest, GoTo, disk, server
    <2>2. PICK to \in {"save", "reopen"} : pc' = [pc EXCEPT ![w] = to]
      BY <1>5 DEF WalkManifest, SaveManifest, GoTo
    <2>3. index # None
      BY <2>1 DEF ServingInv
    <2> QED
      BY <1>0, <2>1, <2>2, <2>3, RunServing
  <1>6. ASSUME NEW w \in Workers, Reopen(w) PROVE ServingInv' /\ reader' = reader
    <2>1. UNCHANGED <<reader, index>> /\ pc' = [pc EXCEPT ![w] = "return"]
          /\ pc[w] = "reopen"
      BY <1>6 DEF Reopen, GoTo, disk, server
    <2>2. result'[w] = index
          /\ \A v \in Workers \ {w} : built'[v] = built[v] /\ result'[v] = result[v]
      BY <1>0, <1>6 DEF Reopen, TypeOK
    <2>3. index # None
      BY <2>1 DEF ServingInv
    <2> QED
      BY <1>0, <2>1, <2>2, <2>3, RunServing
  <1>7. ASSUME NEW w \in Workers, Return(w) \/ Fail(w) \/ FailMixed(w) \/ Bail(w)
        PROVE  ServingInv' /\ (reader # None => reader' # None)
    <2>1. index' = index /\ Leave(w)
      BY <1>7 DEF Return, Fail, FailMixed, Bail, Leave, disk
    <2>2. pc'[w] = "idle" /\ \A v \in Workers \ {w} :
            pc'[v] = pc[v] /\ built'[v] = built[v] /\ result'[v] = result[v]
      BY <1>0, <2>1 DEF Leave, TypeOK
    <2>3. reader' = reader \/ (pc[w] = "return" /\ reader' = result[w])
      BY <1>7 DEF Return, Fail, FailMixed, Bail
    <2>4. (reader # None => reader' # None) /\ (reader' # None => index' # None)
      BY <2>1, <2>3 DEF ServingInv
    <2> QED
      BY <1>0, <2>1, <2>2, <2>4 DEF ServingInv
  <1>8. ASSUME Push \/ Timeout \/ Shutdown \/ UNCHANGED vars
        PROVE  ServingInv' /\ reader' = reader
    <2>1. UNCHANGED <<reader, index, pc, built, result>>
      BY <1>8 DEF Push, Timeout, Shutdown, vars, disk, server, locals
    <2> QED
      BY <1>0, <2>1 DEF ServingInv
  <1>9. ASSUME Restart \/ Crash PROVE ServingInv'
    <2>1. index' = index /\ reader' \in {index, None}
          /\ \A v \in Workers : pc'[v] = "idle"
      BY <1>9, OpenedIs DEF Restart, Crash, Boot, disk
    <2> QED
      BY <1>0, <2>1 DEF ServingInv
  <1>11. ServingInv'
    BY <1>1, <1>2, <1>3, <1>4, <1>5, <1>6, <1>7, <1>8, <1>9, <1>10 DEF Next, Step
  <1>12. reader # None /\ reader' = None => Restart \/ Crash
    BY <1>1, <1>2, <1>3, <1>4, <1>5, <1>6, <1>7, <1>8, <1>10 DEF Next, Step, vars, server
  <1>13. index # None => index' # None
    <2>1. ASSUME NEW w \in Workers, WriteIndex(w) PROVE index' # None
      BY <2>1, CommitTree DEF WriteIndex, GoTo, ServingInv
    <2>2. ASSUME NEW w \in Workers, Step(w), ~WriteIndex(w) PROVE index' = index
      BY <2>2 DEF Step, OpenClone, InitClone, CloneFetch, Fetch, Reuse, LoadManifest,
                  LoadIndex, Build, StartWrite, WalkManifest, SaveManifest, Reopen,
                  Return, FailMixed, Bail, Leave, disk
    <2>3. CASE index' = index
      BY <2>3
    <2> QED
      BY <2>1, <2>2, <2>3 DEF Next, Start, Fail, Leave, Push, Timeout, Shutdown,
                              Restart, Crash, Boot, vars, disk
  <1> QED
    BY <1>11, <1>12, <1>13 DEF ServingInv

\* Nothing is served at first.
LEMMA ServingInit ==
  Init => ServingInv
  BY TypeInit DEF Init, ServingInv

\* Once a repository is searchable it stays searchable through failed, abandoned
\* and overlapping runs, and a new process finds an index to open.
THEOREM StaysSearchable == Spec => KeepServing
  <1>1. ServingInv /\ [Next]_vars => ServingInv'
    BY ServingStep
  <1>2. ServingInv /\ [Next]_vars
          => [reader # None => index' # None /\ (reader' = None => Restart \/ Crash)]_vars
    BY ServingStep
  <1> QED
    BY <1>1, <1>2, ServingInit, PTL DEF Spec, KeepServing

-----------------------------------------------------------------------------
(***************************************************************************)
(* Until the first fault: a run returns the index of the commit it has     *)
(* fetched, and without faults the pipeline implements the safety part of  *)
(* RepoMirror.                                                             *)
(***************************************************************************)

\* The stages in which a run has not looked at the tree of HEAD yet.
Quiet == {"idle", "open", "clone", "fetch", "reuse"}

\* The index on disk is that of the commit fetched last.
Fresh == head # None /\ index = Indexed(TreeOf[head])

\* Until the first fault, the index is that of HEAD whenever no run is beyond
\* the comparison of the heads: this is what makes `HEAD unchanged' a reason
\* to return it.
Faithful ==
    /\ ErrorsInv
    /\ (\A w \in Workers : pc[w] \in Quiet) /\ index # None => Fresh
    /\ \A w \in Workers : pc[w] = "return" => Fresh /\ result[w] = index

UntilFault == TypeOK /\ (NoFaults => Faithful)

\* A step after which nothing has gone wrong is faultless, and so were all
\* before it.
LEMMA Faultless ==
  ASSUME NoFaults'
  PROVE  /\ \A k : ~Fault(k)
         /\ ~Crash
         /\ NoFault \/ UNCHANGED vars => NoFaults
         /\ OnlyErrors'
  BY DEF NoFaults, OnlyErrors, Fault, Happen, NoFault, vars, Crash, Boot

\* Runs that do not overlap do not fail through each other.
LEMMA NoMixture ==
  ASSUME ErrorsInv, NEW w \in Workers
  PROVE  ~FailMixed(w)
  <1>1. SUFFICES ASSUME FailMixed(w) PROVE FALSE
    OBVIOUS
  <1>2. pc[w] = "reopen" /\ index = Torn
    BY <1>1 DEF FailMixed, ErrorsInv, Knows
  <1>3. head \in Commits /\ index = Indexed(TreeOf[head])
    BY <1>2 DEF ErrorsInv, Knows, HasHead, TypeOK
  <1> QED
    BY <1>2, <1>3, IndexedTree, CommitTree

\* A run that goes on without reaching its end or the files.
LEMMA RunFaithful ==
  ASSUME Faithful, ErrorsInv', NEW w \in Workers, NEW to, to # "return",
         pc' = [pc EXCEPT ![w] = to], pc[w] # "idle", attached = w,
         to \in Quiet => pc[w] \in Quiet /\ UNCHANGED <<index, head>>
  PROVE  Faithful'
  <1>1. pc'[w] = to /\ \A v \in Workers \ {w} : pc[v] = "idle" /\ pc'[v] = "idle"
    BY DEF Faithful, ErrorsInv, Solo, TypeOK
  <1>2. ASSUME \A v \in Workers : pc'[v] \in Quiet, index' # None
        PROVE  Fresh'
    <2>1. to \in Quiet
      BY <1>1, <1>2
    <2>2. \A v \in Workers : pc[v] \in Quiet
      BY <1>1, <2>1 DEF Quiet
    <2> QED
      BY <1>2, <2>1, <2>2 DEF Faithful, Fresh
  <1> QED
    BY <1>1, <1>2 DEF Faithful

\* Every faultless step keeps the invariant.
LEMMA FaithfulStep ==
  ASSUME NoFaults', Faithful, [Next]_vars
  PROVE  Faithful'
  <1>0. ErrorsInv /\ ErrorsInv' /\ TypeOK /\ TypeOK' /\ ~cancel
    BY Faultless, ErrorsStep DEF Faithful, ErrorsInv, Solo
  <1>1. ASSUME NEW w \in Workers, Start(w) PROVE Faithful'
    <2>1. attached = None /\ pc' = [pc EXCEPT ![w] = "open"]
          /\ UNCHANGED <<index, head, result>>
      BY <1>1 DEF Start, GoTo, disk, locals
    <2>2. \A v \in Workers : pc[v] = "idle" /\ pc'[v] \in {"idle", "open"}
      BY <1>0, <2>1, CommitTree DEF ErrorsInv, Solo, TypeOK
    <2> QED
      BY <1>0, <2>1, <2>2 DEF Faithful, Fresh, Quiet
  <1>2. ASSUME NEW w \in Workers, pc[w] # "idle" PROVE attached = w
    BY <1>0, <1>2 DEF ErrorsInv, Solo
  <1>3. ASSUME NEW w \in Workers,
               OpenClone(w) \/ InitClone(w) \/ CloneFetch(w) \/ Fetch(w)
        PROVE  Faithful'
    <2>1. PICK to \in {"fetch", "clone", "plan", "reuse"} :
            /\ pc' = [pc EXCEPT ![w] = to]
            /\ pc[w] \in Quiet \ {"idle"}
            /\ to \in Quiet => UNCHANGED <<index, head>>
      BY <1>3 DEF OpenClone, InitClone, CloneFetch, Fetch, GoTo, Quiet, disk
    <2> QED
      BY <1>0, <1>2, <2>1, RunFaithful DEF Quiet
  <1>4. ASSUME NEW w \in Workers, Reuse(w) PROVE Faithful'
    <2>1. UNCHANGED <<index, head>> /\ pc[w] = "reuse"
          /\ \A v \in Workers \ {w} : pc[v] = "idle"
      BY <1>0, <1>2, <1>4 DEF Reuse, GoTo, disk, ErrorsInv, Solo
    <2>2. CASE pc' = [pc EXCEPT ![w] = "plan"]
      BY <1>0, <1>2, <2>1, <2>2, RunFaithful DEF Quiet
    <2>3. CASE pc' = [pc EXCEPT ![w] = "return"] /\ index # None
               /\ result' = [result EXCEPT ![w] = index]
      <3>1. Fresh
        BY <2>1, <2>3 DEF Faithful, Quiet
      <3>2. pc'[w] = "return" /\ result'[w] = index
            /\ \A v \in Workers \ {w} : pc'[v] = "idle"
        BY <1>0, <2>1, <2>3 DEF TypeOK
      <3> QED
        BY <1>0, <2>1, <3>1, <3>2 DEF Faithful, Fresh, Quiet
    <2> QED
      BY <1>4, <2>2, <2>3, Faultless DEF Reuse, GoTo
  <1>5. ASSUME NEW w \in Workers,
               LoadManifest(w) \/ LoadIndex(w) \/ Build(w) \/ StartWrite(w)
               \/ WriteIndex(w) \/ WalkManifest(w) \/ SaveManifest(w)
        PROVE  Faithful'
    <2>1. pc[w] # "idle" /\ \E to \in Stages \ (Quiet \cup {"return"}) :
            pc' = [pc EXCEPT ![w] = to]
      BY <1>5, Faultless DEF LoadManifest, LoadIndex, Build, StartWrite, WriteIndex,
                  WalkManifest, SaveManifest, GoTo, Stages, Quiet
    <2> QED
      BY <1>0, <1>2, <2>1, RunFaithful
  <1>6. ASSUME NEW w \in Workers, Reopen(w) PROVE Faithful'
    <2>1. UNCHANGED <<index, head>> /\ pc[w] = "reopen"
          /\ pc' = [pc EXCEPT ![w] = "return"]
          /\ \A v \in Workers \ {w} : pc[v] = "idle"
      BY <1>0, <1>2, <1>6 DEF Reopen, GoTo, disk, ErrorsInv, Solo
    <2>2. Fresh
      BY <1>0, <2>1 DEF ErrorsInv, Knows, HasHead, Fresh
    <2>3. pc'[w] = "return" /\ result'[w] = index
          /\ \A v \in Workers \ {w} : pc'[v] = "idle"
      BY <1>0, <1>6, <2>1 DEF Reopen, TypeOK
    <2> QED
      BY <1>0, <2>1, <2>2, <2>3 DEF Faithful, Fresh, Quiet
  <1>7. ASSUME NEW w \in Workers, Return(w) PROVE Faithful'
    <2>1. UNCHANGED <<index, head>> /\ pc[w] = "return"
          /\ pc' = [pc EXCEPT ![w] = "idle"]
          /\ \A v \in Workers \ {w} : pc[v] = "idle"
      BY <1>0, <1>2, <1>7 DEF Return, Leave, disk, ErrorsInv, Solo
    <2>2. Fresh
      BY <2>1 DEF Faithful
    <2>3. \A v \in Workers : pc'[v] = "idle"
      BY <1>0, <2>1 DEF TypeOK
    <2> QED
      BY <1>0, <2>1, <2>2, <2>3 DEF Faithful, Fresh, Quiet
  <1>8. /\ \A w \in Workers : ~Fail(w) /\ ~FailMixed(w) /\ ~Bail(w)
        /\ ~Timeout /\ ~Shutdown /\ ~Restart /\ ~Crash
    BY <1>0, NoMixture, Faultless DEF Fail, Bail, Timeout, Shutdown, Restart
  <1>9. CASE Push \/ UNCHANGED vars
    <2>1. UNCHANGED <<index, head, pc, result>>
      BY <1>9 DEF Push, vars, disk, locals
    <2> QED
      BY <1>0, <2>1 DEF Faithful, Fresh
  <1> QED
    BY <1>1, <1>3, <1>4, <1>5, <1>6, <1>7, <1>8, <1>9 DEF Next, Step

\* Before a state without faults there was one.
LEMMA StillFaultless ==
  ASSUME [Next]_vars, NoFaults'
  PROVE  NoFaults
  BY HappenedStays DEF NoFaults

\* The invariant holds at first and until the first fault.
LEMMA UntilFaultInv ==
  /\ Init => UntilFault
  /\ UntilFault /\ [Next]_vars => UntilFault'
  <1>1. ASSUME Init PROVE UntilFault
    <2>1. ErrorsInv
      BY <1>1, ErrorsInit
    <2>2. \A w \in Workers : pc[w] = "idle"
      BY <1>1 DEF Init
    <2> QED
      BY <1>1, <2>1, <2>2 DEF UntilFault, Faithful, ErrorsInv, Init
  <1>2. ASSUME UntilFault, [Next]_vars PROVE UntilFault'
    BY <1>2, TypeStep, StillFaultless, FaithfulStep DEF UntilFault
  <1> QED
    BY <1>1, <1>2

\* Until the first fault every run returns exactly the index of the commit it
\* has fetched, rebuilt or reused.
THEOREM ReturnsWhatItFetched == Spec => []ResultIsHead
  <1>1. UntilFault => ResultIsHead
    BY DEF UntilFault, Faithful, Fresh, ResultIsHead, ReturnsHead
  <1> QED
    BY <1>1, UntilFaultInv, PTL DEF Spec

\* Where faults do not happen they have not happened.
LEMMA NothingHappens ==
  ASSUME Faults = {}
  PROVE  /\ Init => NoFaults
         /\ NoFaults /\ [Next]_vars => NoFaults'
  <1>1. \A k : ~Fault(k)
    BY DEF Fault, Happen
  <1>2. ASSUME NEW w \in Workers, Step(w) PROVE NoFault
    BY <1>1, <1>2
       DEF Step, OpenClone, InitClone, CloneFetch, Fetch, Reuse, LoadManifest,
           LoadIndex, Build, StartWrite, WriteIndex, WalkManifest, SaveManifest,
           Reopen, Return, FailMixed, Bail
  <1>3. (Restart => NoFault) /\ ~Crash
    BY DEF Restart, Crash, Boot, Happen, NoFault
  <1>4. [Next]_vars => NoFault \/ UNCHANGED vars
    BY <1>1, <1>2, <1>3 DEF Next, Start, Fail, Push, Timeout, Shutdown
  <1> QED
    BY <1>4 DEF Init, NoFaults, NoFault, vars

\* Every step of the pipeline is a step of the mirror or a stutter: a fetch
\* sees the remote, a returning run serves the commit seen.
LEMMA MirrorStep ==
  ASSUME NoFaults, NoFaults', UntilFault, [Next]_vars
  PROVE  [Mirror!Next]_(Mirror!mirrorVars)
  <1> USE DEF Mirror!mirrorVars
  <1>0. Faithful /\ TypeOK /\ ~cancel /\ \A k : ~Fault(k)
    BY Faultless DEF UntilFault, Faithful, ErrorsInv, Solo
  <1>1. ASSUME NEW w \in Workers,
               Start(w) \/ OpenClone(w) \/ InitClone(w) \/ Reuse(w) \/ LoadManifest(w)
               \/ LoadIndex(w) \/ Build(w) \/ StartWrite(w) \/ WriteIndex(w)
               \/ WalkManifest(w) \/ SaveManifest(w) \/ Reopen(w)
        PROVE  UNCHANGED <<remote, head, reader>>
    BY <1>1 DEF Start, OpenClone, InitClone, Reuse, LoadManifest, LoadIndex, Build,
                StartWrite, WriteIndex, WalkManifest, SaveManifest, Reopen, disk, server
  <1>2. ASSUME NEW w \in Workers, CloneFetch(w) \/ Fetch(w) PROVE Mirror!See
    BY <1>2 DEF CloneFetch, Fetch, server, Mirror!See
  <1>3. ASSUME NEW w \in Workers, Return(w)
        PROVE  Mirror!Serve
    <2>1. attached = w /\ pc[w] = "return"
      BY <1>0, <1>3 DEF Return, Faithful, ErrorsInv, Solo
    <2>2. head # None /\ result[w] = Indexed(TreeOf[head]) /\ head \in Commits
      BY <1>0, <2>1 DEF Faithful, Fresh, TypeOK
    <2>3. reader' = Indexed(TreeOf[head]) /\ UNCHANGED <<remote, head>>
      BY <1>3, <2>1, <2>2 DEF Return, Leave, disk
    <2> QED
      BY <2>2, <2>3 DEF Mirror!Serve
  <1>4. CASE Push
    BY <1>4 DEF Push, disk, server, Mirror!Push, Mirror!Next
  <1>5. /\ \A w \in Workers : ~Fail(w) /\ ~FailMixed(w) /\ ~Bail(w)
        /\ ~Timeout /\ ~Shutdown /\ ~Restart /\ ~Crash
    BY <1>0, NoMixture, Faultless DEF Faithful, Fail, Bail, Timeout, Shutdown, Restart
  <1>6. CASE UNCHANGED vars
    BY <1>6 DEF vars, disk, server
  <1> QED
    BY <1>1, <1>2, <1>3, <1>4, <1>5, <1>6 DEF Next, Step, Mirror!Next

\* Without faults the pipeline implements the mirror: what is served is at any
\* time the content of a commit that was seen, and the commit served last is
\* replaced only by the commit seen last.
THEOREM PipelineMirrors ==
  ASSUME Faults = {}
  PROVE  Spec => Mirror!SafeSpec
  <1>1. Init => Mirror!Init
    BY DEF Init, Mirror!Init
  <1>2. /\ Init => NoFaults
        /\ NoFaults /\ [Next]_vars => NoFaults'
    BY NothingHappens
  <1>3. NoFaults /\ NoFaults' /\ UntilFault /\ [Next]_vars
          => [Mirror!Next]_(Mirror!mirrorVars)
    BY MirrorStep
  <1> QED
    BY <1>1, <1>2, <1>3, UntilFaultInv, PTL DEF Spec, Mirror!SafeSpec

=============================================================================
