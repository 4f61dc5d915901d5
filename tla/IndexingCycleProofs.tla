------------------------- MODULE IndexingCycleProofs ------------------------
(***************************************************************************)
(* What IndexingCycle promises, for any number of repositories, permits    *)
(* and cycles, for the server and for start_watcher of the library.        *)
(***************************************************************************)
EXTENDS IndexingCycle, FiniteSetTheorems, TLAPS

\* A task that runs awaits a thread.
Awaited == \A r \in Repos : task[r] = "running" => threads[r] >= 1

\* Every variable keeps its type; above all, no thread ends twice.
THEOREM TypeCorrect == Spec => [](TypeOK /\ Awaited)
<1> DEFINE TypeInv == TypeOK /\ Awaited
<1> USE IndexingCycleConstants
<1>1. Init => TypeInv
  <2> SUFFICES ASSUME Init PROVE TypeInv
    OBVIOUS
  <2>1. Fresh /\ status \in [Repos -> {"untracked", "pending", "ready"}]
    BY DEF Init, ServerInit, WatcherInit
  <2>2. readers \in Readers
    BY <2>1 DEF Fresh, Readers
  <2>3. stage \in Stages /\ cycle \in 1..MaxCycles /\ next \in 1..NumRepos + 1
    BY <2>1 DEF Fresh, Stages
  <2>4. task \in [Repos -> Tasks] /\ threads \in [Repos -> Nat] /\ Awaited
    BY <2>1 DEF Fresh, NoTasks, Tasks, Awaited
  <2>5. signals = 0 /\ cancelled = FALSE /\ timedOut = FALSE /\ merged = readers
    BY Zenon, <2>1 DEF Fresh
  <2>6. signals \in 0..2 /\ merged \in Readers
    BY <2>2, <2>5
  <2>7. cancelled \in BOOLEAN /\ timedOut \in BOOLEAN
    BY Zenon, <2>5
  <2>8. status \in [Repos -> {"untracked", "pending", "indexing", "ready", "failed"}]
    BY <2>1
  <2> QED
    BY Zenon, <2>2, <2>3, <2>4, <2>6, <2>7, <2>8 DEF TypeOK
<1>2. TypeInv /\ [Next]_vars => TypeInv'
  <2> SUFFICES ASSUME TypeInv, [Next]_vars PROVE TypeInv'
    OBVIOUS
  <2> USE DEF TypeOK, Awaited, Repos, Stages, Tasks, Readers, NoTasks, watch, shutdown, work, state
  <2>1. CASE Spawn
    BY <2>1 DEF Spawn, Marked
  <2>2. CASE StartCollecting
    BY <2>2 DEF StartCollecting
  <2>3. CASE CollectOk
    BY <2>3 DEF CollectOk, Marked
  <2>4. CASE CollectErr
    BY <2>4 DEF CollectErr, Marked
  <2>5. CASE EndCollecting \/ SwapReaders \/ Finish
    BY <2>5 DEF EndCollecting, SwapReaders, Finish
  <2>6. CASE Poll
    BY <2>6 DEF Poll
  <2>7. CASE AbortTask
    BY <2>7 DEF AbortTask
  <2>8. CASE ReturnEarly \/ DropCycle \/ Leave \/ Exit \/ Cancel
    BY <2>8 DEF ReturnEarly, DropCycle, Leave, Exit, Cancel
  <2>9. ASSUME NEW r \in Repos, Acquire(r) PROVE TypeInv'
    BY <2>9 DEF Acquire
  <2>10. ASSUME NEW r \in Repos, ThreadEnds(r) PROVE TypeInv'
    BY <2>10 DEF ThreadEnds
  <2>11. ASSUME NEW r \in Repos, TimeOut(r) PROVE TypeInv'
    BY <2>11 DEF TimeOut
  <2>12. ASSUME NEW r \in Repos, StrayEnds(r) PROVE TypeInv'
    BY <2>12 DEF StrayEnds
  <2>13. CASE Signal \/ Exited \/ UNCHANGED vars
    BY <2>13 DEF Signal, Exited, vars
  <2>14. CASE SecondSignal
    BY <2>14 DEF SecondSignal
  <2> QED
    BY <2>1, <2>2, <2>3, <2>4, <2>5, <2>6, <2>7, <2>8, <2>9, <2>10, <2>11, <2>12,
       <2>13, <2>14 DEF Next, Watch
<1> QED
  BY <1>1, <1>2, PTL DEF Spec

-----------------------------------------------------------------------------
Ended(r) == task[r] \in {"ok", "err"}

\* Where a cycle is: what is not yet spawned has no task, what is collected has
\* ended or was aborted, and a cycle that was not cut short has collected everything;
\* only a shutdown ends the watcher.
Progress ==
    /\ stage = "spawn" => \A r \in Repos : r >= next => task[r] = "none"
    /\ stage = "collect" => \A r \in Repos : r < next =>
         Ended(r) \/ (cancelled /\ task[r] = "none")
    /\ stage \in {"swap", "clear", "sleep"} => \A r \in Repos : Ended(r)
    /\ stage \in {"off", "down"} => cancelled

\* Without a timeout the threads are those the tasks await; during a shutdown
\* there may be one of an aborted task besides, which nobody starts again.
Threads ==
    ~timedOut => \A r \in Repos :
        /\ threads[r] <= 1
        /\ task[r] = "waiting" => threads[r] = 0
        /\ ~cancelled /\ task[r] # "running" => threads[r] = 0

Permits == Cardinality(Holding) <= MaxConcurrent

\* The repositories that hold a permit are finitely many.
LEMMA HoldingFinite == IsFiniteSet(Holding) /\ Cardinality(Holding) \in Nat
<1>1. IsFiniteSet(Repos)
  BY IndexingCycleConstants, FS_Interval DEF Repos
<1>2. Holding \in SUBSET Repos
  BY DEF Holding
<1> QED
  BY <1>1, <1>2, FS_Subset, FS_CardinalityType

\* A repository is never indexed twice at a time, and there are never more runs
\* than permits, over all cycles, until a run times out or the server shuts
\* down.  The next cycle finds no thread of the last one: that is Progress, a
\* cycle being over only when each of its tasks has ended.
THEOREM RunsAreLimited ==
    Spec => [](OneRunPerRepo /\ ConcurrencyLimit /\ Progress /\ Threads /\ Permits)
<1> DEFINE Inv == Progress /\ Threads /\ Permits
<1> USE IndexingCycleConstants
<1>1. Init => Inv
  <2> SUFFICES ASSUME Init PROVE Inv
    OBVIOUS
  <2>1. Progress /\ Threads
    BY DEF Init, ServerInit, WatcherInit, Fresh, Progress, Threads, Repos, NoTasks
  <2>2. Holding = {}
    BY DEF Init, ServerInit, WatcherInit, Fresh, Holding, NoTasks
  <2>3. Permits
    BY <2>2, FS_EmptySet DEF Permits
  <2> QED
    BY <2>1, <2>3
<1>2. TypeOK /\ Awaited /\ Progress /\ Threads /\ [Next]_vars => (Progress /\ Threads)'
  <2> SUFFICES ASSUME TypeOK, Awaited, Progress, Threads, [Next]_vars
               PROVE  (Progress /\ Threads)'
    OBVIOUS
  <2> USE DEF TypeOK, Awaited, Repos, Tasks, NoTasks, watch, shutdown, work, state, Progress,
              Ended, Threads
  <2>1. CASE Spawn
    BY <2>1 DEF Spawn
  <2>2. CASE StartCollecting
    BY <2>2 DEF StartCollecting
  <2>3. CASE CollectOk \/ CollectErr
    BY SMTT(30), <2>3 DEF CollectOk, CollectErr
  <2>4. CASE EndCollecting \/ SwapReaders \/ Finish
    BY <2>4 DEF EndCollecting, SwapReaders, Finish
  <2>5. CASE Poll
    BY <2>5 DEF Poll
  <2>6. CASE AbortTask
    BY <2>6 DEF AbortTask
  <2>7. CASE ReturnEarly \/ DropCycle \/ Leave \/ Exit \/ Cancel
    BY <2>7 DEF ReturnEarly, DropCycle, Leave, Exit, Cancel
  <2>8. ASSUME NEW r \in Repos, Acquire(r) PROVE (Progress /\ Threads)'
    BY <2>8 DEF Acquire
  <2>9. ASSUME NEW r \in Repos, ThreadEnds(r) PROVE (Progress /\ Threads)'
    BY <2>9 DEF ThreadEnds
  <2>10. ASSUME NEW r \in Repos, TimeOut(r) PROVE (Progress /\ Threads)'
    BY <2>10 DEF TimeOut
  <2>11. ASSUME NEW r \in Repos, StrayEnds(r) PROVE (Progress /\ Threads)'
    BY <2>11 DEF StrayEnds
  <2>12. CASE Signal \/ Exited \/ UNCHANGED vars
    BY <2>12 DEF Signal, Exited, vars
  <2>13. CASE SecondSignal
    BY <2>13 DEF SecondSignal
  <2> QED
    BY <2>1, <2>2, <2>3, <2>4, <2>5, <2>6, <2>7, <2>8, <2>9, <2>10, <2>11, <2>12,
       <2>13 DEF Next, Watch
<1>3. TypeOK /\ Permits /\ [Next]_vars => Permits'
  <2> SUFFICES ASSUME TypeOK, Permits, [Next]_vars PROVE Permits'
    OBVIOUS
  <2>1. ASSUME NEW r \in Repos, Acquire(r) PROVE Permits'
    <3>1. Holding' = Holding \cup {r}
      BY <2>1 DEF Acquire, Holding, TypeOK
    <3>2. Cardinality(Holding \cup {r}) <= Cardinality(Holding) + 1
      BY HoldingFinite, FS_AddElement
    <3>3. Cardinality(Holding \cup {r}) \in Nat
      BY HoldingFinite, FS_AddElement, FS_CardinalityType
    <3>4. Cardinality(Holding) < MaxConcurrent
      BY <2>1 DEF Acquire
    <3> QED
      BY <3>1, <3>2, <3>3, <3>4, HoldingFinite DEF Permits
  <2>2. ASSUME ~ \E r \in Repos : Acquire(r) PROVE Holding' \subseteq Holding
    BY <2>2 DEF Next, Watch, Spawn, StartCollecting, CollectOk, CollectErr, EndCollecting,
         SwapReaders, Finish, Poll, AbortTask, ReturnEarly, DropCycle, Leave, Exit, Signal,
           Cancel, SecondSignal, Exited,
         ThreadEnds, TimeOut, StrayEnds, NoTasks, watch, shutdown, work, state, vars, Holding, TypeOK
  <2>3. ASSUME Holding' \subseteq Holding PROVE Permits'
    <3>1. Cardinality(Holding') <= Cardinality(Holding) /\ Cardinality(Holding') \in Nat
      BY <2>3, HoldingFinite, FS_Subset, FS_CardinalityType
    <3> QED
      BY <3>1, HoldingFinite DEF Permits
  <2> QED
    BY <2>1, <2>2, <2>3
<1>4. TypeOK /\ Awaited /\ Inv => OneRunPerRepo /\ ConcurrencyLimit
  <2> SUFFICES ASSUME TypeOK, Awaited, Inv PROVE OneRunPerRepo /\ ConcurrencyLimit
    OBVIOUS
  <2>1. OneRunPerRepo
    BY DEF Threads, OneRunPerRepo
  <2>2. ASSUME ~timedOut, ~cancelled PROVE Running <= MaxConcurrent
    <3> DEFINE runs == UNION {{r} \X (1..threads[r]) : r \in Repos}
               first == [r \in Holding |-> <<r, 1>>]
    <3>1. \A r \in Repos : threads[r] = IF r \in Holding THEN 1 ELSE 0
      BY <2>2 DEF Threads, Awaited, Holding, TypeOK
    <3>2. runs = {<<r, 1>> : r \in Holding}
      <4>1. \A r \in Repos : {r} \X (1..threads[r]) =
                IF r \in Holding THEN {<<r, 1>>} ELSE {}
        BY <3>1
      <4> QED
        BY <4>1 DEF Holding
    <3>3. first \in Surjection(Holding, runs)
      BY <3>2 DEF Surjection
    <3>4. Cardinality(runs) <= Cardinality(Holding) /\ Cardinality(runs) \in Nat
      BY <3>3, HoldingFinite, FS_Surjection, FS_CardinalityType
    <3> QED
      BY <3>4, HoldingFinite DEF Permits, Running
  <2> QED
    BY <2>1, <2>2 DEF ConcurrencyLimit
<1> QED
  BY <1>1, <1>2, <1>3, <1>4, TypeCorrect, PTL DEF Spec

-----------------------------------------------------------------------------
\* No reader is of a later cycle, nor of this one before the swap.
Dated ==
    \A r \in Repos : readers[r] # None =>
        readers[r] <= IF stage \in {"spawn", "collect", "swap"} THEN cycle - 1 ELSE cycle

\* What has been merged, and told, of the repositories collected so far.
Collected(r) == stage = "swap" \/ (stage = "collect" /\ r < next)
Merged ==
    stage \in {"collect", "swap"} => \A r \in Repos :
        merged[r] = IF Collected(r) /\ task[r] = "ok" THEN cycle ELSE readers[r]
Published ==
    stage \in {"clear", "sleep"} => \A r \in Repos : readers[r] = cycle <=> task[r] = "ok"
Told ==
    Server => \A r \in Repos :
        (stage \in {"swap", "clear", "sleep"} \/ (stage = "collect" /\ ~cancelled /\ r < next))
            => status[r] = IF task[r] = "ok" THEN "ready" ELSE "failed"

CycleInv == Dated /\ Merged /\ Published /\ Told

\* The statuses and the readers between two cycles tell what the last cycle did,
\* of every repository.
THEOREM StatusesAreTrue == Spec => [](StatusMatchesCycle /\ CycleInv)
<1> USE IndexingCycleConstants
<1>1. Init => CycleInv
  <2> SUFFICES ASSUME Init PROVE CycleInv
    OBVIOUS
  <2>1. Fresh
    BY DEF Init, ServerInit, WatcherInit
  <2>2. \A r \in Repos : readers[r] \in {None, 0}
    BY <2>1 DEF Fresh
  <2> QED
    BY <2>1, <2>2 DEF Fresh, CycleInv, Dated, Merged, Published, Told
<1>2. TypeOK /\ Progress /\ CycleInv /\ [Next]_vars => CycleInv'
  <2> SUFFICES ASSUME TypeOK, Progress, CycleInv, [Next]_vars PROVE CycleInv'
    OBVIOUS
  <2> USE DEF TypeOK, Repos, Stages, Tasks, Readers, NoTasks, watch, shutdown, work, state, Progress,
              Ended, CycleInv, Dated, Merged, Published, Told, Collected, Server
  <2>1. CASE Spawn
    BY <2>1 DEF Spawn, Marked
  <2>2. CASE StartCollecting
    BY <2>2 DEF StartCollecting
  <2>3. CASE CollectOk
    BY <2>3 DEF CollectOk, Marked
  <2>4. CASE CollectErr
    BY <2>4 DEF CollectErr, Marked
  <2>5. CASE EndCollecting
    BY <2>5 DEF EndCollecting
  <2>6. CASE SwapReaders
    <3>1. \A r \in Repos : readers[r] # cycle
      <4>1. stage = "swap"
        BY <2>6 DEF SwapReaders
      <4>2. cycle \in Nat /\ cycle # None
        BY IndexingCycleConstants
      <4> QED
        BY <4>1, <4>2
    <3>2. \A r \in Repos : readers'[r] = IF task[r] = "ok" THEN cycle ELSE readers[r]
      BY <2>6 DEF SwapReaders
    <3>3. Dated'
      BY <2>6, <3>2 DEF SwapReaders
    <3>4. Published'
      BY <2>6, <3>1, <3>2 DEF SwapReaders
    <3> QED
      BY <2>6, <3>3, <3>4 DEF SwapReaders
  <2>7. CASE Finish
    BY <2>7 DEF Finish
  <2>8. CASE Poll
    BY <2>8 DEF Poll
  <2>9. CASE AbortTask
    BY <2>9 DEF AbortTask
  <2>10. CASE ReturnEarly \/ DropCycle \/ Leave \/ Exit \/ Cancel
    BY SMTT(30), <2>10 DEF ReturnEarly, DropCycle, Leave, Exit, Cancel
  <2>11. ASSUME NEW r \in Repos, Acquire(r) PROVE CycleInv'
    BY <2>11 DEF Acquire
  <2>12. ASSUME NEW r \in Repos, ThreadEnds(r) PROVE CycleInv'
    BY <2>12 DEF ThreadEnds
  <2>13. ASSUME NEW r \in Repos, TimeOut(r) PROVE CycleInv'
    BY <2>13 DEF TimeOut
  <2>14. ASSUME NEW r \in Repos, StrayEnds(r) PROVE CycleInv'
    BY <2>14 DEF StrayEnds
  <2>15. CASE Signal \/ Exited \/ UNCHANGED vars
    BY SMTT(30), <2>15 DEF Signal, Exited, vars
  <2>16. CASE SecondSignal
    <3>1. CASE stage = "down"
      BY <2>16, <3>1 DEF SecondSignal
    <3>2. CASE stage # "down"
      BY <2>16, <3>2 DEF SecondSignal
    <3> QED
      BY <3>1, <3>2
  <2> QED
    BY <2>1, <2>2, <2>3, <2>4, <2>5, <2>6, <2>7, <2>8, <2>9, <2>10, <2>11, <2>12,
       <2>13, <2>14, <2>15, <2>16 DEF Next, Watch
<1>3. TypeOK /\ Progress /\ CycleInv => StatusMatchesCycle
  <2> SUFFICES ASSUME TypeOK, Progress, CycleInv, stage = "sleep", Server, NEW r \in Repos
               PROVE  \/ status[r] = "ready" /\ readers[r] = cycle
                      \/ status[r] = "failed" /\ readers[r] # cycle
    BY DEF StatusMatchesCycle
  <2>1. readers[r] = cycle <=> task[r] = "ok"
    BY DEF CycleInv, Published
  <2>2. status[r] = IF task[r] = "ok" THEN "ready" ELSE "failed"
    BY DEF CycleInv, Told
  <2> QED
    BY <2>1, <2>2
<1> QED
  BY <1>1, <1>2, <1>3, TypeCorrect, RunsAreLimited, PTL DEF Spec

\* A reader changes only at the swap, and only into that of a repository whose
\* run of this cycle has succeeded.
THEOREM SuccessReplaces == Spec => OnlySuccessReplaces
<1> DEFINE Step == \A r \in Repos :
        readers'[r] # readers[r] => task[r] = "ok" /\ readers'[r] = cycle
<1>1. TypeOK /\ CycleInv /\ [Next]_vars => [Step]_vars
  <2> SUFFICES ASSUME TypeOK, CycleInv, Next PROVE Step
    OBVIOUS
  <2>1. CASE SwapReaders
    BY <2>1 DEF SwapReaders, CycleInv, Merged
  <2>2. CASE ~SwapReaders
    <3>1. readers' = readers
      BY <2>2 DEF Next, Watch, Spawn, StartCollecting, CollectOk, CollectErr, EndCollecting,
           Finish, Poll, AbortTask, ReturnEarly, DropCycle, Leave, Exit, Signal,
           Cancel, SecondSignal, Exited, Acquire,
           ThreadEnds, TimeOut, StrayEnds, state, vars
    <3> QED
      BY <3>1
  <2> QED
    BY <2>1, <2>2
<1> QED
  BY <1>1, TypeCorrect, StatusesAreTrue, PTL DEF Spec, OnlySuccessReplaces
=============================================================================
