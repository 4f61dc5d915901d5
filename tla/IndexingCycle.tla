---------------------------- MODULE IndexingCycle ---------------------------
(***************************************************************************)
(* The watcher of the server: the pre-load at startup, the poll loop and   *)
(* run_indexing() of crates/houndr-server/src/main.rs, over all configured *)
(* repositories.                                                           *)
(*                                                                         *)
(* A cycle spawns one task per repository, in the order of the             *)
(* configuration.  A task takes a permit of the cycle's semaphore and runs *)
(* index_repo on a thread of the blocking pool, for index_timeout_secs at  *)
(* most; the thread cannot be stopped, only told to by the flag.  The      *)
(* watcher awaits the tasks in the same order, publishes the status of     *)
(* each as it comes, and the readers of all of them at the end.            *)
(*                                                                         *)
(* The loop of start_watcher() in crates/houndr-repo/src/watcher.rs is the *)
(* same without statuses, cache, cleanup and shutdown: there every status  *)
(* is "untracked".                                                         *)
(***************************************************************************)
EXTENDS Integers, FiniteSets

CONSTANTS
    NumRepos,       \* configured repositories, 1 .. NumRepos in their order
    MaxConcurrent,  \* max_concurrent_indexers
    MaxCycles,      \* bound: poll cycles
    None

ASSUME IndexingCycleConstants ==
    /\ NumRepos \in Nat \ {0} /\ MaxConcurrent \in Nat \ {0}
    /\ MaxCycles \in Nat \ {0}
    /\ None \notin Nat

Repos == 1..NumRepos

VARIABLES
    stage,      \* what the watcher is doing
    cycle,      \* number of the cycle, 1 is the initial one
    next,       \* the next repository to spawn or to collect
    signals,    \* shutdown signals the process has got: 0, 1 or 2
    cancelled,  \* the shutdown token
    task,       \* the task of each repository in this cycle
    threads,    \* threads inside index_repo, for each repository
    timedOut,   \* a run has exceeded index_timeout_secs, for the properties
    merged,     \* reader_map: the readers to be published
    readers,    \* AppState.readers: the cycle each reader dates from, or None
    status      \* AppState.repo_statuses, or "untracked" in start_watcher

shutdown == <<signals, cancelled>>
watch == <<stage, cycle, next, shutdown>>
work  == <<task, threads, timedOut>>
state == <<merged, readers, status>>
vars  == <<watch, work, state>>

\* "off": the watcher has ended; "down": main() has returned.
Stages == {"sleep", "spawn", "collect", "swap", "clear", "off", "down", "exited"}
Tasks == {"none", "waiting", "running", "ok", "err"}
Readers == [Repos -> 0..MaxCycles \cup {None}]  \* 0: pre-loaded

TypeOK ==
    /\ stage \in Stages
    /\ cycle \in 1..MaxCycles
    /\ next \in 1..NumRepos + 1
    /\ signals \in 0..2 /\ cancelled \in BOOLEAN
    /\ task \in [Repos -> Tasks]
    /\ threads \in [Repos -> Nat]
    /\ timedOut \in BOOLEAN
    /\ merged \in Readers /\ readers \in Readers
    /\ status \in [Repos -> {"untracked", "pending", "indexing", "ready", "failed"}]

NoTasks == [r \in Repos |-> "none"]

Server == \A r \in Repos : status[r] # "untracked"

Fresh ==
    /\ stage = "spawn" /\ cycle = 1 /\ next = 1
    /\ signals = 0 /\ cancelled = FALSE
    /\ task = NoTasks
    /\ threads = [r \in Repos |-> 0]
    /\ timedOut = FALSE
    /\ readers \in [Repos -> {None, 0}]
    /\ merged = readers

\* main() pre-loads the indexes it finds and starts the initial cycle.
ServerInit ==
    Fresh /\ status = [r \in Repos |-> IF readers[r] = None THEN "pending" ELSE "ready"]

\* start_watcher starts it with the readers its caller has.
WatcherInit == Fresh /\ status = [r \in Repos |-> "untracked"]

Init == ServerInit \/ WatcherInit

-----------------------------------------------------------------------------
(***************************************************************************)
(* The watcher.                                                            *)
(***************************************************************************)

\* What is told of a repository; start_watcher only logs it.
Marked(r, s) == IF Server THEN [status EXCEPT ![r] = s] ELSE status

\* One task is spawned; in the initial cycle the status of a repository that
\* was not pre-loaded becomes "indexing".
Spawn ==
    /\ stage = "spawn" /\ next <= NumRepos /\ ~cancelled
    /\ task' = [task EXCEPT ![next] = "waiting"]
    /\ status' = IF cycle = 1 /\ status[next] # "ready"
                 THEN Marked(next, "indexing") ELSE status
    /\ next' = next + 1
    /\ UNCHANGED <<stage, cycle, shutdown, threads, timedOut, merged, readers>>

\* Mutant: the merge starts from nothing.
StartCollectingEmpty ==
    /\ stage = "spawn" /\ (next > NumRepos \/ cancelled)
    /\ stage' = "collect" /\ next' = 1
    /\ merged' = [r \in Repos |-> None]
    /\ UNCHANGED <<cycle, shutdown, work, readers, status>>

\* All are spawned, or the token stops the spawning: the merge starts from the
\* readers in use.
StartCollecting ==
    /\ stage = "spawn" /\ (next > NumRepos \/ cancelled)
    /\ stage' = "collect" /\ next' = 1
    /\ merged' = readers
    /\ UNCHANGED <<cycle, shutdown, work, readers, status>>

\* Mutants: a status of its own; a failure that is only logged.
CollectOkIndexed ==
    /\ stage = "collect" /\ next <= NumRepos /\ task[next] = "ok"
    /\ merged' = [merged EXCEPT ![next] = cycle]
    /\ status' = Marked(next, "indexed")
    /\ next' = next + 1
    /\ UNCHANGED <<stage, cycle, shutdown, work, readers>>
CollectErrSilently ==
    /\ stage = "collect" /\ next <= NumRepos /\ task[next] = "err"
    /\ next' = next + 1
    /\ UNCHANGED <<stage, cycle, shutdown, work, state>>

\* The next handle, in order, is ready.
CollectOk ==
    /\ stage = "collect" /\ next <= NumRepos /\ task[next] = "ok"
    /\ merged' = [merged EXCEPT ![next] = cycle]
    /\ status' = Marked(next, "ready")
    /\ next' = next + 1
    /\ UNCHANGED <<stage, cycle, shutdown, work, readers>>

\* A failed repository keeps its reader.  During a shutdown the failure is
\* not recorded.
CollectErr ==
    /\ stage = "collect" /\ next <= NumRepos /\ task[next] = "err"
    /\ status' = IF cancelled THEN status ELSE Marked(next, "failed")
    /\ next' = next + 1
    /\ UNCHANGED <<stage, cycle, shutdown, work, merged, readers>>

\* All are collected and the token was not seen: run_indexing will publish.
EndCollecting ==
    /\ stage = "collect" /\ next > NumRepos /\ ~cancelled
    /\ stage' = "swap"
    /\ UNCHANGED <<cycle, next, shutdown, work, state>>

\* The readers are swapped, once the lock is free.
SwapReaders ==
    /\ stage = "swap"
    /\ readers' = merged
    /\ stage' = "clear"
    /\ UNCHANGED <<cycle, next, shutdown, work, merged, status>>

\* The cache is cleared and the heartbeat set; the loop sleeps.
Finish ==
    /\ stage = "clear"
    /\ stage' = "sleep"
    /\ UNCHANGED <<cycle, next, shutdown, work, state>>

\* Mutant: a ticker that does not wait for the cycle before.
PollEarly ==
    /\ stage \in {"sleep", "collect"} /\ cycle < MaxCycles /\ ~cancelled
    /\ stage' = "spawn" /\ cycle' = cycle + 1 /\ next' = 1
    /\ task' = NoTasks
    /\ UNCHANGED <<shutdown, threads, timedOut, state>>

\* poll_interval_secs later.
Poll ==
    /\ stage = "sleep" /\ cycle < MaxCycles /\ ~cancelled
    /\ stage' = "spawn" /\ cycle' = cycle + 1 /\ next' = 1
    /\ task' = NoTasks
    /\ UNCHANGED <<shutdown, threads, timedOut, state>>

-----------------------------------------------------------------------------
(***************************************************************************)
(* The tasks and their threads.                                            *)
(***************************************************************************)

\* All runs there are, awaited or not.
Running == Cardinality(UNION {{r} \X (1..threads[r]) : r \in Repos})

Holding == {r \in Repos : task[r] = "running"}

\* Mutants: one permit too many; the permit moves into the thread.
AcquireOneMore(r) ==
    /\ task[r] = "waiting" /\ stage # "exited"
    /\ Cardinality(Holding) <= MaxConcurrent
    /\ task' = [task EXCEPT ![r] = "running"]
    /\ threads' = [threads EXCEPT ![r] = @ + 1]
    /\ UNCHANGED <<watch, timedOut, state>>
AcquirePerThread(r) ==
    /\ task[r] = "waiting" /\ stage # "exited"
    /\ Running < MaxConcurrent
    /\ task' = [task EXCEPT ![r] = "running"]
    /\ threads' = [threads EXCEPT ![r] = @ + 1]
    /\ UNCHANGED <<watch, timedOut, state>>

\* A permit is taken and index_repo starts on a blocking thread.
Acquire(r) ==
    /\ task[r] = "waiting" /\ stage # "exited"
    /\ Cardinality(Holding) < MaxConcurrent
    /\ task' = [task EXCEPT ![r] = "running"]
    /\ threads' = [threads EXCEPT ![r] = @ + 1]
    /\ UNCHANGED <<watch, timedOut, state>>

\* The awaited thread returns, or panics; the permit is released.
ThreadEnds(r) ==
    /\ task[r] = "running"
    /\ \E outcome \in {"ok", "err"} : task' = [task EXCEPT ![r] = outcome]
    /\ threads' = [threads EXCEPT ![r] = @ - 1]
    /\ UNCHANGED <<watch, timedOut, state>>

\* The timeout fires: the permit is released, the thread stays.
TimeOut(r) ==
    /\ task[r] = "running"
    /\ task' = [task EXCEPT ![r] = "err"]
    /\ timedOut' = TRUE
    /\ UNCHANGED <<watch, threads, state>>

\* A thread nobody awaits any more comes to its end.
StrayEnds(r) ==
    /\ threads[r] > (IF task[r] = "running" THEN 1 ELSE 0)
    /\ threads' = [threads EXCEPT ![r] = @ - 1]
    /\ UNCHANGED <<watch, task, timedOut, state>>

-----------------------------------------------------------------------------
(***************************************************************************)
(* Shutdown.                                                               *)
(***************************************************************************)

\* The first signal: the HTTP server takes no new connections.  start_watcher
\* has neither signals nor a token.
Signal ==
    /\ Server /\ signals = 0 /\ stage # "exited"
    /\ signals' = 1
    /\ UNCHANGED <<stage, cycle, next, cancelled, work, state>>

\* It has drained, and main() cancels the token.
Cancel ==
    /\ signals > 0 /\ ~cancelled /\ stage # "exited"
    /\ cancelled' = TRUE
    /\ UNCHANGED <<stage, cycle, next, signals, work, state>>

\* A second Ctrl-C: a task that listens for it exits the process.  Once main()
\* has returned the runtime has dropped that task with all others, and the
\* signal, whose handler is never uninstalled, does nothing.
SecondSignal ==
    /\ signals = 1 /\ stage # "exited"
    /\ signals' = 2
    /\ \/ stage = "down" /\ UNCHANGED <<stage, task, threads>>
       \/ stage # "down" /\ stage' = "exited" /\ task' = NoTasks
          /\ threads' = [r \in Repos |-> 0]
    /\ UNCHANGED <<cycle, next, cancelled, timedOut, state>>

\* run_indexing sees the token before it awaits the next handle: it aborts the
\* task.  Its permit is free, and may be taken before the loop gets further.
AbortTask ==
    /\ cancelled /\ stage = "collect" /\ next <= NumRepos
    /\ task' = [task EXCEPT ![next] = "none"]
    /\ next' = next + 1
    /\ UNCHANGED <<stage, cycle, shutdown, threads, timedOut, state>>

\* At the end of the loop it returns without publishing.
ReturnEarly ==
    /\ cancelled /\ stage = "collect" /\ next > NumRepos
    /\ stage' = "off"
    /\ UNCHANGED <<cycle, next, shutdown, work, state>>

\* Mutant: the select! is around the work, not around the sleep.
DropCycleAtWork ==
    /\ cancelled /\ stage \in {"spawn", "collect", "swap", "clear"}
    /\ stage' = "off"
    /\ UNCHANGED <<cycle, next, shutdown, work, state>>

\* Or the select! of the watcher sees it first and drops run_indexing where
\* it awaits: the tasks are detached, not aborted.  main() aborting the watcher
\* five seconds later does the same.
DropCycle ==
    /\ cancelled /\ stage \in {"sleep", "spawn", "collect", "swap", "clear"}
    /\ stage' = "off"
    /\ UNCHANGED <<cycle, next, shutdown, work, state>>

\* main() returns and the runtime drops the tasks, the one that copies the token
\* into the flag among them, whether it has done so or not.
Leave ==
    /\ stage = "off"
    /\ stage' = "down" /\ task' = NoTasks
    /\ UNCHANGED <<cycle, next, shutdown, threads, timedOut, state>>

\* The runtime waits for the threads, and the process ends.
Exit ==
    /\ stage = "down"
    /\ \A r \in Repos : threads[r] = 0
    /\ stage' = "exited"
    /\ UNCHANGED <<cycle, next, shutdown, work, state>>

\* The process is gone, or start_watcher has come to the bound.
Exited ==
    /\ stage = "exited" \/ (~Server /\ stage = "sleep" /\ cycle = MaxCycles)
    /\ UNCHANGED vars

Watch ==
    \/ Spawn \/ StartCollecting \/ CollectOk \/ CollectErr \/ EndCollecting \/ SwapReaders \/ Finish
    \/ Poll \/ AbortTask \/ ReturnEarly \/ DropCycle \/ Leave \/ Exit

Next ==
    \/ Watch \/ Signal \/ Cancel \/ SecondSignal \/ Exited
    \/ \E r \in Repos : Acquire(r) \/ ThreadEnds(r) \/ TimeOut(r) \/ StrayEnds(r)

Spec == Init /\ [][Next]_vars

\* The watcher and the semaphore make progress and timers fire.  Of index_repo
\* nothing is assumed: it may hang for ever, in a shutdown too, for a call that
\* connects to a remote does not look at the flag.
FairSpec ==
    /\ Spec
    /\ WF_vars(Watch)
    /\ \A r \in Repos : WF_vars(Acquire(r)) /\ WF_vars(TimeOut(r))

-----------------------------------------------------------------------------
(***************************************************************************)
(* Properties.                                                             *)
(***************************************************************************)

\* Between two cycles the statuses tell what the last cycle did: every
\* repository was tried, one is ready exactly if its reader is of this cycle,
\* and one that failed has the reader it had.
StatusMatchesCycle ==
    stage = "sleep" /\ Server => \A r \in Repos :
        \/ status[r] = "ready" /\ readers[r] = cycle
        \/ status[r] = "failed" /\ readers[r] # cycle

\* Only the success of a repository in this very cycle replaces its reader; a
\* failure, a timeout or a shutdown never takes a reader away or sets it back.
OnlySuccessReplaces ==
    [][\A r \in Repos :
        readers'[r] # readers[r] => task[r] = "ok" /\ readers'[r] = cycle]_vars

\* max_concurrent_indexers: never more runs than permits, also across cycles,
\* each of which has a semaphore of its own.  A timeout and a shutdown free the
\* permit of a thread that goes on, so the limit ends there.
ConcurrencyLimit == ~timedOut /\ ~cancelled => Running <= MaxConcurrent

\* A repository is never indexed by two threads at once, which is what the
\* fixed names of its temporary files rely on; not even by the last run of a
\* cycle and the first of the next.  Again until a run times out.
OneRunPerRepo == ~timedOut => \A r \in Repos : threads[r] <= 1

\* A hung repository does not hold up the others: every cycle ends.
CycleEnds == stage = "spawn" ~> (stage \in {"sleep", "exited"} \/ cancelled)

\* A shutdown gets past all that is awaited, timers and hung repositories
\* included: it is over, or waits for nothing but threads that are in index_repo.
ShutdownEnds ==
    cancelled ~> \/ stage = "exited"
                 \/ stage = "down" /\ \E r \in Repos : threads[r] > 0
=============================================================================
