------------------------------- MODULE GitStore -------------------------------
(***************************************************************************)
(* What houndr keeps on disk for a repository, over changes of the         *)
(* configuration: the bare clone and the marker of its default branch      *)
(* (clone_or_open and fetch of vcs.rs), the index and the manifest         *)
(* (pipeline.rs), and cleanup_orphaned_repos of main.rs, which removes     *)
(* them again.                                                             *)
(*                                                                         *)
(* The configuration is read when the process starts.  Every cycle cleans  *)
(* up and then runs index_repo for each configured repository.  What one   *)
(* run does to its index is in RepoPipeline: here an index is known by     *)
(* the remote, the branch and the commit it was built from.                *)
(***************************************************************************)
EXTENDS Integers, FiniteSets

CONSTANTS
    Names,        \* names of repositories
    Top,          \* the directory below repos/ that a clone is in: for a name
                  \* without a slash the name itself, otherwise another name
    Remotes,      \* what is at each URL: its branches and the default one
    Main,         \* the branch "main"
    Configs,      \* the configurations the server is started with
    MaxPushes, MaxRestarts, MaxFaults,  \* bounds
    None

Urls     == DOMAIN Remotes
Branches == {Main} \cup UNION {Remotes[u].branches : u \in Urls}
Entry    == [url : Urls, ref : Branches \cup {None}]

\* What an index was built from, where a run is with its ref, and what cleanup
\* removes next.
Trees == [url : Urls, ref : Branches, commit : 0..MaxPushes]
Steps == {"start", "init", "added", "contact", "clonefetch", "fetch", "reuse", "build",
          "returned", "failed"}
Runs == [at : Steps, ref : Branches \cup {None}]
Removals == [entry : Names, next : {"clone", "index", "manifest"}]

ASSUME GitStoreConstants ==
    /\ Top \in [Names -> Names] /\ \A n \in Names : Top[Top[n]] = Top[n]
    /\ \A u \in Urls : Remotes[u].default \in Remotes[u].branches
    /\ \A c \in Configs : DOMAIN c \subseteq Names /\ \A n \in DOMAIN c : c[n] \in Entry
    /\ {MaxPushes, MaxRestarts, MaxFaults} \subseteq Nat
    /\ None \notin Branches \cup Urls \cup Nat \cup Names \cup Trees \cup Runs \cup Removals

VARIABLES
    tip,       \* the number of the commit that every branch is at
    config,    \* the configuration of this process
    stage,     \* of the process: "clean", "index" or "idle"
    orphans,   \* the directories cleanup has still to remove
    cleaning,  \* the entry it is removing, and what is next to go
    clone,     \* per name: the directory, its origin, marker and tracking refs
    index,     \* per name: the index file
    manifest,  \* per name: whether there is a manifest
    run,       \* per name: where its run of this cycle is, and its resolved ref
    result,    \* per name: the index its run has returned
    readers,   \* the indexes searches use
    faults, restarts,  \* counters for the bounds
    entries,   \* the entries in force since there is something of a name on disk
    guessed,   \* the default branch of what is on disk may be a guess
    cut        \* a removal has failed or was cut short

disk    == <<clone, index, manifest>>
process == <<config, stage, orphans, cleaning, run, result, readers>>
ghosts  == <<entries, guessed, cut>>
vars    == <<tip, process, disk, faults, restarts, ghosts>>

\* A directory that is no repository, one without a remote, a usable clone, and
\* one that may lack anything but its remote.
Dirs == {"none", "plain", "bare", "repo", "damaged"}
NoClone == [dir |-> "none", origin |-> None, marker |-> None,
            track |-> [b \in Branches |-> None]]
Clones == [dir : Dirs, origin : Urls \cup {None}, marker : Branches \cup {None},
           track : [Branches -> (0..MaxPushes) \cup {None}]]
Nothing == [n \in Names |-> None]

TypeOK ==
    /\ tip \in 0..MaxPushes
    /\ config \in Configs /\ stage \in {"clean", "index", "idle"}
    /\ orphans \subseteq Names
    /\ cleaning \in Removals \cup {None}
    /\ clone \in [Names -> Clones]
    /\ index \in [Names -> Trees \cup {None}]
    /\ manifest \in [Names -> BOOLEAN]
    /\ run \in [Names -> Runs \cup {None}]
    /\ result \in [Names -> Trees \cup {None}]
    /\ readers \in [Names -> Trees \cup {None}]
    /\ faults \in 0..MaxFaults /\ restarts \in 0..MaxRestarts
    /\ entries \in [Names -> SUBSET Entry]
    /\ guessed \in [Names -> BOOLEAN] /\ cut \in BOOLEAN

Configured == DOMAIN config
OnDisk(n) == clone[n].dir # "none" \/ index[n] # None \/ manifest[n]
\* Mutant: the names of the configuration are not looked at.
AnyDirectory(dirs, names) == {t \in Names : Top[t] = t /\ dirs[t].dir # "none"}

\* The entries of repos/ that are no configured name.
Orphans(dirs, names) == {t \in Names : Top[t] = t /\ dirs[t].dir # "none"} \ names

\* main() reads the configuration and pre-loads the indexes of its names, which all
\* open here.
Boot(c) ==
    /\ config' = c
    /\ stage' = "clean" /\ cleaning' = None
    /\ orphans' = Orphans(clone', DOMAIN c)
    /\ run' = Nothing /\ result' = Nothing
    /\ readers' = [n \in Names |-> IF n \in DOMAIN c THEN index[n] ELSE None]
    /\ entries' = [n \in Names |-> IF OnDisk(n)'
                                   THEN entries[n] \cup {c[m] : m \in DOMAIN c \cap {n}} ELSE {}]
    /\ guessed' = [n \in Names |-> OnDisk(n)' /\ guessed[n]]

Init ==
    /\ tip = 0 /\ config \in Configs
    /\ stage = "clean" /\ orphans = {} /\ cleaning = None
    /\ clone = [n \in Names |-> NoClone] /\ index = Nothing
    /\ manifest = [n \in Names |-> FALSE]
    /\ run = Nothing /\ result = Nothing /\ readers = Nothing
    /\ faults = 0 /\ restarts = 0
    /\ entries = [n \in Names |-> {}] /\ guessed = [n \in Names |-> FALSE] /\ cut = FALSE

-----------------------------------------------------------------------------
(***************************************************************************)
(* cleanup_orphaned_repos                                                  *)
(***************************************************************************)

\* remove_dir_all of a directory below repos/ that is not a configured name
\* begins.
StartRemoval ==
    /\ stage = "clean" /\ cleaning = None
    /\ \E t \in orphans :
         /\ cleaning' = [entry |-> t, next |-> "clone"]
         /\ orphans' = orphans \ {t}
    /\ UNCHANGED <<tip, config, stage, run, result, readers, disk, faults, restarts, ghosts>>

\* What a removal that does not come to its end leaves of a clone: all of it; a
\* repository that opens and has lost its remote, its marker, its tracking
\* refs or objects; a directory that does not open; or nothing, below another directory.
LeftOf(n) ==
    LET c == clone[n] IN
    {c, [NoClone EXCEPT !.dir = "plain"]} \cup {NoClone : m \in {n} \ {Top[n]}} \cup
    {[dir |-> d, origin |-> IF d = "damaged" THEN c.origin ELSE None, marker |-> m, track |-> t] :
         d \in CASE c.dir \in {"repo", "damaged"} -> {"bare", "damaged"}
                [] c.dir = "bare" -> {"bare"}
                [] OTHER -> {},
         m \in {c.marker, None}, t \in {c.track, NoClone.track}}

PartlyRemoved(t) ==
    LET below == {n \in Names : Top[n] = t /\ clone[n].dir # "none"} IN
    \E left \in [below -> UNION {LeftOf(n) : n \in below}] :
        /\ \A n \in below : left[n] \in LeftOf(n)
        /\ clone' = [n \in Names |-> IF n \in below THEN left[n] ELSE clone[n]]

Removing(what, next) ==
    /\ cleaning # None /\ cleaning.next = what
    /\ cleaning' = IF next = "end" THEN None ELSE [cleaning EXCEPT !.next = next]
    /\ UNCHANGED <<tip, config, stage, orphans, run, result, readers, restarts>>

\* What is forgotten of the names that have nothing left on disk.
Forget ==
    /\ entries' = [n \in Names |-> IF OnDisk(n)' THEN entries[n] ELSE {}]
    /\ guessed' = [n \in Names |-> OnDisk(n)' /\ guessed[n]]

\* The directory is gone.
RemoveClone ==
    /\ Removing("clone", "index")
    /\ clone' = [n \in Names |-> IF Top[n] = cleaning.entry THEN NoClone ELSE clone[n]]
    /\ UNCHANGED <<index, manifest, faults, cut>>
    /\ Forget

\* It, the index or the manifest could not be removed, which is logged or not
\* looked at: what comes next goes all the same.
RemovalFails ==
    /\ faults < MaxFaults /\ faults' = faults + 1
    /\ \/ Removing("clone", "index") /\ PartlyRemoved(cleaning.entry)
       \/ (Removing("index", "manifest") \/ Removing("manifest", "end")) /\ UNCHANGED clone
    /\ cut' = TRUE
    /\ UNCHANGED <<index, manifest>>
    /\ Forget

\* Mutant: only the clone and the manifest are removed.
KeepIndex ==
    /\ Removing("index", "manifest")
    /\ UNCHANGED <<disk, faults, ghosts>>

\* The index of the same name.
RemoveIndex ==
    /\ Removing("index", "manifest")
    /\ index' = [index EXCEPT ![cleaning.entry] = None]
    /\ UNCHANGED <<clone, manifest, faults, cut>>
    /\ Forget

\* And its manifest.
RemoveManifest ==
    /\ Removing("manifest", "end")
    /\ manifest' = [manifest EXCEPT ![cleaning.entry] = FALSE]
    /\ UNCHANGED <<clone, index, faults, cut>>
    /\ Forget

\* The readers of other names are dropped, and the runs start.
StartRuns ==
    /\ stage = "clean" /\ cleaning = None /\ orphans = {}
    /\ stage' = "index"
    /\ readers' = [n \in Names |-> IF n \in Configured THEN readers[n] ELSE None]
    /\ run' = [n \in Names |-> IF n \in Configured
                               THEN [at |-> "start", ref |-> None] ELSE None]
    /\ result' = Nothing
    /\ UNCHANGED <<tip, config, orphans, cleaning, disk, faults, restarts, ghosts>>

-----------------------------------------------------------------------------
(***************************************************************************)
(* A run of index_repo for a configured name.                              *)
(***************************************************************************)
At(n, step) == stage = "index" /\ run[n] # None /\ run[n].at = step
Go(n, step) == run' = [run EXCEPT ![n].at = step]
RunKeeps == UNCHANGED <<tip, config, stage, orphans, cleaning, readers, restarts, cut>>

Missing(n) == clone[n].dir = "none"

\* No directory: the one above it is made, and init_bare begins.
StartInit(n) ==
    /\ At(n, "start") /\ Missing(n)
    /\ clone' = [m \in Names |->
                    IF m = n \/ (m = Top[n] /\ Missing(m))
                    THEN [NoClone EXCEPT !.dir = "plain"] ELSE clone[m]]
    /\ entries' = [entries EXCEPT ![n] = @ \cup {config[n]}]
    /\ Go(n, "init")
    /\ UNCHANGED <<index, manifest, result, faults, guessed>> /\ RunKeeps

\* init_bare is done; the remote comes in a step of its own.
EndInit(n) ==
    /\ At(n, "init")
    /\ clone' = [clone EXCEPT ![n].dir = "bare"]
    /\ Go(n, "added")
    /\ UNCHANGED <<index, manifest, result, faults, entries, guessed>> /\ RunKeeps

AddRemote(n) ==
    /\ At(n, "added")
    /\ clone' = [clone EXCEPT ![n].dir = "repo", ![n].origin = config[n].url]
    /\ Go(n, "contact")
    /\ UNCHANGED <<index, manifest, result, faults, entries, guessed>> /\ RunKeeps

\* The ref of the run is resolved; the marker cannot be written, which is
\* ignored.
ResolveUnmarked(n, ref, step) ==
    /\ run' = [run EXCEPT ![n] = [at |-> step, ref |-> ref]]
    /\ UNCHANGED <<clone, index, manifest, result, entries>> /\ RunKeeps

\* The marker is written for a new clone and for one without.
Resolve(n, ref, step) ==
    /\ run' = [run EXCEPT ![n] = [at |-> step, ref |-> ref]]
    /\ clone' = [clone EXCEPT ![n].marker =
                    IF step = "clonefetch" \/ @ = None THEN ref ELSE @]
    /\ UNCHANGED <<index, manifest, result, entries>> /\ RunKeeps

\* For a new clone: the configured ref, or the default branch the remote names.
NewRef(n) == IF config[n].ref # None THEN config[n].ref ELSE Remotes[clone[n].origin].default

\* For an old one: the configured ref, or the marker, or "main".  The HEAD of a
\* clone that was made here has no commit, so it names no branch.
OldRef(n) ==
    LET marker == clone[n].marker
    IN  CASE config[n].ref # None                       -> config[n].ref
          [] config[n].ref = None /\ marker # None      -> marker
          [] OTHER                                      -> Main
Guesses(n) == config[n].ref = None /\ clone[n].marker = None
Opens(n) == At(n, "start") /\ clone[n].dir \in {"bare", "repo", "damaged"}

Contact(n) ==
    /\ At(n, "contact")
    /\ Resolve(n, NewRef(n), "clonefetch")
    /\ UNCHANGED <<faults, guessed>>

\* The remote cannot be asked: "main" is taken and written to the marker.
ContactFails(n) ==
    /\ At(n, "contact") /\ config[n].ref = None
    /\ faults < MaxFaults /\ faults' = faults + 1
    /\ guessed' = [guessed EXCEPT ![n] = TRUE]
    /\ Resolve(n, Main, "clonefetch")

Open(n) ==
    /\ Opens(n)
    /\ Resolve(n, OldRef(n), "fetch")
    /\ guessed' = [guessed EXCEPT ![n] = @ \/ Guesses(n)]
    /\ UNCHANGED faults

MarkerFails(n) ==
    /\ faults < MaxFaults /\ faults' = faults + 1
    /\ \/ /\ At(n, "contact")
          /\ ResolveUnmarked(n, NewRef(n), "clonefetch")
          /\ UNCHANGED guessed
       \/ /\ Opens(n) /\ clone[n].marker = None
          /\ ResolveUnmarked(n, OldRef(n), "fetch")
          /\ guessed' = [guessed EXCEPT ![n] = @ \/ Guesses(n)]

HasRef(n) == clone[n].dir \in {"repo", "damaged"} /\ run[n].ref \in Remotes[clone[n].origin].branches

\* Mutant: a fetch that fails counts as one that found nothing new.
DoFetchUnchecked(n, step) ==
    /\ clone' = IF HasRef(n) THEN [clone EXCEPT ![n].track[run[n].ref] = tip] ELSE clone
    /\ Go(n, step)
    /\ UNCHANGED <<index, manifest, result, faults, entries, guessed>> /\ RunKeeps

\* The one branch is fetched from the origin of the clone.
DoFetch(n, step) ==
    /\ HasRef(n)
    /\ clone' = [clone EXCEPT ![n].track[run[n].ref] = tip]
    /\ Go(n, step)
    /\ UNCHANGED <<index, manifest, result, faults, entries, guessed>> /\ RunKeeps

CloneFetch(n) == At(n, "clonefetch") /\ DoFetch(n, "build")

\* fetch() compares the tracking ref with what it was.
Fetch(n) ==
    /\ At(n, "fetch")
    /\ DoFetch(n, IF clone[n].track[run[n].ref] = tip THEN "reuse" ELSE "build")

\* HEAD unchanged: the index there is, if it opens.
Reuse(n) ==
    /\ At(n, "reuse") /\ index[n] # None
    /\ result' = [result EXCEPT ![n] = index[n]]
    /\ Go(n, "returned")
    /\ UNCHANGED <<disk, faults, entries, guessed>> /\ RunKeeps

\* The index is built, written and opened; a manifest that cannot be saved is ignored.
Build(n) ==
    /\ At(n, "build") \/ (At(n, "reuse") /\ index[n] = None)
    /\ LET tree == [url |-> clone[n].origin, ref |-> run[n].ref,
                    commit |-> clone[n].track[run[n].ref]]
       IN  /\ index' = [index EXCEPT ![n] = tree]
           /\ result' = [result EXCEPT ![n] = tree]
    /\ \E saved \in BOOLEAN : manifest' = [manifest EXCEPT ![n] = @ \/ saved]
    /\ Go(n, "returned")
    /\ UNCHANGED <<clone, faults, entries, guessed>> /\ RunKeeps

\* What is there does not open or lacks what the step needs, the clone has no
\* remote, or the remote no such branch.
Refused(n) ==
    \/ At(n, "start") /\ clone[n].dir = "plain"
    \/ clone[n].dir = "damaged"
    \/ (At(n, "clonefetch") \/ At(n, "fetch")) /\ ~HasRef(n)

\* Any step of a run that can fail does, or the run finds itself cancelled.
Fail(n) ==
    /\ stage = "index" /\ run[n] # None /\ run[n].at \notin {"returned", "failed"}
    /\ \/ Refused(n) /\ UNCHANGED faults
       \/ faults < MaxFaults /\ faults' = faults + 1
    /\ Go(n, "failed")
    /\ UNCHANGED <<disk, result, entries, guessed>> /\ RunKeeps

Run(n) ==
    \/ StartInit(n) \/ EndInit(n) \/ AddRemote(n)
    \/ Contact(n) \/ ContactFails(n) \/ Open(n) \/ MarkerFails(n)
    \/ CloneFetch(n) \/ Fetch(n) \/ Reuse(n) \/ Build(n) \/ Fail(n)

-----------------------------------------------------------------------------
(***************************************************************************)
(* The cycle and the process.                                              *)
(***************************************************************************)

\* Mutant: only a reader that is there already is replaced.
PublishOld ==
    /\ stage = "index"
    /\ \A n \in Configured : run[n].at \in {"returned", "failed"}
    /\ readers' = [n \in Names |-> IF result[n] # None /\ readers[n] # None
                                   THEN result[n] ELSE readers[n]]
    /\ stage' = "idle"
    /\ UNCHANGED <<tip, config, orphans, cleaning, run, result, disk, faults, restarts, ghosts>>

\* The results of the runs replace the readers, failed runs keep theirs.
Publish ==
    /\ stage = "index"
    /\ \A n \in Configured : run[n].at \in {"returned", "failed"}
    /\ readers' = [n \in Names |-> IF result[n] # None THEN result[n] ELSE readers[n]]
    /\ stage' = "idle"
    /\ UNCHANGED <<tip, config, orphans, cleaning, run, result, disk, faults, restarts, ghosts>>

\* The next poll: the directory is read anew.
Poll ==
    /\ stage = "idle"
    /\ stage' = "clean"
    /\ orphans' = Orphans(clone, Configured)
    /\ run' = Nothing /\ result' = Nothing
    /\ UNCHANGED <<tip, config, cleaning, readers, disk, faults, restarts, ghosts>>

\* The server is stopped between two cycles or two removals, and started again.
Restart ==
    /\ restarts < MaxRestarts /\ restarts' = restarts + 1
    /\ stage = "idle" \/ (stage = "clean" /\ cleaning = None)
    /\ UNCHANGED <<tip, disk, faults, cut>>
    /\ \E c \in Configs : Boot(c)

\* The process dies at any moment.
Crash ==
    /\ restarts < MaxRestarts /\ restarts' = restarts + 1
    /\ faults < MaxFaults /\ faults' = faults + 1
    /\ cut' = (cut \/ cleaning # None)
    /\ IF cleaning # None /\ cleaning.next = "clone"
       THEN PartlyRemoved(cleaning.entry) ELSE UNCHANGED clone
    /\ UNCHANGED <<tip, index, manifest>>
    /\ \E c \in Configs : Boot(c)

Push ==
    /\ tip < MaxPushes
    /\ tip' = tip + 1
    /\ UNCHANGED <<process, disk, faults, restarts, ghosts>>

Cleanup == StartRemoval \/ RemoveClone \/ RemovalFails \/ RemoveIndex \/ RemoveManifest \/ StartRuns
Next ==
    \/ Cleanup \/ Publish \/ Poll \/ Restart \/ Crash \/ Push
    \/ \E n \in Names : Run(n)

Spec == Init /\ [][Next]_vars

\* Cleanup and cycles go on, and every run ends.
Fairness ==
    /\ WF_vars(Cleanup) /\ WF_vars(Publish) /\ WF_vars(Poll)
    /\ \A n \in Names : WF_vars(Run(n))

FairSpec == Spec /\ Fairness

-----------------------------------------------------------------------------
\* A name was configured in one way since there is something of it on disk.
Steady(n) == n \in Configured /\ entries[n] = {config[n]}

\* An index is of the configured remote, and of the configured branch, or of
\* the default branch of the remote when none is configured.
IsOf(tree, entry) ==
    /\ tree.url = entry.url
    /\ tree.ref = IF entry.ref # None THEN entry.ref ELSE Remotes[entry.url].default

\* A run returns what is configured: under any faults, while the entry of the
\* repository stays what it was when its files were made, or they were removed
\* in between.  Without a configured ref this takes that the default branch is
\* not a guess, and it is one only after a fault.
ResultIsConfigured == \A n \in Names : Steady(n) =>
    /\ result[n] # None /\ (config[n].ref = None => ~guessed[n]) => IsOf(result[n], config[n])
    /\ guessed[n] => faults > 0

\* Nobody removes the clone or the index of a repository whose directory below
\* repos/ has a configured name.
ConfiguredIsKept ==
    [][\A n \in Configured : Top[n] \in Configured /\ config' = config =>
         /\ clone[n].dir = "repo" => clone'[n].dir = "repo"
         /\ index[n] # None => index'[n] # None]_vars

\* After cleanup nothing is left of a name without a slash that is not
\* configured, unless a removal has failed or was cut short: the files are found
\* through the clone alone.
OrphansLeaveNothing == stage # "clean" /\ ~cut =>
    \A n \in Names \ Configured : Top[n] = n /\ (\A m \in Configured : Top[m] # n) => ~OnDisk(n)

\* Once faults, pushes and restarts are over, searches use what is configured,
\* wherever the clone opens and has a remote.
ServedEventually == <>[](\A n \in Configured :
    Steady(n) /\ clone[n].dir = "repo" /\ (config[n].ref = None => ~guessed[n])
        /\ (config[n].ref # None => config[n].ref \in Remotes[config[n].url].branches)
            => readers[n] # None /\ IsOf(readers[n], config[n]))

===============================================================================
