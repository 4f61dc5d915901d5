--------------------------- MODULE GitStoreProofs ---------------------------
(***************************************************************************)
(* What GitStore promises, for any names, remotes and configurations, and  *)
(* any number of pushes, restarts and faults.                              *)
(***************************************************************************)
EXTENDS GitStore, TLAPS

-----------------------------------------------------------------------------
\* Cleanup and runs exclude each other, and cleanup has the unconfigured only.
Stages ==
    /\ stage = "clean" => run = Nothing /\ result = Nothing
    /\ stage # "clean" => orphans = {} /\ cleaning = None
    /\ \A n \in Names : run[n] # None => n \in Configured
    /\ \A t \in orphans : t \notin Configured /\ Top[t] = t
    /\ cleaning # None => cleaning.entry \notin Configured /\ Top[cleaning.entry] = cleaning.entry

\* What a clone has by the directory it is.
CloneShape(c) ==
    /\ c.dir \in {"none", "plain"} => c.marker = None
    /\ c.dir \in {"none", "plain", "bare"} => c.origin = None
    /\ c.dir \in {"repo", "damaged"} => c.origin # None

\* What a run finds at each step; above all, what it builds from is there.
RunShape(r, c) ==
    /\ r.at = "init" => c.dir = "plain"
    /\ r.at = "added" => c.dir = "bare"
    /\ r.at \in {"contact", "clonefetch"} => c.dir = "repo"
    /\ r.at \in {"reuse", "build"} => c.dir \in {"repo", "damaged"}
    /\ r.at = "fetch" => c.dir \in {"bare", "repo", "damaged"}
    /\ r.at \in {"clonefetch", "fetch", "reuse", "build"} => r.ref # None
    /\ r.at \in {"reuse", "build"} => c.track[r.ref] # None

Shape ==
    /\ Stages
    /\ \A n \in Names : CloneShape(clone[n])
    /\ \A n \in Names : run[n] # None => RunShape(run[n], clone[n])

\* Directories that were made, or that are being removed, have nothing in them.
LEMMA EmptyClones ==
    /\ NoClone \in Clones /\ CloneShape(NoClone) /\ NoClone.dir = "none"
    /\ LET p == [NoClone EXCEPT !.dir = "plain"]
       IN  p \in Clones /\ CloneShape(p) /\ p.dir = "plain"
BY DEF NoClone, Clones, Dirs, CloneShape

\* A removal that is cut short touches the clones below its directory only, leaves
\* that directory, and what it leaves of a clone was there before.
Less(c, d) ==
    /\ d.origin \in {c.origin, None} /\ d.marker \in {c.marker, None}
    /\ d.dir \in {"bare", "repo", "damaged"} => c.dir \in {"bare", "repo", "damaged"}

LEMMA LeftOvers ==
    ASSUME TypeOK, Shape, NEW t \in Names, Top[t] = t, PartlyRemoved(t)
    PROVE  /\ clone' \in [Names -> Clones]
           /\ \A n \in Names : CloneShape(clone'[n]) /\ Less(clone[n], clone'[n])
           /\ \A n \in Names : clone'[n] = clone[n] \/ Top[n] = t
           /\ \A n \in Names : Top[n] = n => (clone'[n].dir = "none" <=> clone[n].dir = "none")
<1> DEFINE below == {n \in Names : Top[n] = t /\ clone[n].dir # "none"}
<1>1. ASSUME NEW n \in Names, NEW c \in LeftOf(n), clone[n].dir # "none"
      PROVE  /\ c \in Clones /\ CloneShape(c) /\ Less(clone[n], c)
             /\ Top[n] = n => c.dir # "none"
  <2>1. clone[n] \in Clones /\ CloneShape(clone[n]) /\ NoClone.track \in [Branches -> (0..MaxPushes) \cup {None}]
    BY DEF TypeOK, Shape, NoClone
  <2>2. CASE c = clone[n]
    BY <1>1, <2>1, <2>2 DEF Less
  <2>3. CASE c \in {NoClone, [NoClone EXCEPT !.dir = "plain"]}
    <3>1. c.origin = None /\ c.marker = None /\ c.dir \in {"none", "plain"}
      BY <2>3 DEF NoClone
    <3>2. c.dir = "none" => c = NoClone
      BY <2>3, EmptyClones
    <3>3. Top[n] = n => c.dir # "none"
      <4>1. {NoClone : m \in {n} \ {n}} = {}
        OBVIOUS
      <4>2. Top[n] = n => c = clone[n] \/ c = [NoClone EXCEPT !.dir = "plain"] \/ c.dir \in {"bare", "damaged"}
        BY <4>1 DEF LeftOf
      <4> QED
        BY <1>1, <4>2, EmptyClones
    <3> QED
      BY <2>3, <3>1, <3>2, <3>3, EmptyClones DEF Less
  <2>4. CASE c \notin {clone[n], NoClone, [NoClone EXCEPT !.dir = "plain"]}
    <3>1. PICK d \in {"bare", "damaged"}, m \in {clone[n].marker, None}, k \in {clone[n].track, NoClone.track} :
            /\ c = [dir |-> d, origin |-> IF d = "damaged" THEN clone[n].origin ELSE None,
                    marker |-> m, track |-> k]
            /\ clone[n].dir \in {"bare", "repo", "damaged"}
            /\ d = "damaged" => clone[n].dir \in {"repo", "damaged"}
      BY <2>4 DEF LeftOf
    <3>2. c \in Clones
      BY <2>1, <3>1 DEF Clones, Dirs
    <3> QED
      BY <2>1, <3>1, <3>2 DEF CloneShape, Less
  <2> QED
    BY <2>2, <2>3, <2>4
<1>2. PICK left \in [below -> UNION {LeftOf(n) : n \in below}] :
        /\ \A n \in below : left[n] \in LeftOf(n)
        /\ clone' = [n \in Names |-> IF n \in below THEN left[n] ELSE clone[n]]
  BY DEF PartlyRemoved
<1>3. ASSUME NEW n \in below
      PROVE  /\ clone'[n] \in Clones /\ CloneShape(clone'[n]) /\ Less(clone[n], clone'[n])
             /\ Top[n] = t /\ (Top[n] = n => (clone'[n].dir = "none" <=> clone[n].dir = "none"))
  <2>1. clone'[n] = left[n] /\ left[n] \in LeftOf(n)
    BY <1>2
  <2> QED
    BY <1>1, <2>1
<1>4. ASSUME NEW n \in Names \ below
      PROVE  /\ clone'[n] = clone[n] /\ clone[n] \in Clones
             /\ CloneShape(clone[n]) /\ Less(clone[n], clone[n])
  BY <1>2 DEF TypeOK, Shape, Less
<1>5. DOMAIN clone' = Names /\ clone' = [n \in Names |-> clone'[n]]
  BY <1>2
<1>6. clone' \in [Names -> Clones]
  <2> HIDE DEF below
  <2> QED
    BY <1>3, <1>4, <1>5
<1> QED
  BY <1>3, <1>4, <1>6

\* The ref of a run is a branch.
LEMMA RefsResolve ==
    ASSUME TypeOK, Shape, NEW n \in Names
    PROVE  /\ At(n, "contact") => NewRef(n) \in Branches
           /\ run[n] # None => OldRef(n) \in Branches
<1> USE GitStoreConstants
<1>1. run[n] # None => config[n] \in Entry
  BY DEF TypeOK, Shape, Stages, Configured
<1>2. clone[n] \in Clones
  BY DEF TypeOK
<1>3. At(n, "contact") => run[n] # None /\ clone[n].origin \in Urls
  BY <1>2 DEF At, Shape, RunShape, CloneShape, Clones
<1>4. \A u \in Urls : Remotes[u].default \in Branches
  BY DEF Branches
<1>5. At(n, "contact") => NewRef(n) \in Branches
  BY <1>1, <1>3, <1>4 DEF NewRef, Entry
<1>6. run[n] # None => OldRef(n) \in Branches
  BY <1>1, <1>2 DEF OldRef, Entry, Clones, Branches
<1> QED
  BY <1>5, <1>6

\* Every variable keeps its type, and runs and cleanup find on disk what their
\* steps take for granted: a build has a commit to build from.
THEOREM TypeCorrect == Spec => [](TypeOK /\ Shape)
<1> DEFINE Inv == TypeOK /\ Shape
<1> USE GitStoreConstants
<1>1. Init => Inv
  <2> SUFFICES ASSUME Init PROVE Inv
    OBVIOUS
  <2>1. Nothing \in [Names -> Trees \cup {None}] /\ Nothing \in [Names -> Runs \cup {None}]
    BY DEF Nothing
  <2>2. clone \in [Names -> Clones] /\ \A n \in Names : CloneShape(clone[n])
    BY EmptyClones DEF Init
  <2>3. 0 \in 0..MaxPushes /\ 0 \in 0..MaxFaults /\ 0 \in 0..MaxRestarts
    OBVIOUS
  <2>4. TypeOK
    BY <2>1, <2>2, <2>3 DEF Init, TypeOK
  <2>5. Shape
    BY <2>2 DEF Init, Shape, Stages, Nothing
  <2> QED
    BY <2>4, <2>5
<1>2. Inv /\ [Next]_vars => Inv'
  <2> SUFFICES ASSUME Inv, [Next]_vars PROVE Inv'
    OBVIOUS
  <2> USE DEF Shape, Stages, disk, process, ghosts, Configured
  <2>1. CASE StartRemoval
    BY <2>1, EmptyClones DEF StartRemoval, TypeOK, Removals, RunShape, Nothing
  <2>2. CASE RemoveClone
    BY <2>2, EmptyClones DEF RemoveClone, Removing, Forget, TypeOK, Removals, RunShape, Nothing
  <2>3. CASE RemovalFails
    <3>1. /\ stage = "clean" /\ run = Nothing /\ UNCHANGED <<run, result, stage, config, orphans>>
          /\ cleaning # None /\ cleaning \in Removals
          /\ cleaning' = None \/ (cleaning' \in Removals /\ cleaning'.entry = cleaning.entry)
      BY <2>3 DEF RemovalFails, Removing, TypeOK, Removals
    <3>2. clone' \in [Names -> Clones] /\ \A n \in Names : CloneShape(clone'[n])
      <4>1. CASE PartlyRemoved(cleaning.entry)
        BY <3>1, <4>1, LeftOvers DEF Removals
      <4>2. CASE UNCHANGED clone
        BY <4>2 DEF TypeOK
      <4> QED
        BY <2>3, <4>1, <4>2 DEF RemovalFails
    <3>3. Shape'
      BY <3>1, <3>2 DEF Nothing
    <3> QED
      BY <2>3, <3>1, <3>2, <3>3 DEF RemovalFails, Removing, Forget, TypeOK
  <2>4. CASE RemoveIndex
    BY <2>4 DEF RemoveIndex, Removing, Forget, TypeOK, Removals, RunShape, Nothing
  <2>5. CASE RemoveManifest
    BY <2>5 DEF RemoveManifest, Removing, Forget, TypeOK, Removals, RunShape, Nothing
  <2>6. CASE StartRuns
    BY <2>6 DEF StartRuns, TypeOK, Runs, Steps, RunShape, Nothing
  <2>7. CASE Publish
    BY <2>7 DEF Publish, TypeOK, RunShape
  <2>8. CASE Poll
    BY <2>8 DEF Poll, TypeOK, Nothing, Orphans
  <2>9. ASSUME NEW c \in Configs, Boot(c), UNCHANGED <<tip, index, manifest>>,
               clone' \in [Names -> Clones], \A n \in Names : CloneShape(clone'[n]),
               faults' \in 0..MaxFaults, restarts' \in 0..MaxRestarts, cut' \in BOOLEAN
        PROVE  Inv'
    <3>1. \A n \in Names : entries'[n] \subseteq Entry /\ guessed'[n] \in BOOLEAN
      <4> SUFFICES ASSUME NEW n \in Names PROVE entries'[n] \subseteq Entry /\ guessed'[n] \in BOOLEAN
        OBVIOUS
      <4>1. \A m \in DOMAIN c : c[m] \in Entry
        OBVIOUS
      <4>2. entries'[n] \subseteq entries[n] \cup {c[m] : m \in DOMAIN c} /\ entries[n] \subseteq Entry
        BY <2>9 DEF Boot, TypeOK
      <4>3. guessed'[n] \in BOOLEAN
        BY <2>9, Zenon DEF Boot, TypeOK
      <4> QED
        BY <4>1, <4>2, <4>3
    <3>2. /\ entries' = [n \in Names |-> entries'[n]] /\ guessed' = [n \in Names |-> guessed'[n]]
      BY <2>9 DEF Boot
    <3>3. entries' \in [Names -> SUBSET Entry] /\ guessed' \in [Names -> BOOLEAN]
      BY <3>1, <3>2
    <3> QED
      BY <2>9, <3>3 DEF Boot, TypeOK, Nothing, Orphans
  <2>10. CASE Restart
    BY <2>9, <2>10 DEF Restart, TypeOK
  <2>11. CASE Crash
    <3>1. clone' \in [Names -> Clones] /\ \A n \in Names : CloneShape(clone'[n])
      <4>1. CASE cleaning # None /\ PartlyRemoved(cleaning.entry)
        BY <4>1, LeftOvers DEF Removals, TypeOK
      <4>2. CASE UNCHANGED clone
        BY <4>2 DEF TypeOK
      <4> QED
        BY <2>11, <4>1, <4>2 DEF Crash
    <3> QED
      BY <2>9, <2>11, <3>1 DEF Crash, TypeOK
  <2>12. CASE Push
    BY <2>12 DEF Push, TypeOK, RunShape
  <2>13. ASSUME NEW n \in Names, NEW c \in Clones, NEW r \in Runs,
                stage = "index", run[n] # None, RunKeeps,
                clone' = [clone EXCEPT ![n] = c], CloneShape(c),
                run' = [run EXCEPT ![n] = r], RunShape(r, c)
         PROVE  /\ Shape'
                /\ clone' \in [Names -> Clones] /\ run' \in [Names -> Runs \cup {None}]
    BY <2>13 DEF RunKeeps, TypeOK
  <2>14. ASSUME NEW n \in Names, StartInit(n) PROVE Inv'
    BY SMTT(30), <2>14, EmptyClones
    DEF StartInit, At, Go, Missing, RunKeeps, TypeOK, Runs, Steps, RunShape
  <2>15. ASSUME NEW n \in Names, run[n] # None
         PROVE  /\ clone[n] \in Clones /\ run[n] \in Runs
                /\ CloneShape(clone[n]) /\ RunShape(run[n], clone[n])
                /\ n \in Configured /\ config[n] \in Entry
    BY <2>15 DEF TypeOK
  <2>16. ASSUME NEW n \in Names, EndInit(n) PROVE Inv'
    <3> DEFINE c == [clone[n] EXCEPT !.dir = "bare"]
               r == [run[n] EXCEPT !.at = "added"]
    <3> HIDE DEF Inv
    <3>1. c \in Clones /\ r \in Runs /\ CloneShape(c) /\ RunShape(r, c)
      BY <2>16, <2>15 DEF EndInit, At, Runs, Steps, RunShape, CloneShape, Dirs, Clones
    <3> USE DEF Inv
    <3>2. clone' = [clone EXCEPT ![n] = c] /\ run' = [run EXCEPT ![n] = r]
      BY <2>16 DEF EndInit, Go, TypeOK
    <3> HIDE DEF c, r
    <3> QED
      BY <2>16, <2>13, <3>1, <3>2 DEF EndInit, At, RunKeeps, TypeOK
  <2>17. ASSUME NEW n \in Names, AddRemote(n) PROVE Inv'
    <3> DEFINE c == [clone[n] EXCEPT !.dir = "repo", !.origin = config[n].url]
               r == [run[n] EXCEPT !.at = "contact"]
    <3> HIDE DEF Inv
    <3>1. config[n].url \in Urls /\ config[n].url # None
      BY <2>17, <2>15 DEF AddRemote, At, Entry
    <3>2. clone[n] \in Clones
      BY <2>17, <2>15 DEF AddRemote, At
    <3>3. c \in Clones /\ c.dir = "repo" /\ c.origin # None
      BY <3>1, <3>2 DEF Dirs, Clones
    <3>4. r \in Runs /\ r.at = "contact"
      BY <2>17, <2>15 DEF AddRemote, At, Runs, Steps
    <3>5. c \in Clones /\ r \in Runs /\ CloneShape(c) /\ RunShape(r, c)
      BY <3>3, <3>4 DEF RunShape, CloneShape
    <3> USE DEF Inv
    <3>6. clone' = [clone EXCEPT ![n] = c] /\ run' = [run EXCEPT ![n] = r]
      <4>1. clone \in [Names -> Clones] /\ run \in [Names -> Runs \cup {None}]
        BY DEF TypeOK
      <4>2. /\ clone' = [clone EXCEPT ![n].dir = "repo", ![n].origin = config[n].url]
            /\ run' = [run EXCEPT ![n].at = "contact"]
        BY <2>17 DEF AddRemote, Go
      <4> QED
        BY <4>1, <4>2
    <3> HIDE DEF c, r
    <3> QED
      BY <2>17, <2>13, <3>5, <3>6 DEF AddRemote, At, RunKeeps, TypeOK
  <2>18. ASSUME NEW n \in Names, NEW ref \in Branches, NEW step \in {"clonefetch", "fetch"},
                step = "clonefetch" => At(n, "contact"), step = "fetch" => Opens(n),
                Resolve(n, ref, step) \/ ResolveUnmarked(n, ref, step),
                faults' \in 0..MaxFaults, guessed' \in [Names -> BOOLEAN]
         PROVE  Inv'
    <3>1. PICK m \in Branches \cup {None} :
            clone' = [clone EXCEPT ![n] = [clone[n] EXCEPT !.marker = m]]
      <4>1. CASE Resolve(n, ref, step)
        <5>1. clone' = [clone EXCEPT ![n] = [clone[n] EXCEPT !.marker =
                  IF step = "clonefetch" \/ clone[n].marker = None THEN ref ELSE clone[n].marker]]
          BY <4>1 DEF Resolve, TypeOK
        <5> QED
          BY <5>1 DEF TypeOK, Clones
      <4>2. CASE ResolveUnmarked(n, ref, step)
        <5>1. clone' = [clone EXCEPT ![n] = [clone[n] EXCEPT !.marker = clone[n].marker]]
          BY <4>2 DEF ResolveUnmarked, TypeOK, Clones
        <5> QED
          BY <5>1 DEF TypeOK, Clones
      <4> QED
        BY <2>18, <4>1, <4>2
    <3> DEFINE c == [clone[n] EXCEPT !.marker = m]
               r == [at |-> step, ref |-> ref]
    <3> HIDE DEF Inv
    <3>2. step = "clonefetch" => clone[n].dir = "repo"
      BY <2>18, <2>15 DEF At, RunShape
    <3>3. step = "fetch" => clone[n].dir \in {"bare", "repo", "damaged"}
      BY <2>18 DEF Opens
    <3>4. c \in Clones /\ r \in Runs
      BY <2>18, <2>15 DEF At, Opens, Runs, Steps, Clones
    <3>5. CloneShape(c) /\ RunShape(r, c)
      BY <2>18, <2>15, <3>2, <3>3 DEF At, Opens, RunShape, CloneShape, Clones
    <3> USE DEF Inv
    <3>6. clone' = [clone EXCEPT ![n] = c] /\ run' = [run EXCEPT ![n] = r]
      BY <2>18, <3>1 DEF Resolve, ResolveUnmarked
    <3> HIDE DEF c, r
    <3> QED
      BY <2>18, <2>13, <3>5, <3>6, <3>4 DEF Resolve, ResolveUnmarked, At, Opens, RunKeeps, TypeOK
  <2>19. ASSUME NEW n \in Names, run[n] # None PROVE OldRef(n) \in Branches
    BY <2>19, RefsResolve
  <2>20. ASSUME NEW n \in Names, At(n, "contact") PROVE NewRef(n) \in Branches
    BY <2>20, RefsResolve
  <2>21. ASSUME NEW n \in Names, Contact(n) \/ ContactFails(n) \/ Open(n) \/ MarkerFails(n)
         PROVE  Inv'
    <3>1. n \in Configured /\ Main \in Branches
      BY <2>21, <2>15 DEF Contact, ContactFails, Open, MarkerFails, Opens, At, Branches
    <3>2. faults' \in 0..MaxFaults /\ guessed' \in [Names -> BOOLEAN]
      <4>1. \A b \in BOOLEAN : [guessed EXCEPT ![n] = b] \in [Names -> BOOLEAN]
        BY DEF TypeOK
      <4>2. (guessed[n] \/ Guesses(n)) \in BOOLEAN
        BY Zenon
      <4>3. guessed \in [Names -> BOOLEAN]
        BY DEF TypeOK
      <4>4. guessed' \in [Names -> BOOLEAN]
        BY <2>21, <4>1, <4>2, <4>3, ZenonT(60) DEF Contact, ContactFails, Open, MarkerFails
      <4> QED
        BY <2>21, <4>4 DEF Contact, ContactFails, Open, MarkerFails, TypeOK
    <3> HIDE DEF Inv
    <3>3. CASE Contact(n)
      BY <2>18, <2>20, <3>2, <3>3 DEF Contact
    <3>4. CASE ContactFails(n)
      BY <2>18, <3>1, <3>2, <3>4 DEF ContactFails
    <3>5. CASE Open(n)
      BY <2>18, <2>19, <3>2, <3>5 DEF Open, Opens, At
    <3>6. CASE MarkerFails(n)
      BY <2>18, <2>19, <2>20, <3>2, <3>6 DEF MarkerFails, Opens, At
    <3> QED
      BY <2>21, <3>3, <3>4, <3>5, <3>6
  <2>22. ASSUME NEW n \in Names, CloneFetch(n) \/ Fetch(n) PROVE Inv'
    <3>1. PICK step \in {"build", "reuse"} :
            DoFetch(n, step) /\ stage = "index" /\ run[n] # None /\ run[n].ref \in Branches
      BY <2>22 DEF CloneFetch, Fetch, At, RunShape, TypeOK, Runs
    <3> DEFINE c == [clone[n] EXCEPT !.track[run[n].ref] = tip]
               r == [run[n] EXCEPT !.at = step]
    <3>2. tip \in 0..MaxPushes
      BY DEF TypeOK
    <3> HIDE DEF Inv
    <3>3. c \in Clones /\ r \in Runs /\ CloneShape(c)
      BY <2>15, <3>1, <3>2 DEF Runs, Steps, CloneShape, Clones
    <3> USE DEF Inv
    <3>4. RunShape(r, c)
      BY <3>1 DEF DoFetch, HasRef, TypeOK, Runs, RunShape, Clones
    <3>5. clone' = [clone EXCEPT ![n] = c] /\ run' = [run EXCEPT ![n] = r]
      BY <3>1 DEF DoFetch, Go, TypeOK
    <3> HIDE DEF c, r
    <3> QED
      BY <2>13, <3>1, <3>3, <3>4, <3>5 DEF DoFetch, RunKeeps, TypeOK
  <2>23. ASSUME NEW n \in Names, Reuse(n) PROVE Inv'
    BY <2>23 DEF Reuse, At, Go, RunKeeps, TypeOK, Runs, Steps, RunShape
  <2>24. ASSUME NEW n \in Names, Build(n) PROVE Inv'
    BY <2>24 DEF Build, At, Go, RunKeeps, TypeOK, Runs, Steps, RunShape, CloneShape, Trees, Clones
  <2>25. ASSUME NEW n \in Names, Fail(n) PROVE Inv'
    BY <2>25 DEF Fail, Go, RunKeeps, TypeOK, Runs, Steps, RunShape
  <2>26. CASE UNCHANGED vars
    BY <2>26 DEF vars, TypeOK, RunShape
  <2> QED
    BY <2>1, <2>2, <2>3, <2>4, <2>5, <2>6, <2>7, <2>8, <2>10, <2>11, <2>12, <2>14, <2>16,
       <2>17, <2>21, <2>22, <2>23, <2>24, <2>25, <2>26 DEF Next, Cleanup, Run
<1> QED
  BY <1>1, <1>2, PTL DEF Spec

-----------------------------------------------------------------------------
\* A run changes nothing of another name, except that the directory above a
\* nested clone is made.
LEMMA RunFrame ==
    ASSUME TypeOK, NEW m \in Names, Run(m)
    PROVE  /\ stage = "index" /\ run[m] # None
           /\ UNCHANGED <<tip, config, stage, orphans, cleaning, readers, restarts, cut>>
           /\ faults' = faults \/ faults' = faults + 1
           /\ \A n \in Names \ {m} :
                /\ run'[n] = run[n] /\ result'[n] = result[n]
                /\ index'[n] = index[n] /\ manifest'[n] = manifest[n]
                /\ entries'[n] = entries[n] /\ guessed'[n] = guessed[n]
                /\ \/ clone'[n] = clone[n]
                   \/ /\ StartInit(m) /\ n = Top[m] /\ Missing(n)
                      /\ clone'[n] = [NoClone EXCEPT !.dir = "plain"]
<1> USE DEF TypeOK, RunKeeps, disk, process, ghosts
<1>1. CASE StartInit(m)
  BY <1>1 DEF StartInit, At, Go, Missing
<1>2. CASE EndInit(m) \/ AddRemote(m)
  BY <1>2 DEF EndInit, AddRemote, At, Go
<1>3. CASE Contact(m) \/ ContactFails(m)
  BY <1>3 DEF Contact, ContactFails, At, Resolve
<1>4. CASE Open(m)
  BY <1>4 DEF Open, Opens, At, Resolve
<1>5. CASE MarkerFails(m)
  BY <1>5 DEF MarkerFails, Opens, At, ResolveUnmarked
<1>6. CASE CloneFetch(m) \/ Fetch(m)
  BY <1>6 DEF CloneFetch, Fetch, DoFetch, At, Go
<1>7. CASE Reuse(m) \/ Build(m) \/ Fail(m)
  BY <1>7 DEF Reuse, Build, Fail, At, Go
<1> QED
  BY <1>1, <1>2, <1>3, <1>4, <1>5, <1>6, <1>7 DEF Run

\* What the steps of a run make of its clone, and the index they build.
LEMMA RunOnDisk ==
    ASSUME TypeOK, Shape, NEW m \in Names
    PROVE  /\ StartInit(m) => clone'[m] = [NoClone EXCEPT !.dir = "plain"]
           /\ EndInit(m) => /\ clone'[m].dir = "bare"
                            /\ clone'[m].origin = clone[m].origin
                            /\ clone'[m].marker = clone[m].marker
           /\ AddRemote(m) => /\ clone'[m].dir = "repo"
                              /\ clone'[m].origin = config[m].url
                              /\ clone'[m].marker = clone[m].marker
           /\ \A ref, step : Resolve(m, ref, step) =>
                /\ clone'[m].dir = clone[m].dir /\ clone'[m].origin = clone[m].origin
                /\ clone'[m].marker = IF step = "clonefetch" \/ clone[m].marker = None
                                      THEN ref ELSE clone[m].marker
           /\ CloneFetch(m) \/ Fetch(m) => /\ clone'[m].dir = clone[m].dir
                                           /\ clone'[m].origin = clone[m].origin
                                           /\ clone'[m].marker = clone[m].marker
           /\ Build(m) => /\ index'[m] \in Trees /\ result'[m] = index'[m]
                          /\ index'[m].url = clone[m].origin /\ index'[m].ref = run[m].ref
<1>1. clone \in [Names -> Clones] /\ clone[m] \in Clones
  BY DEF TypeOK
<1>2. StartInit(m) => clone'[m] = [NoClone EXCEPT !.dir = "plain"]
  BY DEF StartInit
<1>3. EndInit(m) => clone'[m] = [clone[m] EXCEPT !.dir = "bare"]
  BY <1>1 DEF EndInit
<1>4. AddRemote(m) => clone'[m] = [clone[m] EXCEPT !.dir = "repo", !.origin = config[m].url]
  BY <1>1 DEF AddRemote
<1>5. CloneFetch(m) \/ Fetch(m) =>
        clone'[m] = [clone[m] EXCEPT !.track[run[m].ref] = tip]
  BY <1>1 DEF CloneFetch, Fetch, DoFetch
<1>6. Build(m) => /\ index'[m] \in Trees /\ result'[m] = index'[m]
                   /\ index'[m].url = clone[m].origin /\ index'[m].ref = run[m].ref
  <2> SUFFICES ASSUME Build(m)
               PROVE  /\ index'[m] \in Trees /\ result'[m] = index'[m]
                      /\ index'[m].url = clone[m].origin /\ index'[m].ref = run[m].ref
    OBVIOUS
  <2> DEFINE tree == [url |-> clone[m].origin, ref |-> run[m].ref,
                      commit |-> clone[m].track[run[m].ref]]
  <2>1. run[m] \in Runs /\ RunShape(run[m], clone[m]) /\ CloneShape(clone[m])
    BY DEF Build, At, TypeOK, Shape
  <2>2. run[m].at \in {"build", "reuse"}
    BY DEF Build, At
  <2>3. clone[m].origin \in Urls /\ run[m].ref \in Branches
    BY <1>1, <2>1, <2>2 DEF RunShape, CloneShape, Clones, Runs
  <2>4. clone[m].track[run[m].ref] \in 0..MaxPushes
    BY <1>1, <2>1, <2>2, <2>3 DEF RunShape, Clones
  <2>5. tree \in Trees
    BY <2>3, <2>4 DEF Trees
  <2>6. index'[m] = tree /\ result'[m] = tree
    BY DEF Build, TypeOK
  <2> QED
    BY <2>5, <2>6
<1>7. ASSUME EndInit(m)
       PROVE  /\ clone'[m].dir = "bare" /\ clone'[m].origin = clone[m].origin
              /\ clone'[m].marker = clone[m].marker
  BY <1>1, <1>3, <1>7 DEF Clones
<1>8. ASSUME AddRemote(m)
       PROVE  /\ clone'[m].dir = "repo" /\ clone'[m].origin = config[m].url
              /\ clone'[m].marker = clone[m].marker
  BY <1>1, <1>4, <1>8 DEF Clones
<1>9. ASSUME NEW ref, NEW step, Resolve(m, ref, step)
       PROVE  /\ clone'[m].dir = clone[m].dir /\ clone'[m].origin = clone[m].origin
              /\ clone'[m].marker = IF step = "clonefetch" \/ clone[m].marker = None
                                    THEN ref ELSE clone[m].marker
  <2>1. clone'[m] = [clone[m] EXCEPT !.marker =
            IF step = "clonefetch" \/ clone[m].marker = None THEN ref ELSE clone[m].marker]
    BY <1>1, <1>9 DEF Resolve
  <2> QED
    BY <1>1, <2>1 DEF Clones
<1>10. ASSUME CloneFetch(m) \/ Fetch(m)
       PROVE  /\ clone'[m].dir = clone[m].dir /\ clone'[m].origin = clone[m].origin
              /\ clone'[m].marker = clone[m].marker
  BY <1>1, <1>5, <1>10 DEF Clones
<1> QED
  BY <1>2, <1>6, <1>7, <1>8, <1>9, <1>10

-----------------------------------------------------------------------------
\* Neither cleanup nor a run ever takes the clone or the index of a repository
\* away whose directory below repos/ has a configured name: cleanup_orphaned_repos
\* and the runs of index_repo.
THEOREM ConfiguredStays == Spec => ConfiguredIsKept
<1> DEFINE Step == \A n \in Configured : Top[n] \in Configured /\ config' = config =>
        /\ clone[n].dir = "repo" => clone'[n].dir = "repo"
        /\ index[n] # None => index'[n] # None
<1>1. TypeOK /\ Shape /\ [Next]_vars => [Step]_vars
  <2> SUFFICES ASSUME TypeOK, Shape, Next,
                      NEW n \in Configured, Top[n] \in Configured, config' = config
               PROVE  /\ clone[n].dir = "repo" => clone'[n].dir = "repo"
                      /\ index[n] # None => index'[n] # None
    OBVIOUS
  <2> USE GitStoreConstants DEF Configured, disk, process, ghosts, Shape, Stages
  <2>1. n \in Names
    BY DEF TypeOK
  <2>2. CASE Cleanup
    <3>1. CASE RemovalFails
      <4>1. /\ cleaning \in Removals /\ cleaning.entry \notin Configured /\ index' = index
            /\ Top[cleaning.entry] = cleaning.entry
        BY <3>1 DEF RemovalFails, Removing, TypeOK
      <4>2. Top[n] # cleaning.entry
        BY <4>1
      <4>3. clone'[n] = clone[n]
        BY <2>1, <3>1, <4>1, <4>2, LeftOvers DEF RemovalFails, Removals
      <4> QED
        BY <4>1, <4>3
    <3> QED
      BY <2>1, <2>2, <3>1 DEF Cleanup, StartRemoval, RemoveClone, RemoveIndex, RemoveManifest,
                              StartRuns, Removing, TypeOK, Removals
  <2>3. CASE Publish \/ Poll \/ Restart \/ Push
    BY <2>3 DEF Publish, Poll, Restart, Push
  <2>5. CASE Crash
    <3>1. CASE UNCHANGED clone
      BY <2>5, <3>1 DEF Crash
    <3>2. CASE cleaning # None /\ PartlyRemoved(cleaning.entry)
      <4>1. cleaning \in Removals /\ Top[n] # cleaning.entry /\ Top[cleaning.entry] = cleaning.entry
        BY <3>2 DEF TypeOK
      <4>2. clone'[n] = clone[n]
        BY <2>1, <3>2, <4>1, LeftOvers DEF Removals
      <4> QED
        BY <2>5, <4>2 DEF Crash
    <3> QED
      BY <2>5, <3>1, <3>2 DEF Crash
  <2>4. ASSUME NEW m \in Names, Run(m)
        PROVE  /\ clone[n].dir = "repo" => clone'[n].dir = "repo"
               /\ index[n] # None => index'[n] # None
    <3>1. CASE StartInit(m)
      BY <2>1, <3>1 DEF StartInit, Missing
    <3>2. n # m => clone'[n] = clone[n] \/ clone[n].dir = "none"
      BY <2>1, <2>4, RunFrame DEF Missing
    <3>3. ~Build(m) => index' = index
      BY <2>4 DEF Run, StartInit, EndInit, AddRemote, Contact, ContactFails, Open, MarkerFails,
         Resolve, ResolveUnmarked, CloneFetch, Fetch, DoFetch, Reuse, Fail
    <3>4. CASE EndInit(m) \/ AddRemote(m)
      BY <3>2, <3>3, <3>4, RunOnDisk DEF EndInit, AddRemote, At, RunShape, Build
    <3>5. CASE Contact(m) \/ ContactFails(m) \/ Open(m)
      <4>1. clone'[m].dir = clone[m].dir
        BY <3>5, RunOnDisk DEF Contact, ContactFails, Open
      <4> QED
        BY <3>2, <3>3, <3>5, <4>1 DEF Contact, ContactFails, Open, Opens, At, Build
    <3>6. CASE CloneFetch(m) \/ Fetch(m)
      BY <3>2, <3>3, <3>6, RunOnDisk DEF CloneFetch, Fetch, At, Build
    <3>7. CASE MarkerFails(m) \/ Reuse(m) \/ Fail(m)
      BY <3>7 DEF MarkerFails, ResolveUnmarked, Reuse, Fail
    <3>8. CASE Build(m)
      <4>1. index'[m] # None
        BY <3>8, RunOnDisk
      <4>2. UNCHANGED clone
        BY <3>8 DEF Build
      <4>3. n # m => index'[n] = index[n]
        BY <2>1, <2>4, RunFrame
      <4> QED
        BY <4>1, <4>3, <4>2
    <3> QED
      BY <2>4, <3>1, <3>4, <3>5, <3>6, <3>7, <3>8 DEF Run
  <2> QED
    BY <2>2, <2>3, <2>4, <2>5 DEF Next
<1> QED
  BY <1>1, TypeCorrect, PTL DEF Spec, ConfiguredIsKept

-----------------------------------------------------------------------------
\* While no removal was cut short, whatever is left of a name without a slash is
\* found by cleanup: through its clone, or because cleanup is at it; and every
\* clone that is not configured is on cleanup's list, until it is gone.
Traced(n) ==
    /\ (index[n] # None \/ manifest[n]) /\ clone[n].dir = "none" =>
         /\ cleaning # None /\ cleaning.entry = n /\ cleaning.next # "clone"
         /\ index[n] # None => cleaning.next = "index"
    /\ stage = "clean" /\ n \notin Configured /\ clone[n].dir # "none" =>
         n \in orphans \/ (cleaning # None /\ cleaning.entry = n /\ cleaning.next = "clone")
    /\ stage # "clean" /\ n \notin Configured /\ clone[n].dir # "none" =>
         \E m \in Configured : Top[m] = n

Traceable == ~cut => \A n \in Names : Top[n] = n => Traced(n)

\* After cleanup nothing is left of a name without a slash that is no longer
\* configured, unless a removal has failed or was cut short: the removals of
\* cleanup_orphaned_repos in their order, over crashes and restarts.
THEOREM OrphansAreRemoved == Spec => [](Traceable /\ OrphansLeaveNothing)
<1>1. Init => Traceable
  BY DEF Init, Traceable, Traced, Nothing, NoClone
<1>2. TypeOK /\ Shape /\ Traceable /\ [Next]_vars => Traceable'
  <2> SUFFICES ASSUME TypeOK, Shape, Traceable, [Next]_vars, ~cut', NEW n \in Names, Top[n] = n
               PROVE  Traced(n)'
    BY DEF Traceable
  <2> USE GitStoreConstants DEF Configured, disk, process, ghosts, Shape, Stages, Traced
  <2>1. ~cut
    BY DEF Next, Cleanup, StartRemoval, RemoveClone, RemovalFails, RemoveIndex, RemoveManifest,
           StartRuns, Removing, Publish, Poll, Restart, Crash, Push, Run, StartInit, EndInit,
           AddRemote, Contact, ContactFails, Open, MarkerFails, Resolve, ResolveUnmarked,
           CloneFetch, Fetch, DoFetch, Reuse, Build, Fail, RunKeeps, vars, TypeOK
  <2>2. Traced(n)
    BY <2>1 DEF Traceable
  <2>3. CASE StartRemoval
    BY <2>2, <2>3, EmptyClones DEF StartRemoval, TypeOK, Removals
  <2>4. CASE RemoveClone
    BY <2>2, <2>4, EmptyClones DEF RemoveClone, Removing, TypeOK, Removals
  <2>5. CASE RemovalFails
    BY <2>5 DEF RemovalFails
  <2>6. CASE RemoveIndex
    BY <2>2, <2>6 DEF RemoveIndex, Removing, TypeOK, Removals
  <2>7. CASE RemoveManifest
    BY <2>2, <2>7 DEF RemoveManifest, Removing, TypeOK, Removals
  <2>8. CASE StartRuns \/ Publish \/ Push \/ UNCHANGED vars
    BY <2>2, <2>8 DEF StartRuns, Publish, Push, vars
  <2>9. CASE Poll
    BY <2>2, <2>9 DEF Poll, Orphans
  <2>10. CASE Restart \/ Crash
    <3>1. UNCHANGED <<clone, index, manifest>>
      BY <2>10 DEF Restart, Crash
    <3> QED
      BY <2>2, <2>10, <3>1 DEF Restart, Crash, Boot, Orphans
  <2>11. ASSUME NEW m \in Names, Run(m) PROVE Traced(n)'
    <3>1. /\ stage = "index" /\ m \in Configured
          /\ UNCHANGED <<config, stage, orphans, cleaning>>
      BY <2>11 DEF Run, StartInit, EndInit, AddRemote, Contact, ContactFails, Open, Opens,
         MarkerFails, Resolve, ResolveUnmarked, CloneFetch, Fetch, DoFetch, Reuse, Build, Fail,
         RunKeeps, At
    <3>2. CASE StartInit(m)
      BY <2>2, <3>1, <3>2 DEF StartInit, Missing, TypeOK
    <3>3. CASE Build(m)
      <4>1. clone[m].dir # "none" /\ UNCHANGED clone
        BY <3>3 DEF Build, At, RunShape
      <4>2. n # m => index'[n] = index[n] /\ manifest'[n] = manifest[n]
        BY <3>3 DEF Build, TypeOK
      <4> QED
        BY <2>2, <3>1, <4>1, <4>2
    <3>4. CASE ~StartInit(m) /\ ~Build(m)
      <4>1. UNCHANGED <<index, manifest>>
        BY <2>11, <3>4 DEF Run, EndInit, AddRemote, Contact, ContactFails, Open, MarkerFails,
           Resolve, ResolveUnmarked, CloneFetch, Fetch, DoFetch, Reuse, Fail
      <4>2. (clone[n].dir = "none") <=> (clone'[n].dir = "none")
        <5>1. n # m => clone'[n] = clone[n]
          BY <2>11, <3>4, RunFrame
        <5>2. CASE EndInit(m) \/ AddRemote(m)
          BY <5>1, <5>2, RunOnDisk DEF EndInit, AddRemote, At, RunShape
        <5>3. CASE Contact(m) \/ ContactFails(m) \/ Open(m) \/ CloneFetch(m) \/ Fetch(m)
          <6>1. clone'[m].dir = clone[m].dir
            BY <5>3, RunOnDisk DEF Contact, ContactFails, Open
          <6> QED
            BY <5>1, <6>1
        <5>4. CASE MarkerFails(m) \/ Reuse(m) \/ Fail(m)
          BY <5>4 DEF MarkerFails, ResolveUnmarked, Reuse, Fail
        <5> QED
          BY <2>11, <3>4, <5>2, <5>3, <5>4 DEF Run
      <4> QED
        BY <2>2, <3>1, <4>1, <4>2
    <3> QED
      BY <3>2, <3>3, <3>4
  <2> QED
    BY <2>3, <2>4, <2>5, <2>6, <2>7, <2>8, <2>9, <2>10, <2>11 DEF Next, Cleanup
<1>3. TypeOK /\ Shape /\ Traceable => OrphansLeaveNothing
  BY DEF Traceable, Traced, OrphansLeaveNothing, OnDisk, Shape, Stages, TypeOK, Configured
<1> QED
  BY <1>1, <1>2, <1>3, TypeCorrect, PTL DEF Spec

-----------------------------------------------------------------------------
\* A default branch is guessed only for a clone without a marker, and a clone is
\* left without one by a fault only.
GuessedByFault(n) ==
    /\ guessed[n] => faults > 0
    /\ clone[n].dir \in {"bare", "repo", "damaged"} /\ clone[n].marker = None =>
         faults > 0 \/ (run[n] # None /\ run[n].at \in {"added", "contact"})
    /\ stage = "idle" /\ run[n] # None => run[n].at \in {"returned", "failed"}

\* The entry in force is known of everything a run may find or has made.
EntryKnown(n) ==
    /\ clone[n].dir \in {"bare", "repo", "damaged"} \/ index[n] # None =>
         entries[n] # {} /\ (n \in Configured => config[n] \in entries[n])
    /\ result[n] # None => entries[n] # {}
    /\ run[n] # None /\ run[n].at \notin {"start", "failed"} => config[n] \in entries[n]

\* What is there of a name whose only entry was e is what e says; without a ref
\* in e this takes that the default branch is sure.
Right(e) == IF e.ref # None THEN e.ref ELSE Remotes[e.url].default
Sure(n, e) == e.ref = None => ~guessed[n]
MadeAs(n, e) ==
    /\ clone[n].marker \in {None, Right(e)}
    /\ run[n] # None /\ run[n].at \in {"clonefetch", "fetch", "reuse", "build"} =>
         run[n].ref = Right(e)
    /\ index[n] # None => IsOf(index[n], e)
    /\ result[n] # None => IsOf(result[n], e)
MadeFor(n, e) == clone[n].origin \in {None, e.url} /\ (Sure(n, e) => MadeAs(n, e))

Provenance(n) == EntryKnown(n) /\ \A e \in Entry : entries[n] = {e} => MadeFor(n, e)

\* A guessed branch is owed to a failed lookup of the right one.
LEMMA GuessesComeOfFaults == Spec => [](\A n \in Names : GuessedByFault(n))
<1> DEFINE Inv == \A n \in Names : GuessedByFault(n)
<1> USE GitStoreConstants
<1>1. Init => Inv
  BY DEF Init, GuessedByFault, Nothing, NoClone
<1>2. TypeOK /\ Shape /\ Inv /\ [Next]_vars => Inv'
  <2> SUFFICES ASSUME TypeOK, Shape, Inv, [Next]_vars, NEW n \in Names
               PROVE  GuessedByFault(n)'
    OBVIOUS
  <2> USE DEF disk, process, ghosts
  <2>1. GuessedByFault(n) /\ faults \in Nat
    BY DEF TypeOK
  <2>2. CASE StartRemoval
    BY <2>1, <2>2, EmptyClones DEF StartRemoval, GuessedByFault
  <2>3. CASE RemoveClone
    BY <2>1, <2>3, EmptyClones DEF RemoveClone, Removing, Forget, GuessedByFault
  <2>4. CASE RemoveIndex \/ RemoveManifest
    <3>1. UNCHANGED <<clone, run, stage>>
      BY <2>4 DEF RemoveIndex, RemoveManifest, Removing
    <3>2. guessed'[n] => guessed[n]
      BY <2>4, Zenon DEF RemoveIndex, RemoveManifest, Forget
    <3>3. faults > 0 => faults' > 0
      BY <2>1, <2>4 DEF RemoveIndex, RemoveManifest
    <3> QED
      BY <2>1, <3>1, <3>2, <3>3 DEF GuessedByFault
  <2>11. CASE RemovalFails
    BY <2>1, <2>11 DEF RemovalFails, Removing, GuessedByFault
  <2>5. CASE StartRuns
    BY <2>1, <2>5 DEF StartRuns, Shape, Stages, Nothing, GuessedByFault
  <2>6. CASE Publish
    BY <2>1, <2>6 DEF Publish, Shape, Stages, GuessedByFault
  <2>7. CASE Poll \/ Restart
    BY <2>1, <2>7 DEF Poll, Restart, Boot, Shape, Stages, Nothing, GuessedByFault
  <2>8. CASE Crash
    BY <2>1, <2>8 DEF Crash, Boot, Nothing, GuessedByFault
  <2>9. CASE Push \/ UNCHANGED vars
    BY <2>1, <2>9 DEF Push, vars, GuessedByFault
  <2>10. ASSUME NEW m \in Names, Run(m) PROVE GuessedByFault(n)'
    <3>1. CASE n # m
      <4>1. /\ UNCHANGED stage /\ run'[n] = run[n] /\ guessed'[n] = guessed[n]
            /\ faults' = faults \/ faults' = faults + 1
            /\ clone'[n] = clone[n] \/ clone'[n] = [NoClone EXCEPT !.dir = "plain"]
        BY <2>10, <3>1, RunFrame
      <4>2. clone'[n] = clone[n] \/ clone'[n].dir = "plain"
        BY <4>1, EmptyClones
      <4> QED
        BY <2>1, <4>1, <4>2 DEF GuessedByFault
    <3> SUFFICES ASSUME n = m PROVE GuessedByFault(n)'
      BY <3>1
    <3>2. CASE StartInit(n)
      <4>1. clone'[n].dir = "plain"
        BY <3>2, RunOnDisk, EmptyClones
      <4> QED
        BY <2>1, <3>2, <4>1 DEF StartInit, RunKeeps, GuessedByFault, At
    <3>3. CASE EndInit(n) \/ AddRemote(n)
      <4>1. run'[n].at \in {"added", "contact"} /\ run'[n] # None
        BY <3>3 DEF EndInit, AddRemote, At, Go, TypeOK, Runs, Steps
      <4> QED
        BY <2>1, <2>10, <3>3, <4>1, RunFrame DEF EndInit, AddRemote, GuessedByFault
    <3>4. CASE Contact(n) \/ ContactFails(n) \/ Open(n)
      <4>1. \E ref \in Branches : \E step : Resolve(n, ref, step)
        BY <3>4, RefsResolve DEF Contact, ContactFails, Open, Opens, At, Branches
      <4>2. clone'[n].marker # None
        BY <4>1, RunOnDisk
      <4>3. guessed'[n] => guessed[n] \/ faults' > 0 \/ (Opens(n) /\ clone[n].marker = None)
        BY <2>1, <3>4 DEF Contact, ContactFails, Open, Guesses, TypeOK
      <4> QED
        BY <2>1, <2>10, <4>2, <4>3, RunFrame DEF Opens, At, GuessedByFault
    <3>5. CASE MarkerFails(n)
      BY <2>1, <2>10, <3>5, RunFrame DEF MarkerFails, GuessedByFault
    <3>6. CASE CloneFetch(n) \/ Fetch(n)
      <4>1. run[n].at \notin {"added", "contact"} /\ UNCHANGED guessed
        BY <3>6 DEF CloneFetch, Fetch, DoFetch, At
      <4> QED
        BY <2>1, <2>10, <3>6, <4>1, RunFrame, RunOnDisk DEF GuessedByFault
    <3>7. CASE Reuse(n) \/ Build(n) \/ Fail(n)
      <4>1. /\ UNCHANGED <<clone, guessed>>
            /\ run[n].at \notin {"added", "contact"} \/ faults' > 0
        BY <2>1, <3>7 DEF Reuse, Build, Fail, Refused, At, Shape, RunShape
      <4> QED
        BY <2>1, <2>10, <4>1, RunFrame DEF GuessedByFault
    <3> QED
      BY <2>10, <3>2, <3>3, <3>4, <3>5, <3>6, <3>7 DEF Run
  <2> QED
    BY <2>2, <2>3, <2>4, <2>5, <2>6, <2>7, <2>8, <2>9, <2>10, <2>11 DEF Next, Cleanup
<1> QED
  BY <1>1, <1>2, TypeCorrect, PTL DEF Spec

\* Nothing is known of a name, or made for it, before there is anything of it.
LEMMA NothingMade ==
    ASSUME TypeOK, Shape, NEW n \in Names, EntryKnown(n), entries[n] = {}
    PROVE  /\ clone[n].origin = None /\ clone[n].marker = None
           /\ index[n] = None /\ result[n] = None
           /\ run[n] # None => run[n].at \in {"start", "failed"}
<1>1. clone[n] \in Clones /\ CloneShape(clone[n])
  BY DEF TypeOK, Shape
<1> QED
  BY <1>1 DEF EntryKnown, CloneShape, Clones, Dirs

\* A run returns an index of the configured remote and branch, or of the default
\* branch of the remote, while the entry of the repository stays what it was when
\* its files were made: clone_or_open, fetch and get_default_branch, under any
\* failures, crashes and changes of the configuration.
THEOREM ResultsAreConfigured == Spec => []ResultIsConfigured
<1> DEFINE Inv == \A n \in Names : Provenance(n)
<1> USE GitStoreConstants
<1>1. Init => Inv
  BY DEF Init, Provenance, EntryKnown, Nothing, NoClone
<1>2. TypeOK /\ Shape /\ Inv /\ [Next]_vars => Inv'
  <2> SUFFICES ASSUME TypeOK, Shape, Inv, [Next]_vars, NEW n \in Names
               PROVE  Provenance(n)'
    OBVIOUS
  <2> USE DEF disk, process, ghosts
  <2>1. EntryKnown(n) /\ \A e \in Entry : entries[n] = {e} => MadeFor(n, e)
    BY DEF Provenance
  <2>2. ASSUME config' = config, entries'[n] = entries[n], guessed'[n] = guessed[n],
               index'[n] \in {index[n], None}, result'[n] \in {result[n], None},
               \/ run'[n] \in {run[n], None}
               \/ run'[n].at \in {"start", "failed"},
               Less(clone[n], clone'[n])
        PROVE  Provenance(n)'
    <3>1. /\ clone'[n].origin \in {clone[n].origin, None}
          /\ clone'[n].marker \in {clone[n].marker, None}
      BY <2>2 DEF Less
    <3>2. EntryKnown(n)'
      BY <2>1, <2>2 DEF EntryKnown, Configured, Less
    <3>3. ASSUME NEW e \in Entry, entries[n] = {e} PROVE MadeFor(n, e)'
      <4>1. Sure(n, e)' = Sure(n, e)
        BY <2>2 DEF Sure
      <4>2. MadeAs(n, e) => MadeAs(n, e)'
        BY <2>2, <3>1 DEF MadeAs
      <4>3. clone'[n].origin \in {clone[n].origin, None}
        BY <3>1
      <4> QED
        BY <2>1, <3>3, <4>1, <4>2, <4>3 DEF MadeFor
    <3> QED
      BY <2>2, <3>2, <3>3 DEF Provenance
  <2>0. \A c : Less(c, c) /\ Less(c, NoClone) /\ Less(c, [NoClone EXCEPT !.dir = "plain"])
    BY DEF Less, NoClone
  <2>3. CASE StartRemoval \/ StartRuns \/ Publish \/ Poll \/ Push \/ UNCHANGED vars
    <3>1. config' = config /\ entries' = entries /\ guessed' = guessed /\ index' = index
      BY <2>3 DEF StartRemoval, StartRuns, Publish, Poll, Push, vars
    <3>2. result'[n] \in {result[n], None}
      BY <2>3
      DEF StartRemoval, StartRuns, Publish, Poll, Push, vars, Nothing
    <3>3. run'[n] \in {run[n], None} \/ run'[n].at \in {"start", "failed"}
      BY <2>3
      DEF StartRemoval, StartRuns, Publish, Poll, Push, vars, Nothing
    <3>4. Less(clone[n], clone'[n])
      BY <2>0, <2>3 DEF StartRemoval, StartRuns, Publish, Poll, Push, vars
    <3> QED
      BY <2>2, <3>1, <3>2, <3>3, <3>4
  <2>4. CASE RemoveClone \/ RemovalFails \/ RemoveIndex \/ RemoveManifest
    <3>1. /\ config' = config /\ result' = result /\ run' = run
          /\ result = Nothing /\ run = Nothing
      BY <2>4 DEF RemoveClone, RemovalFails, RemoveIndex, RemoveManifest, Removing, Shape, Stages
    <3>2. index'[n] \in {index[n], None} /\ Less(clone[n], clone'[n])
      <4>1. CASE RemovalFails
        <5>1. cleaning \in Removals /\ Top[cleaning.entry] = cleaning.entry /\ index' = index
          BY <4>1 DEF RemovalFails, Removing, TypeOK, Shape, Stages
        <5>2. CASE UNCHANGED clone
          BY <2>0, <5>1, <5>2
        <5>3. CASE PartlyRemoved(cleaning.entry)
          BY <5>1, <5>3, LeftOvers DEF Removals
        <5> QED
          BY <4>1, <5>2, <5>3 DEF RemovalFails
      <4>2. CASE RemoveClone \/ RemoveIndex \/ RemoveManifest
        BY <2>0, <4>2 DEF RemoveClone, RemoveIndex, RemoveManifest, TypeOK
      <4> QED
        BY <2>4, <4>1, <4>2
    <3>3. Forget
      BY <2>4 DEF RemoveClone, RemovalFails, RemoveIndex, RemoveManifest
    <3>4. CASE OnDisk(n)'
      <4>1. entries'[n] = entries[n]
        BY <3>3, <3>4 DEF Forget
      <4>2. guessed'[n] = guessed[n]
        BY <3>3, <3>4, Zenon DEF Forget, TypeOK
      <4> QED
        BY <2>2, <3>1, <3>2, <4>1, <4>2
    <3>5. CASE ~OnDisk(n)'
      <4>1. entries'[n] = {}
        BY <3>3, <3>5 DEF Forget
      <4>2. EntryKnown(n)'
        BY <3>1, <3>5 DEF EntryKnown, OnDisk, Nothing
      <4> QED
        BY <4>1, <4>2 DEF Provenance
    <3> QED
      BY <3>4, <3>5
  <2>5. ASSUME NEW c \in Configs, Boot(c), index' = index, Less(clone[n], clone'[n])
        PROVE  Provenance(n)'
    <3>1. run'[n] = None /\ result'[n] = None /\ config' = c
      BY <2>5 DEF Boot, Nothing
    <3>2. /\ OnDisk(n)' => /\ entries'[n] \in {entries[n], entries[n] \cup {c[n]}}
                           /\ n \in DOMAIN c => c[n] \in entries'[n]
          /\ ~OnDisk(n)' => entries'[n] = {}
      BY <2>5 DEF Boot
    <3>3. OnDisk(n)' => (guessed'[n] <=> guessed[n])
      BY <2>5, Zenon DEF Boot
    <3>4. EntryKnown(n)'
      BY <2>1, <2>5, <3>1, <3>2 DEF EntryKnown, OnDisk, Configured, Less
    <3>5. ASSUME NEW e \in Entry, entries'[n] = {e} PROVE MadeFor(n, e)'
      <4>0. OnDisk(n)'
        BY <3>2, <3>5
      <4>1. CASE entries[n] = {}
        BY <2>1, <2>5, <3>1, <4>1, NothingMade DEF MadeFor, MadeAs, Less
      <4>2. CASE entries[n] # {}
        <5>1. entries[n] = {e}
          BY <3>2, <3>5, <4>0, <4>2
        <5>2. Sure(n, e)' <=> Sure(n, e)
          BY <3>3, <4>0 DEF Sure
        <5> QED
          BY <2>1, <2>5, <3>1, <5>1, <5>2 DEF MadeFor, MadeAs, Less
      <4> QED
        BY <4>1, <4>2
    <3> QED
      BY <3>4, <3>5 DEF Provenance
  <2>6. CASE Restart \/ Crash
    <3>1. Less(clone[n], clone'[n])
      <4>1. CASE UNCHANGED clone
        BY <2>0, <4>1
      <4>2. CASE cleaning # None /\ PartlyRemoved(cleaning.entry)
        <5>1. cleaning \in Removals /\ Top[cleaning.entry] = cleaning.entry
          BY <4>2 DEF TypeOK, Shape, Stages
        <5> QED
          BY <4>2, <5>1, LeftOvers DEF Removals
      <4> QED
        BY <2>6, <4>1, <4>2 DEF Restart, Crash
    <3> QED
      BY <2>5, <2>6, <3>1 DEF Restart, Crash
  <2>7. ASSUME NEW m \in Names, n # m, Run(m) PROVE Provenance(n)'
    BY <2>0, <2>2, <2>7, RunFrame
  <2>8. CASE StartInit(n)
    <3>1. /\ clone'[n] = [NoClone EXCEPT !.dir = "plain"] /\ run'[n].at = "init"
          /\ config' = config /\ index' = index /\ result' = result /\ guessed' = guessed
          /\ entries'[n] = entries[n] \cup {config[n]}
      BY <2>8, RunOnDisk DEF StartInit, RunKeeps, Go, At, TypeOK, Runs, Steps
    <3>2. clone'[n].origin = None /\ clone'[n].marker = None
      BY <3>1 DEF NoClone
    <3>3. EntryKnown(n)'
      BY <2>1, <3>1 DEF EntryKnown
    <3>4. ASSUME NEW e \in Entry, entries'[n] = {e} PROVE MadeFor(n, e)'
      <4>1. CASE entries[n] = {}
        BY <2>1, <3>1, <3>2, <4>1, NothingMade DEF MadeFor, MadeAs
      <4>2. CASE entries[n] # {}
        <5>1. entries[n] = {e}
          BY <3>1, <3>4, <4>2
        <5>2. Sure(n, e)' = Sure(n, e)
          BY <3>1 DEF Sure
        <5> QED
          BY <2>1, <3>1, <3>2, <5>1, <5>2 DEF MadeFor, MadeAs
      <4> QED
        BY <4>1, <4>2
    <3> QED
      BY <3>3, <3>4 DEF Provenance
  <2>9. CASE Fail(n)
    <3>1. /\ run'[n].at = "failed" /\ config' = config
          /\ UNCHANGED <<clone, index, result, entries, guessed>>
      BY <2>9 DEF Fail, Go, RunKeeps, TypeOK, Runs, Steps
    <3> QED
      BY <2>0, <2>2, <3>1
  <2>10. ASSUME Run(n), ~StartInit(n), ~Fail(n) PROVE Provenance(n)'
    <3> DEFINE e == config[n]
    <3>1. run[n] # None /\ config' = config /\ entries' = entries
      BY <2>10, RunFrame
      DEF Run, EndInit, AddRemote, Contact, ContactFails, Open, MarkerFails, Resolve,
          ResolveUnmarked, CloneFetch, Fetch, DoFetch, Reuse, Build
    <3>2. n \in Configured /\ e \in Entry /\ RunShape(run[n], clone[n]) /\ CloneShape(clone[n])
      BY <3>1 DEF Shape, Stages, TypeOK, Configured
    <3>3. run[n].at \notin {"start", "failed"} \/ clone[n].dir \in {"bare", "repo", "damaged"}
      BY <2>10 DEF Run, EndInit, AddRemote, Contact, ContactFails, Open, Opens, MarkerFails,
         CloneFetch, Fetch, Reuse, Build, At
    <3>4. e \in entries[n]
      BY <2>1, <3>1, <3>2, <3>3 DEF EntryKnown
    <3>5. EntryKnown(n)'
      BY <3>1, <3>4 DEF EntryKnown
    <3> SUFFICES ASSUME entries[n] = {e} PROVE MadeFor(n, e)'
      BY <3>1, <3>4, <3>5 DEF Provenance
    <3>6. MadeFor(n, e)
      BY <2>1, <3>2
    <3> HIDE DEF e
    <3>7. CASE EndInit(n) \/ AddRemote(n)
      <4>1. /\ clone'[n].marker = clone[n].marker
            /\ clone'[n].origin \in {clone[n].origin, e.url}
        BY <3>7, RunOnDisk DEF e
      <4>2. run'[n].at \in {"added", "contact"} /\ UNCHANGED <<index, result, guessed>>
        BY <3>7 DEF EndInit, AddRemote, Go, At, TypeOK, Runs, Steps
      <4>3. Sure(n, e)' = Sure(n, e)
        BY <3>1, <4>2 DEF Sure, e
      <4> QED
        BY <3>1, <3>6, <4>1, <4>2, <4>3 DEF MadeFor, MadeAs, e
    <3>8. ASSUME clone'[n].origin = clone[n].origin,
                 clone'[n].marker \in {clone[n].marker, run'[n].ref}, UNCHANGED <<index, result>>,
                 Sure(n, e)' => Sure(n, e) /\ run'[n].ref = Right(e)
          PROVE  MadeFor(n, e)'
      BY <3>1, <3>6, <3>8 DEF MadeFor, MadeAs, e
    <3>9. At(n, "contact") => NewRef(n) = Right(e)
      BY <3>2, <3>6 DEF At, RunShape, CloneShape, MadeFor, NewRef, Right, e
    <3>10. e.ref # None \/ clone[n].marker # None => (Sure(n, e) => OldRef(n) = Right(e))
      BY <3>6 DEF MadeFor, MadeAs, OldRef, Right, e
    <3>11. ASSUME guessed' = [guessed EXCEPT ![n] = @ \/ Guesses(n)], Sure(n, e)'
           PROVE  Sure(n, e) /\ OldRef(n) = Right(e)
      <4>1. guessed \in [Names -> BOOLEAN]
        BY DEF TypeOK
      <4>2. guessed'[n] = (guessed[n] \/ Guesses(n))
        BY <3>11, <4>1
      <4>3. e.ref # None \/ (~guessed[n] /\ clone[n].marker # None)
        BY <3>1, <3>11, <4>2 DEF Sure, Guesses, e
      <4> QED
        BY <3>10, <4>3 DEF Sure
    <3>12. \A ref, step : Resolve(n, ref, step) \/ ResolveUnmarked(n, ref, step) =>
             /\ run'[n].ref = ref /\ UNCHANGED <<index, result>>
             /\ clone'[n].origin = clone[n].origin /\ clone'[n].marker \in {clone[n].marker, ref}
      <4> SUFFICES ASSUME NEW ref, NEW step,
                          Resolve(n, ref, step) \/ ResolveUnmarked(n, ref, step)
                   PROVE  /\ run'[n].ref = ref /\ UNCHANGED <<index, result>>
                          /\ clone'[n].origin = clone[n].origin
                          /\ clone'[n].marker \in {clone[n].marker, ref}
        OBVIOUS
      <4>1. run'[n].ref = ref /\ UNCHANGED <<index, result>>
        BY DEF Resolve, ResolveUnmarked, TypeOK
      <4>2. CASE Resolve(n, ref, step)
        BY <4>1, <4>2, RunOnDisk
      <4>3. CASE ResolveUnmarked(n, ref, step)
        BY <4>1, <4>3 DEF ResolveUnmarked
      <4> QED
        BY <4>2, <4>3
    <3>13. CASE Contact(n)
      <4>1. Resolve(n, NewRef(n), "clonefetch") /\ guessed' = guessed
        BY <3>13 DEF Contact
      <4>2. Sure(n, e)' => Sure(n, e) /\ NewRef(n) = Right(e)
        BY <3>1, <3>9, <3>13, <4>1 DEF Contact, Sure, e
      <4> QED
        BY <3>8, <3>12, <4>1, <4>2
    <3>14. CASE ContactFails(n)
      <4>1. ~Sure(n, e)'
        BY <3>1, <3>14 DEF ContactFails, Sure, TypeOK, e
      <4> QED
        BY <3>8, <3>12, <3>14, <4>1 DEF ContactFails
    <3>15. CASE Open(n)
      <4>1. Resolve(n, OldRef(n), "fetch")
        BY <3>15 DEF Open
      <4>2. Sure(n, e)' => Sure(n, e) /\ OldRef(n) = Right(e)
        BY <3>11, <3>15 DEF Open
      <4> QED
        BY <3>8, <3>12, <4>1, <4>2
    <3>16. CASE MarkerFails(n)
      <4>1. CASE At(n, "contact") /\ ResolveUnmarked(n, NewRef(n), "clonefetch")
                 /\ guessed' = guessed
        <5>1. Sure(n, e)' => Sure(n, e) /\ NewRef(n) = Right(e)
          BY <3>1, <3>9, <4>1 DEF Sure, e
        <5> QED
          BY <3>8, <3>12, <4>1, <5>1
      <4>2. CASE ResolveUnmarked(n, OldRef(n), "fetch")
                 /\ guessed' = [guessed EXCEPT ![n] = @ \/ Guesses(n)]
        <5>1. Sure(n, e)' => Sure(n, e) /\ OldRef(n) = Right(e)
          BY <3>11, <4>2
        <5> QED
          BY <3>8, <3>12, <4>2, <5>1
      <4> QED
        BY <3>16, <4>1, <4>2 DEF MarkerFails
    <3>17. CASE Contact(n) \/ ContactFails(n) \/ Open(n) \/ MarkerFails(n)
      BY <3>17, <3>13, <3>14, <3>15, <3>16
    <3>18. CASE CloneFetch(n) \/ Fetch(n)
      <4>1. /\ clone'[n].marker = clone[n].marker /\ clone'[n].origin = clone[n].origin
        BY <3>18, RunOnDisk
      <4>2. run[n].at \in {"clonefetch", "fetch"} /\ UNCHANGED <<index, result, guessed>>
        BY <3>18 DEF CloneFetch, Fetch, DoFetch, At
      <4>3. run'[n].ref = run[n].ref
        BY <3>1, <3>18 DEF CloneFetch, Fetch, DoFetch, Go, TypeOK, Runs
      <4>4. Sure(n, e)' = Sure(n, e)
        BY <3>1, <4>2 DEF Sure, e
      <4> QED
        BY <3>1, <3>6, <4>1, <4>2, <4>3, <4>4 DEF MadeFor, MadeAs, e
    <3>19. CASE Reuse(n) \/ Build(n)
      <4>1. /\ run[n].at \in {"reuse", "build"} /\ UNCHANGED <<clone, guessed>>
            /\ run'[n].at = "returned"
        BY <3>19 DEF Reuse, Build, Go, At, TypeOK, Runs, Steps
      <4>2. Sure(n, e)' = Sure(n, e)
        BY <3>1, <4>1 DEF Sure, e
      <4>3. CASE Reuse(n)
        <5>1. index' = index /\ result'[n] = index[n]
          BY <4>3 DEF Reuse, TypeOK
        <5> QED
          BY <3>1, <3>6, <4>1, <4>2, <5>1 DEF MadeFor, MadeAs, e
      <4>4. CASE Build(n)
        <5>1. /\ result'[n] = index'[n] /\ index'[n].url = clone[n].origin
              /\ index'[n].ref = run[n].ref
          BY <4>4, RunOnDisk
        <5>2. clone[n].origin = e.url
          BY <3>2, <3>6, <4>1 DEF MadeFor, RunShape, CloneShape
        <5>3. Sure(n, e) => run[n].ref = Right(e) /\ MadeAs(n, e)
          BY <3>1, <3>6, <4>1 DEF MadeFor, MadeAs
        <5>4. Sure(n, e) => IsOf(index'[n], e)
          BY <5>1, <5>2, <5>3 DEF IsOf, Right
        <5> QED
          BY <3>1, <3>6, <4>1, <4>2, <5>1, <5>3, <5>4 DEF MadeFor, MadeAs, e
      <4> QED
        BY <3>19, <4>3, <4>4
    <3> QED
      BY <2>10, <3>7, <3>17, <3>18, <3>19 DEF Run
  <2> QED
    BY <2>3, <2>4, <2>6, <2>7, <2>8, <2>9, <2>10 DEF Next, Cleanup
<1>3. TypeOK /\ Inv /\ (\A n \in Names : GuessedByFault(n)) => ResultIsConfigured
  BY DEF ResultIsConfigured, Steady, Configured, Provenance, MadeFor, MadeAs, Sure,
         GuessedByFault, TypeOK
<1> QED
  BY <1>1, <1>2, <1>3, TypeCorrect, GuessesComeOfFaults, PTL DEF Spec

=============================================================================
