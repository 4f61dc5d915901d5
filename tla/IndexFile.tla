------------------------------ MODULE IndexFile -----------------------------
(***************************************************************************)
(* How an index reaches the disk and how it is read: write_index() of      *)
(* crates/houndr-index/src/writer.rs, and the opening and mapping of       *)
(* IndexReader::open() in reader.rs.                                       *)
(*                                                                         *)
(* Names and inodes are kept apart, for that is where the file protocol    *)
(* lives: every writer of a repository uses the same temporary name, opens *)
(* it by name three times (create, checksum, append), and a mapped reader  *)
(* follows the inode, not the name.  A file is a body and a footer.  A     *)
(* body is complete, or Torn: neither empty nor the image of one index.    *)
(* What is in the image of an index is in IndexLayout.                     *)
(***************************************************************************)
EXTENDS IndexLayout

CONSTANTS
    Contents,  \* the indexes a writer may have built
    Writers,   \* threads inside write_index for this repository
    Readers,   \* IndexReader values, each with a mapping
    Inodes,    \* bound: files that exist at a time
    Overlap,   \* may a second writer start while another is at work?
    Empty, Torn, None

Bodies == Contents \cup {Empty, Torn}

\* The footer: missing, the checksum of what precedes it, or anything else.
Seals == {"none", "good", "bad"}

Image == [body : Bodies, seal : Seals]
Blank == [body |-> Empty, seal |-> "none"]

ASSUME IndexFileConstants ==
    /\ Overlap \in BOOLEAN
    /\ Empty # Torn /\ Empty \notin Contents /\ Torn \notin Contents
    /\ None \notin Inodes \cup Contents \cup [ino : Inodes, saw : Image]

VARIABLES
    file,    \* the bytes of every inode
    shared,  \* the inodes that two writers have held open together
    tmp,     \* the inode <name>.tmp names, or None
    idx,     \* the inode <name>.idx names, or None
    pc,      \* the phase of each writer
    want,    \* the index each writer was given, or None
    fd,      \* the inode each writer has open for the body, or None
    sum,     \* the bytes over which each writer computed its checksum, or None
    map      \* the inode and the image each reader validated, or None

names   == <<tmp, idx>>
writer  == <<pc, want, fd, sum>>
vars    == <<file, shared, names, writer, map>>

Phases == {"idle", "start", "body", "check", "seal", "rename"}

TypeOK ==
    /\ file \in [Inodes -> Image]
    /\ shared \subseteq Inodes
    /\ tmp \in Inodes \cup {None} /\ idx \in Inodes \cup {None}
    /\ pc \in [Writers -> Phases]
    /\ want \in [Writers -> Contents \cup {None}]
    /\ fd \in [Writers -> Inodes \cup {None}]
    /\ sum \in [Writers -> Image \cup {None}]
    /\ map \in [Readers -> [ino : Inodes, saw : Image] \cup {None}]

Init ==
    /\ file = [i \in Inodes |-> Blank]
    /\ shared = {}
    /\ tmp = None /\ idx = None
    /\ pc = [w \in Writers |-> "idle"]
    /\ want = [w \in Writers |-> None]
    /\ fd = [w \in Writers |-> None]
    /\ sum = [w \in Writers |-> None]
    /\ map = [r \in Readers |-> None]

-----------------------------------------------------------------------------
\* Nothing refers to i: the file system may use it for a new file.
Free(i) ==
    /\ i # tmp /\ i # idx
    /\ \A w \in Writers : fd[w] # i
    /\ \A r \in Readers : map[r] # None => map[r].ino # i

\* Mutant: a writer that leaves does not become idle.
LeaveClosed(w) ==
    /\ pc' = [pc EXCEPT ![w] = "closed"]
    /\ UNCHANGED <<want, fd, sum>>

\* w leaves write_index; its descriptor is closed, the files stay.
Leave(w) ==
    /\ pc' = [pc EXCEPT ![w] = "idle"]
    /\ want' = [want EXCEPT ![w] = None]
    /\ fd' = [fd EXCEPT ![w] = None]
    /\ sum' = [sum EXCEPT ![w] = None]

\* Mutant: the index is rewritten in place.
CreateInPlace(w) ==
    /\ \A v \in Writers : pc[v] = "idle"
    /\ \E c \in Contents : want' = [want EXCEPT ![w] = c]
    /\ \E i \in Inodes :
        /\ IF idx = None THEN Free(i) ELSE i = idx
        /\ file' = [file EXCEPT ![i] = Blank]
        /\ tmp' = i
        /\ fd' = [fd EXCEPT ![w] = i]
    /\ pc' = [pc EXCEPT ![w] = "start"]
    /\ UNCHANGED <<shared, idx, sum, map>>

\* write_index(c) is called and creates the temporary file.  An existing file
\* of that name, left by a crash, an error or another writer, is truncated
\* and reused.
Create(w) ==
    /\ pc[w] = "idle"
    /\ Overlap \/ \A v \in Writers : pc[v] = "idle"
    /\ \E c \in Contents : want' = [want EXCEPT ![w] = c]
    /\ \E i \in Inodes :
        /\ IF tmp = None THEN Free(i) ELSE i = tmp
        /\ file' = [file EXCEPT ![i] = Blank]
        /\ tmp' = i
        /\ fd' = [fd EXCEPT ![w] = i]
        /\ shared' = IF \E v \in Writers : fd[v] = i THEN shared \cup {i}
                                                     ELSE shared \ {i}
    /\ pc' = [pc EXCEPT ![w] = "start"]
    /\ UNCHANGED <<idx, sum, map>>

\* What a footer that is already there is worth after the body has changed.
Spoilt(seal) == IF seal = "none" THEN "none" ELSE "bad"

\* Phases 1 to 7, part of which has reached the file.
WriteSome(w) ==
    /\ pc[w] = "start"
    /\ file' = [file EXCEPT ![fd[w]] = [body |-> Torn, seal |-> Spoilt(@.seal)]]
    /\ pc' = [pc EXCEPT ![w] = "body"]
    /\ UNCHANGED <<shared, names, want, fd, sum, map>>

\* The rest, and the header of phase 8; the descriptor is closed.  Two writers
\* of one inode may leave the image of the last one or a mixture.
WriteRest(w) ==
    /\ pc[w] = "body"
    /\ \E b \in {want[w]} \cup (IF fd[w] \in shared THEN {Torn} ELSE {}) :
        file' = [file EXCEPT ![fd[w]] = [body |-> b, seal |-> Spoilt(@.seal)]]
    /\ fd' = [fd EXCEPT ![w] = None]
    /\ pc' = [pc EXCEPT ![w] = "check"]
    /\ UNCHANGED <<shared, names, want, sum, map>>

\* Phase 9: the file of that name, whoever wrote it, is read back.
Checksum(w) ==
    /\ pc[w] = "check" /\ tmp # None
    /\ sum' = [sum EXCEPT ![w] = file[tmp]]
    /\ pc' = [pc EXCEPT ![w] = "seal"]
    /\ UNCHANGED <<file, shared, names, want, fd, map>>

\* The footer is appended to the file of that name.  Two torn bodies may or
\* may not be the same bytes.
AppendFooter(w) ==
    /\ pc[w] = "seal" /\ tmp # None
    /\ \E s \in IF sum[w] # file[tmp] THEN {"bad"}
                ELSE IF file[tmp].body = Torn THEN {"good", "bad"} ELSE {"good"} :
        file' = [file EXCEPT ![tmp].seal = s]
    /\ pc' = [pc EXCEPT ![w] = "rename"]
    /\ UNCHANGED <<shared, names, want, fd, sum, map>>

\* Mutants: the rename comes before the footer; the old index is unlinked first.
RenameUnsealed(w) ==
    /\ pc[w] \in {"seal", "rename"} /\ tmp # None
    /\ idx' = tmp /\ tmp' = None
    /\ Leave(w)
    /\ UNCHANGED <<file, shared, map>>
RenameAfterUnlink(w) ==
    /\ pc[w] = "rename" /\ tmp # None
    /\ IF idx # None
       THEN idx' = None /\ UNCHANGED <<tmp, writer>>
       ELSE idx' = tmp /\ tmp' = None /\ Leave(w)
    /\ UNCHANGED <<file, shared, map>>

\* The atomic swap.
Rename(w) ==
    /\ pc[w] = "rename" /\ tmp # None
    /\ idx' = tmp /\ tmp' = None
    /\ Leave(w)
    /\ UNCHANGED <<file, shared, map>>

\* Any call of write_index may fail, and those by name do when another writer
\* has renamed the file away.
Fail(w) ==
    /\ pc[w] # "idle"
    /\ Leave(w)
    /\ UNCHANGED <<file, shared, names, map>>

\* IndexReader::open: the mapping is kept if size, magic, version and checksum
\* are right.  A file with the right checksum over a torn body may or may not
\* have the right header.
Open(r) ==
    /\ map[r] = None /\ idx # None
    /\ file[idx].seal = "good"
    /\ map' = [map EXCEPT ![r] = [ino |-> idx, saw |-> file[idx]]]
    /\ UNCHANGED <<file, shared, names, writer>>

\* The last Arc of a reader is dropped.
Close(r) ==
    /\ map[r] # None
    /\ map' = [map EXCEPT ![r] = None]
    /\ UNCHANGED <<file, shared, names, writer>>

\* The process dies.  Written pages survive it: the page cache is the
\* kernel's.  A power failure is not modelled: nothing in the code syncs.
Crash ==
    /\ pc' = [w \in Writers |-> "idle"]
    /\ want' = [w \in Writers |-> None]
    /\ fd' = [w \in Writers |-> None]
    /\ sum' = [w \in Writers |-> None]
    /\ map' = [r \in Readers |-> None]
    /\ UNCHANGED <<file, shared, names>>

Next ==
    \/ \E w \in Writers :
        \/ Create(w) \/ WriteSome(w) \/ WriteRest(w) \/ Checksum(w)
        \/ AppendFooter(w) \/ Rename(w) \/ Fail(w)
    \/ \E r \in Readers : Open(r) \/ Close(r)
    \/ Crash

Spec == Init /\ [][Next]_vars

-----------------------------------------------------------------------------
(***************************************************************************)
(* Properties.                                                             *)
(***************************************************************************)

\* The name <name>.idx never names a file that IndexReader::open would refuse,
\* or would accept although it is not the image of one index: after a crash at
\* any point the pre-load of the next start finds the last index complete.
PublishedIsWhole ==
    idx # None => file[idx].body \in Contents /\ file[idx].seal = "good"

\* The bytes under a mapped reader are those it validated when it was opened,
\* however many indexes have been written since.
MappedIntact ==
    \A r \in Readers :
        map[r] # None => file[map[r].ino] = map[r].saw /\ map[r].saw.body \in Contents

\* What write_index writes, a reader of it reads: the path and the content of
\* every document, and for every set of trigrams the documents that have them
\* all.  An index is refused only when its paths together, its documents or its
\* trigrams exceed 32 bits, and no offset of one that is written wraps.  Tried on all layouts where a first
\* index has been published and one reader has mapped it.
AllReadBack ==
    idx # None /\ tmp = None /\ (\A i \in Inodes \ {idx} : file[i] = Blank)
        /\ (\A w \in Writers : pc[w] = "idle") /\ (\E r \in Readers : map[r] # None)
        /\ (\E r \in Readers : map[r] = None)
            => \A index \in Indexes : ReadsBack(index)

\* The file protocol implements a register with stable views.
Register == INSTANCE AtomicIndex WITH
    current <- IF idx = None THEN None ELSE file[idx].body,
    view <- [r \in Readers |-> IF map[r] = None THEN None ELSE file[map[r].ino].body]
ImplementsRegister == Register!Spec
=============================================================================
