----------------------------- MODULE AtomicIndex ----------------------------
(***************************************************************************)
(* What the index file of a repository promises to those who search it: a  *)
(* register that is replaced as a whole, and views that never change once  *)
(* they are taken.                                                         *)
(***************************************************************************)
CONSTANTS Contents, Readers, None

VARIABLES
    current,  \* the published index, or None
    view      \* what each reader sees through its mapping, or None

registerVars == <<current, view>>

Init == current = None /\ view = [r \in Readers |-> None]

Replace == current' \in Contents /\ UNCHANGED view
Look(r) == current # None /\ view' = [view EXCEPT ![r] = current] /\ UNCHANGED current
Drop(r) == view' = [view EXCEPT ![r] = None] /\ UNCHANGED current
\* The readers die with the process, the register does not.
Crash   == view' = [r \in Readers |-> None] /\ UNCHANGED current

Next == Replace \/ Crash \/ \E r \in Readers : Look(r) \/ Drop(r)

Spec == Init /\ [][Next]_registerVars
=============================================================================
