----------------------------- MODULE RepoMirror -----------------------------
(***************************************************************************)
(* What the pipeline of one repository promises while nothing fails: the   *)
(* server mirrors the tracked branch.  It sees the commit of the remote    *)
(* now and then, and serves the content of the commit it saw last: never   *)
(* of a commit it has moved on from, never a mixture.                      *)
(***************************************************************************)
CONSTANTS Commits, Content, None

VARIABLES
    remote,  \* the commit the branch points to
    seen,    \* the commit seen last, or None
    served   \* the content served, or None

mirrorVars == <<remote, seen, served>>

Init == remote \in Commits /\ seen = None /\ served = None

Push  == remote' \in Commits \ {remote} /\ UNCHANGED <<seen, served>>
See   == seen' = remote /\ UNCHANGED <<remote, served>>
Serve == seen # None /\ served' = Content[seen] /\ UNCHANGED <<remote, seen>>

Next == Push \/ See \/ Serve

\* Safety alone, and with the progress a poll loop gives.
SafeSpec == Init /\ [][Next]_mirrorVars
Spec == SafeSpec /\ WF_mirrorVars(See) /\ WF_mirrorVars(Serve)
=============================================================================
