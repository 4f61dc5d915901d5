--------------------------- MODULE MCRepoPipeline ---------------------------
(***************************************************************************)
(* Instances of RepoPipeline for TLC.                                      *)
(*                                                                         *)
(* Three commits over two paths: c2 changes p and drops q, c3 restores the *)
(* p of c1 (a revert) and adds a different q; c1 holds a binary file at q. *)
(*                                                                         *)
(* Where every fault may happen and two threads may run, two commits over  *)
(* three paths: c2 changes p, drops q and adds a binary r.  The branch may *)
(* move back to c1, which is where a stale manifest does its harm.         *)
(***************************************************************************)
EXTENDS RepoPipeline, TLC

CONSTANTS c1, c2, c3, p, q, r, b1, b2, bin, w1, w2

MCCommits == {c1, c2, c3}
MCPaths == {p, q}
MCBlobs == {b1, b2, bin}
MCIndexable == {b1, b2}
MCTreeOf == c1 :> (p :> b1 @@ q :> bin) @@ c2 :> (p :> b2) @@ c3 :> (p :> b1 @@ q :> b2)

Two == {c1, c2}
TwoPaths == {p, q, r}
TwoTreeOf == c1 :> (p :> b1 @@ q :> b1) @@ c2 :> (p :> b2 @@ r :> bin)

OneWorker == {w1}
TwoWorkers == {w1, w2}

Faultless == {}
ErrorsOnly == {"error"}
ShutdownsOnly == {"cancel"}

\* Two threads of the pool are interchangeable.
AnyWorker == Permutations(TwoWorkers)
=============================================================================
