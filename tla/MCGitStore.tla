----------------------------- MODULE MCGitStore ------------------------------
(***************************************************************************)
(* An instance of GitStore for TLC: a name without and one with a slash.   *)
(* The default branch of the first remote is not "main"; the second one    *)
(* has a branch of that name and no other.                                 *)
(***************************************************************************)
EXTENDS GitStore, TLC

MCNames == {"flat", "org", "org/nested"}
MCTop == [n \in MCNames |-> IF n = "org/nested" THEN "org" ELSE n]
MCRemotes == [first  |-> [branches |-> {"dev", "main"}, default |-> "dev"],
              second |-> [branches |-> {"main"}, default |-> "main"]]

E1 == [url |-> "first", ref |-> None]
E2 == [url |-> "first", ref |-> "main"]
E3 == [url |-> "second", ref |-> None]
MCConfigs == {("flat" :> E1) @@ ("org/nested" :> E2),
              ("flat" :> E2),
              ("org/nested" :> E3) @@ ("org" :> E1)}
==============================================================================
