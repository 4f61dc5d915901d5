--------------------------- MODULE MCSearchCache ----------------------------
(***************************************************************************)
(* Instances of SearchCache for TLC: two requests over two keys, with room *)
(* for one answer, so that every store of the other key evicts.            *)
(***************************************************************************)
EXTENDS SearchCache

CONSTANTS a, b, ka, kb

MCClients == {a, b}
MCKeys == {ka, kb}

=============================================================================
