----------------------------- MODULE SearchCache ----------------------------
(***************************************************************************)
(* The shared state of the server between the requests and the watcher:    *)
(* AppState of crates/houndr-server/src/state.rs, search_handler() of      *)
(* api.rs and the end of run_indexing() in main.rs.                        *)
(*                                                                         *)
(* A generation stands for one content of AppState.readers.  A search      *)
(* takes the read guard of the readers, then that of the refs, searches,   *)
(* drops the refs and, still under the guard of the readers, stores its    *)
(* answer in the cache.  The watcher replaces the readers under the write  *)
(* lock and clears the cache afterwards, in a second critical section.     *)
(* Locks are tokio's: once a writer waits, later readers queue behind it.  *)
(***************************************************************************)
EXTENDS Integers, FiniteSets

CONSTANTS
    Clients,   \* requests in flight
    Keys,      \* cache keys: the query with all its parameters
    Capacity,  \* max_entries of the cache
    MaxGen,    \* bound: how often the watcher replaces the readers
    None

ASSUME SearchCacheConstants ==
    /\ Capacity \in Nat \ {0}
    /\ MaxGen \in Nat
    /\ None \notin Nat \cup Keys \cup [gen : Nat, live : BOOLEAN]

Gens == 0..MaxGen

\* A cached answer: the generation it was computed from, and whether its TTL still runs.
Entry == [gen : Gens, live : BOOLEAN]

VARIABLES
    gen,      \* the generation of AppState.readers
    cleared,  \* the generation whose cycle has cleared the cache
    cache,    \* the cached entry of each key, or None
    watcher,  \* where the watcher is
    pc,       \* where each request is
    key,      \* the cache key of each request, or None
    saw,      \* the generation a request has searched, or None
    floor,    \* the generation that was in force when the request arrived
    got       \* the generation its last answer came from, or None

server == <<gen, cleared, cache, watcher>>
client == <<pc, key, saw, floor, got>>
vars   == <<server, client>>

WatcherStages == {"index", "refs", "swap", "clear"}
Stages == {"idle", "lookup", "plan", "readers", "refs", "search", "store"}

TypeOK ==
    /\ gen \in Gens /\ cleared \in Gens
    /\ cache \in [Keys -> Entry \cup {None}]
    /\ watcher \in WatcherStages
    /\ pc \in [Clients -> Stages]
    /\ key \in [Clients -> Keys \cup {None}]
    /\ saw \in [Clients -> Gens \cup {None}]
    /\ floor \in [Clients -> Gens]
    /\ got \in [Clients -> Gens \cup {None}]

EmptyCache == [k \in Keys |-> None]

Init ==
    /\ gen = 0 /\ cleared = 0
    /\ cache = EmptyCache
    /\ watcher = "index"
    /\ pc = [c \in Clients |-> "idle"]
    /\ key = [c \in Clients |-> None]
    /\ saw = [c \in Clients |-> None]
    /\ floor = [c \in Clients |-> 0]
    /\ got = [c \in Clients |-> None]

-----------------------------------------------------------------------------
\* Mutant: the guard is dropped before the answer is stored.
HoldsReadersUntilFound(c) == pc[c] \in {"refs", "search"}

\* The read guard of the readers is held until search_handler returns, that
\* of the refs while it searches.
HoldsReaders(c) == pc[c] \in {"refs", "search", "store"}
HoldsRefs(c)    == pc[c] = "search"

GoTo(c, from, to) == pc[c] = from /\ pc' = [pc EXCEPT ![c] = to]

\* Mutant: an answer leaves the request behind.
AnswerStaying(c, g) ==
    /\ pc' = [pc EXCEPT ![c] = "answered"]
    /\ got' = [got EXCEPT ![c] = g]
    /\ UNCHANGED <<key, saw, floor>>

\* The handler returns an answer of generation g (None: an error), and its
\* guards are released.
Answer(c, g) ==
    /\ pc' = [pc EXCEPT ![c] = "idle"]
    /\ got' = [got EXCEPT ![c] = g]
    /\ key' = [key EXCEPT ![c] = None]
    /\ saw' = [saw EXCEPT ![c] = None]
    /\ UNCHANGED floor

\* A request comes in.
Arrive(c) ==
    /\ GoTo(c, "idle", "lookup")
    /\ \E k \in Keys : key' = [key EXCEPT ![c] = k]
    /\ floor' = [floor EXCEPT ![c] = cleared]
    /\ got' = [got EXCEPT ![c] = None]
    /\ UNCHANGED <<server, saw>>

\* get_cached finds a live entry.
Hit(c) ==
    /\ pc[c] = "lookup"
    /\ cache[key[c]] # None /\ cache[key[c]].live
    /\ Answer(c, cache[key[c]].gen)
    /\ UNCHANGED server

\* get_cached finds nothing; an expired entry is popped.
Miss(c) ==
    /\ GoTo(c, "lookup", "plan")
    /\ cache[key[c]] # None => ~cache[key[c]].live
    /\ cache' = [cache EXCEPT ![key[c]] = None]
    /\ UNCHANGED <<gen, cleared, watcher, key, saw, floor, got>>

\* QueryPlan::new rejects the query: 400.
Reject(c) == pc[c] = "plan" /\ Answer(c, None) /\ UNCHANGED server

Plan(c) == GoTo(c, "plan", "readers") /\ UNCHANGED <<server, key, saw, floor, got>>

\* Mutant: a lock that prefers readers.
LockReadersFirst(c) ==
    /\ GoTo(c, "readers", "refs")
    /\ UNCHANGED <<server, key, saw, floor, got>>

\* state.readers.read(): queues behind a waiting writer.
LockReaders(c) ==
    /\ watcher # "swap"
    /\ GoTo(c, "readers", "refs")
    /\ UNCHANGED <<server, key, saw, floor, got>>

\* Mutant: the watcher keeps the lock of the refs while it waits to swap.
LockRefsBehindSwap(c) ==
    /\ watcher \notin {"refs", "swap"}
    /\ GoTo(c, "refs", "search")
    /\ UNCHANGED <<server, key, saw, floor, got>>

\* state.resolved_refs.read().
LockRefs(c) ==
    /\ watcher # "refs"
    /\ GoTo(c, "refs", "search")
    /\ UNCHANGED <<server, key, saw, floor, got>>

\* The parallel search; the refs are dropped.  An answer without a file is
\* not cached.
Found(c) ==
    /\ GoTo(c, "search", "store")
    /\ saw' = [saw EXCEPT ![c] = gen]
    /\ UNCHANGED <<server, key, floor, got>>

FoundNothing(c) == pc[c] = "search" /\ Answer(c, gen) /\ UNCHANGED server

Cached == {k \in Keys : cache[k] # None}

\* LruCache::put, a library: the entry that has to go when k is put is none but
\* k's own if k is there or fits.  It evicts the least recently used one; which
\* one that is makes no difference to any property here.
Victims(k) == IF k \in Cached \/ Cardinality(Cached) < Capacity THEN {k} ELSE Cached

\* set_cached, still under the guard of the readers.
Store(c) ==
    /\ pc[c] = "store"
    /\ \E k \in Victims(key[c]) :
        cache' = [cache EXCEPT ![k] = None, ![key[c]] = [gen |-> saw[c], live |-> TRUE]]
    /\ Answer(c, saw[c])
    /\ UNCHANGED <<gen, cleared, watcher>>

\* The timeout layer or a closed connection drops the handler where it awaits
\* a lock, and its guards with it.
Abandon(c) ==
    /\ pc[c] \in {"lookup", "readers", "refs", "store"}
    /\ Answer(c, None)
    /\ UNCHANGED server

\* The TTL of an entry runs out.
Expire(k) ==
    /\ cache[k] # None /\ cache[k].live
    /\ cache' = [cache EXCEPT ![k].live = FALSE]
    /\ UNCHANGED <<gen, cleared, watcher, client>>

-----------------------------------------------------------------------------
(***************************************************************************)
(* The watcher.  "refs" and "swap" are its waits for a write lock.         *)
(***************************************************************************)

\* A repository has been indexed.
CollectOne ==
    /\ watcher = "index" /\ gen < MaxGen
    /\ watcher' = "refs"
    /\ UNCHANGED <<gen, cleared, cache, client>>

\* resolved_refs.write(), once for every repository indexed.
UpdateRefs ==
    /\ watcher = "refs"
    /\ \A c \in Clients : ~HoldsRefs(c)
    /\ watcher' \in {"index", "swap"}
    /\ UNCHANGED <<gen, cleared, cache, client>>

\* readers.write(): the merged readers replace the old ones.
SwapReaders ==
    /\ watcher = "swap"
    /\ \A c \in Clients : ~HoldsReaders(c)
    /\ gen' = gen + 1
    /\ watcher' = "clear"
    /\ UNCHANGED <<cleared, cache, client>>

\* Mutant: one entry outlives the clearing.
ClearSome ==
    /\ watcher = "clear"
    /\ \E k \in Keys : cache' = [EmptyCache EXCEPT ![k] = cache[k]]
    /\ cleared' = gen
    /\ watcher' = "index"
    /\ UNCHANGED <<gen, client>>

\* clear_cache(), in a critical section of its own; the cycle is over.
ClearCache ==
    /\ watcher = "clear"
    /\ cache' = EmptyCache
    /\ cleared' = gen
    /\ watcher' = "index"
    /\ UNCHANGED <<gen, client>>

Handle(c) ==
    \/ Hit(c) \/ Miss(c) \/ Reject(c) \/ Plan(c) \/ LockReaders(c) \/ LockRefs(c)
    \/ Found(c) \/ FoundNothing(c) \/ Store(c)

Watch == CollectOne \/ UpdateRefs \/ SwapReaders \/ ClearCache

Next ==
    \/ \E c \in Clients : Arrive(c) \/ Handle(c) \/ Abandon(c)
    \/ \E k \in Keys : Expire(k)
    \/ Watch

Spec == Init /\ [][Next]_vars

\* Searches end, and whoever can take a lock takes it.  tokio's locks are
\* first come, first served: a request whose lock becomes free again and again
\* gets it.  Requests need not come.
FairSpec ==
    /\ Spec
    /\ WF_vars(Watch)
    /\ \A c \in Clients :
        WF_vars(Handle(c)) /\ SF_vars(LockReaders(c)) /\ SF_vars(LockRefs(c))

-----------------------------------------------------------------------------
(***************************************************************************)
(* Properties.                                                             *)
(***************************************************************************)

\* The cache never holds an answer of a generation that is neither the one in
\* force nor, between the swap and the clearing, the one before; above all, no
\* answer computed before a swap is stored after the clearing that follows it.
CacheCoherent ==
    \A k \in Keys : cache[k] # None =>
        \/ cache[k].gen = gen
        \/ watcher = "clear" /\ cache[k].gen + 1 = gen

\* A request that arrives after a cycle is complete is never answered from the
\* indexes that cycle has replaced, neither by the cache nor by a search.
FreshAnswer == \A c \in Clients : got[c] # None => got[c] >= floor[c]

\* A continuous stream of searches cannot keep the watcher from publishing.
PublishesEventually == watcher = "swap" ~> watcher = "clear"

\* Nobody waits for ever: no order in which requests and watcher take the
\* three locks ends in a deadlock.
AnsweredEventually == \A c \in Clients : pc[c] = "lookup" ~> pc[c] = "idle"
=============================================================================
