-------------------------- MODULE SearchCacheProofs -------------------------
(***************************************************************************)
(* What SearchCache promises, for any number of requests, keys and swaps   *)
(* and any capacity.                                                       *)
(***************************************************************************)
EXTENDS SearchCache, TLAPS

\* What a request knows at its stage: its key, and with an answer in hand that
\* it comes from the readers in force, which its guard has kept there.
Guarded ==
    /\ \A c \in Clients :
         /\ pc[c] # "idle" => key[c] \in Keys
         /\ pc[c] = "store" => saw[c] = gen
    /\ watcher \in {"refs", "swap"} => gen < MaxGen

\* Every variable keeps its type: above all the generations stay numbers, and a
\* request that stores an answer has one, of the readers it still guards.
THEOREM TypeCorrect == Spec => [](TypeOK /\ Guarded)
<1> DEFINE TypeInv == TypeOK /\ Guarded
<1>1. Init => TypeInv
  BY SearchCacheConstants DEF Init, TypeOK, Guarded, Gens, WatcherStages, Stages, EmptyCache
<1>2. TypeInv /\ [Next]_vars => TypeInv'
  <2> SUFFICES ASSUME TypeInv, [Next]_vars PROVE TypeInv'
    OBVIOUS
  <2> USE SearchCacheConstants
      DEF TypeOK, Guarded, Gens, Entry, WatcherStages, Stages, server, client
  <2>1. ASSUME NEW c \in Clients, Arrive(c) PROVE TypeInv'
    BY <2>1 DEF Arrive, GoTo
  <2>2. ASSUME NEW c \in Clients, Hit(c) PROVE TypeInv'
    BY <2>2 DEF Hit, Answer
  <2>3. ASSUME NEW c \in Clients, Miss(c) PROVE TypeInv'
    BY <2>3 DEF Miss, GoTo
  <2>4. ASSUME NEW c \in Clients, Reject(c) PROVE TypeInv'
    BY <2>4 DEF Reject, Answer
  <2>5. ASSUME NEW c \in Clients, Plan(c) PROVE TypeInv'
    BY <2>5 DEF Plan, GoTo
  <2>6. ASSUME NEW c \in Clients, LockReaders(c) PROVE TypeInv'
    BY <2>6 DEF LockReaders, GoTo
  <2>7. ASSUME NEW c \in Clients, LockRefs(c) PROVE TypeInv'
    BY <2>7 DEF LockRefs, GoTo
  <2>8. ASSUME NEW c \in Clients, Found(c) PROVE TypeInv'
    BY <2>8 DEF Found, GoTo
  <2>9. ASSUME NEW c \in Clients, FoundNothing(c) PROVE TypeInv'
    BY <2>9 DEF FoundNothing, Answer
  <2>10. ASSUME NEW c \in Clients, Store(c) PROVE TypeInv'
    BY <2>10 DEF Store, Answer
  <2>11. ASSUME NEW c \in Clients, Abandon(c) PROVE TypeInv'
    BY <2>11 DEF Abandon, Answer
  <2>12. ASSUME NEW k \in Keys, Expire(k) PROVE TypeInv'
    <3>1. cache[k] \in Entry /\ cache' = [cache EXCEPT ![k] = [@ EXCEPT !.live = FALSE]]
      BY <2>12 DEF Expire
    <3>2. [cache[k] EXCEPT !.live = FALSE] \in Entry
      BY <3>1
    <3>3. cache' \in [Keys -> Entry \cup {None}]
      BY <3>1, <3>2
    <3> QED
      BY <2>12, <3>3 DEF Expire
  <2>13. CASE CollectOne
    BY <2>13 DEF CollectOne
  <2>14. CASE UpdateRefs
    BY <2>14 DEF UpdateRefs
  <2>15. CASE SwapReaders
    BY <2>15 DEF SwapReaders, HoldsReaders
  <2>16. CASE ClearCache
    BY <2>16 DEF ClearCache, EmptyCache
  <2>17. CASE UNCHANGED vars
    BY <2>17 DEF vars
  <2> QED
    BY <2>1, <2>2, <2>3, <2>4, <2>5, <2>6, <2>7, <2>8, <2>9, <2>10, <2>11, <2>12,
       <2>13, <2>14, <2>15, <2>16, <2>17 DEF Next, Handle, Watch
<1> QED
  BY <1>1, <1>2, PTL DEF Spec

-----------------------------------------------------------------------------
\* The cycle that is complete is the last one, or the one before while the cache
\* has still to be cleared; no request is ahead of it.
Floors ==
    /\ gen = IF watcher = "clear" THEN cleared + 1 ELSE cleared
    /\ \A c \in Clients : floor[c] <= cleared

\* No answer of replaced readers is in the cache once the clearing is over, and
\* no request is answered from readers that were replaced by a cycle that was
\* complete when it came.  The first needs that a request between its search
\* and its store holds the readers (Guarded), the second how far apart swap and
\* clearing can be (Floors).
THEOREM CacheServesFresh == Spec => [](CacheCoherent /\ FreshAnswer /\ Floors)
<1> DEFINE Inv == CacheCoherent /\ FreshAnswer /\ Floors
<1>1. Init => Inv
  BY SearchCacheConstants DEF Init, CacheCoherent, FreshAnswer, Floors, EmptyCache
<1>2. TypeOK /\ Guarded /\ Inv /\ [Next]_vars => Inv'
  <2> SUFFICES ASSUME TypeOK, Guarded, Inv, [Next]_vars PROVE Inv'
    OBVIOUS
  <2> USE SearchCacheConstants
      DEF TypeOK, Guarded, Gens, Entry, WatcherStages, Stages, server, client,
          CacheCoherent, FreshAnswer, Floors
  <2>1. ASSUME NEW c \in Clients, Arrive(c) PROVE Inv'
    BY <2>1 DEF Arrive, GoTo
  <2>2. ASSUME NEW c \in Clients, Hit(c) PROVE Inv'
    BY <2>2 DEF Hit, Answer
  <2>3. ASSUME NEW c \in Clients, Miss(c) PROVE Inv'
    BY <2>3 DEF Miss, GoTo
  <2>4. ASSUME NEW c \in Clients, Reject(c) PROVE Inv'
    BY <2>4 DEF Reject, Answer
  <2>5. ASSUME NEW c \in Clients, Plan(c) PROVE Inv'
    BY <2>5 DEF Plan, GoTo
  <2>6. ASSUME NEW c \in Clients, LockReaders(c) PROVE Inv'
    BY <2>6 DEF LockReaders, GoTo
  <2>7. ASSUME NEW c \in Clients, LockRefs(c) PROVE Inv'
    BY <2>7 DEF LockRefs, GoTo
  <2>8. ASSUME NEW c \in Clients, Found(c) PROVE Inv'
    BY <2>8 DEF Found, GoTo
  <2>9. ASSUME NEW c \in Clients, FoundNothing(c) PROVE Inv'
    BY <2>9 DEF FoundNothing, Answer
  <2>10. ASSUME NEW c \in Clients, Store(c) PROVE Inv'
    BY <2>10 DEF Store, Answer
  <2>11. ASSUME NEW c \in Clients, Abandon(c) PROVE Inv'
    BY <2>11 DEF Abandon, Answer
  <2>12. ASSUME NEW k \in Keys, Expire(k) PROVE Inv'
    BY <2>12 DEF Expire
  <2>13. CASE CollectOne
    BY <2>13 DEF CollectOne
  <2>14. CASE UpdateRefs
    BY <2>14 DEF UpdateRefs
  <2>15. CASE SwapReaders
    BY <2>15 DEF SwapReaders
  <2>16. CASE ClearCache
    BY <2>16 DEF ClearCache, EmptyCache
  <2>17. CASE UNCHANGED vars
    BY <2>17 DEF vars
  <2> QED
    BY <2>1, <2>2, <2>3, <2>4, <2>5, <2>6, <2>7, <2>8, <2>9, <2>10, <2>11, <2>12,
       <2>13, <2>14, <2>15, <2>16, <2>17 DEF Next, Handle, Watch
<1> QED
  BY <1>1, <1>2, TypeCorrect, PTL DEF Spec
=============================================================================
