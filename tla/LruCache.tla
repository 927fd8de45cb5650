------------------------------ MODULE LruCache ------------------------------
(* broker/quto/lru_cache.go: a cache with a map and a list in the order of    *)
(* use.  The map points into the list, so one entry is a key and its value at *)
(* a place of the list.                                                       *)
EXTENDS Integers, Sequences, FiniteSetsExt

CONSTANTS
    CacheKeys,
    Values,
    Capacity,
    MaxCalls    \* bound: calls in the history

ASSUME LruAssumption == IsFiniteSet(CacheKeys) /\ Capacity \in Nat

VARIABLES
    dlist,      \* keys, most recently used first
    cacheMap,   \* value of each key in the map
    calls       \* history: the calls that touched or removed a key

lruVars == <<dlist, cacheMap, calls>>

LruInit ==
    /\ dlist = <<>>
    /\ cacheMap = <<>>
    /\ calls = <<>>

Called(op, k, v) == calls' = Append(calls, [op |-> op, key |-> k, val |-> v])

With(f, k, v) == [x \in DOMAIN f \cup {k} |-> IF x = k THEN v ELSE f[x]]
Without(f, k) == [x \in DOMAIN f \ {k} |-> f[x]]

\* container/list: an element leaves the list.
Unlinked(s, i) == SubSeq(s, 1, i - 1) \o SubSeq(s, i + 1, Len(s))

\* The element of the list that the map has for the key.
MoveToFront(k) ==
    \E i \in DOMAIN dlist : dlist[i] = k /\ dlist' = <<k>> \o Unlinked(dlist, i)

\* Faulty variant: evicts the entry in front.
SetEvictsNewest(k, v) ==
    /\ \/ k \in DOMAIN cacheMap /\ MoveToFront(k) /\ cacheMap' = With(cacheMap, k, v)
       \/ /\ k \notin DOMAIN cacheMap /\ Len(dlist) < Capacity
          /\ dlist' = <<k>> \o dlist /\ cacheMap' = With(cacheMap, k, v)
       \/ /\ k \notin DOMAIN cacheMap /\ Len(dlist) >= Capacity
          /\ dlist' = <<k>> \o Tail(dlist)
          /\ cacheMap' = With(Without(cacheMap, Head(dlist)), k, v)
    /\ Called("set", k, v)

SetItem(k, v) ==
    /\ \/ k \in DOMAIN cacheMap /\ MoveToFront(k) /\ cacheMap' = With(cacheMap, k, v)
       \/ /\ k \notin DOMAIN cacheMap /\ Len(dlist) < Capacity
          /\ dlist' = <<k>> \o dlist /\ cacheMap' = With(cacheMap, k, v)
       \/ /\ k \notin DOMAIN cacheMap /\ Len(dlist) >= Capacity
          /\ LET pushed == <<k>> \o dlist
                 last == Len(pushed)
             IN  /\ dlist' = Unlinked(pushed, last)
                 /\ cacheMap' = Without(With(cacheMap, k, v), pushed[last])
    /\ Called("set", k, v)

\* A miss changes nothing.
GetItem(k) ==
    /\ k \in DOMAIN cacheMap
    /\ MoveToFront(k)
    /\ Called("get", k, cacheMap[k])
    /\ UNCHANGED cacheMap

RemoveItem(k) ==
    /\ k \in DOMAIN cacheMap
    /\ \E i \in DOMAIN dlist : dlist[i] = k /\ dlist' = Unlinked(dlist, i)
    /\ cacheMap' = Without(cacheMap, k)
    /\ Called("remove", k, cacheMap[k])

LruNext ==
    /\ Len(calls) < MaxCalls
    /\ \E k \in CacheKeys : GetItem(k) \/ RemoveItem(k) \/ \E v \in Values : SetItem(k, v)

LruSpec == LruInit /\ [][LruNext]_lruVars

---------------------------------------------------------------------------
(* Properties *)

\* Where the history has the calls about the key, the calls of Set among
\* them, and the last of each, or 0.
Uses(k) == {i \in 1..Len(calls) : calls[i].key = k}
Sets(k) == {i \in Uses(k) : calls[i].op = "set"}

LastOf(I) == IF I # {} THEN Max(I) ELSE 0
LastUse(k) == LastOf(Uses(k))
LastSet(k) == LastOf(Sets(k))

\* The key was used and not removed since.
Alive(k) == LastUse(k) # 0 /\ calls[LastUse(k)].op # "remove"

\* The map and the list hold the same keys, each once, and no more than
\* Capacity: Set and Remove update both, on every path.
MapMatchesList ==
    /\ IsInjective(dlist) /\ Range(dlist) = DOMAIN cacheMap
    /\ Len(dlist) <= Capacity

\* The list is in the order of last use, and a key that was used and not
\* removed is only missing when Capacity keys used later are there, or were
\* until a Remove made room.
EvictsLeastRecent ==
    /\ \A i, j \in DOMAIN dlist : i < j => LastUse(dlist[i]) > LastUse(dlist[j])
    /\ \A k \in CacheKeys : Alive(k) /\ k \notin DOMAIN cacheMap =>
          Cardinality({x \in CacheKeys : LastUse(x) > LastUse(k)}) >= Capacity

\* A cached key has the value of the last Set of this key.
HoldsLastValue ==
    \A k \in DOMAIN cacheMap : LastSet(k) # 0 /\ cacheMap[k] = calls[LastSet(k)].val

\* All of it: after any calls of Get, Set and Remove the cache is what an LRU
\* cache of this capacity has to be.
CacheIsLru == MapMatchesList /\ EvictsLeastRecent /\ HoldsLastValue
============================================================================
