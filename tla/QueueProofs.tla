---------------------------- MODULE QueueProofs ----------------------------
(* Theorems about the structures the broker is built from: the LRU cache, its *)
(* queues, in memory and in the database, and the list of messages that wait  *)
(* for PUBACK.                                                                *)
EXTENDS SyncQueue, PersistentQueue, Inflight, LruCache, FiniteSetTheorems,
        TLAPS

-----------------------------------------------------------------------------
(* The cache is LRU, for any keys, values, capacity and calls.                *)

\* Calls of the cache.
Call == [op : {"set", "get", "remove"}, key : CacheKeys, val : Values]

\* Types of the state of the cache.
LruTypeOK ==
    /\ calls \in Seq(Call) /\ dlist \in Seq(CacheKeys)
    /\ DOMAIN cacheMap \subseteq CacheKeys
    /\ cacheMap = [k \in DOMAIN cacheMap |-> cacheMap[k]]
    /\ \A k \in DOMAIN cacheMap : cacheMap[k] \in Values

-----------------------------------------------------------------------------
(* Sequences.                                                                 *)

\* What a part of a list is.
LEMMA SubSeqIs ==
    ASSUME NEW S, NEW s, NEW m \in Int, NEW n \in Int, m <= n + 1, \A j \in m..n : s[j] \in S
    PROVE  /\ SubSeq(s, m, n) \in Seq(S) /\ Len(SubSeq(s, m, n)) = n - m + 1
           /\ \A j \in 1..n - m + 1 : SubSeq(s, m, n)[j] = s[m + j - 1]
<1>1. /\ SubSeq(s, m, n) \in Seq(S)
      /\ Len(SubSeq(s, m, n)) = IF m <= n THEN n - m + 1 ELSE 0
      /\ \A j \in 1..n - m + 1 : SubSeq(s, m, n)[j] = s[m + j - 1]
    OBVIOUS
<1>. QED BY <1>1

\* What two lists make together.
LEMMA ConcatIs ==
    ASSUME NEW S, NEW s \in Seq(S), NEW t \in Seq(S)
    PROVE  /\ s \o t \in Seq(S) /\ Len(s \o t) = Len(s) + Len(t)
           /\ \A j \in 1..Len(s) + Len(t) :
                  (s \o t)[j] = IF j <= Len(s) THEN s[j] ELSE t[j - Len(s)]
OBVIOUS

\* Removing an element of a list closes the gap.
Cut(t, s, i) ==
    /\ t \in Seq(CacheKeys) /\ Len(t) = Len(s) - 1
    /\ \A j \in 1..Len(s) - 1 : t[j] = IF j < i THEN s[j] ELSE s[j + 1]

\* The list without one element.
LEMMA UnlinkedIs ==
    ASSUME NEW s \in Seq(CacheKeys), NEW i \in 1..Len(s)
    PROVE  Cut(Unlinked(s, i), s, i)
<1>1. Len(s) \in Nat /\ i \in Nat /\ \A j \in 1..Len(s) : s[j] \in CacheKeys
    OBVIOUS
<1>2. PICK h \in Int : h = i - 1
    BY <1>1
<1>3. PICK l \in Int : l = i + 1
    BY <1>1
<1>4. PICK n \in Int : n = Len(s)
    BY <1>1
<1>5. PICK o \in Int : o = 1
    OBVIOUS
<1>. DEFINE a == SubSeq(s, o, h)
            b == SubSeq(s, l, n)
<1>6. o <= h + 1 /\ (\A j \in o..h : s[j] \in CacheKeys) /\ l <= n + 1 /\ \A j \in l..n : s[j] \in CacheKeys
    BY <1>1, <1>2, <1>3, <1>4, <1>5
<1>7. /\ a \in Seq(CacheKeys) /\ Len(a) = h - o + 1 /\ \A j \in 1..h - o + 1 : a[j] = s[o + j - 1]
    BY <1>6, SubSeqIs
<1>8. /\ b \in Seq(CacheKeys) /\ Len(b) = n - l + 1 /\ \A j \in 1..n - l + 1 : b[j] = s[l + j - 1]
    BY <1>6, SubSeqIs
<1>9. Unlinked(s, i) = a \o b
    BY <1>2, <1>3, <1>4, <1>5, Zenon DEF Unlinked
<1>. HIDE DEF a, b
<1>10. /\ a \o b \in Seq(CacheKeys) /\ Len(a \o b) = Len(a) + Len(b)
       /\ \A j \in 1..Len(a) + Len(b) : (a \o b)[j] = IF j <= Len(a) THEN a[j] ELSE b[j - Len(a)]
    BY <1>7, <1>8, ConcatIs, Zenon
<1>11. a \o b \in Seq(CacheKeys) /\ Len(a \o b) = Len(s) - 1
    BY <1>1, <1>2, <1>3, <1>4, <1>5, <1>7, <1>8, <1>10
<1>12. ASSUME NEW j \in 1..Len(s) - 1
       PROVE  (a \o b)[j] = IF j < i THEN s[j] ELSE s[j + 1]
    <2>1. (a \o b)[j] = IF j <= i - 1 THEN a[j] ELSE b[j - (i - 1)]
        BY <1>1, <1>2, <1>3, <1>4, <1>5, <1>7, <1>8, <1>10
    <2>2. CASE j < i
        <3>1. a[j] = s[o + j - 1] /\ o + j - 1 = j
            BY <1>1, <1>2, <1>5, <1>7, <2>2
        <3>. QED BY <1>1, <2>1, <2>2, <3>1
    <2>3. CASE ~(j < i)
        <3>1. j - (i - 1) \in 1..n - l + 1 /\ l + (j - (i - 1)) - 1 = j + 1
            BY <1>1, <1>3, <1>4, <2>3
        <3>2. b[j - (i - 1)] = s[j + 1]
            BY <1>8, <3>1
        <3>. QED BY <1>1, <2>1, <2>3, <3>2
    <2>. QED BY <2>2, <2>3, Zenon
<1>. QED BY <1>9, <1>11, <1>12, Zenon DEF Cut

\* A key pushed to the front of a list.
Pushed(t, k, s) ==
    /\ t \in Seq(CacheKeys) /\ Len(t) = Len(s) + 1 /\ t[1] = k
    /\ \A j \in 2..Len(s) + 1 : t[j] = s[j - 1]

\* The list with a new first element.
LEMMA PushIs ==
    ASSUME NEW s \in Seq(CacheKeys), NEW k \in CacheKeys
    PROVE  Pushed(<<k>> \o s, k, s)
<1>1. <<k>> \in Seq(CacheKeys) /\ Len(<<k>>) = 1 /\ <<k>>[1] = k
    OBVIOUS
<1>2. /\ <<k>> \o s \in Seq(CacheKeys) /\ Len(<<k>> \o s) = Len(<<k>>) + Len(s)
      /\ \A j \in 1..Len(<<k>>) + Len(s) :
             (<<k>> \o s)[j] = IF j <= Len(<<k>>) THEN <<k>>[j] ELSE s[j - Len(<<k>>)]
    BY <1>1, ConcatIs, Zenon
<1>3. Len(s) \in Nat
    OBVIOUS
<1>. QED BY <1>1, <1>2, <1>3 DEF Pushed

-----------------------------------------------------------------------------
(* The history.                                                               *)

\* A nonempty set of positions has a last one.
HasLast(I) == I # {} => \E x \in I : \A y \in I : x >= y

\* So LastUse and LastSet are defined.
HistoryOK == \A k \in CacheKeys : HasLast(Uses(k)) /\ HasLast(Sets(k))

\* A greatest element of a set is its last.
LEMMA LastOfIs ==
    ASSUME NEW I \in SUBSET Nat, NEW x \in I, \A y \in I : x >= y
    PROVE  LastOf(I) = x
<1>1. Max(I) \in I /\ \A y \in I : Max(I) >= y
    BY Zenon DEF Max
<1>2. Max(I) \in Nat /\ x \in Nat /\ Max(I) >= x /\ x >= Max(I)
    BY <1>1, Zenon
<1>3. Max(I) = x
    BY <1>2
<1>. QED BY <1>3, Zenon DEF LastOf

\* The last of a set of positions is the greatest one, or 0.
LEMMA LastOfType ==
    ASSUME NEW I \in SUBSET Nat, HasLast(I)
    PROVE  /\ LastOf(I) \in Nat /\ (I # {} => LastOf(I) \in I) /\ (I = {} => LastOf(I) = 0)
           /\ \A y \in I : y <= LastOf(I)
<1>1. CASE I = {}
    BY <1>1, Zenon DEF LastOf
<1>2. CASE I # {}
    <2>1. PICK x \in I : \A y \in I : x >= y
        BY <1>2, Zenon DEF HasLast
    <2>2. LastOf(I) = x
        BY <2>1, LastOfIs, Zenon
    <2>3. \A y \in I : y <= x
        BY <2>1
    <2>. QED BY <1>2, <2>2, <2>3, Zenon
<1>. QED BY <1>1, <1>2

\* A call about a key is the last use of that key, and of no other key.
UsedNow(k) ==
    /\ \A x \in CacheKeys : LastUse(x) \in Nat /\ LastUse(x) <= Len(calls)
    /\ LastUse(k)' = Len(calls) + 1
    /\ \A x \in CacheKeys \ {k} : LastUse(x)' = LastUse(x) /\ (Alive(x)' <=> Alive(x))

\* Before the first call no key has been used.
LEMMA HistoryInit ==
    ASSUME calls = <<>>
    PROVE  HistoryOK /\ \A k \in CacheKeys : LastUse(k) = 0
<1>1. \A k : Uses(k) = {} /\ Sets(k) = {}
    BY DEF Uses, Sets
<1>. QED BY <1>1, Zenon DEF HistoryOK, HasLast, LastUse, LastOf

\* The last use and the last Set of a key are calls that have been made.
LEMMA LastTypes ==
    ASSUME LruTypeOK, HistoryOK, NEW x \in CacheKeys
    PROVE  /\ LastUse(x) \in 0..Len(calls) /\ LastSet(x) \in 0..Len(calls)
           /\ (LastUse(x) # 0 => LastUse(x) \in Uses(x))
<1>0. Uses(x) \in SUBSET Nat
    BY DEF Uses
<1>1. Uses(x) \in SUBSET Nat /\ Sets(x) \in SUBSET Nat /\ HasLast(Uses(x)) /\ HasLast(Sets(x))
    BY <1>0, Zenon DEF Sets, HistoryOK
<1>2. /\ LastUse(x) \in Nat /\ (LastUse(x) # 0 => LastUse(x) \in Uses(x))
      /\ LastSet(x) \in Nat /\ (LastSet(x) # 0 => LastSet(x) \in Sets(x))
    BY <1>1, LastOfType, Zenon DEF LastUse, LastSet
<1>3. Len(calls) \in Nat
    BY DEF LruTypeOK
<1>. QED BY <1>2, <1>3 DEF Uses, Sets

\* What a call adds to the history.
LEMMA CallAppends ==
    ASSUME LruTypeOK, HistoryOK, NEW op \in {"set", "get", "remove"}, NEW k \in CacheKeys,
           NEW v \in Values, Called(op, k, v)
    PROVE  /\ calls' \in Seq(Call) /\ HistoryOK' /\ UsedNow(k)
           /\ (Alive(k)' <=> op # "remove")
           /\ (op = "set" => LastSet(k)' # 0 /\ calls'[LastSet(k)'].val = v)
           /\ \A x \in CacheKeys : x # k \/ op # "set" =>
                  /\ LastSet(x)' = LastSet(x)
                  /\ LastSet(x) # 0 => calls'[LastSet(x)] = calls[LastSet(x)]
<1>1. PICK c \in Call : c.op = op /\ c.key = k /\ c.val = v /\ calls' = Append(calls, c)
    BY DEF Called, Call
<1>2. PICK n \in Nat : n = Len(calls) + 1
    BY DEF LruTypeOK
<1>3. /\ calls' \in Seq(Call) /\ Len(calls') = n /\ calls'[n] = c
      /\ \A i \in 1..Len(calls) : calls'[i] = calls[i]
    BY <1>1, <1>2 DEF LruTypeOK
<1>4. Len(calls) \in Nat
    BY DEF LruTypeOK
<1>5. Uses(k)' = Uses(k) \cup {n} /\ \A x : x # k => Uses(x)' = Uses(x)
    BY <1>1, <1>2, <1>3, <1>4, SMTT(30) DEF Uses
<1>6. /\ op = "set" => Sets(k)' = Sets(k) \cup {n}
      /\ \A x : x # k \/ op # "set" => Sets(x)' = Sets(x)
    BY <1>1, <1>2, <1>3, <1>4 DEF Sets, Uses
<1>7. \A x : /\ Uses(x) \in SUBSET Nat /\ \A i \in Uses(x) : i < n
             /\ Sets(x) \in SUBSET Nat /\ \A i \in Sets(x) : i < n
    BY <1>2, <1>4 DEF Uses, Sets
<1>8. ASSUME NEW I \in SUBSET Nat, \A i \in I : i < n
      PROVE  HasLast(I \cup {n}) /\ LastOf(I \cup {n}) = n
    <2>1. \A y \in I : n >= y
        BY <1>2, <1>8
    <2>2. n >= n
        BY <1>2
    <2>3. n \in I \cup {n} /\ I \cup {n} \in SUBSET Nat /\ \A y \in I \cup {n} : n >= y
        BY <2>1, <2>2, Zenon
    <2>. QED BY <2>3, LastOfIs, Zenon DEF HasLast
<1>9. /\ HasLast(Uses(k)') /\ LastOf(Uses(k)') = n
      /\ op = "set" => HasLast(Sets(k)') /\ LastOf(Sets(k)') = n
    BY <1>5, <1>6, <1>7, <1>8, Zenon
<1>10. HistoryOK'
    <2>1. \A x \in CacheKeys : HasLast(Uses(x)') /\ HasLast(Sets(x)')
        BY <1>5, <1>6, <1>9, Zenon DEF HistoryOK
    <2>. QED BY <2>1, Zenon DEF HistoryOK, HasLast
<1>11. \A x : LastUse(x)' = LastOf(Uses(x)') /\ LastSet(x)' = LastOf(Sets(x)')
    BY Zenon DEF LastUse, LastSet, LastOf
<1>12. LastUse(k)' = n /\ \A x : x # k => LastUse(x)' = LastUse(x)
    BY <1>5, <1>9, <1>11, Zenon DEF LastUse
<1>13. /\ op = "set" => LastSet(k)' = n
       /\ \A x : x # k \/ op # "set" => LastSet(x)' = LastSet(x)
    BY <1>6, <1>9, <1>11, Zenon DEF LastSet
<1>14. \A x \in CacheKeys : LastUse(x) \in 0..Len(calls) /\ LastSet(x) \in 0..Len(calls)
    BY LastTypes
<1>15. \A x \in CacheKeys \ {k} : Alive(x)' <=> Alive(x)
    BY <1>3, <1>4, <1>12, <1>14 DEF Alive
<1>16. UsedNow(k)
    BY <1>2, <1>4, <1>12, <1>14, <1>15 DEF UsedNow
<1>17. Alive(k)' <=> op # "remove"
    BY <1>1, <1>2, <1>3, <1>4, <1>12 DEF Alive
<1>18. op = "set" => LastSet(k)' # 0 /\ calls'[LastSet(k)'].val = v
    BY <1>1, <1>2, <1>3, <1>4, <1>13
<1>19. \A x \in CacheKeys : LastSet(x) # 0 => calls'[LastSet(x)] = calls[LastSet(x)]
    BY <1>3, <1>4, <1>14
<1>. QED BY <1>3, <1>10, <1>13, <1>16, <1>17, <1>18, <1>19

-----------------------------------------------------------------------------
(* The invariant.                                                             *)

\* The list is in the order of use, the latest first.
Ordered ==
    \A i, j \in 1..Len(dlist), x, y \in CacheKeys :
        i < j /\ dlist[i] = x /\ dlist[j] = y => LastUse(x) > LastUse(y)

\* Map and list have the same keys.
Listed == \A k : k \in DOMAIN cacheMap <=> \E i \in 1..Len(dlist) : dlist[i] = k

\* The keys used after k.
Later(k) == {x \in CacheKeys : LastUse(x) > LastUse(k)}

\* A key that was set and not removed is missing only for enough keys used
\* later.
Evicted ==
    \A k \in CacheKeys :
        Alive(k) /\ k \notin DOMAIN cacheMap => Cardinality(Later(k)) >= Capacity

\* Inductive: CacheIsLru with the order stated on the list itself.
LruInv ==
    /\ LruTypeOK /\ HistoryOK /\ Ordered /\ Listed /\ Len(dlist) <= Capacity
    /\ Evicted /\ HoldsLastValue

\* The keys used later than one that is not used now only become more.
LEMMA LaterGrows ==
    ASSUME LruTypeOK, NEW k \in CacheKeys, UsedNow(k), NEW x \in CacheKeys \ {k},
           Cardinality(Later(x)) >= Capacity
    PROVE  Cardinality(Later(x)') >= Capacity
<1>1. Len(calls) \in Nat
    BY DEF LruTypeOK
<1>2. Later(x) \subseteq Later(x)'
    BY <1>1 DEF UsedNow, Later
<1>3. Later(x)' \subseteq CacheKeys
    BY DEF Later
<1>4. PICK T : T = Later(x)'
    OBVIOUS
<1>5. IsFiniteSet(T)
    BY <1>3, <1>4, LruAssumption, FS_Subset, Zenon
<1>6. IsFiniteSet(Later(x)) /\ Cardinality(Later(x)) <= Cardinality(T)
    BY <1>2, <1>4, <1>5, FS_Subset, Zenon
<1>7. Cardinality(Later(x)) \in Nat /\ Cardinality(T) \in Nat
    BY <1>5, <1>6, FS_CardinalityType, Zenon
<1>. QED BY <1>4, <1>6, <1>7, LruAssumption

\* The keys of a full list after a new one is in front: each was used later
\* than the one that had to go.
LEMMA FullIsLater ==
    ASSUME NEW s \in Seq(CacheKeys), Len(s) = Capacity, NEW T, T \subseteq CacheKeys,
           \A i \in 1..Len(s) : s[i] \in T,
           \A i, j \in 1..Len(s) : s[i] = s[j] => i = j
    PROVE  Cardinality(T) >= Capacity
<1>1. IsFiniteSet(T)
    BY LruAssumption, FS_Subset
<1>2. DEFINE f == [i \in 1..Capacity |-> s[i]]
<1>3. f \in Injection(1..Capacity, T)
    BY DEF Injection, IsInjective
<1>. HIDE DEF f
<1>4. Cardinality(1..Capacity) <= Cardinality(T)
    BY <1>1, <1>3, FS_Injection, Zenon
<1>5. Cardinality(1..Capacity) = Capacity
    BY LruAssumption, FS_Interval
<1>6. Cardinality(T) \in Nat
    BY <1>1, FS_CardinalityType
<1>. QED BY <1>4, <1>5, <1>6, LruAssumption

\* The key in front is the one used now, the others keep their order.
LEMMA FrontOrder ==
    ASSUME LruTypeOK, NEW k \in CacheKeys, UsedNow(k), dlist' \in Seq(CacheKeys),
           Len(dlist') > 0 => dlist'[1] = k,
           \A j \in 2..Len(dlist') : dlist'[j] # k,
           \A i, j \in 2..Len(dlist') : i < j => LastUse(dlist'[i]) > LastUse(dlist'[j])
    PROVE  Ordered'
<1>1. Len(calls) \in Nat /\ Len(dlist') \in Nat /\ \A j \in 1..Len(dlist') : dlist'[j] \in CacheKeys
    BY DEF LruTypeOK
<1>. SUFFICES ASSUME NEW i \in 1..Len(dlist'), NEW j \in 1..Len(dlist'),
                     NEW x \in CacheKeys, NEW y \in CacheKeys,
                     i < j, dlist'[i] = x, dlist'[j] = y
              PROVE  LastUse(x)' > LastUse(y)'
    BY Zenon DEF Ordered
<1>2. y \in CacheKeys \ {k}
    BY <1>1
<1>3. LastUse(y)' = LastUse(y) /\ LastUse(y) \in Nat /\ LastUse(y) <= Len(calls)
    BY <1>2 DEF UsedNow
<1>4. CASE i = 1
    <2>1. x = k
        BY <1>1, <1>4
    <2>. QED BY <1>1, <1>3, <2>1 DEF UsedNow
<1>5. CASE i # 1
    <2>1. x \in CacheKeys \ {k}
        BY <1>1, <1>5
    <2>2. LastUse(x)' = LastUse(x)
        BY <2>1 DEF UsedNow
    <2>3. LastUse(x) > LastUse(y)
        BY <1>1, <1>5
    <2>. QED BY <1>3, <2>2, <2>3
<1>. QED BY <1>4, <1>5

\* Nothing is evicted when only the key of the call may leave the map, and
\* leaves it removed.
LEMMA EvictedKept ==
    ASSUME LruTypeOK, Evicted, NEW k \in CacheKeys, UsedNow(k),
           \A x \in CacheKeys \ {k} : x \in DOMAIN cacheMap => x \in DOMAIN cacheMap',
           Alive(k)' => k \in DOMAIN cacheMap'
    PROVE  Evicted'
<1>. SUFFICES ASSUME NEW x \in CacheKeys, Alive(x)', x \notin DOMAIN cacheMap'
              PROVE  Cardinality(Later(x)') >= Capacity
    BY Zenon DEF Evicted
<1>1. x \in CacheKeys \ {k} /\ Alive(x) /\ x \notin DOMAIN cacheMap
    BY DEF UsedNow
<1>2. Cardinality(Later(x)) >= Capacity
    BY <1>1, Zenon DEF Evicted
<1>. QED BY <1>1, <1>2, LaterGrows, Zenon

\* The list has every key once.
LEMMA OrderedOnce ==
    ASSUME LruTypeOK, HistoryOK, Ordered
    PROVE  \A i, j \in 1..Len(dlist) : dlist[i] = dlist[j] => i = j
<1>1. Len(dlist) \in Nat /\ \A j \in 1..Len(dlist) : dlist[j] \in CacheKeys
    BY DEF LruTypeOK
<1>2. \A j \in 1..Len(dlist) : LastUse(dlist[j]) \in Nat
    BY <1>1, LastTypes
<1>. QED BY <1>1, <1>2 DEF Ordered

\* The element of a key of the map, moved to the front.
LEMMA MoveStep ==
    ASSUME LruInv, NEW k \in CacheKeys, MoveToFront(k), UsedNow(k)
    PROVE  /\ dlist' \in Seq(CacheKeys) /\ Ordered' /\ Len(dlist') = Len(dlist)
           /\ \A x : (\E i \in 1..Len(dlist') : dlist'[i] = x) <=> x \in DOMAIN cacheMap
<1>. LruTypeOK /\ HistoryOK /\ Ordered /\ Listed
    BY DEF LruInv
<1>1. Len(dlist) \in Nat /\ DOMAIN dlist = 1..Len(dlist) /\ \A j \in 1..Len(dlist) : dlist[j] \in CacheKeys
    BY DEF LruTypeOK
<1>2. PICK i \in 1..Len(dlist) : dlist[i] = k /\ dlist' = <<k>> \o Unlinked(dlist, i)
    BY <1>1, Zenon DEF MoveToFront
<1>3. PICK r \in Seq(CacheKeys) : /\ r = Unlinked(dlist, i) /\ Len(r) = Len(dlist) - 1
                                  /\ \A j \in 1..Len(dlist) - 1 : r[j] = IF j < i THEN dlist[j] ELSE dlist[j + 1]
    <2>1. Cut(Unlinked(dlist, i), dlist, i)
        BY UnlinkedIs, Zenon DEF LruTypeOK
    <2>. QED BY <2>1, Zenon DEF Cut
<1>4. /\ dlist' \in Seq(CacheKeys) /\ Len(dlist') = Len(r) + 1 /\ dlist'[1] = k
      /\ \A j \in 2..Len(r) + 1 : dlist'[j] = r[j - 1]
    <2>1. dlist' = <<k>> \o r
        BY <1>2, <1>3
    <2>2. Pushed(<<k>> \o r, k, r)
        BY PushIs, Zenon
    <2>. QED BY <2>1, <2>2, Zenon DEF Pushed
<1>5. \A j \in 2..Len(dlist) : dlist'[j] = IF j <= i THEN dlist[j - 1] ELSE dlist[j]
    <2>. SUFFICES ASSUME NEW j \in 2..Len(dlist)
                  PROVE  dlist'[j] = IF j <= i THEN dlist[j - 1] ELSE dlist[j]
        OBVIOUS
    <2>1. j - 1 \in 1..Len(dlist) - 1 /\ j \in 2..Len(r) + 1 /\ (j - 1 < i <=> j <= i)
          /\ (j - 1) + 1 = j
        BY <1>1, <1>3
    <2>. QED BY <1>3, <1>4, <2>1
<1>6. \A p, q \in 1..Len(dlist) : dlist[p] = dlist[q] => p = q
    BY OrderedOnce
<1>7. \A j \in 2..Len(dlist) : dlist'[j] # k
    <2>. SUFFICES ASSUME NEW j \in 2..Len(dlist), dlist'[j] = k PROVE FALSE
        OBVIOUS
    <2>1. PICK p \in 1..Len(dlist) : dlist'[j] = dlist[p] /\ p = IF j <= i THEN j - 1 ELSE j
        BY <1>1, <1>5
    <2>2. p = i
        BY <1>2, <1>6, <2>1, Zenon
    <2>. QED BY <1>1, <2>1, <2>2
<1>8. \A p, q \in 2..Len(dlist) : p < q => LastUse(dlist'[p]) > LastUse(dlist'[q])
    <2>. SUFFICES ASSUME NEW p \in 2..Len(dlist), NEW q \in 2..Len(dlist), p < q
                  PROVE  LastUse(dlist'[p]) > LastUse(dlist'[q])
        OBVIOUS
    <2>1. PICK p0 \in 1..Len(dlist) : dlist'[p] = dlist[p0] /\ p0 = IF p <= i THEN p - 1 ELSE p
        BY <1>1, <1>5
    <2>2. PICK q0 \in 1..Len(dlist) : dlist'[q] = dlist[q0] /\ q0 = IF q <= i THEN q - 1 ELSE q
        BY <1>1, <1>5
    <2>3. p0 < q0
        BY <1>1, <2>1, <2>2
    <2>4. LastUse(dlist[p0]) > LastUse(dlist[q0])
        BY <1>1, <2>3 DEF Ordered
    <2>. QED BY <2>1, <2>2, <2>4
<1>9. Len(dlist') = Len(dlist)
    BY <1>1, <1>3, <1>4
<1>10. Ordered'
    BY <1>4, <1>7, <1>8, <1>9, FrontOrder
<1>11. ASSUME NEW x, NEW j \in 1..Len(dlist), dlist[j] = x
       PROVE  \E p \in 1..Len(dlist') : dlist'[p] = x
    <2>1. CASE j = i
        BY <1>1, <1>2, <1>4, <1>9, <1>11, <2>1
    <2>2. CASE j < i
        <3>1. j + 1 \in 2..Len(dlist) /\ dlist'[j + 1] = dlist[j]
            BY <1>1, <1>5, <2>2
        <3>. QED BY <1>1, <1>9, <1>11, <3>1
    <2>3. CASE j > i
        <3>1. j \in 2..Len(dlist) /\ dlist'[j] = dlist[j]
            BY <1>1, <1>5, <2>3
        <3>. QED BY <1>1, <1>9, <1>11, <3>1
    <2>. QED BY <1>1, <2>1, <2>2, <2>3
<1>12. ASSUME NEW p \in 1..Len(dlist')
       PROVE  \E j \in 1..Len(dlist) : dlist[j] = dlist'[p]
    <2>1. CASE p = 1
        BY <1>2, <1>4, <2>1
    <2>2. CASE p # 1
        <3>1. p \in 2..Len(dlist) /\ (IF p <= i THEN p - 1 ELSE p) \in 1..Len(dlist)
            BY <1>1, <1>9, <2>2
        <3>. QED BY <1>5, <3>1
    <2>. QED BY <2>1, <2>2
<1>13. \A x : x \in DOMAIN cacheMap <=> \E j \in 1..Len(dlist) : dlist[j] = x
    BY Zenon DEF Listed
<1>14. \A x : (\E p \in 1..Len(dlist') : dlist'[p] = x) <=> x \in DOMAIN cacheMap
    BY <1>11, <1>12, <1>13, Zenon
<1>. QED BY <1>4, <1>9, <1>10, <1>14

\* A new key put in front of the list.
FirstOf(k, n) ==
    /\ n = Len(dlist') /\ n <= Len(dlist) + 1 /\ dlist' \in Seq(CacheKeys)
    /\ \A j \in 1..n : dlist'[j] = (<<k>> \o dlist)[j]

\* The first n elements of the list are k and those that were there, in their
\* order.
PushOrder(k, n) ==
    Ordered' /\ (n > 0 => dlist'[1] = k) /\ \A j \in 2..n : dlist'[j] = dlist[j - 1]

\* A new key in front keeps the list in the order of use, cut at any length.
LEMMA PushStep ==
    ASSUME LruInv, NEW k \in CacheKeys, k \notin DOMAIN cacheMap, UsedNow(k),
           NEW n \in Nat, FirstOf(k, n)
    PROVE  PushOrder(k, n)
<1>. USE DEF FirstOf, PushOrder
<1>. LruTypeOK /\ HistoryOK /\ Ordered /\ Listed
    BY DEF LruInv
<1>1. Len(dlist) \in Nat /\ \A j \in 1..Len(dlist) : dlist[j] \in CacheKeys
    BY DEF LruTypeOK
<1>2. /\ (<<k>> \o dlist)[1] = k
      /\ \A j \in 2..Len(dlist) + 1 : (<<k>> \o dlist)[j] = dlist[j - 1]
    <2>1. PICK d \in Seq(CacheKeys) : d = dlist
        BY DEF LruTypeOK
    <2>2. Pushed(<<k>> \o d, k, d)
        BY PushIs, Zenon
    <2>. QED BY <2>1, <2>2, Zenon DEF Pushed
<1>3. (n > 0 => dlist'[1] = k) /\ \A j \in 2..n : dlist'[j] = dlist[j - 1]
    BY <1>1, <1>2
<1>4. \A j \in 2..n : dlist'[j] # k
    <2>1. \A j \in 1..Len(dlist) : dlist[j] # k
        BY Zenon DEF Listed
    <2>. QED BY <1>1, <1>3, <2>1
<1>5. \A p, q \in 2..n : p < q => LastUse(dlist'[p]) > LastUse(dlist'[q])
    <2>. SUFFICES ASSUME NEW p \in 2..n, NEW q \in 2..n, p < q
                  PROVE  LastUse(dlist'[p]) > LastUse(dlist'[q])
        OBVIOUS
    <2>1. PICK p0 \in 1..Len(dlist) : dlist'[p] = dlist[p0] /\ p0 = p - 1
        BY <1>1, <1>3
    <2>2. PICK q0 \in 1..Len(dlist) : dlist'[q] = dlist[q0] /\ q0 = q - 1
        BY <1>1, <1>3
    <2>3. p0 < q0
        BY <1>1, <2>1, <2>2
    <2>4. LastUse(dlist[p0]) > LastUse(dlist[q0])
        BY <1>1, <2>3 DEF Ordered
    <2>. QED BY <2>1, <2>2, <2>4
<1>6. Ordered'
    BY <1>3, <1>4, <1>5, FrontOrder
<1>. QED BY <1>3, <1>6

\* The element of a key of the map, taken out.
LEMMA RemoveStep ==
    ASSUME LruInv, NEW k \in CacheKeys, UsedNow(k), NEW i \in 1..Len(dlist), dlist[i] = k,
           dlist' = Unlinked(dlist, i)
    PROVE  /\ dlist' \in Seq(CacheKeys) /\ Ordered' /\ Len(dlist') <= Len(dlist)
           /\ \A x : (\E p \in 1..Len(dlist') : dlist'[p] = x) <=> x \in DOMAIN cacheMap \ {k}
<1>. LruTypeOK /\ HistoryOK /\ Ordered /\ Listed
    BY DEF LruInv
<1>1. Len(dlist) \in Nat /\ \A j \in 1..Len(dlist) : dlist[j] \in CacheKeys
    BY DEF LruTypeOK
<1>2. /\ dlist' \in Seq(CacheKeys) /\ Len(dlist') = Len(dlist) - 1
      /\ \A j \in 1..Len(dlist) - 1 : dlist'[j] = IF j < i THEN dlist[j] ELSE dlist[j + 1]
    <2>1. Cut(Unlinked(dlist, i), dlist, i)
        BY UnlinkedIs, Zenon DEF LruTypeOK
    <2>. QED BY <2>1, Zenon DEF Cut
<1>3. \A p, q \in 1..Len(dlist) : dlist[p] = dlist[q] => p = q
    BY OrderedOnce
<1>4. ASSUME NEW p \in 1..Len(dlist')
      PROVE  \E j \in 1..Len(dlist) : dlist'[p] = dlist[j] /\ j # i /\ j = IF p < i THEN p ELSE p + 1
    BY <1>1, <1>2
<1>5. ASSUME NEW j \in 1..Len(dlist), j # i
      PROVE  \E p \in 1..Len(dlist') : dlist'[p] = dlist[j]
    <2>1. CASE j < i
        <3>1. j \in 1..Len(dlist') /\ dlist'[j] = dlist[j]
            BY <1>1, <1>2, <2>1
        <3>. QED BY <3>1
    <2>2. CASE j > i
        <3>1. j - 1 \in 1..Len(dlist') /\ dlist'[j - 1] = dlist[j]
            BY <1>1, <1>2, <2>2
        <3>. QED BY <3>1
    <2>. QED BY <1>1, <1>5, <2>1, <2>2
<1>6. \A x : x \in DOMAIN cacheMap <=> \E j \in 1..Len(dlist) : dlist[j] = x
    BY Zenon DEF Listed
<1>7. \A x : (\E p \in 1..Len(dlist') : dlist'[p] = x) <=> x \in DOMAIN cacheMap \ {k}
    <2>1. ASSUME NEW p \in 1..Len(dlist') PROVE dlist'[p] \in DOMAIN cacheMap \ {k}
        <3>1. PICK j \in 1..Len(dlist) : dlist'[p] = dlist[j] /\ j # i
            BY <1>4, <2>1, Zenon
        <3>2. dlist[j] # k
            BY <1>3, <3>1, Zenon
        <3>3. dlist[j] \in DOMAIN cacheMap
            BY <1>6, Zenon
        <3>. QED BY <3>1, <3>2, <3>3, Zenon
    <2>2. ASSUME NEW x \in DOMAIN cacheMap \ {k} PROVE \E p \in 1..Len(dlist') : dlist'[p] = x
        <3>1. PICK j \in 1..Len(dlist) : dlist[j] = x
            BY <1>6, <2>2, Zenon
        <3>2. j # i
            BY <2>2, <3>1, Zenon
        <3>. QED BY <1>5, <3>1, <3>2, Zenon
    <2>3. ASSUME NEW x PROVE (\E p \in 1..Len(dlist') : dlist'[p] = x) <=> x \in DOMAIN cacheMap \ {k}
        BY <2>1, <2>2
    <2>. QED BY <2>3, Zenon
<1>8. Ordered'
    <2>. SUFFICES ASSUME NEW p \in 1..Len(dlist'), NEW q \in 1..Len(dlist'),
                         NEW x \in CacheKeys, NEW y \in CacheKeys,
                         p < q, dlist'[p] = x, dlist'[q] = y
                  PROVE  LastUse(x)' > LastUse(y)'
        BY Zenon DEF Ordered
    <2>1. PICK p0 \in 1..Len(dlist) : x = dlist[p0] /\ p0 # i /\ p0 = IF p < i THEN p ELSE p + 1
        BY <1>4
    <2>2. PICK q0 \in 1..Len(dlist) : y = dlist[q0] /\ q0 # i /\ q0 = IF q < i THEN q ELSE q + 1
        BY <1>4
    <2>3. p0 < q0
        BY <1>1, <1>2, <2>1, <2>2
    <2>4. LastUse(x) > LastUse(y)
        BY <2>1, <2>2, <2>3, Zenon DEF Ordered
    <2>5. x # k /\ y # k
        BY <1>3, <2>1, <2>2, Zenon
    <2>6. LastUse(x)' = LastUse(x) /\ LastUse(y)' = LastUse(y)
        BY <2>5, Zenon DEF UsedNow
    <2>. QED BY <2>4, <2>6
<1>. QED BY <1>1, <1>2, <1>7, <1>8

-----------------------------------------------------------------------------
(* The calls.                                                                 *)

\* What the map has after a call.
LEMMA ValuesKept ==
    ASSUME LruInv, NEW op \in {"set", "get", "remove"}, NEW k \in CacheKeys, NEW v \in Values,
           Called(op, k, v),
           \A x \in DOMAIN cacheMap' \ {k} : x \in DOMAIN cacheMap /\ cacheMap'[x] = cacheMap[x],
           k \in DOMAIN cacheMap' =>
               \/ op = "set" /\ cacheMap'[k] = v
               \/ op # "set" /\ k \in DOMAIN cacheMap /\ cacheMap'[k] = cacheMap[k]
    PROVE  HoldsLastValue' /\ \A x \in DOMAIN cacheMap' : x \in CacheKeys /\ cacheMap'[x] \in Values
<1>. LruTypeOK /\ HistoryOK /\ HoldsLastValue
    BY DEF LruInv
<1>1. \A x \in DOMAIN cacheMap : x \in CacheKeys /\ cacheMap[x] \in Values
    BY DEF LruTypeOK
<1>2. /\ (op = "set" => LastSet(k)' # 0 /\ calls'[LastSet(k)'].val = v)
      /\ \A x \in CacheKeys : x # k \/ op # "set" =>
             /\ LastSet(x)' = LastSet(x)
             /\ LastSet(x) # 0 => calls'[LastSet(x)] = calls[LastSet(x)]
    BY CallAppends, Zenon
<1>3. \A x \in DOMAIN cacheMap' : x \in CacheKeys /\ cacheMap'[x] \in Values
    BY <1>1, Zenon
<1>4. ASSUME NEW x \in DOMAIN cacheMap'
      PROVE  LastSet(x)' # 0 /\ cacheMap'[x] = calls'[LastSet(x)'].val
    <2>1. CASE x = k /\ op = "set"
        BY <1>2, <1>4, <2>1
    <2>2. CASE x # k \/ op # "set"
        <3>1. x \in DOMAIN cacheMap /\ cacheMap'[x] = cacheMap[x]
            BY <1>4, <2>2
        <3>2. LastSet(x) # 0 /\ cacheMap[x] = calls[LastSet(x)].val
            BY <3>1, Zenon DEF HoldsLastValue
        <3>3. LastSet(x)' = LastSet(x) /\ calls'[LastSet(x)] = calls[LastSet(x)]
            BY <1>1, <1>2, <2>2, <3>1, <3>2, Zenon
        <3>. QED BY <3>1, <3>2, <3>3
    <2>. QED BY <2>1, <2>2
<1>5. HoldsLastValue'
    BY <1>4, Zenon DEF HoldsLastValue
<1>. QED BY <1>3, <1>5

\* Get keeps the invariant.
LEMMA GetKeeps ==
    ASSUME LruInv, NEW k \in CacheKeys, GetItem(k)
    PROVE  LruInv'
<1>. LruTypeOK /\ HistoryOK /\ Evicted /\ Listed
    BY DEF LruInv
<1>1. PICK v \in Values : v = cacheMap[k] /\ Called("get", k, v)
    BY DEF GetItem, LruTypeOK
<1>2. calls' \in Seq(Call) /\ HistoryOK' /\ UsedNow(k)
    BY <1>1, CallAppends, Zenon
<1>3. k \in DOMAIN cacheMap /\ MoveToFront(k) /\ cacheMap' = cacheMap
    BY Zenon DEF GetItem
<1>4. /\ dlist' \in Seq(CacheKeys) /\ Ordered' /\ Len(dlist') = Len(dlist)
      /\ \A x : (\E i \in 1..Len(dlist') : dlist'[i] = x) <=> x \in DOMAIN cacheMap
    BY <1>2, <1>3, MoveStep
<1>5. HoldsLastValue'
    <2>1. "get" \in {"set", "get", "remove"} /\ "get" # "set"
        OBVIOUS
    <2>2. PICK op \in {"set", "get", "remove"} : op = "get" /\ op # "set"
        BY <2>1
    <2>3. Called(op, k, v)
        BY <1>1, <2>2
    <2>. QED BY <1>3, <2>2, <2>3, ValuesKept
<1>6. Evicted'
    BY <1>2, <1>3, EvictedKept
<1>7. Listed'
    BY <1>3, <1>4 DEF Listed
<1>8. LruTypeOK'
    BY <1>2, <1>3, <1>4 DEF LruTypeOK
<1>9. (Len(dlist) <= Capacity)'
    BY <1>4 DEF LruInv
<1>. QED BY <1>2, <1>4, <1>5, <1>6, <1>7, <1>8, <1>9 DEF LruInv

\* Remove keeps the invariant.
LEMMA RemoveKeeps ==
    ASSUME LruInv, NEW k \in CacheKeys, RemoveItem(k)
    PROVE  LruInv'
<1>. LruTypeOK /\ HistoryOK /\ Evicted /\ Listed
    BY DEF LruInv
<1>1. PICK v \in Values : v = cacheMap[k] /\ Called("remove", k, v)
    BY DEF RemoveItem, LruTypeOK
<1>2. calls' \in Seq(Call) /\ HistoryOK' /\ UsedNow(k) /\ ~Alive(k)'
    BY <1>1, CallAppends
<1>3. /\ cacheMap' = Without(cacheMap, k) /\ Len(dlist) \in Nat /\ DOMAIN dlist = 1..Len(dlist)
      /\ \E i \in DOMAIN dlist : dlist[i] = k /\ dlist' = Unlinked(dlist, i)
    BY DEF RemoveItem, LruTypeOK
<1>4. PICK i \in 1..Len(dlist) : dlist[i] = k /\ dlist' = Unlinked(dlist, i)
    BY <1>3
<1>5. /\ dlist' \in Seq(CacheKeys) /\ Ordered' /\ Len(dlist') <= Len(dlist)
      /\ \A x : (\E p \in 1..Len(dlist') : dlist'[p] = x) <=> x \in DOMAIN cacheMap \ {k}
    BY <1>2, <1>4, RemoveStep
<1>6. /\ DOMAIN cacheMap' = DOMAIN cacheMap \ {k}
      /\ \A x \in DOMAIN cacheMap' : cacheMap'[x] = cacheMap[x]
      /\ cacheMap' = [x \in DOMAIN cacheMap' |-> cacheMap'[x]]
    BY <1>3 DEF Without
<1>7. HoldsLastValue' /\ \A x \in DOMAIN cacheMap' : x \in CacheKeys /\ cacheMap'[x] \in Values
    <2>1. PICK op \in {"set", "get", "remove"} : op = "remove"
        OBVIOUS
    <2>2. Called(op, k, v)
        BY <1>1, <2>1
    <2>3. /\ \A x \in DOMAIN cacheMap' \ {k} : x \in DOMAIN cacheMap /\ cacheMap'[x] = cacheMap[x]
          /\ k \notin DOMAIN cacheMap'
        BY <1>6
    <2>. QED BY <2>2, <2>3, ValuesKept
<1>8. Evicted'
    BY <1>2, <1>6, EvictedKept
<1>9. Listed'
    BY <1>5, <1>6 DEF Listed
<1>10. LruTypeOK'
    BY <1>2, <1>5, <1>6, <1>7 DEF LruTypeOK
<1>11. (Len(dlist) <= Capacity)'
    <2>1. Len(dlist') \in Nat
        BY <1>5
    <2>. QED BY <1>3, <1>5, <2>1, LruAssumption DEF LruInv
<1>. QED BY <1>2, <1>5, <1>7, <1>8, <1>9, <1>10, <1>11 DEF LruInv

\* Set of a key of the map.
LEMMA SetOldKeeps ==
    ASSUME LruInv, NEW k \in CacheKeys, NEW v \in Values, k \in DOMAIN cacheMap, MoveToFront(k),
           cacheMap' = With(cacheMap, k, v), Called("set", k, v)
    PROVE  LruInv'
<1>. LruTypeOK /\ HistoryOK /\ Evicted /\ Listed
    BY DEF LruInv
<1>1. calls' \in Seq(Call) /\ HistoryOK' /\ UsedNow(k)
    BY CallAppends, Zenon
<1>2. /\ dlist' \in Seq(CacheKeys) /\ Ordered' /\ Len(dlist') = Len(dlist)
      /\ \A x : (\E i \in 1..Len(dlist') : dlist'[i] = x) <=> x \in DOMAIN cacheMap
    BY <1>1, MoveStep
<1>3. /\ DOMAIN cacheMap' = DOMAIN cacheMap
      /\ \A x \in DOMAIN cacheMap' : cacheMap'[x] = IF x = k THEN v ELSE cacheMap[x]
      /\ cacheMap' = [x \in DOMAIN cacheMap' |-> cacheMap'[x]]
    BY DEF With
<1>4. HoldsLastValue' /\ \A x \in DOMAIN cacheMap' : x \in CacheKeys /\ cacheMap'[x] \in Values
    <2>1. PICK op \in {"set", "get", "remove"} : op = "set"
        OBVIOUS
    <2>2. Called(op, k, v)
        BY <2>1
    <2>3. /\ \A x \in DOMAIN cacheMap' \ {k} : x \in DOMAIN cacheMap /\ cacheMap'[x] = cacheMap[x]
          /\ cacheMap'[k] = v
        BY <1>3
    <2>. QED BY <2>1, <2>2, <2>3, ValuesKept, Zenon
<1>5. Evicted'
    BY <1>1, <1>3, EvictedKept
<1>6. Listed'
    BY <1>2, <1>3 DEF Listed
<1>7. LruTypeOK'
    BY <1>1, <1>2, <1>3, <1>4 DEF LruTypeOK
<1>8. (Len(dlist) <= Capacity)'
    BY <1>2 DEF LruInv
<1>. QED BY <1>1, <1>2, <1>4, <1>5, <1>6, <1>7, <1>8 DEF LruInv

\* Set of a new key with room in the list.
LEMMA SetNewKeeps ==
    ASSUME LruInv, NEW k \in CacheKeys, NEW v \in Values, k \notin DOMAIN cacheMap,
           Len(dlist) < Capacity, dlist' = <<k>> \o dlist,
           cacheMap' = With(cacheMap, k, v), Called("set", k, v)
    PROVE  LruInv'
<1>. LruTypeOK /\ HistoryOK /\ Evicted /\ Listed
    BY DEF LruInv
<1>1. calls' \in Seq(Call) /\ HistoryOK' /\ UsedNow(k)
    BY CallAppends, Zenon
<1>2. Len(dlist) \in Nat /\ dlist' \in Seq(CacheKeys) /\ Len(dlist') = Len(dlist) + 1
    BY PushIs DEF LruTypeOK, Pushed
<1>3. PICK n \in Nat : n = Len(dlist')
    BY <1>2
<1>4. Ordered' /\ dlist'[1] = k /\ \A j \in 2..n : dlist'[j] = dlist[j - 1]
    <2>1. FirstOf(k, n)
        BY <1>2, <1>3 DEF FirstOf
    <2>2. PushOrder(k, n)
        BY <1>1, <2>1, PushStep, Zenon
    <2>3. n > 0
        BY <1>2, <1>3
    <2>. QED BY <2>2, <2>3, Zenon DEF PushOrder
<1>5. /\ DOMAIN cacheMap' = DOMAIN cacheMap \cup {k}
      /\ \A x \in DOMAIN cacheMap' : cacheMap'[x] = IF x = k THEN v ELSE cacheMap[x]
      /\ cacheMap' = [x \in DOMAIN cacheMap' |-> cacheMap'[x]]
    BY DEF With
<1>6. HoldsLastValue' /\ \A x \in DOMAIN cacheMap' : x \in CacheKeys /\ cacheMap'[x] \in Values
    <2>1. PICK op \in {"set", "get", "remove"} : op = "set"
        OBVIOUS
    <2>2. Called(op, k, v)
        BY <2>1
    <2>3. /\ \A x \in DOMAIN cacheMap' \ {k} : x \in DOMAIN cacheMap /\ cacheMap'[x] = cacheMap[x]
          /\ cacheMap'[k] = v
        BY <1>5
    <2>. QED BY <2>1, <2>2, <2>3, ValuesKept
<1>7. Evicted'
    BY <1>1, <1>5, EvictedKept
<1>8. Listed'
    <2>1. ASSUME NEW x \in DOMAIN cacheMap' PROVE \E i \in 1..Len(dlist') : dlist'[i] = x
        <3>1. CASE x = k
            BY <1>2, <1>4, <3>1
        <3>2. CASE x # k
            <4>1. PICK j \in 1..Len(dlist) : dlist[j] = x
                BY <1>5, <2>1, <3>2 DEF Listed
            <4>2. j + 1 \in 2..n /\ dlist'[j + 1] = dlist[j + 1 - 1] /\ j + 1 - 1 = j
                BY <1>2, <1>3, <1>4
            <4>. QED BY <1>2, <1>3, <4>1, <4>2
        <3>. QED BY <3>1, <3>2
    <2>2. ASSUME NEW i \in 1..Len(dlist') PROVE dlist'[i] \in DOMAIN cacheMap'
        <3>1. CASE i = 1
            BY <1>4, <1>5, <3>1
        <3>2. CASE i # 1
            <4>1. i \in 2..n /\ i - 1 \in 1..Len(dlist)
                BY <1>2, <1>3, <3>2
            <4>2. dlist'[i] = dlist[i - 1] /\ dlist[i - 1] \in DOMAIN cacheMap
                BY <1>4, <4>1 DEF Listed
            <4>. QED BY <1>5, <4>2
        <3>. QED BY <3>1, <3>2
    <2>. QED BY <2>1, <2>2, Zenon DEF Listed
<1>9. LruTypeOK'
    BY <1>1, <1>2, <1>5, <1>6 DEF LruTypeOK
<1>10. (Len(dlist) <= Capacity)'
    BY <1>2, LruAssumption
<1>. QED BY <1>1, <1>4, <1>6, <1>7, <1>8, <1>9, <1>10 DEF LruInv

\* The list e is the full list d with a new key k before it and without its last key.
Slid(e, d, k) ==
    /\ Len(d) = Capacity /\ Len(e) = Capacity /\ \A j \in 1..Capacity : d[j] # k
    /\ Capacity > 0 => e[1] = k
    /\ \A j \in 2..Capacity : e[j] = d[j - 1]

\* The places of the two lists.
LEMMA SlidPlaces ==
    ASSUME Capacity \in Nat, NEW e, NEW d, NEW k, Slid(e, d, k), NEW i \in 1..Len(e)
    PROVE  /\ Capacity > 0 /\ Capacity \in 1..Len(d)
           /\ \/ i = 1 /\ e[i] = k
              \/ /\ i \in 2..Capacity /\ i - 1 \in 1..Len(d) /\ i - 1 # Capacity
                 /\ e[i] = d[i - 1] /\ e[i] # k
<1>1. Capacity > 0 /\ i \in 1..Capacity /\ Len(d) = Capacity
    BY DEF Slid
<1>2. CASE i = 1
    BY <1>1, <1>2 DEF Slid
<1>3. CASE i # 1
    <2>1. i \in 2..Capacity /\ i - 1 \in 1..Capacity /\ i - 1 # Capacity
        BY <1>1, <1>3
    <2>2. e[i] = d[i - 1] /\ d[i - 1] # k
        BY <2>1, Zenon DEF Slid
    <2>. QED BY <1>1, <2>1, <2>2
<1>. QED BY <1>2, <1>3, Zenon

\* A key of the new list that is not the new one was in the old list, and not at its end.
LEMMA SlidKept ==
    ASSUME Capacity \in Nat, NEW e, NEW d, NEW k, Slid(e, d, k), NEW i \in 1..Len(e), e[i] # k
    PROVE  \E p \in 1..Len(d) : p # Capacity /\ e[i] = d[p]
<1>1. i - 1 \in 1..Len(d) /\ i - 1 # Capacity /\ e[i] = d[i - 1]
    BY SlidPlaces
<1>. QED BY <1>1, Zenon

\* No key is twice in the new list.
LEMMA SlidOnce ==
    ASSUME Capacity \in Nat, NEW e, NEW d, NEW k, Slid(e, d, k),
           \A i, j \in 1..Capacity : d[i] = d[j] => i = j
    PROVE  \A i, j \in 1..Len(e) : e[i] = e[j] => i = j
<1>. SUFFICES ASSUME NEW i \in 1..Len(e), NEW j \in 1..Len(e), e[i] = e[j] PROVE i = j
    OBVIOUS
<1>1. Len(d) = Capacity
    BY DEF Slid
<1>2. CASE i = 1 \/ j = 1
    BY <1>2, SlidPlaces
<1>3. CASE i # 1 /\ j # 1
    <2>1. /\ i \in 2..Capacity /\ i - 1 \in 1..Capacity /\ e[i] = d[i - 1]
          /\ j \in 2..Capacity /\ j - 1 \in 1..Capacity /\ e[j] = d[j - 1]
        BY <1>1, <1>3, SlidPlaces
    <2>2. i - 1 = j - 1
        BY <2>1, Zenon
    <2>. QED BY <2>1, <2>2
<1>. QED BY <1>2, <1>3

\* The key that leaves is older than all keys of the new list.
LEMMA SlidOutIsOld ==
    ASSUME Capacity \in Nat, Len(calls) \in Nat, NEW e \in Seq(CacheKeys), NEW d \in Seq(CacheKeys),
           d = dlist, Ordered, NEW k \in CacheKeys, UsedNow(k), Slid(e, d, k),
           \A i, j \in 1..Capacity : d[i] = d[j] => i = j,
           NEW x \in CacheKeys, Capacity > 0 => x # k /\ x = d[Capacity]
    PROVE  Cardinality(Later(x)') >= Capacity
<1>1. PICK T : T = Later(x)' /\ T \subseteq CacheKeys
    BY Zenon DEF Later
<1>2. ASSUME NEW i \in 1..Len(e) PROVE e[i] \in T
    <2>1. Capacity > 0 /\ Capacity \in 1..Len(d) /\ Len(d) = Capacity
        BY SlidPlaces DEF Slid
    <2>2. LastUse(x)' = LastUse(x) /\ LastUse(x) \in Nat /\ LastUse(x) <= Len(calls)
        BY <2>1, Zenon DEF UsedNow
    <2>3. CASE e[i] = k
        <3>1. LastUse(k)' > LastUse(x)'
            BY <2>2 DEF UsedNow
        <3>. QED BY <1>1, <2>3, <3>1, Zenon DEF Later
    <2>4. CASE e[i] # k
        <3>1. PICK p \in 1..Len(d) : p # Capacity /\ e[i] = d[p]
            BY <2>4, SlidKept
        <3>2. PICK y \in CacheKeys \ {k} : y = e[i]
            BY <2>4
        <3>3. p < Capacity
            BY <2>1, <3>1
        <3>4. LastUse(y) > LastUse(x)
            BY <2>1, <3>1, <3>2, <3>3, Zenon DEF Ordered
        <3>5. LastUse(y)' = LastUse(y)
            BY <3>2, Zenon DEF UsedNow
        <3>. QED BY <1>1, <2>2, <3>2, <3>4, <3>5, Zenon DEF Later
    <2>. QED BY <2>3, <2>4, Zenon
<1>3. \A i, j \in 1..Len(e) : e[i] = e[j] => i = j
    BY SlidOnce, Zenon
<1>4. Len(e) = Capacity
    BY Zenon DEF Slid
<1>. QED BY <1>1, <1>2, <1>3, <1>4, FullIsLater, Zenon

\* D are the keys of the list d.
KeysOf(D, d) == \A x : x \in D <=> \E i \in 1..Len(d) : d[i] = x

\* No key is twice in the full list d.
Once(d) == \A i, j \in 1..Capacity : d[i] = d[j] => i = j

\* The key z is the one that leaves: the last of d, the new one where d is empty.
SlidOut(z, d, k) == (Capacity = 0 => z = k) /\ (Capacity > 0 => z = d[Capacity])

\* The keys of the new list, when D are those of the old one.
LEMMA SlidListed ==
    ASSUME Capacity \in Nat, NEW e, NEW d, NEW k, Slid(e, d, k),
           NEW D, NEW z, KeysOf(D, d), Once(d), SlidOut(z, d, k), NEW E, E = (D \cup {k}) \ {z}
    PROVE  KeysOf(E, e)
<1>. /\ \A i, j \in 1..Capacity : d[i] = d[j] => i = j
     /\ \A x : x \in D <=> \E i \in 1..Len(d) : d[i] = x
    BY Zenon DEF KeysOf, Once
<1>. (Capacity = 0 => z = k) /\ (Capacity > 0 => z = d[Capacity])
    BY Zenon DEF SlidOut
<1>1. Len(d) = Capacity /\ Len(e) = Capacity
    BY Zenon DEF Slid
<1>2. ASSUME NEW x, x \in E PROVE \E i \in 1..Len(e) : e[i] = x
    <2>1. CASE x = k
        <3>1. Capacity > 0 /\ 1 \in 1..Len(e)
            BY <1>1, <1>2, <2>1
        <3>. QED BY <2>1, <3>1, Zenon DEF Slid
    <2>2. CASE x # k
        <3>1. PICK j \in 1..Len(d) : d[j] = x
            BY <1>2, <2>2, Zenon
        <3>2. j # Capacity
            BY <1>1, <1>2, <3>1
        <3>3. j + 1 \in 2..Capacity /\ (j + 1) - 1 = j /\ j + 1 \in 1..Len(e)
            BY <1>1, <3>2
        <3>4. e[j + 1] = d[(j + 1) - 1]
            BY <3>3, Zenon DEF Slid
        <3>5. e[j + 1] = x
            BY <3>1, <3>3, <3>4, Zenon
        <3>. QED BY <3>3, <3>5, Zenon
    <2>. QED BY <2>1, <2>2, Zenon
<1>3. ASSUME NEW i \in 1..Len(e) PROVE e[i] \in E
    <2>1. Capacity > 0 /\ Capacity \in 1..Len(d) /\ z = d[Capacity]
        BY <1>3, SlidPlaces
    <2>2. z # k
        BY <1>1, <2>1, Zenon DEF Slid
    <2>3. CASE e[i] = k
        BY <2>2, <2>3, Zenon
    <2>4. CASE e[i] # k
        <3>1. PICK p \in 1..Len(d) : p # Capacity /\ e[i] = d[p]
            <4>1. i - 1 \in 1..Len(d) /\ i - 1 # Capacity /\ e[i] = d[i - 1]
                BY <1>3, <2>4, SlidPlaces
            <4>. QED BY <4>1, Zenon
        <3>2. e[i] # z
            BY <1>1, <2>1, <3>1, Zenon
        <3>. QED BY <3>1, <3>2, Zenon
    <2>. QED BY <2>3, <2>4, Zenon
<1>. QED BY <1>2, <1>3, Zenon DEF KeysOf

\* s is the list d with the key k in front, e what is left of s without its last
\* key, and z that key.
Eviction(d, k, s, e, z) ==
    s = <<k>> \o d /\ e = Unlinked(s, Len(s)) /\ z = s[Len(s)]

\* What an eviction from the full list d leaves in e and takes out as z.
EvictedTo(d, k, s, e, z) ==
    /\ e \in Seq(CacheKeys) /\ z \in CacheKeys /\ Slid(e, d, k) /\ SlidOut(z, d, k)
    /\ Len(e) = Capacity /\ \A j \in 1..Capacity : e[j] = s[j]

\* Set of a new key with a full list, as lists: s is the list with the new key in
\* front, e what is left of it, and z the key at its end.
LEMMA EvictionIs ==
    ASSUME Capacity \in Nat, NEW d \in Seq(CacheKeys), Len(d) = Capacity, NEW k \in CacheKeys,
           \A j \in 1..Capacity : d[j] # k,
           NEW s, NEW e, NEW z, Eviction(d, k, s, e, z)
    PROVE  EvictedTo(d, k, s, e, z)
<1>. PICK l : l = Len(s)
    OBVIOUS
<1>1. s = <<k>> \o d /\ e = Unlinked(s, l) /\ z = s[l] /\ Pushed(s, k, d)
    BY PushIs, Zenon DEF Eviction
<1>2. /\ s \in Seq(CacheKeys) /\ Len(s) = Capacity + 1 /\ s[1] = k
      /\ \A j \in 2..Capacity + 1 : s[j] = d[j - 1]
    BY <1>1, Zenon DEF Pushed
<1>3. l \in 1..Len(s) /\ l = Capacity + 1 /\ l - 1 = Capacity /\ \A j \in 1..Capacity : j < l
    BY <1>2
<1>4. Cut(e, s, l)
    BY <1>1, <1>2, <1>3, UnlinkedIs, Zenon
<1>5. e \in Seq(CacheKeys) /\ Len(e) = Capacity /\ \A j \in 1..Capacity : e[j] = s[j]
    BY <1>3, <1>4, Zenon DEF Cut
<1>6. Slid(e, d, k)
    <2>1. /\ Capacity > 0 => 1 \in 1..Capacity
          /\ \A j \in 2..Capacity : j \in 1..Capacity /\ j \in 2..Capacity + 1
        OBVIOUS
    <2>. QED BY <1>2, <1>5, <2>1, Zenon DEF Slid
<1>7. z \in CacheKeys /\ SlidOut(z, d, k)
    <2>1. CASE Capacity = 0
        BY <1>1, <1>2, <1>3, <2>1 DEF SlidOut
    <2>2. CASE Capacity > 0
        <3>1. l \in 2..Capacity + 1 /\ Capacity \in 1..Len(d) /\ Capacity # 0
            BY <1>3, <2>2
        <3>2. z = d[Capacity]
            BY <1>1, <1>2, <1>3, <3>1, Zenon
        <3>3. d[Capacity] \in CacheKeys
            BY <3>1
        <3>. QED BY <3>1, <3>2, <3>3, Zenon DEF SlidOut
    <2>. QED BY <2>1, <2>2
<1>. QED BY <1>5, <1>6, <1>7, Zenon DEF EvictedTo

\* g is the map f with v stored under k and then z deleted.
StoredAndDeleted(f, k, v, z, g) ==
    /\ DOMAIN g = (DOMAIN f \cup {k}) \ {z}
    /\ \A x \in DOMAIN g : g[x] = IF x = k THEN v ELSE f[x]
    /\ g = [x \in DOMAIN g |-> g[x]]

\* What the map has when one key is stored and one is deleted.
LEMMA StoredDeleted ==
    ASSUME NEW f, NEW k, NEW v, NEW z
    PROVE  StoredAndDeleted(f, k, v, z, Without(With(f, k, v), z))
    BY DEF With, Without, StoredAndDeleted

\* The third case of Set.
SetEvicts(k, v) ==
    /\ k \notin DOMAIN cacheMap /\ Len(dlist) >= Capacity
    /\ dlist' = Unlinked(<<k>> \o dlist, Len(<<k>> \o dlist))
    /\ cacheMap' = Without(With(cacheMap, k, v), (<<k>> \o dlist)[Len(<<k>> \o dlist)])
    /\ Called("set", k, v)

\* Set of a new key with a full list: the key at its end leaves list and map.
LEMMA SetEvictsKeeps ==
    ASSUME LruInv, NEW k \in CacheKeys, NEW v \in Values, SetEvicts(k, v)
    PROVE  LruInv'
<1>. LruTypeOK /\ HistoryOK /\ Evicted /\ Listed /\ Ordered
    BY Zenon DEF LruInv
<1>1. calls' \in Seq(Call) /\ HistoryOK' /\ UsedNow(k)
    <2>1. Called("set", k, v)
        BY Zenon DEF SetEvicts
    <2>. QED BY <2>1, CallAppends, Zenon
<1>2. /\ dlist \in Seq(CacheKeys) /\ Len(dlist) = Capacity /\ Capacity \in Nat
      /\ Capacity <= Len(dlist) + 1 /\ Len(calls) \in Nat
    <2>1. /\ dlist \in Seq(CacheKeys) /\ calls \in Seq(Call)
          /\ Len(dlist) <= Capacity /\ Len(dlist) >= Capacity
        BY Zenon DEF LruInv, LruTypeOK, SetEvicts
    <2>. QED BY <2>1, LruAssumption
<1>3. PICK d \in Seq(CacheKeys) : d = dlist /\ Len(d) = Capacity /\ \A j \in 1..Capacity : d[j] # k
    BY <1>2, Zenon DEF SetEvicts, Listed
<1>4. PICK s, e, z : /\ Eviction(d, k, s, e, z) /\ dlist' = e
                     /\ cacheMap' = Without(With(cacheMap, k, v), z)
    BY <1>3, Zenon DEF SetEvicts, Eviction
<1>5. dlist' = e /\ EvictedTo(d, k, s, e, z)
    BY <1>2, <1>3, <1>4, EvictionIs, Zenon
<1>6. Ordered'
    <2>1. FirstOf(k, Capacity)
        BY <1>2, <1>3, <1>4, <1>5, Zenon DEF FirstOf, Eviction, EvictedTo
    <2>2. PushOrder(k, Capacity)
        BY <1>1, <1>2, <2>1, PushStep, Zenon DEF SetEvicts
    <2>. QED BY <2>2, Zenon DEF PushOrder
<1>7. /\ DOMAIN cacheMap' = (DOMAIN cacheMap \cup {k}) \ {z}
      /\ \A x \in DOMAIN cacheMap' : cacheMap'[x] = IF x = k THEN v ELSE cacheMap[x]
      /\ cacheMap' = [x \in DOMAIN cacheMap' |-> cacheMap'[x]]
    <2>1. PICK f, g : f = cacheMap /\ g = cacheMap' /\ g = Without(With(f, k, v), z)
        BY <1>4, Zenon
    <2>2. StoredAndDeleted(f, k, v, z, g)
        BY <2>1, StoredDeleted, Zenon
    <2>. QED BY <2>1, <2>2, Zenon DEF StoredAndDeleted
<1>8. HoldsLastValue' /\ \A x \in DOMAIN cacheMap' : x \in CacheKeys /\ cacheMap'[x] \in Values
    <2>1. PICK op \in {"set", "get", "remove"} : op = "set"
        BY Zenon
    <2>2. Called(op, k, v)
        BY <2>1, Zenon DEF SetEvicts
    <2>3. /\ \A x \in DOMAIN cacheMap' \ {k} : x \in DOMAIN cacheMap /\ cacheMap'[x] = cacheMap[x]
          /\ k \in DOMAIN cacheMap' => cacheMap'[k] = v
        BY <1>7, Zenon
    <2>. QED BY <2>1, <2>2, <2>3, ValuesKept, Zenon
<1>9. \A i, j \in 1..Capacity : d[i] = d[j] => i = j
    BY <1>2, <1>3, OrderedOnce, Zenon
<1>10. Evicted'
    <2>. SUFFICES ASSUME NEW x \in CacheKeys, Alive(x)', x \notin DOMAIN cacheMap'
                  PROVE  Cardinality(Later(x)') >= Capacity
        BY Zenon DEF Evicted
    <2>1. CASE x # z /\ x # k
        <3>1. Alive(x) /\ x \notin DOMAIN cacheMap
            BY <1>1, <1>7, <2>1, Zenon DEF UsedNow
        <3>2. Cardinality(Later(x)) >= Capacity
            BY <3>1, Zenon DEF Evicted
        <3>. QED BY <1>1, <2>1, <3>2, LaterGrows, Zenon
    <2>2. CASE x = z \/ x = k
        <3>1. ASSUME Capacity > 0 PROVE x # k /\ x = d[Capacity]
            <4>1. Capacity \in 1..Capacity
                BY <1>2, <3>1
            <4>2. z = d[Capacity] /\ d[Capacity] # k
                BY <1>3, <1>5, <3>1, <4>1, Zenon DEF SlidOut, EvictedTo
            <4>. QED BY <1>7, <2>2, <4>2, Zenon
        <3>. QED BY <1>1, <1>2, <1>3, <1>5, <1>9, <3>1, SlidOutIsOld, Zenon DEF EvictedTo
    <2>. QED BY <2>1, <2>2, Zenon
<1>11. Listed'
    <2>1. PICK D, E : D = DOMAIN cacheMap /\ E = DOMAIN cacheMap' /\ E = (D \cup {k}) \ {z}
        BY <1>7, Zenon
    <2>2. KeysOf(D, d) /\ Once(d)
        BY <1>3, <1>9, <2>1, Zenon DEF Listed, KeysOf, Once
    <2>3. KeysOf(E, e)
        BY <1>2, <1>5, <2>1, <2>2, SlidListed, Zenon DEF EvictedTo
    <2>. QED BY <1>5, <2>1, <2>3, Zenon DEF Listed, KeysOf
<1>12. LruTypeOK'
    BY <1>1, <1>5, <1>7, <1>8, Zenon DEF LruTypeOK, EvictedTo
<1>13. Len(dlist') <= Capacity
    <2>1. Capacity <= Capacity
        BY <1>2
    <2>. QED BY <1>5, <2>1, Zenon DEF EvictedTo
<1>. QED BY <1>1, <1>6, <1>8, <1>10, <1>11, <1>12, <1>13, Zenon DEF LruInv

\* An empty cache satisfies the invariant.
LEMMA LruInitInv == LruInit => LruInv
<1>. SUFFICES ASSUME LruInit PROVE LruInv
    OBVIOUS
<1>1. HistoryOK /\ \A k \in CacheKeys : LastUse(k) = 0
    BY HistoryInit, Zenon DEF LruInit
<1>2. /\ calls \in Seq(Call) /\ dlist \in Seq(CacheKeys) /\ Len(dlist) = 0
      /\ DOMAIN cacheMap = {} /\ cacheMap = [k \in DOMAIN cacheMap |-> cacheMap[k]]
    BY DEF LruInit
<1>3. LruTypeOK
    BY <1>2 DEF LruTypeOK
<1>4. Ordered /\ Listed /\ Len(dlist) <= Capacity
    BY <1>2, LruAssumption DEF Ordered, Listed
<1>5. Evicted
    BY <1>1 DEF Evicted, Alive
<1>6. HoldsLastValue
    BY <1>2 DEF HoldsLastValue
<1>. QED BY <1>1, <1>3, <1>4, <1>5, <1>6 DEF LruInv

\* Every call keeps the invariant.
LEMMA LruStep == LruInv /\ [LruNext]_lruVars => LruInv'
<1>. SUFFICES ASSUME LruInv, [LruNext]_lruVars PROVE LruInv'
    OBVIOUS
<1>1. ASSUME NEW k \in CacheKeys, GetItem(k) PROVE LruInv'
    BY <1>1, GetKeeps
<1>2. ASSUME NEW k \in CacheKeys, RemoveItem(k) PROVE LruInv'
    BY <1>2, RemoveKeeps
<1>3. ASSUME NEW k \in CacheKeys, NEW v \in Values, SetItem(k, v) PROVE LruInv'
    BY <1>3, SetOldKeeps, SetNewKeeps, SetEvictsKeeps, Zenon DEF SetItem, SetEvicts
<1>4. CASE UNCHANGED lruVars
    <2>1. calls' = calls /\ dlist' = dlist /\ cacheMap' = cacheMap
        BY <1>4 DEF lruVars
    <2>2. LruTypeOK' /\ Listed' /\ (Len(dlist) <= Capacity)'
        BY <2>1 DEF LruInv, LruTypeOK, Listed
    <2>3. HistoryOK'
        BY <2>1 DEF LruInv, HistoryOK, HasLast, Uses, Sets
    <2>4. \A x : LastUse(x)' = LastUse(x) /\ LastSet(x)' = LastSet(x)
        BY <2>1 DEF LastUse, LastSet, LastOf, Uses, Sets
    <2>5. Ordered' /\ HoldsLastValue'
        BY <2>1, <2>4 DEF LruInv, Ordered, HoldsLastValue
    <2>6. \A x : (Alive(x)' <=> Alive(x)) /\ Later(x)' = Later(x)
        BY <2>1, <2>4 DEF Alive, Later
    <2>7. Evicted'
        BY <2>1, <2>6, Zenon DEF LruInv, Evicted
    <2>. QED BY <2>2, <2>3, <2>5, <2>7 DEF LruInv
<1>. QED BY <1>1, <1>2, <1>3, <1>4, Zenon DEF LruNext

\* The invariant is strong enough.
LEMMA LruInvMeans == LruInv => CacheIsLru
<1>. SUFFICES ASSUME LruInv PROVE CacheIsLru
    OBVIOUS
<1>. LruTypeOK /\ HistoryOK /\ Evicted /\ Listed /\ Ordered
    BY DEF LruInv
<1>1. DOMAIN dlist = 1..Len(dlist) /\ \A j \in 1..Len(dlist) : dlist[j] \in CacheKeys
    BY DEF LruTypeOK
<1>2. IsInjective(dlist)
    BY <1>1, OrderedOnce, Zenon DEF IsInjective
<1>3. Range(dlist) = DOMAIN cacheMap
    BY <1>1, Zenon DEF Listed, Range
<1>4. MapMatchesList
    BY <1>2, <1>3 DEF MapMatchesList, LruInv
<1>5. EvictsLeastRecent
    <2>1. \A i, j \in DOMAIN dlist : i < j => LastUse(dlist[i]) > LastUse(dlist[j])
        BY <1>1 DEF Ordered
    <2>. QED BY <2>1, Zenon DEF EvictsLeastRecent, Evicted, Later
<1>. QED BY <1>4, <1>5 DEF CacheIsLru, LruInv

\* The cache of the quota service is an LRU cache for any keys, values and
\* capacity: after any calls of Get, Set and Remove its map and its list hold
\* the same keys, the list is in the order of use, a key leaves it only for
\* Capacity keys used later, and a cached key has the value of its last Set.
THEOREM CacheStaysLru == LruSpec => []CacheIsLru
BY LruInitInv, LruStep, LruInvMeans, PTL DEF LruSpec

-----------------------------------------------------------------------------
(* The queue of sync_queue.go implements the FIFO of Fifo, for any number of  *)
(* goroutines and items.                                                      *)

\* A goroutine comes back from pop or tryPop with the oldest item, or with nil
\* from a closed and empty queue.
LEMMA ReturnTakes ==
    ASSUME NEW p \in Poppers,
           buffer # <<>> \/ closed,
           got' = [got EXCEPT ![p] = IF buffer = <<>> THEN None ELSE Head(buffer)],
           buffer' = IF buffer = <<>> THEN buffer ELSE Tail(buffer),
           UNCHANGED closed
    PROVE  F!Take(p) \/ F!TakeNothing(p)
<1>1. CASE buffer = <<>>
    <2>1. F!TakeNothing(p)
        BY <1>1 DEF F!TakeNothing
    <2>. QED BY <2>1
<1>2. CASE buffer # <<>>
    <2>1. F!Take(p)
        BY <1>2 DEF F!Take
    <2>. QED BY <2>1
<1>. QED BY <1>1, <1>2

\* Every critical section is one step of the FIFO, or leaves it as it is:
\* waiting and being woken do not show.
LEMMA StepsAreFifoSteps ==
    ASSUME [SyncNext]_syncVars
    PROVE  [F!FifoNext]_(F!fifoVars)
<1>1. ASSUME pushed + 1 \in Items, Push
      PROVE  [F!FifoNext]_(F!fifoVars)
    <2>1. CASE closed
        BY <1>1, <2>1 DEF Push, F!fifoVars
    <2>2. CASE ~closed
        <3>1. F!Put(pushed + 1)
            BY <1>1, <2>2 DEF Push, F!Put
        <3>. QED BY <1>1, <3>1 DEF F!FifoNext
    <2>. QED BY <2>1, <2>2
<1>2. CASE Close
    BY <1>2 DEF Close, F!FifoNext, F!CloseFifo
<1>3. ASSUME NEW p \in Poppers, CallPop(p) \/ PopWaits(p)
      PROVE  UNCHANGED F!fifoVars
    BY <1>3 DEF CallPop, PopWaits, F!fifoVars
<1>4. ASSUME NEW p \in Poppers, PopReturns(p) \/ TryPop(p)
      PROVE  F!FifoNext
    <2>1. F!Take(p) \/ F!TakeNothing(p)
        BY <1>4, ReturnTakes DEF PopReturns, TryPop
    <2>. QED BY <2>1 DEF F!FifoNext
<1>5. CASE UNCHANGED syncVars
    BY <1>5 DEF syncVars, F!fifoVars
<1>. QED BY <1>1, <1>2, <1>3, <1>4, <1>5 DEF SyncNext

\* The queue is a FIFO although its poppers wait on a condition variable, are
\* woken one by one and may find the item gone (push, pop, tryPop, close).
THEOREM QueueIsFifo == SyncSpec => ImplementsFifo
<1>1. SyncInit => F!FifoInit
    BY DEF SyncInit, F!FifoInit
<1>2. [SyncNext]_syncVars => [F!FifoNext]_(F!fifoVars)
    BY StepsAreFifoSteps
<1>. QED BY <1>1, <1>2, PTL DEF SyncSpec, ImplementsFifo, F!FifoSpec

-----------------------------------------------------------------------------
(* The queue in the database keeps a message until it was sent and sends in   *)
(* the order of publication, for any messages, outages and crashes.           *)

QueueTypeOK ==
    /\ store \in Seq(Messages)
    /\ sent \in Seq(Messages)
    /\ stored \subseteq offered /\ offered \subseteq Messages

\* What waits was offered and waits in the order of publication, behind all that
\* was sent; only the message at the front may have been sent already.
StoreInOrder ==
    /\ \A i \in DOMAIN store : store[i] \in offered
    /\ \A i \in DOMAIN sent : sent[i] \in offered
    /\ \A i, j \in DOMAIN store : i < j => store[i] < store[j]
    /\ \A i \in DOMAIN sent, j \in DOMAIN store : sent[i] <= store[j]

\* Front finds a message, and Pop removes one that was sent: nobody but the session
\* takes messages out.
SessionKnowsFront ==
    /\ session \in {"front", "pop"} => store # <<>>
    /\ session = "pop" => \E i \in DOMAIN sent : sent[i] = store[1]

KeptOrSent ==
    \A m \in stored : (\E i \in DOMAIN store : store[i] = m) \/ (\E i \in DOMAIN sent : sent[i] = m)

QueueInv == QueueTypeOK /\ StoreInOrder /\ SessionKnowsFront /\ KeptOrSent /\ SentInOrder

\* Pushback inserts at the tail what is newer than everything offered before.
LEMMA PushbackKeepsInv ==
    ASSUME QueueInv, NEW m \in Messages, Pushback(m)
    PROVE  QueueInv'
<1>. USE MessagesAssumption
<1>1. CASE up
    <2>1. store' = Append(store, m) /\ store' \in Seq(Messages) /\ sent' = sent
        <3>1. store' = Append(store, m) /\ sent' = sent
            BY <1>1, Zenon DEF Pushback
        <3>2. store \in Seq(Messages)
            BY Zenon DEF QueueInv, QueueTypeOK
        <3> QED
            BY <3>1, <3>2
    <2>2. /\ DOMAIN store' = 1..(Len(store) + 1) /\ DOMAIN store = 1..Len(store)
          /\ \A i \in DOMAIN store : store'[i] = store[i]
          /\ store'[Len(store) + 1] = m
          /\ Len(store) \in Nat
        BY <2>1 DEF QueueInv, QueueTypeOK
    <2>3. QueueTypeOK'
        BY <1>1, <2>1, Zenon DEF Pushback, QueueInv, QueueTypeOK
    <2>4. StoreInOrder'
        <3>1. \A n \in offered : n < m /\ n \in Nat
            BY DEF Pushback, QueueInv, QueueTypeOK
        <3>2. \A i \in DOMAIN store' : store'[i] \in offered'
            BY <2>2 DEF Pushback, QueueInv, StoreInOrder
        <3>3. \A i \in DOMAIN sent' : sent'[i] \in offered'
            BY <2>1 DEF Pushback, QueueInv, StoreInOrder
        <3>4. \A i, j \in DOMAIN store' : i < j => store'[i] < store'[j]
            BY <2>2, <3>1 DEF QueueInv, StoreInOrder
        <3>5. \A i \in DOMAIN sent', j \in DOMAIN store' : sent'[i] <= store'[j]
            BY <2>1, <2>2, <3>1 DEF QueueInv, StoreInOrder
        <3>. QED BY <3>2, <3>3, <3>4, <3>5 DEF StoreInOrder
    <2>5. SessionKnowsFront'
        <3>1. session' \in {"off", session}
            BY Zenon DEF Pushback, Restarts
        <3>. QED BY <2>1, <2>2, <3>1 DEF QueueInv, QueueTypeOK, SessionKnowsFront
    <2>6. KeptOrSent'
        BY <1>1, <2>1, <2>2 DEF Pushback, QueueInv, KeptOrSent
    <2>7. SentInOrder'
        BY <2>1 DEF QueueInv, SentInOrder
    <2>. QED BY <2>3, <2>4, <2>5, <2>6, <2>7 DEF QueueInv
<1>2. CASE ~up
    <2>1. session' \in {"off", session}
        BY Zenon DEF Pushback, Restarts
    <2>2. store' = store /\ sent' = sent /\ stored' = stored /\ offered' = offered \cup {m}
        BY <1>2, Zenon DEF Pushback
    <2>3. SessionKnowsFront'
        BY <2>1, <2>2 DEF QueueInv, SessionKnowsFront
    <2>. QED BY <2>2, <2>3, Zenon DEF QueueInv, QueueTypeOK, StoreInOrder, KeptOrSent, SentInOrder
<1>. QED BY <1>1, <1>2

\* Front and sendPublish send the oldest message of the collection, which is no
\* older than any that was sent.
LEMMA SendKeepsInv ==
    ASSUME QueueInv, FrontAndSend
    PROVE  QueueInv'
<1>. USE MessagesAssumption
<1>1. CASE up /\ alive
    <2>1. /\ Len(store) \in Nat \ {0} /\ DOMAIN store = 1..Len(store)
          /\ Head(store) = store[1] /\ store[1] \in Messages
          /\ store' = store
        BY DEF FrontAndSend, QueueInv, QueueTypeOK, SessionKnowsFront
    <2>2. /\ sent' \in Seq(Messages)
          /\ DOMAIN sent' = 1..(Len(sent) + 1) /\ DOMAIN sent = 1..Len(sent)
          /\ \A i \in DOMAIN sent : sent'[i] = sent[i]
          /\ sent'[Len(sent) + 1] = store[1]
          /\ Len(sent) \in Nat
        <3>1. sent' = Append(sent, Head(store)) /\ sent \in Seq(Messages)
            BY <1>1, Zenon DEF FrontAndSend, QueueInv, QueueTypeOK
        <3>2. PICK m \in Messages : m = store[1] /\ sent' = Append(sent, m)
            BY <2>1, <3>1, Zenon
        <3>. QED BY <3>1, <3>2
    <2>3. QueueTypeOK'
        BY <2>1, <2>2 DEF FrontAndSend, QueueInv, QueueTypeOK
    <2>4. StoreInOrder'
        <3>1. \A j \in DOMAIN store : store[1] <= store[j]
            <4>1. \A j \in DOMAIN store : store[j] \in Nat
                BY <2>1, Zenon DEF QueueInv, QueueTypeOK, StoreInOrder
            <4>2. \A j \in DOMAIN store : 1 < j => store[1] < store[j]
                BY <2>1 DEF QueueInv, StoreInOrder
            <4>. QED BY <2>1, <4>1, <4>2
        <3>. QED BY <2>1, <2>2, <3>1 DEF FrontAndSend, QueueInv, StoreInOrder
    <2>5. SessionKnowsFront'
        BY <1>1, <2>1, <2>2 DEF FrontAndSend, QueueInv, QueueTypeOK, SessionKnowsFront
    <2>6. KeptOrSent'
        BY <2>1, <2>2 DEF FrontAndSend, QueueInv, KeptOrSent
    <2>7. SentInOrder'
        BY <2>1, <2>2 DEF QueueInv, QueueTypeOK, StoreInOrder, SentInOrder
    <2>. QED BY <2>3, <2>4, <2>5, <2>6, <2>7 DEF QueueInv
<1>2. CASE ~(up /\ alive)
    BY <1>2 DEF FrontAndSend, QueueInv, QueueTypeOK, StoreInOrder, SessionKnowsFront,
                KeptOrSent, SentInOrder
<1>. QED BY <1>1, <1>2

\* Pop removes the message that was sent last.
LEMMA PopKeepsInv ==
    ASSUME QueueInv, Pop
    PROVE  QueueInv'
<1>. USE MessagesAssumption
<1>1. CASE up
    <2>1. /\ Len(store) \in Nat \ {0} /\ DOMAIN store = 1..Len(store)
          /\ store' = Tail(store)
          /\ \E i \in DOMAIN sent : sent[i] = store[1]
        BY <1>1 DEF Pop, QueueInv, QueueTypeOK, SessionKnowsFront
    <2>2. /\ store' \in Seq(Messages)
          /\ DOMAIN store' = 1..(Len(store) - 1)
          /\ \A i \in DOMAIN store' : store'[i] = store[i + 1]
        BY <2>1 DEF QueueInv, QueueTypeOK
    <2>3. QueueTypeOK' /\ SentInOrder' /\ SessionKnowsFront'
        BY <2>2 DEF Pop, QueueInv, QueueTypeOK, SentInOrder, SessionKnowsFront
    <2>4. StoreInOrder'
        BY <2>1, <2>2 DEF Pop, QueueInv, StoreInOrder
    <2>5. KeptOrSent'
        <3>1. ASSUME NEW m \in stored, NEW i \in DOMAIN store, store[i] = m, i # 1
              PROVE  \E j \in DOMAIN store' : store'[j] = m
            <4>1. i - 1 \in DOMAIN store' /\ store'[i - 1] = m
                BY <2>1, <2>2, <3>1
            <4>. QED BY <4>1
        <3>. QED BY <2>1, <3>1 DEF Pop, QueueInv, KeptOrSent
    <2>. QED BY <2>3, <2>4, <2>5 DEF QueueInv
<1>2. CASE ~up
    BY <1>2 DEF Pop, QueueInv, QueueTypeOK, StoreInOrder, SessionKnowsFront,
                KeptOrSent, SentInOrder
<1>. QED BY <1>1, <1>2

\* Every other step leaves the collection alone; it may end the session, and only
\* the answer of Length that there is a message leads to Front.
LEMMA OthersKeepInv ==
    ASSUME QueueInv,
           \/ DataAvailable \/ ClearObserver \/ Connect \/ Disconnect \/ Handle \/ HandleDone
           \/ HandleForever \/ Length \/ Break \/ Outage \/ Crash \/ UNCHANGED queueVars
    PROVE  QueueInv'
<1>1. UNCHANGED <<store, offered, stored, sent>>
    BY Zenon DEF DataAvailable, ClearObserver, Connect, Disconnect, Handle, HandleDone,
                 HandleForever, Length, Break, Outage, Crash, queueVars
<1>2. session' \in {"front", "pop"} => session' = session \/ (session' = "front" /\ store # <<>>)
    BY DEF DataAvailable, ClearObserver, Connect, Disconnect, Restarts, Handle, HandleDone,
           HandleForever, Length, Break, Outage, Crash, queueVars
<1>3. SessionKnowsFront'
    BY <1>1, <1>2 DEF QueueInv, SessionKnowsFront
<1>. QED BY <1>1, <1>3 DEF QueueInv, QueueTypeOK, StoreInOrder, KeptOrSent, SentInOrder

\* Whatever fails between Front and Pop, database or connection, and wherever the broker
\* crashes or panics, a stored message stays until it was sent, and messages are sent in
\* the order of their publication, across every reconnection.
THEOREM QueueStoresAndSendsInOrder == PersistentSpec => []StoredSentInOrder
<1>1. PersistentInit => QueueInv
    BY DEF PersistentInit, QueueInv, QueueTypeOK, StoreInOrder, SessionKnowsFront,
           KeptOrSent, SentInOrder
<1>2. ASSUME QueueInv, [PersistentNext]_queueVars
      PROVE  QueueInv'
    BY <1>2, PushbackKeepsInv, SendKeepsInv, PopKeepsInv, OthersKeepInv, Zenon
       DEF PersistentNext, SessionStep
<1>3. QueueInv => StoredSentInOrder
    BY DEF QueueInv, QueueTypeOK, KeptOrSent, StoredSentInOrder, KeptUntilSent, Range
<1>. QED BY <1>1, <1>2, <1>3, PTL DEF PersistentSpec

-----------------------------------------------------------------------------
(* The retain list, for any number of messages, packet ids and masks.         *)

\* The list is the end of what was delivered.  Retained messages have the packet id
\* 0, so only a PUBACK of id 0 removes one, the first.  While no id 0 was used a
\* second time, the client has the first message of the list under it.
FlightInv ==
    /\ buf \in Seq(Mids \cup {Nil}) /\ count \in Nat /\ count <= Len(buf)
    /\ delivered \in 0..MaxMessages /\ nextPacketID \in Nat /\ zeroAcks \in Nat
    /\ ~panicked =>
          /\ count <= delivered /\ delivered - count <= zeroAcks
          /\ \A i \in 1..count : buf[i] = delivered - count + i
          /\ ~reused =>
                /\ \A m \in 1..(delivered - count) : m \in acked
                /\ nextPacketID = 0 => count = 0
                /\ \A p \in unanswered : p.id = 0 => count >= 1 /\ p.mid = delivered - count + 1

\* What the client owes an answer to is told apart by packet id and message.
AnswersAreRecords == \A p \in unanswered : p = [id |-> p.id, mid |-> p.mid]

\* Deliveries and reconnections add records, a PUBACK takes one away.
LEMMA RecordsStay ==
    ASSUME AnswersAreRecords, [InflightNext]_inflightVars
    PROVE  AnswersAreRecords'
<1>1. CASE DeliverQos1
  <2>1. PICK i, n : unanswered' = unanswered \cup {[id |-> i, mid |-> n]}
    BY <1>1, Zenon DEF DeliverQos1
  <2>. QED BY <2>1 DEF AnswersAreRecords
<1>2. ASSUME NEW p \in unanswered, PubAck(p)
      PROVE  AnswersAreRecords'
  BY <1>2, Zenon DEF PubAck, AnswersAreRecords
<1>3. CASE Reconnect
  <2>1. \A p \in unanswered' : \E i, n : p = [id |-> i, mid |-> n]
    BY <1>3, Zenon DEF Reconnect
  <2>. QED BY <2>1 DEF AnswersAreRecords
<1>4. CASE UNCHANGED inflightVars
  BY <1>4, Zenon DEF inflightVars, AnswersAreRecords
<1>. QED BY <1>1, <1>2, <1>3, <1>4, Zenon DEF InflightNext

\* The invariant of the retain list implies what is checked of it.
LEMMA FlightInvImplies == FlightInv => RetainListHolds
<1> SUFFICES ASSUME FlightInv, ~panicked
             PROVE  RetainListHolds
  BY DEF RetainListHolds, LastDelivered, RemovedByAnswer, UnackedRetained
<1>1. /\ Retained \in Seq(Mids \cup {Nil}) /\ Len(Retained) = count
      /\ \A i \in 1..count : Retained[i] = buf[i]
  BY DEF FlightInv, Retained
<1>2. LastDelivered
  <2>1. \A i \in 1..count : Retained[i] = delivered - count + i
    BY <1>1 DEF FlightInv
  <2>2. Retained = [i \in 1..count |-> Retained[i]]
    BY <1>1
  <2> QED BY <2>1, <2>2, Zenon DEF LastDelivered
<1>3. RemovedByAnswer
  BY DEF FlightInv, RemovedByAnswer
<1>4. ASSUME ~reused, NEW m \in 1..delivered
      PROVE  m \in acked \/ m \in Range(Retained)
  <2>1. CASE m \in 1..(delivered - count)
    BY <1>4, <2>1 DEF FlightInv
  <2>2. CASE m \notin 1..(delivered - count)
    <3>1. /\ m - (delivered - count) \in 1..count
          /\ m = delivered - count + (m - (delivered - count))
      BY <2>2 DEF FlightInv
    <3>2. PICK i \in 1..count : m = delivered - count + i
      BY <3>1, Zenon
    <3>3. Retained[i] = m /\ i \in DOMAIN Retained
      BY <1>1, <3>2 DEF FlightInv
    <3> QED BY <3>3, Zenon DEF Range
  <2> QED BY <2>1, <2>2
<1> QED
  BY <1>2, <1>3, <1>4, Zenon DEF RetainListHolds, UnackedRetained

\* An id of 0 is written as 0.
LEMMA ZeroOnTheWire == WireId(0) = 0
  BY InflightAssumption DEF WireId

\* resize keeps the messages of the list at their places.
LEMMA ResizedKeeps ==
    ASSUME NEW b \in Seq(Mids \cup {Nil}), NEW n \in Nat, n <= Len(b)
    PROVE  /\ Resized(b, n) \in Seq(Mids \cup {Nil}) /\ Len(Resized(b, n)) = 2 * n
           /\ \A i \in 1..n : Resized(b, n)[i] = b[i]
<1>1. 2 * n \in Nat /\ n <= 2 * n
  OBVIOUS
<1>2. \A i \in 1..(2 * n) : (IF i <= n THEN b[i] ELSE Nil) \in Mids \cup {Nil}
  OBVIOUS
<1> QED
  BY <1>1, <1>2 DEF Resized

\* Remove of the first place moves every other message down by one place.
LEMMA FirstRemoved ==
    ASSUME NEW b \in Seq(Mids \cup {Nil}), b # <<>>
    PROVE  /\ ClosedUp(b, 1) \in Seq(Mids \cup {Nil}) /\ Len(ClosedUp(b, 1)) = Len(b) - 1
           /\ \A i \in 1..(Len(b) - 1) : ClosedUp(b, 1)[i] = b[i + 1]
<1> DEFINE none == SubSeq(b, 1, 0)
           rest == SubSeq(b, 2, Len(b))
<1>1. none = <<>>
  OBVIOUS
<1>2. /\ rest \in Seq(Mids \cup {Nil}) /\ Len(rest) = Len(b) - 1
      /\ \A i \in 1..(Len(b) - 1) : rest[i] = b[i + 1]
  <2>1. Len(b) \in Nat /\ Len(b) >= 1
    OBVIOUS
  <2>2. \A i \in 2..Len(b) : b[i] \in Mids \cup {Nil}
    OBVIOUS
  <2>3. rest \in Seq(Mids \cup {Nil})
    BY <2>1, <2>2
  <2>4. Len(rest) = Len(b) - 1
    <3>1. CASE Len(b) = 1
      BY <3>1
    <3>2. CASE Len(b) >= 2
      BY <2>1, <3>2
    <3> HIDE DEF rest
    <3>3. \A k \in Nat : k >= 1 => k = 1 \/ k >= 2
      OBVIOUS
    <3>4. Len(b) = 1 \/ Len(b) >= 2
      BY <2>1, <3>3, Zenon
    <3> QED
      BY <3>1, <3>2, <3>4, Zenon
  <2>5. ASSUME NEW i \in 1..(Len(b) - 1)
        PROVE  rest[i] = b[i + 1]
    BY <2>1, <2>5
  <2> QED
    BY <2>3, <2>4, <2>5
<1>3. ClosedUp(b, 1) = none \o rest
  BY DEF ClosedUp
<1> HIDE DEF none, rest
<1>4. <<>> \o rest = rest
  BY <1>2
<1> QED
  BY <1>1, <1>2, <1>3, <1>4

\* A delivery, with the growth of the list, keeps the invariant.
LEMMA DeliverKeepsInv ==
    ASSUME FlightInv, DeliverQos1
    PROVE  FlightInv'
<1> DEFINE m == delivered + 1
           p == MakePacketID(nextPacketID)
           b == IF count = Len(buf) THEN Resized(buf, count) ELSE buf
<1>0. /\ ~panicked /\ delivered < MaxMessages /\ ListPushback(m) /\ delivered' = m
      /\ nextPacketID' = p.next
      /\ unanswered' = unanswered \cup {[id |-> WireId(p.id), mid |-> m]}
      /\ reused' = (reused \/ (WireId(p.id) = 0 /\ nextPacketID > 0))
      /\ UNCHANGED <<acked, zeroAcks>>
  BY DEF DeliverQos1
<1>1. /\ delivered \in Nat /\ m \in Mids /\ m \in 0..MaxMessages /\ nextPacketID \in Nat
      /\ zeroAcks \in Nat
  BY <1>0, InflightAssumption DEF FlightInv, Mids
<1>2. /\ p.next \in Nat
      /\ nextPacketID = 0 => p.id = 0
      /\ p.next = 0 => p.id = 0 /\ nextPacketID > 0
  BY <1>1, InflightAssumption DEF MakePacketID
<1>3. /\ b \in Seq(Mids \cup {Nil}) /\ count <= Len(b) /\ \A i \in 1..count : b[i] = buf[i]
  BY ResizedKeeps DEF FlightInv
<1>5. CASE count + 1 \in DOMAIN b
  <2>1. buf' = [b EXCEPT ![count + 1] = m] /\ count' = count + 1 /\ UNCHANGED panicked
    BY <1>0, <1>5 DEF ListPushback
  <2> HIDE DEF b, p
  <2>2. /\ buf' \in Seq(Mids \cup {Nil}) /\ count' <= Len(buf') /\ count' \in Nat
        /\ buf'[count + 1] = m /\ \A i \in 1..count : buf'[i] = buf[i]
    BY <1>1, <1>3, <1>5, <2>1 DEF FlightInv
  <2>3. /\ count' <= delivered' /\ delivered' - count' = delivered - count
        /\ delivered' - count' <= zeroAcks'
    BY <1>0, <1>1, <2>1 DEF FlightInv
  <2>4. \A i \in 1..count' : buf'[i] = delivered' - count' + i
    <3> SUFFICES ASSUME NEW i \in 1..(count + 1)
                 PROVE  buf'[i] = delivered - count + i
      BY <2>1, <2>3
    <3>1. CASE i \in 1..count
      BY <1>0, <2>2, <3>1 DEF FlightInv
    <3>2. CASE i = count + 1
      BY <1>1, <2>2, <3>2 DEF FlightInv
    <3> QED
      BY <3>1, <3>2 DEF FlightInv
  <2>5. ASSUME ~reused'
        PROVE  /\ \A n \in 1..(delivered' - count') : n \in acked'
               /\ nextPacketID' # 0
               /\ \A q \in unanswered' : q.id = 0 =>
                     count' >= 1 /\ q.mid = delivered' - count' + 1
    <3>1. ~reused /\ (WireId(p.id) = 0 => nextPacketID = 0)
      <4>1. ~reused /\ ~(WireId(p.id) = 0 /\ nextPacketID > 0)
        BY <1>0, <2>5, Zenon
      <4> QED BY <1>1, <4>1
    <3>2. \A n \in 1..(delivered - count) : n \in acked
      BY <1>0, <3>1 DEF FlightInv
    <3>3. nextPacketID' # 0
      BY <1>0, <1>1, <1>2, <3>1, ZeroOnTheWire
    <3>4. ASSUME NEW q \in unanswered', q.id = 0
          PROVE  count' >= 1 /\ q.mid = delivered - count + 1
      <4>1. CASE q \in unanswered
        BY <1>0, <2>1, <3>1, <3>4, <4>1 DEF FlightInv
      <4>2. CASE q = [id |-> WireId(p.id), mid |-> m]
        <5>1. nextPacketID = 0 /\ q.mid = m
          BY <3>1, <3>4, <4>2
        <5>2. count = 0
          BY <1>0, <3>1, <5>1 DEF FlightInv
        <5> QED BY <1>1, <2>1, <5>1, <5>2
      <4> QED BY <1>0, <4>1, <4>2
    <3> QED BY <1>0, <2>3, <3>2, <3>3, <3>4, Zenon
  <2> QED
    BY <1>0, <1>1, <1>2, <2>2, <2>3, <2>4, <2>5, Zenon DEF FlightInv
<1>6. CASE count + 1 \notin DOMAIN b
  <2>1. buf' = b /\ panicked' = TRUE /\ UNCHANGED count
    BY <1>0, <1>6 DEF ListPushback
  <2> HIDE DEF b, p
  <2> QED
    BY <1>0, <1>1, <1>2, <1>3, <2>1 DEF FlightInv
<1> QED
  BY <1>5, <1>6

\* A PUBACK, with the shrinkage of the list, keeps the invariant.
LEMMA PubAckKeepsInv ==
    ASSUME FlightInv, AnswersAreRecords, NEW p \in unanswered, PubAck(p)
    PROVE  FlightInv'
<1> DEFINE hits == {i \in 1..count : PacketId(buf[i]) = p.id}
           b    == IF hits = {} THEN buf
                   ELSE ClosedUp(buf, CHOOSE i \in hits : \A j \in hits : i <= j)
           n    == IF hits = {} THEN count ELSE count - 1
           small == Len(b) > MinQueueLen /\ 4 * n = Len(b)
<1>0. /\ ~panicked
      /\ buf' = (IF small THEN Resized(b, n) ELSE b) /\ count' = n
      /\ acked' = acked \cup {p.mid}
      /\ unanswered' = unanswered \ {p}
      /\ zeroAcks' = (IF p.id = 0 THEN zeroAcks + 1 ELSE zeroAcks)
      /\ UNCHANGED <<nextPacketID, delivered, reused, panicked>>
  BY DEF PubAck, RemoveFromList
<1>1. /\ count \in Nat /\ delivered \in Nat /\ count <= delivered /\ delivered - count <= zeroAcks
      /\ zeroAcks \in Nat /\ zeroAcks' \in Nat /\ zeroAcks <= zeroAcks'
  BY <1>0 DEF FlightInv
<1>2. CASE hits = {}
  <2>1. b = buf /\ n = count
    BY <1>2
  <2>2. count = 0 \/ p.id # 0
    <3>1. count # 0 => 1 \in 1..count
      BY <1>1
    <3> QED BY <1>2, <3>1 DEF PacketId
  <2> HIDE DEF b, n, hits
  <2>3. /\ buf' \in Seq(Mids \cup {Nil}) /\ count' = count /\ count <= Len(buf')
        /\ \A i \in 1..count : buf'[i] = buf[i]
    BY <1>0, <2>1, ResizedKeeps DEF FlightInv
  <2>4. \A i \in 1..count' : buf'[i] = delivered' - count' + i
    BY <1>0, <2>3 DEF FlightInv
  <2>5. delivered' - count' <= zeroAcks' /\ count' <= delivered'
    BY <1>0, <1>1, <2>3
  <2>6. ASSUME ~reused
        PROVE  /\ \A m \in 1..(delivered - count) : m \in acked'
               /\ nextPacketID = 0 => count = 0
               /\ \A q \in unanswered' : q.id = 0 => count >= 1 /\ q.mid = delivered - count + 1
    BY <1>0, <2>6 DEF FlightInv
  <2> QED
    BY <1>0, <1>1, <2>3, <2>4, <2>5, <2>6 DEF FlightInv
<1>3. CASE hits # {}
  <2>1. p.id = 0 /\ hits = 1..count /\ 1 \in hits /\ count >= 1
    BY <1>1, <1>3 DEF PacketId
  <2>2. (CHOOSE i \in hits : \A j \in hits : i <= j) = 1
    <3>1. 1 \in hits /\ \A j \in hits : 1 <= j
      BY <2>1
    <3>2. \A i \in hits : (\A j \in hits : i <= j) => i = 1
      BY <2>1
    <3> QED
      BY <3>1, <3>2
  <2>3. b = ClosedUp(buf, 1) /\ n = count - 1
    BY <1>3, <2>2
  <2>4. /\ b \in Seq(Mids \cup {Nil}) /\ n \in Nat /\ n <= Len(b)
        /\ \A i \in 1..n : b[i] = buf[i + 1]
    <3>1. buf # <<>> /\ buf \in Seq(Mids \cup {Nil}) /\ count <= Len(buf)
      BY <2>1 DEF FlightInv
    <3> DEFINE r == ClosedUp(buf, 1)
    <3>2. /\ r \in Seq(Mids \cup {Nil}) /\ Len(r) = Len(buf) - 1
          /\ \A i \in 1..(Len(buf) - 1) : r[i] = buf[i + 1]
      BY <3>1, FirstRemoved
    <3>3. b = r /\ n = count - 1 /\ count >= 1
      BY <2>1, <2>3
    <3> HIDE DEF r, b, n
    <3> QED
      BY <1>1, <3>1, <3>2, <3>3
  <2> HIDE DEF b, n, hits
  <2>5. /\ buf' \in Seq(Mids \cup {Nil}) /\ n <= Len(buf')
        /\ \A i \in 1..n : buf'[i] = buf[i + 1]
    <3>1. CASE small
      <4>1. buf' = Resized(b, n) /\ n <= 2 * n
        BY <1>0, <2>4, <3>1
      <4> HIDE DEF small
      <4> QED
        BY <2>4, <4>1, ResizedKeeps
    <3>2. CASE ~ small
      BY <1>0, <2>4, <3>2
    <3> QED
      BY <3>1, <3>2
  <2>6. \A i \in 1..n : buf'[i] = delivered - n + i
    <3> SUFFICES ASSUME NEW i \in 1..n
                 PROVE  buf'[i] = delivered - n + i
      OBVIOUS
    <3>1. i + 1 \in 1..count
      BY <1>1, <2>3
    <3>2. buf[i + 1] = delivered - count + (i + 1)
      BY <1>0, <3>1 DEF FlightInv
    <3> QED BY <1>1, <2>3, <2>5, <3>2
  <2>7. n <= delivered /\ delivered - n <= zeroAcks' /\ delivered - n = delivered - count + 1
    BY <1>0, <1>1, <2>1, <2>3
  <2>8. ASSUME ~reused
        PROVE  /\ \A m \in 1..(delivered - n) : m \in acked'
               /\ nextPacketID = 0 => n = 0
               /\ \A q \in unanswered' : q.id # 0
    <3>1. /\ \A m \in 1..(delivered - count) : m \in acked
          /\ nextPacketID # 0
          /\ \A q \in unanswered : q.id = 0 => q.mid = delivered - count + 1
      BY <1>0, <2>1, <2>8 DEF FlightInv
    <3>2. p.mid = delivered - count + 1
      BY <2>1, <3>1
    <3>3. ASSUME NEW m \in 1..(delivered - n)
          PROVE  m \in acked'
      <4>1. m \in 1..(delivered - count) \/ m = delivered - count + 1
        BY <1>1, <2>7
      <4> QED BY <1>0, <3>1, <3>2, <4>1, Zenon
    <3>4. ASSUME NEW q \in unanswered', q.id = 0
          PROVE  FALSE
      <4>1. q \in unanswered /\ q # p /\ q.mid = p.mid /\ q.id = p.id
        BY <1>0, <2>1, <3>1, <3>2, <3>4
      <4>2. q = [id |-> q.id, mid |-> q.mid] /\ p = [id |-> p.id, mid |-> p.mid]
        BY <4>1, Zenon DEF AnswersAreRecords
      <4> QED BY <4>1, <4>2, Zenon
    <3> QED BY <3>1, <3>3, <3>4
  <2> QED
    BY <1>0, <1>1, <2>4, <2>5, <2>6, <2>7, <2>8 DEF FlightInv
<1> QED
  BY <1>2, <1>3

\* The id after few messages is their number.
LEMMA NextIdIsCount ==
    ASSUME NEW c \in Nat, NEW m \in Nat, c <= m
    PROVE  c % (m + 1) = c
BY SMTT(20)

\* A new session, which sends the list again, keeps the invariant.
LEMMA ReconnectKeepsInv ==
    ASSUME FlightInv, Reconnect
    PROVE  FlightInv'
<1>1. /\ nextPacketID' = count % (MaxPacketID + 1)
      /\ unanswered' = {[id |-> WireId(SentId(i - 1)), mid |-> buf[i]] : i \in 1..count}
      /\ reused' = (reused \/ \E i \in 2..count : WireId(SentId(i - 1)) = 0)
      /\ UNCHANGED <<buf, count, delivered, acked, zeroAcks, panicked>> /\ ~panicked
  BY DEF Reconnect
<1>2. count \in Nat /\ delivered \in Nat /\ nextPacketID' \in Nat
  BY <1>1, InflightAssumption DEF FlightInv
<1>3. ASSUME ~reused'
      PROVE  /\ nextPacketID' = 0 => count = 0
             /\ \A p \in unanswered' : p.id = 0 => count >= 1 /\ p.mid = delivered - count + 1
  <2>1. \A i \in 2..count : WireId(SentId(i - 1)) # 0
    BY <1>1, <1>3
  <2>2. ASSUME count # 0
        PROVE  nextPacketID' # 0
    <3>1. CASE count <= MaxPacketID
      <4>1. count % (MaxPacketID + 1) = count
        <5>1. MaxPacketID \in Nat
          BY InflightAssumption, Zenon
        <5>. QED BY <1>2, <3>1, <5>1, NextIdIsCount, Zenon
      <4>. QED BY <1>1, <2>2, <4>1, Zenon
    <3>2. CASE count > MaxPacketID
      <4>1. MaxPacketID + 1 \in 2..count /\ (MaxPacketID + 1) - 1 = MaxPacketID
        BY <1>2, <3>2, InflightAssumption
      <4>2. MaxPacketID % (MaxPacketID + 1) = MaxPacketID
        BY InflightAssumption
      <4>3. SentId(MaxPacketID) = 0
        BY <4>2, InflightAssumption DEF SentId, MakePacketID
      <4> QED BY <2>1, <4>1, <4>3, ZeroOnTheWire
    <3> QED BY <1>2, <3>1, <3>2, InflightAssumption
  <2>3. ASSUME NEW p \in unanswered', p.id = 0
        PROVE  count >= 1 /\ p.mid = delivered - count + 1
    <3>1. PICK i \in 1..count : p = [id |-> WireId(SentId(i - 1)), mid |-> buf[i]]
      BY <1>1, Zenon
    <3>2. p.id = WireId(SentId(i - 1)) /\ p.mid = buf[i]
      BY <3>1
    <3>3. i = 1 /\ count >= 1
      BY <1>2, <2>1, <2>3, <3>2
    <3> QED BY <1>1, <3>2, <3>3 DEF FlightInv
  <2> QED BY <2>2, <2>3, Zenon
<1> QED
  <2>1. reused => reused'
    BY <1>1
  <2>2. /\ buf' \in Seq(Mids \cup {Nil}) /\ count' \in Nat /\ count' <= Len(buf')
        /\ delivered' \in 0..MaxMessages /\ zeroAcks' \in Nat
        /\ count' <= delivered' /\ delivered' - count' <= zeroAcks'
        /\ \A i \in 1..count' : buf'[i] = delivered' - count' + i
        /\ ~reused => \A m \in 1..(delivered' - count') : m \in acked'
    BY <1>1 DEF FlightInv
  <2>3. ~reused' => /\ nextPacketID' = 0 => count' = 0
                    /\ \A p \in unanswered' :
                          p.id = 0 => count' >= 1 /\ p.mid = delivered' - count' + 1
    BY <1>1, <1>3
  <2> QED BY <1>2, <2>1, <2>2, <2>3, Zenon DEF FlightInv

\* What the next session sends again is the end of what was delivered, in order and
\* without a gap; no more has left it than PUBACKs for the id 0 came, and nothing
\* that the client owes an answer to before some session has used that id twice:
\* through growth and shrinkage of the list and any order of acknowledgements
\* (transientList.Pushback, Remove and resize, makePacketID, writeUint16,
\* handlePubAck).
THEOREM RetainListIsComplete == InflightSpec => []RetainListHolds
<1>1. InflightInit => FlightInv
  <2> SUFFICES ASSUME InflightInit
               PROVE  FlightInv
    OBVIOUS
  <2>1. buf \in Seq(Mids \cup {Nil}) /\ Len(buf) \in Nat
    BY InflightAssumption DEF InflightInit
  <2> QED
    BY <2>1, InflightAssumption DEF InflightInit, FlightInv
<1>2. FlightInv /\ AnswersAreRecords /\ [InflightNext]_inflightVars => FlightInv'
  <2> SUFFICES ASSUME FlightInv, AnswersAreRecords, [InflightNext]_inflightVars
               PROVE  FlightInv'
    OBVIOUS
  <2>1. CASE UNCHANGED inflightVars
    BY <2>1 DEF FlightInv, inflightVars
  <2> QED
    BY <2>1, DeliverKeepsInv, PubAckKeepsInv, ReconnectKeepsInv, Zenon DEF InflightNext
<1>3. InflightInit => AnswersAreRecords
  BY DEF InflightInit, AnswersAreRecords
<1>4. AnswersAreRecords /\ [InflightNext]_inflightVars => AnswersAreRecords'
  BY RecordsStay, Zenon
<1> QED
  BY <1>1, <1>2, <1>3, <1>4, FlightInvImplies, PTL DEF InflightSpec
=============================================================================
