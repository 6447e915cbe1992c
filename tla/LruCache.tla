------------------------------ MODULE LruCache ------------------------------
(***************************************************************************)
(* The reference-counting LRU cache (util/lrucache/lrucache.go) as pure    *)
(* operators, for the components that keep one under their own lock.       *)
(*                                                                         *)
(* A value is a pair of its key and a number.  A cache is a record: order, *)
(* the cached values, most recently used first, and refs, who refers to a  *)
(* value.  A count of the code is the number of members of refs: the       *)
(* cache's own reference (taken by initialize, dropped once by finalize)   *)
(* is CacheRef, every other member is a "done" callback, which also counts *)
(* once.                                                                   *)
(***************************************************************************)
EXTENDS Integers, Sequences

NoValue == <<>>
CacheRef == <<>>

Cached(c) == {c.order[i] : i \in DOMAIN c.order}

\* The list without the element of a cached value.
Position(c, v) == CHOOSE i \in DOMAIN c.order : c.order[i] = v
Without(c, v) ==
    [i \in 1 .. Len(c.order) - 1 |-> c.order[IF i < Position(c, v) THEN i ELSE i + 1]]

Key(v) == v[1]

\* New
EmptyCache(Values) == [order |-> <<>>, refs |-> [v \in Values |-> {}]]

\* The cached value of a key.
Find(c, k) ==
    IF \E v \in Cached(c) : Key(v) = k
    THEN CHOOSE v \in Cached(c) : Key(v) = k
    ELSE NoValue

\* Get of a cached value, for the referrer h.
Use(c, v, h) ==
    [order |-> <<v>> \o Without(c, v), refs |-> [c.refs EXCEPT ![v] = @ \union {h}]]

\* Add of a value whose key is not cached: the oldest value goes when max, if
\* there is one, is exceeded.
Insert(c, v, h, max) ==
    LET full == Len(c.order) >= max /\ max # 0
        last == c.order[Len(c.order)]
        refs == [c.refs EXCEPT ![v] = {CacheRef, h}]
    IN  IF ~full THEN [order |-> <<v>> \o c.order, refs |-> refs]
        ELSE [order |-> <<v>> \o Without(c, last),
              refs  |-> [refs EXCEPT ![last] = @ \ {CacheRef}]]

\* Remove of a key, cached or not.
Evict(c, k) ==
    LET v == Find(c, k)
    IN  IF v = NoValue THEN c
        ELSE [order |-> Without(c, v), refs |-> [c.refs EXCEPT ![v] = @ \ {CacheRef}]]

\* The done callback of the referrer h of the value v.
Done(c, v, h) ==
    [order |-> c.order, refs |-> [c.refs EXCEPT ![v] = @ \ {h}]]

\* OnEvicted has not been called for the value: its count is not zero.
Alive(c, v) == v # NoValue /\ c.refs[v] # {}

\* The values OnEvicted is called for when the cache goes from c to d.
Finalized(c, d) == {v \in DOMAIN c.refs : c.refs[v] # {} /\ d.refs[v] = {}}

(* A cache holds no more than max values and one per key, and has its own  *)
(* reference to exactly the values it holds.                               *)
CacheOK(c, max) ==
    /\ max # 0 => Len(c.order) <= max
    /\ \A i, j \in DOMAIN c.order : Key(c.order[i]) = Key(c.order[j]) => i = j
    /\ \A v \in DOMAIN c.refs : v \in Cached(c) <=> CacheRef \in c.refs[v]
=============================================================================
