-------------------------- MODULE LazyMountsProofs --------------------------
(***************************************************************************)
(* Proofs about LazyMounts, for any mountpoints, layers, sizes of the      *)
(* caches and faults.                                                      *)
(*                                                                         *)
(* First what each operation of LruCache does to the list and to the       *)
(* referrers of a value.  The invariant then says exactly who refers to    *)
(* what: LayersInv for layers (goroutines and registered paths), BlobsInv  *)
(* for blobs (goroutines and open layers).  Both directions are needed: a  *)
(* layer stays open because its mountpoint refers to it, and a reference   *)
(* can be given back because nobody else has it.  ControlInv says at which *)
(* step a goroutine has a reference to give.                               *)
(***************************************************************************)
EXTENDS LazyMounts, TLAPS

-----------------------------------------------------------------------------
(* What the operations of LruCache do.                                     *)

\* A cache of values V with referrers H.
IsCache(c, V, H) ==
    c.order \in Seq(V) /\ c.refs \in [V -> SUBSET H]

\* The list without a cached value: the other elements, in their order.
LEMMA WithoutFacts ==
    ASSUME NEW c, NEW V, NEW H, IsCache(c, V, H), NEW v \in Cached(c)
    PROVE  LET p == Position(c, v)
               n == Len(c.order)
               s == Without(c, v)
           IN  /\ n \in Nat \ {0} /\ p \in 1 .. n /\ c.order[p] = v
               /\ s \in Seq(V) /\ Len(s) = n - 1
               /\ \A i \in 1 .. n - 1 : s[i] = c.order[IF i < p THEN i ELSE i + 1]
<1> DEFINE n == Len(c.order)
           p == Position(c, v)
           s == Without(c, v)
<1>1. c.order \in Seq(V) /\ n \in Nat /\ DOMAIN c.order = 1 .. n
  BY SMTT(60), Z3T(60) DEF IsCache
<1>2. \E i \in DOMAIN c.order : c.order[i] = v
  BY ZenonT(60) DEF Cached
<1>3. p \in DOMAIN c.order /\ c.order[p] = v
  BY <1>2, ZenonT(60) DEF Position
<1> HIDE DEF p
<1>4. n \in Nat \ {0} /\ p \in 1 .. n
  BY <1>1, <1>3, SMTT(60), Z3T(60)
<1>5. s = [i \in 1 .. n - 1 |-> c.order[IF i < p THEN i ELSE i + 1]]
  BY ZenonT(60) DEF Without, p
<1>6. \A i \in 1 .. n - 1 : c.order[IF i < p THEN i ELSE i + 1] \in V
  BY <1>1, <1>4, SMTT(60), Z3T(60)
<1> HIDE DEF n, s
<1>7. s \in Seq(V) /\ Len(s) = n - 1
  BY <1>4, <1>5, <1>6, SMTT(60), Z3T(60)
<1>8. \A i \in 1 .. n - 1 : s[i] = c.order[IF i < p THEN i ELSE i + 1]
  BY <1>5, ZenonT(60)
<1> QED  BY <1>3, <1>4, <1>7, <1>8, ZenonT(60) DEF n, p, s

\* A value is put in front.
LEMMA FrontFacts ==
    ASSUME NEW V, NEW v \in V, NEW s \in Seq(V)
    PROVE  /\ <<v>> \o s \in Seq(V) /\ Len(<<v>> \o s) = Len(s) + 1
           /\ (<<v>> \o s)[1] = v
           /\ \A i \in 1 .. Len(s) : (<<v>> \o s)[i + 1] = s[i]
BY SMTT(60), Z3T(60)

\* Who refers to a value, besides the cache.
Holders(c, v) == c.refs[v] \ {CacheRef}

\* The members of a list, and that no two have the same key.
Members(s) == {s[i] : i \in 1 .. Len(s)}
OnePerKey(s) == \A i, j \in 1 .. Len(s) : Key(s[i]) = Key(s[j]) => i = j

\* A cache has a list of values and a set of referrers for every value.
LEMMA Parts ==
    ASSUME NEW c, NEW V, NEW H, IsCache(c, V, H)
    PROVE  /\ c.order \in Seq(V) /\ Len(c.order) \in Nat
           /\ Cached(c) = Members(c.order) /\ Cached(c) \subseteq V
           /\ c.refs \in [V -> SUBSET H]
<1>1. PICK o : o = c.order  BY ZenonT(60)
<1>2. o \in Seq(V) /\ c.refs \in [V -> SUBSET H]
  BY <1>1, ZenonT(60) DEF IsCache
<1>3. DOMAIN o = 1 .. Len(o) /\ Len(o) \in Nat
  BY <1>2, SMTT(60), Z3T(60)
<1>4. \A i \in 1 .. Len(o) : o[i] \in V
  BY <1>2, SMTT(60), Z3T(60)
<1>5. Cached(c) = Members(c.order)
  BY <1>1, <1>3, ZenonT(60) DEF Cached, Members
<1>6. Members(o) \subseteq V
  BY <1>4, ZenonT(60) DEF Members
<1> QED  BY <1>1, <1>2, <1>3, <1>5, <1>6, ZenonT(60)

\* A cache in order, and the same of its parts: the list has at most max
\* values and one per key, the cache refers to exactly the values of the list.
GoodCache(c, V, H, max) == IsCache(c, V, H) /\ CacheOK(c, max)
GoodParts(o, r, V, H, max) ==
    /\ o \in Seq(V) /\ r \in [V -> SUBSET H]
    /\ max # 0 => Len(o) <= max
    /\ OnePerKey(o)
    /\ \A v \in V : v \in Members(o) <=> CacheRef \in r[v]

\* From a cache to its parts.
LEMMA PartsAreGood ==
    ASSUME NEW c, NEW V, NEW H, NEW max, GoodCache(c, V, H, max)
    PROVE  GoodParts(c.order, c.refs, V, H, max)
<1>1. PICK o, r : o = c.order /\ r = c.refs  BY ZenonT(60)
<1>2. o \in Seq(V) /\ r \in [V -> SUBSET H]
  BY <1>1, ZenonT(60) DEF GoodCache, IsCache
<1>3. DOMAIN o = 1 .. Len(o) /\ DOMAIN r = V
  BY <1>2, SMTT(60), Z3T(60)
<1>4. Cached(c) = Members(o)
  BY <1>1, Parts, ZenonT(60) DEF GoodCache
<1>5. OnePerKey(o)
  BY <1>1, <1>3, ZenonT(60) DEF GoodCache, CacheOK, OnePerKey
<1>6. \A v \in V : v \in Members(o) <=> CacheRef \in r[v]
  BY <1>1, <1>3, <1>4, ZenonT(60) DEF GoodCache, CacheOK
<1>7. max # 0 => Len(o) <= max
  BY <1>1, ZenonT(60) DEF GoodCache, CacheOK
<1> QED  BY <1>1, <1>2, <1>5, <1>6, <1>7, ZenonT(60) DEF GoodParts

\* A cache of two parts, and a list with a value in front.
Pair(o, r) == [order |-> o, refs |-> r]
Front(v, s) == <<v>> \o s

\* From the parts to a cache.
LEMMA MakesCache ==
    ASSUME NEW V, NEW H, NEW max, NEW o, NEW r, GoodParts(o, r, V, H, max)
    PROVE  /\ GoodCache(Pair(o, r), V, H, max)
           /\ Cached(Pair(o, r)) = Members(o)
           /\ Pair(o, r).refs = r
<1>1. PICK d : d = Pair(o, r)  BY ZenonT(60)
<1>2. d.order = o /\ d.refs = r  BY <1>1, ZenonT(60) DEF Pair
<1>3. IsCache(d, V, H)  BY <1>2, ZenonT(60) DEF IsCache, GoodParts
<1>4. Cached(d) = Members(o)  BY <1>2, <1>3, Parts, ZenonT(60)
<1>5. o \in Seq(V) /\ r \in [V -> SUBSET H]  BY ZenonT(60) DEF GoodParts
<1>6. DOMAIN o = 1 .. Len(o) /\ DOMAIN r = V  BY <1>5, SMTT(60), Z3T(60)
<1>7. /\ max # 0 => Len(d.order) <= max
      /\ \A i, j \in DOMAIN d.order : Key(d.order[i]) = Key(d.order[j]) => i = j
  BY <1>2, <1>6, ZenonT(60) DEF GoodParts, OnePerKey
<1>8. \A v \in DOMAIN d.refs : v \in Cached(d) <=> CacheRef \in d.refs[v]
  BY <1>2, <1>4, <1>6, ZenonT(60) DEF GoodParts
<1>9. CacheOK(d, max)  BY <1>7, <1>8, ZenonT(60) DEF CacheOK
<1> QED  BY <1>1, <1>2, <1>3, <1>4, <1>9, ZenonT(60) DEF GoodCache

\* The lookup finds the cached value of the key, if there is one.
LEMMA FindFacts ==
    ASSUME NEW c, NEW V, NEW H, IsCache(c, V, H), NoValue \notin V, NEW k
    PROVE  /\ Find(c, k) = NoValue => \A v \in Cached(c) : Key(v) # k
           /\ Find(c, k) # NoValue =>
                 Find(c, k) \in Cached(c) /\ Find(c, k) \in V /\ Key(Find(c, k)) = k
<1>1. CASE \E v \in Cached(c) : Key(v) = k
  <2>1. Find(c, k) = CHOOSE v \in Cached(c) : Key(v) = k
    BY <1>1, ZenonT(60) DEF Find
  <2>2. Find(c, k) \in Cached(c) /\ Key(Find(c, k)) = k
    BY <1>1, <2>1, ZenonT(60)
  <2>3. Find(c, k) \in V
    BY <2>2, Parts, ZenonT(60)
  <2> QED  BY <2>2, <2>3, ZenonT(60)
<1>2. CASE ~ \E v \in Cached(c) : Key(v) = k
  BY <1>2, ZenonT(60) DEF Find
<1> QED  BY <1>1, <1>2, ZenonT(60)

\* What stays when a value leaves a list.
LEMMA WithoutMembers ==
    ASSUME NEW c, NEW V, NEW H, IsCache(c, V, H), OnePerKey(c.order), NEW v \in Cached(c)
    PROVE  /\ Without(c, v) \in Seq(V)
           /\ Len(Without(c, v)) = Len(c.order) - 1 /\ Len(c.order) \in Nat \ {0}
           /\ OnePerKey(Without(c, v))
           /\ Members(Without(c, v)) = Cached(c) \ {v}
           /\ \A w \in Members(Without(c, v)) : Key(w) # Key(v)
<1>1. PICK s : s = Without(c, v)  BY ZenonT(60)
<1>2. PICK n : n = Len(c.order)  BY ZenonT(60)
<1>3. PICK p : p = Position(c, v)  BY ZenonT(60)
<1>4. PICK o : o = c.order  BY ZenonT(60)
<1>5. /\ n \in Nat \ {0} /\ p \in 1 .. n /\ o[p] = v
      /\ s \in Seq(V) /\ Len(s) = n - 1
      /\ \A i \in 1 .. n - 1 : s[i] = o[IF i < p THEN i ELSE i + 1]
  BY <1>1, <1>2, <1>3, <1>4, WithoutFacts, ZenonT(60)
<1>6. \A i, j \in 1 .. n : Key(o[i]) = Key(o[j]) => i = j
  BY <1>2, <1>4, ZenonT(60) DEF OnePerKey
<1>7. Cached(c) = {o[i] : i \in 1 .. n}
  BY <1>2, <1>4, Parts, ZenonT(60) DEF Members
<1>13. 1 .. n - 1 = 1 .. Len(s)
  BY <1>5, ZenonT(60)
<1>8. ASSUME NEW i \in 1 .. n - 1, NEW j \in 1 .. n - 1, Key(s[i]) = Key(s[j])  PROVE i = j
  <2>1. PICK ii \in 1 .. n : ii = (IF i < p THEN i ELSE i + 1)  BY <1>5, SMTT(60), Z3T(60)
  <2>2. PICK jj \in 1 .. n : jj = (IF j < p THEN j ELSE j + 1)  BY <1>5, SMTT(60), Z3T(60)
  <2>3. s[i] = o[ii] /\ s[j] = o[jj]  BY <1>5, <2>1, <2>2, ZenonT(60)
  <2>4. ii = jj  BY <1>6, <1>8, <2>3, ZenonT(60)
  <2> QED  BY <1>5, <2>1, <2>2, <2>4, SMTT(60), Z3T(60)
<1>9. ASSUME NEW i \in 1 .. n - 1
      PROVE  s[i] \in Cached(c) /\ s[i] # v /\ Key(s[i]) # Key(v)
  <2>1. PICK ii \in 1 .. n : ii = (IF i < p THEN i ELSE i + 1)  BY <1>5, SMTT(60), Z3T(60)
  <2>2. s[i] = o[ii] /\ ii # p  BY <1>5, <2>1, SMTT(60), Z3T(60)
  <2>3. Key(s[i]) # Key(v)  BY <1>5, <1>6, <2>2, ZenonT(60)
  <2>4. s[i] # v  BY <2>3, ZenonT(60)
  <2> QED  BY <1>7, <2>2, <2>3, <2>4, ZenonT(60)
<1>10. ASSUME NEW w \in Cached(c), w # v  PROVE \E i \in 1 .. n - 1 : s[i] = w
  <2>1. PICK k \in 1 .. n : o[k] = w  BY <1>7, ZenonT(60)
  <2>2. k # p  BY <1>5, <1>10, <2>1, ZenonT(60)
  <2>3. PICK i \in 1 .. n - 1 : (IF i < p THEN i ELSE i + 1) = k
    <3>1. CASE k < p
      <4>1. k \in 1 .. n - 1 /\ (IF k < p THEN k ELSE k + 1) = k  BY <3>1, <1>5, SMTT(60), Z3T(60)
      <4> QED  BY <4>1, ZenonT(60)
    <3>2. CASE ~(k < p)
      <4>1. k - 1 \in 1 .. n - 1 /\ (IF k - 1 < p THEN k - 1 ELSE (k - 1) + 1) = k
        BY <3>2, <2>2, <1>5, SMTT(60), Z3T(60)
      <4> QED  BY <4>1, ZenonT(60)
    <3> QED  BY <3>1, <3>2, ZenonT(60)
  <2> QED  BY <1>5, <2>1, <2>3, ZenonT(60)
<1>11. Members(s) = Cached(c) \ {v}
  BY <1>9, <1>10, <1>13, ZenonT(60) DEF Members
<1>12. \A w \in Members(s) : Key(w) # Key(v)
  BY <1>9, <1>13, ZenonT(60) DEF Members
<1>14. OnePerKey(s)
  BY <1>8, <1>13, ZenonT(60) DEF OnePerKey
<1>15. s \in Seq(V) /\ Len(s) = Len(c.order) - 1 /\ Len(c.order) \in Nat \ {0}
  BY <1>2, <1>5, ZenonT(60)
<1> QED  BY <1>1, <1>11, <1>12, <1>14, <1>15, ZenonT(60)

\* A list with a new value in front.
LEMMA FrontMembers ==
    ASSUME NEW V, NEW v \in V, NEW s \in Seq(V), OnePerKey(s),
           \A w \in Members(s) : Key(w) # Key(v)
    PROVE  /\ Front(v, s) \in Seq(V) /\ Len(Front(v, s)) = Len(s) + 1
           /\ OnePerKey(Front(v, s))
           /\ Members(Front(v, s)) = {v} \union Members(s)
<1>1. PICK t : t = Front(v, s)  BY ZenonT(60)
<1>2. t \in Seq(V) /\ Len(t) = Len(s) + 1 /\ Len(s) \in Nat
  BY <1>1, FrontFacts, SMTT(60), Z3T(60) DEF Front
<1>3. t[1] = v /\ \A i \in 1 .. Len(s) : t[i + 1] = s[i]
  BY <1>1, FrontFacts, SMTT(60), Z3T(60) DEF Front
<1>4. PICK n : n = Len(s)  BY ZenonT(60)
<1>5. ASSUME NEW i \in 1 .. n + 1, i # 1  PROVE i - 1 \in 1 .. n /\ t[i] = s[i - 1]
  <2>1. i - 1 \in 1 .. n /\ (i - 1) + 1 = i  BY <1>2, <1>4, <1>5, SMTT(60), Z3T(60)
  <2>2. t[(i - 1) + 1] = s[i - 1]  BY <1>3, <1>4, <2>1, ZenonT(60)
  <2> QED  BY <2>1, <2>2, ZenonT(60)
<1>6. ASSUME NEW i \in 1 .. n  PROVE s[i] \in Members(s) /\ i + 1 \in 1 .. n + 1
  <2>1. s[i] \in Members(s)  BY <1>4, ZenonT(60) DEF Members
  <2> QED  BY <1>2, <1>4, <2>1, SMTT(60), Z3T(60)
<1>7. ASSUME NEW i \in 1 .. n + 1, NEW j \in 1 .. n + 1, Key(t[i]) = Key(t[j])  PROVE i = j
  <2>1. CASE i = 1 /\ j # 1
    <3>1. t[j] \in Members(s)  BY <2>1, <1>5, <1>6, ZenonT(60)
    <3> QED  BY <3>1, <2>1, <1>3, <1>7, ZenonT(60)
  <2>2. CASE i # 1 /\ j = 1
    <3>1. t[i] \in Members(s)  BY <2>2, <1>5, <1>6, ZenonT(60)
    <3> QED  BY <3>1, <2>2, <1>3, <1>7, ZenonT(60)
  <2>3. CASE i # 1 /\ j # 1
    <3>2. /\ i - 1 \in 1 .. n /\ j - 1 \in 1 .. n
          /\ t[i] = s[i - 1] /\ t[j] = s[j - 1]
      BY <2>3, <1>5, ZenonT(60)
    <3>3. Key(s[i - 1]) = Key(s[j - 1])  BY <3>2, <1>7, ZenonT(60)
    <3>1. i - 1 = j - 1  BY <3>2, <3>3, <1>4, ZenonT(60) DEF OnePerKey
    <3> QED  BY <3>1, SMTT(60), Z3T(60)
  <2> QED  BY <2>1, <2>2, <2>3, ZenonT(60)
<1>8. 1 .. Len(t) = 1 .. n + 1
  BY <1>2, <1>4, ZenonT(60)
<1>9. OnePerKey(t)
  BY <1>7, <1>8, ZenonT(60) DEF OnePerKey
<1>10. 1 \in 1 .. n + 1
  BY <1>2, <1>4, SMTT(60), Z3T(60)
<1>11. ASSUME NEW w \in Members(t)  PROVE w = v \/ w \in Members(s)
  <2>1. PICK i \in 1 .. n + 1 : w = t[i]  BY <1>8, <1>11, ZenonT(60) DEF Members
  <2> QED  BY <2>1, <1>3, <1>5, <1>6, ZenonT(60)
<1>12. ASSUME NEW i \in 1 .. n  PROVE s[i] \in Members(t)
  BY <1>3, <1>4, <1>6, <1>8, ZenonT(60) DEF Members
<1>13. ASSUME NEW w \in Members(s)  PROVE w \in Members(t)
  BY <1>4, <1>12, <1>13, ZenonT(60) DEF Members
<1>14. v \in Members(t)
  BY <1>3, <1>8, <1>10, ZenonT(60) DEF Members
<1>15. Members(t) = {v} \union Members(s)
  BY <1>11, <1>13, <1>14, ZenonT(60)
<1> QED  BY <1>1, <1>2, <1>9, <1>15, ZenonT(60)

\* Get: the value gains a referrer; otherwise only the order changes.
LEMMA UseFacts ==
    ASSUME NEW c, NEW V, NEW H, NEW max, GoodCache(c, V, H, max),
           NEW v \in Cached(c), NEW h \in H, h # CacheRef
    PROVE  /\ GoodCache(Use(c, v, h), V, H, max)
           /\ Use(c, v, h).refs = [c.refs EXCEPT ![v] = @ \union {h}]
<1>1. PICK r : r = [c.refs EXCEPT ![v] = @ \union {h}]  BY ZenonT(60)
<1>2. PICK rr : rr = c.refs  BY ZenonT(60)
<1>3. PICK oo : oo = c.order  BY ZenonT(60)
<1>4. PICK s : s = Without(c, v)  BY ZenonT(60)
<1>5. PICK o : o = Front(v, s)  BY ZenonT(60)
<1>6. GoodParts(oo, rr, V, H, max)
  BY <1>2, <1>3, PartsAreGood, ZenonT(60)
<1>7. IsCache(c, V, H)
  BY ZenonT(60) DEF GoodCache
<1>8. v \in V /\ rr \in [V -> SUBSET H] /\ Cached(c) = Members(oo)
  BY <1>2, <1>3, <1>7, Parts, ZenonT(60)
<1>9. OnePerKey(oo)
  BY <1>6, ZenonT(60) DEF GoodParts
<1>10. /\ s \in Seq(V) /\ Len(s) = Len(oo) - 1 /\ Len(oo) \in Nat \ {0}
       /\ OnePerKey(s) /\ Members(s) = Cached(c) \ {v}
       /\ \A w \in Members(s) : Key(w) # Key(v)
  BY <1>3, <1>4, <1>7, <1>9, WithoutMembers, ZenonT(60)
<1>11. /\ o \in Seq(V) /\ Len(o) = Len(s) + 1 /\ OnePerKey(o)
       /\ Members(o) = {v} \union Members(s)
  BY <1>5, <1>8, <1>10, FrontMembers, SMTT(60), Z3T(60)
<1>12. r \in [V -> SUBSET H] /\ \A w \in V : CacheRef \in r[w] <=> CacheRef \in rr[w]
  BY <1>1, <1>2, <1>8, ZenonT(60)
<1>13. Len(o) = Len(oo)
  BY <1>10, <1>11, SMTT(60), Z3T(60)
<1>14. Members(o) = Members(oo)
  BY <1>8, <1>10, <1>11, ZenonT(60)
<1>15. GoodParts(o, r, V, H, max)
  BY <1>6, <1>11, <1>12, <1>13, <1>14, ZenonT(60) DEF GoodParts
<1>16. Use(c, v, h) = Pair(o, r)
  BY <1>1, <1>4, <1>5, ZenonT(60) DEF Use, Pair, Front
<1> QED  BY <1>1, <1>15, <1>16, MakesCache, SMTT(60), Z3T(60)

\* What d keeps of the cache c that gave up values, and of c when v was added
\* by h.
Evicted(c, d, V) ==
    \A w \in V : d.refs[w] \subseteq c.refs[w] /\ Holders(d, w) = Holders(c, w)
Inserted(c, d, V, v, h) ==
    /\ d.refs[v] = {CacheRef, h}
    /\ \A w \in V : w # v => d.refs[w] \subseteq c.refs[w] /\ Holders(d, w) = Holders(c, w)

\* Remove: the cache gives up the value of the key, if it has one.
LEMMA EvictFacts ==
    ASSUME NEW c, NEW V, NEW H, NEW max, GoodCache(c, V, H, max),
           NoValue \notin V, max \in Nat, NEW k
    PROVE  /\ GoodCache(Evict(c, k), V, H, max)
           /\ \A v \in Cached(Evict(c, k)) : Key(v) # k
           /\ Evicted(c, Evict(c, k), V)
<1>1. IsCache(c, V, H)
  BY ZenonT(60) DEF GoodCache
<1>2. CASE Find(c, k) = NoValue
  <2>1. Evict(c, k) = c  BY <1>2, ZenonT(60) DEF Evict
  <2>2. \A v \in Cached(c) : Key(v) # k  BY <1>1, <1>2, FindFacts, ZenonT(60)
  <2> QED  BY <2>1, <2>2, ZenonT(60) DEF Evicted
<1>3. CASE Find(c, k) # NoValue
  <2>1. PICK v : v = Find(c, k)  BY ZenonT(60)
  <2>2. PICK r : r = [c.refs EXCEPT ![v] = @ \ {CacheRef}]  BY ZenonT(60)
  <2>3. PICK rr : rr = c.refs  BY ZenonT(60)
  <2>4. PICK oo : oo = c.order  BY ZenonT(60)
  <2>5. PICK s : s = Without(c, v)  BY ZenonT(60)
  <2>6. v \in Cached(c) /\ v \in V /\ Key(v) = k
    BY <1>1, <1>3, <2>1, FindFacts, ZenonT(60)
  <2>7. GoodParts(oo, rr, V, H, max)
    BY <2>3, <2>4, PartsAreGood, ZenonT(60)
  <2>8. rr \in [V -> SUBSET H] /\ Cached(c) = Members(oo)
    BY <1>1, <2>3, <2>4, Parts, ZenonT(60)
  <2>9. OnePerKey(oo)
    BY <2>7, ZenonT(60) DEF GoodParts
  <2>10. /\ s \in Seq(V) /\ Len(s) = Len(oo) - 1 /\ Len(oo) \in Nat \ {0}
         /\ OnePerKey(s) /\ Members(s) = Cached(c) \ {v}
         /\ \A w \in Members(s) : Key(w) # Key(v)
    BY <1>1, <2>4, <2>5, <2>6, <2>9, WithoutMembers, ZenonT(60)
  <2>11. /\ r \in [V -> SUBSET H]
         /\ \A w \in V : /\ CacheRef \in r[w] <=> CacheRef \in rr[w] /\ w # v
                         /\ r[w] \subseteq rr[w] /\ r[w] \ {CacheRef} = rr[w] \ {CacheRef}
    BY <2>2, <2>3, <2>6, <2>8, ZenonT(60)
  <2>12. \A w \in V : w \in Members(oo) <=> CacheRef \in rr[w]
    BY <2>7, ZenonT(60) DEF GoodParts
  <2>13. \A w \in V : w \in Members(s) <=> CacheRef \in r[w]
    BY <2>8, <2>10, <2>11, <2>12, ZenonT(60)
  <2>14. max # 0 => Len(oo) <= max
    BY <2>7, ZenonT(60) DEF GoodParts
  <2>15. max # 0 => Len(s) <= max
    BY <2>10, <2>14, SMTT(60), Z3T(60)
  <2>16. GoodParts(s, r, V, H, max)
    BY <2>10, <2>11, <2>13, <2>15, ZenonT(60) DEF GoodParts
  <2>17. PICK d : d = Evict(c, k)  BY ZenonT(60)
  <2>18. d = Pair(s, r)
    BY <1>3, <2>1, <2>2, <2>5, <2>17, ZenonT(60) DEF Evict, Pair
  <2>19. GoodCache(d, V, H, max) /\ Cached(d) = Members(s) /\ d.refs = r
    BY <2>16, <2>18, MakesCache, SMTT(60), Z3T(60)
  <2>20. \A w \in V : d.refs[w] \subseteq c.refs[w] /\ Holders(d, w) = Holders(c, w)
    BY <2>3, <2>11, <2>19, ZenonT(60) DEF Holders
  <2>21. \A w \in Cached(d) : Key(w) # k
    BY <2>6, <2>10, <2>19, ZenonT(60)
  <2> QED  BY <2>17, <2>19, <2>20, <2>21, ZenonT(60) DEF Evicted
<1> QED  BY <1>2, <1>3, ZenonT(60)

\* The referrers change, the cache's own reference does not.
LEMMA HoldersChange ==
    ASSUME NEW c, NEW V, NEW H, NEW max, GoodCache(c, V, H, max),
           NEW r \in [V -> SUBSET H],
           \A w \in V : CacheRef \in r[w] <=> CacheRef \in c.refs[w]
    PROVE  /\ GoodCache(Pair(c.order, r), V, H, max)
           /\ Pair(c.order, r).refs = r
           /\ Cached(Pair(c.order, r)) = Cached(c)
<1>1. GoodParts(c.order, c.refs, V, H, max)
  BY PartsAreGood, ZenonT(60)
<1>2. GoodParts(c.order, r, V, H, max)
  BY <1>1, ZenonT(60) DEF GoodParts
<1>3. Cached(c) = Members(c.order)
  BY Parts, ZenonT(60) DEF GoodCache
<1> QED  BY <1>2, <1>3, MakesCache, SMTT(60), Z3T(60)

\* The done callback: the value loses the referrer.
LEMMA DoneFacts ==
    ASSUME NEW c, NEW V, NEW H, NEW max, GoodCache(c, V, H, max),
           NEW v \in V, NEW h, h # CacheRef
    PROVE  /\ GoodCache(Done(c, v, h), V, H, max)
           /\ Done(c, v, h).refs = [c.refs EXCEPT ![v] = @ \ {h}]
<1>1. PICK r : r = [c.refs EXCEPT ![v] = @ \ {h}]  BY ZenonT(60)
<1>2. PICK rr : rr = c.refs  BY ZenonT(60)
<1>3. rr \in [V -> SUBSET H]
  BY <1>2, Parts, ZenonT(60) DEF GoodCache
<1>4. r \in [V -> SUBSET H] /\ \A w \in V : CacheRef \in r[w] <=> CacheRef \in rr[w]
  BY <1>1, <1>2, <1>3, ZenonT(60)
<1>5. \A w \in V : CacheRef \in r[w] <=> CacheRef \in c.refs[w]
  BY <1>2, <1>4, ZenonT(60)
<1>6. Done(c, v, h) = Pair(c.order, r)
  BY <1>1, ZenonT(60) DEF Done, Pair
<1> QED  BY <1>1, <1>4, <1>5, <1>6, HoldersChange, SMTT(60), Z3T(60)

\* Add of a new value: it is referred to by the cache and by who added it, and
\* the cache may give up another one.
LEMMA InsertFacts ==
    ASSUME NEW c, NEW V, NEW H, NEW max, GoodCache(c, V, H, max), max \in Nat,
           NEW v \in V, \A w \in Cached(c) : Key(w) # Key(v),
           NEW h \in H, CacheRef \in H
    PROVE  /\ GoodCache(Insert(c, v, h, max), V, H, max)
           /\ Inserted(c, Insert(c, v, h, max), V, v, h)
<1>1. PICK rr : rr = c.refs  BY ZenonT(60)
<1>2. PICK oo : oo = c.order  BY ZenonT(60)
<1>3. PICK r : r = [rr EXCEPT ![v] = {CacheRef, h}]  BY ZenonT(60)
<1>4. PICK d : d = Insert(c, v, h, max)  BY ZenonT(60)
<1>5. GoodParts(oo, rr, V, H, max)
  BY <1>1, <1>2, PartsAreGood, ZenonT(60)
<1>6. IsCache(c, V, H)
  BY ZenonT(60) DEF GoodCache
<1>7. rr \in [V -> SUBSET H] /\ oo \in Seq(V) /\ Len(oo) \in Nat /\ Cached(c) = Members(oo)
  BY <1>1, <1>2, <1>6, Parts, ZenonT(60)
<1>8. /\ OnePerKey(oo)
      /\ max # 0 => Len(oo) <= max
      /\ \A w \in V : w \in Members(oo) <=> CacheRef \in rr[w]
  BY <1>5, ZenonT(60) DEF GoodParts
<1>9. r \in [V -> SUBSET H] /\ r[v] = {CacheRef, h} /\ \A w \in V : w # v => r[w] = rr[w]
  BY <1>3, <1>7, ZenonT(60)
<1>10. v \notin Cached(c)
  BY ZenonT(60)
<1>11. CASE ~(Len(oo) >= max /\ max # 0)
  <2>1. PICK o : o = Front(v, oo)  BY ZenonT(60)
  <2>2. d = Pair(o, r)
    BY <1>11, <1>1, <1>2, <1>3, <1>4, <2>1, ZenonT(60) DEF Insert, Pair, Front
  <2>3. /\ o \in Seq(V) /\ Len(o) = Len(oo) + 1 /\ OnePerKey(o)
        /\ Members(o) = {v} \union Members(oo)
    BY <1>7, <1>8, <2>1, FrontMembers, SMTT(60), Z3T(60)
  <2>4. max # 0 => Len(o) <= max
    BY <1>7, <1>11, <2>3, SMTT(60), Z3T(60)
  <2>5. \A w \in V : w \in Members(o) <=> CacheRef \in r[w]
    BY <1>8, <1>9, <2>3, ZenonT(60)
  <2>6. GoodParts(o, r, V, H, max)
    BY <1>9, <2>3, <2>4, <2>5, ZenonT(60) DEF GoodParts
  <2>7. GoodCache(d, V, H, max) /\ d.refs = r
    BY <2>2, <2>6, MakesCache, SMTT(60), Z3T(60)
  <2>8. \A w \in V : w # v => d.refs[w] \subseteq c.refs[w] /\ Holders(d, w) = Holders(c, w)
    BY <1>1, <1>9, <2>7, ZenonT(60) DEF Holders
  <2> QED  BY <1>4, <1>9, <2>7, <2>8, ZenonT(60) DEF Inserted
<1>12. CASE Len(oo) >= max /\ max # 0
  <2>1. PICK last : last = oo[Len(oo)]  BY ZenonT(60)
  <2>2. PICK s : s = Without(c, last)  BY ZenonT(60)
  <2>3. PICK o : o = Front(v, s)  BY ZenonT(60)
  <2>4. PICK q : q = [r EXCEPT ![last] = @ \ {CacheRef}]  BY ZenonT(60)
  <2>5. d = Pair(o, q)
    <3>1. d = [order |-> <<v>> \o Without(c, c.order[Len(c.order)]),
               refs  |-> [[c.refs EXCEPT ![v] = {CacheRef, h}] EXCEPT
                             ![c.order[Len(c.order)]] = @ \ {CacheRef}]]
      BY <1>12, <1>2, <1>4, ZenonT(60) DEF Insert
    <3> QED  BY <3>1, <1>1, <1>2, <1>3, <2>1, <2>2, <2>3, <2>4, ZenonT(60) DEF Pair, Front
  <2>6. Len(oo) \in 1 .. Len(oo) /\ Len(oo) <= max
    BY <1>7, <1>8, <1>12, SMTT(60), Z3T(60)
  <2>7. last \in Cached(c) /\ last \in V
    <3>1. last \in Members(oo)  BY <2>1, <2>6, ZenonT(60) DEF Members
    <3> QED  BY <3>1, <1>6, <1>7, Parts, SMTT(60), Z3T(60)
  <2>8. last # v
    BY <1>10, <2>7, ZenonT(60)
  <2>9. /\ s \in Seq(V) /\ Len(s) = Len(oo) - 1
        /\ OnePerKey(s) /\ Members(s) = Cached(c) \ {last}
    BY <1>2, <1>6, <1>8, <2>2, <2>7, WithoutMembers, ZenonT(60)
  <2>10. \A w \in Members(s) : Key(w) # Key(v)
    BY <2>9, ZenonT(60)
  <2>11. /\ o \in Seq(V) /\ Len(o) = Len(s) + 1 /\ OnePerKey(o)
         /\ Members(o) = {v} \union Members(s)
    BY <2>3, <2>9, <2>10, FrontMembers, SMTT(60), Z3T(60)
  <2>12. Len(o) <= max
    BY <1>7, <2>6, <2>9, <2>11, SMTT(60), Z3T(60)
  <2>13. /\ q \in [V -> SUBSET H] /\ q[v] = {CacheRef, h}
         /\ q[last] = rr[last] \ {CacheRef}
         /\ \A w \in V : w # v /\ w # last => q[w] = rr[w]
    BY <1>9, <2>4, <2>7, <2>8, ZenonT(60)
  <2>14. \A w \in V : w \in Members(o) <=> CacheRef \in q[w]
    BY <1>7, <1>8, <2>7, <2>8, <2>9, <2>11, <2>13, ZenonT(60)
  <2>15. GoodParts(o, q, V, H, max)
    BY <2>11, <2>12, <2>13, <2>14, ZenonT(60) DEF GoodParts
  <2>16. GoodCache(d, V, H, max) /\ d.refs = q
    BY <2>5, <2>15, MakesCache, SMTT(60), Z3T(60)
  <2>17. \A w \in V : w # v => q[w] \subseteq rr[w] /\ q[w] \ {CacheRef} = rr[w] \ {CacheRef}
    BY <2>13, ZenonT(60)
  <2>18. \A w \in V : w # v => d.refs[w] \subseteq c.refs[w] /\ Holders(d, w) = Holders(c, w)
    BY <1>1, <2>16, <2>17, ZenonT(60) DEF Holders
  <2> QED  BY <1>4, <2>13, <2>16, <2>18, ZenonT(60) DEF Inserted
<1> QED  BY <1>11, <1>12, ZenonT(60)

-----------------------------------------------------------------------------
(* The inductive invariant.                                                *)

\* Who may refer to a layer and to a blob, and the pcs of the two programs.
LayerHolders == Actors \union {CacheRef}
BlobHolders == Actors \union Values \union {CacheRef}
MountPcs == {"idle", "index", "enqueue", "store", "wait", "timedout", "node",
             "mounted", "failed"}
ResolvePcs == {"idle", "lock", "blob", "layer", "deliver", "forget"}

\* The data that the caches and the registered layers do not depend on.
QueueInv ==
    /\ layerOf \in [Mountpoints -> Layers]
    /\ sociCtx \in {"new", "fetching", "ready", "failed"}
    /\ todo \in [Mountpoints -> SUBSET Indexed]
    /\ cur \in [Mountpoints -> Layers \union {NoLayer}]
    /\ \A m \in Mountpoints : mpc[m] = "store" => cur[m] \in Indexed
    /\ prQueue \in Seq(Indexed) /\ Len(prQueue) <= QueueSize
    /\ prHand \in Indexed \union {NoLayer}
    /\ prCache \subseteq Indexed

\* The types of what goroutines and mountpoints hold.
TypeInv ==
    /\ mpc \in [Mountpoints -> MountPcs]
    /\ rpc \in [Actors -> ResolvePcs]
    /\ target \in [Actors -> Layers \union {NoLayer}]
    /\ ref \in [Actors -> Values \union {NoValue}]
    /\ bref \in [Actors -> Values \union {NoValue}]
    /\ blobOf \in [Values -> Values \union {NoValue}]
    /\ fsLayer \in [Paths -> (Values \X Mountpoints) \union {NotRegistered}]
    /\ served \subseteq Paths /\ unmounted \subseteq Paths

\* The two caches of the resolver.
CachesInv ==
    /\ GoodCache(layerCache, Values, LayerHolders, MaxResults)
    /\ GoodCache(blobCache, Values, BlobHolders, MaxResults)

\* Where a goroutine stands: when it has a target, a blob and a layer.
ResolveInv(a) ==
    /\ rpc[a] \in {"lock", "blob", "layer"} => target[a] \in Layers
    /\ rpc[a] = "layer" <=> bref[a] # NoValue
    /\ rpc[a] \in {"lock", "blob", "layer", "forget"} => ref[a] = NoValue

\* Neither a mountpoint nor an id-mapped one of it is registered.
Unregistered(m) ==
    /\ fsLayer[BasePath(m)] = NotRegistered
    /\ m \in Parents => \A id \in ActiveIDs :
          fsLayer[IDMappedPath(BasePath(m), id)] = NotRegistered

\* A Mount has its goroutine until it received the layer, then the layer until
\* it is registered or given back.
MountInv(m) ==
    /\ mpc[m] \in {"idle", "index"} => rpc[m] = "idle" /\ ref[m] = NoValue
    /\ mpc[m] \in {"enqueue", "store", "wait", "timedout"} =>
          rpc[m] \in {"lock", "blob", "layer", "deliver"}
    /\ mpc[m] = "node" => rpc[m] = "idle" /\ ref[m] # NoValue
    /\ mpc[m] \in {"mounted", "failed"} => rpc[m] = "idle" /\ ref[m] = NoValue
    /\ mpc[m] \notin {"mounted", "failed"} => Unregistered(m)

\* The control of all goroutines and mountpoints.
ControlInv ==
    /\ \A a \in Actors : ResolveInv(a)
    /\ \A w \in Workers : rpc[w] = "idle" => ref[w] = NoValue
    /\ \A m \in Mountpoints : MountInv(m)

\* Who holds a layer: a goroutine with a reference, and a mountpoint that is
\* served, unless an id-mapped mountpoint of it was unmounted; nobody else.
RefsHold == \A a \in Actors : ref[a] # NoValue => a \in Holders(layerCache, ref[a])
HoldersOwn ==
    \A l \in Values : \A h \in Holders(layerCache, l) :
        \/ ref[h] = l
        \/ h \in Mountpoints /\ fsLayer[BasePath(h)] = <<l, h>>
BaseInv(m) ==
    /\ fsLayer[BasePath(m)] # NotRegistered => fsLayer[BasePath(m)][2] = m
    /\ BasePath(m) \in served =>
          /\ fsLayer[BasePath(m)] # NotRegistered
          /\ \/ \E id \in ActiveIDs : IDMappedPath(BasePath(m), id) \in unmounted
             \/ m \in Holders(layerCache, fsLayer[BasePath(m)][1])
MappedInv(m, id) ==
    LET q == IDMappedPath(BasePath(m), id)
    IN  /\ fsLayer[q] # NotRegistered => fsLayer[q][2] = m
        /\ q \in served => fsLayer[q] # NotRegistered
LayersInv ==
    /\ RefsHold /\ HoldersOwn
    /\ \A m \in Mountpoints : BaseInv(m)
    /\ \A m \in Parents, id \in ActiveIDs : MappedInv(m, id)

\* Who holds a blob: a goroutine between resolveBlob and the new layer, and an
\* open layer; nobody else.
BlobRefsHold == \A a \in Actors : bref[a] # NoValue => a \in Holders(blobCache, bref[a])
LayersHold ==
    \A l \in Values : LayerOpen(l) =>
        blobOf[l] \in Values /\ l \in Holders(blobCache, blobOf[l])
BlobHoldersOwn ==
    \A b \in Values : \A h \in Holders(blobCache, b) :
        \/ h \in Actors /\ bref[h] = b
        \/ h \in Values /\ LayerOpen(h) /\ blobOf[h] = b
BlobsInv == BlobRefsHold /\ LayersHold /\ BlobHoldersOwn

\* Mounts, resolutions, the preresolver and the caches together.
Inv == QueueInv /\ TypeInv /\ CachesInv /\ ControlInv /\ LayersInv /\ BlobsInv

-----------------------------------------------------------------------------
(* Names and paths.                                                        *)

\* Values, goroutines and the cache are different referrers.
LEMMA Distinct ==
    /\ NoValue \notin Values /\ CacheRef \notin Values
    /\ Actors \intersect Values = {} /\ CacheRef \notin Actors
    /\ Mountpoints \subseteq Actors /\ Workers \subseteq Actors
    /\ Mountpoints \intersect Workers = {} /\ Parents \subseteq Mountpoints
    /\ MaxResults \in Nat /\ NoLayer \notin Layers
    /\ NotRegistered \notin Values \X Mountpoints
<1>1. NoValue \notin Values /\ CacheRef \notin Values
  BY SMTT(60), Z3T(60) DEF NoValue, CacheRef, Values
<1>2. NotRegistered \notin Values \X Mountpoints
  BY <1>1, ZenonT(60) DEF NotRegistered
<1>3. /\ Actors = Mountpoints \union Workers /\ Mountpoints \intersect Workers = {}
      /\ Parents \subseteq Mountpoints /\ MaxResults \in Nat
      /\ CacheRef \notin Actors /\ Actors \intersect Values = {}
      /\ NoLayer \notin Layers
  BY LazyMountsAssumption, ZenonT(60) DEF NoLayer, Layers
<1> QED  BY <1>1, <1>2, <1>3, ZenonT(60)

\* Of an id-mapped path: the name of its directory has two parts, the first is
\* the mountpoint's.
LEMMA MappedName ==
    ASSUME NEW m, NEW id
    PROVE  /\ Len(IDMappedPath(BasePath(m), id)[1]) = 2
           /\ IDMappedPath(BasePath(m), id)[1][1] = m
<1>1. BasePath(m)[1] = <<m>>  BY ZenonT(60) DEF BasePath
<1>2. PICK s : s = <<m>> \o <<id>>  BY ZenonT(60)
<1>3. IDMappedPath(BasePath(m), id)[1] = s
  BY <1>1, <1>2, ZenonT(60) DEF IDMappedPath
<1>4. <<id>> \in Seq({m, id}) /\ Len(<<id>>) = 1  BY SMTT(60), Z3T(60)
<1>5. Len(s) = 2 /\ s[1] = m
  BY <1>2, <1>4, FrontFacts, SMTT(60), Z3T(60)
<1> QED  BY <1>3, <1>5, ZenonT(60)

\* It is the id-mapped path of one mountpoint.
LEMMA MappedOfOne ==
    ASSUME NEW m, NEW n, NEW i, NEW j,
           IDMappedPath(BasePath(m), i) = IDMappedPath(BasePath(n), j)
    PROVE  m = n
<1>1. IDMappedPath(BasePath(m), i)[1][1] = m
  BY MappedName, ZenonT(60)
<1>2. IDMappedPath(BasePath(n), j)[1][1] = n
  BY MappedName, ZenonT(60)
<1> QED  BY <1>1, <1>2, ZenonT(60)

\* Mountpoints and id-mapped mountpoints have different paths.
LEMMA PathsDiffer ==
    /\ \A m \in Mountpoints : BasePath(m) \in Paths
    /\ \A m \in Parents, id \in ActiveIDs : IDMappedPath(BasePath(m), id) \in Paths
    /\ \A m, n : BasePath(m) = BasePath(n) => m = n
    /\ \A m, n, id : IDMappedPath(BasePath(m), id) # BasePath(n)
    /\ \A p \in Paths : \/ \E m \in Mountpoints : p = BasePath(m)
                        \/ \E m \in Parents, id \in ActiveIDs : p = IDMappedPath(BasePath(m), id)
<1>1. \A m \in Mountpoints : BasePath(m) \in Paths
  BY ZenonT(60) DEF Paths, BasePaths
<1>2. \A m \in Parents, id \in ActiveIDs : IDMappedPath(BasePath(m), id) \in Paths
  BY SMTT(60), Z3T(60) DEF Paths, IDMappedPaths
<1>3. \A m, n : BasePath(m) = BasePath(n) => m = n
  BY ZenonT(60) DEF BasePath
<1>5. \A m, n, id : IDMappedPath(BasePath(m), id) # BasePath(n)
  <2> TAKE m, n, id
  <2>1. Len(BasePath(n)[1]) = 1  BY ZenonT(60) DEF BasePath
  <2>2. Len(IDMappedPath(BasePath(m), id)[1]) = 2  BY MappedName, ZenonT(60)
  <2> QED  BY <2>1, <2>2, SMTT(60), Z3T(60)
<1>7. \A p \in Paths : \/ \E m \in Mountpoints : p = BasePath(m)
                       \/ \E m \in Parents, id \in ActiveIDs : p = IDMappedPath(BasePath(m), id)
  BY SMTT(60), Z3T(60) DEF Paths, BasePaths, IDMappedPaths
<1> QED  BY <1>1, <1>2, <1>3, <1>5, <1>7, ZenonT(60)

-----------------------------------------------------------------------------
(* What the kinds of steps do to the holders of layers.                    *)

\* What a registered path says.
LEMMA RegisteredIs ==
    ASSUME TypeInv, NEW p \in Paths, fsLayer[p] # NotRegistered
    PROVE  fsLayer[p] = <<fsLayer[p][1], fsLayer[p][2]>> /\ fsLayer[p][1] \in Values
           /\ fsLayer[p][2] \in Mountpoints
<1>1. fsLayer[p] \in Values \X Mountpoints
  BY ZenonT(60) DEF TypeInv
<1> QED  BY <1>1, SMTT(60), Z3T(60)

\* Nobody's references change.
LEMMA LayersStay ==
    ASSUME TypeInv, LayersInv, UNCHANGED <<ref, fsVars>>,
           \A l \in Values : Holders(layerCache', l) = Holders(layerCache, l)
    PROVE  LayersInv'
<1>1. UNCHANGED <<ref, fsLayer, served, unmounted>>
  BY ZenonT(60) DEF fsVars
<1>2. \A a \in Actors : ref[a] \in Values \union {NoValue}
  BY ZenonT(60) DEF TypeInv
<1>3. RefsHold'
  BY <1>1, <1>2, ZenonT(60) DEF LayersInv, RefsHold
<1>4. HoldersOwn'
  BY <1>1, ZenonT(60) DEF LayersInv, HoldersOwn
<1>5. ASSUME NEW m \in Mountpoints  PROVE BaseInv(m)'
  <2>1. BaseInv(m)  BY ZenonT(60) DEF LayersInv
  <2>2. fsLayer[BasePath(m)] # NotRegistered => fsLayer[BasePath(m)][1] \in Values
    BY RegisteredIs, PathsDiffer, ZenonT(60)
  <2> QED  BY <1>1, <2>1, <2>2, ZenonT(60) DEF BaseInv
<1>6. \A m \in Parents, id \in ActiveIDs : MappedInv(m, id)'
  BY <1>1, ZenonT(60) DEF LayersInv, MappedInv
<1> QED  BY <1>3, <1>4, <1>5, <1>6, ZenonT(60) DEF LayersInv

\* A goroutine without a layer gets a reference to one.
LEMMA GainsLayer ==
    ASSUME TypeInv, LayersInv, NEW a \in Actors, NEW l \in Values, ref[a] = NoValue,
           ref' = [ref EXCEPT ![a] = l], UNCHANGED fsVars,
           Holders(layerCache', l) = Holders(layerCache, l) \union {a},
           \A v \in Values : v # l => Holders(layerCache', v) = Holders(layerCache, v)
    PROVE  LayersInv'
<1>1. UNCHANGED <<fsLayer, served, unmounted>>
  BY ZenonT(60) DEF fsVars
<1>2. /\ DOMAIN ref = Actors /\ ref'[a] = l /\ \A b : b # a => ref'[b] = ref[b]
      /\ \A b \in Actors : ref[b] \in Values \union {NoValue}
  BY SMTT(60), Z3T(60) DEF TypeInv
<1>3. RefsHold'
  <2> SUFFICES ASSUME NEW b \in Actors, ref'[b] # NoValue
               PROVE  b \in Holders(layerCache', ref'[b])
    BY ZenonT(60) DEF RefsHold
  <2>1. CASE b = a
    BY <1>2, <2>1, ZenonT(60)
  <2>2. CASE b # a
    <3>1. ref'[b] = ref[b] /\ ref[b] \in Values /\ b \in Holders(layerCache, ref[b])
      BY <1>2, <2>2, ZenonT(60) DEF LayersInv, RefsHold
    <3> QED  BY <3>1, ZenonT(60)
  <2> QED  BY <2>1, <2>2, ZenonT(60)
<1>4. HoldersOwn'
  <2> SUFFICES ASSUME NEW v \in Values, NEW h \in Holders(layerCache', v)
               PROVE  \/ ref'[h] = v
                      \/ h \in Mountpoints /\ fsLayer'[BasePath(h)] = <<v, h>>
    BY ZenonT(60) DEF HoldersOwn
  <2>1. CASE h = a /\ v = l
    BY <1>2, <2>1, ZenonT(60)
  <2>2. CASE ~(h = a /\ v = l)
    <3>1. h \in Holders(layerCache, v)
      BY <2>2, ZenonT(60)
    <3>2. \/ ref[h] = v
          \/ h \in Mountpoints /\ fsLayer[BasePath(h)] = <<v, h>>
      BY <3>1, ZenonT(60) DEF LayersInv, HoldersOwn
    <3>3. v # NoValue
      BY Distinct, ZenonT(60)
    <3> QED  BY <1>1, <1>2, <3>2, <3>3, ZenonT(60)
  <2> QED  BY <2>1, <2>2, ZenonT(60)
<1>5. ASSUME NEW m \in Mountpoints  PROVE BaseInv(m)'
  <2>1. BaseInv(m)  BY ZenonT(60) DEF LayersInv
  <2>2. fsLayer[BasePath(m)] # NotRegistered => fsLayer[BasePath(m)][1] \in Values
    BY RegisteredIs, PathsDiffer, ZenonT(60)
  <2>3. \A v \in Values : Holders(layerCache, v) \subseteq Holders(layerCache', v)
    BY ZenonT(60)
  <2> QED  BY <1>1, <2>1, <2>2, <2>3, ZenonT(60) DEF BaseInv
<1>6. \A m \in Parents, id \in ActiveIDs : MappedInv(m, id)'
  BY <1>1, ZenonT(60) DEF LayersInv, MappedInv
<1> QED  BY <1>3, <1>4, <1>5, <1>6, ZenonT(60) DEF LayersInv

\* A goroutine, of no mountpoint that is served, gives its layer back; a Mount
\* may have registered it.
LEMMA LosesLayer ==
    ASSUME TypeInv, LayersInv, NEW a \in Actors, NEW l \in Values, ref[a] = l,
           ref' = [ref EXCEPT ![a] = NoValue], UNCHANGED <<served, unmounted>>,
           Holders(layerCache', l) = Holders(layerCache, l) \ {a},
           \A v \in Values : v # l => Holders(layerCache', v) = Holders(layerCache, v),
           a \in Mountpoints => BasePath(a) \notin served
                                /\ fsLayer[BasePath(a)] = NotRegistered,
           \/ UNCHANGED fsLayer
           \/ a \in Mountpoints /\ fsLayer' = [fsLayer EXCEPT ![BasePath(a)] = <<l, a>>]
    PROVE  LayersInv'
<1>1. /\ \A m \in Mountpoints \ {a} : fsLayer'[BasePath(m)] = fsLayer[BasePath(m)]
      /\ \A m \in Parents, id \in ActiveIDs : fsLayer'[IDMappedPath(BasePath(m), id)]
                                              = fsLayer[IDMappedPath(BasePath(m), id)]
      /\ a \in Mountpoints => fsLayer'[BasePath(a)] \in {NotRegistered, <<l, a>>}
  <2>1. CASE UNCHANGED fsLayer
    BY <2>1, ZenonT(60)
  <2>2. CASE a \in Mountpoints /\ fsLayer' = [fsLayer EXCEPT ![BasePath(a)] = <<l, a>>]
    <3>1. DOMAIN fsLayer = Paths
      BY ZenonT(60) DEF TypeInv
    <3> QED  BY <2>2, <3>1, PathsDiffer, Distinct, ZenonT(60)
  <2> QED  BY <2>1, <2>2, ZenonT(60)
<1>2. /\ ref'[a] = NoValue /\ \A b : b # a => ref'[b] = ref[b]
      /\ \A b \in Actors : ref[b] \in Values \union {NoValue}
  BY SMTT(60), Z3T(60) DEF TypeInv
<1>3. RefsHold'
  <2> SUFFICES ASSUME NEW b \in Actors, ref'[b] # NoValue
               PROVE  b \in Holders(layerCache', ref'[b])
    BY ZenonT(60) DEF RefsHold
  <2>1. b # a /\ ref'[b] = ref[b] /\ ref[b] \in Values
    BY <1>2, ZenonT(60)
  <2>2. b \in Holders(layerCache, ref[b])
    BY <2>1, ZenonT(60) DEF LayersInv, RefsHold
  <2> QED  BY <2>1, <2>2, ZenonT(60)
<1>4. HoldersOwn'
  <2> SUFFICES ASSUME NEW v \in Values, NEW h \in Holders(layerCache', v)
               PROVE  \/ ref'[h] = v
                      \/ h \in Mountpoints /\ fsLayer'[BasePath(h)] = <<v, h>>
    BY ZenonT(60) DEF HoldersOwn
  <2>1. h \in Holders(layerCache, v) /\ ~(h = a /\ v = l)
    BY ZenonT(60)
  <2>2. \/ ref[h] = v
        \/ h \in Mountpoints /\ fsLayer[BasePath(h)] = <<v, h>>
    BY <2>1, ZenonT(60) DEF LayersInv, HoldersOwn
  <2>3. h # a
    <3>1. SUFFICES ASSUME h = a  PROVE FALSE
      BY ZenonT(60)
    <3>2. h \in Mountpoints /\ fsLayer[BasePath(h)] = <<v, h>>
      BY <2>1, <2>2, <3>1, ZenonT(60)
    <3>3. <<v, h>> = NotRegistered
      BY <3>1, <3>2, ZenonT(60)
    <3> QED  BY <3>2, <3>3, Distinct, ZenonT(60) DEF NotRegistered
  <2> QED  BY <1>1, <1>2, <2>2, <2>3, ZenonT(60)
<1>5. ASSUME NEW m \in Mountpoints  PROVE BaseInv(m)'
  <2>1. BaseInv(m)  BY ZenonT(60) DEF LayersInv
  <2>2. CASE m = a
    <3>1. <<l, a>>[2] = a  BY ZenonT(60)
    <3> QED  BY <1>1, <2>2, <3>1, ZenonT(60) DEF BaseInv
  <2>3. CASE m # a
    <3>1. fsLayer[BasePath(m)] # NotRegistered => fsLayer[BasePath(m)][1] \in Values
      BY RegisteredIs, PathsDiffer, ZenonT(60)
    <3>2. \A v \in Values : m \in Holders(layerCache, v) => m \in Holders(layerCache', v)
      BY <2>3, ZenonT(60)
    <3>3. fsLayer'[BasePath(m)] = fsLayer[BasePath(m)]
      BY <1>1, <2>3, ZenonT(60)
    <3> QED  BY <2>1, <3>1, <3>2, <3>3, ZenonT(60) DEF BaseInv
  <2> QED  BY <2>2, <2>3, ZenonT(60)
<1>6. ASSUME NEW m \in Parents, NEW id \in ActiveIDs  PROVE MappedInv(m, id)'
  <2>1. MappedInv(m, id)  BY ZenonT(60) DEF LayersInv
  <2>2. fsLayer'[IDMappedPath(BasePath(m), id)] = fsLayer[IDMappedPath(BasePath(m), id)]
    BY <1>1, ZenonT(60)
  <2> QED  BY <2>1, <2>2, ZenonT(60) DEF MappedInv
<1> QED  BY <1>3, <1>4, <1>5, <1>6, ZenonT(60) DEF LayersInv

\* A Mount registers its layer for the mountpoint, which is served now.
LEMMA Registers ==
    ASSUME TypeInv, LayersInv, NEW m \in Mountpoints, NEW l \in Values, ref[m] = l,
           fsLayer[BasePath(m)] = NotRegistered,
           ref' = [ref EXCEPT ![m] = NoValue], UNCHANGED <<layerCache, unmounted>>,
           fsLayer' = [fsLayer EXCEPT ![BasePath(m)] = <<l, m>>],
           served' = served \union {BasePath(m)}
    PROVE  LayersInv'
<1>1. /\ \A n \in Mountpoints \ {m} :
            /\ fsLayer'[BasePath(n)] = fsLayer[BasePath(n)]
            /\ BasePath(n) \in served' => BasePath(n) \in served
      /\ \A n \in Parents, id \in ActiveIDs :
            LET q == IDMappedPath(BasePath(n), id)
            IN  fsLayer'[q] = fsLayer[q] /\ (q \in served' => q \in served)
      /\ fsLayer'[BasePath(m)] = <<l, m>>
  <2>1. DOMAIN fsLayer = Paths
    BY ZenonT(60) DEF TypeInv
  <2> QED  BY <2>1, PathsDiffer, Distinct, ZenonT(60)
<1>2. m \in Actors /\ ref'[m] = NoValue /\ \A b : b # m => ref'[b] = ref[b]
  BY Distinct, SMTT(60), Z3T(60) DEF TypeInv
<1>3. RefsHold'
  BY <1>2, ZenonT(60) DEF LayersInv, RefsHold
<1>4. HoldersOwn'
  <2> SUFFICES ASSUME NEW v \in Values, NEW h \in Holders(layerCache, v)
               PROVE  \/ ref'[h] = v
                      \/ h \in Mountpoints /\ fsLayer'[BasePath(h)] = <<v, h>>
    BY ZenonT(60) DEF HoldersOwn
  <2>1. \/ ref[h] = v
        \/ h \in Mountpoints /\ fsLayer[BasePath(h)] = <<v, h>>
    BY ZenonT(60) DEF LayersInv, HoldersOwn
  <2>2. CASE h = m
    <3>1. <<v, m>> # NotRegistered
      BY Distinct, ZenonT(60) DEF NotRegistered
    <3>2. v = l
      BY <2>1, <2>2, <3>1, ZenonT(60)
    <3> QED  BY <1>1, <2>2, <3>2, ZenonT(60)
  <2>3. CASE h # m
    BY <1>1, <1>2, <2>1, <2>3, ZenonT(60)
  <2> QED  BY <2>2, <2>3, ZenonT(60)
<1>5. ASSUME NEW n \in Mountpoints  PROVE BaseInv(n)'
  <2>1. BaseInv(n)  BY ZenonT(60) DEF LayersInv
  <2>2. CASE n = m
    <3>1. <<l, m>>[1] = l /\ <<l, m>>[2] = m  BY ZenonT(60)
    <3>2. <<l, m>> # NotRegistered
      BY Distinct, ZenonT(60) DEF NotRegistered
    <3>3. m \in Holders(layerCache, l)
      BY <1>2, Distinct, ZenonT(60) DEF LayersInv, RefsHold
    <3> QED  BY <1>1, <2>2, <3>1, <3>2, <3>3, ZenonT(60) DEF BaseInv
  <2>3. CASE n # m
    <3>1. /\ fsLayer'[BasePath(n)] = fsLayer[BasePath(n)]
          /\ BasePath(n) \in served' => BasePath(n) \in served
      BY <1>1, <2>3, ZenonT(60)
    <3> QED  BY <2>1, <3>1, ZenonT(60) DEF BaseInv
  <2> QED  BY <2>2, <2>3, ZenonT(60)
<1>6. ASSUME NEW n \in Parents, NEW id \in ActiveIDs  PROVE MappedInv(n, id)'
  <2>1. MappedInv(n, id)  BY ZenonT(60) DEF LayersInv
  <2> QED  BY <1>1, <2>1, ZenonT(60) DEF MappedInv
<1> QED  BY <1>3, <1>4, <1>5, <1>6, ZenonT(60) DEF LayersInv

\* An id-mapped mountpoint is registered with the layerRef of the mountpoint.
LEMMA Maps ==
    ASSUME TypeInv, LayersInv, NEW m \in Parents, NEW id \in ActiveIDs,
           fsLayer[BasePath(m)] # NotRegistered, UNCHANGED <<ref, layerCache, unmounted>>,
           fsLayer' = [fsLayer EXCEPT ![IDMappedPath(BasePath(m), id)] = fsLayer[BasePath(m)]],
           served' \in {served, served \union {IDMappedPath(BasePath(m), id)}}
    PROVE  LayersInv'
<1>1. PICK q : q = IDMappedPath(BasePath(m), id)
  BY ZenonT(60)
<1>2. DOMAIN fsLayer = Paths
  BY ZenonT(60) DEF TypeInv
<1>3. q \in Paths /\ \A n \in Mountpoints : BasePath(n) \in Paths /\ BasePath(n) # q
  BY <1>1, PathsDiffer, ZenonT(60)
<1>4. /\ fsLayer'[q] = fsLayer[BasePath(m)]
      /\ \A p \in Paths : p # q => /\ fsLayer'[p] = fsLayer[p]
                                   /\ p \in served' => p \in served
  BY <1>1, <1>2, <1>3, ZenonT(60)
<1>5. \A n \in Mountpoints : /\ fsLayer'[BasePath(n)] = fsLayer[BasePath(n)]
                             /\ BasePath(n) \in served' => BasePath(n) \in served
  BY <1>3, <1>4, ZenonT(60)
<1>6. RefsHold'
  BY ZenonT(60) DEF LayersInv, RefsHold
<1>7. HoldersOwn'
  BY <1>5, ZenonT(60) DEF LayersInv, HoldersOwn
<1>8. ASSUME NEW n \in Mountpoints  PROVE BaseInv(n)'
  <2>1. BaseInv(n)  BY ZenonT(60) DEF LayersInv
  <2> QED  BY <1>5, <2>1, ZenonT(60) DEF BaseInv
<1>9. ASSUME NEW n \in Parents, NEW i \in ActiveIDs  PROVE MappedInv(n, i)'
  <2>1. PICK p : p = IDMappedPath(BasePath(n), i)
    BY ZenonT(60)
  <2>2. p \in Paths
    BY <2>1, PathsDiffer, ZenonT(60)
  <2>3. /\ fsLayer[p] # NotRegistered => fsLayer[p][2] = n
        /\ p \in served => fsLayer[p] # NotRegistered
    BY <2>1, ZenonT(60) DEF LayersInv, MappedInv
  <2>4. m \in Mountpoints /\ fsLayer[BasePath(m)][2] = m
    BY Distinct, ZenonT(60) DEF LayersInv, BaseInv
  <2>5. p = q => n = m
    BY <1>1, <2>1, MappedOfOne, ZenonT(60)
  <2>6. /\ fsLayer'[p] # NotRegistered => fsLayer'[p][2] = n
        /\ p \in served' => fsLayer'[p] # NotRegistered
    BY <1>4, <2>2, <2>3, <2>4, <2>5, ZenonT(60)
  <2> QED  BY <2>1, <2>6, ZenonT(60) DEF MappedInv
<1> QED  BY <1>6, <1>7, <1>8, <1>9, ZenonT(60) DEF LayersInv

\* A path is unmounted and the layerRef registered for it is done with.
LEMMA Unmounts ==
    ASSUME TypeInv, LayersInv, NEW m \in Mountpoints, NEW l \in Values,
           NEW p \in Paths, fsLayer[p] = <<l, m>>, ref[m] = NoValue,
           fsLayer' = [fsLayer EXCEPT ![p] = NotRegistered],
           served' = served \ {p}, unmounted' = unmounted \union {p}, UNCHANGED ref,
           Holders(layerCache', l) = Holders(layerCache, l) \ {m},
           \A v \in Values : v # l => Holders(layerCache', v) = Holders(layerCache, v)
    PROVE  LayersInv'
<1>1. DOMAIN fsLayer = Paths /\ \A a \in Actors : ref[a] \in Values \union {NoValue}
  BY ZenonT(60) DEF TypeInv
<1>2. /\ fsLayer'[p] = NotRegistered /\ p \notin served'
      /\ \A q \in Paths : q # p => fsLayer'[q] = fsLayer[q]
  BY <1>1, ZenonT(60)
<1>3. <<l, m>> # NotRegistered /\ <<l, m>>[1] = l /\ <<l, m>>[2] = m
  BY Distinct, ZenonT(60) DEF NotRegistered
<1>4. \/ p = BasePath(m)
      \/ m \in Parents /\ \E id \in ActiveIDs : p = IDMappedPath(BasePath(m), id)
  <2>1. CASE \E n \in Mountpoints : p = BasePath(n)
    BY <1>3, <2>1, ZenonT(60) DEF LayersInv, BaseInv
  <2>2. CASE \E n \in Parents, id \in ActiveIDs : p = IDMappedPath(BasePath(n), id)
    <3>1. PICK n \in Parents, id \in ActiveIDs : p = IDMappedPath(BasePath(n), id)
      BY <2>2, ZenonT(60)
    <3>2. n = m
      BY <1>3, <3>1, ZenonT(60) DEF LayersInv, MappedInv
    <3> QED  BY <3>1, <3>2, ZenonT(60)
  <2> QED  BY <2>1, <2>2, PathsDiffer, ZenonT(60)
<1>5. ASSUME NEW n \in Mountpoints, n # m  PROVE BasePath(n) \in Paths /\ BasePath(n) # p
  <2>1. BasePath(n) \in Paths /\ BasePath(n) # BasePath(m)
    BY <1>5, PathsDiffer, ZenonT(60)
  <2>2. \A id \in ActiveIDs : IDMappedPath(BasePath(m), id) # BasePath(n)
    BY PathsDiffer, ZenonT(60)
  <2> QED  BY <1>4, <2>1, <2>2, ZenonT(60)
<1>6. RefsHold'
  <2> SUFFICES ASSUME NEW b \in Actors, ref[b] # NoValue
               PROVE  b \in Holders(layerCache', ref[b])
    BY ZenonT(60) DEF RefsHold
  <2>1. b # m /\ ref[b] \in Values
    BY <1>1, ZenonT(60)
  <2>2. b \in Holders(layerCache, ref[b])
    BY ZenonT(60) DEF LayersInv, RefsHold
  <2> QED  BY <2>1, <2>2, ZenonT(60)
<1>7. HoldersOwn'
  <2> SUFFICES ASSUME NEW v \in Values, NEW h \in Holders(layerCache', v)
               PROVE  \/ ref[h] = v
                      \/ h \in Mountpoints /\ fsLayer'[BasePath(h)] = <<v, h>>
    BY ZenonT(60) DEF HoldersOwn
  <2>1. h \in Holders(layerCache, v) /\ ~(h = m /\ v = l)
    BY ZenonT(60)
  <2>2. \/ ref[h] = v
        \/ h \in Mountpoints /\ fsLayer[BasePath(h)] = <<v, h>>
    BY <2>1, ZenonT(60) DEF LayersInv, HoldersOwn
  <2>3. CASE h # m
    BY <1>2, <1>5, <2>2, <2>3, ZenonT(60)
  <2>4. CASE h = m
    <3>1. CASE p = BasePath(m)
      <4>1. <<v, m>> # <<l, m>>
        BY <2>1, <2>4, ZenonT(60)
      <4> QED  BY <2>2, <2>4, <3>1, <4>1, ZenonT(60)
    <3>2. CASE p # BasePath(m)
      BY <1>2, <2>2, <2>4, <3>2, PathsDiffer, ZenonT(60)
    <3> QED  BY <3>1, <3>2, ZenonT(60)
  <2> QED  BY <2>3, <2>4, ZenonT(60)
<1>8. ASSUME NEW n \in Mountpoints  PROVE BaseInv(n)'
  <2>1. BaseInv(n)  BY ZenonT(60) DEF LayersInv
  <2>2. CASE n # m
    <3>1. fsLayer'[BasePath(n)] = fsLayer[BasePath(n)]
      BY <1>2, <1>5, <2>2, ZenonT(60)
    <3>2. fsLayer[BasePath(n)] # NotRegistered => fsLayer[BasePath(n)][1] \in Values
      BY RegisteredIs, PathsDiffer, ZenonT(60)
    <3>3. \A v \in Values : n \in Holders(layerCache, v) => n \in Holders(layerCache', v)
      BY <2>2, ZenonT(60)
    <3> QED  BY <2>1, <3>1, <3>2, <3>3, ZenonT(60) DEF BaseInv
  <2>3. CASE n = m /\ p = BasePath(m)
    BY <1>2, <2>3, ZenonT(60) DEF BaseInv
  <2>4. CASE n = m /\ p # BasePath(m)
    <3>1. fsLayer'[BasePath(n)] = fsLayer[BasePath(n)]
      BY <1>2, <2>4, PathsDiffer, ZenonT(60)
    <3>2. \E id \in ActiveIDs : IDMappedPath(BasePath(n), id) \in unmounted'
      BY <1>4, <2>4, ZenonT(60)
    <3> QED  BY <2>1, <3>1, <3>2, ZenonT(60) DEF BaseInv
  <2> QED  BY <2>2, <2>3, <2>4, ZenonT(60)
<1>9. ASSUME NEW n \in Parents, NEW i \in ActiveIDs  PROVE MappedInv(n, i)'
  <2>1. PICK q : q = IDMappedPath(BasePath(n), i)
    BY ZenonT(60)
  <2>2. q \in Paths
    BY <2>1, PathsDiffer, ZenonT(60)
  <2>3. /\ fsLayer[q] # NotRegistered => fsLayer[q][2] = n
        /\ q \in served => fsLayer[q] # NotRegistered
    BY <2>1, ZenonT(60) DEF LayersInv, MappedInv
  <2>4. /\ fsLayer'[q] # NotRegistered => fsLayer'[q][2] = n
        /\ q \in served' => fsLayer'[q] # NotRegistered
    BY <1>2, <2>2, <2>3, ZenonT(60)
  <2> QED  BY <2>1, <2>4, ZenonT(60) DEF MappedInv
<1> QED  BY <1>6, <1>7, <1>8, <1>9, ZenonT(60) DEF LayersInv

-----------------------------------------------------------------------------
(* What the kinds of steps do to the holders of blobs.                     *)

\* A value is alive as long as it has a referrer.
LEMMA AliveIs ==
    ASSUME NEW c, NEW v \in Values
    PROVE  Alive(c, v) <=> c.refs[v] # {}
BY Distinct, ZenonT(60) DEF Alive

\* Nobody's references change, no layer is opened or closed.
LEMMA BlobsStay ==
    ASSUME TypeInv, BlobsInv, UNCHANGED <<bref, blobOf>>,
           \A l \in Values : Alive(layerCache', l) <=> Alive(layerCache, l),
           \A b \in Values : Holders(blobCache', b) = Holders(blobCache, b)
    PROVE  BlobsInv'
<1>1. \A a \in Actors : bref[a] \in Values \union {NoValue}
  BY ZenonT(60) DEF TypeInv
<1>2. BlobRefsHold'
  BY <1>1, ZenonT(60) DEF BlobsInv, BlobRefsHold
<1>3. LayersHold'
  BY ZenonT(60) DEF BlobsInv, LayersHold, LayerOpen
<1>4. BlobHoldersOwn'
  BY ZenonT(60) DEF BlobsInv, BlobHoldersOwn, LayerOpen
<1> QED  BY <1>2, <1>3, <1>4, ZenonT(60) DEF BlobsInv

\* A goroutine without a blob gets a reference to one.
LEMMA GainsBlob ==
    ASSUME TypeInv, BlobsInv, NEW a \in Actors, NEW b \in Values, bref[a] = NoValue,
           bref' = [bref EXCEPT ![a] = b], UNCHANGED <<layerCache, blobOf>>,
           Holders(blobCache', b) = Holders(blobCache, b) \union {a},
           \A v \in Values : v # b => Holders(blobCache', v) = Holders(blobCache, v)
    PROVE  BlobsInv'
<1>1. /\ bref'[a] = b /\ \A c : c # a => bref'[c] = bref[c]
      /\ \A c \in Actors : bref[c] \in Values \union {NoValue}
  BY SMTT(60), Z3T(60) DEF TypeInv
<1>2. \A v \in Values : Holders(blobCache, v) \subseteq Holders(blobCache', v)
  BY ZenonT(60)
<1>3. BlobRefsHold'
  <2> SUFFICES ASSUME NEW c \in Actors, bref'[c] # NoValue
               PROVE  c \in Holders(blobCache', bref'[c])
    BY ZenonT(60) DEF BlobRefsHold
  <2>1. CASE c = a
    BY <1>1, <2>1, ZenonT(60)
  <2>2. CASE c # a
    <3>1. bref'[c] = bref[c] /\ bref[c] \in Values /\ c \in Holders(blobCache, bref[c])
      BY <1>1, <2>2, ZenonT(60) DEF BlobsInv, BlobRefsHold
    <3> QED  BY <1>2, <3>1, ZenonT(60)
  <2> QED  BY <2>1, <2>2, ZenonT(60)
<1>4. LayersHold'
  <2> SUFFICES ASSUME NEW l \in Values, Alive(layerCache, l)
               PROVE  blobOf[l] \in Values /\ l \in Holders(blobCache', blobOf[l])
    BY ZenonT(60) DEF LayersHold, LayerOpen
  <2>1. blobOf[l] \in Values /\ l \in Holders(blobCache, blobOf[l])
    BY ZenonT(60) DEF BlobsInv, LayersHold, LayerOpen
  <2> QED  BY <1>2, <2>1, ZenonT(60)
<1>5. BlobHoldersOwn'
  <2> SUFFICES ASSUME NEW v \in Values, NEW h \in Holders(blobCache', v)
               PROVE  \/ h \in Actors /\ bref'[h] = v
                      \/ h \in Values /\ Alive(layerCache, h) /\ blobOf[h] = v
    BY ZenonT(60) DEF BlobHoldersOwn, LayerOpen
  <2>1. CASE h = a /\ v = b
    BY <1>1, <2>1, ZenonT(60)
  <2>2. CASE ~(h = a /\ v = b)
    <3>1. h \in Holders(blobCache, v)
      BY <2>2, ZenonT(60)
    <3>2. \/ h \in Actors /\ bref[h] = v
          \/ h \in Values /\ Alive(layerCache, h) /\ blobOf[h] = v
      BY <3>1, ZenonT(60) DEF BlobsInv, BlobHoldersOwn, LayerOpen
    <3>3. v # NoValue
      BY Distinct, ZenonT(60)
    <3> QED  BY <1>1, <3>2, <3>3, ZenonT(60)
  <2> QED  BY <2>1, <2>2, ZenonT(60)
<1> QED  BY <1>3, <1>4, <1>5, ZenonT(60) DEF BlobsInv

\* A goroutine gives its blob back.
LEMMA LosesBlob ==
    ASSUME TypeInv, BlobsInv, NEW a \in Actors, NEW b \in Values, bref[a] = b,
           bref' = [bref EXCEPT ![a] = NoValue], UNCHANGED blobOf,
           \A l \in Values : Alive(layerCache', l) <=> Alive(layerCache, l),
           Holders(blobCache', b) = Holders(blobCache, b) \ {a},
           \A v \in Values : v # b => Holders(blobCache', v) = Holders(blobCache, v)
    PROVE  BlobsInv'
<1>1. /\ bref'[a] = NoValue /\ \A c : c # a => bref'[c] = bref[c]
      /\ \A c \in Actors : bref[c] \in Values \union {NoValue}
  BY SMTT(60), Z3T(60) DEF TypeInv
<1>2. \A v \in Values : Holders(blobCache, v) \ {a} \subseteq Holders(blobCache', v)
  BY ZenonT(60)
<1>3. BlobRefsHold'
  <2> SUFFICES ASSUME NEW c \in Actors, bref'[c] # NoValue
               PROVE  c \in Holders(blobCache', bref'[c])
    BY ZenonT(60) DEF BlobRefsHold
  <2>1. c # a /\ bref'[c] = bref[c] /\ bref[c] \in Values
    BY <1>1, ZenonT(60)
  <2>2. c \in Holders(blobCache, bref[c])
    BY <2>1, ZenonT(60) DEF BlobsInv, BlobRefsHold
  <2> QED  BY <1>2, <2>1, <2>2, ZenonT(60)
<1>4. LayersHold'
  <2> SUFFICES ASSUME NEW l \in Values, Alive(layerCache, l)
               PROVE  blobOf[l] \in Values /\ l \in Holders(blobCache', blobOf[l])
    BY ZenonT(60) DEF LayersHold, LayerOpen
  <2>1. blobOf[l] \in Values /\ l \in Holders(blobCache, blobOf[l])
    BY ZenonT(60) DEF BlobsInv, LayersHold, LayerOpen
  <2>2. l # a
    BY Distinct, ZenonT(60)
  <2> QED  BY <1>2, <2>1, <2>2, ZenonT(60)
<1>5. BlobHoldersOwn'
  <2> SUFFICES ASSUME NEW v \in Values, NEW h \in Holders(blobCache', v)
               PROVE  \/ h \in Actors /\ bref'[h] = v
                      \/ h \in Values /\ Alive(layerCache, h) /\ blobOf[h] = v
    BY ZenonT(60) DEF BlobHoldersOwn, LayerOpen
  <2>1. h \in Holders(blobCache, v) /\ ~(h = a /\ v = b)
    BY ZenonT(60)
  <2>2. \/ h \in Actors /\ bref[h] = v
        \/ h \in Values /\ Alive(layerCache, h) /\ blobOf[h] = v
    BY <2>1, ZenonT(60) DEF BlobsInv, BlobHoldersOwn, LayerOpen
  <2> QED  BY <1>1, <2>1, <2>2, ZenonT(60)
<1> QED  BY <1>3, <1>4, <1>5, ZenonT(60) DEF BlobsInv

\* The layers of a set that refer to a blob.
Gone(dead, b) == {l \in dead : blobOf[l] = b}

\* Layers that are closed drop their references, nobody else does.
LEMMA CloseBlobs ==
    ASSUME NEW c, GoodCache(c, Values, BlobHolders, MaxResults), NEW dead \in SUBSET Values
    PROVE  /\ GoodCache(CloseBlobsOf(dead, c), Values, BlobHolders, MaxResults)
           /\ \A b \in Values : Holders(CloseBlobsOf(dead, c), b)
                                = Holders(c, b) \ Gone(dead, b)
<1>1. PICK r : r = [b \in Values |-> c.refs[b] \ {l \in dead : blobOf[l] = b}]
  BY ZenonT(60)
<1>2. PICK rr : rr = c.refs
  BY ZenonT(60)
<1>3. rr \in [Values -> SUBSET BlobHolders]
  BY <1>2, Parts, ZenonT(60) DEF GoodCache
<1>4. \A b \in Values : r[b] = rr[b] \ Gone(dead, b)
  BY <1>1, <1>2, ZenonT(60) DEF Gone
<1>5. r \in [Values -> SUBSET BlobHolders]
  BY <1>1, <1>2, <1>3, ZenonT(60)
<1>6. \A b \in Values : CacheRef \in r[b] <=> CacheRef \in c.refs[b]
  BY <1>2, <1>4, Distinct, SMTT(60), Z3T(60) DEF Gone
<1>7. CloseBlobsOf(dead, c) = Pair(c.order, r)
  BY <1>1, ZenonT(60) DEF CloseBlobsOf, Pair
<1>8. GoodCache(Pair(c.order, r), Values, BlobHolders, MaxResults) /\ Pair(c.order, r).refs = r
  BY <1>5, <1>6, HoldersChange, ZenonT(60)
<1>9. \A b \in Values : Holders(CloseBlobsOf(dead, c), b) = r[b] \ {CacheRef}
  BY <1>7, <1>8, ZenonT(60) DEF Holders
<1>10. \A b \in Values : Holders(c, b) = rr[b] \ {CacheRef}
  BY <1>2, ZenonT(60) DEF Holders
<1> QED  BY <1>4, <1>7, <1>8, <1>9, <1>10, ZenonT(60)

\* The layers that are closed when the cache of layers becomes d.
LEMMA DeadAre ==
    ASSUME CachesInv, NEW d
    PROVE  /\ Finalized(layerCache, d) \in SUBSET Values
           /\ \A l \in Values : l \in Finalized(layerCache, d) <=>
                 Alive(layerCache, l) /\ ~Alive(d, l)
<1>1. layerCache.refs \in [Values -> SUBSET LayerHolders]
  BY Parts, ZenonT(60) DEF CachesInv, GoodCache
<1>2. DOMAIN layerCache.refs = Values
  BY <1>1, ZenonT(60)
<1>3. Finalized(layerCache, d) \subseteq Values
  BY <1>2, ZenonT(60) DEF Finalized
<1>4. ASSUME NEW l \in Values
      PROVE  l \in Finalized(layerCache, d) <=> Alive(layerCache, l) /\ ~Alive(d, l)
  BY <1>2, AliveIs, ZenonT(60) DEF Finalized
<1> QED  BY <1>3, <1>4, ZenonT(60)

\* References to layers are dropped: the layers that are closed by that, and no
\* others, give up their blobs.
LEMMA ClosesLayers ==
    ASSUME TypeInv, CachesInv, BlobsInv, NEW d,
           GoodCache(d, Values, LayerHolders, MaxResults),
           \A v \in Values : d.refs[v] \subseteq layerCache.refs[v],
           SetLayerCache(d), UNCHANGED bref
    PROVE  /\ CachesInv' /\ BlobsInv' /\ layerCache' = d
           /\ blobOf' \in [Values -> Values \union {NoValue}]
<1>1. PICK dead : dead = Finalized(layerCache, d)
  BY ZenonT(60)
<1>2. /\ layerCache' = d
      /\ blobCache' = CloseBlobsOf(dead, blobCache)
      /\ blobOf' = [l \in Values |-> IF l \in dead THEN NoValue ELSE blobOf[l]]
  BY <1>1, ZenonT(60) DEF SetLayerCache
<1>3. /\ dead \in SUBSET Values
      /\ \A l \in Values : l \in dead <=> Alive(layerCache, l) /\ ~Alive(d, l)
  BY <1>1, DeadAre, ZenonT(60)
<1>4. ASSUME NEW l \in Values, Alive(d, l)  PROVE Alive(layerCache, l)
  BY <1>4, AliveIs, ZenonT(60)
<1>5. /\ GoodCache(blobCache', Values, BlobHolders, MaxResults)
      /\ \A b \in Values : Holders(blobCache', b)
                           = Holders(blobCache, b) \ Gone(dead, b)
  BY <1>2, <1>3, CloseBlobs, ZenonT(60) DEF CachesInv
<1>6. CachesInv'
  BY <1>2, <1>5, ZenonT(60) DEF CachesInv
<1>7. blobOf' \in [Values -> Values \union {NoValue}]
      /\ \A l \in Values : l \notin dead => blobOf'[l] = blobOf[l]
  BY <1>2, ZenonT(60) DEF TypeInv
<1>8. BlobRefsHold'
  <2> SUFFICES ASSUME NEW a \in Actors, bref[a] # NoValue
               PROVE  a \in Holders(blobCache', bref[a])
    BY ZenonT(60) DEF BlobRefsHold
  <2>1. bref[a] \in Values /\ a \in Holders(blobCache, bref[a])
    BY ZenonT(60) DEF TypeInv, BlobsInv, BlobRefsHold
  <2>2. a \notin dead
    BY <1>3, Distinct, ZenonT(60)
  <2> QED  BY <1>5, <2>1, <2>2, ZenonT(60) DEF Gone
<1>9. LayersHold'
  <2> SUFFICES ASSUME NEW l \in Values, Alive(d, l)
               PROVE  blobOf'[l] \in Values /\ l \in Holders(blobCache', blobOf'[l])
    BY <1>2, ZenonT(60) DEF LayersHold, LayerOpen
  <2>1. l \notin dead
    BY <1>3, ZenonT(60)
  <2>2. blobOf[l] \in Values /\ l \in Holders(blobCache, blobOf[l])
    BY <1>4, ZenonT(60) DEF BlobsInv, LayersHold, LayerOpen
  <2>3. l \in Holders(blobCache', blobOf[l])
    BY <1>5, <2>1, <2>2, ZenonT(60) DEF Gone
  <2> QED  BY <1>7, <2>1, <2>2, <2>3, ZenonT(60)
<1>10. BlobHoldersOwn'
  <2> SUFFICES ASSUME NEW b \in Values, NEW h \in Holders(blobCache', b)
               PROVE  \/ h \in Actors /\ bref[h] = b
                      \/ h \in Values /\ Alive(d, h) /\ blobOf'[h] = b
    BY <1>2, ZenonT(60) DEF BlobHoldersOwn, LayerOpen
  <2>1. h \in Holders(blobCache, b) /\ ~(h \in dead /\ blobOf[h] = b)
    BY <1>5, ZenonT(60) DEF Gone
  <2>2. \/ h \in Actors /\ bref[h] = b
        \/ h \in Values /\ Alive(layerCache, h) /\ blobOf[h] = b
    BY <2>1, ZenonT(60) DEF BlobsInv, BlobHoldersOwn, LayerOpen
  <2> QED  BY <1>3, <1>7, <2>1, <2>2, ZenonT(60)
<1> QED  BY <1>2, <1>6, <1>7, <1>8, <1>9, <1>10, ZenonT(60) DEF BlobsInv

\* A new layer takes over the reference to the blob of the goroutine that made
\* it; a layer that it pushed out of the cache may be closed.
Adopts(a, b, new, d, dead, moved) ==
    /\ bref[a] = b /\ ~Alive(layerCache, new) /\ Alive(d, new)
    /\ GoodCache(d, Values, LayerHolders, MaxResults)
    /\ \A v \in Values : v # new => d.refs[v] \subseteq layerCache.refs[v]
    /\ dead = Finalized(layerCache, d)
    /\ moved = Pair(blobCache.order,
                    [blobCache.refs EXCEPT ![b] = (@ \ {a}) \union {new}])
    /\ layerCache' = d /\ blobCache' = CloseBlobsOf(dead, moved)
    /\ blobOf' = [l \in Values |-> IF l \in dead THEN NoValue
                                   ELSE IF l = new THEN b ELSE blobOf[l]]
    /\ bref' = [bref EXCEPT ![a] = NoValue]

\* Resolve puts a new layer into the cache: it takes over the goroutine's reference
\* to the blob, and the layers that are pushed out give theirs back.
LEMMA NewLayer ==
    ASSUME TypeInv, CachesInv, BlobsInv, NEW a \in Actors, NEW b \in Values,
           NEW new \in Values, NEW d, NEW dead, NEW moved,
           Adopts(a, b, new, d, dead, moved)
    PROVE  /\ CachesInv' /\ BlobsInv'
           /\ blobOf' \in [Values -> Values \union {NoValue}]
<1>0. /\ bref[a] = b /\ ~Alive(layerCache, new) /\ Alive(d, new)
      /\ GoodCache(d, Values, LayerHolders, MaxResults)
      /\ \A v \in Values : v # new => d.refs[v] \subseteq layerCache.refs[v]
      /\ dead = Finalized(layerCache, d)
      /\ moved = Pair(blobCache.order,
                      [blobCache.refs EXCEPT ![b] = (@ \ {a}) \union {new}])
      /\ layerCache' = d /\ blobCache' = CloseBlobsOf(dead, moved)
      /\ blobOf' = [l \in Values |-> IF l \in dead THEN NoValue
                                     ELSE IF l = new THEN b ELSE blobOf[l]]
      /\ bref' = [bref EXCEPT ![a] = NoValue]
  BY ZenonT(60) DEF Adopts
<1> USE <1>0
<1>1. /\ dead \in SUBSET Values
      /\ \A l \in Values : l \in dead <=> Alive(layerCache, l) /\ ~Alive(d, l)
  BY DeadAre, ZenonT(60)
<1>2. ASSUME NEW l \in Values, l # new, Alive(d, l)  PROVE Alive(layerCache, l)
  BY <1>2, AliveIs, ZenonT(60)
<1>3. PICK rr : rr = blobCache.refs
  BY ZenonT(60)
<1>4. PICK r : r = [rr EXCEPT ![b] = (@ \ {a}) \union {new}]
  BY ZenonT(60)
<1>5. rr \in [Values -> SUBSET BlobHolders]
  BY <1>3, Parts, ZenonT(60) DEF CachesInv, GoodCache
<1>6. a # CacheRef /\ new # CacheRef /\ new \in BlobHolders
  BY Distinct, ZenonT(60) DEF BlobHolders
<1>7. /\ r \in [Values -> SUBSET BlobHolders]
      /\ \A v \in Values : CacheRef \in r[v] <=> CacheRef \in rr[v]
      /\ r[b] \ {CacheRef} = ((rr[b] \ {CacheRef}) \ {a}) \union {new}
      /\ \A v \in Values : v # b => r[v] = rr[v]
  BY <1>4, <1>5, <1>6, ZenonT(60)
<1>8. moved = Pair(blobCache.order, r)
  BY <1>3, <1>4, ZenonT(60)
<1>9. /\ GoodCache(moved, Values, BlobHolders, MaxResults) /\ moved.refs = r
  <2>1. \A v \in Values : CacheRef \in r[v] <=> CacheRef \in blobCache.refs[v]
    BY <1>3, <1>7, ZenonT(60)
  <2>2. GoodCache(blobCache, Values, BlobHolders, MaxResults)
    BY ZenonT(60) DEF CachesInv
  <2>3. /\ GoodCache(Pair(blobCache.order, r), Values, BlobHolders, MaxResults)
        /\ Pair(blobCache.order, r).refs = r
    <3>1. GoodCache(Pair(blobCache.order, r), Values, BlobHolders, MaxResults)
      BY <1>7, <2>1, <2>2, HoldersChange, ZenonT(60)
    <3>2. Pair(blobCache.order, r).refs = r
      BY ZenonT(60) DEF Pair
    <3> QED  BY <3>1, <3>2, ZenonT(60)
  <2> QED  BY <1>8, <2>3, ZenonT(60)
<1>10. /\ Holders(moved, b) = (Holders(blobCache, b) \ {a}) \union {new}
       /\ \A v \in Values : v # b => Holders(moved, v) = Holders(blobCache, v)
  BY <1>3, <1>7, <1>9, ZenonT(60) DEF Holders
<1>11. /\ GoodCache(blobCache', Values, BlobHolders, MaxResults)
       /\ \A v \in Values : Holders(blobCache', v)
                            = Holders(moved, v) \ Gone(dead, v)
  <2>1. PICK x, y : x = dead /\ y = moved
    BY ZenonT(60)
  <2>2. x \in SUBSET Values /\ GoodCache(y, Values, BlobHolders, MaxResults)
    BY <1>1, <1>9, <2>1, ZenonT(60)
  <2>3. /\ GoodCache(CloseBlobsOf(x, y), Values, BlobHolders, MaxResults)
        /\ \A v \in Values : Holders(CloseBlobsOf(x, y), v) = Holders(y, v) \ Gone(x, v)
    BY <2>2, CloseBlobs, ZenonT(60)
  <2> QED  BY <2>1, <2>3, ZenonT(60)
<1>12. CachesInv'
  BY <1>11, ZenonT(60) DEF CachesInv
<1>13. new \notin dead
  BY <1>1, ZenonT(60)
<1>14. /\ blobOf' \in [Values -> Values \union {NoValue}]
       /\ blobOf'[new] = b
       /\ \A l \in Values : l # new /\ l \notin dead => blobOf'[l] = blobOf[l]
  BY <1>13, ZenonT(60) DEF TypeInv
<1>15. /\ bref'[a] = NoValue /\ \A c : c # a => bref'[c] = bref[c]
       /\ \A c \in Actors : bref[c] \in Values \union {NoValue}
  <2>1. bref \in [Actors -> Values \union {NoValue}]
    BY ZenonT(60) DEF TypeInv
  <2>2. bref' = [bref EXCEPT ![a] = NoValue]
    BY <1>0, ZenonT(60)
  <2> HIDE <1>0
  <2> QED  BY <2>1, <2>2, SMTT(60), Z3T(60)
<1>16. BlobRefsHold'
  <2> SUFFICES ASSUME NEW c \in Actors, bref'[c] # NoValue
               PROVE  c \in Holders(blobCache', bref'[c])
    BY ZenonT(60) DEF BlobRefsHold
  <2>1. c # a /\ bref'[c] = bref[c] /\ bref[c] \in Values
    BY <1>15, ZenonT(60)
  <2>2. c \in Holders(blobCache, bref[c])
    BY <2>1, ZenonT(60) DEF BlobsInv, BlobRefsHold
  <2>3. c \notin dead
    BY <1>1, Distinct, ZenonT(60)
  <2>4. c \in Holders(moved, bref[c])
    BY <1>10, <2>1, <2>2, ZenonT(60)
  <2>5. c \notin Gone(dead, bref[c])
    BY <2>3, ZenonT(60) DEF Gone
  <2>6. Holders(blobCache', bref[c]) = Holders(moved, bref[c]) \ Gone(dead, bref[c])
    <3> HIDE <1>0
    <3> QED  BY <1>11, <2>1, ZenonT(60)
  <2>7. c \in Holders(blobCache', bref[c])
    <3> HIDE <1>0
    <3> QED  BY <2>4, <2>5, <2>6, ZenonT(60)
  <2> QED  BY <2>1, <2>7, ZenonT(60)
<1>17. LayersHold'
  <2> SUFFICES ASSUME NEW l \in Values, Alive(d, l)
               PROVE  blobOf'[l] \in Values /\ l \in Holders(blobCache', blobOf'[l])
    BY ZenonT(60) DEF LayersHold, LayerOpen
  <2>1. l \notin dead
    BY <1>1, ZenonT(60)
  <2>2. CASE l = new
    <3>1. new \in Holders(moved, b)
      BY <1>10, ZenonT(60)
    <3>2. new \in Holders(blobCache', b)
      BY <1>11, <1>13, <3>1, ZenonT(60) DEF Gone
    <3> QED  BY <1>14, <2>2, <3>2, ZenonT(60)
  <2>3. CASE l # new
    <3>1. blobOf[l] \in Values /\ l \in Holders(blobCache, blobOf[l])
      BY <1>2, <2>3, ZenonT(60) DEF BlobsInv, LayersHold, LayerOpen
    <3>2. l # a
      BY Distinct, ZenonT(60)
    <3>3. l \in Holders(moved, blobOf[l])
      BY <1>10, <3>1, <3>2, ZenonT(60)
    <3>4. l \notin Gone(dead, blobOf[l])
      BY <2>1, ZenonT(60) DEF Gone
    <3>5. l \in Holders(blobCache', blobOf[l])
      <4> HIDE <1>0
      <4>1. Holders(blobCache', blobOf[l]) = Holders(moved, blobOf[l]) \ Gone(dead, blobOf[l])
        BY <1>11, <3>1, ZenonT(60)
      <4> QED  BY <3>3, <3>4, <4>1, ZenonT(60)
    <3> QED  BY <1>14, <2>1, <2>3, <3>1, <3>5, ZenonT(60)
  <2> QED  BY <2>2, <2>3, ZenonT(60)
<1>18. BlobHoldersOwn'
  <2> SUFFICES ASSUME NEW v \in Values, NEW h \in Holders(blobCache', v)
               PROVE  \/ h \in Actors /\ bref'[h] = v
                      \/ h \in Values /\ Alive(d, h) /\ blobOf'[h] = v
    BY ZenonT(60) DEF BlobHoldersOwn, LayerOpen
  <2>1. h \in Holders(moved, v) /\ ~(h \in dead /\ blobOf[h] = v)
    <3> HIDE <1>0
    <3>1. Holders(blobCache', v) = Holders(moved, v) \ Gone(dead, v)
      BY <1>11, ZenonT(60)
    <3>2. h \in Holders(moved, v) /\ h \notin Gone(dead, v)
      BY <3>1, ZenonT(60)
    <3> QED  BY <3>2, ZenonT(60) DEF Gone
  <2>2. CASE h = new /\ v = b
    BY <1>14, <2>2, ZenonT(60)
  <2>3. CASE ~(h = new /\ v = b)
    <3>1. h \in Holders(blobCache, v) /\ ~(h = a /\ v = b)
      BY <1>6, <1>10, <2>1, <2>3, Distinct, ZenonT(60)
    <3>2. \/ h \in Actors /\ bref[h] = v
          \/ h \in Values /\ Alive(layerCache, h) /\ blobOf[h] = v
      BY <3>1, ZenonT(60) DEF BlobsInv, BlobHoldersOwn, LayerOpen
    <3>3. h # new \/ h \in Actors
      BY <3>2, ZenonT(60)
    <3>4. h \in Values => h \notin Actors
      BY Distinct, ZenonT(60)
    <3> QED  BY <1>1, <1>14, <1>15, <2>1, <3>1, <3>2, <3>3, <3>4, ZenonT(60)
  <2> QED  BY <2>2, <2>3, ZenonT(60)
<1> QED  BY <1>12, <1>14, <1>16, <1>17, <1>18, ZenonT(60) DEF BlobsInv

-----------------------------------------------------------------------------
(* Every action keeps the invariant.  First what it leaves alone.          *)

\* A step that touches no reference.
LEMMA Quiet ==
    ASSUME TypeInv, CachesInv, LayersInv, BlobsInv,
           UNCHANGED <<ref, bref, cacheVars, fsVars>>
    PROVE  CachesInv' /\ LayersInv' /\ BlobsInv'
<1>1. UNCHANGED <<layerCache, blobCache, blobOf, ref, bref, fsLayer, served, unmounted>>
  BY ZenonT(60) DEF cacheVars, fsVars
<1>2. CachesInv'
  BY <1>1, ZenonT(60) DEF CachesInv
<1>3. LayersInv'
  BY <1>1, LayersStay, ZenonT(60)
<1>4. BlobsInv'
  BY <1>1, BlobsStay, ZenonT(60)
<1> QED  BY <1>2, <1>3, <1>4, ZenonT(60)

\* A step that touches neither the preresolver nor the data of the Mounts.
LEMMA QueueStays ==
    ASSUME QueueInv, UNCHANGED <<layerOf, sociCtx, todo, cur, prVars>>,
           \A m \in Mountpoints : mpc'[m] = "store" => mpc[m] = "store"
    PROVE  QueueInv'
<1>1. UNCHANGED <<layerOf, sociCtx, todo, cur, prQueue, prHand, prCache>>
  BY ZenonT(60) DEF prVars
<1> QED  BY <1>1, ZenonT(60) DEF QueueInv

\* What a goroutine and its Mount depend on.
SameActor(b) ==
    /\ rpc'[b] = rpc[b] /\ target'[b] = target[b] /\ ref'[b] = ref[b] /\ bref'[b] = bref[b]
    /\ b \in Mountpoints => mpc'[b] = mpc[b] /\ (Unregistered(b) => Unregistered(b)')

\* A step of one goroutine or of its Mount.
LEMMA OneActor ==
    ASSUME ControlInv, NEW a \in Actors, \A b \in Actors \ {a} : SameActor(b),
           ResolveInv(a)', a \in Workers => (rpc'[a] = "idle" => ref'[a] = NoValue),
           a \in Mountpoints => MountInv(a)'
    PROVE  ControlInv'
<1>1. \A b \in Actors : ResolveInv(b)'
  BY ZenonT(60) DEF ControlInv, ResolveInv, SameActor
<1>2. ASSUME NEW w \in Workers, rpc'[w] = "idle"  PROVE ref'[w] = NoValue
  <2>1. w \in Actors
    BY Distinct, ZenonT(60)
  <2>2. CASE w = a
    BY <1>2, <2>2, ZenonT(60)
  <2>3. CASE w # a
    BY <1>2, <2>1, <2>3, ZenonT(60) DEF ControlInv, SameActor
  <2> QED  BY <2>2, <2>3, ZenonT(60)
<1>3. ASSUME NEW m \in Mountpoints  PROVE MountInv(m)'
  <2>1. m \in Actors
    BY Distinct, ZenonT(60)
  <2>2. CASE m = a
    BY <2>2, ZenonT(60)
  <2>3. CASE m # a
    <3>1. SameActor(m) /\ MountInv(m)
      BY <2>1, <2>3, ZenonT(60) DEF ControlInv
    <3> QED  BY <3>1, ZenonT(60) DEF MountInv, SameActor
  <2> QED  BY <2>2, <2>3, ZenonT(60)
<1> QED  BY <1>1, <1>2, <1>3, ZenonT(60) DEF ControlInv

\* A path that is not registered stays so.
LEMMA PathsStay ==
    ASSUME NEW m \in Mountpoints, UNCHANGED fsLayer
    PROVE  Unregistered(m) => Unregistered(m)'
BY ZenonT(60) DEF Unregistered

\* A step of one goroutine or of its Mount that touches no reference.
LEMMA QuietStep ==
    ASSUME Inv, NEW a \in Actors, UNCHANGED <<ref, bref, cacheVars, fsVars>>,
           mpc' \in [Mountpoints -> MountPcs], rpc' \in [Actors -> ResolvePcs],
           target' \in [Actors -> Layers \union {NoLayer}],
           \A b \in Actors \ {a} : rpc'[b] = rpc[b] /\ target'[b] = target[b],
           \A n \in Mountpoints \ {a} : mpc'[n] = mpc[n],
           QueueInv', ResolveInv(a)',
           a \in Workers => (rpc'[a] = "idle" => ref[a] = NoValue),
           a \in Mountpoints => MountInv(a)'
    PROVE  Inv'
<1>0. QueueInv /\ TypeInv /\ CachesInv /\ ControlInv /\ LayersInv /\ BlobsInv
  BY ZenonT(60) DEF Inv
<1>1. UNCHANGED <<ref, bref, blobOf, fsLayer, served, unmounted>>
  BY ZenonT(60) DEF cacheVars, fsVars
<1>2. CachesInv' /\ LayersInv' /\ BlobsInv'
  BY <1>0, Quiet, ZenonT(60)
<1>3. TypeInv'
  BY <1>0, <1>1, ZenonT(60) DEF TypeInv
<1>4. \A b \in Actors \ {a} : SameActor(b)
  BY <1>1, PathsStay, ZenonT(60) DEF SameActor
<1>5. ControlInv'
  BY <1>0, <1>1, <1>4, OneActor, ZenonT(60)
<1> QED  BY <1>2, <1>3, <1>5, ZenonT(60) DEF Inv

-----------------------------------------------------------------------------
\* A Mount starts.
LEMMA MountStartStep ==
    ASSUME Inv, NEW m \in Mountpoints, MountStart(m)
    PROVE  Inv'
<1>0. QueueInv /\ TypeInv /\ ControlInv
  BY ZenonT(60) DEF Inv
<1>1. /\ mpc[m] = "idle" /\ mpc' = [mpc EXCEPT ![m] = "index"]
      /\ sociCtx' = IF sociCtx = "new" THEN "fetching" ELSE sociCtx
      /\ UNCHANGED <<layerOf, todo, cur, rpc, target, ref, bref, cacheVars, fsVars>>
      /\ UNCHANGED <<fsLayer, prQueue, prHand, prCache>>
  BY ZenonT(60) DEF MountStart, MountGoto, resolveVars, fsVars, prVars
<1>2. /\ mpc' \in [Mountpoints -> MountPcs]
      /\ mpc'[m] = "index" /\ \A n \in Mountpoints \ {m} : mpc'[n] = mpc[n]
  BY <1>0, <1>1, ZenonT(60) DEF TypeInv, MountPcs
<1>3. sociCtx' \in {"new", "fetching", "ready", "failed"}
  BY <1>0, <1>1, ZenonT(60) DEF QueueInv
<1>4. \A n \in Mountpoints : mpc'[n] = "store" => mpc[n] = "store"
  BY <1>2, ZenonT(60)
<1>5. QueueInv'
  BY <1>0, <1>1, <1>3, <1>4, ZenonT(60) DEF QueueInv
<1>6. m \in Actors /\ m \notin Workers
  BY Distinct, ZenonT(60)
<1>7. ResolveInv(m)'
  BY <1>0, <1>1, <1>6, ZenonT(60) DEF ControlInv, ResolveInv
<1>8. MountInv(m)'
  <2>1. rpc[m] = "idle" /\ ref[m] = NoValue /\ Unregistered(m)
    BY <1>0, <1>1, ZenonT(60) DEF ControlInv, MountInv
  <2>2. Unregistered(m)'
    BY <1>1, <2>1, PathsStay, ZenonT(60)
  <2> QED  BY <1>1, <1>2, <2>1, <2>2, ZenonT(60) DEF MountInv
<1>9. rpc' \in [Actors -> ResolvePcs] /\ target' \in [Actors -> Layers \union {NoLayer}]
  BY <1>0, <1>1, ZenonT(60) DEF TypeInv
<1> QED  BY <1>1, <1>2, <1>5, <1>6, <1>7, <1>8, <1>9, QuietStep, ZenonT(60)

\* The index was fetched.
LEMMA IndexFetchedStep ==
    ASSUME Inv, IndexFetched
    PROVE  Inv'
<1>0. QueueInv /\ TypeInv /\ CachesInv /\ ControlInv /\ LayersInv /\ BlobsInv
  BY ZenonT(60) DEF Inv
<1>1. /\ sociCtx' \in {"ready", "failed"}
      /\ UNCHANGED <<ref, bref, cacheVars, fsVars>>
      /\ UNCHANGED <<layerOf, mpc, todo, cur, rpc, target>>
      /\ UNCHANGED <<fsLayer, served, unmounted, blobOf, prQueue, prHand, prCache>>
  BY ZenonT(60) DEF IndexFetched, resolveVars, fsVars, cacheVars, prVars
<1>2. CachesInv' /\ LayersInv' /\ BlobsInv'
  BY <1>0, <1>1, Quiet, ZenonT(60)
<1>3. TypeInv'
  BY <1>0, <1>1, ZenonT(60) DEF TypeInv
<1>4. QueueInv'
  BY <1>0, <1>1, ZenonT(60) DEF QueueInv
<1>5. ControlInv'
  BY <1>0, <1>1, ZenonT(60) DEF ControlInv, ResolveInv, MountInv, Unregistered
<1> QED  BY <1>2, <1>3, <1>4, <1>5, ZenonT(60) DEF Inv

\* A Mount starts the goroutine that resolves its layer.
LEMMA MountResolveStep ==
    ASSUME Inv, NEW m \in Mountpoints, MountResolve(m)
    PROVE  Inv'
<1>0. QueueInv /\ TypeInv /\ ControlInv
  BY ZenonT(60) DEF Inv
<1>1. /\ mpc[m] = "index"
      /\ UNCHANGED <<layerOf, sociCtx, cur, ref, bref, cacheVars, fsVars>>
      /\ UNCHANGED <<fsLayer, prQueue, prHand, prCache>>
  BY ZenonT(60) DEF MountResolve, fsVars, prVars
<1>2. m \in Actors /\ m \notin Workers
  BY Distinct, ZenonT(60)
<1>3. /\ rpc[m] = "idle" /\ ref[m] = NoValue /\ bref[m] = NoValue /\ Unregistered(m)
  BY <1>0, <1>1, <1>2, ZenonT(60) DEF ControlInv, MountInv, ResolveInv
<1>4. Unregistered(m)'
  BY <1>1, <1>3, PathsStay, ZenonT(60)
<1>5. CASE mpc' = [mpc EXCEPT ![m] = "failed"] /\ UNCHANGED <<todo, rpc, target>>
  <2>1. /\ mpc' \in [Mountpoints -> MountPcs]
        /\ mpc'[m] = "failed" /\ \A n \in Mountpoints \ {m} : mpc'[n] = mpc[n]
    BY <1>0, <1>5, ZenonT(60) DEF TypeInv, MountPcs
  <2>2. QueueInv'
    <3>1. \A n \in Mountpoints : mpc'[n] = "store" => mpc[n] = "store"  BY <2>1, ZenonT(60)
    <3> QED  BY <1>0, <1>1, <1>5, <3>1, ZenonT(60) DEF QueueInv
  <2>3. ResolveInv(m)'
    BY <1>0, <1>1, <1>2, <1>5, ZenonT(60) DEF ControlInv, ResolveInv
  <2>4. MountInv(m)'
    BY <1>1, <1>3, <1>5, <2>1, ZenonT(60) DEF MountInv
  <2>5. rpc' \in [Actors -> ResolvePcs] /\ target' \in [Actors -> Layers \union {NoLayer}]
    BY <1>0, <1>5, ZenonT(60) DEF TypeInv
  <2> QED  BY <1>1, <1>2, <1>5, <2>1, <2>2, <2>3, <2>4, <2>5, QuietStep, ZenonT(60)
<1>6. CASE ~(mpc' = [mpc EXCEPT ![m] = "failed"] /\ UNCHANGED <<todo, rpc, target>>)
  <2>1. PICK pc \in {"lock", "deliver"} : rpc' = [rpc EXCEPT ![m] = pc]
    BY <1>6, ZenonT(60) DEF MountResolve, MountGoto, Goto
  <2>2. /\ mpc' = [mpc EXCEPT ![m] = "enqueue"]
        /\ todo' = [todo EXCEPT ![m] = Indexed \ {layerOf[m]}]
        /\ target' = [target EXCEPT ![m] = layerOf[m]]
    BY <1>6, ZenonT(60) DEF MountResolve, MountGoto
  <2>3. /\ mpc' \in [Mountpoints -> MountPcs]
        /\ mpc'[m] = "enqueue" /\ \A n \in Mountpoints \ {m} : mpc'[n] = mpc[n]
    BY <1>0, <2>2, ZenonT(60) DEF TypeInv, MountPcs
  <2>4. /\ rpc' \in [Actors -> ResolvePcs] /\ rpc'[m] = pc
        /\ \A b \in Actors \ {m} : rpc'[b] = rpc[b]
    BY <1>0, <1>2, <2>1, ZenonT(60) DEF TypeInv, ResolvePcs
  <2>5. layerOf[m] \in Layers
    BY <1>0, ZenonT(60) DEF QueueInv
  <2>6. /\ target' \in [Actors -> Layers \union {NoLayer}] /\ target'[m] \in Layers
        /\ \A b \in Actors \ {m} : target'[b] = target[b]
    BY <1>0, <1>2, <2>2, <2>5, ZenonT(60) DEF TypeInv
  <2>7. todo' \in [Mountpoints -> SUBSET Indexed]
    BY <1>0, <2>2, ZenonT(60) DEF QueueInv
  <2>8. QueueInv'
    <3>1. \A n \in Mountpoints : mpc'[n] = "store" => mpc[n] = "store"  BY <2>3, ZenonT(60)
    <3> QED  BY <1>0, <1>1, <2>7, <3>1, ZenonT(60) DEF QueueInv
  <2>9. ResolveInv(m)'
    BY <1>1, <1>3, <2>1, <2>4, <2>6, ZenonT(60) DEF ResolveInv
  <2>10. MountInv(m)'
    BY <1>4, <2>1, <2>3, <2>4, ZenonT(60) DEF MountInv
  <2> QED  BY <1>1, <1>2, <2>3, <2>4, <2>6, <2>8, <2>9, <2>10, QuietStep, ZenonT(60)
<1> QED  BY <1>5, <1>6, ZenonT(60)


\* A Mount goes on while its goroutine resolves the layer.
LEMMA WaitingStep ==
    ASSUME Inv, NEW m \in Mountpoints, QueueInv',
           UNCHANGED <<rpc, target, ref, bref, cacheVars, fsVars>>,
           mpc' \in [Mountpoints -> MountPcs],
           \A n \in Mountpoints \ {m} : mpc'[n] = mpc[n],
           mpc[m] \in {"enqueue", "store", "wait", "timedout"},
           mpc'[m] \in {"enqueue", "store", "wait", "timedout"}
    PROVE  Inv'
<1>0. TypeInv /\ ControlInv
  BY ZenonT(60) DEF Inv
<1>1. m \in Actors /\ m \notin Workers
  BY Distinct, ZenonT(60)
<1>2. ResolveInv(m)'
  BY <1>0, <1>1, ZenonT(60) DEF ControlInv, ResolveInv
<1>3. rpc[m] \in {"lock", "blob", "layer", "deliver"} /\ Unregistered(m)
  BY <1>0, ZenonT(60) DEF ControlInv, MountInv
<1>4. UNCHANGED fsLayer
  BY ZenonT(60) DEF fsVars
<1>5. Unregistered(m)'
  BY <1>3, <1>4, PathsStay, ZenonT(60)
<1>6. MountInv(m)'
  BY <1>3, <1>5, ZenonT(60) DEF MountInv
<1>7. rpc' \in [Actors -> ResolvePcs] /\ target' \in [Actors -> Layers \union {NoLayer}]
  BY <1>0, ZenonT(60) DEF TypeInv
<1> QED  BY <1>1, <1>2, <1>6, <1>7, QuietStep, ZenonT(60)

\* A Mount sends the function of another layer to the preresolver, or drops it.
LEMMA EnqueueSendStep ==
    ASSUME Inv, NEW m \in Mountpoints, EnqueueSend(m)
    PROVE  Inv'
<1>0. QueueInv /\ TypeInv
  BY ZenonT(60) DEF Inv
<1>1. /\ mpc[m] = "enqueue"
      /\ UNCHANGED <<rpc, target, ref, bref, cacheVars, fsVars>>
      /\ UNCHANGED <<layerOf, sociCtx, prHand, prCache>>
  BY ZenonT(60) DEF EnqueueSend, resolveVars
<1>2. CASE UNCHANGED <<cur, prQueue>>
  <2>1. todo' \in [Mountpoints -> SUBSET Indexed]
    <3>1. CASE UNCHANGED todo
      BY <1>0, <3>1, ZenonT(60) DEF QueueInv
    <3>2. CASE \E n \in todo[m] : todo' = [todo EXCEPT ![m] = @ \ {n}]
      BY <1>0, <3>2, ZenonT(60) DEF QueueInv
    <3> QED  BY <3>1, <3>2, ZenonT(60) DEF EnqueueSend
  <2>2. mpc' = mpc \/ mpc' = [mpc EXCEPT ![m] = "wait"] \/ mpc' = [mpc EXCEPT ![m] = "store"]
    BY ZenonT(60) DEF EnqueueSend, MountGoto
  <2>3. mpc' # [mpc EXCEPT ![m] = "store"]
    <3>1. \/ mpc' = mpc \/ mpc' = [mpc EXCEPT ![m] = "wait"]
          \/ \E n \in todo[m] : prQueue' = Append(prQueue, n)
      BY ZenonT(60) DEF EnqueueSend, MountGoto
    <3>2. ~ \E n \in todo[m] : prQueue' = Append(prQueue, n)
      BY <1>0, <1>2, SMTT(60), Z3T(60) DEF QueueInv
    <3>3. mpc' = mpc \/ mpc' = [mpc EXCEPT ![m] = "wait"]
      BY <3>1, <3>2, ZenonT(60)
    <3> QED  BY <1>0, <1>1, <3>3, ZenonT(60) DEF TypeInv
  <2>4. /\ mpc' \in [Mountpoints -> MountPcs] /\ mpc'[m] \in {"enqueue", "wait"}
        /\ \A n \in Mountpoints \ {m} : mpc'[n] = mpc[n]
    BY <1>0, <1>1, <2>2, <2>3, ZenonT(60) DEF TypeInv, MountPcs
  <2>5. \A n \in Mountpoints : mpc'[n] = "store" => mpc[n] = "store"
    BY <2>4, ZenonT(60)
  <2>6. QueueInv'
    BY <1>0, <1>1, <1>2, <2>1, <2>5, ZenonT(60) DEF QueueInv
  <2> QED  BY <1>1, <2>4, <2>6, WaitingStep, ZenonT(60)
<1>3. CASE ~UNCHANGED <<cur, prQueue>>
  <2>1. PICK n \in todo[m] :
           /\ todo' = [todo EXCEPT ![m] = @ \ {n}] /\ ~(Len(prQueue) >= QueueSize)
           /\ prQueue' = Append(prQueue, n) /\ cur' = [cur EXCEPT ![m] = n]
           /\ mpc' = [mpc EXCEPT ![m] = "store"]
    BY <1>3, ZenonT(60) DEF EnqueueSend, MountGoto
  <2>2. /\ mpc' \in [Mountpoints -> MountPcs] /\ mpc'[m] = "store"
        /\ \A k \in Mountpoints \ {m} : mpc'[k] = mpc[k]
    BY <1>0, <2>1, ZenonT(60) DEF TypeInv, MountPcs
  <2>3. n \in Indexed /\ n \in Layers
    BY <1>0, LazyMountsAssumption, ZenonT(60) DEF QueueInv, Layers
  <2>4. todo' \in [Mountpoints -> SUBSET Indexed]
    BY <1>0, <2>1, ZenonT(60) DEF QueueInv
  <2>5. /\ cur' \in [Mountpoints -> Layers \union {NoLayer}]
        /\ cur'[m] = n /\ \A k \in Mountpoints \ {m} : cur'[k] = cur[k]
    BY <1>0, <2>1, <2>3, ZenonT(60) DEF QueueInv
  <2>6. prQueue' \in Seq(Indexed) /\ Len(prQueue') <= QueueSize
    BY <1>0, <2>1, <2>3, LazyMountsAssumption, SMTT(60), Z3T(60) DEF QueueInv
  <2>7. \A k \in Mountpoints : mpc'[k] = "store" => cur'[k] \in Indexed
    BY <1>0, <2>2, <2>3, <2>5, ZenonT(60) DEF QueueInv
  <2>8. QueueInv'
    BY <1>0, <1>1, <2>4, <2>5, <2>6, <2>7, ZenonT(60) DEF QueueInv
  <2> QED  BY <1>1, <2>2, <2>8, WaitingStep, ZenonT(60)
<1> QED  BY <1>2, <1>3, ZenonT(60)

\* The key of a function that was sent is stored.
LEMMA EnqueueStoreStep ==
    ASSUME Inv, NEW m \in Mountpoints, EnqueueStore(m)
    PROVE  Inv'
<1>0. QueueInv /\ TypeInv
  BY ZenonT(60) DEF Inv
<1>1. /\ mpc[m] = "store" /\ mpc' = [mpc EXCEPT ![m] = "enqueue"]
      /\ prCache' = prCache \union {cur[m]} /\ cur' = [cur EXCEPT ![m] = NoLayer]
      /\ UNCHANGED <<rpc, target, ref, bref, cacheVars, fsVars>>
      /\ UNCHANGED <<layerOf, sociCtx, todo, prQueue, prHand>>
  BY ZenonT(60) DEF EnqueueStore, MountGoto, resolveVars
<1>2. /\ mpc' \in [Mountpoints -> MountPcs] /\ mpc'[m] = "enqueue"
      /\ \A k \in Mountpoints \ {m} : mpc'[k] = mpc[k]
  BY <1>0, <1>1, ZenonT(60) DEF TypeInv, MountPcs
<1>3. /\ cur' \in [Mountpoints -> Layers \union {NoLayer}]
      /\ \A k \in Mountpoints \ {m} : cur'[k] = cur[k]
  BY <1>0, <1>1, ZenonT(60) DEF QueueInv
<1>4. prCache' \subseteq Indexed
  BY <1>0, <1>1, ZenonT(60) DEF QueueInv
<1>5. \A k \in Mountpoints : mpc'[k] = "store" => cur'[k] \in Indexed
  BY <1>0, <1>2, <1>3, ZenonT(60) DEF QueueInv
<1>6. QueueInv'
  BY <1>0, <1>1, <1>3, <1>4, <1>5, ZenonT(60) DEF QueueInv
<1> QED  BY <1>1, <1>2, <1>6, WaitingStep, ZenonT(60)

\* The mount timeout: the goroutine stays behind.
LEMMA MountTimeoutStep ==
    ASSUME Inv, NEW m \in Mountpoints, MountTimeout(m)
    PROVE  Inv'
<1>0. QueueInv /\ TypeInv
  BY ZenonT(60) DEF Inv
<1>1. /\ mpc[m] = "wait" /\ mpc' = [mpc EXCEPT ![m] = "timedout"]
      /\ UNCHANGED <<rpc, target, ref, bref, cacheVars, fsVars>>
      /\ UNCHANGED <<layerOf, sociCtx, todo, cur, prVars>>
  BY ZenonT(60) DEF MountTimeout, MountGoto, resolveVars
<1>2. /\ mpc' \in [Mountpoints -> MountPcs] /\ mpc'[m] = "timedout"
      /\ \A k \in Mountpoints \ {m} : mpc'[k] = mpc[k]
  BY <1>0, <1>1, ZenonT(60) DEF TypeInv, MountPcs
<1>3. \A n \in Mountpoints : mpc'[n] = "store" => mpc[n] = "store"
  BY <1>2, ZenonT(60)
<1>4. QueueInv'
  BY <1>0, <1>1, <1>3, QueueStays, ZenonT(60)
<1> QED  BY <1>1, <1>2, <1>4, WaitingStep, ZenonT(60)


\* A Mount receives the layer of its goroutine, or its error.
LEMMA MountReceiveStep ==
    ASSUME Inv, NEW m \in Mountpoints, MountReceive(m)
    PROVE  Inv'
<1>0. QueueInv /\ TypeInv /\ ControlInv
  BY ZenonT(60) DEF Inv
<1>1. /\ mpc[m] = "wait" /\ rpc[m] = "deliver" /\ rpc' = [rpc EXCEPT ![m] = "idle"]
      /\ mpc' = [mpc EXCEPT ![m] = IF ref[m] = NoValue THEN "failed" ELSE "node"]
      /\ UNCHANGED <<target, ref, bref, cacheVars, fsVars>>
      /\ UNCHANGED <<layerOf, sociCtx, todo, cur, prVars>> /\ UNCHANGED fsLayer
  BY ZenonT(60) DEF MountReceive, MountGoto, Goto, fsVars
<1>2. m \in Actors /\ m \notin Workers
  BY Distinct, ZenonT(60)
<1>3. /\ mpc' \in [Mountpoints -> MountPcs]
      /\ mpc'[m] = IF ref[m] = NoValue THEN "failed" ELSE "node"
      /\ \A k \in Mountpoints \ {m} : mpc'[k] = mpc[k]
  BY <1>0, <1>1, ZenonT(60) DEF TypeInv, MountPcs
<1>4. /\ rpc' \in [Actors -> ResolvePcs] /\ rpc'[m] = "idle"
      /\ \A b \in Actors \ {m} : rpc'[b] = rpc[b]
  BY <1>0, <1>1, <1>2, ZenonT(60) DEF TypeInv, ResolvePcs
<1>5. \A n \in Mountpoints : mpc'[n] = "store" => mpc[n] = "store"
  BY <1>3, ZenonT(60)
<1>6. QueueInv'
  BY <1>0, <1>1, <1>5, QueueStays, ZenonT(60)
<1>7. bref[m] = NoValue /\ Unregistered(m)
  BY <1>0, <1>1, <1>2, ZenonT(60) DEF ControlInv, ResolveInv, MountInv
<1>8. Unregistered(m)'
  BY <1>1, <1>7, PathsStay, ZenonT(60)
<1>9. ResolveInv(m)'
  BY <1>1, <1>4, <1>7, ZenonT(60) DEF ResolveInv
<1>10. MountInv(m)'
  BY <1>1, <1>3, <1>4, <1>8, ZenonT(60) DEF MountInv
<1>11. target' \in [Actors -> Layers \union {NoLayer}]
  BY <1>0, <1>1, ZenonT(60) DEF TypeInv
<1> QED  BY <1>1, <1>2, <1>3, <1>4, <1>6, <1>9, <1>10, <1>11, QuietStep, ZenonT(60)

\* The preresolver takes a function from its queue.
LEMMA PrTakeStep ==
    ASSUME Inv, PrTake
    PROVE  Inv'
<1>0. QueueInv /\ TypeInv /\ CachesInv /\ ControlInv /\ LayersInv /\ BlobsInv
  BY ZenonT(60) DEF Inv
<1>1. /\ prQueue # <<>> /\ prHand' = Head(prQueue) /\ prQueue' = Tail(prQueue)
      /\ UNCHANGED <<ref, bref, cacheVars, fsVars>>
      /\ UNCHANGED <<layerOf, sociCtx, mpc, todo, cur, rpc, target>>
      /\ UNCHANGED <<fsLayer, served, unmounted, blobOf, prCache>>
  BY ZenonT(60) DEF PrTake, resolveVars, fsVars, cacheVars, mountVars
<1>2. CachesInv' /\ LayersInv' /\ BlobsInv'
  BY <1>0, <1>1, Quiet, ZenonT(60)
<1>3. TypeInv'
  BY <1>0, <1>1, ZenonT(60) DEF TypeInv
<1>4. /\ prQueue' \in Seq(Indexed) /\ Len(prQueue') <= QueueSize
      /\ prHand' \in Indexed \union {NoLayer}
  <2>1. /\ prQueue \in Seq(Indexed) /\ Len(prQueue) <= QueueSize
        /\ prQueue # <<>> /\ QueueSize \in Nat
    BY <1>0, <1>1, LazyMountsAssumption, ZenonT(60) DEF QueueInv
  <2>2. /\ Tail(prQueue) \in Seq(Indexed) /\ Len(Tail(prQueue)) <= QueueSize
        /\ Head(prQueue) \in Indexed
    BY <2>1, SMTT(60), Z3T(60)
  <2> QED  BY <1>1, <2>2, ZenonT(60)
<1>5. QueueInv'
  BY <1>0, <1>1, <1>4, ZenonT(60) DEF QueueInv
<1>6. ControlInv'
  BY <1>0, <1>1, ZenonT(60) DEF ControlInv, ResolveInv, MountInv, Unregistered
<1> QED  BY <1>2, <1>3, <1>5, <1>6, ZenonT(60) DEF Inv

\* A preresolver goroutine starts.
LEMMA PrStartStep ==
    ASSUME Inv, NEW w \in Workers, PrStart(w)
    PROVE  Inv'
<1>0. QueueInv /\ TypeInv /\ ControlInv
  BY ZenonT(60) DEF Inv
<1>1. /\ prHand # NoLayer /\ rpc[w] = "idle" /\ rpc' = [rpc EXCEPT ![w] = "lock"]
      /\ target' = [target EXCEPT ![w] = prHand] /\ prHand' = NoLayer
      /\ UNCHANGED <<ref, bref, cacheVars, fsVars>>
      /\ UNCHANGED <<layerOf, sociCtx, mpc, todo, cur, prQueue, prCache>>
  BY ZenonT(60) DEF PrStart, Goto, mountVars
<1>2. w \in Actors /\ w \notin Mountpoints
  BY Distinct, ZenonT(60)
<1>3. prHand \in Layers
  BY <1>0, <1>1, LazyMountsAssumption, ZenonT(60) DEF QueueInv, Layers
<1>4. /\ rpc' \in [Actors -> ResolvePcs] /\ rpc'[w] = "lock"
      /\ target' \in [Actors -> Layers \union {NoLayer}] /\ target'[w] \in Layers
      /\ \A b \in Actors \ {w} : rpc'[b] = rpc[b] /\ target'[b] = target[b]
  BY <1>0, <1>1, <1>2, <1>3, ZenonT(60) DEF TypeInv, ResolvePcs
<1>5. ref[w] = NoValue /\ bref[w] = NoValue
  BY <1>0, <1>1, <1>2, ZenonT(60) DEF ControlInv, ResolveInv
<1>6. ResolveInv(w)'
  BY <1>1, <1>4, <1>5, ZenonT(60) DEF ResolveInv
<1>7. prHand' \in Indexed \union {NoLayer}
  BY <1>1, ZenonT(60)
<1>8. QueueInv'
  BY <1>0, <1>1, <1>7, ZenonT(60) DEF QueueInv
<1>9. mpc' \in [Mountpoints -> MountPcs]
  BY <1>0, <1>1, ZenonT(60) DEF TypeInv
<1> QED  BY <1>1, <1>2, <1>4, <1>5, <1>6, <1>8, <1>9, QuietStep, ZenonT(60)

\* A preresolver goroutine ends.
LEMMA PrForgetStep ==
    ASSUME Inv, NEW w \in Workers, PrForget(w)
    PROVE  Inv'
<1>0. QueueInv /\ TypeInv /\ ControlInv
  BY ZenonT(60) DEF Inv
<1>1. /\ rpc[w] = "forget" /\ rpc' = [rpc EXCEPT ![w] = "idle"]
      /\ target' = [target EXCEPT ![w] = NoLayer] /\ prCache' = prCache \ {target[w]}
      /\ UNCHANGED <<ref, bref, cacheVars, fsVars>>
      /\ UNCHANGED <<layerOf, sociCtx, mpc, todo, cur, prQueue, prHand>>
  BY ZenonT(60) DEF PrForget, Goto, mountVars
<1>2. w \in Actors /\ w \notin Mountpoints
  BY Distinct, ZenonT(60)
<1>4. /\ rpc' \in [Actors -> ResolvePcs] /\ rpc'[w] = "idle"
      /\ target' \in [Actors -> Layers \union {NoLayer}]
      /\ \A b \in Actors \ {w} : rpc'[b] = rpc[b] /\ target'[b] = target[b]
  BY <1>0, <1>1, <1>2, ZenonT(60) DEF TypeInv, ResolvePcs
<1>5. ref[w] = NoValue /\ bref[w] = NoValue
  BY <1>0, <1>1, <1>2, ZenonT(60) DEF ControlInv, ResolveInv
<1>6. ResolveInv(w)'
  BY <1>1, <1>4, <1>5, ZenonT(60) DEF ResolveInv
<1>7. prCache' \subseteq Indexed
  BY <1>0, <1>1, ZenonT(60) DEF QueueInv
<1>8. QueueInv'
  BY <1>0, <1>1, <1>7, ZenonT(60) DEF QueueInv
<1>9. mpc' \in [Mountpoints -> MountPcs]
  BY <1>0, <1>1, ZenonT(60) DEF TypeInv
<1> QED  BY <1>1, <1>2, <1>4, <1>5, <1>6, <1>8, <1>9, QuietStep, ZenonT(60)


-----------------------------------------------------------------------------
(* The steps of Resolve.                                                   *)

\* How the referrers of a cache may change.
Gains(c, d, v, h) ==
    /\ Holders(d, v) = Holders(c, v) \union {h}
    /\ \A w \in Values : w # v => Holders(d, w) = Holders(c, w)
Loses(c, d, v, h) ==
    /\ Holders(d, v) = Holders(c, v) \ {h}
    /\ \A w \in Values : w # v => Holders(d, w) = Holders(c, w)
SameHolders(c, d) == \A w \in Values : Holders(d, w) = Holders(c, w)
SameAlive(c, d) == \A w \in Values : Alive(d, w) <=> Alive(c, w)
Shrinks(c, d) == \A w \in Values : d.refs[w] \subseteq c.refs[w]

\* What Use, Done, Evict and Insert do to the referrers.
LEMMA UseHolders ==
    ASSUME NEW c, NEW H, GoodCache(c, Values, H, MaxResults),
           NEW v \in Cached(c), NEW h \in H, h # CacheRef
    PROVE  /\ GoodCache(Use(c, v, h), Values, H, MaxResults)
           /\ v \in Values /\ Gains(c, Use(c, v, h), v, h) /\ SameAlive(c, Use(c, v, h))
<1>0. PICK d : d = Use(c, v, h)
  BY ZenonT(60)
<1>1. /\ GoodCache(d, Values, H, MaxResults)
      /\ d.refs = [c.refs EXCEPT ![v] = @ \union {h}]
  <2>1. /\ GoodCache(Use(c, v, h), Values, H, MaxResults)
        /\ Use(c, v, h).refs = [c.refs EXCEPT ![v] = @ \union {h}]
    <3>1. GoodCache(Use(c, v, h), Values, H, MaxResults)
      BY UseFacts, ZenonT(60)
    <3>2. Use(c, v, h).refs = [c.refs EXCEPT ![v] = @ \union {h}]
      BY ZenonT(60) DEF Use
    <3> QED  BY <3>1, <3>2, ZenonT(60)
  <2> QED  BY <1>0, <2>1, ZenonT(60)
<1>2. IsCache(c, Values, H) /\ CacheOK(c, MaxResults)
  BY ZenonT(60) DEF GoodCache
<1>3. v \in Values /\ c.refs \in [Values -> SUBSET H]
  BY <1>2, Parts, ZenonT(60)
<1>4. CacheRef \in c.refs[v]
  BY <1>2, <1>3, ZenonT(60) DEF CacheOK
<1>5. d.refs[v] = c.refs[v] \union {h} /\ \A w \in Values : w # v => d.refs[w] = c.refs[w]
  BY <1>1, <1>3, ZenonT(60)
<1>6. Gains(c, d, v, h)
  BY <1>5, ZenonT(60) DEF Gains, Holders
<1>7. \A w \in Values : d.refs[w] # {} <=> c.refs[w] # {}
  BY <1>4, <1>5, ZenonT(60)
<1>8. SameAlive(c, d)
  BY <1>7, AliveIs, ZenonT(60) DEF SameAlive
<1> QED  BY <1>0, <1>1, <1>3, <1>6, <1>8, ZenonT(60)

\* A done callback takes one referrer away.
LEMMA DoneHolders ==
    ASSUME NEW c, NEW H, GoodCache(c, Values, H, MaxResults),
           NEW v \in Values, NEW h, h # CacheRef
    PROVE  /\ GoodCache(Done(c, v, h), Values, H, MaxResults)
           /\ Loses(c, Done(c, v, h), v, h) /\ Shrinks(c, Done(c, v, h))
<1>0. PICK d : d = Done(c, v, h)
  BY ZenonT(60)
<1>1. /\ GoodCache(d, Values, H, MaxResults)
      /\ d.refs = [c.refs EXCEPT ![v] = @ \ {h}]
  <2>1. /\ GoodCache(Done(c, v, h), Values, H, MaxResults)
        /\ Done(c, v, h).refs = [c.refs EXCEPT ![v] = @ \ {h}]
    <3>1. GoodCache(Done(c, v, h), Values, H, MaxResults)
      BY DoneFacts, ZenonT(60)
    <3>2. Done(c, v, h).refs = [c.refs EXCEPT ![v] = @ \ {h}]
      BY ZenonT(60) DEF Done
    <3> QED  BY <3>1, <3>2, ZenonT(60)
  <2> QED  BY <1>0, <2>1, ZenonT(60)
<1>2. IsCache(c, Values, H)
  BY ZenonT(60) DEF GoodCache
<1>3. c.refs \in [Values -> SUBSET H]
  BY <1>2, Parts, ZenonT(60)
<1>5. d.refs[v] = c.refs[v] \ {h} /\ \A w \in Values : w # v => d.refs[w] = c.refs[w]
  BY <1>1, <1>3, ZenonT(60)
<1>6. Loses(c, d, v, h)
  BY <1>5, ZenonT(60) DEF Loses, Holders
<1>7. Shrinks(c, d)
  BY <1>5, ZenonT(60) DEF Shrinks
<1> QED  BY <1>0, <1>1, <1>6, <1>7, ZenonT(60)

\* Remove takes away only the cache's own reference.
LEMMA EvictHolders ==
    ASSUME NEW c, NEW H, GoodCache(c, Values, H, MaxResults), NEW k
    PROVE  /\ GoodCache(Evict(c, k), Values, H, MaxResults)
           /\ SameHolders(c, Evict(c, k)) /\ Shrinks(c, Evict(c, k))
           /\ \A w \in Cached(Evict(c, k)) : Key(w) # k
<1>1. NoValue \notin Values /\ MaxResults \in Nat
  BY Distinct, ZenonT(60)
<1>2. /\ GoodCache(Evict(c, k), Values, H, MaxResults)
      /\ \A v \in Cached(Evict(c, k)) : Key(v) # k
      /\ Evicted(c, Evict(c, k), Values)
  BY <1>1, EvictFacts, ZenonT(60)
<1> QED  BY <1>2, ZenonT(60) DEF SameHolders, Shrinks, Evicted

\* A value that nobody refers to is added.
LEMMA InsertHolders ==
    ASSUME NEW c, NEW H, GoodCache(c, Values, H, MaxResults), NEW v \in Values,
           ~Alive(c, v), \A w \in Cached(c) : Key(w) # Key(v),
           NEW h \in H, h # CacheRef, CacheRef \in H
    PROVE  LET d == Insert(c, v, h, MaxResults)
           IN  /\ GoodCache(d, Values, H, MaxResults)
               /\ Gains(c, d, v, h) /\ Alive(d, v)
               /\ \A w \in Values : w # v => d.refs[w] \subseteq c.refs[w]
<1>0. PICK d : d = Insert(c, v, h, MaxResults)
  BY ZenonT(60)
<1>1. MaxResults \in Nat
  BY Distinct, ZenonT(60)
<1>2. /\ GoodCache(d, Values, H, MaxResults)
      /\ d.refs[v] = {CacheRef, h}
      /\ \A w \in Values : w # v => /\ d.refs[w] \subseteq c.refs[w]
                                   /\ Holders(d, w) = Holders(c, w)
  <2>1. /\ GoodCache(Insert(c, v, h, MaxResults), Values, H, MaxResults)
        /\ Inserted(c, Insert(c, v, h, MaxResults), Values, v, h)
    BY <1>1, InsertFacts, ZenonT(60)
  <2> QED  BY <1>0, <2>1, ZenonT(60) DEF Inserted
<1>3. c.refs[v] = {}
  BY AliveIs, ZenonT(60)
<1>4. Gains(c, d, v, h)
  BY <1>2, <1>3, ZenonT(60) DEF Gains, Holders
<1>5. Alive(d, v)
  BY <1>2, AliveIs, ZenonT(60)
<1> QED  BY <1>0, <1>2, <1>4, <1>5, ZenonT(60)

\* A goroutine runs only while its Mount waits.
LEMMA RunningMount ==
    ASSUME TypeInv, ControlInv, NEW m \in Mountpoints, rpc[m] # "idle"
    PROVE  /\ mpc[m] \in {"enqueue", "store", "wait", "timedout"}
           /\ Unregistered(m)
<1>1. mpc[m] \in MountPcs /\ MountInv(m)
  BY ZenonT(60) DEF TypeInv, ControlInv
<1> QED  BY <1>1, ZenonT(60) DEF MountInv, MountPcs

\* A goroutine that runs and has no layer holds none.
LEMMA HoldsNothing ==
    ASSUME TypeInv, ControlInv, LayersInv, NEW a \in Actors, rpc[a] # "idle",
           ref[a] = NoValue, NEW l \in Values
    PROVE  a \notin Holders(layerCache, l)
<1>1. SUFFICES ASSUME a \in Holders(layerCache, l)  PROVE FALSE
  BY ZenonT(60)
<1>2. ref[a] # l
  BY Distinct, ZenonT(60)
<1>3. a \in Mountpoints /\ fsLayer[BasePath(a)] = <<l, a>>
  BY <1>1, <1>2, ZenonT(60) DEF LayersInv, HoldersOwn
<1>4. fsLayer[BasePath(a)] = NotRegistered
  BY <1>3, RunningMount, ZenonT(60) DEF Unregistered
<1>5. <<l, a>> \in Values \X Mountpoints
  BY <1>3, ZenonT(60)
<1> QED  BY <1>3, <1>4, <1>5, Distinct, ZenonT(60)

\* A step of Resolve, or of the function that called it.
LEMMA ResolveFrame ==
    ASSUME Inv, NEW a \in Actors, NEW pc \in {"blob", "layer", "deliver", "forget"},
           a \in Mountpoints => pc # "forget", rpc[a] # "idle",
           rpc' = [rpc EXCEPT ![a] = pc], UNCHANGED <<mountVars, target, fsVars, prVars>>,
           ref' \in [Actors -> Values \union {NoValue}],
           bref' \in [Actors -> Values \union {NoValue}],
           blobOf' \in [Values -> Values \union {NoValue}],
           \A b \in Actors \ {a} : ref'[b] = ref[b] /\ bref'[b] = bref[b],
           pc # "deliver" => ref'[a] = NoValue,
           pc = "layer" <=> bref'[a] # NoValue, pc \in {"blob", "layer"} => target[a] \in Layers,
           CachesInv', LayersInv', BlobsInv'
    PROVE  Inv'
<1>0. QueueInv /\ TypeInv /\ ControlInv
  BY ZenonT(60) DEF Inv
<1>1. UNCHANGED <<layerOf, sociCtx, mpc, todo, cur, fsLayer, served, unmounted, prVars>>
  BY ZenonT(60) DEF mountVars, fsVars
<1>2. /\ rpc' \in [Actors -> ResolvePcs] /\ rpc'[a] = pc
      /\ \A b \in Actors \ {a} : rpc'[b] = rpc[b]
  BY <1>0, ZenonT(60) DEF TypeInv, ResolvePcs
<1>3. TypeInv'
  BY <1>0, <1>1, <1>2, ZenonT(60) DEF TypeInv
<1>4. QueueInv'
  BY <1>0, <1>1, QueueStays, ZenonT(60)
<1>5. ResolveInv(a)'
  BY <1>2, ZenonT(60) DEF ResolveInv
<1>6. ASSUME a \in Mountpoints  PROVE MountInv(a)'
  <2>1. mpc[a] \in {"enqueue", "store", "wait", "timedout"} /\ Unregistered(a)
    BY <1>0, <1>6, RunningMount, ZenonT(60)
  <2>2. Unregistered(a)'
    BY <1>1, <1>6, <2>1, PathsStay, ZenonT(60)
  <2>3. rpc'[a] \in {"blob", "layer", "deliver"}
    BY <1>2, <1>6, ZenonT(60)
  <2> QED  BY <1>1, <2>1, <2>2, <2>3, ZenonT(60) DEF MountInv
<1>7. rpc'[a] # "idle"
  BY <1>2, ZenonT(60)
<1>8. \A b \in Actors \ {a} : SameActor(b)
  BY <1>1, <1>2, PathsStay, ZenonT(60) DEF SameActor
<1>9. ControlInv'
  BY <1>0, <1>5, <1>6, <1>7, <1>8, OneActor, ZenonT(60)
<1> QED  BY <1>3, <1>4, <1>9, ZenonT(60) DEF Inv


\* What a goroutine may rely on while it runs.
LEMMA Running ==
    ASSUME Inv, NEW a \in Actors, rpc[a] \in {"lock", "blob", "layer"}
    PROVE  /\ QueueInv /\ TypeInv /\ CachesInv /\ ControlInv /\ LayersInv /\ BlobsInv
           /\ ref[a] = NoValue /\ target[a] \in Layers
           /\ rpc[a] = "layer" <=> bref[a] # NoValue
           /\ a # CacheRef /\ a \in LayerHolders /\ a \in BlobHolders
           /\ GoodCache(layerCache, Values, LayerHolders, MaxResults)
           /\ GoodCache(blobCache, Values, BlobHolders, MaxResults)
           /\ IsCache(layerCache, Values, LayerHolders)
           /\ IsCache(blobCache, Values, BlobHolders)
<1>1. QueueInv /\ TypeInv /\ CachesInv /\ ControlInv /\ LayersInv /\ BlobsInv
  BY ZenonT(60) DEF Inv
<1>2. /\ ref[a] = NoValue /\ target[a] \in Layers
      /\ rpc[a] = "layer" <=> bref[a] # NoValue
  BY <1>1, ZenonT(60) DEF ControlInv, ResolveInv
<1>3. a # CacheRef /\ a \in LayerHolders /\ a \in BlobHolders
  BY Distinct, ZenonT(60) DEF LayerHolders, BlobHolders
<1>4. /\ GoodCache(layerCache, Values, LayerHolders, MaxResults)
      /\ GoodCache(blobCache, Values, BlobHolders, MaxResults)
      /\ IsCache(layerCache, Values, LayerHolders)
      /\ IsCache(blobCache, Values, BlobHolders)
  BY <1>1, ZenonT(60) DEF CachesInv, GoodCache
<1> QED  BY <1>1, <1>2, <1>3, <1>4, ZenonT(60)

\* A goroutine takes its layer from the cache, or finds none that it can use.
LEMMA ResolveGetStep ==
    ASSUME Inv, NEW a \in Actors, ResolveGet(a)
    PROVE  Inv'
<1>1. rpc[a] = "lock" /\ UNCHANGED <<mountVars, target, bref, fsVars, prVars>>
  BY ZenonT(60) DEF ResolveGet
<1>2. /\ TypeInv /\ CachesInv /\ ControlInv /\ LayersInv /\ BlobsInv
      /\ ref[a] = NoValue /\ target[a] \in Layers /\ bref[a] = NoValue
      /\ a # CacheRef /\ a \in LayerHolders
      /\ GoodCache(layerCache, Values, LayerHolders, MaxResults)
      /\ IsCache(layerCache, Values, LayerHolders)
  BY <1>1, Running, ZenonT(60)
<1>3. /\ ref \in [Actors -> Values \union {NoValue}]
      /\ bref' \in [Actors -> Values \union {NoValue}]
      /\ blobOf \in [Values -> Values \union {NoValue}]
      /\ bref'[a] = NoValue /\ \A b \in Actors \ {a} : bref'[b] = bref[b]
  BY <1>1, <1>2, ZenonT(60) DEF TypeInv
<1>4. CASE rpc' = [rpc EXCEPT ![a] = "blob"] /\ UNCHANGED <<ref, cacheVars>>
  <2>1. CachesInv' /\ LayersInv' /\ BlobsInv'
    BY <1>1, <1>2, <1>4, Quiet, ZenonT(60)
  <2>2. /\ ref' \in [Actors -> Values \union {NoValue}] /\ ref'[a] = NoValue
        /\ blobOf' \in [Values -> Values \union {NoValue}]
        /\ \A b \in Actors \ {a} : ref'[b] = ref[b]
    BY <1>2, <1>3, <1>4, ZenonT(60) DEF cacheVars
  <2> QED  BY <1>1, <1>2, <1>3, <1>4, <2>1, <2>2, ResolveFrame, ZenonT(60)
<1> DEFINE l == Find(layerCache, target[a])
           used == Use(layerCache, l, a)
           gone == Evict(Done(used, l, a), target[a])
<1>5. l # NoValue => l \in Cached(layerCache) /\ l \in Values
  BY <1>2, Distinct, FindFacts, ZenonT(60)
<1>6. CASE /\ l # NoValue /\ layerCache' = used /\ ref' = [ref EXCEPT ![a] = l]
           /\ rpc' = [rpc EXCEPT ![a] = "deliver"] /\ UNCHANGED <<blobCache, blobOf>>
  <2>1. l \in Cached(layerCache) /\ l \in Values
    BY <1>5, <1>6, ZenonT(60)
  <2>2. PICK d : d = used
    BY ZenonT(60)
  <2>3. /\ GoodCache(d, Values, LayerHolders, MaxResults)
        /\ Gains(layerCache, d, l, a) /\ SameAlive(layerCache, d)
    BY <1>2, <2>1, <2>2, UseHolders, ZenonT(60)
  <2>4. layerCache' = d
    BY <1>6, <2>2, ZenonT(60)
  <2>5. LayersInv'
    <3>1. UNCHANGED fsVars  BY <1>1, ZenonT(60)
    <3> HIDE DEF l
    <3> QED  BY <1>2, <1>6, <2>1, <2>3, <2>4, <3>1, GainsLayer, ZenonT(60) DEF Gains
  <2>6. BlobsInv'
    BY <1>1, <1>2, <1>6, <2>3, <2>4, BlobsStay, ZenonT(60) DEF SameAlive
  <2>7. CachesInv'
    BY <1>2, <1>6, <2>3, <2>4, ZenonT(60) DEF CachesInv
  <2>8. /\ ref' \in [Actors -> Values \union {NoValue}]
        /\ \A b \in Actors \ {a} : ref'[b] = ref[b]
    BY <1>3, <1>6, <2>1, ZenonT(60)
  <2>9. blobOf' \in [Values -> Values \union {NoValue}]
    BY <1>3, <1>6, ZenonT(60)
  <2> QED  BY <1>1, <1>2, <1>3, <1>6, <2>5, <2>6, <2>7, <2>8, <2>9, ResolveFrame, ZenonT(60)
<1>7. CASE /\ l # NoValue /\ SetLayerCache(gone) /\ UNCHANGED ref
           /\ rpc' = [rpc EXCEPT ![a] = "blob"]
  <2>1. l \in Cached(layerCache) /\ l \in Values
    BY <1>5, <1>7, ZenonT(60)
  <2>2. PICK c : c = used
    BY ZenonT(60)
  <2>3. /\ GoodCache(c, Values, LayerHolders, MaxResults)
        /\ c.refs = [layerCache.refs EXCEPT ![l] = @ \union {a}]
    <3>1. /\ GoodCache(Use(layerCache, l, a), Values, LayerHolders, MaxResults)
          /\ Use(layerCache, l, a).refs = [layerCache.refs EXCEPT ![l] = @ \union {a}]
      <4> HIDE DEF l
      <4>1. GoodCache(Use(layerCache, l, a), Values, LayerHolders, MaxResults)
        BY <1>2, <2>1, UseFacts, ZenonT(60)
      <4>2. Use(layerCache, l, a).refs = [layerCache.refs EXCEPT ![l] = @ \union {a}]
        BY ZenonT(60) DEF Use
      <4> QED  BY <4>1, <4>2, ZenonT(60)
    <3> QED  BY <2>2, <3>1, ZenonT(60)
  <2>4. PICK d : d = Done(c, l, a)
    BY ZenonT(60)
  <2>5. /\ GoodCache(d, Values, LayerHolders, MaxResults)
        /\ d.refs = [c.refs EXCEPT ![l] = @ \ {a}]
    <3>1. /\ GoodCache(Done(c, l, a), Values, LayerHolders, MaxResults)
          /\ Done(c, l, a).refs = [c.refs EXCEPT ![l] = @ \ {a}]
      <4> HIDE DEF l
      <4>1. GoodCache(Done(c, l, a), Values, LayerHolders, MaxResults)
        BY <1>2, <2>1, <2>3, DoneFacts, ZenonT(60)
      <4>2. Done(c, l, a).refs = [c.refs EXCEPT ![l] = @ \ {a}]
        BY ZenonT(60) DEF Done
      <4> QED  BY <4>1, <4>2, ZenonT(60)
    <3> QED  BY <2>4, <3>1, ZenonT(60)
  <2>6. layerCache.refs \in [Values -> SUBSET LayerHolders]
    BY <1>2, Parts, ZenonT(60)
  <2>7. \A v \in Values : /\ d.refs[v] \subseteq layerCache.refs[v]
                          /\ v # l => d.refs[v] = layerCache.refs[v]
                          /\ d.refs[l] = layerCache.refs[l] \ {a}
    <3> HIDE DEF l
    <3> QED  BY <2>1, <2>3, <2>5, <2>6, ZenonT(60)
  <2>8. a \notin Holders(layerCache, l)
    <3>1. rpc[a] # "idle"  BY <1>1, ZenonT(60)
    <3> QED  BY <1>2, <2>1, <3>1, HoldsNothing, ZenonT(60)
  <2>9. SameHolders(layerCache, d)
    <3> HIDE DEF l
    <3> QED  BY <2>1, <2>7, <2>8, ZenonT(60) DEF SameHolders, Holders
  <2>10. PICK e : e = Evict(d, target[a])
    BY ZenonT(60)
  <2>11. /\ GoodCache(e, Values, LayerHolders, MaxResults)
         /\ SameHolders(d, e) /\ Shrinks(d, e)
    BY <2>5, <2>10, EvictHolders, ZenonT(60)
  <2>12. e = gone
    BY <2>2, <2>4, <2>10, ZenonT(60)
  <2>13. SetLayerCache(e)
    BY <1>7, <2>12, ZenonT(60)
  <2>14. \A v \in Values : e.refs[v] \subseteq layerCache.refs[v]
    <3> HIDE DEF l
    <3> QED  BY <2>7, <2>11, ZenonT(60) DEF Shrinks
  <2>15. /\ CachesInv' /\ BlobsInv' /\ layerCache' = e
         /\ blobOf' \in [Values -> Values \union {NoValue}]
    BY <1>1, <1>2, <2>11, <2>13, <2>14, ClosesLayers, ZenonT(60)
  <2>16. \A v \in Values : Holders(layerCache', v) = Holders(layerCache, v)
    BY <2>9, <2>11, <2>15, ZenonT(60) DEF SameHolders
  <2>17. LayersInv'
    BY <1>1, <1>2, <1>7, <2>16, LayersStay, ZenonT(60)
  <2>18. /\ ref' \in [Actors -> Values \union {NoValue}] /\ ref'[a] = NoValue
         /\ \A b \in Actors \ {a} : ref'[b] = ref[b]
    BY <1>2, <1>3, <1>7, ZenonT(60)
  <2> QED  BY <1>1, <1>2, <1>3, <1>7, <2>15, <2>17, <2>18, ResolveFrame, ZenonT(60)
<1>8. \/ rpc' = [rpc EXCEPT ![a] = "blob"] /\ UNCHANGED <<ref, cacheVars>>
      \/ /\ l # NoValue /\ layerCache' = used /\ ref' = [ref EXCEPT ![a] = l]
         /\ rpc' = [rpc EXCEPT ![a] = "deliver"] /\ UNCHANGED <<blobCache, blobOf>>
      \/ /\ l # NoValue /\ SetLayerCache(gone) /\ UNCHANGED ref
         /\ rpc' = [rpc EXCEPT ![a] = "blob"]
  BY ZenonT(60) DEF ResolveGet, Goto
<1> QED  BY <1>4, <1>6, <1>7, <1>8, ZenonT(60)


\* resolveBlob: a goroutine takes the blob from its cache or makes one.
LEMMA ResolveBlobStep ==
    ASSUME Inv, NEW a \in Actors, ResolveBlob(a)
    PROVE  Inv'
<1>1. /\ rpc[a] = "blob"
      /\ UNCHANGED <<mountVars, target, ref, layerCache, blobOf, fsVars, prVars>>
  BY ZenonT(60) DEF ResolveBlob
<1>2. /\ TypeInv /\ CachesInv /\ ControlInv /\ LayersInv /\ BlobsInv
      /\ ref[a] = NoValue /\ target[a] \in Layers /\ bref[a] = NoValue
      /\ a # CacheRef /\ a \in BlobHolders
      /\ GoodCache(layerCache, Values, LayerHolders, MaxResults)
      /\ GoodCache(blobCache, Values, BlobHolders, MaxResults)
      /\ IsCache(blobCache, Values, BlobHolders)
  BY <1>1, Running, ZenonT(60)
<1>3. /\ ref' \in [Actors -> Values \union {NoValue}]
      /\ bref \in [Actors -> Values \union {NoValue}]
      /\ blobOf' \in [Values -> Values \union {NoValue}]
      /\ ref'[a] = NoValue /\ \A b \in Actors \ {a} : ref'[b] = ref[b]
  BY <1>1, <1>2, ZenonT(60) DEF TypeInv
<1>4. LayersInv'
  BY <1>1, <1>2, LayersStay, ZenonT(60)
<1>5. ASSUME NEW d, blobCache' = d, GoodCache(d, Values, BlobHolders, MaxResults),
             SameHolders(blobCache, d), UNCHANGED bref,
             rpc' = [rpc EXCEPT ![a] = "deliver"]
      PROVE  Inv'
  <2>1. CachesInv'
    BY <1>1, <1>2, <1>5, ZenonT(60) DEF CachesInv
  <2>2. BlobsInv'
    BY <1>1, <1>2, <1>5, BlobsStay, ZenonT(60) DEF SameHolders
  <2>3. /\ bref' \in [Actors -> Values \union {NoValue}] /\ bref'[a] = NoValue
        /\ \A b \in Actors \ {a} : bref'[b] = bref[b]
    BY <1>2, <1>3, <1>5, ZenonT(60)
  <2> QED  BY <1>1, <1>2, <1>3, <1>4, <1>5, <2>1, <2>2, <2>3, ResolveFrame, ZenonT(60)
<1>6. ASSUME NEW d, blobCache' = d, GoodCache(d, Values, BlobHolders, MaxResults),
             NEW b \in Values, Gains(blobCache, d, b, a), bref' = [bref EXCEPT ![a] = b],
             rpc' = [rpc EXCEPT ![a] = "layer"]
      PROVE  Inv'
  <2>1. CachesInv'
    BY <1>1, <1>2, <1>6, ZenonT(60) DEF CachesInv
  <2>2. BlobsInv'
    BY <1>1, <1>2, <1>6, GainsBlob, ZenonT(60) DEF Gains
  <2>3. /\ bref' \in [Actors -> Values \union {NoValue}] /\ bref'[a] # NoValue
        /\ \A e \in Actors \ {a} : bref'[e] = bref[e]
    BY <1>2, <1>3, <1>6, Distinct, ZenonT(60)
  <2> QED  BY <1>1, <1>2, <1>3, <1>4, <1>6, <2>1, <2>2, <2>3, ResolveFrame, ZenonT(60)
<1> DEFINE b == Find(blobCache, target[a])
           new == CHOOSE v \in Values : v \in FreeBlobs(target[a])
           c == IF b = NoValue THEN blobCache ELSE Evict(blobCache, target[a])
<1>7. \/ rpc' = [rpc EXCEPT ![a] = "deliver"] /\ UNCHANGED <<bref, blobCache>>
      \/ /\ b # NoValue /\ blobCache' = Use(blobCache, b, a)
         /\ bref' = [bref EXCEPT ![a] = b] /\ rpc' = [rpc EXCEPT ![a] = "layer"]
      \/ /\ new \in FreeBlobs(target[a]) /\ blobCache' = Insert(c, new, a, MaxResults)
         /\ bref' = [bref EXCEPT ![a] = new] /\ rpc' = [rpc EXCEPT ![a] = "layer"]
      \/ /\ blobCache' = c /\ UNCHANGED bref /\ rpc' = [rpc EXCEPT ![a] = "deliver"]
  BY ZenonT(60) DEF ResolveBlob, Goto, Return
<1>8. b # NoValue => b \in Cached(blobCache) /\ b \in Values
  BY <1>2, Distinct, FindFacts, ZenonT(60)
<1>9. /\ GoodCache(c, Values, BlobHolders, MaxResults)
      /\ SameHolders(blobCache, c) /\ Shrinks(blobCache, c)
      /\ \A w \in Cached(c) : Key(w) # target[a]
  <2>1. CASE b = NoValue
    <3>1. c = blobCache
      BY <2>1, ZenonT(60)
    <3>2. \A w \in Cached(blobCache) : Key(w) # target[a]
      BY <1>2, <2>1, Distinct, FindFacts, ZenonT(60)
    <3>3. SameHolders(blobCache, blobCache) /\ Shrinks(blobCache, blobCache)
      BY ZenonT(60) DEF SameHolders, Shrinks
    <3> HIDE DEF c
    <3> QED  BY <1>2, <3>1, <3>2, <3>3, ZenonT(60)
  <2>2. CASE b # NoValue
    <3>1. c = Evict(blobCache, target[a])
      BY <2>2, ZenonT(60)
    <3> HIDE DEF c
    <3> QED  BY <1>2, <3>1, EvictHolders, ZenonT(60)
  <2> QED  BY <2>1, <2>2, ZenonT(60)
<1>10. CASE rpc' = [rpc EXCEPT ![a] = "deliver"] /\ UNCHANGED <<bref, blobCache>>
  <2>1. SameHolders(blobCache, blobCache)
    BY ZenonT(60) DEF SameHolders
  <2> QED  BY <1>2, <1>5, <1>10, <2>1, ZenonT(60)
<1>11. CASE /\ b # NoValue /\ blobCache' = Use(blobCache, b, a)
            /\ bref' = [bref EXCEPT ![a] = b] /\ rpc' = [rpc EXCEPT ![a] = "layer"]
  <2> HIDE DEF b
  <2>1. /\ GoodCache(Use(blobCache, b, a), Values, BlobHolders, MaxResults)
        /\ b \in Values /\ Gains(blobCache, Use(blobCache, b, a), b, a)
    BY <1>2, <1>8, <1>11, UseHolders, ZenonT(60)
  <2> QED  BY <1>6, <1>11, <2>1, ZenonT(60)
<1>12. CASE /\ new \in FreeBlobs(target[a]) /\ blobCache' = Insert(c, new, a, MaxResults)
            /\ bref' = [bref EXCEPT ![a] = new] /\ rpc' = [rpc EXCEPT ![a] = "layer"]
  <2> HIDE DEF c, new
  <2>1. new \in {target[a]} \X Numbers /\ ~Alive(blobCache, new)
    BY <1>12, ZenonT(60) DEF FreeBlobs
  <2>2. new \in Values /\ Key(new) = target[a]
    BY <1>2, <2>1, ZenonT(60) DEF Values, Key, Layers
  <2>3. ~Alive(c, new)
    BY <1>9, <2>1, <2>2, AliveIs, ZenonT(60) DEF Shrinks
  <2>4. CacheRef \in BlobHolders /\ \A w \in Cached(c) : Key(w) # Key(new)
    BY <1>9, <2>2, ZenonT(60) DEF BlobHolders
  <2>5. PICK d : d = Insert(c, new, a, MaxResults)
    BY ZenonT(60)
  <2>6. GoodCache(d, Values, BlobHolders, MaxResults) /\ Gains(c, d, new, a)
    BY <1>2, <1>9, <2>2, <2>3, <2>4, <2>5, InsertHolders, ZenonT(60)
  <2>7. Gains(blobCache, d, new, a)
    BY <1>9, <2>2, <2>6, ZenonT(60) DEF Gains, SameHolders
  <2> QED  BY <1>6, <1>12, <2>2, <2>5, <2>6, <2>7, ZenonT(60)
<1>13. CASE blobCache' = c /\ UNCHANGED bref /\ rpc' = [rpc EXCEPT ![a] = "deliver"]
  <2> HIDE DEF c
  <2> QED  BY <1>5, <1>9, <1>13, ZenonT(60)
<1> QED  BY <1>7, <1>10, <1>11, <1>12, <1>13, ZenonT(60)


\* The new layer takes over the reference to the blob and is cached; or the
\* blob is given back.
LEMMA ResolveLayerStep ==
    ASSUME Inv, NEW a \in Actors, ResolveLayer(a)
    PROVE  Inv'
<1>1. /\ rpc[a] = "layer" /\ bref' = [bref EXCEPT ![a] = NoValue]
      /\ rpc' = [rpc EXCEPT ![a] = "deliver"]
      /\ UNCHANGED <<mountVars, target, fsVars, prVars>> /\ UNCHANGED fsVars
  BY ZenonT(60) DEF ResolveLayer, Return, Goto
<1>2. /\ TypeInv /\ CachesInv /\ ControlInv /\ LayersInv /\ BlobsInv
      /\ ref[a] = NoValue /\ target[a] \in Layers /\ bref[a] # NoValue
      /\ a # CacheRef /\ a \in LayerHolders /\ a \in BlobHolders
      /\ GoodCache(layerCache, Values, LayerHolders, MaxResults)
      /\ GoodCache(blobCache, Values, BlobHolders, MaxResults)
      /\ IsCache(layerCache, Values, LayerHolders)
  BY <1>1, Running, ZenonT(60)
<1>3. /\ ref \in [Actors -> Values \union {NoValue}]
      /\ bref \in [Actors -> Values \union {NoValue}]
      /\ blobOf \in [Values -> Values \union {NoValue}]
  BY <1>2, ZenonT(60) DEF TypeInv
<1>4. /\ bref' \in [Actors -> Values \union {NoValue}] /\ bref'[a] = NoValue
      /\ bref[a] \in Values /\ \A b \in Actors \ {a} : bref'[b] = bref[b]
  BY <1>1, <1>2, <1>3, ZenonT(60)
<1> DEFINE cached == Find(layerCache, target[a])
           new == CHOOSE v \in Values : v \in FreeLayers(target[a])
           added == Insert(layerCache, new, a, MaxResults)
           dead == Finalized(layerCache, added)
           moved == [order |-> blobCache.order,
                     refs  |-> [blobCache.refs EXCEPT
                                   ![bref[a]] = (@ \ {a}) \union {new}]]
<1>5. \/ /\ new \in FreeLayers(target[a]) /\ cached = NoValue /\ layerCache' = added
         /\ blobCache' = CloseBlobsOf(dead, moved)
         /\ blobOf' = [l \in Values |-> IF l \in dead THEN NoValue
                                        ELSE IF l = new THEN bref[a] ELSE blobOf[l]]
         /\ ref' = [ref EXCEPT ![a] = new]
      \/ /\ cached # NoValue /\ layerCache' = Use(layerCache, cached, a)
         /\ blobCache' = Done(blobCache, bref[a], a)
         /\ ref' = [ref EXCEPT ![a] = cached] /\ UNCHANGED blobOf
      \/ /\ blobCache' = Done(blobCache, bref[a], a)
         /\ UNCHANGED <<ref, layerCache, blobOf>>
  BY ZenonT(60) DEF ResolveLayer
<1>6. PICK b \in Values : b = bref[a]
  BY <1>4, ZenonT(60)
<1>7. CASE /\ new \in FreeLayers(target[a]) /\ cached = NoValue /\ layerCache' = added
           /\ blobCache' = CloseBlobsOf(dead, moved)
           /\ blobOf' = [l \in Values |-> IF l \in dead THEN NoValue
                                          ELSE IF l = new THEN bref[a] ELSE blobOf[l]]
           /\ ref' = [ref EXCEPT ![a] = new]
  <2>1. PICK n : n = new
    BY ZenonT(60)
  <2>2. PICK d : d = Insert(layerCache, n, a, MaxResults)
    BY ZenonT(60)
  <2>3. PICK D : D = Finalized(layerCache, d)
    BY ZenonT(60)
  <2>4. PICK M : M = Pair(blobCache.order,
                          [blobCache.refs EXCEPT ![b] = (@ \ {a}) \union {n}])
    BY ZenonT(60)
  <2>5. /\ n \in FreeLayers(target[a]) /\ layerCache' = d
        /\ blobCache' = CloseBlobsOf(D, M)
        /\ blobOf' = [l \in Values |-> IF l \in D THEN NoValue
                                       ELSE IF l = n THEN b ELSE blobOf[l]]
        /\ ref' = [ref EXCEPT ![a] = n]
    BY <1>6, <1>7, <2>1, <2>2, <2>3, <2>4, ZenonT(60) DEF Pair
  <2>6. \A w \in Cached(layerCache) : Key(w) # target[a]
    BY <1>2, <1>7, Distinct, FindFacts, ZenonT(60)
  <2> HIDE DEF cached, new, added, dead, moved
  <2>7. n \in {target[a]} \X Numbers /\ ~Alive(layerCache, n)
    BY <2>5, ZenonT(60) DEF FreeLayers, LayerOpen
  <2>8. n \in Values /\ Key(n) = target[a]
    BY <1>2, <2>7, ZenonT(60) DEF Values, Key, Layers
  <2>9. CacheRef \in LayerHolders /\ \A w \in Cached(layerCache) : Key(w) # Key(n)
    BY <2>6, <2>8, ZenonT(60) DEF LayerHolders
  <2>10. /\ GoodCache(d, Values, LayerHolders, MaxResults)
         /\ Gains(layerCache, d, n, a) /\ Alive(d, n)
         /\ \A w \in Values : w # n => d.refs[w] \subseteq layerCache.refs[w]
    BY <1>2, <2>2, <2>7, <2>8, <2>9, InsertHolders, ZenonT(60)
  <2>11. LayersInv'
    BY <1>1, <1>2, <2>5, <2>8, <2>10, GainsLayer, ZenonT(60) DEF Gains
  <2>12. /\ CachesInv' /\ BlobsInv'
         /\ blobOf' \in [Values -> Values \union {NoValue}]
    <3>1. Adopts(a, b, n, d, D, M)
      BY <1>1, <1>6, <2>3, <2>4, <2>5, <2>7, <2>10, ZenonT(60) DEF Adopts
    <3> QED  BY <1>2, <2>8, <3>1, NewLayer, ZenonT(60)
  <2>13. /\ ref' \in [Actors -> Values \union {NoValue}]
         /\ \A e \in Actors \ {a} : ref'[e] = ref[e]
    BY <1>3, <2>5, <2>8, ZenonT(60)
  <2> QED  BY <1>1, <1>2, <1>4, <2>11, <2>12, <2>13, ResolveFrame, ZenonT(60)
<1>8. ASSUME blobCache' = Done(blobCache, bref[a], a), UNCHANGED blobOf,
             SameAlive(layerCache, layerCache')
      PROVE  /\ GoodCache(blobCache', Values, BlobHolders, MaxResults) /\ BlobsInv'
             /\ blobOf' \in [Values -> Values \union {NoValue}]
  <2>1. PICK e : e = Done(blobCache, b, a)
    BY ZenonT(60)
  <2>2. GoodCache(e, Values, BlobHolders, MaxResults) /\ Loses(blobCache, e, b, a)
    BY <1>2, <2>1, DoneHolders, ZenonT(60)
  <2>3. blobCache' = e
    BY <1>6, <1>8, <2>1, ZenonT(60)
  <2>4. BlobsInv'
    BY <1>1, <1>2, <1>6, <1>8, <2>2, <2>3, LosesBlob, ZenonT(60) DEF Loses, SameAlive
  <2> QED  BY <1>3, <1>8, <2>2, <2>3, <2>4, ZenonT(60)
<1>9. CASE /\ cached # NoValue /\ layerCache' = Use(layerCache, cached, a)
           /\ blobCache' = Done(blobCache, bref[a], a)
           /\ ref' = [ref EXCEPT ![a] = cached] /\ UNCHANGED blobOf
  <2>1. cached \in Cached(layerCache) /\ cached \in Values
    BY <1>2, <1>9, Distinct, FindFacts, ZenonT(60)
  <2>2. PICK l \in Values : l = cached
    BY <2>1, ZenonT(60)
  <2> HIDE DEF cached, new, added, dead, moved
  <2>3. PICK d : d = Use(layerCache, l, a)
    BY ZenonT(60)
  <2>4. /\ GoodCache(d, Values, LayerHolders, MaxResults)
        /\ Gains(layerCache, d, l, a) /\ SameAlive(layerCache, d)
    BY <1>2, <2>1, <2>2, <2>3, UseHolders, ZenonT(60)
  <2>5. layerCache' = d /\ ref' = [ref EXCEPT ![a] = l]
    BY <1>9, <2>2, <2>3, ZenonT(60)
  <2>6. LayersInv'
    BY <1>1, <1>2, <2>4, <2>5, GainsLayer, ZenonT(60) DEF Gains
  <2>7. /\ GoodCache(blobCache', Values, BlobHolders, MaxResults) /\ BlobsInv'
        /\ blobOf' \in [Values -> Values \union {NoValue}]
    BY <1>8, <1>9, <2>4, <2>5, ZenonT(60)
  <2>8. CachesInv'
    BY <2>4, <2>5, <2>7, ZenonT(60) DEF CachesInv
  <2>9. /\ ref' \in [Actors -> Values \union {NoValue}]
        /\ \A e \in Actors \ {a} : ref'[e] = ref[e]
    BY <1>3, <2>5, ZenonT(60)
  <2> QED  BY <1>1, <1>2, <1>4, <2>6, <2>7, <2>8, <2>9, ResolveFrame, ZenonT(60)
<1>10. CASE /\ blobCache' = Done(blobCache, bref[a], a)
            /\ UNCHANGED <<ref, layerCache, blobOf>>
  <2> HIDE DEF cached, new, added, dead, moved
  <2>1. SameAlive(layerCache, layerCache')
    BY <1>10, ZenonT(60) DEF SameAlive
  <2>2. /\ GoodCache(blobCache', Values, BlobHolders, MaxResults) /\ BlobsInv'
        /\ blobOf' \in [Values -> Values \union {NoValue}]
    BY <1>8, <1>10, <2>1, ZenonT(60)
  <2>3. CachesInv'
    BY <1>2, <1>10, <2>2, ZenonT(60) DEF CachesInv
  <2>4. LayersInv'
    BY <1>1, <1>2, <1>10, LayersStay, ZenonT(60)
  <2>5. /\ ref' \in [Actors -> Values \union {NoValue}]
        /\ \A e \in Actors \ {a} : ref'[e] = ref[e]
    BY <1>3, <1>10, ZenonT(60)
  <2> QED  BY <1>1, <1>2, <1>4, <2>2, <2>3, <2>4, <2>5, ResolveFrame, ZenonT(60)
<1> QED  BY <1>5, <1>7, <1>9, <1>10, ZenonT(60)


\* A layer is given back, and closed if nobody else refers to it.
LEMMA GivesBack ==
    ASSUME TypeInv, CachesInv, BlobsInv, NEW a \in Actors, NEW l \in Values,
           SetLayerCache(Done(layerCache, l, a)), UNCHANGED bref
    PROVE  /\ CachesInv' /\ BlobsInv' /\ Loses(layerCache, layerCache', l, a)
           /\ blobOf' \in [Values -> Values \union {NoValue}]
<1>1. GoodCache(layerCache, Values, LayerHolders, MaxResults) /\ a # CacheRef
  BY Distinct, ZenonT(60) DEF CachesInv
<1>2. PICK d : d = Done(layerCache, l, a)
  BY ZenonT(60)
<1>3. /\ GoodCache(d, Values, LayerHolders, MaxResults)
      /\ Loses(layerCache, d, l, a) /\ Shrinks(layerCache, d)
  BY <1>1, <1>2, DoneHolders, ZenonT(60)
<1>4. SetLayerCache(d)
  BY <1>2, ZenonT(60)
<1>5. /\ CachesInv' /\ BlobsInv' /\ layerCache' = d
      /\ blobOf' \in [Values -> Values \union {NoValue}]
  BY <1>3, <1>4, ClosesLayers, ZenonT(60) DEF Shrinks
<1> QED  BY <1>3, <1>5, ZenonT(60)

\* A preresolver goroutine gives back the layer it resolved.
LEMMA PrDoneStep ==
    ASSUME Inv, NEW w \in Workers, PrDone(w)
    PROVE  Inv'
<1>0. QueueInv /\ TypeInv /\ CachesInv /\ ControlInv /\ LayersInv /\ BlobsInv
  BY ZenonT(60) DEF Inv
<1>1. /\ rpc[w] = "deliver" /\ rpc' = [rpc EXCEPT ![w] = "forget"]
      /\ ref' = [ref EXCEPT ![w] = NoValue]
      /\ UNCHANGED <<mountVars, target, fsVars, prVars>> /\ UNCHANGED bref
      /\ UNCHANGED <<served, unmounted, fsLayer>>
  BY ZenonT(60) DEF PrDone, Goto, fsVars
<1>2. w \in Actors /\ w \notin Mountpoints
  BY Distinct, ZenonT(60)
<1>3. /\ ref \in [Actors -> Values \union {NoValue}]
      /\ bref \in [Actors -> Values \union {NoValue}]
      /\ blobOf \in [Values -> Values \union {NoValue}]
  BY <1>0, ZenonT(60) DEF TypeInv
<1>4. /\ ref' \in [Actors -> Values \union {NoValue}] /\ ref'[w] = NoValue
      /\ \A b \in Actors \ {w} : ref'[b] = ref[b]
  BY <1>1, <1>2, <1>3, ZenonT(60)
<1>5. bref[w] = NoValue
  BY <1>0, <1>1, <1>2, ZenonT(60) DEF ControlInv, ResolveInv
<1>6. /\ CachesInv' /\ LayersInv' /\ BlobsInv'
      /\ blobOf' \in [Values -> Values \union {NoValue}]
  <2>1. CASE ref[w] = NoValue
    <3>1. UNCHANGED cacheVars
      BY <2>1, ZenonT(60) DEF PrDone
    <3>2. ref' = ref
      BY <1>1, <1>3, <2>1, ZenonT(60)
    <3>3. UNCHANGED blobOf
      BY <3>1, ZenonT(60) DEF cacheVars
    <3> QED  BY <1>0, <1>1, <1>3, <3>1, <3>2, <3>3, Quiet, ZenonT(60)
  <2>2. CASE ref[w] # NoValue
    <3>1. PICK l \in Values : l = ref[w]
      BY <1>2, <1>3, <2>2, ZenonT(60)
    <3>2. SetLayerCache(Done(layerCache, l, w))
      BY <2>2, <3>1, ZenonT(60) DEF PrDone
    <3>3. /\ CachesInv' /\ BlobsInv' /\ Loses(layerCache, layerCache', l, w)
          /\ blobOf' \in [Values -> Values \union {NoValue}]
      BY <1>0, <1>1, <1>2, <3>2, GivesBack, ZenonT(60)
    <3>4. LayersInv'
      BY <1>0, <1>1, <1>2, <3>1, <3>3, LosesLayer, ZenonT(60) DEF Loses
    <3> QED  BY <3>3, <3>4, ZenonT(60)
  <2> QED  BY <2>1, <2>2, ZenonT(60)
<1> QED  BY <1>1, <1>2, <1>3, <1>4, <1>5, <1>6, ResolveFrame, ZenonT(60)

\* A step of a Mount that received its layer.
LEMMA MountFrame ==
    ASSUME Inv, NEW m \in Mountpoints, NEW pc \in {"mounted", "failed"},
           mpc[m] = "node", mpc' = [mpc EXCEPT ![m] = pc],
           ref' = [ref EXCEPT ![m] = NoValue],
           UNCHANGED <<layerOf, sociCtx, todo, cur, rpc, target, bref, unmounted, prVars>>,
           \/ UNCHANGED fsLayer
           \/ \E l \in Values : fsLayer' = [fsLayer EXCEPT ![BasePath(m)] = <<l, m>>],
           served' \subseteq Paths, blobOf' \in [Values -> Values \union {NoValue}],
           CachesInv', LayersInv', BlobsInv'
    PROVE  Inv'
<1>0. QueueInv /\ TypeInv /\ ControlInv
  BY ZenonT(60) DEF Inv
<1>1. m \in Actors /\ m \notin Workers
  BY Distinct, ZenonT(60)
<1>2. /\ mpc' \in [Mountpoints -> MountPcs] /\ mpc'[m] = pc
      /\ \A n \in Mountpoints \ {m} : mpc'[n] = mpc[n]
  BY <1>0, ZenonT(60) DEF TypeInv, MountPcs
<1>3. /\ ref' \in [Actors -> Values \union {NoValue}] /\ ref'[m] = NoValue
      /\ \A b \in Actors \ {m} : ref'[b] = ref[b]
  BY <1>0, <1>1, ZenonT(60) DEF TypeInv
<1>4. /\ fsLayer' \in [Paths -> (Values \X Mountpoints) \union {NotRegistered}]
      /\ \A p \in Paths : p # BasePath(m) => fsLayer'[p] = fsLayer[p]
  <2>1. BasePath(m) \in Paths
    BY PathsDiffer, ZenonT(60)
  <2>2. fsLayer \in [Paths -> (Values \X Mountpoints) \union {NotRegistered}]
    BY <1>0, ZenonT(60) DEF TypeInv
  <2>3. CASE UNCHANGED fsLayer
    BY <2>2, <2>3, ZenonT(60)
  <2>4. CASE \E l \in Values : fsLayer' = [fsLayer EXCEPT ![BasePath(m)] = <<l, m>>]
    BY <2>1, <2>2, <2>4, SMTT(60), Z3T(60)
  <2> QED  BY <2>3, <2>4, ZenonT(60)
<1>5. TypeInv'
  BY <1>0, <1>2, <1>3, <1>4, ZenonT(60) DEF TypeInv
<1>6. \A n \in Mountpoints : mpc'[n] = "store" => mpc[n] = "store"
  BY <1>2, ZenonT(60)
<1>7. QueueInv'
  BY <1>0, <1>6, QueueStays, ZenonT(60)
<1>8. rpc[m] = "idle" /\ bref[m] = NoValue
  BY <1>0, <1>1, ZenonT(60) DEF ControlInv, ResolveInv, MountInv
<1>9. ResolveInv(m)'
  BY <1>8, ZenonT(60) DEF ResolveInv
<1>10. MountInv(m)'
  BY <1>2, <1>3, <1>8, ZenonT(60) DEF MountInv
<1>11. ASSUME NEW b \in Actors \ {m}  PROVE SameActor(b)
  <2>1. ASSUME b \in Mountpoints, Unregistered(b)  PROVE Unregistered(b)'
    <3>1. BasePath(b) \in Paths /\ BasePath(b) # BasePath(m)
      BY <2>1, PathsDiffer, ZenonT(60)
    <3>2. ASSUME b \in Parents, NEW id \in ActiveIDs
          PROVE  fsLayer'[IDMappedPath(BasePath(b), id)] = NotRegistered
      <4>1. /\ IDMappedPath(BasePath(b), id) \in Paths
            /\ IDMappedPath(BasePath(b), id) # BasePath(m)
        BY <3>2, PathsDiffer, ZenonT(60)
      <4> QED  BY <1>4, <2>1, <3>2, <4>1, ZenonT(60) DEF Unregistered
    <3> QED  BY <1>4, <2>1, <3>1, <3>2, ZenonT(60) DEF Unregistered
  <2> QED  BY <1>2, <1>3, <2>1, ZenonT(60) DEF SameActor
<1>12. ControlInv'
  BY <1>0, <1>1, <1>9, <1>10, <1>11, OneActor, ZenonT(60)
<1> QED  BY <1>5, <1>7, <1>12, ZenonT(60) DEF Inv


\* A Mount registers its layer and serves it, or gives it back.
LEMMA MountNodeStep ==
    ASSUME Inv, NEW m \in Mountpoints, MountNode(m)
    PROVE  Inv'
<1>0. QueueInv /\ TypeInv /\ CachesInv /\ ControlInv /\ LayersInv /\ BlobsInv
  BY ZenonT(60) DEF Inv
<1>1. /\ mpc[m] = "node" /\ ref' = [ref EXCEPT ![m] = NoValue]
      /\ UNCHANGED <<layerOf, sociCtx, todo, cur, rpc, target, bref, unmounted, prVars>>
  BY ZenonT(60) DEF MountNode
<1>2. m \in Actors /\ BasePath(m) \in Paths
  BY Distinct, PathsDiffer, ZenonT(60)
<1>3. ref[m] # NoValue /\ fsLayer[BasePath(m)] = NotRegistered
  BY <1>0, <1>1, ZenonT(60) DEF ControlInv, MountInv, Unregistered
<1>4. PICK l \in Values : l = ref[m]
  BY <1>0, <1>2, <1>3, ZenonT(60) DEF TypeInv
<1>5. BasePath(m) \notin served
  BY <1>0, <1>3, ZenonT(60) DEF LayersInv, BaseInv
<1>6. served \subseteq Paths /\ blobOf \in [Values -> Values \union {NoValue}]
  BY <1>0, ZenonT(60) DEF TypeInv
<1>7. CASE /\ fsLayer' = [fsLayer EXCEPT ![BasePath(m)] = <<ref[m], m>>]
           /\ served' = served \union {BasePath(m)}
           /\ mpc' = [mpc EXCEPT ![m] = "mounted"] /\ UNCHANGED cacheVars
  <2>1. UNCHANGED <<layerCache, blobCache, blobOf>>
    BY <1>7, ZenonT(60) DEF cacheVars
  <2>2. fsLayer' = [fsLayer EXCEPT ![BasePath(m)] = <<l, m>>]
    BY <1>4, <1>7, ZenonT(60)
  <2>3. LayersInv'
    BY <1>0, <1>1, <1>3, <1>4, <1>7, <2>1, <2>2, Registers, ZenonT(60)
  <2>4. CachesInv' /\ blobOf' \in [Values -> Values \union {NoValue}]
    BY <1>0, <1>6, <2>1, ZenonT(60) DEF CachesInv
  <2>5. BlobsInv'
    BY <1>0, <1>1, <2>1, BlobsStay, ZenonT(60)
  <2>6. served' \subseteq Paths
    BY <1>2, <1>6, <1>7, ZenonT(60)
  <2> QED  BY <1>1, <1>7, <2>2, <2>3, <2>4, <2>5, <2>6, MountFrame, ZenonT(60)
<1>8. CASE /\ GiveBack(m, ref[m])
           /\ \/ fsLayer' = [fsLayer EXCEPT ![BasePath(m)] = <<ref[m], m>>]
              \/ UNCHANGED fsLayer
           /\ UNCHANGED served /\ mpc' = [mpc EXCEPT ![m] = "failed"]
  <2>1. SetLayerCache(Done(layerCache, l, m))
    BY <1>4, <1>8, ZenonT(60) DEF GiveBack
  <2>2. /\ CachesInv' /\ BlobsInv' /\ Loses(layerCache, layerCache', l, m)
        /\ blobOf' \in [Values -> Values \union {NoValue}]
    BY <1>0, <1>1, <1>2, <2>1, GivesBack, ZenonT(60)
  <2>3. \/ UNCHANGED fsLayer
        \/ fsLayer' = [fsLayer EXCEPT ![BasePath(m)] = <<l, m>>]
    BY <1>4, <1>8, ZenonT(60)
  <2>4. LayersInv'
    BY <1>0, <1>1, <1>2, <1>3, <1>4, <1>5, <1>8, <2>2, <2>3, LosesLayer, ZenonT(60) DEF Loses
  <2>5. served' \subseteq Paths
    BY <1>6, <1>8, ZenonT(60)
  <2> QED  BY <1>1, <1>8, <2>2, <2>3, <2>4, <2>5, MountFrame, ZenonT(60)
<1>9. \/ /\ fsLayer' = [fsLayer EXCEPT ![BasePath(m)] = <<ref[m], m>>]
         /\ served' = served \union {BasePath(m)}
         /\ mpc' = [mpc EXCEPT ![m] = "mounted"] /\ UNCHANGED cacheVars
      \/ /\ GiveBack(m, ref[m])
         /\ \/ fsLayer' = [fsLayer EXCEPT ![BasePath(m)] = <<ref[m], m>>]
            \/ UNCHANGED fsLayer
         /\ UNCHANGED served /\ mpc' = [mpc EXCEPT ![m] = "failed"]
  BY ZenonT(60) DEF MountNode, MountGoto
<1> QED  BY <1>7, <1>8, <1>9, ZenonT(60)

\* A step of no goroutine.
LEMMA NoActorSteps ==
    ASSUME ControlInv, \A b \in Actors : SameActor(b)
    PROVE  ControlInv'
<1>1. \A b \in Actors : ResolveInv(b)'
  BY ZenonT(60) DEF ControlInv, ResolveInv, SameActor
<1>2. ASSUME NEW w \in Workers, rpc'[w] = "idle"  PROVE ref'[w] = NoValue
  <2>1. w \in Actors
    BY Distinct, ZenonT(60)
  <2> QED  BY <1>2, <2>1, ZenonT(60) DEF ControlInv, SameActor
<1>3. ASSUME NEW m \in Mountpoints  PROVE MountInv(m)'
  <2>1. m \in Actors
    BY Distinct, ZenonT(60)
  <2>2. SameActor(m) /\ MountInv(m)
    BY <2>1, ZenonT(60) DEF ControlInv
  <2> QED  BY <2>2, ZenonT(60) DEF MountInv, SameActor
<1> QED  BY <1>1, <1>2, <1>3, ZenonT(60) DEF ControlInv

\* IDMapMount: a second path for the layer of a mountpoint.
LEMMA IDMapMountStep ==
    ASSUME Inv, NEW m \in Parents, NEW id \in ActiveIDs, IDMapMount(BasePath(m), id)
    PROVE  Inv'
<1>0. QueueInv /\ TypeInv /\ CachesInv /\ ControlInv /\ LayersInv /\ BlobsInv
  BY ZenonT(60) DEF Inv
<1> DEFINE p == BasePath(m)
           q == IDMappedPath(BasePath(m), id)
<1>1. /\ fsLayer[p] # NotRegistered /\ fsLayer' = [fsLayer EXCEPT ![q] = fsLayer[p]]
      /\ served' = served \union {q} \/ served' = served
      /\ UNCHANGED <<mountVars, resolveVars, cacheVars, unmounted, prVars>>
  BY ZenonT(60) DEF IDMapMount
<1>2. /\ UNCHANGED <<layerOf, sociCtx, mpc, todo, cur, prVars>>
      /\ UNCHANGED <<rpc, target, ref, bref, layerCache, blobCache, blobOf, unmounted>>
  BY <1>1, ZenonT(60) DEF mountVars, resolveVars, cacheVars
<1>3. /\ m \in Mountpoints /\ p \in Paths /\ q \in Paths
  BY Distinct, PathsDiffer, ZenonT(60)
<1>4. LayersInv'
  <2>1. served' \in {served, served \union {q}}
    BY <1>1, ZenonT(60)
  <2> QED  BY <1>0, <1>1, <1>2, <2>1, Maps, ZenonT(60)
<1>5. CachesInv'
  BY <1>0, <1>2, ZenonT(60) DEF CachesInv
<1>6. BlobsInv'
  BY <1>0, <1>2, BlobsStay, ZenonT(60)
<1>7. QueueInv'
  BY <1>0, <1>2, QueueStays, ZenonT(60)
<1>8. /\ fsLayer' \in [Paths -> (Values \X Mountpoints) \union {NotRegistered}]
      /\ \A r \in Paths : r # q => fsLayer'[r] = fsLayer[r]
  <2> HIDE DEF p, q
  <2> QED  BY <1>0, <1>1, <1>3, ZenonT(60) DEF TypeInv
<1>9. TypeInv'
  <2>1. served' \subseteq Paths
    BY <1>0, <1>1, <1>3, ZenonT(60) DEF TypeInv
  <2> QED  BY <1>0, <1>2, <1>8, <2>1, ZenonT(60) DEF TypeInv
<1>10. ASSUME NEW b \in Actors  PROVE SameActor(b)
  <2>1. ASSUME b \in Mountpoints, Unregistered(b)  PROVE Unregistered(b)'
    <3>1. b # m
      BY <1>1, <2>1, ZenonT(60) DEF Unregistered
    <3>2. BasePath(b) \in Paths /\ BasePath(b) # q
      BY <2>1, PathsDiffer, ZenonT(60)
    <3>3. ASSUME b \in Parents, NEW j \in ActiveIDs
          PROVE  fsLayer'[IDMappedPath(BasePath(b), j)] = NotRegistered
      <4>1. IDMappedPath(BasePath(b), j) \in Paths
        BY <3>3, PathsDiffer, ZenonT(60)
      <4>2. IDMappedPath(BasePath(b), j) # q
        BY <3>1, MappedOfOne, ZenonT(60)
      <4>3. fsLayer[IDMappedPath(BasePath(b), j)] = NotRegistered
        BY <2>1, <3>3, ZenonT(60) DEF Unregistered
      <4> HIDE DEF p, q
      <4> QED  BY <1>8, <4>1, <4>2, <4>3, ZenonT(60)
    <3> QED  BY <1>8, <2>1, <3>2, <3>3, ZenonT(60) DEF Unregistered
  <2> QED  BY <1>2, <2>1, ZenonT(60) DEF SameActor
<1>11. ControlInv'
  BY <1>0, <1>10, NoActorSteps, ZenonT(60)
<1> QED  BY <1>4, <1>5, <1>6, <1>7, <1>9, <1>11, ZenonT(60) DEF Inv


\* filepath.Base of a mountpoint is "fs", with and without id-mapping.
LEMMA NoIDMappedDir ==
    ASSUME NEW p \in Paths
    PROVE  ~isIDMappedDir(p)
<1>1. Len(p) = 2 /\ p[2] = <<"fs">>
  <2>1. CASE \E m \in Mountpoints : p = BasePath(m)
    BY <2>1, SMTT(60), Z3T(60) DEF BasePath
  <2>2. CASE \E m \in Parents, id \in ActiveIDs : p = IDMappedPath(BasePath(m), id)
    BY <2>2, SMTT(60), Z3T(60) DEF BasePath, IDMappedPath
  <2> QED  BY <2>1, <2>2, PathsDiffer, ZenonT(60)
<1>2. Len(<<"fs">>) = 1
  BY ZenonT(60)
<1>3. Len(p[Len(p)]) = 1
  BY <1>1, <1>2, ZenonT(60)
<1> QED  BY <1>3, SMTT(60), Z3T(60) DEF isIDMappedDir

\* A registered path has a Mount that has returned, and its owner.
LEMMA RegisteredBy ==
    ASSUME TypeInv, ControlInv, LayersInv, NEW p \in Paths, fsLayer[p] # NotRegistered
    PROVE  \E m \in Mountpoints, l \in Values : fsLayer[p] = <<l, m>> /\ ref[m] = NoValue
<1>1. /\ fsLayer[p] = <<fsLayer[p][1], fsLayer[p][2]>> /\ fsLayer[p][1] \in Values
      /\ fsLayer[p][2] \in Mountpoints
  BY RegisteredIs, ZenonT(60)
<1>2. PICK m \in Mountpoints : fsLayer[p][2] = m /\ ~Unregistered(m)
  <2>1. CASE \E m \in Mountpoints : p = BasePath(m)
    <3>1. PICK m \in Mountpoints : p = BasePath(m)
      BY <2>1, ZenonT(60)
    <3>2. fsLayer[p][2] = m
      BY <3>1, ZenonT(60) DEF LayersInv, BaseInv
    <3>3. ~Unregistered(m)
      BY <3>1, ZenonT(60) DEF Unregistered
    <3> QED  BY <3>2, <3>3, ZenonT(60)
  <2>2. CASE \E m \in Parents, id \in ActiveIDs : p = IDMappedPath(BasePath(m), id)
    <3>1. PICK m \in Parents, id \in ActiveIDs : p = IDMappedPath(BasePath(m), id)
      BY <2>2, ZenonT(60)
    <3>2. m \in Mountpoints
      BY Distinct, ZenonT(60)
    <3>3. fsLayer[p][2] = m
      BY <3>1, ZenonT(60) DEF LayersInv, MappedInv
    <3>4. ~Unregistered(m)
      BY <3>1, ZenonT(60) DEF Unregistered
    <3> QED  BY <3>2, <3>3, <3>4, ZenonT(60)
  <2> QED  BY <2>1, <2>2, PathsDiffer, ZenonT(60)
<1>3. mpc[m] \in {"mounted", "failed"} /\ MountInv(m)
  BY <1>2, ZenonT(60) DEF ControlInv, MountInv
<1>4. ref[m] = NoValue
  BY <1>3, ZenonT(60) DEF MountInv
<1> QED  BY <1>1, <1>2, <1>4, ZenonT(60)

\* Unmount: the layer is given back and leaves the cache.
LEMMA UnmountStep ==
    ASSUME Inv, NEW p \in Paths, Unmount(p)
    PROVE  Inv'
<1>0. QueueInv /\ TypeInv /\ CachesInv /\ ControlInv /\ LayersInv /\ BlobsInv
  BY ZenonT(60) DEF Inv
<1>1. /\ p \in served /\ fsLayer' = [fsLayer EXCEPT ![p] = NotRegistered]
      /\ served' = served \ {p} /\ unmounted' = unmounted \union {p}
      /\ SetLayerCache(Evict(Done(layerCache, fsLayer[p][1], fsLayer[p][2]),
                             Key(fsLayer[p][1])))
      /\ UNCHANGED <<mountVars, resolveVars, prVars>>
  BY NoIDMappedDir, ZenonT(60) DEF Unmount
<1>2. /\ UNCHANGED <<layerOf, sociCtx, mpc, todo, cur, prVars>>
      /\ UNCHANGED <<rpc, target, ref, bref>>
  BY <1>1, ZenonT(60) DEF mountVars, resolveVars
<1>3. fsLayer[p] # NotRegistered
  <2>1. CASE \E m \in Mountpoints : p = BasePath(m)
    BY <1>0, <1>1, <2>1, ZenonT(60) DEF LayersInv, BaseInv
  <2>2. CASE \E m \in Parents, id \in ActiveIDs : p = IDMappedPath(BasePath(m), id)
    BY <1>0, <1>1, <2>2, ZenonT(60) DEF LayersInv, MappedInv
  <2> QED  BY <2>1, <2>2, PathsDiffer, ZenonT(60)
<1>4. PICK m \in Mountpoints, l \in Values : fsLayer[p] = <<l, m>> /\ ref[m] = NoValue
  BY <1>0, <1>3, RegisteredBy, ZenonT(60)
<1>5. fsLayer[p][1] = l /\ fsLayer[p][2] = m /\ m \in Actors /\ m # CacheRef
  <2>1. m \in Actors /\ m # CacheRef
    BY Distinct, ZenonT(60)
  <2>2. fsLayer[p][1] = l /\ fsLayer[p][2] = m
    BY <1>4, SMTT(60), Z3T(60)
  <2> QED  BY <2>1, <2>2, ZenonT(60)
<1>6. PICK d : d = Done(layerCache, l, m)
  BY ZenonT(60)
<1>7. PICK e : e = Evict(d, Key(l))
  BY ZenonT(60)
<1>8. /\ GoodCache(d, Values, LayerHolders, MaxResults)
      /\ Loses(layerCache, d, l, m) /\ Shrinks(layerCache, d)
  BY <1>0, <1>5, <1>6, DoneHolders, ZenonT(60) DEF CachesInv
<1>9. /\ GoodCache(e, Values, LayerHolders, MaxResults)
      /\ SameHolders(d, e) /\ Shrinks(d, e)
  BY <1>7, <1>8, EvictHolders, ZenonT(60)
<1>10. SetLayerCache(e)
  BY <1>1, <1>5, <1>6, <1>7, ZenonT(60)
<1>11. \A v \in Values : e.refs[v] \subseteq layerCache.refs[v]
  BY <1>8, <1>9, ZenonT(60) DEF Shrinks
<1>12. /\ CachesInv' /\ BlobsInv' /\ layerCache' = e
       /\ blobOf' \in [Values -> Values \union {NoValue}]
  BY <1>0, <1>2, <1>9, <1>10, <1>11, ClosesLayers, ZenonT(60)
<1>13. Loses(layerCache, layerCache', l, m)
  BY <1>8, <1>9, <1>12, ZenonT(60) DEF Loses, SameHolders
<1>14. LayersInv'
  BY <1>0, <1>1, <1>2, <1>4, <1>13, Unmounts, ZenonT(60) DEF Loses
<1>15. QueueInv'
  BY <1>0, <1>2, QueueStays, ZenonT(60)
<1>16. /\ fsLayer' \in [Paths -> (Values \X Mountpoints) \union {NotRegistered}]
       /\ \A q \in Paths : fsLayer[q] = NotRegistered => fsLayer'[q] = NotRegistered
       /\ served' \subseteq Paths /\ unmounted' \subseteq Paths
  BY <1>0, <1>1, ZenonT(60) DEF TypeInv
<1>17. TypeInv'
  BY <1>0, <1>2, <1>12, <1>16, ZenonT(60) DEF TypeInv
<1>18. ASSUME NEW b \in Actors  PROVE SameActor(b)
  <2>1. ASSUME b \in Mountpoints, Unregistered(b)  PROVE Unregistered(b)'
    <3>1. BasePath(b) \in Paths
      BY <2>1, PathsDiffer, ZenonT(60)
    <3>2. b \in Parents => \A j \in ActiveIDs : IDMappedPath(BasePath(b), j) \in Paths
      BY PathsDiffer, ZenonT(60)
    <3> QED  BY <1>16, <2>1, <3>1, <3>2, ZenonT(60) DEF Unregistered
  <2> QED  BY <1>2, <2>1, ZenonT(60) DEF SameActor
<1>19. ControlInv'
  BY <1>0, <1>18, NoActorSteps, ZenonT(60)
<1> QED  BY <1>12, <1>14, <1>15, <1>17, <1>19, ZenonT(60) DEF Inv


-----------------------------------------------------------------------------
(* The invariant holds in every behaviour.                                 *)

\* Before the first Mount.
LEMMA InitInv ==
    ASSUME Init
    PROVE  Inv
<1>0. /\ layerOf \in Assignments /\ sociCtx = "new"
      /\ mpc = [m \in Mountpoints |-> "idle"] /\ todo = [m \in Mountpoints |-> {}]
      /\ cur = [m \in Mountpoints |-> NoLayer]
      /\ rpc = [a \in Actors |-> "idle"] /\ target = [a \in Actors |-> NoLayer]
      /\ ref = [a \in Actors |-> NoValue] /\ bref = [a \in Actors |-> NoValue]
      /\ layerCache = EmptyCache(Values) /\ blobCache = EmptyCache(Values)
      /\ blobOf = [v \in Values |-> NoValue] /\ fsLayer = [p \in Paths |-> NotRegistered]
      /\ served = {} /\ unmounted = {} /\ prQueue = <<>> /\ prHand = NoLayer /\ prCache = {}
  BY ZenonT(60) DEF Init
<1>1. QueueInv
  <2>1. layerOf \in [Mountpoints -> Layers]
    BY <1>0, LazyMountsAssumption, ZenonT(60) DEF Layers
  <2>2. /\ todo \in [Mountpoints -> SUBSET Indexed]
        /\ cur \in [Mountpoints -> Layers \union {NoLayer}]
        /\ \A m \in Mountpoints : mpc[m] = "store" => cur[m] \in Indexed
    BY <1>0, ZenonT(60)
  <2>3. prQueue \in Seq(Indexed) /\ Len(prQueue) <= QueueSize
    <3>1. prQueue = <<>> /\ QueueSize \in Nat
      BY <1>0, LazyMountsAssumption, ZenonT(60)
    <3> QED  BY <3>1, SMTT(60), Z3T(60)
  <2>4. sociCtx \in {"new", "fetching", "ready", "failed"}
    BY <1>0, ZenonT(60)
  <2>5. prHand \in Indexed \union {NoLayer} /\ prCache \subseteq Indexed
    BY <1>0, ZenonT(60)
  <2> QED  BY <2>1, <2>2, <2>3, <2>4, <2>5, ZenonT(60) DEF QueueInv
<1>2. TypeInv
  <2>1. /\ mpc \in [Mountpoints -> MountPcs] /\ rpc \in [Actors -> ResolvePcs]
        /\ target \in [Actors -> Layers \union {NoLayer}]
    BY <1>0, ZenonT(60) DEF MountPcs, ResolvePcs
  <2>2. /\ ref \in [Actors -> Values \union {NoValue}]
        /\ bref \in [Actors -> Values \union {NoValue}]
        /\ blobOf \in [Values -> Values \union {NoValue}]
    BY <1>0, ZenonT(60)
  <2>3. fsLayer \in [Paths -> (Values \X Mountpoints) \union {NotRegistered}]
    BY <1>0, ZenonT(60)
  <2>4. served \subseteq Paths /\ unmounted \subseteq Paths
    BY <1>0, ZenonT(60)
  <2> QED  BY <2>1, <2>2, <2>3, <2>4, ZenonT(60) DEF TypeInv
<1>3. ASSUME NEW H, CacheRef \in H
      PROVE  /\ GoodCache(EmptyCache(Values), Values, H, MaxResults)
             /\ \A v \in Values : EmptyCache(Values).refs[v] = {}
  <2>1. PICK r : r = [v \in Values |-> {}]
    BY ZenonT(60)
  <2>2. r \in [Values -> SUBSET H] /\ \A v \in Values : r[v] = {}
    BY <2>1, ZenonT(60)
  <2>3. MaxResults \in Nat
    BY Distinct, ZenonT(60)
  <2>4. GoodParts(<<>>, r, Values, H, MaxResults)
    BY <2>2, <2>3, SMTT(60), Z3T(60) DEF GoodParts, OnePerKey, Members
  <2>5. EmptyCache(Values) = Pair(<<>>, r)
    BY <2>1, ZenonT(60) DEF EmptyCache, Pair
  <2>6. /\ GoodCache(Pair(<<>>, r), Values, H, MaxResults) /\ Pair(<<>>, r).refs = r
    BY <2>4, MakesCache, SMTT(60), Z3T(60)
  <2> QED  BY <2>2, <2>5, <2>6, ZenonT(60)
<1>4. CacheRef \in LayerHolders /\ CacheRef \in BlobHolders
  BY ZenonT(60) DEF LayerHolders, BlobHolders
<1>5. CachesInv
  BY <1>0, <1>3, <1>4, ZenonT(60) DEF CachesInv
<1>6. \A v \in Values : Holders(layerCache, v) = {} /\ Holders(blobCache, v) = {}
  BY <1>0, <1>3, <1>4, ZenonT(60) DEF Holders
<1>7. /\ \A a \in Actors : /\ rpc[a] = "idle" /\ ref[a] = NoValue /\ bref[a] = NoValue
      /\ \A m \in Mountpoints : mpc[m] = "idle"
      /\ \A p \in Paths : fsLayer[p] = NotRegistered
  BY <1>0, ZenonT(60)
<1>8. ControlInv
  <2>1. ASSUME NEW a \in Actors  PROVE ResolveInv(a)
    BY <1>7, ZenonT(60) DEF ResolveInv
  <2>2. ASSUME NEW m \in Mountpoints  PROVE MountInv(m)
    <3>1. m \in Actors /\ Unregistered(m)
      BY <1>7, Distinct, PathsDiffer, ZenonT(60) DEF Unregistered
    <3> QED  BY <1>7, <3>1, ZenonT(60) DEF MountInv
  <2>3. \A w \in Workers : ref[w] = NoValue
    BY <1>7, Distinct, ZenonT(60)
  <2> QED  BY <2>1, <2>2, <2>3, ZenonT(60) DEF ControlInv
<1>9. LayersInv
  <2>1. RefsHold /\ HoldersOwn
    BY <1>6, <1>7, ZenonT(60) DEF RefsHold, HoldersOwn
  <2>2. ASSUME NEW m \in Mountpoints  PROVE BaseInv(m)
    BY <1>0, <1>7, PathsDiffer, ZenonT(60) DEF BaseInv
  <2>3. ASSUME NEW m \in Parents, NEW id \in ActiveIDs  PROVE MappedInv(m, id)
    BY <1>0, <1>7, PathsDiffer, ZenonT(60) DEF MappedInv
  <2> QED  BY <2>1, <2>2, <2>3, ZenonT(60) DEF LayersInv
<1>10. BlobsInv
  <2>1. \A l \in Values : ~LayerOpen(l)
    BY <1>0, <1>3, <1>4, AliveIs, ZenonT(60) DEF LayerOpen
  <2> QED  BY <1>6, <1>7, <2>1, ZenonT(60) DEF BlobsInv, BlobRefsHold, LayersHold, BlobHoldersOwn
<1> QED  BY <1>1, <1>2, <1>5, <1>8, <1>9, <1>10, ZenonT(60) DEF Inv

\* A step of nothing that is modelled here.
LEMMA StutterInv ==
    ASSUME Inv, UNCHANGED vars
    PROVE  Inv'
<1>0. QueueInv /\ TypeInv /\ CachesInv /\ ControlInv /\ LayersInv /\ BlobsInv
  BY ZenonT(60) DEF Inv
<1>1. UNCHANGED <<mountVars, resolveVars, cacheVars, fsVars, prVars>>
  BY ZenonT(60) DEF vars
<1>2. /\ UNCHANGED <<layerOf, sociCtx, mpc, todo, cur, prVars>>
      /\ UNCHANGED <<ref, bref, cacheVars, fsVars>>
      /\ UNCHANGED <<rpc, target, ref, bref, blobOf, fsLayer, served, unmounted>>
  BY <1>1, ZenonT(60) DEF mountVars, resolveVars, cacheVars, fsVars
<1>3. CachesInv' /\ LayersInv' /\ BlobsInv'
  BY <1>0, <1>2, Quiet, ZenonT(60)
<1>4. QueueInv'
  BY <1>0, <1>2, QueueStays, ZenonT(60)
<1>5. TypeInv'
  BY <1>0, <1>2, ZenonT(60) DEF TypeInv
<1>6. ControlInv'
  BY <1>0, <1>2, ZenonT(60) DEF ControlInv, ResolveInv, MountInv, Unregistered
<1> QED  BY <1>3, <1>4, <1>5, <1>6, ZenonT(60) DEF Inv

\* Every step.
LEMMA NextInv ==
    ASSUME Inv, [Next]_vars
    PROVE  Inv'
<1>1. ASSUME NEW m \in Mountpoints, MountStart(m) \/ MountStep(m) \/ MountTimeout(m)
      PROVE  Inv'
  BY <1>1, MountStartStep, MountResolveStep, EnqueueSendStep, EnqueueStoreStep,
     MountReceiveStep, MountNodeStep, MountTimeoutStep, ZenonT(60) DEF MountStep
<1>2. ASSUME NEW a \in Actors, ResolveStep(a)  PROVE Inv'
  BY <1>2, ResolveGetStep, ResolveBlobStep, ResolveLayerStep, ZenonT(60) DEF ResolveStep
<1>3. ASSUME NEW w \in Workers, PrStart(w) \/ PrDone(w) \/ PrForget(w)  PROVE Inv'
  BY <1>3, PrStartStep, PrDoneStep, PrForgetStep, ZenonT(60)
<1>4. ASSUME NEW m \in Parents, NEW id \in ActiveIDs, IDMapMount(BasePath(m), id)
      PROVE  Inv'
  BY <1>4, IDMapMountStep, ZenonT(60)
<1>5. ASSUME NEW p \in Paths, Unmount(p)  PROVE Inv'
  BY <1>5, UnmountStep, ZenonT(60)
<1>6. CASE IndexFetched
  BY <1>6, IndexFetchedStep, ZenonT(60)
<1>7. CASE PrTake
  BY <1>7, PrTakeStep, ZenonT(60)
<1>8. CASE UNCHANGED vars
  BY <1>8, StutterInv, ZenonT(60)
<1> QED  BY <1>1, <1>2, <1>3, <1>4, <1>5, <1>6, <1>7, <1>8, ZenonT(60) DEF Next


-----------------------------------------------------------------------------
(* The theorems, for any number of mountpoints, preresolver goroutines,    *)
(* layers and snapshots, any size of the caches and of the queue, and      *)
(* whichever steps fail.                                                   *)

\* Mount, Unmount, IDMapMount, the preresolver and Resolve keep the invariant:
\* who may hold a layer or a blob, and that nobody else does.
THEOREM InvHolds == Spec => []Inv
<1>1. Init => Inv
  BY InitInv, ZenonT(60)
<1>2. Inv /\ [Next]_vars => Inv'
  BY NextInv, ZenonT(60)
<1> QED  BY <1>1, <1>2, PTL DEF Spec

\* The variables keep their types; the queue of the preresolver and the two
\* caches keep their bounds, and a cache has its own reference to exactly the
\* values in its list.
THEOREM Typing == Spec => []TypeOK
<1>1. Inv => TypeOK
  <2> SUFFICES ASSUME Inv  PROVE TypeOK
    BY ZenonT(60)
  <2>1. QueueInv /\ TypeInv /\ CachesInv
    BY ZenonT(60) DEF Inv
  <2>2. CacheOK(layerCache, MaxResults) /\ CacheOK(blobCache, MaxResults)
    BY <2>1, ZenonT(60) DEF CachesInv, GoodCache
  <2>3. \A a \in Actors : /\ target[a] \in Layers \union {NoLayer}
                          /\ ref[a] \in Values \union {NoValue}
                          /\ bref[a] \in Values \union {NoValue}
    BY <2>1, ZenonT(60) DEF TypeInv
  <2> QED  BY <2>1, <2>2, <2>3, ZenonT(60) DEF TypeOK, QueueInv, TypeInv
<1> QED  BY <1>1, InvHolds, PTL

\* A layer that is served at its mountpoint is open, whatever the caches push
\* out, other mountpoints unmount and the preresolver gives back, as long as
\* no id-mapped mountpoint of it was unmounted.
THEOREM MountedAreOpen == Spec => []MountedLayersAreOpen
<1>1. Inv => MountedLayersAreOpen
  <2> SUFFICES ASSUME Inv, NEW m \in Mountpoints, BasePath(m) \in served,
                      \A id \in ActiveIDs : IDMappedPath(BasePath(m), id) \notin unmounted
               PROVE  LayerOpen(fsLayer[BasePath(m)][1])
    BY ZenonT(60) DEF MountedLayersAreOpen
  <2>1. TypeInv /\ BaseInv(m)
    BY ZenonT(60) DEF Inv, LayersInv
  <2>2. /\ fsLayer[BasePath(m)] # NotRegistered
        /\ m \in Holders(layerCache, fsLayer[BasePath(m)][1])
    BY <2>1, ZenonT(60) DEF BaseInv
  <2>3. BasePath(m) \in Paths
    BY PathsDiffer, ZenonT(60)
  <2>4. fsLayer[BasePath(m)][1] \in Values
    BY <2>1, <2>2, <2>3, RegisteredIs, ZenonT(60)
  <2>5. layerCache.refs[fsLayer[BasePath(m)][1]] # {}
    BY <2>2, ZenonT(60) DEF Holders
  <2> QED  BY <2>4, <2>5, AliveIs, ZenonT(60) DEF LayerOpen
<1> QED  BY <1>1, InvHolds, PTL

\* An open layer has an open blob: evicting a blob from its cache, or closing
\* another layer with the same blob, does not close it.
THEOREM OpenLayersCanRead == Spec => []OpenLayersHaveOpenBlobs
<1>1. Inv => OpenLayersHaveOpenBlobs
  <2> SUFFICES ASSUME Inv, NEW l \in Values, LayerOpen(l)
               PROVE  Alive(blobCache, blobOf[l])
    BY ZenonT(60) DEF OpenLayersHaveOpenBlobs
  <2>1. blobOf[l] \in Values /\ l \in Holders(blobCache, blobOf[l])
    BY ZenonT(60) DEF Inv, BlobsInv, LayersHold
  <2>2. blobCache.refs[blobOf[l]] # {}
    BY <2>1, ZenonT(60) DEF Holders
  <2> QED  BY <2>1, <2>2, AliveIs, ZenonT(60)
<1> QED  BY <1>1, InvHolds, PTL

\* No reference is left behind: every one belongs to a goroutine, a Mount or a
\* registered path, or, for a blob, to an open layer.
THEOREM NoReferenceLeaks == Spec => []ReferencesAreOwned
<1>1. Inv => ReferencesAreOwned
  BY ZenonT(60) DEF Inv, LayersInv, HoldersOwn, BlobsInv, BlobHoldersOwn, Holders, ReferencesAreOwned
<1> QED  BY <1>1, InvHolds, PTL

=============================================================================
