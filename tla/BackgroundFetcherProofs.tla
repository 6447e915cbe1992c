----------------------- MODULE BackgroundFetcherProofs -----------------------
(***************************************************************************)
(* Proofs about the background fetcher, for any layers, number of spans,   *)
(* queue limit and drop policy.                                            *)
(*                                                                         *)
(* InOnePlace counts; what a step preserves is said without counting:      *)
(* no layer is twice in the queue, the queue and the goroutines share no   *)
(* layer, and together they hold the mounted layers without a fate.        *)
(***************************************************************************)
EXTENDS BackgroundFetcher, FiniteSetTheorems, TLAPS

\* A layer is in a queue; nothing is in it twice.
Has(q, l) == \E i \in 1 .. Len(q) : q[i] = l
NoDup(q) == \A i, j \in 1 .. Len(q) : q[i] = q[j] => i = j

\* Taking the head of a queue without repetitions removes that layer from it.
LEMMA TailFacts ==
    ASSUME NEW S, NEW q \in Seq(S), q # <<>>, NoDup(q)
    PROVE  /\ Head(q) \in S /\ Has(q, Head(q))
           /\ Tail(q) \in Seq(S) /\ Len(Tail(q)) = Len(q) - 1
           /\ NoDup(Tail(q))
           /\ \A l : Has(Tail(q), l) <=> Has(q, l) /\ l # Head(q)
<1>1. Len(q) \in Nat /\ Len(q) > 0 /\ Head(q) = q[1] /\ Head(q) \in S
  BY SMTT(60), Z3T(60)
<1>2. Tail(q) \in Seq(S) /\ Len(Tail(q)) = Len(q) - 1
  BY SMTT(60), Z3T(60)
<1>3. \A i \in 1 .. Len(Tail(q)) : Tail(q)[i] = q[i + 1]
  BY SMTT(60), Z3T(60)
<1>4. Has(q, Head(q))
  BY <1>1, SMTT(60), Z3T(60) DEF Has
<1>5. NoDup(Tail(q))
  BY <1>1, <1>2, <1>3, SMTT(60), Z3T(60) DEF NoDup
<1>6. ASSUME NEW l PROVE Has(Tail(q), l) <=> Has(q, l) /\ l # Head(q)
  <2>1. ASSUME Has(Tail(q), l) PROVE Has(q, l) /\ l # Head(q)
    <3>1. PICK i \in 1 .. Len(Tail(q)) : Tail(q)[i] = l
      BY <2>1, ZenonT(60) DEF Has
    <3>2. i + 1 \in 1 .. Len(q) /\ q[i + 1] = l /\ i + 1 # 1 /\ 1 \in 1 .. Len(q)
      BY <1>1, <1>2, <1>3, <3>1, SMTT(60), Z3T(60)
    <3>3. QED
      BY <1>1, <3>2, ZenonT(60) DEF Has, NoDup
  <2>2. ASSUME Has(q, l), l # Head(q) PROVE Has(Tail(q), l)
    <3>1. PICK i \in 1 .. Len(q) : q[i] = l
      BY <2>2, ZenonT(60) DEF Has
    <3>2. i - 1 \in 1 .. Len(Tail(q)) /\ (i - 1) + 1 = i
      BY <1>1, <1>2, <2>2, <3>1, SMTT(60), Z3T(60)
    <3>3. Tail(q)[i - 1] = l
      BY <1>3, <3>1, <3>2, ZenonT(60)
    <3>4. QED
      BY <3>2, <3>3, ZenonT(60) DEF Has
  <2>3. QED
    BY <2>1, <2>2, ZenonT(60)
<1>7. QED
  BY <1>1, <1>2, <1>4, <1>5, <1>6, ZenonT(60)

\* Appending a layer that is not in the queue adds that layer, once.
LEMMA AppendFacts ==
    ASSUME NEW S, NEW q \in Seq(S), NEW l \in S, NoDup(q), ~Has(q, l)
    PROVE  /\ Append(q, l) \in Seq(S) /\ Len(Append(q, l)) = Len(q) + 1
           /\ NoDup(Append(q, l))
           /\ \A m : Has(Append(q, l), m) <=> Has(q, m) \/ m = l
<1>1. /\ Append(q, l) \in Seq(S) /\ Len(Append(q, l)) = Len(q) + 1 /\ Len(q) \in Nat
      /\ \A i \in 1 .. Len(q) : Append(q, l)[i] = q[i]
      /\ Append(q, l)[Len(q) + 1] = l
  BY SMTT(60), Z3T(60)
<1>2. \A i \in 1 .. Len(q) + 1 : i \in 1 .. Len(q) \/ i = Len(q) + 1
  BY <1>1, SMTT(60), Z3T(60)
<1>3. NoDup(Append(q, l))
  BY <1>1, <1>2, ZenonT(60) DEF NoDup, Has
<1>4. \A m : Has(Append(q, l), m) <=> Has(q, m) \/ m = l
  BY <1>1, <1>2, SMTT(60), Z3T(60) DEF Has
<1>5. QED
  BY <1>1, <1>3, <1>4, ZenonT(60)

(* The inductive invariant.                                                *)

\* Where a layer may be; one of them at a time.
Placed(l) == Has(workQueue, l) \/ l \in started \/ l \in fetching \/ l \in returned

\* A layer is in one place at most: in the queue, or with a goroutine that was
\* started, that fetches or that comes back; in one of them as long as it is
\* mounted and has no fate.
PlacedOnce(l) ==
    /\ Has(workQueue, l) => l \notin started /\ l \notin fetching /\ l \notin returned
    /\ l \in started => l \notin fetching /\ l \notin returned
    /\ l \in fetching => l \notin returned
    /\ Placed(l) <=> l \in mounted /\ fate[l] = "none"
    /\ l \notin mounted => fate[l] = "none"

\* Every layer, and nothing twice in the queue.
OnePlace ==
    /\ NoDup(workQueue)
    /\ \A l \in Layers : PlacedOnce(l)

\* A late fetch is the one of a goroutine that was started before the close.
LateIsClosed ==
    \A l \in Layers :
        /\ late[l] \in {0, 1}
        /\ late[l] = 1 => l \in closed
        /\ l \in started => late[l] = 0

Inv == TypeOK /\ OnePlace /\ QueueBounded /\ LateIsClosed /\ CompleteMeansAll

\* What Add does to the queue, whether it is full or not: it takes in the layer
\* and lets go of the layers of the set E, of which it notes the fate.
LEMMA AddFacts ==
    ASSUME Inv, NEW l \in Layers, ~Has(workQueue, l), Add(l), maxQueueSize' = maxQueueSize
    PROVE  /\ workQueue' \in Seq(Layers) /\ NoDup(workQueue') /\ QueueBounded'
           /\ \E E \in SUBSET Layers :
                /\ \A m \in E : Has(workQueue, m) \/ m = l
                /\ \A m \in Layers : Has(workQueue', m) <=> (Has(workQueue, m) \/ m = l) /\ m \notin E
                /\ fate' = [m \in Layers |-> IF m \in E THEN "evicted" ELSE fate[m]]
<1>1. /\ workQueue \in Seq(Layers) /\ NoDup(workQueue) /\ QueueBounded /\ maxQueueSize \in Int
      /\ fate \in [Layers -> {"none", "evicted", "closed", "complete", "failed"}]
  BY BackgroundFetcherAssumption, ZenonT(60) DEF Inv, TypeOK, OnePlace
<1>2. CASE ~Full
  <2>1. workQueue' = Append(workQueue, l) /\ fate' = fate
    BY <1>2, ZenonT(60) DEF Add
  <2>2. /\ workQueue' \in Seq(Layers) /\ NoDup(workQueue')
        /\ Len(workQueue') = Len(workQueue) + 1
        /\ \A m : Has(workQueue', m) <=> Has(workQueue, m) \/ m = l
    BY <1>1, <2>1, AppendFacts, ZenonT(60)
  <2>3. QueueBounded'
    BY <1>1, <1>2, <2>2, SMTT(60), Z3T(60) DEF QueueBounded, Full
  <2>4. fate' = [m \in Layers |-> IF m \in {} THEN "evicted" ELSE fate[m]]
    BY <1>1, <2>1, ZenonT(60)
  <2>5. \A m \in Layers : Has(workQueue', m) <=> (Has(workQueue, m) \/ m = l) /\ m \notin {}
    BY <2>2, ZenonT(60)
  <2>6. \E E \in SUBSET Layers :
           /\ \A m \in E : Has(workQueue, m) \/ m = l
           /\ \A m \in Layers : Has(workQueue', m) <=> (Has(workQueue, m) \/ m = l) /\ m \notin E
           /\ fate' = [m \in Layers |-> IF m \in E THEN "evicted" ELSE fate[m]]
    <3>1. {} \in SUBSET Layers /\ \A m \in {} : Has(workQueue, m) \/ m = l
      BY ZenonT(60)
    <3>2. QED
      BY <2>4, <2>5, <3>1, ZenonT(60)
  <2>7. QED
    BY <2>2, <2>3, <2>6, ZenonT(60)
<1>3. CASE Full /\ dropPolicy = "oldest"
  <2>1. workQueue' = Append(Tail(workQueue), l) /\ fate' = [fate EXCEPT ![Head(workQueue)] = "evicted"]
    BY <1>3, ZenonT(60) DEF Add
  <2>2. workQueue # <<>>
    BY <1>1, <1>3, SMTT(60), Z3T(60) DEF Full
  <2>3. PICK h \in Layers : h = Head(workQueue) /\ Has(workQueue, h)
    BY <1>1, <2>2, TailFacts, ZenonT(60)
  <2>4. /\ Tail(workQueue) \in Seq(Layers) /\ NoDup(Tail(workQueue))
        /\ Len(Tail(workQueue)) = Len(workQueue) - 1
        /\ \A m : Has(Tail(workQueue), m) <=> Has(workQueue, m) /\ m # h
    BY <1>1, <2>2, <2>3, TailFacts, ZenonT(60)
  <2>5. /\ workQueue' \in Seq(Layers) /\ NoDup(workQueue')
        /\ Len(workQueue') = Len(Tail(workQueue)) + 1
        /\ \A m : Has(workQueue', m) <=> Has(Tail(workQueue), m) \/ m = l
    BY <2>1, <2>4, AppendFacts, ZenonT(60)
  <2>6. QueueBounded'
    BY <1>1, <2>4, <2>5, SMTT(60), Z3T(60) DEF QueueBounded
  <2>7. fate' = [m \in Layers |-> IF m \in {h} THEN "evicted" ELSE fate[m]]
    BY <1>1, <2>1, <2>3, ZenonT(60)
  <2>8. \A m \in Layers : Has(workQueue', m) <=> (Has(workQueue, m) \/ m = l) /\ m \notin {h}
    BY <2>3, <2>4, <2>5, ZenonT(60)
  <2>9. QED
    BY <2>3, <2>5, <2>6, <2>7, <2>8, ZenonT(60)
<1>4. CASE Full /\ dropPolicy # "oldest"
  <2>1. workQueue' = workQueue /\ fate' = [fate EXCEPT ![l] = "evicted"]
    BY <1>4, ZenonT(60) DEF Add
  <2>2. QueueBounded'
    BY <1>1, <2>1, ZenonT(60) DEF QueueBounded
  <2>3. fate' = [m \in Layers |-> IF m \in {l} THEN "evicted" ELSE fate[m]]
    BY <1>1, <2>1, ZenonT(60)
  <2>4. \A m \in Layers : Has(workQueue', m) <=> (Has(workQueue, m) \/ m = l) /\ m \notin {l}
    BY <2>1, ZenonT(60)
  <2>5. QED
    BY <1>1, <2>1, <2>2, <2>3, <2>4, ZenonT(60)
<1>5. QED
  BY <1>2, <1>3, <1>4, ZenonT(60)

\* Add for a layer that no goroutine and no queue holds: it finds its place
\* there, or its fate.
LEMMA MountStep ==
    ASSUME Inv, NEW l \in Layers, Mount(l)
    PROVE  Inv'
<1>1. /\ l \notin mounted /\ mounted' = mounted \cup {l} /\ Add(l)
      /\ maxQueueSize' = maxQueueSize /\ dropPolicy' = dropPolicy
      /\ UNCHANGED <<closed, next, started, fetching, returned, late, loopVars>>
  BY ZenonT(60) DEF Mount, config
<1>2. ~Has(workQueue, l) /\ l \notin started /\ l \notin fetching /\ l \notin returned
  BY <1>1, ZenonT(60) DEF Inv, OnePlace, PlacedOnce, Placed
<1>3. /\ workQueue' \in Seq(Layers) /\ NoDup(workQueue') /\ QueueBounded'
      /\ \E E \in SUBSET Layers :
           /\ \A m \in E : Has(workQueue, m) \/ m = l
           /\ \A m \in Layers : Has(workQueue', m) <=> (Has(workQueue, m) \/ m = l) /\ m \notin E
           /\ fate' = [m \in Layers |-> IF m \in E THEN "evicted" ELSE fate[m]]
  BY <1>1, <1>2, AddFacts, ZenonT(60)
<1>4. PICK E \in SUBSET Layers :
           /\ \A m \in E : Has(workQueue, m) \/ m = l
           /\ \A m \in Layers : Has(workQueue', m) <=> (Has(workQueue, m) \/ m = l) /\ m \notin E
           /\ fate' = [m \in Layers |-> IF m \in E THEN "evicted" ELSE fate[m]]
  BY <1>3, ZenonT(60)
<1>5. TypeOK'
  BY <1>1, <1>3, <1>4, SMTT(60), Z3T(60) DEF Inv, TypeOK, loopVars
<1>6. OnePlace'
  <2>1. SUFFICES ASSUME NEW m \in Layers PROVE PlacedOnce(m)'
    BY <1>3, ZenonT(60) DEF OnePlace
  <2>2. PlacedOnce(m) /\ fate[l] = "none"
    BY <1>1, ZenonT(60) DEF Inv, OnePlace, PlacedOnce
  <2>3. fate'[m] = IF m \in E THEN "evicted" ELSE fate[m]
    BY <1>4, ZenonT(60)
  <2>4. QED
    BY <1>1, <1>2, <1>4, <2>2, <2>3, ZenonT(60) DEF PlacedOnce, Placed
<1>7. LateIsClosed'
  BY <1>1, ZenonT(60) DEF Inv, LateIsClosed
<1>8. CompleteMeansAll'
  BY <1>1, <1>4, ZenonT(60) DEF Inv, CompleteMeansAll
<1>9. QED
  BY <1>3, <1>5, <1>6, <1>7, <1>8, ZenonT(60) DEF Inv

\* The goroutine appends the layer that it holds.
LEMMA AddAgainStep ==
    ASSUME Inv, NEW l \in Layers, AddAgain(l)
    PROVE  Inv'
<1>1. /\ l \in returned /\ returned' = returned \ {l} /\ Add(l)
      /\ maxQueueSize' = maxQueueSize /\ dropPolicy' = dropPolicy
      /\ UNCHANGED <<mounted, closed, next, started, fetching, late, loopVars>>
  BY ZenonT(60) DEF AddAgain, config
<1>2. ~Has(workQueue, l) /\ l \notin started /\ l \notin fetching /\ l \in mounted /\ fate[l] = "none"
  BY <1>1, ZenonT(60) DEF Inv, OnePlace, PlacedOnce, Placed
<1>3. /\ workQueue' \in Seq(Layers) /\ NoDup(workQueue') /\ QueueBounded'
      /\ \E E \in SUBSET Layers :
           /\ \A m \in E : Has(workQueue, m) \/ m = l
           /\ \A m \in Layers : Has(workQueue', m) <=> (Has(workQueue, m) \/ m = l) /\ m \notin E
           /\ fate' = [m \in Layers |-> IF m \in E THEN "evicted" ELSE fate[m]]
  BY <1>1, <1>2, AddFacts, ZenonT(60)
<1>4. PICK E \in SUBSET Layers :
           /\ \A m \in E : Has(workQueue, m) \/ m = l
           /\ \A m \in Layers : Has(workQueue', m) <=> (Has(workQueue, m) \/ m = l) /\ m \notin E
           /\ fate' = [m \in Layers |-> IF m \in E THEN "evicted" ELSE fate[m]]
  BY <1>3, ZenonT(60)
<1>5. TypeOK'
  BY <1>1, <1>3, <1>4, SMTT(60), Z3T(60) DEF Inv, TypeOK, loopVars
<1>6. OnePlace'
  <2>1. SUFFICES ASSUME NEW m \in Layers PROVE PlacedOnce(m)'
    BY <1>3, ZenonT(60) DEF OnePlace
  <2>2. PlacedOnce(m)
    BY ZenonT(60) DEF Inv, OnePlace
  <2>3. fate'[m] = IF m \in E THEN "evicted" ELSE fate[m]
    BY <1>4, ZenonT(60)
  <2>4. QED
    BY <1>1, <1>2, <1>4, <2>2, <2>3, ZenonT(60) DEF PlacedOnce, Placed
<1>7. LateIsClosed'
  BY <1>1, ZenonT(60) DEF Inv, LateIsClosed
<1>8. CompleteMeansAll'
  BY <1>1, <1>4, ZenonT(60) DEF Inv, CompleteMeansAll
<1>9. QED
  BY <1>3, <1>5, <1>6, <1>7, <1>8, ZenonT(60) DEF Inv

\* The loop takes the head: a closed layer gets its fate, another a goroutine.
LEMMA RunPopStep ==
    ASSUME Inv, RunPop
    PROVE  Inv'
<1>1. /\ run' \in {"wait", "pause"}
      /\ maxQueueSize' = maxQueueSize /\ dropPolicy' = dropPolicy
      /\ UNCHANGED <<mounted, closed, next, fetching, returned, late, pauseChan, emitter, closeCalls, ctxDone>>
  BY ZenonT(60) DEF RunPop, config
<1>2. CASE UNCHANGED <<workQueue, started, fate>>
  BY <1>1, <1>2, ZenonT(60) DEF Inv, TypeOK, OnePlace, PlacedOnce, Placed, QueueBounded, LateIsClosed, CompleteMeansAll
<1>3. CASE ~UNCHANGED <<workQueue, started, fate>>
  <2>1. /\ workQueue # <<>> /\ workQueue' = Tail(workQueue)
        /\ \/ /\ fate' = [fate EXCEPT ![Head(workQueue)] = "closed"]
              /\ started' = started
           \/ /\ Head(workQueue) \notin closed
              /\ started' = started \cup {Head(workQueue)}
              /\ fate' = fate
    BY <1>3, ZenonT(60) DEF RunPop, Closed
  <2>2. workQueue \in Seq(Layers) /\ NoDup(workQueue) /\ maxQueueSize \in Int
    BY BackgroundFetcherAssumption, ZenonT(60) DEF Inv, TypeOK, OnePlace
  <2>3. PICK h \in Layers : h = Head(workQueue) /\ Has(workQueue, h)
    BY <2>1, <2>2, TailFacts, ZenonT(60)
  <2>4. /\ workQueue' \in Seq(Layers) /\ NoDup(workQueue')
        /\ Len(workQueue') = Len(workQueue) - 1
        /\ \A m : Has(workQueue', m) <=> Has(workQueue, m) /\ m # h
    BY <2>1, <2>2, <2>3, TailFacts, ZenonT(60)
  <2>5. h \notin started /\ h \notin fetching /\ h \notin returned /\ h \in mounted /\ fate[h] = "none"
    BY <2>3, ZenonT(60) DEF Inv, OnePlace, PlacedOnce, Placed
  <2>6. TypeOK'
    BY <1>1, <2>1, <2>3, <2>4, ZenonT(60) DEF Inv, TypeOK
  <2>7. \A m \in Layers : m # h => fate'[m] = fate[m] /\ (m \in started' <=> m \in started)
    BY <2>1, <2>3, ZenonT(60) DEF Inv, TypeOK
  <2>8. OnePlace'
    <3>1. SUFFICES ASSUME NEW m \in Layers PROVE PlacedOnce(m)'
      BY <2>4, ZenonT(60) DEF OnePlace
    <3>2. PlacedOnce(m)
      BY ZenonT(60) DEF Inv, OnePlace
    <3>3. CASE m = h
      <4>1. \/ m \notin started' /\ fate'[m] = "closed"
            \/ m \in started' /\ fate'[m] = "none"
        BY <2>1, <2>3, <2>5, <3>3, ZenonT(60) DEF Inv, TypeOK
      <4>2. QED
        BY <1>1, <2>4, <2>5, <3>3, <4>1, ZenonT(60) DEF PlacedOnce, Placed
    <3>4. CASE m # h
      BY <1>1, <2>4, <2>7, <3>2, <3>4, ZenonT(60) DEF PlacedOnce, Placed
    <3>5. QED
      BY <3>3, <3>4, ZenonT(60)
  <2>9. QueueBounded'
    BY <1>1, <2>2, <2>4, SMTT(60), Z3T(60) DEF Inv, QueueBounded
  <2>10. LateIsClosed'
    BY <1>1, <2>1, <2>3, ZenonT(60) DEF Inv, LateIsClosed
  <2>11. CompleteMeansAll'
    <3>1. fate'[h] # "complete"
      BY <2>1, <2>3, <2>5, ZenonT(60) DEF Inv, TypeOK
    <3>2. QED
      BY <1>1, <2>7, <3>1, ZenonT(60) DEF Inv, CompleteMeansAll
  <2>12. QED
    BY <2>6, <2>8, <2>9, <2>10, <2>11, ZenonT(60) DEF Inv
<1>4. QED
  BY <1>2, <1>3, ZenonT(60)

\* A goroutine enters Resolve: late if its layer was closed in the meantime,
\* which can happen once, since closed layers get no other goroutine.
LEMMA ResolveStep ==
    ASSUME Inv, NEW l \in Layers, Resolve(l)
    PROVE  Inv'
<1>1. /\ l \in started /\ started' = started \ {l} /\ fetching' = fetching \cup {l}
      /\ late' = [late EXCEPT ![l] = IF l \in closed THEN @ + 1 ELSE @]
      /\ maxQueueSize' = maxQueueSize /\ dropPolicy' = dropPolicy
      /\ UNCHANGED <<workQueue, fate, mounted, closed, next, returned, loopVars>>
  BY ZenonT(60) DEF Resolve, queueVars, config
<1>2. late[l] = 0
  BY <1>1, ZenonT(60) DEF Inv, LateIsClosed
<1>3. TypeOK'
  BY <1>1, SMTT(60), Z3T(60) DEF Inv, TypeOK, loopVars
<1>4. OnePlace'
  BY <1>1, ZenonT(60) DEF Inv, OnePlace, PlacedOnce, Placed
<1>5. LateIsClosed'
  BY <1>1, <1>2, SMTT(60), Z3T(60) DEF Inv, TypeOK, LateIsClosed
<1>6. QED
  BY <1>1, <1>3, <1>4, <1>5, ZenonT(60) DEF Inv, QueueBounded, CompleteMeansAll

\* Resolve returns: the layer has a fate, or the goroutine holds it still.
LEMMA ResolveReturnsStep ==
    ASSUME Inv, NEW l \in Layers, ResolveReturns(l)
    PROVE  Inv'
<1>1. /\ l \in fetching /\ fetching' = fetching \ {l}
      /\ maxQueueSize' = maxQueueSize /\ dropPolicy' = dropPolicy
      /\ UNCHANGED <<workQueue, mounted, closed, started, late, loopVars>>
  BY ZenonT(60) DEF ResolveReturns, config
<1>2. l \notin started /\ l \notin returned /\ ~Has(workQueue, l) /\ l \in mounted /\ fate[l] = "none"
  BY <1>1, ZenonT(60) DEF Inv, OnePlace, PlacedOnce, Placed
<1>3. CASE /\ ~(next[l] > MaxSpanID) /\ next' = [next EXCEPT ![l] = @ + 1]
           /\ returned' = returned \cup {l} /\ fate' = fate
  <2>1. next[l] \in 0 .. MaxSpanID
    BY <1>3, BackgroundFetcherAssumption, SMTT(60), Z3T(60) DEF Inv, TypeOK
  <2>2. TypeOK'
    BY <1>1, <1>3, <2>1, BackgroundFetcherAssumption, SMTT(60), Z3T(60) DEF Inv, TypeOK, loopVars
  <2>3. OnePlace'
    BY <1>1, <1>2, <1>3, ZenonT(60) DEF Inv, OnePlace, PlacedOnce, Placed
  <2>4. CompleteMeansAll'
    BY <1>2, <1>3, ZenonT(60) DEF Inv, TypeOK, CompleteMeansAll
  <2>5. QED
    BY <1>1, <2>2, <2>3, <2>4, ZenonT(60) DEF Inv, QueueBounded, LateIsClosed
<1>4. CASE /\ \/ next[l] > MaxSpanID /\ fate' = [fate EXCEPT ![l] = "complete"]
              \/ fate' = [fate EXCEPT ![l] = "failed"]
           /\ next' = next /\ returned' = returned
  <2>1. TypeOK'
    BY <1>1, <1>4, ZenonT(60) DEF Inv, TypeOK, loopVars
  <2>2. /\ fate'[l] # "none"
        /\ fate'[l] = "complete" => next[l] = MaxSpanID + 1
        /\ \A m \in Layers : m # l => fate'[m] = fate[m]
    BY <1>4, BackgroundFetcherAssumption, SMTT(60), Z3T(60) DEF Inv, TypeOK
  <2>3. OnePlace'
    BY <1>1, <1>2, <1>4, <2>2, ZenonT(60) DEF Inv, OnePlace, PlacedOnce, Placed
  <2>4. CompleteMeansAll'
    BY <1>4, <2>2, ZenonT(60) DEF Inv, CompleteMeansAll
  <2>5. QED
    BY <1>1, <2>1, <2>3, <2>4, ZenonT(60) DEF Inv, QueueBounded, LateIsClosed
<1>5. QED
  BY <1>3, <1>4, ZenonT(60) DEF ResolveReturns, ExceedsMaxSpan

\* What does not touch the queue, the goroutines or the layers.
LEMMA OtherSteps ==
    ASSUME Inv,
           \/ \E l \in Layers : CloseResolver(l)
           \/ RunPause \/ RunSelect \/ RunWait \/ Pause \/ Close \/ Cancel \/ EmitterStops
           \/ UNCHANGED vars
    PROVE  Inv'
<1>1. /\ UNCHANGED <<maxQueueSize, dropPolicy, workQueue, fate, mounted, next, started, fetching, returned, late>>
      /\ closed' = closed \/ \E l \in Layers : l \in mounted /\ closed' = closed \cup {l}
  BY ZenonT(60) DEF CloseResolver, RunPause, RunSelect, RunWait, Pause, Close, Cancel, EmitterStops, vars,
       queueVars, layerVars, config
<1>2. pauseChan' \in BOOLEAN /\ emitter' \in BOOLEAN /\ ctxDone' \in BOOLEAN
  BY ZenonT(60) DEF CloseResolver, RunPause, RunSelect, RunWait, Pause, Close, Cancel, EmitterStops, vars,
       loopVars, Inv, TypeOK
<1>3. run' \in {"pause", "select", "pop", "wait", "stopped"}
  BY ZenonT(60) DEF CloseResolver, RunPause, RunSelect, RunWait, Pause, Close, Cancel, EmitterStops, vars,
       loopVars, Inv, TypeOK
<1>4. closeCalls' \in {0, 1}
  BY SMTT(60), Z3T(60) DEF CloseResolver, RunPause, RunSelect, RunWait, Pause, Close, Cancel, EmitterStops, vars,
       loopVars, Inv, TypeOK
<1>5. TypeOK'
  BY <1>1, <1>2, <1>3, <1>4, ZenonT(60) DEF Inv, TypeOK
<1>6. OnePlace' /\ QueueBounded' /\ CompleteMeansAll'
  BY <1>1, ZenonT(60) DEF Inv, OnePlace, PlacedOnce, Placed, QueueBounded, CompleteMeansAll
<1>7. LateIsClosed'
  BY <1>1, ZenonT(60) DEF Inv, LateIsClosed
<1>8. QED
  BY <1>5, <1>6, <1>7, ZenonT(60) DEF Inv

\* Every step of mounts, unmounts, the Run loop and its goroutines preserves
\* the invariant.
THEOREM InvHolds == Spec => []Inv
<1>1. Init => Inv
  <2>1. SUFFICES ASSUME Init PROVE Inv
    BY ZenonT(60)
  <2>2. TypeOK
    <3>1. pauseChan \in BOOLEAN /\ emitter \in BOOLEAN /\ ctxDone \in BOOLEAN
      BY <2>1, ZenonT(60) DEF Init
    <3>2. /\ workQueue \in Seq(Layers) /\ closeCalls \in {0, 1}
          /\ {mounted, closed, started, fetching, returned} \subseteq SUBSET Layers
      BY <2>1, SMTT(60), Z3T(60) DEF Init
    <3>3. next \in [Layers -> 0 .. MaxSpanID + 1] /\ late \in [Layers -> Nat]
      BY <2>1, BackgroundFetcherAssumption, SMTT(60), Z3T(60) DEF Init
    <3>4. /\ run \in {"pause", "select", "pop", "wait", "stopped"}
          /\ fate \in [Layers -> {"none", "evicted", "closed", "complete", "failed"}]
          /\ maxQueueSize \in MaxQueueSizes /\ dropPolicy \in DropPolicies
      BY <2>1, ZenonT(60) DEF Init
    <3>5. QED
      BY <3>1, <3>2, <3>3, <3>4, ZenonT(60) DEF TypeOK
  <2>3. \A l : ~Has(workQueue, l)
    BY <2>1, SMTT(60), Z3T(60) DEF Init, Has
  <2>4. NoDup(workQueue)
    BY <2>1, SMTT(60), Z3T(60) DEF Init, NoDup
  <2>5. OnePlace
    BY <2>1, <2>3, <2>4, ZenonT(60) DEF Init, OnePlace, PlacedOnce, Placed
  <2>6. QueueBounded
    BY <2>1, BackgroundFetcherAssumption, SMTT(60), Z3T(60) DEF Init, QueueBounded
  <2>7. LateIsClosed /\ CompleteMeansAll
    BY <2>1, SMTT(60), Z3T(60) DEF Init, LateIsClosed, CompleteMeansAll
  <2>8. QED
    BY <2>2, <2>5, <2>6, <2>7, ZenonT(60) DEF Inv
<1>2. Inv /\ [Next]_vars => Inv'
  <2>1. SUFFICES ASSUME Inv, [Next]_vars PROVE Inv'
    BY ZenonT(60)
  <2>2. CASE Next
    BY <2>1, <2>2, MountStep, AddAgainStep, RunPopStep, ResolveStep, ResolveReturnsStep, OtherSteps, ZenonT(60)
    DEF Next, RunStep, GoStep
  <2>3. CASE UNCHANGED vars
    BY <2>1, <2>3, OtherSteps, ZenonT(60)
  <2>4. QED
    BY <2>1, <2>2, <2>3, ZenonT(60)
<1>3. QED
  BY <1>1, <1>2, PTL DEF Spec

\* The queue, the resolvers and the loop have their types; the next span of a
\* layer is never further than one past its last.
THEOREM Typing == Spec => []TypeOK
<1>1. Inv => TypeOK
  BY ZenonT(60) DEF Inv
<1>2. QED
  BY <1>1, InvHolds, PTL

\* Add keeps the queue within MaxQueueSize, whoever appends.
THEOREM QueueIsBounded == Spec => []QueueBounded
<1>1. Inv => QueueBounded
  BY ZenonT(60) DEF Inv
<1>2. QED
  BY <1>1, InvHolds, PTL

\* Run starts no goroutine for a layer that it finds closed, so that at most
\* one fetch begins after the close.
THEOREM FewLateFetches == Spec => []OneLateFetch
<1>1. Inv => OneLateFetch
  <2>1. SUFFICES ASSUME Inv, NEW l \in Layers PROVE late[l] =< 1
    BY ZenonT(60) DEF OneLateFetch
  <2>2. late[l] \in {0, 1}
    BY <2>1, ZenonT(60) DEF Inv, LateIsClosed
  <2>3. QED
    BY <2>2, SMTT(60), Z3T(60)
<1>2. QED
  BY <1>1, InvHolds, PTL

\* The resolver reports the end of a layer only after its last span.
THEOREM CompleteIsWhole == Spec => []CompleteMeansAll
<1>1. Inv => CompleteMeansAll
  BY ZenonT(60) DEF Inv
<1>2. QED
  BY <1>1, InvHolds, PTL

\* A queue without repetitions holds a layer once or not at all.
LEMMA QueueCount ==
    ASSUME NEW S, NEW q \in Seq(S), NEW l, NoDup(q)
    PROVE  Cardinality({i \in DOMAIN q : q[i] = l}) = IF Has(q, l) THEN 1 ELSE 0
<1>1. DOMAIN q = 1 .. Len(q)
  BY SMTT(60), Z3T(60)
<1>2. CASE Has(q, l)
  <2>1. PICK i \in 1 .. Len(q) : q[i] = l
    BY <1>2, ZenonT(60) DEF Has
  <2>2. {j \in DOMAIN q : q[j] = l} = {i}
    BY <1>1, <2>1, ZenonT(60) DEF NoDup
  <2>3. QED
    BY <1>2, <2>2, FS_Singleton, ZenonT(60)
<1>3. CASE ~Has(q, l)
  <2>1. {j \in DOMAIN q : q[j] = l} = {}
    BY <1>1, <1>3, ZenonT(60) DEF Has
  <2>2. QED
    BY <1>3, <2>1, FS_EmptySet, ZenonT(60)
<1>4. QED
  BY <1>2, <1>3, ZenonT(60)

\* No layer is lost between a pop and the append that follows it, and none is
\* in the hands of two goroutines, which would share its nextSpanFetchID.
THEOREM PlacedOnceOnly == Spec => []InOnePlace
<1>1. Inv => InOnePlace
  <2>1. SUFFICES ASSUME Inv, NEW l \in Layers
        PROVE  Places(l) = IF l \in mounted /\ fate[l] = "none" THEN 1 ELSE 0
    BY ZenonT(60) DEF InOnePlace
  <2> DEFINE G == {S \in {<<1, started>>, <<2, fetching>>, <<3, returned>>} : l \in S[2]}
  <2>2. PlacedOnce(l) /\ NoDup(workQueue) /\ workQueue \in Seq(Layers)
    BY <2>1, ZenonT(60) DEF Inv, OnePlace, TypeOK
  <2>3. Cardinality({i \in DOMAIN workQueue : workQueue[i] = l}) = IF Has(workQueue, l) THEN 1 ELSE 0
    BY <2>2, QueueCount, ZenonT(60)
  <2>4. G = (IF l \in started THEN {<<1, started>>} ELSE {}) \cup
            (IF l \in fetching THEN {<<2, fetching>>} ELSE {}) \cup
            (IF l \in returned THEN {<<3, returned>>} ELSE {})
    BY SMTT(60), Z3T(60)
  <2>5. Cardinality(G) = IF l \in started \/ l \in fetching \/ l \in returned THEN 1 ELSE 0
    <3>1. CASE l \in started
      <4>1. G = {<<1, started>>}
        BY <2>2, <2>4, <3>1, ZenonT(60) DEF PlacedOnce
      <4>2. QED
        BY <3>1, <4>1, FS_Singleton, ZenonT(60)
    <3>2. CASE l \in fetching
      <4>1. G = {<<2, fetching>>}
        BY <2>2, <2>4, <3>2, ZenonT(60) DEF PlacedOnce
      <4>2. QED
        BY <3>2, <4>1, FS_Singleton, ZenonT(60)
    <3>3. CASE l \in returned
      <4>1. G = {<<3, returned>>}
        BY <2>2, <2>4, <3>3, ZenonT(60) DEF PlacedOnce
      <4>2. QED
        BY <3>3, <4>1, FS_Singleton, ZenonT(60)
    <3>4. CASE ~(l \in started \/ l \in fetching \/ l \in returned)
      <4>1. G = {}
        BY <2>4, <3>4, ZenonT(60)
      <4>2. QED
        BY <3>4, <4>1, FS_EmptySet, ZenonT(60)
    <3>5. QED
      BY <3>1, <3>2, <3>3, <3>4, ZenonT(60)
  <2>6. Places(l) = Cardinality({i \in DOMAIN workQueue : workQueue[i] = l}) + Cardinality(G)
    BY ZenonT(60) DEF Places
  <2> HIDE DEF G
  <2>7. QED
    BY <2>2, <2>3, <2>5, <2>6, SMTT(60), Z3T(60) DEF PlacedOnce, Placed
<1>2. QED
  BY <1>1, InvHolds, PTL
=============================================================================
