----------------------------- MODULE LazyMounts -----------------------------
(***************************************************************************)
(* The lazily mounted layers of one image: filesystem.Mount, Unmount,      *)
(* IDMapMount and the preresolver (fs/fs.go), Resolver.Resolve with its    *)
(* cache of layers and its cache of blobs (fs/layer/layer.go).             *)
(*                                                                         *)
(* Every Mount resolves its layer in a goroutine and waits for it, no      *)
(* longer than the mount timeout; meanwhile it queues the other layers of  *)
(* the index for the preresolver.  Layers and blobs live in reference-     *)
(* counting caches (LruCache): a layer is closed when its last reference   *)
(* is dropped, and drops its reference to its blob then.  Resolves of one  *)
(* layer exclude each other with a lock per name (NameLock, implemented by *)
(* NamedMutex).                                                            *)
(*                                                                         *)
(* Steps of a goroutine are joined where nobody can see the state between  *)
(* them: what a reference or the lock of the name protects stays as it is. *)
(*                                                                         *)
(* What a layer's reads do is the subject of SpanManager, and of           *)
(* RegistryAccess; here the registry answers or fails.                     *)
(***************************************************************************)
EXTENDS NameLock, LruCache

CONSTANTS
    Mountpoints,
    Workers,     \* the goroutines the preresolver's semaphore admits
    Indexed,     \* the layers the SOCI index has a zTOC for
    ActiveIDs,   \* the snapshots that ask for id-mapped parents, and
    Parents,     \* the mountpoints of those parents
    Faults,      \* the steps that may fail
    MaxResults,  \* resolve_result_entry: the size of the caches
    QueueSize,   \* preresolverQueueBufferSize
    Numbers,     \* as many as layers or blobs of a name live at a time
    Assignments, \* the layers of the mountpoints to consider
    NoName

\* Layers go by their name, image reference and digest.
Layers == Names
NoLayer == NoName
Values == Names \X Numbers
NotRegistered == <<NoValue, NoActor>>

ASSUME LazyMountsAssumption ==
    /\ Actors = Mountpoints \union Workers /\ Mountpoints \intersect Workers = {}
    /\ NoActor \notin Actors /\ NoName \notin Names
    /\ CacheRef \notin Actors /\ Actors \intersect Values = {}
    /\ Indexed \subseteq Names
    /\ Parents \subseteq Mountpoints
    /\ Faults \subseteq {"index", "ztoc", "network", "blob", "meta", "node",
                         "fuse", "timeout"}
    /\ MaxResults \in Nat /\ QueueSize \in Nat \ {0}
    /\ Assignments \subseteq [Mountpoints -> Names]

\* A mountpoint is <directory>/fs, the directory is named after a snapshot or
\* after two of them; a name is the sequence of its parts between "_".
BasePath(m) == <<<<m>>, <<"fs">>>>

\* getIDMappedMountpoint
IDMappedPath(p, id) == <<p[1] \o <<id>>, p[2]>>

BasePaths == {BasePath(m) : m \in Mountpoints}
IDMappedPaths == {IDMappedPath(BasePath(m), id) : m \in Parents, id \in ActiveIDs}
Paths == BasePaths \union IDMappedPaths

VARIABLES
    layerOf,     \* the layer of a mountpoint; does not change
    sociCtx,     \* sociContext: "new", "fetching", "ready", "failed"
    mpc,         \* where a Mount stands
    todo,        \* the layers a Mount has yet to enqueue
    cur,         \* the one it is enqueueing
    rpc,         \* where the Resolve of a goroutine stands
    target,      \* the layer it resolves
    ref,         \* the layer it refers to
    bref,        \* the blob it refers to
    layerCache, blobCache,
    blobOf,      \* the blob of a layer
    fsLayer,     \* filesystem.layer: a path's layerRef, the layer and whose
    served,      \* the paths with a FUSE server
    unmounted,   \* the paths that Unmount was called for
    prQueue, prHand, prCache \* the preresolver

mountVars == <<layerOf, sociCtx, mpc, todo, cur>>
cacheVars == <<layerCache, blobCache, blobOf>>
fsVars == <<fsLayer, served, unmounted>>
prVars == <<prQueue, prHand, prCache>>
resolveVars == <<rpc, target, ref, bref>>
vars == <<mountVars, resolveVars, cacheVars, fsVars, prVars, owner>>

Init ==
    /\ layerOf \in Assignments
    /\ sociCtx = "new"
    /\ mpc = [m \in Mountpoints |-> "idle"]
    /\ todo = [m \in Mountpoints |-> {}]
    /\ cur = [m \in Mountpoints |-> NoLayer]
    /\ rpc = [a \in Actors |-> "idle"]
    /\ target = [a \in Actors |-> NoLayer]
    /\ ref = [a \in Actors |-> NoValue]
    /\ bref = [a \in Actors |-> NoValue]
    /\ layerCache = EmptyCache(Values)
    /\ blobCache = EmptyCache(Values)
    /\ blobOf = [v \in Values |-> NoValue]
    /\ fsLayer = [p \in Paths |-> NotRegistered]
    /\ served = {}
    /\ unmounted = {}
    /\ prQueue = <<>> /\ prHand = NoLayer /\ prCache = {}
    /\ NameLockInit

May(fault) == fault \in Faults

-----------------------------------------------------------------------------
(* The caches.  When a layer's last reference is dropped, OnEvicted closes *)
(* the layer and close() drops its reference to its blob.                  *)

LayerOpen(l) == Alive(layerCache, l)

Slip_ClosesBlob(dead, c) ==
    [order |-> c.order,
     refs  |-> [b \in Values |-> IF \E l \in dead : blobOf[l] = b
                                 THEN c.refs[b] \intersect {CacheRef} ELSE c.refs[b]]]

CloseBlobsOf(dead, c) ==
    [order |-> c.order,
     refs  |-> [b \in Values |-> c.refs[b] \ {l \in dead : blobOf[l] = b}]]

SetLayerCache(d) ==
    LET dead == Finalized(layerCache, d)
    IN  /\ layerCache' = d
        /\ blobCache' = CloseBlobsOf(dead, blobCache)
        /\ blobOf' = [l \in Values |-> IF l \in dead THEN NoValue ELSE blobOf[l]]

\* The layers nobody can reach, whose memory is free.
FreeLayers(n) ==
    {l \in {n} \X Numbers : /\ ~LayerOpen(l)
                           /\ \A a \in Actors : ref[a] # l
                           /\ \A p \in Paths : fsLayer[p][1] # l}
FreeBlobs(n) ==
    {b \in {n} \X Numbers : /\ ~Alive(blobCache, b)
                            /\ \A a \in Actors : bref[a] # b}

-----------------------------------------------------------------------------
(* Resolver.Resolve, run by the goroutine of a Mount or by a preresolver   *)
(* goroutine.                                                              *)

Goto(a, pc) == rpc' = [rpc EXCEPT ![a] = pc]

\* The deferred Unlock; the result is ref[a], if there is one.
Return(a) == Release(a, target[a]) /\ Goto(a, "deliver")

\* Under the lock of the name the layer is taken from the cache and checked.
\* An invalid one (closed, or the registry cannot be reached) is given back
\* and what the cache has under the name is removed.
ResolveGet(a) ==
    LET l      == Find(layerCache, target[a])
        used   == Use(layerCache, l, a)
        broken == ~Alive(blobCache, blobOf[l])
    IN  /\ rpc[a] = "lock" /\ owner[target[a]] = NoActor
        /\ \/ /\ l = NoValue
              /\ Acquire(a, target[a])
              /\ Goto(a, "blob") /\ UNCHANGED <<ref, cacheVars>>
           \/ /\ l # NoValue /\ ~broken
              /\ layerCache' = used
              /\ ref' = [ref EXCEPT ![a] = l]
              /\ Goto(a, "deliver") /\ UNCHANGED <<blobCache, blobOf, owner>>
           \/ /\ l # NoValue /\ (broken \/ May("network"))
              /\ Acquire(a, target[a])
              /\ SetLayerCache(Evict(Done(used, l, a), target[a]))
              /\ Goto(a, "blob") /\ UNCHANGED ref
        /\ UNCHANGED <<mountVars, target, bref, fsVars, prVars>>

\* The span cache is made, the zTOC is fetched and unmarshalled.  Then
\* resolveBlob: the blob is taken from its cache and checked; if there is
\* none, or an invalid one that is removed, the remote resolver makes one.
ResolveBlob(a) ==
    LET b   == Find(blobCache, target[a])
        new == CHOOSE v \in Values : v \in FreeBlobs(target[a])
        c   == IF b = NoValue THEN blobCache ELSE Evict(blobCache, target[a])
    IN  /\ rpc[a] = "blob"
        /\ \/ /\ May("ztoc")
              /\ Return(a) /\ UNCHANGED <<bref, blobCache>>
           \/ /\ b # NoValue
              /\ blobCache' = Use(blobCache, b, a)
              /\ bref' = [bref EXCEPT ![a] = b]
              /\ Goto(a, "layer") /\ UNCHANGED owner
           \/ /\ b = NoValue \/ May("network")
              /\ new \in FreeBlobs(target[a])
              /\ blobCache' = Insert(c, new, a, MaxResults)
              /\ bref' = [bref EXCEPT ![a] = new]
              /\ Goto(a, "layer") /\ UNCHANGED owner
           \/ /\ b = NoValue \/ May("network")
              /\ May("blob")
              /\ blobCache' = c
              /\ Return(a) /\ UNCHANGED bref
        /\ UNCHANGED <<mountVars, target, ref, layerCache, blobOf, fsVars, prVars>>

\* The metadata and the span manager are made; the new layer takes over the
\* reference to the blob and is cached, which may push out another layer.
ResolveLayer(a) ==
    /\ rpc[a] = "layer"
    /\ \/ LET cached == Find(layerCache, target[a])
              new    == CHOOSE v \in Values : v \in FreeLayers(target[a])
              added  == Insert(layerCache, new, a, MaxResults)
              dead   == Finalized(layerCache, added)
              moved  == [order |-> blobCache.order,
                         refs  |-> [blobCache.refs EXCEPT
                                       ![bref[a]] = (@ \ {a}) \union {new}]]
          IN  /\ new \in FreeLayers(target[a])
              /\ IF cached = NoValue
                 THEN /\ layerCache' = added
                      /\ blobCache' = CloseBlobsOf(dead, moved)
                      /\ blobOf' = [l \in Values |-> IF l \in dead THEN NoValue
                                                     ELSE IF l = new THEN bref[a]
                                                     ELSE blobOf[l]]
                      /\ ref' = [ref EXCEPT ![a] = new]
                 ELSE /\ layerCache' = Use(layerCache, cached, a)
                      /\ blobCache' = Done(blobCache, bref[a], a)
                      /\ ref' = [ref EXCEPT ![a] = cached]
                      /\ UNCHANGED blobOf
       \/ /\ May("meta")
          /\ blobCache' = Done(blobCache, bref[a], a)
          /\ UNCHANGED <<ref, layerCache, blobOf>>
    /\ bref' = [bref EXCEPT ![a] = NoValue]
    /\ Return(a)
    /\ UNCHANGED <<mountVars, target, fsVars, prVars>>

ResolveStep(a) ==
    ResolveGet(a) \/ ResolveBlob(a) \/ ResolveLayer(a)

-----------------------------------------------------------------------------
(* The preresolver.                                                        *)

\* The loop of Start takes a function from the queue...
PrTake ==
    /\ prHand = NoLayer /\ prQueue # <<>>
    /\ prHand' = Head(prQueue) /\ prQueue' = Tail(prQueue)
    /\ UNCHANGED <<mountVars, resolveVars, cacheVars, fsVars, prCache, owner>>

\* ... and runs it in a goroutine once the semaphore admits one.
PrStart(w) ==
    /\ prHand # NoLayer /\ rpc[w] = "idle"
    /\ target' = [target EXCEPT ![w] = prHand]
    /\ Goto(w, "lock")
    /\ prHand' = NoLayer
    /\ UNCHANGED <<mountVars, ref, bref, cacheVars, fsVars, prQueue, prCache, owner>>

Slip_KeepsLayer(w) ==
    /\ rpc[w] = "deliver"
    /\ Goto(w, "forget")
    /\ ref' = [ref EXCEPT ![w] = NoValue]
    /\ UNCHANGED <<mountVars, target, bref, cacheVars, fsVars, prVars, owner>>

\* The queued function gives back the layer it resolved, which stays cached.
PrDone(w) ==
    /\ rpc[w] = "deliver"
    /\ IF ref[w] = NoValue THEN UNCHANGED cacheVars
       ELSE SetLayerCache(Done(layerCache, ref[w], w))
    /\ ref' = [ref EXCEPT ![w] = NoValue]
    /\ Goto(w, "forget")
    /\ UNCHANGED <<mountVars, target, bref, fsVars, prVars, owner>>

PrForget(w) ==
    /\ rpc[w] = "forget"
    /\ prCache' = prCache \ {target[w]}
    /\ target' = [target EXCEPT ![w] = NoLayer]
    /\ Goto(w, "idle")
    /\ UNCHANGED <<mountVars, ref, bref, cacheVars, fsVars, prQueue, prHand, owner>>

-----------------------------------------------------------------------------
(* filesystem.Mount.                                                       *)

MountGoto(m, pc) == mpc' = [mpc EXCEPT ![m] = pc]

\* A Mount enters getSociContext; the first one fetches the index.
MountStart(m) ==
    /\ mpc[m] = "idle"
    /\ MountGoto(m, "index")
    /\ sociCtx' = IF sociCtx = "new" THEN "fetching" ELSE sociCtx
    /\ UNCHANGED <<layerOf, todo, cur, resolveVars, cacheVars, fsVars, prVars, owner>>

\* The function of fetchOnce ends; an error is kept for all later calls.
IndexFetched ==
    /\ sociCtx = "fetching"
    /\ \/ sociCtx' = "ready"
       \/ May("index") /\ sociCtx' = "failed"
    /\ UNCHANGED <<layerOf, mpc, todo, cur, resolveVars, cacheVars, fsVars, prVars, owner>>

\* With the index, the goroutine that resolves the layer is started; it fails
\* at once for a layer without a zTOC.
MountResolve(m) ==
    /\ mpc[m] = "index"
    /\ \/ /\ sociCtx = "failed"
          /\ MountGoto(m, "failed") /\ UNCHANGED <<todo, rpc, target>>
       \/ /\ sociCtx = "ready"
          /\ MountGoto(m, "enqueue")
          /\ todo' = [todo EXCEPT ![m] = Indexed \ {layerOf[m]}]
          /\ target' = [target EXCEPT ![m] = layerOf[m]]
          /\ Goto(m, IF layerOf[m] \in Indexed THEN "lock" ELSE "deliver")
    /\ UNCHANGED <<layerOf, sociCtx, cur, ref, bref, cacheVars, fsVars, prVars, owner>>

\* Enqueue of each other layer, in any order: if its key is not stored, the
\* function is sent, or dropped when the queue is full; ...
EnqueueSend(m) ==
    /\ mpc[m] = "enqueue"
    /\ \/ /\ todo[m] = {}
          /\ MountGoto(m, "wait") /\ UNCHANGED <<todo, cur, prQueue>>
       \/ \E n \in todo[m] :
             /\ todo' = [todo EXCEPT ![m] = @ \ {n}]
             /\ IF n \in prCache \/ Len(prQueue) >= QueueSize
                THEN UNCHANGED <<mpc, cur, prQueue>>
                ELSE /\ prQueue' = Append(prQueue, n)
                     /\ cur' = [cur EXCEPT ![m] = n]
                     /\ MountGoto(m, "store")
    /\ UNCHANGED <<layerOf, sociCtx, resolveVars, cacheVars, fsVars, prHand, prCache,
                   owner>>

\* ... and the key is stored, when the function may already have run.
EnqueueStore(m) ==
    /\ mpc[m] = "store"
    /\ prCache' = prCache \union {cur[m]}
    /\ cur' = [cur EXCEPT ![m] = NoLayer]
    /\ MountGoto(m, "enqueue")
    /\ UNCHANGED <<layerOf, sociCtx, todo, resolveVars, cacheVars, fsVars,
                   prQueue, prHand, owner>>

\* The select: the goroutine's layer or its error is received.  The channels
\* are unbuffered, so the goroutine ends only now.
MountReceive(m) ==
    /\ mpc[m] = "wait" /\ rpc[m] = "deliver"
    /\ Goto(m, "idle")
    /\ MountGoto(m, IF ref[m] = NoValue THEN "failed" ELSE "node")
    /\ UNCHANGED <<layerOf, sociCtx, todo, cur, target, ref, bref, cacheVars,
                   fsVars, prVars, owner>>

\* The select: the mount timeout.  The goroutine stays behind.
MountTimeout(m) ==
    /\ mpc[m] = "wait" /\ May("timeout")
    /\ MountGoto(m, "timedout")
    /\ UNCHANGED <<layerOf, sociCtx, todo, cur, resolveVars, cacheVars, fsVars,
                   prVars, owner>>

Slip_DoneOnSuccess(m) ==
    LET p == BasePath(m)
    IN  /\ mpc[m] = "node" /\ LayerOpen(ref[m])
        /\ ref' = [ref EXCEPT ![m] = NoValue]
        /\ fsLayer' = [fsLayer EXCEPT ![p] = <<ref[m], m>>]
        /\ served' = served \union {p}
        /\ SetLayerCache(Done(layerCache, ref[m], m))
        /\ MountGoto(m, "mounted")
        /\ UNCHANGED <<layerOf, sociCtx, todo, cur, rpc, target, bref,
                       unmounted, prVars, owner>>

\* The deferred l.Done() of a Mount that returns an error.
GiveBack(m, l) == SetLayerCache(Done(layerCache, l, m))

\* The root node is made, the layer is registered for the mountpoint and the
\* FUSE server is set up.  A Mount that fails gives its layer back; one that
\* fails in setupFuseServer leaves it registered.
MountNode(m) ==
    LET p == BasePath(m)
    IN  /\ mpc[m] = "node"
        /\ ref' = [ref EXCEPT ![m] = NoValue]
        /\ \/ /\ LayerOpen(ref[m])
              /\ fsLayer' = [fsLayer EXCEPT ![p] = <<ref[m], m>>]
              /\ served' = served \union {p}
              /\ MountGoto(m, "mounted") /\ UNCHANGED cacheVars
           \/ /\ LayerOpen(ref[m]) /\ May("fuse")
              /\ fsLayer' = [fsLayer EXCEPT ![p] = <<ref[m], m>>]
              /\ GiveBack(m, ref[m])
              /\ MountGoto(m, "failed") /\ UNCHANGED served
           \/ /\ ~LayerOpen(ref[m]) \/ May("node")
              /\ GiveBack(m, ref[m])
              /\ MountGoto(m, "failed") /\ UNCHANGED <<fsLayer, served>>
        /\ UNCHANGED <<layerOf, sociCtx, todo, cur, rpc, target, bref,
                       unmounted, prVars, owner>>

MountStep(m) ==
    \/ MountResolve(m) \/ EnqueueSend(m) \/ EnqueueStore(m)
    \/ MountReceive(m) \/ MountNode(m)

-----------------------------------------------------------------------------
(* filesystem.IDMapMount and Unmount.                                      *)

\* The id-mapped mountpoint shares the layerRef of the mountpoint; without
\* one the snapshotter copies the directory (IDMapMountLocal).  When the root
\* node or the FUSE server fails the path stays registered.
IDMapMount(p, id) ==
    LET q  == IDMappedPath(p, id)
        ok == LayerOpen(fsLayer[p][1])
    IN  /\ fsLayer[p] # NotRegistered
        /\ fsLayer[q] = NotRegistered /\ q \notin unmounted
        /\ fsLayer' = [fsLayer EXCEPT ![q] = fsLayer[p]]
        /\ \/ ok /\ served' = served \union {q}
           \/ (~ok \/ May("node") \/ May("fuse")) /\ UNCHANGED served
        /\ UNCHANGED <<mountVars, resolveVars, cacheVars, unmounted, prVars, owner>>

\* filepath.Base(mountpoint) is "fs" for both kinds of mountpoint.
isIDMappedDir(p) == Len(p[Len(p)]) > 1

\* Unmount of a path that is mounted (the snapshotter asks mountinfo first):
\* the layerRef is done with and the layer of its name leaves the cache.
Unmount(p) ==
    LET l == fsLayer[p][1]
    IN  /\ p \in served
        /\ fsLayer' = [fsLayer EXCEPT ![p] = NotRegistered]
        /\ served' = served \ {p} /\ unmounted' = unmounted \union {p}
        /\ IF isIDMappedDir(p) THEN UNCHANGED cacheVars
           ELSE SetLayerCache(Evict(Done(layerCache, l, fsLayer[p][2]), Key(l)))
        /\ UNCHANGED <<mountVars, resolveVars, prVars, owner>>

-----------------------------------------------------------------------------
Next ==
    \/ \E m \in Mountpoints : MountStart(m) \/ MountStep(m) \/ MountTimeout(m)
    \/ IndexFetched
    \/ \E a \in Actors : ResolveStep(a)
    \/ PrTake
    \/ \E w \in Workers : PrStart(w) \/ PrDone(w) \/ PrForget(w)
    \/ \E m \in Parents, id \in ActiveIDs : IDMapMount(BasePath(m), id)
    \/ \E p \in Paths : Unmount(p)

\* Goroutines run, and the requests they make end, in success or failure.
Fairness ==
    /\ \A a \in Actors : WF_vars(ResolveStep(a))
    /\ \A m \in Mountpoints : WF_vars(MountStep(m))
    /\ WF_vars(IndexFetched) /\ WF_vars(PrTake)
    /\ \A w \in Workers : WF_vars(PrStart(w) \/ PrDone(w) \/ PrForget(w))

Spec == Init /\ [][Next]_vars

FairSpec == Spec /\ Fairness

-----------------------------------------------------------------------------
TypeOK ==
    /\ layerOf \in [Mountpoints -> Layers]
    /\ sociCtx \in {"new", "fetching", "ready", "failed"}
    /\ \A a \in Actors :
          /\ target[a] \in Layers \union {NoLayer}
          /\ ref[a] \in Values \union {NoValue}
          /\ bref[a] \in Values \union {NoValue}
    /\ Len(prQueue) <= QueueSize /\ prCache \subseteq Indexed
    /\ served \subseteq Paths /\ unmounted \subseteq Paths
    /\ CacheOK(layerCache, MaxResults) /\ CacheOK(blobCache, MaxResults)

(* A mountpoint that is served has an open layer: no eviction, unmount of  *)
(* another mountpoint or preresolve closes a layer that is mounted.  The   *)
(* exception is a mountpoint one of whose id-mapped mountpoints was        *)
(* unmounted (IDMappedUnmountKeepsLayer).                                  *)
MountedLayersAreOpen ==
    \A m \in Mountpoints :
        LET p == BasePath(m)
        IN  (/\ p \in served \ unmounted
             /\ \A id \in ActiveIDs : IDMappedPath(p, id) \notin unmounted)
            => LayerOpen(fsLayer[p][1])

(* fs.go, Unmount: "If the mountpoint is an id-mapped layer, it is         *)
(* pointing to the underlying layer, so we cannot call done on it": a      *)
(* mountpoint that is served and was not unmounted itself has an open      *)
(* layer.                                                                  *)
IDMappedUnmountKeepsLayer ==
    \A m \in Mountpoints :
        BasePath(m) \in served \ unmounted => LayerOpen(fsLayer[BasePath(m)][1])

(* An open layer has an open blob to read from, whatever was evicted from  *)
(* the cache of blobs meanwhile.                                           *)
OpenLayersHaveOpenBlobs ==
    \A l \in Values : LayerOpen(l) => Alive(blobCache, blobOf[l])

(* Every reference is somebody's: it belongs to a Resolve that is under    *)
(* way, to a Mount that has not returned, to a path that is registered or, *)
(* for a blob, to an open layer.  Error paths drop what they took.         *)
ReferencesAreOwned ==
    /\ \A l \in Values : \A h \in layerCache.refs[l] \ {CacheRef} :
          \/ ref[h] = l
          \/ h \in Mountpoints /\ fsLayer[BasePath(h)] = <<l, h>>
    /\ \A b \in Values : \A h \in blobCache.refs[b] \ {CacheRef} :
          \/ h \in Actors /\ bref[h] = b
          \/ h \in Values /\ LayerOpen(h) /\ blobOf[h] = b

(* lrucache.go, Get and Add: "Client must call `done` callback": a Mount   *)
(* that gave up waiting does not leave a reference behind for ever.        *)
TimedOutMountsReleaseTheirLayer ==
    \A m \in Mountpoints :
        mpc[m] = "timedout" ~> \A l \in Values : m \notin layerCache.refs[l]
=============================================================================
