# TLA+ specifications of the SOCI snapshotter

This directory holds TLA+ models of soci-snapshotter, the TLC configurations that
check them on small instances, and TLAPS proofs of their main safety properties for
every value of the constants. Everything is translated from the Go source under
`src/`; `PROJECT.json` maps each definition to the lines it stands for, and lists the
hazards the properties are about.

## The system

containerd asks a *snapshotter* for the root file system of a container, layer by
layer. The SOCI snapshotter mounts a layer lazily, as a FUSE file system that
downloads the parts that are read, when the image has a SOCI index; otherwise it
pulls the image itself, in parallel, or leaves the pull to containerd. The `soci`
command builds the indexes.

| part | source | modules |
| --- | --- | --- |
| snapshotter: containerd's API, directories, remote mounts, restart | `snapshot` | Snapshotter |
| lazy mounts, preresolver, layer and blob caches | `fs/fs.go`, `fs/layer/layer.go`, `util/lrucache` | LazyMounts, LruCache |
| lock per name | `util/namedmutex` | NamedMutex, NameLock |
| parallel pull: unpack jobs and their collector | `fs/adaptive_fetch_image_layers.go`, `fs/fs.go` | UnpackJobs |
| parallel pull: downloads, verification, unpacking | `fs/parallel_*.go`, `fs/unpacker.go` | LayerDownloads, ChunkRanges |
| span manager | `fs/span-manager` | SpanManager, SpanStore |
| background fetcher | `fs/backgroundfetcher` | BackgroundFetcher |
| zTOC, metadata store, FUSE nodes, file reads, range requests | `ztoc`, `metadata`, `fs/layer/node.go`, `fs/reader`, `fs/remote` | Ztoc, LayerMetadata, LayerFiles |
| registry hosts, auth clients, fetchers, keychains | `service/resolver`, `service/keychain`, `fs/remote` | RegistryAccess, Keychains |
| SOCI index: build, convert, push, fetch, artifacts database | `soci`, `soci/store`, `cmd/soci`, `fs/artifact_fetcher.go` | SociArtifacts, SociIndex, ArtifactsDb, ContentStore |

A read of a file goes kernel → node → file reader → span manager → remote blob →
registry. A pull goes containerd → snapshotter → filesystem → layer resolver (lazy)
or unpack jobs (parallel). The background fetcher runs beside the reads on the same
spans; the garbage collectors (of unpack jobs, of containerd) run beside everything.

Modules named `MC*` only give TLC its constants; modules named `*Proofs` hold theorems.

## Modules

**SpanManager.** A span has an atomic `state` that is read without a lock, and a mutex
(`mu`) under which it is downloaded, decompressed and cached. Goroutines are pairs of a
caller and a span: readers (`GetContents`), the background fetcher
(`FetchSingleSpan`) and prefetch workers (`ResolveSpan`). Each step of
`getSpanContent` and `fetchAndCacheSpan` between two accesses to shared state is an
action with its error path; `CloseZinfo` and `CloseCache` are the two halves of
`Close`, which takes no span's mutex. What a read under way makes of a freed zinfo is a
nondeterministic choice. *SpanStore* is the promise to the reader of a layer: a span
goes from absent over compressed to uncompressed and never back, and a read gives the
data of an uncompressed span or an error. `StoreSpec` says that SpanManager implements it.

**BackgroundFetcher.** The work queue with its limit and both drop policies (chosen in
`Init`), the `Run` loop in the steps it can be interrupted between, one goroutine per
popped layer, mounts, closes of layers, pauses, `Close` with both receivers of its
channel, and the end of the context.

**UnpackJobs.** The job store of the parallel pull of one image: `MountParallel` with
`preloadAllLayers`, `premount` and `rebase`, `CleanImage`, and the garbage collector,
which takes a snapshot of memory and disk under the mutex and deletes without it.
Several pulls of the image, the premounts and the collector interleave wherever no
lock is held. Download and unpack of a layer are one step here, a success or a failure.

**LayerDownloads** opens that step: the semaphores per image and in all, a download in
ranged requests that write to one file in any order, or in one request, the asynchronous
verification and storing, the unpack, and cancellation by the first error of an
errgroup. A layer belongs to the pull that made the image's job or to a `second` one that
found it there: the second shares the limiters of the job, but nobody cancels its context.
Layers of different images may have one digest. A limiter without a limit looks at no
context (`Refused`). *ChunkRanges* is the arithmetic of the ranges.

**Snapshotter.** The committed content of the bolt database (`db`, `seq`), its write lock
(`writer`), the directories on disk, the FUSE mounts of the kernel (`mounted`), the
layers the filesystem has registered (`layers`) and what a restart loses. A call is a
program of steps; `Remove`, `Cleanup` and a failing create list directories inside a
transaction and delete them after it. `Close` unmounts everything while calls of other
connections go on; `Crash`, `Restart`, `restoreRemoteSnapshot` and `Restored` are the
end of a process and the start of the next. containerd does not run two calls on one
key at a time (`Call`).

**LazyMounts.** `Mount` resolves its layer in a goroutine and waits no longer than the
timeout, queues the other layers of the index for the preresolver, and registers the
layer; `Unmount` and `IDMapMount`. Layers and blobs live in reference-counting caches:
*LruCache* has their operations as pure operators, with the set of referrers in place of
a count. Resolves of one layer exclude each other with *NameLock*, an abstract lock per
name that *NamedMutex* implements (a map of counted mutexes, two critical sections each in
`Lock` and `Unlock`).

**RegistryAccess.** Threads read, check and resolve blobs. `AsRegistryHosts` loads and
stores the two sync.Maps of the RegistryManager one step at a time, beside the sweeper;
a request goes through `AuthClient.Do`, whose handler lets one thread exchange the
credentials while the others wait on a channel. A client has one handler, but
docker.Authorizer keeps a token for each host (`tokens`), and an image's mirrors and its
registry are different hosts. A fetcher remembers its host and the URL it was redirected
to, and refreshes it. *Keychains* has the CRI and kubernetes keychains, the
latter with its work queue. The registry, the storage and docker.Authorizer are external.

**Ztoc, LayerMetadata, LayerFiles.** The zTOC that the builder writes and the one that is
read back; the metadata store filled from it in batches that bolt may run again; the
mount, which reads and verifies what comes before the first span; lookup,
readdir, open, read and getxattr, down to spans, regions and the replies of the registry.
A byte is the number of its position, so that data says where it comes from. The
reference definitions are what unpacking the same entries gives and the bytes of the file.

**SociArtifacts, SociIndex, ArtifactsDb, ContentStore.** The `soci` commands create,
convert, push, rebuild-db and index rm, and the snapshotter's fetch of an index, step by
step over containerd's content store with leases, labels and garbage collection. A fetch
takes the index that the mount's label gives (`given`), else the one of the manifest's
annotation, else a referrer, as the enabled versions allow. `convert` reads the image
it writes in one step and creates or updates it in another.
Content is a term built from its parts and is its own digest.

## Runs

| run | instance | what it shows |
| --- | --- | --- |
| `span_calls` | 2 readers, fetcher, prefetch worker on one span, 1 retry | readers get file data, errors come from faults, SpanStore is implemented, every call returns |
| `background_queue` | 2 layers of 2 spans, no limit and limit 1, both policies | a layer is in one place, at most one late fetch, every layer is served |
| `unpack_one_pull` | 1 pull of 2 layers, every fault | success means all mounted, pulls end, directories go |
| `unpack_two_pulls` | 2 pulls of 1 layer, every fault | the sweep spares tracked jobs, only finished unpacks are moved to mountpoints |
| `snapshot_calls` | 2 clients, collector, 2 keys, 1 name, 1 stop or crash | directories, remote mounts, mounts handed out |
| `snapshot_restarts` | 1 client, collector, all settings, failing unmounts and directories | abandoned directories go, every call returns |
| `lazy_mounts` | 2 mountpoints, same or different layers, caches of one entry, 1 worker, every fault | mounted layers are open, open layers have blobs, references are owned |
| `named_mutex` | 3 goroutines, 2 names | the lock per name is implemented, waiters get in |
| `registry_access` | 2 threads, 2 images, 1 secret, shared clients with and without a mirror, own clients, 1 event | one exchange per client, fresh tokens, no anonymous exchange, the keychain settles |
| `layer_files` | some 300 layers, tar and gzip, all reply scripts | zTOC, metadata, answers and reads agree with the layer |
| `soci_artifacts` | 3 published images, 2 names, 1 fetcher, 3 sets of enabled versions, 3 events | what was built or fetched stays while it is used, and agrees |
| `layer_downloads` | 3 layers of 2 images that share one, 1 or 2 pulls of an image, 3 settings (a fourth is refused), 2 faults | permits, whole files, verified layers, premounts end |

**Bounds.** One span is enough for contention: spans share nothing but `Close`. Two layers
make a queue of one entry overflow. Two pulls make every pair of a new and a stale job
of one image; two layers are needed where an earlier layer's failure meets a later
one's start. Three concurrent snapshotter calls (a create, a removal or commit, a
cleanup), two ids and one restart cover an id given out before and after each list is
made; `MaxTemps` bounds the names of temporary directories. Caches of one entry make
every addition an eviction. Two threads are a leader and a waiter; the fetchers and
clients that live at a time are bounded by `Fetchers` and `Clients`, both large enough not
to hold a thread up; swapping the threads together with their images changes nothing,
which the run uses (`SameThreads`). Two hosts are a leader and a waiter of different ones.
Layers of three entries have every pair of a path and its parent,
link target, whiteout or replacement; archives end with none to four zero blocks. Three
events are a command, a removal and a fault. Spans of two bytes put files and their ends at
and across the ends of spans.
Retries, stops, ids, events and faults are bounded by constants named in the guards.
`CHECK_DEADLOCK FALSE` is set where the system comes to rest by design.

**Fairness.** A goroutine that can go on does so: weak fairness of a caller's steps, of
`Run`, of each goroutine, of a premount and its requests. Go's mutexes hand over to a
waiter that has starved for a millisecond, and bolt's write lock is one of them: hence
strong fairness where a step waits for a mutex (`SpanManager`, `NamedMutex`,
`Snapshotter`). The collector of the unpack jobs runs on a ticker, time passes
(`Expire`), and containerd's collector calls `Cleanup` again and again. A user's
cancellation is never assumed: fairness of a pull excludes the wait for its premount
(`Waits`). Neither closes, crashes, calls nor commands are fair.

**Sensitivity.** Definitions named `Slip_*` are plausible mistakes in the code: a
dropped guard, a missing rollback, a read transaction in place of a write one. Put in
place of the definition that follows them, each violates a property; `PROJECT.json`
says which.

## Proofs

Proved for every value of the constants, under the named assumptions of the modules
(finite sets of callers where they are counted, disjoint roles, a "none" value outside
of its set, bounds that are numbers). The invariants of a module are seldom inductive
as they stand; what makes them so is said here.

**SpanManagerProofs.** `Mutex` says which step of which goroutine holds a span's mutex.
`StateByPC` and `DataByPC` say, for each step inside the mutex, what the span's state,
the buffer and the cache can be. That an uncompressed span has its data cached depends
on what the goroutine that has not set the state yet carries. `Typing`,
`MutualExclusion`, `RequestedSafe` and `ProgressKept` hold with every fault;
`CacheSafe`, `ReadersSafe`, `NeverDownloadedAgain` and `ImplementsStore` (`CommitSpan` is a
put, the end of a read an answer, all else a stutter) assume that `Commit` does not fail.
So does `FailuresAreFaults`: what a goroutine may find under the mutex, and the state it
then sets, always make a valid transition. `NoAnswerYet` (no answer before the work) makes
an error that is there after a step the error of that step.

**BackgroundFetcherProofs.** `InOnePlace` counts places; its inductive form does not: no
layer is twice in the queue, the queue and the goroutines share no layer, and together
they hold the mounted layers without a fate. Lemmas say what a pop and an append with
either drop policy do to a queue without repetitions. `Typing`, `QueueIsBounded`,
`PlacedOnceOnly`, `FewLateFetches`, `CompleteIsWhole`.

**UnpackJobsProofs.** `Known` says that whatever is used has been created; with it go that
no two pulls hold one job, that a rebase past its wait holds a job of its layer whose
result is nil, and `Collectable`: what the collector may yet delete existed at its
snapshot and is not tracked unless the snapshot says so. `PullsMountEveryLayer` needs
that a job which was ever given a status has had a directory (`HasDirectory`): what
`Rename` puts in place is then something. `MountsUnpackedLayers` is an action property:
the directory that is moved is that of the job which the rebase claimed for the layer
and saw succeed (`Waited`), and it is whole unless the job was removed under the rebase
(`Filled`: an unpack that has succeeded has filled its directory, and no deletion of a
tracked job's directory has begun). `Typing`, `ClaimedOnce`, `MountsUnpackedLayers`,
`SweepIsSafe`, `TrackedOnDisk` and `PullsMountEveryLayer`, with every fault.

**SnapshotterProofs.** `Shape` adds to the types that a call's arguments fit its step,
that a create holds the write transaction with the next id, and that no call runs
while the process is down. `DirInv` is the argument for deleting without the lock:
snapshots have ids of their own that were given out before (`OwnDirectories`); a
directory with an id not given out yet belongs to the create that is about to commit it
(`NoStrayDirectory`); and what any list holds was given out or temporary, and is free
(`ListsAreFree`) - so it stays free, as ids are never given out twice. `MountInv` adds that
calls in progress have different keys, so that the directory a Prepare has mounted is
still that of the snapshot it commits; that unmounts are of free directories until the
shutdown; and that a restart mounts the remote snapshots before any call
(`RemoteSnapshotsStayMounted`). `HandedOutAreServed` is about all the layers below a
snapshot. `Chain` computes them as a recursive function; that it is defined, closed under
parents and the same in every database that agrees on those layers is shown by taking
the least level at which it fails. A layer below a snapshot is the parent of one, so
`Remove` refuses it, and what `checkAvailability` found before a layer was unpacked is
still so when the mounts are handed out. Here snapshots are assumed to be finitely many
and `None` not to be an entry of the database. `Typing` holds with every fault;
`DirectoriesAreSafe`, `CleanupIsSafe`, `RemoteSnapshotsStayMounted` and
`HandedOutAreServed` assume that no create is torn, the last also that no FUSE server
fails to start: with either fault the code breaks them or what they rest on (below).

**NamedMutexProofs.** Exclusion is not inductive: two users of a name meet on one mutex
because the map forgets a mutex only when its last user leaves. `NamesAreCounted` says
that the count of a name is the number of its users and that they all have the mutex
in the map. `LockTyping`, `NamesCounted`, `Exclusion`, and `ImplementsLock`: the
refinement of NameLock, with `Lock` taking effect when `mu.Lock` returns and `Unlock`
when the count is taken back.

**LazyMountsProofs.** First what each operation of LruCache does to the list and the
referrers of a value. The invariant then says exactly who refers to what, in both
directions: `LayersInv` for layers (goroutines and registered paths), `BlobsInv` for
blobs (goroutines and open layers), and `ControlInv` at which step a goroutine has a
reference to give. A layer stays open because its mountpoint refers to it, and a
reference can be given back because nobody else has it. `Typing`, `MountedAreOpen`,
`OpenLayersCanRead`, `NoReferenceLeaks`.

**LayerDownloadsProofs.** `RangesPartition`: the ranges of a layer's requests are not
empty, lie within the layer, do not overlap and leave no byte out, for every size and
chunk size. On it rests the invariant that ties every byte of the file to the state of
the request that writes it, the permits given out to the steps that hold one, and a
verification to the file it read. `Typing`, `PermitsAreCounted`, `FilesAreWhole`,
`UnpackedAreVerified`, with every fault.

**RegistryAccessProofs.** `InflightInv` ties the flag of a client's handler to the one
thread that leads; `FreshInv` covers the error that a woken waiter reads without the
lock, and that without mirrors the host of a token is the host of the request; `RefsInv` says that whatever an image can reach its registry through (a cached
entry, a fetcher, a request under way) leads to a client it has joined, however entries
expire, are swept and objects are dropped; `KeychainInv` says that a secret neither
queued nor in the worker's hands has been applied. `Typing`, `ChallengesAreShared`,
`ResentAreFresh`, `ImagesKeepTheirCredentials`, `KeychainAgrees`.

**Only model-checked.**

- Liveness (`CallsReturn`, `EveryLayerIsServed`, `PullsEnd`, `NoDirectoryLeaks`,
  `OrphansAreDeleted`, `WaitersGetIn`, `PremountsEnd`): it needs fairness and ENABLED,
  which the prover does not handle.
- `layer_files` and `soci_artifacts`: their modules compute with RECURSIVE operators
  (directories on the way to a path, `Closure` of a content tree, what labels reach) and
  with folds over an operator, about which the prover cannot reason. A recursive function
  such as `Chain` is within reach; content of unbounded depth has no set to be its domain.

Every other invariant and action property of the runs is the subject of a theorem.

## Where code and comments disagree

The faults in question are constants (`Faults`) that the runs leave out, or the property
names the exception; the modules keep the stronger property.

- `addSpanToCache` drops the error of the cache writer's `Commit` and returns nil,
  although "A non-nil error is returned if the data is not written to the cache"
  (`AddedSpanIsCached` fails with the fault `commit`; `span_manager.go:464`).
- A first layer's premount fails and removes the image job before the second layer is
  added: `AddLayerJob` dereferences nil (`AddLayerJobAdds`;
  `adaptive_fetch_image_layers.go:213`).
- `commit` returns an error of `DiskUsage` from a shadowed `err`; the transaction stays
  open, and every later write waits for ever (`RemovesEnd`, fault `usage`;
  `snapshot.go:581`).
- A create that fails, or a crash, between the rename and the commit leaves a directory
  under an id that is given out again; a `Cleanup` that listed it before deletes the new
  snapshot's directory (`CleanupSparesSnapshots`, fault `torn`; `snapshot.go:858`).
- `fs.Mount` registers a layer before its FUSE server starts; if that fails in a restart
  that allows invalid mounts, `Mounts` hands it out (`MountsAreServed`, fault `fuse`;
  `fs.go:1182`).
- Unmounting an id-mapped mountpoint gives the layer of the shared mountpoint back, as
  `filepath.Base` of both is "fs" (`IDMappedUnmountKeepsLayer`; `fs.go:1319`).
- A layer resolved after the mount timeout is kept by a goroutine that sends on a channel
  nobody receives from (`TimedOutMountsReleaseTheirLayer`; `fs.go:1090`).
- Requests that are challenged together are said to need one token, "only one actually
  fetches the token; the rest wait and reuse the result". Tokens are kept per host: a
  waiter of another mirror is sent again with none of its own, is refused and fails
  (`ResentWithTokenOfItsHost`; `client.go:180`).
- `soci create` builds with `WithNoGarbageCollectionLabel`, which makes the caller
  "responsible for putting appropriate GC labels to prevent the index from being garbage
  collected" (`soci_index.go:420`). It keeps one label on the image, which the index of
  each platform overwrites: those of the others are collected when the leases end
  (`CreateKeepsEveryIndex`; `create.go:164`).

Four more weaknesses are exceptions that a property names:

- A premount's failure or expiry removes the jobs of an image, and the sweep starts to
  delete a directory that a rebase of another layer is about to rename: the mountpoint
  is then half empty, and both calls succeed (`MovesFinishedUnpacks` allows it for removed
  jobs only; `MountedLayersAreWhole` says it never happens; `fs.go:708`).
- A cancelled layer keeps the image's permit when the limiter of all images refuses it
  (`adaptive_fetch_image_layers.go:673`). The layers of a second pull, which nobody
  cancels (`fs.go:553`), wait for ever when all permits of the image are lost
  (`Stranded` in `PremountsEnd`; `EveryPremountEnds` has no exception).
- A directory entry for a path where a file already is takes over the file's node. If the
  layer has a hard link to the file, its other names show the directory too
  (`RetypesLinkedFile` in `MountShowsTheLayer` and `AnswersShowTheLayer`;
  `metadata/reader.go:208`).
- Of several extended attributes, an empty one is stored only if the map's iteration
  gives it first. The attributes then differ from the tar header's, and `Verify` refuses
  every read of the file (`LosesXattr` in `ReadsReturnTheFile`; `metadata/db.go:225`).

Behaviours that the models have and nothing in the repository rules out, so that no
property is claimed: the cleanup of an old pull removes a newer pull's image job by its
digest (`fs.go:604`); `Close` of the background fetcher sends one value to two receivers;
the first error of an image's index is kept for every later mount (`fs.go:396`); a
storage URL read before a refresh may overwrite a newer one (`resolver.go:411`); the
sweeper deletes by key and may hit an entry stored since (`registry.go:118`); a prefetch
worker that finds its span fetched fails, and its error is dropped (`layer.go:627`); a
directory whose unmount has failed stays until the restart (`fs.go:1313`); an index that a
mount's label gives is not compared with the image (`fs.go:898`); a gzip layer that starts
with an empty block is not mounted (`span_manager.go:144`); a lease protects only what is created under it (`soci_index.go:494`);
converting a subset of the platforms of a converted image fails.

## Not modelled

- The directory cache (`cache`) behind the span manager: SpanManager uses it by its
  operations.
- Id-mapped mounts and the label operations (`Stat`, `Update`, `Usage`, `Walk`) of the
  snapshotter, `MountLocal`'s own steps, and the disk usage of a layer.
- Retries of the HTTP transport, mirror configuration and the docker config keychain.
- Inflating, file attributes that are copied, the state directory's files, `Statfs`.
- The SociStore (a directory without a garbage collector) and the conversion of a tar
  file; layers of one index are built in order; `--force` is checked with convert and
  prefetch paths with create.
- Configuration, metrics, id mapping of files, the daemon's set-up, commands that only
  print, generated code and test helpers.
