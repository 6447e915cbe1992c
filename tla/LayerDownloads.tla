--------------------------- MODULE LayerDownloads ---------------------------
(***************************************************************************)
(* One layer of a parallel pull, inside: what premount (fs/fs.go) does     *)
(* between the start of its goroutine and its result.  UnpackJobs has this *)
(* as one step, `unpack`.                                                  *)
(*                                                                         *)
(* The layer is taken from the content store or downloaded into a file, in *)
(* one request or in ranged requests that run in goroutines of their own   *)
(* (fs/parallel_artifact_fetcher.go); then unpacked, verified and, unless  *)
(* unpacked layers are discarded, stored (fs/parallel_unpacker.go and      *)
(* fs/unpacker.go).  Requests and unpacks are limited for each image and   *)
(* for all of them (fs/adaptive_fetch_image_layers.go).                    *)
(*                                                                         *)
(* Every pull of an image has a context, and the first registers the       *)
(* image's job with it; a pull that finds the job there premounts its      *)
(* layers with the limiters of that job, but nobody cancels its context.   *)
(***************************************************************************)
EXTENDS ChunkRanges, FiniteSets, FiniteSetsExt

CONSTANTS
    Layers,     \* layer jobs, each with its premount
    Images,     \* image jobs
    ImageOf,    \* the image of each layer
    Second,     \* the layers that a second pull of the image may premount
    Digest,     \* the digest of each layer
    Size,       \* the bytes of each layer
    Present,    \* the digests that may be in the content store to begin with
    Configs,    \* parallel pull configurations
    Faults,     \* among "initial", "request", "bad", "short", "file", "clean"
    MaxFaults   \* how many of them happen

ASSUME LayerDownloadsAssumption ==
    /\ IsFiniteSet(Layers) /\ ImageOf \in [Layers -> Images]
    /\ Size \in [Layers -> Nat \ {0}]
    /\ Second \subseteq Layers /\ DOMAIN Digest = Layers
    /\ Configs \subseteq [downloads : Int, downloadsPerImage : Int, unpacks : Int,
                          unpacksPerImage : Int, chunkSize : Int, discard : BOOLEAN]
    /\ MaxFaults \in Nat

VARIABLES
    config,     \* the configuration
    second,     \* layers premounted by a pull that found the image's job there
    pc,         \* where the premount of a layer stands
    local,      \* layers found in the content store
    ranged,     \* layers downloaded in ranged requests
    chunks,     \* the state of each request of a layer
    failed,     \* layers whose errgroup has an error
    file,       \* what each byte of the ingest file holds
    storing,    \* the goroutine that stores the layer
    stored,     \* the content store
    cancelled,  \* images whose job's context is cancelled
    downloads, allDownloads, unpacks, allUnpacks, \* permits taken from the limiters
    faults

permits == <<downloads, allDownloads, unpacks, allUnpacks>>
vars == <<config, second, pc, local, ranged, chunks, failed, file, storing, stored, cancelled, permits, faults>>

image(l) == ImageOf[l]
loops(l) == calcNumLoops(config.chunkSize, Size[l])
Requests(l) == 0 .. loops(l) - 1

checkParallelPullUnpack(c) ==
    /\ c.downloads > unlimited => c.downloadsPerImage <= c.downloads
    /\ c.unpacks > unlimited => c.unpacksPerImage <= c.unpacks

Init ==
    /\ config \in {c \in Configs : checkParallelPullUnpack(c)}
    /\ second \in SUBSET Second
    /\ pc = [l \in Layers |-> "fetch"]
    /\ local = {} /\ ranged = {} /\ failed = {}
    /\ chunks = [l \in Layers |-> [i \in Requests(l) |-> "none"]]
    /\ file = [l \in Layers |-> [b \in 0 .. Size[l] - 1 |-> "hole"]]
    /\ storing = [l \in Layers |-> "none"]
    /\ stored \in SUBSET Present
    /\ cancelled = {}
    /\ downloads = [i \in Images |-> 0] /\ allDownloads = 0
    /\ unpacks = [i \in Images |-> 0] /\ allUnpacks = 0
    /\ faults = 0

Goto(l, step) == pc' = [pc EXCEPT ![l] = step]
Fault(kind) == kind \in Faults /\ faults < MaxFaults /\ faults' = faults + 1

\* The context of the layer's pull is done.  GetOrAddImageJob takes the cancel
\* function of the first pull only.
Cancelled(l) == image(l) \in cancelled /\ l \notin second

\* premount ends with an error: the image's jobs are removed and the job's
\* context is cancelled.
Fail(l) == Goto(l, "failed") /\ cancelled' = cancelled \cup {image(l)}

(***************************************************************************)
(* SemaphoreWithNil: no limit, no semaphore.                               *)
(***************************************************************************)
Free(limit, taken) == limit <= unlimited \/ taken < limit

\* Acquire fails when the context is done; without a semaphore it does not look.
Refused(limit, l) == limit > unlimited /\ Cancelled(l)

Take(limit, taken) == IF limit <= unlimited THEN taken ELSE taken + 1

Give(limit, taken) == IF limit <= unlimited THEN taken ELSE taken - 1

Slip_OneLimiter(l) ==
    /\ downloads' = [downloads EXCEPT ![image(l)] = Give(config.downloadsPerImage, @)]
    /\ UNCHANGED allDownloads

ReleaseDownload(l) ==
    /\ downloads' = [downloads EXCEPT ![image(l)] = Give(config.downloadsPerImage, @)]
    /\ allDownloads' = Give(config.downloads, allDownloads)

(***************************************************************************)
(* parallelArtifactFetcher.Fetch                                           *)
(***************************************************************************)
FetchLocal(l) ==
    /\ pc[l] = "fetch"
    /\ \/ /\ Digest[l] \in stored
          /\ local' = local \cup {l} /\ Goto(l, "lease")
       \/ /\ Digest[l] \notin stored \/ Cancelled(l)
          /\ UNCHANGED local /\ Goto(l, IF loops(l) > 1 THEN "initial" ELSE "acquire")
    /\ UNCHANGED <<config, second, ranged, chunks, failed, file, storing, stored, cancelled, permits, faults>>

\* The ingest file cannot be made.
IngestFails(l) ==
    /\ pc[l] \in {"initial", "acquire"} /\ \A i \in Requests(l) : chunks[l][i] = "none"
    /\ Fault("file") /\ Fail(l)
    /\ UNCHANGED <<config, second, local, ranged, chunks, failed, file, storing, stored, permits>>

\* Whether the registry takes ranges.
doInitialFetch(l) ==
    /\ pc[l] = "initial"
    /\ \/ /\ ranged' \in {ranged, ranged \cup {l}}
          /\ Goto(l, "acquire") /\ UNCHANGED <<cancelled, faults>>
       \/ Fault("initial") /\ Fail(l) /\ UNCHANGED ranged
       \/ Cancelled(l) /\ Fail(l) /\ UNCHANGED <<ranged, faults>>
    /\ UNCHANGED <<config, second, local, chunks, failed, file, storing, stored, permits>>

ToRequest(l) == {i \in IF l \in ranged THEN Requests(l) ELSE {0} : chunks[l][i] = "none"}

Slip_IgnoresContext(l) ==
    /\ pc[l] = "acquire"
    /\ Free(config.downloadsPerImage, downloads[image(l)])
    /\ downloads' = [downloads EXCEPT ![image(l)] = Take(config.downloadsPerImage, @)]
    /\ Goto(l, "acquireGlobal")
    /\ UNCHANGED <<config, second, local, ranged, chunks, failed, file, storing, stored, cancelled, allDownloads, unpacks, allUnpacks, faults>>

\* AcquireDownload: the image's limiter first.
AcquireDownload(l) ==
    /\ pc[l] = "acquire"
    /\ IF Refused(config.downloadsPerImage, l) THEN Fail(l) /\ UNCHANGED permits
       ELSE /\ Free(config.downloadsPerImage, downloads[image(l)])
            /\ downloads' = [downloads EXCEPT ![image(l)] = Take(config.downloadsPerImage, @)]
            /\ Goto(l, "acquireGlobal")
            /\ UNCHANGED <<cancelled, allDownloads, unpacks, allUnpacks>>
    /\ UNCHANGED <<config, second, local, ranged, chunks, failed, file, storing, stored, faults>>

\* Then the limiter of all images: if it fails, the image's permit is not given
\* back.  Otherwise a request starts, and the loop goes on while there are more.
StartRequest(l) ==
    /\ pc[l] = "acquireGlobal"
    /\ IF Refused(config.downloads, l) THEN Fail(l) /\ UNCHANGED <<chunks, permits>>
       ELSE /\ Free(config.downloads, allDownloads)
            /\ allDownloads' = Take(config.downloads, allDownloads)
            /\ chunks' = [chunks EXCEPT ![l][Min(ToRequest(l))] = "request"]
            /\ Goto(l, IF Cardinality(ToRequest(l)) > 1 THEN "acquire" ELSE "wait")
            /\ UNCHANGED <<cancelled, downloads, unpacks, allUnpacks>>
    /\ UNCHANGED <<config, second, local, ranged, failed, file, storing, stored, faults>>

EndRequest(l, i, error) ==
    /\ chunks' = [chunks EXCEPT ![l][i] = "done"]
    /\ failed' = IF error THEN failed \cup {l} ELSE failed
    /\ ReleaseDownload(l)
    /\ UNCHANGED <<unpacks, allUnpacks>>

\* FetchRange, or Fetch for the one request: the response.  A registry that
\* ignores the range answers with other bytes.
FetchRange(l, i) ==
    /\ chunks[l][i] = "request"
    /\ \/ /\ \/ Fault("request")
             \/ (Cancelled(l) \/ l \in failed) /\ UNCHANGED faults
          /\ EndRequest(l, i, TRUE)
       \/ /\ \E reply \in {"good", "bad", "short"} :
                /\ chunks' = [chunks EXCEPT ![l][i] = reply]
                /\ IF reply = "good" THEN UNCHANGED faults ELSE Fault(reply)
          /\ UNCHANGED <<failed, permits>>
    /\ UNCHANGED <<config, second, pc, local, ranged, file, storing, stored, cancelled>>

Written(l, i) == IF l \in ranged THEN Bytes(config.chunkSize, i, Size[l]) ELSE Bytes(unlimited, 0, Size[l])

\* writeToFileRange, which wants all the bytes, or writeToEntireFile, which does
\* not.  The copy runs to its end before the select looks at the context; a
\* context that is done may still be what the select returns.
WriteRange(l, i) ==
    /\ chunks[l][i] \in {"good", "bad", "short"}
    /\ file' = [file EXCEPT ![l] = [b \in DOMAIN @ |->
                   IF b \in Written(l, i) /\ ~(chunks[l][i] = "short" /\ b = Max(Written(l, i)))
                   THEN IF chunks[l][i] = "bad" THEN "bad" ELSE "good"
                   ELSE @[b]]]
    /\ \/ EndRequest(l, i, l \in ranged /\ chunks[l][i] = "short")
       \/ (Cancelled(l) \/ l \in failed) /\ l \in ranged /\ EndRequest(l, i, TRUE)
    /\ UNCHANGED <<config, second, pc, local, ranged, storing, stored, cancelled, faults>>

InFlight(l) == {i \in Requests(l) : chunks[l][i] \notin {"none", "done"}}

Slip_DoesNotWait(l) ==
    /\ pc[l] = "wait"
    /\ IF l \in failed THEN Fail(l) ELSE Goto(l, "lease") /\ UNCHANGED cancelled
    /\ UNCHANGED <<config, second, local, ranged, chunks, failed, file, storing, stored, permits, faults>>

\* All requests have ended; or the context has, and requests may still run.
\* Then the verification of the file starts, if unpacked layers are discarded.
FetchEnds(l) ==
    /\ pc[l] = "wait"
    /\ \/ /\ InFlight(l) = {}
          /\ IF l \in failed THEN Fail(l) ELSE Goto(l, "lease") /\ UNCHANGED cancelled
       \/ l \in ranged /\ Cancelled(l) /\ Fail(l)
    /\ UNCHANGED <<config, second, local, ranged, chunks, failed, file, storing, stored, permits, faults>>

(***************************************************************************)
(* parallelLayerUnpacker.Unpack                                            *)
(***************************************************************************)
AcquireUnpackLease(l) ==
    /\ pc[l] = "lease"
    /\ IF Refused(config.unpacksPerImage, l) THEN Fail(l) /\ UNCHANGED permits
       ELSE /\ Free(config.unpacksPerImage, unpacks[image(l)])
            /\ unpacks' = [unpacks EXCEPT ![image(l)] = Take(config.unpacksPerImage, @)]
            /\ Goto(l, "leaseGlobal")
            /\ UNCHANGED <<cancelled, downloads, allDownloads, allUnpacks>>
    /\ UNCHANGED <<config, second, local, ranged, chunks, failed, file, storing, stored, faults>>

\* The permit of the image is given back if the other cannot be had.  With the
\* lease, the layer's storage starts, and the destination must be ready.
StartUnpack(l) ==
    /\ pc[l] = "leaseGlobal"
    /\ IF Refused(config.unpacks, l)
       THEN /\ unpacks' = [unpacks EXCEPT ![image(l)] = Give(config.unpacksPerImage, @)]
            /\ Fail(l)
            /\ UNCHANGED <<allUnpacks, storing>>
       ELSE /\ Free(config.unpacks, allUnpacks)
            /\ allUnpacks' = Take(config.unpacks, allUnpacks)
            /\ Goto(l, "apply")
            /\ storing' = IF l \in local \/ config.discard THEN storing ELSE [storing EXCEPT ![l] = "running"]
            /\ UNCHANGED <<cancelled, unpacks>>
    /\ UNCHANGED <<config, second, local, ranged, chunks, failed, file, stored, downloads, allDownloads, faults>>

release(l) ==
    /\ unpacks' = [unpacks EXCEPT ![image(l)] = Give(config.unpacksPerImage, @)]
    /\ allUnpacks' = Give(config.unpacks, allUnpacks)
    /\ UNCHANGED <<downloads, allDownloads>>

Intact(l) == \A b \in DOMAIN file[l] : file[l][b] = "good"

\* The digest of what was unpacked, and that of the file: where unpacked layers
\* are discarded, a verification that was never started is one that fails.
Verified(l) == IF l \in local THEN ~config.discard ELSE Intact(l)

\* Apply; the destination may also not be ready.
Apply(l) ==
    /\ pc[l] = "apply"
    /\ \/ Verified(l) /\ Goto(l, "stored") /\ UNCHANGED <<permits, cancelled, faults>>
       \/ (~Verified(l) \/ Cancelled(l)) /\ Fail(l) /\ release(l) /\ UNCHANGED faults
       \/ Fault("file") /\ Fail(l) /\ release(l)
    /\ UNCHANGED <<config, second, local, ranged, chunks, failed, file, storing, stored>>

\* Store, in its goroutine: the content store has the blob already, or checks
\* its digest.  When Unpack has returned, the file it reads from is closed.
Store(l) ==
    /\ storing[l] = "running"
    /\ \/ /\ Digest[l] \in stored \/ Intact(l)
          /\ stored' = stored \cup {Digest[l]}
          /\ storing' = [storing EXCEPT ![l] = "ok"] /\ UNCHANGED faults
       \/ /\ ~Intact(l) \/ Cancelled(l) \/ pc[l] = "failed"
          /\ storing' = [storing EXCEPT ![l] = "error"] /\ UNCHANGED <<stored, faults>>
       \/ /\ Fault("file")
          /\ storing' = [storing EXCEPT ![l] = "error"] /\ UNCHANGED stored
    /\ UNCHANGED <<config, second, pc, local, ranged, chunks, failed, file, cancelled, permits>>

Slip_DoesNotWaitForStore(l) ==
    /\ pc[l] = "stored"
    /\ release(l)
    /\ IF Cancelled(l) THEN Fail(l) ELSE Goto(l, "ok") /\ UNCHANGED cancelled
    /\ UNCHANGED <<config, second, local, ranged, chunks, failed, file, storing, stored, faults>>

\* errGroup.Wait; and premount looks at its context once more.
UnpackEnds(l) ==
    /\ pc[l] = "stored" /\ storing[l] # "running"
    /\ release(l)
    /\ IF storing[l] = "error" \/ Cancelled(l) THEN Fail(l) ELSE Goto(l, "ok") /\ UNCHANGED cancelled
    /\ UNCHANGED <<config, second, local, ranged, chunks, failed, file, storing, stored, faults>>

\* The image is removed, or its jobs expire.
CleanImage(i) ==
    /\ i \notin cancelled /\ Fault("clean")
    /\ cancelled' = cancelled \cup {i}
    /\ UNCHANGED <<config, second, pc, local, ranged, chunks, failed, file, storing, stored, permits>>

-----------------------------------------------------------------------------
Premount(l) ==
    \/ FetchLocal(l) \/ doInitialFetch(l) \/ AcquireDownload(l) \/ StartRequest(l) \/ FetchEnds(l)
    \/ AcquireUnpackLease(l) \/ StartUnpack(l) \/ Apply(l) \/ Store(l) \/ UnpackEnds(l)

Next ==
    \/ \E l \in Layers : Premount(l) \/ IngestFails(l)
    \/ \E l \in Layers : \E i \in Requests(l) : FetchRange(l, i) \/ WriteRange(l, i)
    \/ \E i \in Images : CleanImage(i)

\* Some goroutine that can run does: nothing is done twice, so that fairness to
\* each of them is not needed.
Fairness ==
    WF_vars(\E l \in Layers : Premount(l) \/ \E i \in Requests(l) : FetchRange(l, i) \/ WriteRange(l, i))

Spec == Init /\ [][Next]_vars /\ Fairness
-----------------------------------------------------------------------------

\* The requests under way for the layers S.
Holding(S) == UNION {{l} \X InFlight(l) : l \in S}
Unpacking(l) == pc[l] \in {"apply", "stored"}
Of(i) == {l \in Layers : image(l) = i}
Within(limit, n) == limit <= unlimited \/ n <= limit
Blobs == Present \cup {Digest[l] : l \in Layers}

\* Counters are counts, bytes are what a request may write, and the content
\* store holds blobs of the images.
TypeOK ==
    /\ config \in Configs /\ second \subseteq Second
    /\ pc \in [Layers -> {"fetch", "initial", "acquire", "acquireGlobal", "wait", "lease", "leaseGlobal",
                          "apply", "stored", "ok", "failed"}]
    /\ local \subseteq Layers /\ ranged \subseteq Layers /\ failed \subseteq Layers
    /\ DOMAIN chunks = Layers /\ DOMAIN file = Layers
    /\ \A l \in Layers : chunks[l] \in [Requests(l) -> {"none", "request", "good", "bad", "short", "done"}]
    /\ \A l \in Layers : file[l] \in [0 .. Size[l] - 1 -> {"hole", "good", "bad"}]
    /\ storing \in [Layers -> {"none", "running", "ok", "error"}]
    /\ stored \subseteq Blobs /\ cancelled \subseteq Images
    /\ downloads \in [Images -> Nat] /\ unpacks \in [Images -> Nat]
    /\ allDownloads \in Nat /\ allUnpacks \in Nat
    /\ faults \in 0 .. MaxFaults

\* The requests under way and the layers being unpacked, of an image and in
\* all, are not more than max_concurrent_downloads(_per_image) and
\* max_concurrent_unpacks(_per_image) allow, also while requests of a layer
\* outlive a fetch that returned early.
LimitsHold ==
    /\ Within(config.downloads, Cardinality(Holding(Layers)))
    /\ Within(config.unpacks, Cardinality({l \in Layers : Unpacking(l)}))
    /\ \A i \in Images :
          /\ Within(config.downloadsPerImage, Cardinality(Holding(Of(i))))
          /\ Within(config.unpacksPerImage, Cardinality({l \in Of(i) : Unpacking(l)}))

\* The limits hold, and no permit of the limiters for all images is lost or given
\* back twice, whatever way requests and unpacks end: what is taken is what
\* goroutines hold.
\* Of an image's own limiter a permit is lost only when the image is cancelled and
\* there is a limit for all images, whose limiter then fails with the permit
\* taken (AcquireDownload, adaptive_fetch_image_layers.go:673).
PermitsAreHeld ==
    /\ LimitsHold
    /\ config.downloads > unlimited => allDownloads = Cardinality(Holding(Layers))
    /\ config.unpacks > unlimited => allUnpacks = Cardinality({l \in Layers : Unpacking(l)})
    /\ \A i \in Images :
          /\ config.unpacksPerImage > unlimited =>
                unpacks[i] = Cardinality({l \in Of(i) : Unpacking(l) \/ pc[l] = "leaseGlobal"})
          /\ config.downloadsPerImage > unlimited /\ (i \notin cancelled \/ config.downloads <= unlimited) =>
                downloads[i] = Cardinality(Holding(Of(i))) + Cardinality({l \in Of(i) : pc[l] = "acquireGlobal"})

\* When the file is read, to unpack, verify or store it, no request of the layer
\* still writes to it, and ranged requests have written every byte of it.
FilesAreWholeWhenRead ==
    \A l \in Layers \ local : pc[l] \in {"lease", "leaseGlobal", "apply", "stored", "ok"} =>
        /\ InFlight(l) = {}
        /\ l \in ranged => \A b \in DOMAIN file[l] : file[l][b] # "hole"

\* A layer that premount reports as unpacked is the layer that the manifest
\* names, whatever the registry sent, and is in the content store unless
\* unpacked layers are discarded.
UnpackedLayersAreVerified ==
    \A l \in Layers : pc[l] = "ok" =>
        /\ l \notin local => Intact(l)
        /\ ~config.discard => Digest[l] \in stored

Ended(l) == pc[l] \in {"ok", "failed"} /\ InFlight(l) = {} /\ storing[l] # "running"

\* A layer of a second pull whose image has lost all its permits for downloads.
Stranded(l) ==
    /\ l \in second /\ pc[l] = "acquire" /\ image(l) \in cancelled
    /\ config.downloads > unlimited
    /\ config.downloadsPerImage > unlimited /\ downloads[image(l)] = config.downloadsPerImage
    /\ \A k \in Of(image(l)) : InFlight(k) = {} /\ pc[k] # "acquireGlobal"

\* Every premount ends, and with it every goroutine it started, although a layer
\* holds permits while it waits for more and an image that is cancelled loses
\* some: a premount whose context the image's job cancels does not wait for a
\* permit for ever.  Nor does one of a second pull, whose context nobody cancels
\* (fs.go:553), unless every permit of its image was lost by layers that were
\* cancelled in AcquireDownload.
PremountsEnd == <>[](\A l \in Layers : Ended(l) \/ Stranded(l))

-----------------------------------------------------------------------------
\* Every premount ends.  A premount of a second pull does not, when the layers
\* of the first have lost the permits it needs.
EveryPremountEnds == <>[](\A l \in Layers : Ended(l))

=============================================================================
