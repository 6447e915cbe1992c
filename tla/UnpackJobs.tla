----------------------------- MODULE UnpackJobs -----------------------------
(***************************************************************************)
(* Parallel pull and unpack of one image                                   *)
(* (fs/adaptive_fetch_image_layers.go and MountParallel, preloadAllLayers, *)
(* premount, rebase and CleanImage of fs/fs.go).                           *)
(*                                                                         *)
(* The first MountParallel of an image starts one goroutine (premount) for *)
(* every layer from its own on; each unpacks into a directory of its own.  *)
(* Every MountParallel then claims the job of its layer, waits for it and  *)
(* renames the directory to the mountpoint (rebase).  Jobs are found by    *)
(* the image's digest, a failure removes the image's jobs by digest, and a *)
(* garbage collector removes expired jobs and untracked directories.       *)
(*                                                                         *)
(* All pulls here are of one image digest.  A pull prepares the layers in  *)
(* order and gives up at its first error.  The batch <<p, k>> is what pull *)
(* p starts in preloadAllLayers at layer k: an image job, if it is the one *)
(* to create it, a cancellable context, and the jobs <<p, k, l>>.          *)
(***************************************************************************)
EXTENDS Integers, FiniteSets

CONSTANTS
    Pulls,
    NLayers,
    Faults,     \* the steps that may fail
    NoImage     \* no image job under the digest

Layers == 1 .. NLayers
Batches == Pulls \X Layers
Jobs == {j \in Pulls \X Layers \X Layers : j[2] =< j[3]}
FaultKinds == {"manifest", "initialFetch", "create", "unpack", "mountpoint", "cancel"}

ASSUME UnpackJobsAssumption ==
    /\ NLayers \in Nat \ {0}
    /\ Faults \subseteq FaultKinds
    /\ NoImage \notin Batches

VARIABLES
    image,      \* jobs.images[digest]: the batch that created it, or NoImage
    tracked,    \* the layer jobs in its layers map
    imageJob,   \* what GetOrAddImageJob gave to a pull's preload
    parent,     \* the image job a layer job inherits cancel and timestamp from
    cancelled,  \* batches whose context is cancelled
    expired,    \* image jobs older than the expiry time
    status,     \* status of the layer jobs
    premounts,  \* where the premount goroutine of a job stands
    errCh,      \* result of a premount: err before, and errCh after, the send
    dir,        \* the unpack directory of a job
    layer, pc, job,   \* of a pull: the layer it prepares, its step, its claim
    mountpoint, \* what the mountpoint of a pull's layer holds
    gc, gcTodo, gcMem, gcDisk, gcCut  \* garbage collector: its snapshot

jobVars == <<image, tracked, parent, cancelled>>
goVars == <<premounts, errCh>>
pullVars == <<layer, pc, job, imageJob>>
gcVars == <<gc, gcTodo, gcMem, gcDisk, gcCut>>
vars == <<jobVars, expired, status, goVars, dir, pullVars, mountpoint, gcVars>>

batch(j) == <<j[1], j[2]>>

Init ==
    /\ image = NoImage
    /\ tracked = {}
    /\ imageJob = [p \in Pulls |-> NoImage]
    /\ parent = [j \in Jobs |-> NoImage]
    /\ cancelled = {} /\ expired = {}
    /\ status = [j \in Jobs |-> "none"]
    /\ premounts = [j \in Jobs |-> "none"]
    /\ errCh = [j \in Jobs |-> "empty"]
    /\ dir = [j \in Jobs |-> "none"]
    /\ layer = [p \in Pulls |-> 1]
    /\ pc = [p \in Pulls |-> "prepare"]
    /\ job = [p \in Pulls |-> <<>>]
    /\ mountpoint = [p \in Pulls |-> [l \in Layers |-> "none"]]
    /\ gc = "idle" /\ gcTodo = {} /\ gcMem = {} /\ gcDisk = {} /\ gcCut = FALSE

Goto(p, l) == pc' = [pc EXCEPT ![p] = l]

\* RemoveImageWithError removes whatever image job the digest has now; also is
\* what the caller cancels besides.
RemoveImageAnd(also) ==
    /\ image' = NoImage
    /\ tracked' = {}
    /\ cancelled' = cancelled \cup also \cup ({image} \ {NoImage})
    /\ UNCHANGED parent

RemoveImageWithError == RemoveImageAnd({})

(***************************************************************************)
(* MountParallel: start an unpack of the layers unless the image has one.  *)
(***************************************************************************)
MountParallel(p) ==
    /\ pc[p] = "prepare"
    /\ \/ Goto(p, IF image # NoImage THEN "claim" ELSE "preload")
       \/ "cancel" \in Faults /\ Goto(p, "clean")
    /\ UNCHANGED <<jobVars, expired, status, goVars, dir, layer, job, imageJob,
                   mountpoint, gcVars>>

\* preloadAllLayers up to GetOrAddImageJob, which returns an image job that
\* another pull has added in the meantime and then drops the new cancel.
GetOrAddImageJob(p) ==
    /\ pc[p] = "preload"
    /\ \/ LET now == IF image = NoImage THEN <<p, layer[p]>> ELSE image
          IN /\ image' = now
             /\ imageJob' = [imageJob EXCEPT ![p] = now]
             /\ Goto(p, "initialFetch")
       \/ /\ "manifest" \in Faults
          /\ Goto(p, "clean")
          /\ UNCHANGED <<image, imageJob>>
    /\ UNCHANGED <<tracked, parent, cancelled, expired, status, goVars, dir, layer, job,
                   mountpoint, gcVars>>

doInitialFetch(p) ==
    /\ pc[p] = "initialFetch"
    /\ \/ Goto(p, "addLayers") /\ UNCHANGED jobVars
       \/ /\ "initialFetch" \in Faults
          /\ RemoveImageWithError
          /\ Goto(p, "clean")
    /\ UNCHANGED <<expired, status, goVars, dir, layer, job, imageJob,
                   mountpoint, gcVars>>

\* The layers of a batch are added one after the other.
NextToAdd(p) == {<<p, layer[p], l>> : l \in layer[p] .. NLayers}
                    \cap {j \in Jobs : status[j] = "none"
                                       /\ \A i \in layer[p] .. j[3] - 1 :
                                             status[<<p, layer[p], i>>] # "none"}

\* A nil dereference ends the process with all its goroutines.
Panic ==
    /\ pc' = [p \in Pulls |-> "killed"]
    /\ premounts' = [j \in Jobs |-> "killed"]
    /\ gc' = "killed"

\* AddLayerJob, under the mutex: directory and entry appear together.  The
\* entry goes into the image job that the digest has now, if there is one.
AddLayerJob(p) ==
    /\ pc[p] = "addLayers"
    /\ \E j \in NextToAdd(p) :
          \/ /\ image # NoImage
             /\ tracked' = tracked \cup {j}
             /\ parent' = [parent EXCEPT ![j] = imageJob[p]]
             /\ status' = [status EXCEPT ![j] = "inProgress"]
             /\ premounts' = [premounts EXCEPT ![j] = "unpack"]
             /\ dir' = [dir EXCEPT ![j] = "empty"]
             /\ Goto(p, IF j[3] = NLayers THEN "claim" ELSE "addLayers")
             /\ UNCHANGED <<image, cancelled, gc>>
          \/ /\ image = NoImage
             /\ Panic
             /\ UNCHANGED <<jobVars, status, dir>>
          \/ \* the error is not returned: the pull goes on to claim
             /\ "create" \in Faults
             /\ RemoveImageWithError
             /\ Goto(p, "claim")
             /\ UNCHANGED <<status, premounts, dir, gc>>
    /\ UNCHANGED <<expired, errCh, layer, job, imageJob, mountpoint,
                   gcTodo, gcMem, gcDisk, gcCut>>

(***************************************************************************)
(* premount: fetch and unpack one layer.  An unpack into a directory that  *)
(* is being deleted may fail or not notice.                                *)
(***************************************************************************)
Unpack(j) ==
    /\ premounts[j] = "unpack"
    /\ \/ /\ dir[j] = "empty"
          /\ dir' = [dir EXCEPT ![j] = "complete"]
          /\ errCh' = [errCh EXCEPT ![j] = "nil"]
       \/ /\ dir[j] = "sweeping"
          /\ errCh' = [errCh EXCEPT ![j] = "nil"]
          /\ UNCHANGED dir
       \/ /\ "unpack" \in Faults \/ batch(j) \in cancelled \/ dir[j] \in {"sweeping", "gone"}
          /\ errCh' = [errCh EXCEPT ![j] = "err"]
          /\ UNCHANGED dir
    /\ premounts' = [premounts EXCEPT ![j] = "cleanup"]
    /\ UNCHANGED <<jobVars, expired, status, pullVars, mountpoint, gcVars>>

\* The deferred function lets the context's error override the result ...
premountResult(j) == IF batch(j) \in cancelled THEN "err" ELSE errCh[j]

PremountCleanup(j) ==
    /\ premounts[j] = "cleanup"
    /\ errCh' = [errCh EXCEPT ![j] = premountResult(j)]
    /\ IF premountResult(j) = "err" THEN RemoveImageWithError ELSE UNCHANGED jobVars
    /\ premounts' = [premounts EXCEPT ![j] = "send"]
    /\ UNCHANGED <<expired, status, dir, pullVars, mountpoint, gcVars>>

\* Slip: only an error is sent, and success is left without a word.
Slip_OnlyErrorsSent(j) ==
    /\ premounts[j] = "send"
    /\ errCh[j] # "nil"
    /\ premounts' = [premounts EXCEPT ![j] = "done"]
    /\ UNCHANGED <<jobVars, expired, status, errCh, dir, pullVars, mountpoint, gcVars>>

\* ... and sends it on the buffered errCh.
PremountSend(j) ==
    /\ premounts[j] = "send"
    /\ premounts' = [premounts EXCEPT ![j] = "done"]
    /\ UNCHANGED <<jobVars, expired, status, errCh, dir, pullVars, mountpoint, gcVars>>

(***************************************************************************)
(* rebase: claim, wait, move.                                              *)
(***************************************************************************)
\* The code takes the first of the slice; every choice is allowed here.
Claimable(l) == {j \in tracked : j[3] = l /\ status[j] = "inProgress"}

Claim(p) ==
    /\ pc[p] = "claim"
    /\ \/ \E j \in Claimable(layer[p]) :
             /\ status' = [status EXCEPT ![j] = "claimed"]
             /\ job' = [job EXCEPT ![p] = j]
             /\ Goto(p, "wait")
             /\ UNCHANGED jobVars
       \/ /\ Claimable(layer[p]) = {}
          /\ RemoveImageWithError
          /\ Goto(p, "clean")
          /\ UNCHANGED <<status, job>>
    /\ UNCHANGED <<expired, goVars, dir, layer, imageJob, mountpoint, gcVars>>

\* The deferred function of rebase after an error.
RebaseFails(p) ==
    /\ status' = [status EXCEPT ![job[p]] = "cancelled"]
    /\ RemoveImageAnd({parent[job[p]]})
    /\ Goto(p, "clean")

\* Slip: the wait does not look at what it receives.
Slip_AnyResult(p) == premounts[job[p]] = "done"

Succeeded(p) == premounts[job[p]] = "done" /\ errCh[job[p]] = "nil"

Wait(p) ==
    /\ pc[p] = "wait"
    /\ \/ /\ Succeeded(p)
          /\ Goto(p, "stat")
          /\ UNCHANGED <<status, jobVars>>
       \/ /\ \/ premounts[job[p]] = "done" /\ ~Succeeded(p)
             \/ "cancel" \in Faults
          /\ RebaseFails(p)
    /\ UNCHANGED <<expired, goVars, dir, layer, job, imageJob, mountpoint, gcVars>>

\* Slip: a mountpoint that has content counts as success.
Slip_ErrorLost == "remove"

\* A mountpoint that has content stops the rebase, but not as an error for
\* the deferred function: it only removes the layer's job.
mountpointHasContent == "removeAndClean"

StatDirs(p) ==
    /\ pc[p] = "stat"
    /\ \/ /\ dir[job[p]] \notin {"gone", "moved"}
          /\ \/ Goto(p, "rename")
             \/ "mountpoint" \in Faults /\ Goto(p, mountpointHasContent)
          /\ UNCHANGED <<status, jobVars>>
       \/ /\ dir[job[p]] \in {"gone", "moved"}
          /\ RebaseFails(p)
    /\ UNCHANGED <<expired, goVars, dir, layer, job, imageJob, mountpoint, gcVars>>

Rename(p) ==
    /\ pc[p] = "rename"
    /\ \/ /\ dir[job[p]] \notin {"gone", "moved"}
          /\ mountpoint' = [mountpoint EXCEPT ![p][layer[p]] = dir[job[p]]]
          /\ dir' = [dir EXCEPT ![job[p]] = "moved"]
          /\ Goto(p, "remove")
          /\ UNCHANGED <<status, jobVars>>
       \/ /\ dir[job[p]] \in {"gone", "moved"}
          /\ RebaseFails(p)
          /\ UNCHANGED <<mountpoint, dir>>
    /\ UNCHANGED <<expired, goVars, layer, job, imageJob, gcVars>>

\* unpackJobs.remove: the last layer job takes the image job with it.
RemoveJob(j) ==
    /\ tracked' = tracked \ {j}
    /\ IF tracked = {j}
         THEN /\ cancelled' = cancelled \cup {image}
              /\ image' = NoImage
         ELSE UNCHANGED <<image, cancelled>>
    /\ UNCHANGED parent

Remove(p) ==
    /\ pc[p] \in {"remove", "removeAndClean"}
    /\ RemoveJob(job[p])
    /\ \/ /\ pc[p] = "remove"
          /\ layer' = [layer EXCEPT ![p] = IF @ = NLayers THEN @ ELSE @ + 1]
          /\ Goto(p, IF layer[p] = NLayers THEN "done" ELSE "prepare")
       \/ /\ pc[p] = "removeAndClean"
          /\ Goto(p, "clean")
          /\ UNCHANGED layer
    /\ UNCHANGED <<expired, status, goVars, dir, job, imageJob, mountpoint, gcVars>>

\* A client that gives up removes the layers it has; the removal of a snapshot
\* calls CleanImage.
CleanImage(p) ==
    /\ pc[p] = "clean"
    /\ IF layer[p] > 1 THEN RemoveImageWithError ELSE UNCHANGED jobVars
    /\ Goto(p, "failed")
    /\ UNCHANGED <<expired, status, goVars, dir, layer, job, imageJob,
                   mountpoint, gcVars>>

(***************************************************************************)
(* The garbage collector: a snapshot of memory and disk under the mutex,   *)
(* then, without it, expired jobs and untracked directories.               *)
(***************************************************************************)
Expire ==
    /\ gc # "killed"
    /\ image # NoImage
    /\ image \notin expired
    /\ expired' = expired \cup {image}
    /\ UNCHANGED <<jobVars, status, goVars, dir, pullVars, mountpoint, gcVars>>

\* Slip: a directory whose content has been moved away is not listed.
Slip_OnlyWithContent == {j \in Jobs : dir[j] \in {"empty", "complete", "sweeping"}}

\* storage.Keys
OnDisk == {j \in Jobs : dir[j] \notin {"none", "gone"}}

\* Slip: the snapshot misses the jobs in memory.
Slip_NoMemory == {}

inMemory == tracked

Snapshot ==
    /\ gc = "idle"
    /\ OnDisk # {}
    /\ gcMem' = inMemory /\ gcTodo' = inMemory
    /\ gcDisk' = OnDisk
    /\ gcCut' = FALSE
    /\ gc' = "expire"
    /\ UNCHANGED <<jobVars, expired, status, goVars, dir, pullVars, mountpoint>>

SweepExpired(j) ==
    /\ gc = "expire"
    /\ j \in gcTodo
    /\ gcTodo' = gcTodo \ {j}
    /\ IF gcCut
         THEN /\ gcMem' = gcMem \ {j}
              /\ UNCHANGED <<jobVars, gcCut>>
         ELSE IF parent[j] \in expired /\ image # NoImage
         THEN /\ RemoveImageWithError
              /\ gcMem' = gcMem \ {j}
              /\ gcCut' = TRUE
         ELSE UNCHANGED <<jobVars, gcMem, gcCut>>
    /\ UNCHANGED <<expired, status, goVars, dir, pullVars, mountpoint, gc, gcDisk>>

SweepDisk ==
    /\ gc = "expire"
    /\ gcTodo = {}
    /\ gc' = "sweep"
    /\ gcDisk' = gcDisk \ gcMem
    /\ UNCHANGED <<jobVars, expired, status, goVars, dir, pullVars, mountpoint,
                   gcTodo, gcMem, gcCut>>

\* RemoveAll of a directory takes its content first.
Delete(j) ==
    /\ gc = "sweep"
    /\ j \in gcDisk
    /\ \/ /\ dir[j] \in {"empty", "complete"}
          /\ dir' = [dir EXCEPT ![j] = "sweeping"]
          /\ UNCHANGED gcDisk
       \/ /\ dir[j] \in {"sweeping", "moved"}
          /\ dir' = [dir EXCEPT ![j] = "gone"]
          /\ gcDisk' = gcDisk \ {j}
    /\ UNCHANGED <<jobVars, expired, status, goVars, pullVars, mountpoint,
                   gc, gcTodo, gcMem, gcCut>>

SweepEnds ==
    /\ gc = "sweep"
    /\ gcDisk = {}
    /\ gc' = "idle"
    /\ UNCHANGED <<jobVars, expired, status, goVars, dir, pullVars, mountpoint,
                   gcTodo, gcMem, gcDisk, gcCut>>

PullStep(p) ==
    \/ MountParallel(p) \/ GetOrAddImageJob(p) \/ doInitialFetch(p) \/ AddLayerJob(p)
    \/ Claim(p) \/ Wait(p) \/ StatDirs(p) \/ Rename(p) \/ Remove(p) \/ CleanImage(p)
GoStep(j) == Unpack(j) \/ PremountCleanup(j) \/ PremountSend(j)
GCStep == Snapshot \/ SweepDisk \/ SweepEnds \/ \E j \in Jobs : SweepExpired(j) \/ Delete(j)

Next ==
    \/ \E p \in Pulls : PullStep(p)
    \/ \E j \in Jobs : GoStep(j)
    \/ GCStep
    \/ Expire

Spec == Init /\ [][Next]_vars

\* Only an answer of the premount ends this wait for certain: nobody is bound
\* to cancel the call.
Waits(p) == pc[p] = "wait" /\ premounts[job[p]] # "done"

\* Pulls and unpacks go on, the collector runs every interval, and time passes.
FairSpec ==
    /\ Spec
    /\ \A p \in Pulls : WF_vars(~Waits(p) /\ PullStep(p))
    /\ \A j \in Jobs : WF_vars(GoStep(j))
    /\ WF_vars(GCStep)
    /\ WF_vars(Expire)

-----------------------------------------------------------------------------
TypeOK ==
    /\ image \in Batches \cup {NoImage}
    /\ tracked \subseteq Jobs
    /\ imageJob \in [Pulls -> Batches \cup {NoImage}]
    /\ parent \in [Jobs -> Batches \cup {NoImage}]
    /\ cancelled \subseteq Batches /\ expired \subseteq Batches
    /\ status \in [Jobs -> {"none", "inProgress", "claimed", "cancelled"}]
    /\ premounts \in [Jobs -> {"none", "unpack", "cleanup", "send", "done", "killed"}]
    /\ errCh \in [Jobs -> {"empty", "nil", "err"}]
    /\ dir \in [Jobs -> {"none", "empty", "complete", "sweeping", "moved", "gone"}]
    /\ layer \in [Pulls -> Layers]
    /\ pc \in [Pulls -> {"prepare", "preload", "initialFetch", "addLayers", "claim", "wait",
                         "stat", "rename", "remove", "removeAndClean", "clean", "failed",
                         "done", "killed"}]
    /\ job \in [Pulls -> Jobs \cup {<<>>}]
    /\ mountpoint \in [Pulls -> [Layers -> {"none", "empty", "complete", "sweeping"}]]
    /\ gc \in {"idle", "expire", "sweep", "killed"}
    /\ gcTodo \subseteq Jobs /\ gcMem \subseteq Jobs /\ gcDisk \subseteq Jobs
    /\ gcCut \in BOOLEAN

\* The collector never deletes the directory of a job that is tracked, although
\* it works from a snapshot and jobs come and go while it does: a job that is
\* not in the snapshot's memory is not on its disk or will never be tracked.
SweepSparesTracked == gc = "sweep" => gcDisk \cap tracked = {}

\* Jobs enter the memory together with their directory, so no tracked job is
\* without one.
TrackedHasDirectory ==
    \A j \in tracked : dir[j] \notin {"none", "gone"} /\ status[j] # "none"

\* A job is claimed by one rebase: no two pulls move the same directory.
OneClaim ==
    \A p, q \in Pulls :
        p # q /\ job[p] # <<>> => job[p] # job[q]

\* What rebase renames to a mountpoint is the directory of the very job that it
\* claimed for the layer, after that job's premount has reported success, and
\* the directory is whole as long as the job is tracked.  Only the directory of
\* a job that was removed under the rebase, by the failure of another layer or
\* by expiry, may be half deleted: the sweep no longer spares it, and neither
\* the stat nor the rename can tell.
MovesFinishedUnpacks ==
    [][\A p \in Pulls, l \in Layers :
          mountpoint'[p][l] # mountpoint[p][l] =>
              LET j == job[p]
              IN /\ j[3] = l
                 /\ premounts[j] = "done" /\ errCh[j] = "nil"
                 /\ \/ mountpoint'[p][l] = "complete"
                    \/ j \notin tracked /\ mountpoint'[p][l] = "sweeping"]_vars

\* A pull whose calls all succeeded has a directory in place for every layer,
\* and one that failed stopped at the layer it names.  What the directories hold
\* is the subject of MovesFinishedUnpacks.
DoneMeansAllMounted ==
    \A p \in Pulls :
        pc[p] # "killed" => \A l \in Layers :
            (mountpoint[p][l] # "none") <=> \/ l < layer[p]
                                            \/ l = layer[p] /\ pc[p] \in {"remove", "done"}

\* Every MountParallel call of a pull returns.
PullsEnd == \A p \in Pulls : <>(pc[p] \in {"done", "failed", "killed"})

\* No directory stays on disk for good, whatever became of its job.
NoDirectoryLeaks ==
    \A j \in Jobs : dir[j] # "none" ~> (dir[j] = "gone" \/ gc = "killed")

-----------------------------------------------------------------------------
\* AddLayerJob adds the job to the in-memory store: the image job that it is
\* given is still registered when it does.
AddLayerJobAdds == gc # "killed"

\* A mounted layer has all its files: rebase never moves a directory that the
\* collector is deleting.
MountedLayersAreWhole ==
    \A p \in Pulls, l \in Layers : mountpoint[p][l] \in {"none", "complete"}
=============================================================================
