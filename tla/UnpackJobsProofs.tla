-------------------------- MODULE UnpackJobsProofs --------------------------
(***************************************************************************)
(* Proofs about UnpackJobs for any number of pulls and layers.             *)
(*                                                                         *)
(* The garbage collector works from a snapshot that is stale as soon as    *)
(* the mutex is released.  It is safe all the same because a job becomes   *)
(* tracked only once, when it is created: Collectable says that what the   *)
(* collector may still delete was created before and is not tracked, and   *)
(* Known ties a job's directory, its parent and its claim to its creation. *)
(* Waited and Filled follow a directory from its unpack to the rename that *)
(* mounts it.                                                              *)
(***************************************************************************)
EXTENDS UnpackJobs, TLAPS

\* Whatever is used has been created: tracked jobs belong to an image job, jobs
\* have a parent, preloads have an image job and rebases a job that is claimed.
Known ==
    /\ tracked # {} => image # NoImage
    /\ \A j \in tracked : status[j] # "none"
    /\ \A j \in Jobs : status[j] = "none" => dir[j] = "none"
    /\ \A j \in Jobs : status[j] # "none" => parent[j] # NoImage
    /\ \A p \in Pulls : /\ pc[p] \in {"initialFetch", "addLayers"} => imageJob[p] # NoImage
                        /\ job[p] # <<>> => status[job[p]] \in {"claimed", "cancelled"}
                        /\ pc[p] \in {"wait", "stat", "rename", "remove", "removeAndClean"}
                             => job[p] # <<>>

\* The result of a job's premount is in and is nil.
Unpacked(j) ==
    status[j] # "none" /\ errCh[j] = "nil" /\ premounts[j] = "done"

\* A rebase past its wait holds a job of its layer with a nil result.
Waited ==
    \A p \in Pulls :
        pc[p] \in {"wait", "stat", "rename"} =>
            /\ job[p][3] = layer[p]
            /\ pc[p] # "wait" => Unpacked(job[p])

\* What the collector may yet delete existed at its snapshot, and is not tracked
\* unless the snapshot says so.
Collectable ==
    /\ gcTodo \subseteq gcMem
    /\ \A j \in gcDisk \cup gcMem : status[j] # "none"
    /\ gc = "expire" => (gcDisk \ gcMem) \cap tracked = {}
    /\ gc = "expire" /\ gcCut => (gcDisk \cup gcMem) \cap tracked = {}
    /\ gc = "sweep" => gcDisk \cap tracked = {}

\* A job that does not exist has no premount and no result, an unpack that ended
\* without an error has filled its directory, and no deletion of the directory of
\* a tracked job has begun.
Filled ==
    /\ \A j \in Jobs : status[j] = "none" =>
          errCh[j] = "empty" /\ premounts[j] \in {"none", "killed"}
    /\ \A j \in Jobs : errCh[j] = "nil" => dir[j] \notin {"none", "empty"}
    /\ \A j \in tracked : dir[j] # "sweeping"

\* Membership facts about batches and jobs.
LEMMA JobFacts ==
    /\ NoImage \notin Batches
    /\ <<>> \notin Jobs
    /\ \A p \in Pulls, l \in Layers : <<p, l>> \in Batches
    /\ \A j \in Jobs : batch(j) \in Batches /\ j[3] \in Layers
BY UnpackJobsAssumption, SMTT(60), Z3T(60) DEF Batches, Jobs, batch

\* The types of the job store.
JobTypes ==
    /\ image \in Batches \cup {NoImage}
    /\ tracked \subseteq Jobs
    /\ parent \in [Jobs -> Batches \cup {NoImage}]
    /\ cancelled \subseteq Batches

\* The three outcomes of AddLayerJob.
Added(p, j) ==
    /\ image # NoImage
    /\ tracked' = tracked \cup {j}
    /\ parent' = [parent EXCEPT ![j] = imageJob[p]]
    /\ status' = [status EXCEPT ![j] = "inProgress"]
    /\ premounts' = [premounts EXCEPT ![j] = "unpack"]
    /\ dir' = [dir EXCEPT ![j] = "empty"]
    /\ Goto(p, IF j[3] = NLayers THEN "claim" ELSE "addLayers")
    /\ UNCHANGED <<image, cancelled, gc>>

NotAdded(p) ==
    /\ RemoveImageWithError
    /\ Goto(p, "claim")
    /\ UNCHANGED <<status, premounts, dir, gc>>

AddOne(p, j) == Added(p, j) \/ (Panic /\ UNCHANGED <<jobVars, status, dir>>) \/ NotAdded(p)

\* AddLayerJob has no other outcome.
LEMMA AddLayerJobCases ==
    ASSUME NEW p, AddLayerJob(p)
    PROVE  \E j \in NextToAdd(p) : AddOne(p, j)
BY ZenonT(60) DEF AddLayerJob, AddOne, Added, NotAdded

\* Removing the image job keeps these types.
LEMMA RemoveTyped ==
    ASSUME TypeOK, NEW also \in SUBSET Batches, RemoveImageAnd(also)
    PROVE  JobTypes'
BY ZenonT(60) DEF RemoveImageAnd, TypeOK, JobTypes

\* So does the error path of rebase.
LEMMA RebaseTyped ==
    ASSUME TypeOK, NEW p \in Pulls, RebaseFails(p),
           job[p] \in Jobs, parent[job[p]] \in Batches
    PROVE  /\ JobTypes'
           /\ status' \in [Jobs -> {"none", "inProgress", "claimed", "cancelled"}]
           /\ pc' = [pc EXCEPT ![p] = "clean"]
<1>1. JobTypes'
  BY RemoveTyped, UnpackJobsAssumption, ZenonT(60) DEF RebaseFails
<1>2. QED
  BY <1>1, ZenonT(60) DEF RebaseFails, TypeOK, Goto

\* Nothing else is touched by a rebase that fails.
LEMMA RebaseKeeps ==
    ASSUME TypeOK, NEW p \in Pulls, RebaseFails(p),
           job[p] \in Jobs, parent[job[p]] \in Batches,
           UNCHANGED <<expired, goVars, dir, layer, job, imageJob, mountpoint, gcVars>>
    PROVE  TypeOK'
<1>1. /\ JobTypes'
      /\ status' \in [Jobs -> {"none", "inProgress", "claimed", "cancelled"}]
      /\ pc' = [pc EXCEPT ![p] = "clean"]
  BY RebaseTyped, ZenonT(60)
<1>2. pc' \in [Pulls -> {"prepare", "preload", "initialFetch", "addLayers", "claim", "wait",
                        "stat", "rename", "remove", "removeAndClean", "clean", "failed",
                        "done", "killed"}]
  BY <1>1, ZenonT(60) DEF TypeOK
<1>3. /\ expired' = expired /\ premounts' = premounts /\ errCh' = errCh /\ dir' = dir
      /\ layer' = layer /\ job' = job /\ imageJob' = imageJob /\ mountpoint' = mountpoint
      /\ gc' = gc /\ gcTodo' = gcTodo /\ gcMem' = gcMem /\ gcDisk' = gcDisk /\ gcCut' = gcCut
  BY ZenonT(60) DEF goVars, gcVars
<1>4. QED
  BY <1>1, <1>2, <1>3, ZenonT(60), SMTT(60) DEF TypeOK, JobTypes

\* Removing the last job removes the image job, which then is one.
LEMMA RemoveJobTyped ==
    ASSUME TypeOK, Known, NEW j \in Jobs, RemoveJob(j)
    PROVE  JobTypes'
<1>1. tracked' \subseteq Jobs /\ parent' = parent
  BY ZenonT(60) DEF RemoveJob, TypeOK
<1>2. CASE tracked = {j}
  <2>1. image \in Batches
    BY <1>2, ZenonT(60) DEF Known, TypeOK
  <2>2. image' = NoImage /\ cancelled' = cancelled \cup {image}
    BY <1>2, ZenonT(60) DEF RemoveJob
  <2>3. QED
    BY <1>1, <2>1, <2>2, ZenonT(60) DEF JobTypes, TypeOK
<1>3. CASE tracked # {j}
  BY <1>1, <1>3, ZenonT(60) DEF RemoveJob, JobTypes, TypeOK
<1>4. QED
  BY <1>2, <1>3, ZenonT(60)

\* The types are kept; Known makes sure that what is cancelled exists.
LEMMA TypingStep ==
    ASSUME TypeOK, Known, [Next]_vars
    PROVE  TypeOK'
<1> USE DEF TypeOK, jobVars, goVars, pullVars, gcVars, Goto
<1>1. ASSUME NEW p \in Pulls, PullStep(p) PROVE TypeOK'
  <2>1. CASE MountParallel(p)
    <3>1. /\ \E l \in {"claim", "preload", "clean"} : pc' = [pc EXCEPT ![p] = l]
          /\ UNCHANGED <<jobVars, expired, status, goVars, dir, layer, job, imageJob,
                         mountpoint, gcVars>>
      BY <2>1, ZenonT(60) DEF MountParallel
    <3>2. QED
      BY <3>1, SMTT(60), Z3T(60)
  <2>2. CASE GetOrAddImageJob(p)
    <3>1. PICK now \in Batches \cup {NoImage} :
            /\ image' = now \/ UNCHANGED image
            /\ imageJob' = [imageJob EXCEPT ![p] = now] \/ UNCHANGED imageJob
            /\ Goto(p, "initialFetch") \/ Goto(p, "clean")
      <4>1. <<p, layer[p]>> \in Batches
        BY JobFacts, ZenonT(60)
      <4>2. QED
        BY <4>1, <2>2, ZenonT(30) DEF GetOrAddImageJob
    <3>2. UNCHANGED <<tracked, parent, cancelled, expired, status, goVars, dir, layer, job,
                      mountpoint, gcVars>>
      BY <2>2, ZenonT(60) DEF GetOrAddImageJob
    <3>3. image' \in Batches \cup {NoImage} /\ imageJob' \in [Pulls -> Batches \cup {NoImage}]
      BY <3>1, SMTT(60), Z3T(60)
    <3>4. QED
      BY <3>1, <3>2, <3>3, ZenonT(60), SMTT(60)
  <2>3. CASE doInitialFetch(p)
    <3>1. CASE RemoveImageWithError
      BY <2>3, <3>1, RemoveTyped, ZenonT(60), SMTT(60) DEF doInitialFetch, RemoveImageWithError, JobTypes
    <3>2. CASE UNCHANGED jobVars
      BY <2>3, <3>2, ZenonT(60) DEF doInitialFetch
    <3>3. QED
      BY <2>3, <3>1, <3>2, ZenonT(60) DEF doInitialFetch
  <2>4. CASE AddLayerJob(p)
    <3>1. PICK j \in NextToAdd(p) : AddOne(p, j)
      BY <2>4, AddLayerJobCases, ZenonT(60)
    <3>2. j \in Jobs /\ status[j] = "none"
      BY <3>1, ZenonT(60) DEF NextToAdd
    <3>3. UNCHANGED <<expired, errCh, layer, job, imageJob, mountpoint,
                      gcTodo, gcMem, gcDisk, gcCut>>
      BY <2>4, ZenonT(60) DEF AddLayerJob
    <3>4. CASE Added(p, j)
      BY JobFacts, <3>2, <3>3, <3>4, <2>4, SMTT(60), Z3T(60) DEF Added, AddLayerJob
    <3>5. CASE Panic /\ UNCHANGED <<jobVars, status, dir>>
      BY <3>3, <3>5, ZenonT(60) DEF Panic
    <3>6. CASE NotAdded(p)
      BY <3>3, <3>6, ZenonT(60) DEF NotAdded, RemoveImageWithError, RemoveImageAnd
    <3>7. QED
      BY <3>1, <3>4, <3>5, <3>6, ZenonT(60) DEF AddOne
  <2>5. CASE Claim(p)
    <3>1. CASE RemoveImageWithError /\ Goto(p, "clean") /\ UNCHANGED <<status, job>>
      BY <3>1, <2>5, RemoveTyped, ZenonT(60) DEF Claim, RemoveImageWithError, JobTypes
    <3>2. ASSUME NEW j \in Claimable(layer[p]),
                 status' = [status EXCEPT ![j] = "claimed"],
                 job' = [job EXCEPT ![p] = j], Goto(p, "wait"), UNCHANGED jobVars
          PROVE  TypeOK'
      <4>1. j \in Jobs
        BY ZenonT(60) DEF Claimable
      <4>2. QED
        BY <3>2, <4>1, <2>5, ZenonT(60) DEF Claim
    <3>3. QED
      BY <3>1, <3>2, <2>5, ZenonT(60) DEF Claim
  <2>6. CASE Wait(p)
    <3>1. job[p] \in Jobs /\ parent[job[p]] \in Batches
      BY JobFacts, <2>6, SMTT(60), Z3T(60) DEF Wait, Known
    <3>2. UNCHANGED <<expired, goVars, dir, layer, job, imageJob, mountpoint, gcVars>>
      BY <2>6, ZenonT(60) DEF Wait
    <3>3. CASE RebaseFails(p)
      BY <3>1, <3>2, <3>3, RebaseKeeps, ZenonT(60)
    <3>4. CASE ~RebaseFails(p)
      <4>1. UNCHANGED <<status, jobVars>> /\ Goto(p, "stat")
        BY <3>4, <2>6, ZenonT(60) DEF Wait
      <4>2. QED
        BY <3>2, <4>1, ZenonT(60)
    <3>5. QED
      BY <3>3, <3>4, ZenonT(60)
  <2>7. CASE StatDirs(p)
    <3>1. job[p] \in Jobs /\ parent[job[p]] \in Batches
      BY JobFacts, <2>7, SMTT(60), Z3T(60) DEF StatDirs, Known
    <3>2. UNCHANGED <<expired, goVars, dir, layer, job, imageJob, mountpoint, gcVars>>
      BY <2>7, ZenonT(60) DEF StatDirs
    <3>3. CASE RebaseFails(p)
      BY <3>1, <3>2, <3>3, RebaseKeeps, ZenonT(60)
    <3>4. CASE ~RebaseFails(p)
      <4>1. UNCHANGED <<status, jobVars>> /\ (Goto(p, "rename") \/ Goto(p, "removeAndClean"))
        BY <3>4, <2>7, ZenonT(60) DEF StatDirs, mountpointHasContent
      <4>2. QED
        BY <3>2, <4>1, ZenonT(60)
    <3>5. QED
      BY <3>3, <3>4, ZenonT(60)
  <2>8. CASE Rename(p)
    <3>1. job[p] \in Jobs /\ parent[job[p]] \in Batches
      BY JobFacts, <2>8, SMTT(60), Z3T(60) DEF Rename, Known
    <3>2. CASE RebaseFails(p)
      <4>1. UNCHANGED <<expired, goVars, dir, layer, job, imageJob, mountpoint, gcVars>>
        BY <3>1, <3>2, <2>8, ZenonT(60) DEF Rename, RebaseFails
      <4>2. QED
        BY <3>1, <3>2, <4>1, RebaseKeeps, ZenonT(60)
    <3>3. CASE ~RebaseFails(p)
      <4>1. /\ dir[job[p]] \in {"none", "empty", "complete", "sweeping"}
            /\ mountpoint' = [mountpoint EXCEPT ![p][layer[p]] = dir[job[p]]]
            /\ dir' = [dir EXCEPT ![job[p]] = "moved"]
            /\ Goto(p, "remove")
            /\ UNCHANGED <<status, jobVars>>
        BY <3>1, <3>3, <2>8, ZenonT(60) DEF Rename
      <4>2. UNCHANGED <<expired, goVars, layer, job, imageJob, gcVars>>
        BY <2>8, ZenonT(60) DEF Rename
      <4>3. QED
        BY <3>1, <4>1, <4>2, ZenonT(60)
    <3>4. QED
      BY <3>2, <3>3, ZenonT(60)
  <2>9. CASE Remove(p)
    <3>1. JobTypes'
      <4>1. job[p] \in Jobs /\ RemoveJob(job[p])
        BY <2>9, SMTT(60), Z3T(60) DEF Remove, Known
      <4>2. QED
        BY <4>1, RemoveJobTyped, ZenonT(60)
    <3>2. layer' \in [Pulls -> Layers]
      <4>1. layer[p] # NLayers => layer[p] + 1 \in Layers
        BY UnpackJobsAssumption, SMTT(60), Z3T(60) DEF Layers
      <4>2. QED
        BY <4>1, <2>9, SMTT(60), Z3T(60) DEF Remove
    <3>3. QED
      BY <3>1, <3>2, <2>9, ZenonT(60), SMTT(60) DEF Remove, JobTypes
  <2>10. CASE CleanImage(p)
    <3>1. CASE RemoveImageWithError
      BY <2>10, <3>1, RemoveTyped, ZenonT(60) DEF CleanImage, RemoveImageWithError, JobTypes
    <3>2. CASE UNCHANGED jobVars
      BY <2>10, <3>2, ZenonT(60) DEF CleanImage
    <3>3. QED
      BY <2>10, <3>1, <3>2, ZenonT(60) DEF CleanImage
  <2>11. QED
    BY <1>1, <2>1, <2>2, <2>3, <2>4, <2>5, <2>6, <2>7, <2>8, <2>9, <2>10, ZenonT(60) DEF PullStep
<1>2. ASSUME NEW j \in Jobs, GoStep(j) PROVE TypeOK'
  <2>1. CASE Unpack(j)
    <3>1. errCh' \in [Jobs -> {"empty", "nil", "err"}]
      BY <2>1, ZenonT(60), SMTT(60) DEF Unpack
    <3>2. dir' \in [Jobs -> {"none", "empty", "complete", "sweeping", "moved", "gone"}]
      BY <2>1, SMTT(60), Z3T(60) DEF Unpack
    <3>3. QED
      BY <3>1, <3>2, <2>1, ZenonT(60) DEF Unpack
  <2>2. CASE PremountCleanup(j)
    BY JobFacts, <2>2, SMTT(60), Z3T(60) DEF PremountCleanup, premountResult, RemoveImageWithError, RemoveImageAnd
  <2>3. CASE PremountSend(j)
    BY JobFacts, <2>3, ZenonT(60) DEF PremountSend
  <2>4. QED
    BY <1>2, <2>1, <2>2, <2>3, ZenonT(60) DEF GoStep
<1>3. CASE Snapshot
  BY JobFacts, <1>3, ZenonT(30) DEF Snapshot, OnDisk, inMemory
<1>4. CASE SweepDisk
  BY JobFacts, <1>4, ZenonT(60) DEF SweepDisk
<1>5. CASE SweepEnds
  BY JobFacts, <1>5, ZenonT(60) DEF SweepEnds
<1>6. CASE Expire
  BY JobFacts, <1>6, ZenonT(60) DEF Expire
<1>7. ASSUME NEW j \in Jobs, SweepExpired(j) PROVE TypeOK'
  <2>1. JobTypes'
    <3>1. CASE UNCHANGED jobVars
      BY <3>1, ZenonT(60) DEF JobTypes
    <3>2. CASE RemoveImageWithError
      BY <3>2, RemoveTyped, ZenonT(60) DEF RemoveImageWithError
    <3>3. QED
      BY <1>7, <3>1, <3>2, ZenonT(60) DEF SweepExpired
  <2>2. gcTodo' \subseteq Jobs /\ gcMem' \subseteq Jobs /\ gcCut' \in BOOLEAN
    <3>1. /\ gcTodo' = gcTodo \ {j}
          /\ gcMem' = gcMem \ {j} \/ gcMem' = gcMem
          /\ gcCut' = TRUE \/ gcCut' = gcCut
      BY <1>7, ZenonT(60) DEF SweepExpired
    <3>2. QED
      BY <3>1, ZenonT(60)
  <2>3. /\ expired' = expired /\ status' = status /\ premounts' = premounts /\ errCh' = errCh
        /\ dir' = dir /\ layer' = layer /\ pc' = pc /\ job' = job /\ imageJob' = imageJob
        /\ mountpoint' = mountpoint /\ gc' = gc /\ gcDisk' = gcDisk
    BY <1>7, ZenonT(60) DEF SweepExpired
  <2>4. QED
    BY <2>1, <2>2, <2>3, ZenonT(60) DEF JobTypes
<1>8. ASSUME NEW j \in Jobs, Delete(j) PROVE TypeOK'
  <2>1. dir' \in [Jobs -> {"none", "empty", "complete", "sweeping", "moved", "gone"}]
    BY <1>8, SMTT(60), Z3T(60) DEF Delete
  <2>2. gcDisk' \subseteq Jobs
    BY <1>8, ZenonT(60) DEF Delete
  <2>3. QED
    BY <1>8, <2>1, <2>2, ZenonT(60) DEF Delete
<1>9. CASE UNCHANGED vars
  BY <1>9, ZenonT(60) DEF vars
<1>10. QED
  BY <1>1, <1>2, <1>3, <1>4, <1>5, <1>6, <1>7, <1>8, <1>9, ZenonT(60) DEF Next, GCStep

\* Known is kept.
LEMMA KnownStep ==
    ASSUME TypeOK, Known, [Next]_vars
    PROVE  Known'
<1> USE DEF TypeOK, Known, jobVars, goVars, pullVars, gcVars, Goto
<1>1. ASSUME NEW p \in Pulls, PullStep(p) PROVE Known'
  <2>1. CASE MountParallel(p)
    BY JobFacts, <2>1, SMTT(60), Z3T(60) DEF MountParallel
  <2>2. CASE GetOrAddImageJob(p)
    BY JobFacts, <2>2, SMTT(60), Z3T(60) DEF GetOrAddImageJob
  <2>3. CASE doInitialFetch(p)
    BY JobFacts, <2>3, SMTT(60), Z3T(60) DEF doInitialFetch, RemoveImageWithError, RemoveImageAnd
  <2>4. CASE AddLayerJob(p)
    <3>1. PICK j \in NextToAdd(p) : AddOne(p, j)
      BY <2>4, AddLayerJobCases, ZenonT(60)
    <3>2. j \in Jobs /\ status[j] = "none"
      BY <3>1, ZenonT(60) DEF NextToAdd
    <3>3. UNCHANGED <<expired, errCh, layer, job, imageJob, mountpoint,
                      gcTodo, gcMem, gcDisk, gcCut>>
      BY <2>4, ZenonT(60) DEF AddLayerJob
    <3>4. CASE Added(p, j)
      BY JobFacts, <3>2, <3>3, <3>4, <2>4, SMTT(60), Z3T(60) DEF Added, AddLayerJob
    <3>5. CASE Panic /\ UNCHANGED <<jobVars, status, dir>>
      BY <3>3, <3>5, ZenonT(60) DEF Panic
    <3>6. CASE NotAdded(p)
      BY <3>3, <3>6, ZenonT(60) DEF NotAdded, RemoveImageWithError, RemoveImageAnd
    <3>7. QED
      BY <3>1, <3>4, <3>5, <3>6, ZenonT(60) DEF AddOne
  <2>5. CASE Claim(p)
    BY JobFacts, <2>5, SMTT(60), Z3T(60) DEF Claim, Claimable, RemoveImageWithError, RemoveImageAnd
  <2>6. CASE Wait(p)
    BY JobFacts, <2>6, SMTT(60), Z3T(60) DEF Wait, RebaseFails, RemoveImageAnd, Succeeded
  <2>7. CASE StatDirs(p)
    BY JobFacts, <2>7, SMTT(60), Z3T(60) DEF StatDirs, RebaseFails, RemoveImageAnd, mountpointHasContent
  <2>8. CASE Rename(p)
    <3>1. job[p] \in Jobs
      BY <2>8, SMTT(60), Z3T(60) DEF Rename
    <3>2. CASE RebaseFails(p)
      <4>1. UNCHANGED <<expired, goVars, layer, job, imageJob, gcVars, dir>>
        BY <2>8, <3>1, <3>2, SMTT(60), Z3T(60) DEF Rename, RebaseFails
      <4>2. QED
        <5>1. status' = [status EXCEPT ![job[p]] = "cancelled"] /\ pc' = [pc EXCEPT ![p] = "clean"]
              /\ tracked' = {} /\ parent' = parent
          BY <3>2, ZenonT(60) DEF RebaseFails, RemoveImageAnd
        <5>2. status[job[p]] # "none"
          BY <3>1, <2>8, JobFacts, ZenonT(60) DEF Rename
        <5>3. QED
          BY <3>1, <4>1, <5>1, <5>2, JobFacts, SMTT(60), Z3T(60)
    <3>3. CASE ~RebaseFails(p)
      <4>1. /\ dir' = [dir EXCEPT ![job[p]] = "moved"]
            /\ pc' = [pc EXCEPT ![p] = "remove"]
            /\ UNCHANGED <<status, jobVars, layer, job, imageJob>>
        BY <3>3, <2>8, ZenonT(60) DEF Rename
      <4>2. status[job[p]] # "none" /\ job[p] # <<>>
        BY <3>1, <2>8, JobFacts, ZenonT(60) DEF Rename
      <4>3. QED
        BY <3>1, <4>1, <4>2, SMTT(60), Z3T(60)
    <3>4. QED
      BY <3>2, <3>3, ZenonT(60)
  <2>9. CASE Remove(p)
    BY JobFacts, <2>9, SMTT(60), Z3T(60) DEF Remove, RemoveJob
  <2>10. CASE CleanImage(p)
    BY JobFacts, <2>10, ZenonT(60) DEF CleanImage, RemoveImageWithError, RemoveImageAnd
  <2>11. QED
    BY <1>1, <2>1, <2>2, <2>3, <2>4, <2>5, <2>6, <2>7, <2>8, <2>9, <2>10, ZenonT(60) DEF PullStep
<1>2. ASSUME NEW j \in Jobs, GoStep(j) PROVE Known'
  <2>1. CASE Unpack(j)
    BY JobFacts, <2>1, SMTT(60), Z3T(60) DEF Unpack
  <2>2. CASE PremountCleanup(j)
    BY JobFacts, <2>2, ZenonT(60) DEF PremountCleanup, premountResult, RemoveImageWithError, RemoveImageAnd
  <2>3. CASE PremountSend(j)
    BY JobFacts, <2>3, ZenonT(60) DEF PremountSend
  <2>4. QED
    BY <1>2, <2>1, <2>2, <2>3, ZenonT(60) DEF GoStep
<1>3. CASE Snapshot
  BY JobFacts, <1>3, ZenonT(60) DEF Snapshot, OnDisk, inMemory
<1>4. CASE SweepDisk
  BY JobFacts, <1>4, ZenonT(60) DEF SweepDisk
<1>5. CASE SweepEnds
  BY JobFacts, <1>5, ZenonT(60) DEF SweepEnds
<1>6. CASE Expire
  BY JobFacts, <1>6, ZenonT(60) DEF Expire
<1>7. ASSUME NEW j \in Jobs, SweepExpired(j) PROVE Known'
  BY JobFacts, <1>7, ZenonT(60) DEF SweepExpired, RemoveImageWithError, RemoveImageAnd
<1>8. ASSUME NEW j \in Jobs, Delete(j) PROVE Known'
  BY JobFacts, <1>8, SMTT(60), Z3T(60) DEF Delete
<1>9. CASE UNCHANGED vars
  BY <1>9, ZenonT(60) DEF vars
<1>10. QED
  BY <1>1, <1>2, <1>3, <1>4, <1>5, <1>6, <1>7, <1>8, <1>9, ZenonT(60) DEF Next, GCStep

\* Only Claim gives a pull a job, and only one in progress, which no pull has.
LEMMA ClaimStep ==
    ASSUME TypeOK, Known, OneClaim, [Next]_vars
    PROVE  OneClaim'
<1>0. /\ tracked \subseteq Jobs
      /\ status \in [Jobs -> {"none", "inProgress", "claimed", "cancelled"}]
      /\ job \in [Pulls -> Jobs \cup {<<>>}]
      /\ \A p \in Pulls : job[p] # <<>> => status[job[p]] \in {"claimed", "cancelled"}
  BY ZenonT(60) DEF TypeOK, Known
<1> USE <1>0 DEF OneClaim, jobVars, goVars, pullVars, gcVars, Goto
<1>1. CASE UNCHANGED job
  BY <1>1, ZenonT(60)
<1>2. ASSUME NEW p \in Pulls, PullStep(p) PROVE OneClaim'
  <2>1. CASE Claim(p)
    BY JobFacts, <2>1, SMTT(60), Z3T(60) DEF Claim, Claimable
  <2>2. CASE ~Claim(p)
    BY <1>1, <1>2, <2>2, ZenonT(60) DEF PullStep, MountParallel, GetOrAddImageJob, doInitialFetch, AddLayerJob,
                            Wait, StatDirs, Rename, Remove, CleanImage
  <2>3. QED
    BY <2>1, <2>2, ZenonT(60)
<1>3. ASSUME NEW j \in Jobs, GoStep(j) PROVE OneClaim'
  BY <1>1, <1>3, ZenonT(60) DEF GoStep, Unpack, PremountCleanup, PremountSend
<1>4. CASE GCStep \/ Expire \/ UNCHANGED vars
  BY <1>1, <1>4, ZenonT(60) DEF GCStep, Snapshot, SweepDisk, SweepEnds, SweepExpired, Delete, Expire, vars
<1>5. QED
  BY <1>2, <1>3, <1>4, ZenonT(60) DEF Next

\* Only the receive of a nil error leads past the wait, and a result stays.
LEMMA WaitStep ==
    ASSUME TypeOK, Known, Waited, [Next]_vars
    PROVE  Waited'
<1>0. /\ tracked \subseteq Jobs
      /\ status \in [Jobs -> {"none", "inProgress", "claimed", "cancelled"}]
      /\ premounts \in [Jobs -> {"none", "unpack", "cleanup", "send", "done", "killed"}]
      /\ errCh \in [Jobs -> {"empty", "nil", "err"}]
      /\ layer \in [Pulls -> Layers]
      /\ job \in [Pulls -> Jobs \cup {<<>>}]
      /\ pc = [p \in Pulls |-> pc[p]]
      /\ \A j \in tracked : status[j] # "none"
      /\ \A p \in Pulls : job[p] # <<>> => status[job[p]] \in {"claimed", "cancelled"}
      /\ \A p \in Pulls : pc[p] \in {"wait", "stat", "rename"} => job[p] # <<>>
  BY ZenonT(60) DEF TypeOK, Known
<1> USE <1>0 DEF Waited, Unpacked, jobVars, goVars, pullVars, gcVars, Goto
<1>1. ASSUME NEW p \in Pulls, PullStep(p) PROVE Waited'
  <2>1. CASE MountParallel(p)
    BY JobFacts, <2>1, SMTT(60), Z3T(60) DEF MountParallel
  <2>2. CASE GetOrAddImageJob(p)
    BY JobFacts, <2>2, SMTT(60), Z3T(60) DEF GetOrAddImageJob
  <2>3. CASE doInitialFetch(p)
    BY JobFacts, <2>3, SMTT(60), Z3T(60) DEF doInitialFetch, RemoveImageWithError, RemoveImageAnd
  <2>4. CASE AddLayerJob(p)
    <3>1. PICK j \in NextToAdd(p) : AddOne(p, j)
      BY <2>4, AddLayerJobCases, ZenonT(60)
    <3>2. j \in Jobs /\ status[j] = "none"
      BY <3>1, ZenonT(60) DEF NextToAdd
    <3>3. UNCHANGED <<expired, errCh, layer, job, imageJob, mountpoint,
                      gcTodo, gcMem, gcDisk, gcCut>>
      BY <2>4, ZenonT(60) DEF AddLayerJob
    <3>4. CASE Added(p, j)
      BY JobFacts, <3>2, <3>3, <3>4, <2>4, SMTT(60), Z3T(60) DEF Added, AddLayerJob
    <3>5. CASE Panic /\ UNCHANGED <<jobVars, status, dir>>
      BY <3>3, <3>5, ZenonT(60) DEF Panic
    <3>6. CASE NotAdded(p)
      BY <3>3, <3>6, ZenonT(60) DEF NotAdded, RemoveImageWithError, RemoveImageAnd
    <3>7. QED
      BY <3>1, <3>4, <3>5, <3>6, ZenonT(60) DEF AddOne
  <2>5. CASE Claim(p)
    BY JobFacts, <2>5, SMTT(60), Z3T(60) DEF Claim, Claimable, RemoveImageWithError, RemoveImageAnd
  <2>6. CASE Wait(p)
    BY JobFacts, <2>6, SMTT(60), Z3T(60) DEF Wait, RebaseFails, RemoveImageAnd, Succeeded
  <2>7. CASE StatDirs(p)
    BY JobFacts, <2>7, SMTT(60), Z3T(60) DEF StatDirs, RebaseFails, RemoveImageAnd, mountpointHasContent
  <2>8. CASE Rename(p)
    BY JobFacts, <2>8, SMTT(60), Z3T(60) DEF Rename, RebaseFails, RemoveImageAnd
  <2>9. CASE Remove(p)
    BY JobFacts, <2>9, SMTT(60), Z3T(60) DEF Remove, RemoveJob
  <2>10. CASE CleanImage(p)
    BY JobFacts, <2>10, ZenonT(60) DEF CleanImage, RemoveImageWithError, RemoveImageAnd
  <2>11. QED
    BY <1>1, <2>1, <2>2, <2>3, <2>4, <2>5, <2>6, <2>7, <2>8, <2>9, <2>10, ZenonT(60) DEF PullStep
<1>2. ASSUME NEW j \in Jobs, GoStep(j) PROVE Waited'
  <2>1. CASE Unpack(j)
    BY JobFacts, <2>1, SMTT(60), Z3T(60) DEF Unpack
  <2>2. CASE PremountCleanup(j)
    BY JobFacts, <2>2, SMTT(60), Z3T(60) DEF PremountCleanup, premountResult, RemoveImageWithError, RemoveImageAnd
  <2>3. CASE PremountSend(j)
    BY JobFacts, <2>3, ZenonT(60) DEF PremountSend
  <2>4. QED
    BY <1>2, <2>1, <2>2, <2>3, ZenonT(60) DEF GoStep
<1>3. CASE Snapshot
  BY JobFacts, <1>3, ZenonT(60) DEF Snapshot, OnDisk, inMemory
<1>4. CASE SweepDisk
  BY JobFacts, <1>4, ZenonT(60) DEF SweepDisk
<1>5. CASE SweepEnds
  BY JobFacts, <1>5, ZenonT(60) DEF SweepEnds
<1>6. CASE Expire
  BY JobFacts, <1>6, ZenonT(60) DEF Expire
<1>7. ASSUME NEW j \in Jobs, SweepExpired(j) PROVE Waited'
  BY JobFacts, <1>7, ZenonT(60) DEF SweepExpired, RemoveImageWithError, RemoveImageAnd
<1>8. ASSUME NEW j \in Jobs, Delete(j) PROVE Waited'
  BY JobFacts, <1>8, ZenonT(60) DEF Delete
<1>9. CASE UNCHANGED vars
  BY <1>9, ZenonT(60) DEF vars
<1>10. QED
  BY <1>1, <1>2, <1>3, <1>4, <1>5, <1>6, <1>7, <1>8, <1>9, ZenonT(60) DEF Next, GCStep

\* What a pull or a premount may do to the state that the collector works on:
\* only a job that did not exist becomes tracked, and it has its directory.
Frame ==
    /\ UNCHANGED <<gcTodo, gcMem, gcDisk, gcCut>>
    /\ gc' = gc \/ gc' = "killed"
    /\ \A j \in Jobs : status[j] # "none" => status'[j] # "none"
    /\ \A j \in tracked' :
          j \in tracked \/ (status[j] = "none" /\ status'[j] # "none" /\ dir'[j] = "empty")
    /\ \A j \in Jobs : dir[j] \notin {"none", "gone"} => dir'[j] \notin {"none", "gone"}

\* No step of a MountParallel or of a premount does more than that.
LEMMA FrameStep ==
    ASSUME TypeOK, Known, (\E p \in Pulls : PullStep(p)) \/ (\E j \in Jobs : GoStep(j))
    PROVE  Frame
<1>0. /\ tracked \subseteq Jobs
      /\ status \in [Jobs -> {"none", "inProgress", "claimed", "cancelled"}]
      /\ dir \in [Jobs -> {"none", "empty", "complete", "sweeping", "moved", "gone"}]
      /\ job \in [Pulls -> Jobs \cup {<<>>}]
  BY ZenonT(60) DEF TypeOK
<1> USE <1>0 DEF Frame, jobVars, goVars, pullVars, gcVars
<1>1. ASSUME NEW p \in Pulls, PullStep(p) PROVE Frame
  <2>1. CASE MountParallel(p) \/ GetOrAddImageJob(p)
    BY <2>1, ZenonT(30) DEF MountParallel, GetOrAddImageJob
  <2>2. CASE doInitialFetch(p) \/ CleanImage(p)
    BY <2>2, ZenonT(60) DEF doInitialFetch, CleanImage, RemoveImageWithError, RemoveImageAnd
  <2>3. CASE AddLayerJob(p)
    BY <2>3, SMTT(60), Z3T(60) DEF AddLayerJob, NextToAdd, Panic, RemoveImageWithError, RemoveImageAnd
  <2>4. CASE Claim(p)
    BY <2>4, ZenonT(60) DEF Claim, Claimable, RemoveImageWithError, RemoveImageAnd
  <2>5. CASE Wait(p)
    BY <2>5, ZenonT(60) DEF Wait, RebaseFails, RemoveImageAnd
  <2>6. CASE StatDirs(p)
    BY <2>6, ZenonT(60) DEF StatDirs, RebaseFails, RemoveImageAnd
  <2>7. CASE Rename(p)
    BY <2>7, ZenonT(60) DEF Rename, RebaseFails, RemoveImageAnd
  <2>8. CASE Remove(p)
    BY <2>8, ZenonT(60) DEF Remove, RemoveJob
  <2>9. QED
    BY <1>1, <2>1, <2>2, <2>3, <2>4, <2>5, <2>6, <2>7, <2>8, ZenonT(30) DEF PullStep
<1>2. ASSUME NEW j \in Jobs, GoStep(j) PROVE Frame
  <2>1. CASE Unpack(j) \/ PremountSend(j)
    BY <2>1, ZenonT(60) DEF Unpack, PremountSend
  <2>2. CASE PremountCleanup(j)
    BY <2>2, ZenonT(60) DEF PremountCleanup, RemoveImageWithError, RemoveImageAnd
  <2>3. QED
    BY <1>2, <2>1, <2>2, ZenonT(60) DEF GoStep
<1>3. QED
  BY <1>1, <1>2, ZenonT(60)

\* Jobs only become tracked when they are created, after the snapshot.
LEMMA SweepStep ==
    ASSUME TypeOK, Known, Collectable, [Next]_vars
    PROVE  Collectable'
<1>0. /\ tracked \subseteq Jobs
      /\ gcTodo \subseteq Jobs /\ gcMem \subseteq Jobs /\ gcDisk \subseteq Jobs
      /\ \A j \in tracked : status[j] # "none"
      /\ \A j \in Jobs : status[j] = "none" => dir[j] = "none"
  BY ZenonT(60) DEF TypeOK, Known
<1> USE <1>0 DEF Collectable, jobVars
<1>1. CASE (\E p \in Pulls : PullStep(p)) \/ (\E j \in Jobs : GoStep(j))
  <2>1. Frame
    BY <1>1, FrameStep, ZenonT(60)
  <2>2. QED
    BY <2>1, ZenonT(60) DEF Frame
<1>2. CASE Snapshot
  BY <1>2, ZenonT(60) DEF Snapshot, OnDisk, inMemory
<1>3. CASE SweepDisk \/ SweepEnds
  BY <1>3, ZenonT(60) DEF SweepDisk, SweepEnds
<1>4. CASE Expire \/ UNCHANGED vars
  BY <1>4, SMTT(60), Z3T(60) DEF Expire, vars, gcVars
<1>5. ASSUME NEW j \in Jobs, SweepExpired(j) PROVE Collectable'
  BY <1>5, ZenonT(60) DEF SweepExpired, RemoveImageWithError, RemoveImageAnd
<1>6. ASSUME NEW j \in Jobs, Delete(j) PROVE Collectable'
  BY <1>6, ZenonT(60) DEF Delete
<1>7. QED
  BY <1>1, <1>2, <1>3, <1>4, <1>5, <1>6, ZenonT(60) DEF Next, GCStep

\* Unpack alone reports success, and only the sweep, which spares tracked jobs,
\* begins to delete a directory.
LEMMA FilledStep ==
    ASSUME TypeOK, Known, Collectable, Filled, [Next]_vars
    PROVE  Filled'
<1>0. /\ tracked \subseteq Jobs
      /\ status \in [Jobs -> {"none", "inProgress", "claimed", "cancelled"}]
      /\ premounts \in [Jobs -> {"none", "unpack", "cleanup", "send", "done", "killed"}]
      /\ errCh \in [Jobs -> {"empty", "nil", "err"}]
      /\ dir \in [Jobs -> {"none", "empty", "complete", "sweeping", "moved", "gone"}]
      /\ job \in [Pulls -> Jobs \cup {<<>>}]
      /\ \A p \in Pulls : job[p] # <<>> => status[job[p]] \in {"claimed", "cancelled"}
      /\ \A p \in Pulls : pc[p] \in {"wait", "stat", "rename"} => job[p] # <<>>
      /\ gc = "sweep" => gcDisk \cap tracked = {}
  BY ZenonT(60) DEF TypeOK, Known, Collectable
<1> USE DEF Filled, jobVars, goVars, pullVars, gcVars
<1>1. ASSUME UNCHANGED <<premounts, errCh, dir>>, tracked' \subseteq tracked,
             \A j \in Jobs : status'[j] = "none" => status[j] = "none"
      PROVE  Filled'
  BY <1>1, ZenonT(60)
<1>2. ASSUME NEW p \in Pulls, PullStep(p) PROVE Filled'
  <2>1. CASE \/ MountParallel(p) \/ GetOrAddImageJob(p) \/ doInitialFetch(p)
             \/ Remove(p) \/ CleanImage(p)
    <3>1. UNCHANGED <<premounts, errCh, dir, status>> /\ tracked' \subseteq tracked
      BY <2>1, ZenonT(60) DEF MountParallel, GetOrAddImageJob, doInitialFetch, Remove, RemoveJob,
                       CleanImage, RemoveImageWithError, RemoveImageAnd
    <3>2. QED
      BY <1>1, <3>1, ZenonT(60)
  <2>2. CASE AddLayerJob(p)
    <3>1. PICK j \in NextToAdd(p) : AddOne(p, j)
      BY <2>2, AddLayerJobCases, ZenonT(60)
    <3>2. j \in Jobs /\ status[j] = "none"
      BY <3>1, ZenonT(60) DEF NextToAdd
    <3>3. UNCHANGED errCh
      BY <2>2, ZenonT(60) DEF AddLayerJob
    <3>4. CASE Added(p, j)
      BY <1>0, <3>2, <3>3, <3>4, SMTT(60), Z3T(60) DEF Added
    <3>5. CASE Panic /\ UNCHANGED <<jobVars, status, dir>>
      BY <3>3, <3>5, ZenonT(60) DEF Panic
    <3>6. CASE NotAdded(p)
      <4>1. UNCHANGED <<premounts, errCh, dir, status>> /\ tracked' \subseteq tracked
        BY <3>3, <3>6, ZenonT(60) DEF NotAdded, RemoveImageWithError, RemoveImageAnd
      <4>2. QED
        BY <1>1, <4>1, ZenonT(60)
    <3>7. QED
      BY <3>1, <3>4, <3>5, <3>6, ZenonT(60) DEF AddOne
  <2>3. CASE Claim(p)
    <3>1. UNCHANGED <<premounts, errCh, dir>> /\ tracked' \subseteq tracked
      BY <2>3, ZenonT(60) DEF Claim, RemoveImageWithError, RemoveImageAnd
    <3>2. \A j \in Jobs : status'[j] = "none" => status[j] = "none"
      BY <1>0, <2>3, ZenonT(60) DEF Claim, Claimable
    <3>3. QED
      BY <1>1, <3>1, <3>2, ZenonT(60)
  <2>4. CASE Wait(p) \/ StatDirs(p)
    <3>1. UNCHANGED <<premounts, errCh, dir>> /\ tracked' \subseteq tracked
      BY <2>4, ZenonT(60) DEF Wait, StatDirs, RebaseFails, RemoveImageAnd
    <3>2. status' = status \/ status' = [status EXCEPT ![job[p]] = "cancelled"]
      BY <2>4, ZenonT(60) DEF Wait, StatDirs, RebaseFails
    <3>3. \A j \in Jobs : status'[j] = "none" => status[j] = "none"
      BY <1>0, <3>2, ZenonT(60)
    <3>4. QED
      BY <1>1, <3>1, <3>3, ZenonT(60)
  <2>5. CASE Rename(p)
    <3>1. UNCHANGED <<premounts, errCh>> /\ tracked' \subseteq tracked
      BY <2>5, ZenonT(60) DEF Rename, RebaseFails, RemoveImageAnd
    <3>2. status' = status \/ status' = [status EXCEPT ![job[p]] = "cancelled"]
      BY <2>5, ZenonT(60) DEF Rename, RebaseFails
    <3>3. \A j \in Jobs : status'[j] = "none" => status[j] = "none"
      BY <1>0, <3>2, ZenonT(60)
    <3>4. dir' = dir \/ dir' = [dir EXCEPT ![job[p]] = "moved"]
      BY <2>5, ZenonT(60) DEF Rename
    <3>5. \A j \in Jobs : dir'[j] \in {dir[j], "moved"}
      BY <1>0, <3>4, ZenonT(60)
    <3>6. QED
      BY <1>0, <3>1, <3>3, <3>5, ZenonT(60)
  <2>6. QED
    BY <1>2, <2>1, <2>2, <2>3, <2>4, <2>5, ZenonT(60) DEF PullStep
<1>3. ASSUME NEW j \in Jobs, GoStep(j) PROVE Filled'
  <2>1. CASE Unpack(j)
    <3>1. status' = status /\ tracked' = tracked /\ status[j] # "none"
      BY <2>1, ZenonT(60) DEF Unpack
    <3>2. \A i \in Jobs \ {j} : errCh'[i] = errCh[i] /\ dir'[i] = dir[i] /\ premounts'[i] = premounts[i]
      BY <1>0, <2>1, SMTT(60), Z3T(60) DEF Unpack
    <3>3. /\ errCh'[j] = "nil" => dir'[j] \notin {"none", "empty"}
          /\ dir'[j] \in {dir[j], "complete"}
      BY <1>0, <2>1, SMTT(60), Z3T(60) DEF Unpack
    <3>4. \A i \in Jobs : status'[i] = "none" =>
             errCh'[i] = "empty" /\ premounts'[i] \in {"none", "killed"}
      BY <3>1, <3>2, ZenonT(60)
    <3>5. \A i \in Jobs : errCh'[i] = "nil" => dir'[i] \notin {"none", "empty"}
      BY <3>2, <3>3, ZenonT(60)
    <3>6. \A i \in tracked' : dir'[i] # "sweeping"
      BY <1>0, <3>1, <3>2, <3>3, ZenonT(60)
    <3>7. QED
      BY <3>4, <3>5, <3>6, ZenonT(60)
  <2>2. CASE PremountCleanup(j)
    <3>1. UNCHANGED <<status, dir>> /\ tracked' \subseteq tracked /\ status[j] # "none"
      BY <2>2, ZenonT(60) DEF PremountCleanup, RemoveImageWithError, RemoveImageAnd
    <3>2. \A i \in Jobs \ {j} : errCh'[i] = errCh[i] /\ premounts'[i] = premounts[i]
      BY <1>0, <2>2, SMTT(60), Z3T(60) DEF PremountCleanup
    <3>3. errCh'[j] \in {errCh[j], "err"}
      BY <1>0, <2>2, SMTT(60), Z3T(60) DEF PremountCleanup, premountResult
    <3>4. QED
      BY <1>0, <3>1, <3>2, <3>3, ZenonT(60)
  <2>3. CASE PremountSend(j)
    <3>1. UNCHANGED <<status, dir, errCh, tracked>> /\ status[j] # "none"
      BY <2>3, ZenonT(60) DEF PremountSend
    <3>2. \A i \in Jobs \ {j} : premounts'[i] = premounts[i]
      BY <1>0, <2>3, SMTT(60), Z3T(60) DEF PremountSend
    <3>3. QED
      BY <1>0, <3>1, <3>2, ZenonT(60)
  <2>4. QED
    BY <1>3, <2>1, <2>2, <2>3, ZenonT(60) DEF GoStep
<1>4. CASE Snapshot \/ SweepDisk \/ SweepEnds \/ Expire \/ UNCHANGED vars
  BY <1>1, <1>4, ZenonT(60) DEF Snapshot, SweepDisk, SweepEnds, Expire, vars
<1>5. ASSUME NEW j \in Jobs, SweepExpired(j) PROVE Filled'
  BY <1>1, <1>5, ZenonT(60) DEF SweepExpired, RemoveImageWithError, RemoveImageAnd
<1>6. ASSUME NEW j \in Jobs, Delete(j) PROVE Filled'
  <2>1. UNCHANGED <<status, errCh, premounts, tracked>> /\ j \notin tracked
    BY <1>0, <1>6, ZenonT(60) DEF Delete
  <2>2. \A i \in Jobs : dir'[i] = dir[i] \/ (i = j /\ dir'[i] \in {"sweeping", "gone"})
    BY <1>0, <1>6, SMTT(60), Z3T(60) DEF Delete
  <2>3. QED
    BY <1>0, <2>1, <2>2, ZenonT(60)
<1>7. QED
  BY <1>2, <1>3, <1>4, <1>5, <1>6, ZenonT(60) DEF Next, GCStep

\* Only Rename changes a mountpoint, and it puts there what was waited for.
LEMMA MovesStep ==
    ASSUME TypeOK, Known, Waited, Filled, [Next]_vars,
           NEW p \in Pulls, NEW l \in Layers, mountpoint'[p][l] # mountpoint[p][l]
    PROVE  /\ job[p][3] = l
           /\ premounts[job[p]] = "done" /\ errCh[job[p]] = "nil"
           /\ \/ mountpoint'[p][l] = "complete"
              \/ job[p] \notin tracked /\ mountpoint'[p][l] = "sweeping"
<1>0. /\ dir \in [Jobs -> {"none", "empty", "complete", "sweeping", "moved", "gone"}]
      /\ job \in [Pulls -> Jobs \cup {<<>>}]
      /\ mountpoint \in [Pulls -> [Layers -> {"none", "empty", "complete", "sweeping"}]]
      /\ layer \in [Pulls -> Layers]
      /\ \A q \in Pulls : pc[q] \in {"wait", "stat", "rename"} => job[q] # <<>>
  BY ZenonT(60) DEF TypeOK, Known
<1>1. ~UNCHANGED mountpoint
  BY ZenonT(60)
<1>2. PICK q \in Pulls : Rename(q)
  <2>1. \A j \in Jobs : ~GoStep(j) /\ ~SweepExpired(j) /\ ~Delete(j)
    BY <1>1, ZenonT(60) DEF GoStep, Unpack, PremountCleanup, PremountSend, SweepExpired, Delete
  <2>2. ~(Snapshot \/ SweepDisk \/ SweepEnds \/ Expire \/ UNCHANGED vars)
    BY <1>1, ZenonT(60) DEF Snapshot, SweepDisk, SweepEnds, Expire, vars
  <2>3. PICK q \in Pulls : PullStep(q)
    BY <2>1, <2>2, ZenonT(60) DEF Next, GCStep
  <2>4. QED
    BY <1>1, <2>3, ZenonT(60) DEF PullStep, MountParallel, GetOrAddImageJob, doInitialFetch,
                       AddLayerJob, Claim, Wait, StatDirs, Remove, CleanImage
<1>3. /\ pc[q] = "rename" /\ dir[job[q]] \notin {"gone", "moved"}
      /\ mountpoint' = [mountpoint EXCEPT ![q][layer[q]] = dir[job[q]]]
  BY <1>1, <1>2, ZenonT(60) DEF Rename
<1>4. p = q /\ l = layer[p] /\ mountpoint'[p][l] = dir[job[p]]
  BY <1>0, <1>3, SMTT(60), Z3T(60)
<1>5. job[p] \in Jobs /\ job[p][3] = layer[p] /\ Unpacked(job[p])
  BY <1>0, <1>3, <1>4, ZenonT(60) DEF Waited
<1>6. dir[job[p]] \in {"complete", "sweeping"}
  BY <1>0, <1>3, <1>4, <1>5, ZenonT(60) DEF Filled, Unpacked
<1>7. QED
  BY <1>4, <1>5, <1>6, ZenonT(60) DEF Filled, Unpacked

\* Directories go by the sweep alone.
LEMMA DirectoryStep ==
    ASSUME TypeOK, Known, Collectable, TrackedHasDirectory, [Next]_vars
    PROVE  TrackedHasDirectory'
<1>0. /\ tracked \subseteq Jobs
      /\ dir \in [Jobs -> {"none", "empty", "complete", "sweeping", "moved", "gone"}]
  BY ZenonT(60) DEF TypeOK
<1> USE <1>0 DEF TrackedHasDirectory, jobVars
<1>1. CASE (\E p \in Pulls : PullStep(p)) \/ (\E j \in Jobs : GoStep(j))
  <2>1. Frame /\ tracked' \subseteq Jobs
    BY <1>1, FrameStep, TypingStep, ZenonT(60) DEF TypeOK
  <2>2. QED
    BY <2>1, ZenonT(60) DEF Frame
<1>2. CASE Snapshot \/ SweepDisk \/ SweepEnds
  BY <1>2, ZenonT(60) DEF Snapshot, SweepDisk, SweepEnds
<1>3. CASE Expire \/ UNCHANGED vars
  BY <1>3, ZenonT(60) DEF Expire, vars
<1>4. ASSUME NEW j \in Jobs, SweepExpired(j) PROVE TrackedHasDirectory'
  BY <1>4, ZenonT(30) DEF SweepExpired, RemoveImageWithError, RemoveImageAnd
<1>5. ASSUME NEW j \in Jobs, Delete(j) PROVE TrackedHasDirectory'
  BY <1>5, ZenonT(60) DEF Delete, Collectable
<1>6. QED
  BY <1>1, <1>2, <1>3, <1>4, <1>5, ZenonT(60) DEF Next, GCStep

\* A job keeps the directory that AddLayerJob made for it, until it is deleted:
\* the directory of a job that exists is never a missing one.
HasDirectory == \A j \in Jobs : status[j] # "none" => dir[j] # "none"

\* The pcs of a pull that has the layer it prepares in place.
InPlace == {"remove", "done"}

\* What is mounted stays right while layers and mountpoints do not change and no
\* pull gets to those pcs or leaves them, unless the process dies.
Stays ==
    /\ UNCHANGED <<mountpoint, layer>>
    /\ \A q \in Pulls : pc'[q] # "killed" =>
          pc[q] # "killed" /\ (pc'[q] \in InPlace <=> pc[q] \in InPlace)

\* Such a step keeps the layers that are mounted.
LEMMA StaysMounted ==
    ASSUME DoneMeansAllMounted, Stays
    PROVE  DoneMeansAllMounted'
BY ZenonT(60) DEF DoneMeansAllMounted, Stays, InPlace

\* A goto to another pc leaves the other pulls where they are.
LEMMA GotoStays ==
    ASSUME TypeOK, NEW p \in Pulls, NEW l, Goto(p, l), l \notin InPlace, l # "killed",
           pc[p] \notin InPlace, pc[p] # "killed", UNCHANGED <<mountpoint, layer>>
    PROVE  Stays
<1>1. \A q \in Pulls : pc'[q] = IF q = p THEN l ELSE pc[q]
  BY ZenonT(60) DEF Goto, TypeOK
<1>2. QED
  BY <1>1, ZenonT(60) DEF Stays

\* Created jobs get a directory, and only the collector takes one away.
LEMMA HasDirectoryStep ==
    ASSUME TypeOK, Known, HasDirectory, [Next]_vars
    PROVE  HasDirectory'
<1>0. /\ status \in [Jobs -> {"none", "inProgress", "claimed", "cancelled"}]
      /\ dir \in [Jobs -> {"none", "empty", "complete", "sweeping", "moved", "gone"}]
      /\ job \in [Pulls -> Jobs \cup {<<>>}]
      /\ \A p \in Pulls : job[p] # <<>> => status[job[p]] \in {"claimed", "cancelled"}
      /\ \A p \in Pulls : pc[p] \in {"wait", "stat", "rename"} => job[p] # <<>>
  BY ZenonT(60) DEF TypeOK, Known
<1> USE DEF HasDirectory, jobVars, goVars, pullVars, gcVars
<1>1. ASSUME UNCHANGED <<status, dir>> PROVE HasDirectory'
  BY <1>1, ZenonT(60)
<1>2. ASSUME NEW p \in Pulls, PullStep(p) PROVE HasDirectory'
  <2>1. CASE MountParallel(p) \/ GetOrAddImageJob(p) \/ doInitialFetch(p) \/ Remove(p) \/ CleanImage(p)
    BY <1>1, <2>1, ZenonT(60) DEF MountParallel, GetOrAddImageJob, doInitialFetch, Remove, CleanImage
  <2>2. CASE AddLayerJob(p)
    <3>1. PICK j \in NextToAdd(p) : AddOne(p, j)
      BY <2>2, AddLayerJobCases, ZenonT(60)
    <3>2. j \in Jobs
      BY ZenonT(60) DEF NextToAdd
    <3>3. CASE Added(p, j)
      BY <1>0, <3>2, <3>3, ZenonT(60) DEF Added
    <3>4. CASE ~Added(p, j)
      BY <1>1, <3>1, <3>4, ZenonT(60) DEF AddOne, NotAdded
    <3>5. QED
      BY <3>3, <3>4, ZenonT(60)
  <2>3. CASE Claim(p)
    BY <1>0, <2>3, ZenonT(60) DEF Claim, Claimable
  <2>4. CASE Wait(p)
    <3>1. UNCHANGED dir /\ job[p] \in Jobs /\ status[job[p]] # "none"
      BY <1>0, <2>4, ZenonT(60) DEF Wait
    <3>2. status' = status \/ status' = [status EXCEPT ![job[p]] = "cancelled"]
      BY <2>4, ZenonT(60) DEF Wait, RebaseFails
    <3>3. QED
      BY <1>0, <3>1, <3>2, ZenonT(60)
  <2>5. CASE StatDirs(p)
    <3>1. UNCHANGED dir /\ job[p] \in Jobs /\ status[job[p]] # "none"
      BY <1>0, <2>5, ZenonT(60) DEF StatDirs
    <3>2. status' = status \/ status' = [status EXCEPT ![job[p]] = "cancelled"]
      BY <2>5, ZenonT(60) DEF StatDirs, RebaseFails
    <3>3. QED
      BY <1>0, <3>1, <3>2, ZenonT(60)
  <2>6. CASE Rename(p)
    <3>1. job[p] \in Jobs /\ status[job[p]] # "none"
      BY <1>0, <2>6, ZenonT(60) DEF Rename
    <3>2. \/ status' = status /\ dir' = [dir EXCEPT ![job[p]] = "moved"]
          \/ status' = [status EXCEPT ![job[p]] = "cancelled"] /\ dir' = dir
      BY <2>6, ZenonT(60) DEF Rename, RebaseFails
    <3>3. QED
      BY <1>0, <3>1, <3>2, ZenonT(60)
  <2>7. QED
    BY <1>2, <2>1, <2>2, <2>3, <2>4, <2>5, <2>6, ZenonT(60) DEF PullStep
<1>3. ASSUME NEW j \in Jobs, GoStep(j) PROVE HasDirectory'
  <2>1. UNCHANGED status
    BY <1>3, ZenonT(60) DEF GoStep, Unpack, PremountCleanup, PremountSend
  <2>2. dir' = dir \/ dir' = [dir EXCEPT ![j] = "complete"]
    BY <1>3, ZenonT(60) DEF GoStep, Unpack, PremountCleanup, PremountSend
  <2>3. QED
    BY <1>0, <2>1, <2>2, ZenonT(60)
<1>4. ASSUME NEW j \in Jobs, Delete(j) PROVE HasDirectory'
  <2>1. UNCHANGED status
    BY <1>4, ZenonT(60) DEF Delete
  <2>2. dir' = [dir EXCEPT ![j] = "sweeping"] \/ dir' = [dir EXCEPT ![j] = "gone"]
    BY <1>4, ZenonT(60) DEF Delete
  <2>3. QED
    BY <1>0, <2>1, <2>2, ZenonT(60)
<1>5. CASE \/ Snapshot \/ SweepDisk \/ SweepEnds \/ Expire \/ UNCHANGED vars
           \/ \E j \in Jobs : SweepExpired(j)
  BY <1>1, <1>5, ZenonT(60) DEF Snapshot, SweepDisk, SweepEnds, Expire, SweepExpired, vars
<1>6. QED
  BY <1>2, <1>3, <1>4, <1>5, ZenonT(60) DEF Next, GCStep

\* rebase puts the layer in place, and the next layer follows.
LEMMA AllMountedStep ==
    ASSUME TypeOK, Known, HasDirectory, DoneMeansAllMounted, [Next]_vars
    PROVE  DoneMeansAllMounted'
<1>0. /\ pc \in [Pulls -> {"prepare", "preload", "initialFetch", "addLayers", "claim", "wait",
                         "stat", "rename", "remove", "removeAndClean", "clean", "failed",
                         "done", "killed"}]
      /\ layer \in [Pulls -> Layers]
      /\ mountpoint \in [Pulls -> [Layers -> {"none", "empty", "complete", "sweeping"}]]
      /\ dir \in [Jobs -> {"none", "empty", "complete", "sweeping", "moved", "gone"}]
      /\ job \in [Pulls -> Jobs \cup {<<>>}]
      /\ \A p \in Pulls : job[p] # <<>> => status[job[p]] \in {"claimed", "cancelled"}
      /\ \A p \in Pulls : pc[p] \in {"wait", "stat", "rename"} => job[p] # <<>>
  BY ZenonT(60) DEF TypeOK, Known
<1> USE DEF jobVars, goVars, pullVars, gcVars
<1>1. ASSUME UNCHANGED <<mountpoint, layer, pc>> PROVE DoneMeansAllMounted'
  BY <1>1, ZenonT(60) DEF DoneMeansAllMounted
<1>2. ASSUME NEW p \in Pulls, PullStep(p) PROVE DoneMeansAllMounted'
  <2>1. ASSUME pc[p] \notin InPlace, pc[p] # "killed", UNCHANGED <<mountpoint, layer>>,
               NEW l \in {"preload", "initialFetch", "addLayers", "claim", "wait", "stat",
                          "rename", "removeAndClean", "clean", "failed"},
               Goto(p, l)
        PROVE  DoneMeansAllMounted'
    <3>1. l \notin InPlace /\ l # "killed"
      BY <2>1, ZenonT(60) DEF InPlace
    <3>2. QED
      BY <2>1, <3>1, GotoStays, StaysMounted, ZenonT(60)
  <2>2. CASE MountParallel(p) \/ GetOrAddImageJob(p) \/ doInitialFetch(p)
    BY <2>1, <2>2, ZenonT(60) DEF MountParallel, GetOrAddImageJob, doInitialFetch, InPlace
  <2>3. CASE Claim(p) \/ CleanImage(p)
    BY <2>1, <2>3, ZenonT(60) DEF Claim, CleanImage, InPlace
  <2>4. CASE Wait(p) \/ StatDirs(p)
    BY <2>1, <2>4, ZenonT(60) DEF Wait, StatDirs, RebaseFails, mountpointHasContent, InPlace
  <2>5. CASE AddLayerJob(p)
    <3>1. pc[p] = "addLayers" /\ UNCHANGED <<mountpoint, layer>>
      BY <2>5, ZenonT(60) DEF AddLayerJob
    <3>2. PICK j \in NextToAdd(p) : AddOne(p, j)
      BY <2>5, AddLayerJobCases, ZenonT(60)
    <3>3. CASE Panic
      <4>1. Stays
        BY <3>1, <3>3, ZenonT(60) DEF Panic, Stays
      <4>2. QED
        BY <4>1, StaysMounted, ZenonT(60)
    <3>4. CASE Added(p, j) \/ NotAdded(p)
      <4>1. Goto(p, "claim") \/ Goto(p, "addLayers")
        BY <3>4, ZenonT(60) DEF Added, NotAdded
      <4>2. QED
        BY <2>1, <3>1, <4>1, ZenonT(60) DEF InPlace
    <3>5. QED
      BY <3>2, <3>3, <3>4, ZenonT(60) DEF AddOne
  <2>6. CASE Rename(p)
    <3>1. CASE RebaseFails(p) /\ UNCHANGED <<mountpoint, dir>>
      BY <2>1, <2>6, <3>1, ZenonT(60) DEF Rename, RebaseFails, InPlace
    <3>2. CASE /\ mountpoint' = [mountpoint EXCEPT ![p][layer[p]] = dir[job[p]]]
               /\ Goto(p, "remove")
      <4>1. pc[p] = "rename" /\ job[p] \in Jobs /\ UNCHANGED layer
        BY <1>0, <2>6, ZenonT(60) DEF Rename
      <4>2. dir[job[p]] # "none"
        BY <1>0, <4>1, ZenonT(60) DEF HasDirectory
      <4>3. /\ \A q \in Pulls : q # p => mountpoint'[q] = mountpoint[q] /\ pc'[q] = pc[q]
            /\ pc'[p] = "remove"
            /\ \A l \in Layers : l # layer[p] => mountpoint'[p][l] = mountpoint[p][l]
            /\ mountpoint'[p][layer[p]] # "none"
        BY <1>0, <3>2, <4>1, <4>2, ZenonT(60) DEF Goto
      <4>4. layer[p] \in Int /\ \A l \in Layers : l \in Int
        BY <1>0, SMTT(60), Z3T(60) DEF Layers
      <4>5. ~(layer[p] < layer[p])
        BY <4>4, SMTT(60), Z3T(60)
      <4>6. ASSUME NEW q \in Pulls, pc'[q] # "killed", NEW l \in Layers
            PROVE  (mountpoint'[q][l] # "none") <=>
                       \/ l < layer'[q]
                       \/ l = layer'[q] /\ pc'[q] \in {"remove", "done"}
        <5>1. CASE q # p
          <6>1. mountpoint'[q] = mountpoint[q] /\ pc'[q] = pc[q] /\ layer'[q] = layer[q]
            BY <4>1, <4>3, <5>1, ZenonT(60)
          <6>2. QED
            BY <4>6, <6>1, ZenonT(60) DEF DoneMeansAllMounted
        <5>2. CASE q = p
          <6>1. (mountpoint[p][l] # "none") <=> l < layer[p]
            BY <4>1, ZenonT(60) DEF DoneMeansAllMounted
          <6>2. QED
            BY <4>1, <4>3, <4>5, <5>2, <6>1, ZenonT(60)
        <5>3. QED
          BY <5>1, <5>2, ZenonT(60)
      <4>7. QED
        BY <4>6, ZenonT(60) DEF DoneMeansAllMounted
    <3>3. QED
      BY <2>6, <3>1, <3>2, ZenonT(60) DEF Rename
  <2>7. CASE Remove(p)
    <3>0. UNCHANGED mountpoint
      BY <2>7, ZenonT(60) DEF Remove
    <3>1. CASE pc[p] = "removeAndClean"
      BY <2>1, <2>7, <3>0, <3>1, ZenonT(60) DEF Remove, InPlace
    <3>2. CASE pc[p] = "remove" /\ layer[p] = NLayers
      <4>1. layer' = layer /\ Goto(p, "done")
        <5>1. layer' = [layer EXCEPT ![p] = NLayers] /\ Goto(p, "done")
          BY <2>7, <3>2, ZenonT(60) DEF Remove
        <5>2. QED
          BY <1>0, <3>2, <5>1, ZenonT(60)
      <4>2. Stays
        BY <1>0, <3>0, <3>2, <4>1, ZenonT(60) DEF Goto, Stays, InPlace
      <4>3. QED
        BY <4>2, StaysMounted, ZenonT(60)
    <3>3. CASE pc[p] = "remove" /\ layer[p] # NLayers
      <4>1. layer' = [layer EXCEPT ![p] = layer[p] + 1] /\ Goto(p, "prepare")
        BY <2>7, <3>3, ZenonT(60) DEF Remove
      <4>2. /\ \A q \in Pulls : q # p => layer'[q] = layer[q] /\ pc'[q] = pc[q]
            /\ pc'[p] = "prepare" /\ layer'[p] = layer[p] + 1
        BY <1>0, <4>1, ZenonT(60) DEF Goto
      <4>3. layer[p] \in Int /\ \A l \in Layers : l \in Int
        BY <1>0, SMTT(60), Z3T(60) DEF Layers
      <4>4. \A l \in Layers : l < layer[p] + 1 <=> (l < layer[p] \/ l = layer[p])
        BY <4>3, SMTT(60), Z3T(60)
      <4>5. ASSUME NEW q \in Pulls, pc'[q] # "killed", NEW l \in Layers
            PROVE  (mountpoint'[q][l] # "none") <=>
                       \/ l < layer'[q]
                       \/ l = layer'[q] /\ pc'[q] \in {"remove", "done"}
        <5>1. CASE q # p
          BY <3>0, <4>2, <4>5, <5>1, ZenonT(60) DEF DoneMeansAllMounted
        <5>2. CASE q = p
          <6>1. (mountpoint[p][l] # "none") <=> (l < layer[p] \/ l = layer[p])
            BY <3>3, ZenonT(60) DEF DoneMeansAllMounted
          <6>2. QED
            BY <3>0, <4>2, <4>4, <5>2, <6>1, ZenonT(60)
        <5>3. QED
          BY <5>1, <5>2, ZenonT(60)
      <4>6. QED
        BY <4>5, ZenonT(60) DEF DoneMeansAllMounted
    <3>4. QED
      BY <2>7, <3>1, <3>2, <3>3, ZenonT(60) DEF Remove
  <2>8. QED
    BY <1>2, <2>2, <2>3, <2>4, <2>5, <2>6, <2>7, ZenonT(60) DEF PullStep
<1>3. CASE \E j \in Jobs : GoStep(j)
  BY <1>1, <1>3, ZenonT(60) DEF GoStep, Unpack, PremountCleanup, PremountSend
<1>4. CASE GCStep \/ Expire \/ UNCHANGED vars
  BY <1>1, <1>4, ZenonT(60) DEF GCStep, Snapshot, SweepDisk, SweepEnds, SweepExpired, Delete, Expire, vars
<1>5. QED
  BY <1>2, <1>3, <1>4, ZenonT(60) DEF Next

-----------------------------------------------------------------------------
(***************************************************************************)
(* The theorems.                                                           *)
(***************************************************************************)
\* The types and Known hold initially and are kept together.
LEMMA Inductive == Spec => [](TypeOK /\ Known)
<1>1. ASSUME Init PROVE TypeOK
  <2>1. layer \in [Pulls -> Layers]
    BY <1>1, UnpackJobsAssumption, SMTT(60), Z3T(60) DEF Init, Layers
  <2>2. /\ tracked \subseteq Jobs
        /\ cancelled \subseteq Batches /\ expired \subseteq Batches
        /\ gcTodo \subseteq Jobs /\ gcMem \subseteq Jobs /\ gcDisk \subseteq Jobs
    BY <1>1, ZenonT(60) DEF Init
  <2>3. mountpoint \in [Pulls -> [Layers -> {"none", "empty", "complete", "sweeping"}]]
    BY <1>1, ZenonT(60) DEF Init
  <2>4. QED
    BY <1>1, <2>1, <2>2, <2>3, ZenonT(30) DEF Init, TypeOK
<1>2. Init => Known
  BY SMTT(60), Z3T(60) DEF Init, Known
<1>3. TypeOK /\ Known /\ [Next]_vars => (TypeOK /\ Known)'
  BY TypingStep, KnownStep, ZenonT(60)
<1>4. QED
  BY <1>1, <1>2, <1>3, PTL DEF Spec

\* Types: no step of a pull, a premount or the collector acts on an image job or
\* a layer job that does not exist, except for the nil dereference modelled.
THEOREM Typing == Spec => []TypeOK
BY Inductive, PTL

\* unpackJobs.Claim hands a layer job to one rebase only, whatever pulls of the
\* image run, so a directory is moved to one mountpoint.
THEOREM ClaimedOnce == Spec => []OneClaim
<1>1. Init => OneClaim
  BY ZenonT(60) DEF Init, OneClaim
<1>2. TypeOK /\ Known /\ OneClaim /\ [Next]_vars => OneClaim'
  BY ClaimStep, ZenonT(60)
<1>3. QED
  BY <1>1, <1>2, Inductive, PTL DEF Spec

\* What the collector has left to delete is never tracked.
LEMMA CollectableAlways == Spec => []Collectable
<1>1. Init => Collectable
  BY ZenonT(60) DEF Init, Collectable
<1>2. TypeOK /\ Known /\ Collectable /\ [Next]_vars => Collectable'
  BY SweepStep, ZenonT(60)
<1>3. QED
  BY <1>1, <1>2, Inductive, PTL DEF Spec

\* rebase moves the directory of the job that it claimed, whose unpack has ended
\* without an error, and what it moves is whole unless the job was removed under
\* it: no interleaving of pulls, failures, expiry and sweep mounts anything else.
THEOREM MountsUnpackedLayers == Spec => MovesFinishedUnpacks
<1>1. Init => Waited /\ Filled
  <2>1. Init => Waited
    BY SMTT(60), Z3T(60) DEF Init, Waited
  <2>2. Init => Filled
    BY ZenonT(60) DEF Init, Filled
  <2>3. QED
    BY <2>1, <2>2, ZenonT(60)
<1>2. /\ TypeOK /\ Known /\ Waited /\ [Next]_vars => Waited'
      /\ TypeOK /\ Known /\ Collectable /\ Filled /\ [Next]_vars => Filled'
  BY WaitStep, FilledStep, ZenonT(60)
<1>3. TypeOK /\ Known /\ Waited /\ Filled /\ [Next]_vars
        => [\A p \in Pulls, l \in Layers :
               mountpoint'[p][l] # mountpoint[p][l] =>
                   LET j == job[p]
                   IN /\ j[3] = l
                      /\ premounts[j] = "done" /\ errCh[j] = "nil"
                      /\ \/ mountpoint'[p][l] = "complete"
                         \/ j \notin tracked /\ mountpoint'[p][l] = "sweeping"]_vars
  BY MovesStep, ZenonT(60)
<1>4. QED
  BY <1>1, <1>2, <1>3, Inductive, CollectableAlways, PTL DEF Spec, MovesFinishedUnpacks

\* The sweep of untracked directories, made from a stale snapshot, never deletes
\* the directory of a job in memory.
THEOREM SweepIsSafe == Spec => []SweepSparesTracked
<1>1. Collectable => SweepSparesTracked
  BY ZenonT(60) DEF Collectable, SweepSparesTracked
<1>2. QED
  BY <1>1, CollectableAlways, PTL

\* Every job in memory has its directory on disk, from AddLayerJob on.
THEOREM TrackedOnDisk == Spec => []TrackedHasDirectory
<1>1. Init => TrackedHasDirectory
  BY ZenonT(60) DEF Init, TrackedHasDirectory
<1>2. TypeOK /\ Known /\ Collectable /\ TrackedHasDirectory /\ [Next]_vars
        => TrackedHasDirectory'
  BY DirectoryStep, ZenonT(60)
<1>3. QED
  BY <1>1, <1>2, Inductive, CollectableAlways, PTL DEF Spec

\* MountParallel succeeds for a layer only when rebase has renamed its directory
\* to the mountpoint: a pull that is done has every layer in place, and one that
\* stopped has those before the layer that failed.
THEOREM PullsMountEveryLayer == Spec => []DoneMeansAllMounted
<1>1. Init => HasDirectory /\ DoneMeansAllMounted
  <2>1. Init => HasDirectory
    BY ZenonT(60) DEF Init, HasDirectory
  <2>2. ASSUME Init PROVE DoneMeansAllMounted
    <3>1. /\ \A p \in Pulls : layer[p] = 1 /\ pc[p] = "prepare"
          /\ \A p \in Pulls, l \in Layers : mountpoint[p][l] = "none"
      BY <2>2, ZenonT(60) DEF Init
    <3>2. \A l \in Layers : ~(l < 1)
      BY SMTT(60), Z3T(60) DEF Layers
    <3>3. QED
      BY <3>1, <3>2, ZenonT(60) DEF DoneMeansAllMounted
  <2>3. QED
    BY <2>1, <2>2, ZenonT(60)
<1>2. /\ TypeOK /\ Known /\ HasDirectory /\ [Next]_vars => HasDirectory'
      /\ TypeOK /\ Known /\ HasDirectory /\ DoneMeansAllMounted /\ [Next]_vars
           => DoneMeansAllMounted'
  BY HasDirectoryStep, AllMountedStep, ZenonT(60)
<1>3. QED
  BY <1>1, <1>2, Inductive, PTL DEF Spec
=============================================================================
