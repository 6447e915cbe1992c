------------------------- MODULE BackgroundFetcher -------------------------
(***************************************************************************)
(* The background fetcher of the snapshotter                               *)
(* (fs/backgroundfetcher/background_fetcher.go, resolver.go).              *)
(*                                                                         *)
(* Layers that are mounted are appended to one work queue.  The Run loop   *)
(* takes the head, starts a goroutine that fetches the layer's next span,  *)
(* and the goroutine appends the layer again as long as there is more.     *)
(* Mounts, unmounts, pauses and the end of the service interleave with it. *)
(*                                                                         *)
(* FetchSingleSpan itself is the subject of SpanManager; here it succeeds  *)
(* or fails.                                                               *)
(***************************************************************************)
EXTENDS Integers, Sequences, FiniteSets

CONSTANTS
    Layers,
    MaxSpanID,
    MaxQueueSizes,  \* the queue limits to consider; not positive: unlimited
    DropPolicies,   \* the policies to consider
    FetchMayFail

ASSUME BackgroundFetcherAssumption ==
    /\ MaxSpanID \in Nat
    /\ MaxQueueSizes \subseteq Int
    /\ DropPolicies \subseteq {"oldest", "newest"}
    /\ FetchMayFail \in BOOLEAN

VARIABLES
    maxQueueSize, \* of the configuration, as is dropPolicy:
    dropPolicy,   \* neither changes while the process runs
    workQueue,
    mounted,      \* layers given to Add by Resolver.Resolve
    closed,       \* layers whose resolver is closed
    next,         \* nextSpanFetchID
    started,      \* layers popped and found open, goroutine not yet in Resolve
    fetching,     \* layers whose goroutine is in Resolve
    returned,     \* layers whose Resolve returned true, not yet added again
    pauseChan,    \* a pause signal is pending
    run,          \* where the Run loop stands
    emitter,      \* emitWorkQueueMetric is running
    closeCalls,   \* Close calls whose send is pending
    ctxDone,
    \* history
    fate,         \* why the fetcher let go of a layer
    late          \* fetches begun after the layer was closed

config == <<maxQueueSize, dropPolicy>>
queueVars == <<config, workQueue, fate>>
layerVars == <<mounted, closed, next, started, fetching, returned, late>>
loopVars == <<pauseChan, run, emitter, closeCalls, ctxDone>>
vars == <<queueVars, layerVars, loopVars>>

Init ==
    /\ maxQueueSize \in MaxQueueSizes
    /\ dropPolicy \in DropPolicies
    /\ workQueue = <<>>
    /\ mounted = {} /\ closed = {}
    /\ next = [l \in Layers |-> 0]
    /\ started = {} /\ fetching = {} /\ returned = {}
    /\ pauseChan = FALSE
    /\ run = "pause"
    /\ emitter = TRUE
    /\ closeCalls = 0
    /\ ctxDone = FALSE
    /\ fate = [l \in Layers |-> "none"]
    /\ late = [l \in Layers |-> 0]

Full == maxQueueSize > 0 /\ Len(workQueue) >= maxQueueSize

\* Slip: the append is skipped when the oldest entry has been dropped.
Slip_NoAppendAfterEviction(l) ==
    IF Full
      THEN IF dropPolicy = "oldest"
             THEN /\ workQueue' = Tail(workQueue)
                  /\ fate' = [fate EXCEPT ![Head(workQueue)] = "evicted"]
             ELSE /\ fate' = [fate EXCEPT ![l] = "evicted"]
                  /\ UNCHANGED workQueue
      ELSE /\ workQueue' = Append(workQueue, l)
           /\ UNCHANGED fate

Add(l) ==
    IF Full
      THEN IF dropPolicy = "oldest"
             THEN /\ workQueue' = Append(Tail(workQueue), l)
                  /\ fate' = [fate EXCEPT ![Head(workQueue)] = "evicted"]
             ELSE /\ fate' = [fate EXCEPT ![l] = "evicted"]
                  /\ UNCHANGED workQueue
      ELSE /\ workQueue' = Append(workQueue, l)
           /\ UNCHANGED fate

\* A layer is resolved: Resolver.Resolve adds it.
Mount(l) ==
    /\ l \notin mounted
    /\ mounted' = mounted \cup {l}
    /\ Add(l)
    /\ UNCHANGED <<config, closed, next, started, fetching, returned, late, loopVars>>

\* setupFuseServer signals the first mount of an image.
Pause ==
    /\ ~pauseChan
    /\ mounted # {}
    /\ pauseChan' = TRUE
    /\ UNCHANGED <<queueVars, layerVars, run, emitter, closeCalls, ctxDone>>

\* layer.close closes the layer's resolver; nothing leaves the queue for it.
CloseResolver(l) ==
    /\ l \in mounted \ closed
    /\ closed' = closed \cup {l}
    /\ UNCHANGED <<queueVars, mounted, next, started, fetching, returned, late, loopVars>>

(***************************************************************************)
(* The Run loop.                                                           *)
(***************************************************************************)
\* Slip: the loop waits for a pause signal instead of looking for one.
Slip_WaitsForPause ==
    /\ run = "pause" /\ pauseChan
    /\ pauseChan' = FALSE
    /\ run' = "select"
    /\ UNCHANGED <<queueVars, layerVars, emitter, closeCalls, ctxDone>>

RunPause ==
    /\ run = "pause"
    /\ pauseChan' = FALSE
    /\ run' = "select"
    /\ UNCHANGED <<queueVars, layerVars, emitter, closeCalls, ctxDone>>

RunSelect ==
    /\ run = "select"
    /\ \/ /\ closeCalls > 0
          /\ closeCalls' = closeCalls - 1
          /\ run' = "stopped"
       \/ /\ ctxDone
          /\ run' = "stopped"
          /\ UNCHANGED closeCalls
       \/ /\ closeCalls = 0 /\ ~ctxDone
          /\ run' = "pop"
          /\ UNCHANGED closeCalls
    /\ UNCHANGED <<queueVars, layerVars, pauseChan, emitter, ctxDone>>

\* Slip: the loop does not ask whether the layer is closed.
Slip_NotAsked(l) == FALSE

Closed(l) == l \in closed

\* A closed layer is dropped and the loop starts over without waiting.
RunPop ==
    /\ run = "pop"
    /\ \/ /\ workQueue = <<>>
          /\ run' = "wait"
          /\ UNCHANGED <<workQueue, started, fate>>
       \/ /\ workQueue # <<>>
          /\ workQueue' = Tail(workQueue)
          /\ IF Closed(Head(workQueue))
               THEN /\ run' = "pause"
                    /\ fate' = [fate EXCEPT ![Head(workQueue)] = "closed"]
                    /\ UNCHANGED started
               ELSE /\ run' = "wait"
                    /\ started' = started \cup {Head(workQueue)}
                    /\ UNCHANGED fate
    /\ UNCHANGED <<config, mounted, closed, next, fetching, returned, late,
                   pauseChan, emitter, closeCalls, ctxDone>>

\* The rate limiter's wait, which ends with an error when the context does.
RunWait ==
    /\ run = "wait"
    /\ run' = IF ctxDone THEN "stopped" ELSE "pause"
    /\ UNCHANGED <<queueVars, layerVars, pauseChan, emitter, closeCalls, ctxDone>>

(***************************************************************************)
(* The goroutine of one fetch: sequentialLayerResolver.Resolve, then the   *)
(* append.                                                                 *)
(***************************************************************************)
Resolve(l) ==
    /\ l \in started
    /\ started' = started \ {l}
    /\ fetching' = fetching \cup {l}
    /\ late' = [late EXCEPT ![l] = IF l \in closed THEN @ + 1 ELSE @]
    /\ UNCHANGED <<queueVars, mounted, closed, next, returned, loopVars>>

ExceedsMaxSpan(l) == next[l] > MaxSpanID

ResolveReturns(l) ==
    /\ l \in fetching
    /\ fetching' = fetching \ {l}
    /\ \/ /\ ExceedsMaxSpan(l)
          /\ fate' = [fate EXCEPT ![l] = "complete"]
          /\ UNCHANGED <<next, returned>>
       \/ /\ ~ExceedsMaxSpan(l)
          /\ next' = [next EXCEPT ![l] = @ + 1]
          /\ returned' = returned \cup {l}
          /\ UNCHANGED fate
       \/ /\ ~ExceedsMaxSpan(l)
          /\ FetchMayFail \/ l \in closed
          /\ fate' = [fate EXCEPT ![l] = "failed"]
          /\ UNCHANGED <<next, returned>>
    /\ UNCHANGED <<config, workQueue, mounted, closed, started, late, loopVars>>

AddAgain(l) ==
    /\ l \in returned
    /\ returned' = returned \ {l}
    /\ Add(l)
    /\ UNCHANGED <<config, mounted, closed, next, started, fetching, late, loopVars>>

(***************************************************************************)
(* The end of the service.  Close sends on an unbuffered channel that both *)
(* the Run loop and emitWorkQueueMetric receive from.                      *)
(***************************************************************************)
Close ==
    /\ closeCalls = 0
    /\ run # "stopped"
    /\ closeCalls' = 1
    /\ UNCHANGED <<queueVars, layerVars, pauseChan, run, emitter, ctxDone>>

Cancel ==
    /\ ~ctxDone
    /\ ctxDone' = TRUE
    /\ UNCHANGED <<queueVars, layerVars, pauseChan, run, emitter, closeCalls>>

EmitterStops ==
    /\ emitter
    /\ \/ closeCalls > 0 /\ closeCalls' = closeCalls - 1
       \/ ctxDone /\ UNCHANGED closeCalls
    /\ emitter' = FALSE
    /\ UNCHANGED <<queueVars, layerVars, pauseChan, run, ctxDone>>

RunStep == RunPause \/ RunSelect \/ RunPop \/ RunWait
GoStep(l) == Resolve(l) \/ ResolveReturns(l) \/ AddAgain(l)

Next ==
    \/ \E l \in Layers : Mount(l) \/ CloseResolver(l) \/ GoStep(l)
    \/ RunStep
    \/ Pause \/ Close \/ Cancel \/ EmitterStops

Spec == Init /\ [][Next]_vars

\* The loop and the goroutines it starts keep running; a pause and a fetch end.
FairSpec == Spec /\ WF_vars(RunStep) /\ \A l \in Layers : WF_vars(GoStep(l))

-----------------------------------------------------------------------------
TypeOK ==
    /\ maxQueueSize \in MaxQueueSizes /\ dropPolicy \in DropPolicies
    /\ workQueue \in Seq(Layers)
    /\ {mounted, closed, started, fetching, returned} \subseteq SUBSET Layers
    /\ next \in [Layers -> 0 .. MaxSpanID + 1]
    /\ pauseChan \in BOOLEAN /\ emitter \in BOOLEAN /\ ctxDone \in BOOLEAN
    /\ run \in {"pause", "select", "pop", "wait", "stopped"}
    /\ closeCalls \in {0, 1}
    /\ fate \in [Layers -> {"none", "evicted", "closed", "complete", "failed"}]
    /\ late \in [Layers -> Nat]

Places(l) ==
    Cardinality({i \in DOMAIN workQueue : workQueue[i] = l})
    + Cardinality({S \in {<<1, started>>, <<2, fetching>>, <<3, returned>>} : l \in S[2]})

\* A mounted layer is in exactly one place, the queue or one goroutine, until
\* the fetcher lets go of it for a reason: it is never lost between a pop and
\* the append that follows it, and never fetched by two goroutines at a time
\* (nextSpanFetchID has no lock).
InOnePlace ==
    \A l \in Layers :
        Places(l) = IF l \in mounted /\ fate[l] = "none" THEN 1 ELSE 0

\* The queue holds at most MaxQueueSize layers although the goroutines append
\* concurrently with mounts.
QueueBounded == maxQueueSize > 0 => Len(workQueue) =< maxQueueSize

\* After its resolver is closed a layer is fetched from at most once more (by
\* the goroutine that was started before): the loop asks Closed at each pop.
OneLateFetch == \A l \in Layers : late[l] =< 1

\* A layer counts as complete only when every span has been fetched.
CompleteMeansAll == \A l \in Layers : fate[l] = "complete" => next[l] = MaxSpanID + 1

\* The fetcher comes to an end with every layer: it is fetched to its last span,
\* or evicted from a full queue, or its fetch fails, or it is dropped because it
\* is closed, unless the loop is stopped before.  No pause, and no other layer
\* that keeps coming back to the queue, holds one up for ever.
EveryLayerIsServed ==
    \A l \in Layers : l \in mounted ~> (fate[l] # "none" \/ run = "stopped")
=============================================================================
