---------------------------- MODULE SpanManager ----------------------------
(***************************************************************************)
(* The span manager of one lazily loaded layer                             *)
(* (fs/span-manager/span_manager.go, span.go).                             *)
(*                                                                         *)
(* A layer is cut into spans that are downloaded, verified, decompressed   *)
(* and cached on demand.  Three kinds of callers reach the same spans:     *)
(* FUSE readers (GetContents, one goroutine per span of the range), the    *)
(* background fetcher (FetchSingleSpan, compressed only) and the workers   *)
(* of the prefetch pool (ResolveSpan).  Every span has a state that is     *)
(* read without a lock and a mutex that serialises the work on it.         *)
(*                                                                         *)
(* A goroutine is a pair <<caller, span>>.  The bytes of a span are        *)
(* abstracted to what tells a right answer from a wrong one: compressed,   *)
(* uncompressed, or undefined (decompressed with a freed zinfo).           *)
(***************************************************************************)
EXTENDS Integers

CONSTANTS
    MaxSpanID,    \* the ztoc's last span
    Readers,      \* concurrent GetContents calls
    Fetchers,     \* background fetches of this layer
    Prefetchers,  \* workers of the prefetch pool
    Retries,      \* maxSpanVerificationFailureRetries
    Faults,       \* the steps that may fail
    NoThread      \* an unlocked mutex

Spans == 0 .. MaxSpanID
Callers == Readers \cup Fetchers \cup Prefetchers
Threads == Callers \X Spans

SpanState == {"unrequested", "requested", "fetched", "uncompressed"}
Content == {"none", "compressed", "uncompressed", "undefined", "error"}
PC == {"idle", "check", "lock", "recheck", "download", "uncompress", "add",
       "commit", "setState", "fail", "unlock", "done"}
FaultKinds == {"read", "digest", "uncompress", "add", "commit"}

ASSUME SpanManagerAssumption ==
    /\ MaxSpanID \in Nat
    /\ Retries \in Nat
    /\ Faults \subseteq FaultKinds
    /\ NoThread \notin Threads
    /\ Readers \cap (Fetchers \cup Prefetchers) = {}
    /\ Fetchers \cap Prefetchers = {}

VARIABLES
    state,   \* the atomic state of every span
    mu,      \* the goroutine that holds the span's mutex
    cache,   \* what the span cache holds under the span's key
    closing, \* progress of SpanManager.Close
    calls,   \* the spans of a caller's outstanding call
    pc, buf, tries

vars == <<state, mu, cache, closing, calls, pc, buf, tries>>
spanVars == <<state, mu, cache>>

span(t) == t[2]
IsReader(t) == t[1] \in Readers
IsFetcher(t) == t[1] \in Fetchers

(***************************************************************************)
(* span.go                                                                 *)
(***************************************************************************)
stateTransitionMap ==
    [unrequested  |-> {"requested"},
     requested    |-> {"unrequested", "fetched", "uncompressed"},
     fetched      |-> {"uncompressed"},
     uncompressed |-> {}]

validateStateTransition(s, new) == new \in stateTransitionMap[state[s]]

(***************************************************************************)
(* The span cache is used with cache.Direct(): one file per key.  A get    *)
(* from a closed cache, or of a key that was never committed, fails.       *)
(***************************************************************************)
getSpanFromCache(s) ==
    IF closing = "closed" \/ cache[s] = "none" THEN "error" ELSE cache[s]

(***************************************************************************)
(* The three entry points.  Each caller has one call at a time.            *)
(***************************************************************************)
Init ==
    /\ state = [s \in Spans |-> "unrequested"]
    /\ mu = [s \in Spans |-> NoThread]
    /\ cache = [s \in Spans |-> "none"]
    /\ closing = "open"
    /\ calls = [c \in Callers |-> {}]
    /\ pc = [t \in Threads |-> "idle"]
    /\ buf = [t \in Threads |-> "none"]
    /\ tries = [t \in Threads |-> 0]

Start(c, S) ==
    /\ calls[c] = {}
    /\ calls' = [calls EXCEPT ![c] = S]
    /\ pc' = [t \in Threads |-> IF t[1] = c /\ span(t) \in S THEN "check" ELSE pc[t]]
    /\ UNCHANGED <<spanVars, closing, buf, tries>>

GetContents(c) ==
    /\ c \in Readers
    /\ \E a, b \in Spans : a =< b /\ Start(c, a .. b)

FetchSingleSpan(c) ==
    /\ c \in Fetchers
    /\ \E s \in Spans : Start(c, {s})

ResolveSpan(c) ==
    /\ c \in Prefetchers
    /\ \E s \in Spans : Start(c, {s})

\* The call returns when all its goroutines have finished (errgroup.Wait).
Return(c) ==
    /\ calls[c] # {}
    /\ \A s \in calls[c] : pc[<<c, s>>] = "done"
    /\ calls' = [calls EXCEPT ![c] = {}]
    /\ pc' = [t \in Threads |-> IF t[1] = c THEN "idle" ELSE pc[t]]
    /\ buf' = [t \in Threads |-> IF t[1] = c THEN "none" ELSE buf[t]]
    /\ tries' = [t \in Threads |-> IF t[1] = c THEN 0 ELSE tries[t]]
    /\ UNCHANGED <<spanVars, closing>>

(***************************************************************************)
(* The steps of a goroutine.                                               *)
(***************************************************************************)
\* Slip: a span that is cached in any form counts as available.
Slip_CachedIsEnough(t) ==
    IF IsFetcher(t) THEN state[span(t)] # "unrequested"
                    ELSE state[span(t)] \in {"fetched", "uncompressed"}

\* The state in which a call has nothing to do: the background fetcher only
\* wants the span requested, the others want it uncompressed.
Skips(t) ==
    IF IsFetcher(t) THEN state[span(t)] # "unrequested"
                    ELSE state[span(t)] = "uncompressed"

\* What a call that has nothing to do returns.
Served(t) == IF IsReader(t) THEN getSpanFromCache(span(t)) ELSE "none"

\* Slip: getSpanContent has no case for a span in `fetched`.
Slip_NoFetchedCase(t) == FALSE

\* getSpanContent takes a span the background fetcher has fetched from the
\* cache; ResolveSpan has no such case.
TakesFetched(t) == IsReader(t) /\ state[span(t)] = "fetched"

MayRetry(t) == tries[t] < Retries

\* Slip: the span counts as uncompressed whatever was cached.
Slip_AlwaysUncompressed(t) == "uncompressed"

\* The state after a successful fetchAndCacheSpan.
finalState(t) == IF IsFetcher(t) THEN "fetched" ELSE "uncompressed"

\* The deferred reset of fetchAndCacheSpan.
resetState(st) == IF st = "requested" THEN "unrequested" ELSE st

Goto(t, l) == pc' = [pc EXCEPT ![t] = l]

\* The check before the mutex is taken.
Check(t) ==
    /\ pc[t] = "check"
    /\ IF Skips(t)
         THEN /\ Goto(t, "done")
              /\ buf' = [buf EXCEPT ![t] = Served(t)]
         ELSE /\ Goto(t, "lock")
              /\ UNCHANGED buf
    /\ UNCHANGED <<spanVars, closing, calls, tries>>

Lock(t) ==
    /\ pc[t] = "lock"
    /\ mu[span(t)] = NoThread
    /\ mu' = [mu EXCEPT ![span(t)] = t]
    /\ Goto(t, "recheck")
    /\ UNCHANGED <<state, cache, closing, calls, buf, tries>>

\* The same check with the mutex held.
RecheckSkips(t) ==
    /\ pc[t] = "recheck"
    /\ Skips(t)
    /\ buf' = [buf EXCEPT ![t] = Served(t)]
    /\ Goto(t, "unlock")
    /\ UNCHANGED <<spanVars, closing, calls, tries>>

ReadCompressed(t) ==
    /\ pc[t] = "recheck"
    /\ TakesFetched(t)
    /\ LET b == getSpanFromCache(span(t))
       IN /\ buf' = [buf EXCEPT ![t] = b]
          /\ Goto(t, IF b = "error" THEN "fail" ELSE "uncompress")
    /\ UNCHANGED <<spanVars, closing, calls, tries>>

\* fetchAndCacheSpan begins by moving the span to requested.
Request(t) ==
    /\ pc[t] = "recheck"
    /\ ~Skips(t)
    /\ ~TakesFetched(t)
    /\ IF validateStateTransition(span(t), "requested")
         THEN /\ state' = [state EXCEPT ![span(t)] = "requested"]
              /\ Goto(t, "download")
         ELSE /\ Goto(t, "fail")
              /\ UNCHANGED state
    /\ UNCHANGED <<mu, cache, closing, calls, buf, tries>>

\* fetchSpanWithRetries: only a digest mismatch is retried.
Download(t) ==
    /\ pc[t] = "download"
    /\ \/ /\ buf' = [buf EXCEPT ![t] = "compressed"]
          /\ Goto(t, IF IsFetcher(t) THEN "add" ELSE "uncompress")
          /\ UNCHANGED tries
       \/ /\ "digest" \in Faults
          /\ MayRetry(t)
          /\ tries' = [tries EXCEPT ![t] = @ + 1]
          /\ UNCHANGED <<pc, buf>>
       \/ /\ \/ "digest" \in Faults /\ ~MayRetry(t)
             \/ "read" \in Faults
          /\ Goto(t, "fail")
          /\ UNCHANGED <<buf, tries>>
    /\ UNCHANGED <<spanVars, closing, calls>>

\* uncompressSpan: with the zinfo freed the outcome is undefined.
Uncompress(t) ==
    /\ pc[t] = "uncompress"
    /\ \/ /\ buf' = [buf EXCEPT ![t] =
                        IF @ = "compressed" THEN "uncompressed" ELSE "undefined"]
          /\ Goto(t, "add")
       \/ /\ closing # "open"
          /\ buf' = [buf EXCEPT ![t] = "undefined"]
          /\ Goto(t, "add")
       \/ /\ "uncompress" \in Faults \/ closing # "open"
          /\ Goto(t, "fail")
          /\ UNCHANGED buf
    /\ UNCHANGED <<spanVars, closing, calls, tries>>

\* addSpanToCache: Add and Write, whose errors are returned ...
AddSpan(t) ==
    /\ pc[t] = "add"
    /\ \/ closing # "closed" /\ Goto(t, "commit")
       \/ "add" \in Faults /\ Goto(t, "fail")
       \/ closing = "closed" /\ Goto(t, "fail")
    /\ UNCHANGED <<spanVars, closing, calls, buf, tries>>

\* ... and Commit, whose error is not looked at.
CommitSpan(t) ==
    /\ pc[t] = "commit"
    /\ \/ /\ closing # "closed"
          /\ cache' = [cache EXCEPT ![span(t)] = buf[t]]
       \/ /\ "commit" \in Faults \/ closing = "closed"
          /\ UNCHANGED cache
    /\ Goto(t, "setState")
    /\ UNCHANGED <<state, mu, closing, calls, buf, tries>>

\* The final setState: fetched for the background fetcher.
SetState(t) ==
    /\ pc[t] = "setState"
    /\ LET new == finalState(t)
       IN IF validateStateTransition(span(t), new)
            THEN /\ state' = [state EXCEPT ![span(t)] = new]
                 /\ buf' = [buf EXCEPT ![t] = IF IsReader(t) THEN @ ELSE "none"]
                 /\ Goto(t, "unlock")
            ELSE /\ Goto(t, "fail")
                 /\ UNCHANGED <<state, buf>>
    /\ UNCHANGED <<mu, cache, closing, calls, tries>>

\* The error to the caller.  The reset also runs where fetchAndCacheSpan did
\* not: there the state is `fetched` and it changes nothing.
Fail(t) ==
    /\ pc[t] = "fail"
    /\ state' = [state EXCEPT ![span(t)] = resetState(@)]
    /\ buf' = [buf EXCEPT ![t] = "error"]
    /\ Goto(t, "unlock")
    /\ UNCHANGED <<mu, cache, closing, calls, tries>>

\* Slip: the error path returns with the mutex held.
Slip_ErrorKeepsMutex(t) ==
    /\ pc[t] = "unlock"
    /\ mu' = [mu EXCEPT ![span(t)] = IF buf[t] = "error" THEN @ ELSE NoThread]
    /\ Goto(t, "done")
    /\ UNCHANGED <<state, cache, closing, calls, buf, tries>>

Unlock(t) ==
    /\ pc[t] = "unlock"
    /\ mu' = [mu EXCEPT ![span(t)] = NoThread]
    /\ Goto(t, "done")
    /\ UNCHANGED <<state, cache, closing, calls, buf, tries>>

(***************************************************************************)
(* Close frees the zinfo and then closes and removes the cache, once       *)
(* (closeOnce), at any time: it takes no span's mutex.                     *)
(***************************************************************************)
CloseZinfo ==
    /\ closing = "open"
    /\ closing' = "zinfoClosed"
    /\ UNCHANGED <<spanVars, calls, pc, buf, tries>>

CloseCache ==
    /\ closing = "zinfoClosed"
    /\ closing' = "closed"
    /\ cache' = [s \in Spans |-> "none"]
    /\ UNCHANGED <<state, mu, calls, pc, buf, tries>>

Call(c) == GetContents(c) \/ FetchSingleSpan(c) \/ ResolveSpan(c)

Step(t) ==
    \/ Check(t) \/ RecheckSkips(t) \/ ReadCompressed(t) \/ Request(t)
    \/ Download(t) \/ Uncompress(t) \/ AddSpan(t) \/ CommitSpan(t)
    \/ SetState(t) \/ Fail(t) \/ Unlock(t)

Next ==
    \/ \E c \in Callers : Call(c) \/ Return(c)
    \/ \E t \in Threads : Lock(t) \/ Step(t)
    \/ CloseZinfo
    \/ CloseCache

Spec == Init /\ [][Next]_vars

\* Goroutines run, downloads time out, and sync.Mutex does not starve a waiter.
Fairness ==
    /\ \A t \in Threads : WF_vars(Step(t)) /\ SF_vars(Lock(t))
    /\ \A c \in Callers : WF_vars(Return(c))

FairSpec == Spec /\ Fairness

-----------------------------------------------------------------------------
TypeOK ==
    /\ state \in [Spans -> SpanState]
    /\ mu \in [Spans -> Threads \cup {NoThread}]
    /\ cache \in [Spans -> Content]
    /\ closing \in {"open", "zinfoClosed", "closed"}
    /\ calls \in [Callers -> SUBSET Spans]
    /\ pc \in [Threads -> PC]
    /\ buf \in [Threads -> Content]
    /\ tries \in [Threads -> 0 .. Retries]

Working == {"download", "uncompress", "add", "commit", "setState", "fail"}

\* A span is `requested` only while the goroutine that requested it holds its
\* mutex and is at work: getSpanContent relies on never meeting the state once
\* it has the mutex, and a span left in it could never be fetched again.
RequestedIsOwned ==
    \A s \in Spans :
        state[s] = "requested" => mu[s] # NoThread /\ pc[mu[s]] \in Working

\* The state of a span, read without its mutex, never promises more than the
\* cache holds: a fetched span has its compressed bytes there until the reader
\* that decompresses it has replaced them, an uncompressed one its data.
CacheAgreesWithState ==
    closing = "open" =>
        \A s \in Spans :
            /\ state[s] = "uncompressed" => cache[s] = "uncompressed"
            /\ state[s] = "fetched" =>
                  \/ cache[s] = "compressed"
                  \/ /\ cache[s] = "uncompressed"
                     /\ mu[s] # NoThread
                     /\ pc[mu[s]] = "setState"

\* While the manager is open GetContents hands out decompressed data or an
\* error, whichever of its paths served the span and whoever fetched it.
ReadersGetFileData ==
    closing = "open" =>
        \A t \in Threads :
            IsReader(t) /\ pc[t] = "done" => buf[t] \in {"uncompressed", "error"}

\* A span that has been fetched stays fetched and one that has been
\* uncompressed stays uncompressed: no failure of a later call undoes it.
ProgressIsKept ==
    [][\A s \in Spans :
          /\ state[s] = "uncompressed" => state'[s] = "uncompressed"
          /\ state[s] = "fetched" => state'[s] \in {"fetched", "uncompressed"}]_vars

\* No span is downloaded again once its bytes are in the cache.
DownloadedOnce ==
    [][\A t \in Threads :
          pc[t] # "download" /\ pc'[t] = "download" /\ closing = "open"
              => cache[span(t)] = "none"]_vars

\* Every call returns: no error path keeps a span's mutex.
CallsReturn == \A c \in Callers : calls[c] # {} ~> calls[c] = {}

\* Reads and background fetches fail only where a download, a decompression or
\* a cache addition fails: whatever the other callers have done to the span in
\* the meantime, none meets an invalid state transition or a cache entry that
\* its state promised and that is not there.  Prefetch workers are left out: one
\* that finds its span fetched by the background fetcher meets the transition to
\* requested, which is invalid; the pool drops its error (layer.go:627).
ErrorsAreFaults ==
    [][\A t \in Threads :
          /\ t[1] \notin Prefetchers
          /\ closing = "open"
          /\ pc[t] \in {"check", "recheck", "setState"}
          => pc'[t] # "fail" /\ buf'[t] # "error"]_vars

\* addSpanToCache's contract: without an error from it, the data is cached.
AddedSpanIsCached ==
    closing = "open" =>
        \A t \in Threads : pc[t] = "setState" => cache[span(t)] = buf[t]

-----------------------------------------------------------------------------
(***************************************************************************)
(* What the reader of a layer sees of all this is a SpanStore.             *)
(***************************************************************************)
Clients == Readers \X Spans
answerOf(t) ==
    IF pc[t] # "done" THEN "none"
    ELSE IF buf[t] = "uncompressed" THEN "data"
    ELSE IF buf[t] = "error" THEN "error" ELSE "wrong"

Store == INSTANCE SpanStore WITH
    open <- closing = "open",
    stored <- [s \in Spans |-> IF closing = "open" THEN cache[s] ELSE "none"],
    answer <- [t \in Clients |-> answerOf(t)]

\* The span manager implements the span store.
StoreSpec == Store!Spec
=============================================================================
