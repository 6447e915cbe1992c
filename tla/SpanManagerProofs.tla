------------------------- MODULE SpanManagerProofs -------------------------
(***************************************************************************)
(* Proofs about SpanManager for any number of spans, callers and retries.  *)
(*                                                                         *)
(* The invariants of the module are not inductive by themselves.  What     *)
(* makes them so is, per goroutine, where it may stand: its program        *)
(* counter against the outstanding calls (Outstanding), against the mutex  *)
(* (Mutex), against the state of its span (StateByPC), and, as long as the *)
(* manager is open, against the bytes it carries and the bytes the cache   *)
(* holds (DataByPC).                                                       *)
(***************************************************************************)
EXTENDS SpanManager, TLAPS

\* A goroutine exists only within an outstanding call of its caller.
Outstanding ==
    \A t \in Threads : pc[t] # "idle" => span(t) \in calls[t[1]]

Critical == Working \cup {"recheck", "unlock"}

\* Mutual exclusion: the critical section is held by the owner and only by it.
Mutex ==
    /\ \A t \in Threads : pc[t] \in Critical => mu[span(t)] = t
    /\ \A s \in Spans : mu[s] # NoThread =>
            mu[s] \in Threads /\ span(mu[s]) = s /\ pc[mu[s]] \in Critical

\* The state of a span at every step of the work on it.
StateByPC ==
    /\ \A t \in Threads :
          /\ pc[t] = "download" => state[span(t)] = "requested"
          /\ pc[t] \in {"uncompress", "add", "commit", "setState"} =>
                \/ state[span(t)] = "requested"
                \/ state[span(t)] = "fetched" /\ IsReader(t)
    /\ RequestedIsOwned

\* A goroutine is its caller and its span.
LEMMA ThreadFacts ==
    ASSUME NEW t \in Threads
    PROVE  /\ span(t) \in Spans
           /\ t[1] \in Callers
           /\ t = <<t[1], span(t)>>
BY SMTT(60), Z3T(60) DEF Threads, span

\* The table of span.go lets only an unrequested span become requested.
LEMMA OnlyUnrequested ==
    ASSUME NEW s \in Spans, state[s] \in SpanState,
           validateStateTransition(s, "requested")
    PROVE  state[s] = "unrequested"
<1>1. CASE state[s] = "requested"
  BY <1>1, SMTT(60), Z3T(60) DEF validateStateTransition, stateTransitionMap
<1>2. CASE state[s] = "fetched"
  BY <1>2, SMTT(60), Z3T(60) DEF validateStateTransition, stateTransitionMap
<1>3. CASE state[s] = "uncompressed"
  BY <1>3, SMTT(60), Z3T(60) DEF validateStateTransition, stateTransitionMap
<1>4. QED
  BY <1>1, <1>2, <1>3, ZenonT(60) DEF SpanState

-----------------------------------------------------------------------------
\* Type correctness: in particular a span never has a state outside the four
\* of span.go, and a download is repeated at most Retries times.
THEOREM Typing == Spec => []TypeOK
<1>1. Init => TypeOK
  BY SpanManagerAssumption
  DEF Init, TypeOK, SpanState, Content, PC
<1>2. TypeOK /\ [Next]_vars => TypeOK'
  <2> SUFFICES ASSUME TypeOK, [Next]_vars PROVE TypeOK'
    BY ZenonT(60)
  <2> USE SpanManagerAssumption DEF TypeOK
  <2>1. ASSUME NEW c \in Callers, Call(c) PROVE TypeOK'
    <3>1. \A S : S \subseteq Spans /\ Start(c, S) => TypeOK'
      BY SMTT(60), Z3T(60) DEF Start, spanVars, PC
    <3>2. \A a, b \in Spans : a .. b \subseteq Spans /\ {a} \subseteq Spans
      BY SMTT(60), Z3T(60) DEF Spans
    <3>3. QED
      BY <2>1, <3>1, <3>2, ZenonT(60) DEF Call, GetContents, FetchSingleSpan, ResolveSpan
  <2>2. ASSUME NEW c \in Callers, Return(c) PROVE TypeOK'
    BY <2>2, SMTT(60), Z3T(60) DEF Return, spanVars, PC, Content
  <2>3. ASSUME NEW t \in Threads, Lock(t) PROVE TypeOK'
    BY <2>3, ThreadFacts, ZenonT(60) DEF Lock, Goto, PC
  <2>4. ASSUME NEW t \in Threads, Step(t) PROVE TypeOK'
    <3> USE ThreadFacts
    <3>1. Served(t) \in Content
      BY ZenonT(60) DEF Served, getSpanFromCache, Content
    <3>2. CASE Check(t)
      <4>1. CASE Skips(t)
        <5>1. /\ pc' = [pc EXCEPT ![t] = "done"] /\ buf' = [buf EXCEPT ![t] = Served(t)]
              /\ UNCHANGED <<state, mu, cache, closing, calls, tries>>
          BY <3>2, <4>1, ZenonT(60) DEF Check, Goto, spanVars
        <5>2. QED
          BY <3>1, <5>1, ZenonT(60) DEF PC
      <4>2. CASE ~Skips(t)
        BY <3>2, <4>2, ZenonT(60) DEF Check, Goto, spanVars, PC
      <4>3. QED
        BY <4>1, <4>2, ZenonT(60)
    <3>3. CASE RecheckSkips(t)
      BY <3>1, <3>3, ZenonT(60) DEF RecheckSkips, Goto, spanVars, PC
    <3>4. CASE ReadCompressed(t)
      <4>1. getSpanFromCache(span(t)) \in Content
        BY ZenonT(60) DEF getSpanFromCache, Content
      <4>2. /\ buf' = [buf EXCEPT ![t] = getSpanFromCache(span(t))]
            /\ pc' = [pc EXCEPT ![t] = "fail"] \/ pc' = [pc EXCEPT ![t] = "uncompress"]
            /\ UNCHANGED <<state, mu, cache, closing, calls, tries>>
        BY <3>4, ZenonT(60) DEF ReadCompressed, Goto, spanVars
      <4>3. QED
        BY <4>1, <4>2, ZenonT(60) DEF PC
    <3>5. CASE Request(t)
      BY <3>5, ZenonT(60) DEF Request, Goto, PC, SpanState
    <3>6. CASE Download(t)
      <4>1. tries' \in [Threads -> 0 .. Retries]
        <5>1. tries[t] \in 0 .. Retries
          BY ZenonT(60)
        <5>2. MayRetry(t) => tries[t] + 1 \in 0 .. Retries
          BY <5>1, SMTT(60), Z3T(60) DEF MayRetry
        <5>3. QED
          BY <3>6, <5>2, ZenonT(60) DEF Download
      <4>2. pc' \in [Threads -> PC] /\ buf' \in [Threads -> Content]
        BY <3>6, ZenonT(60), SMTT(60) DEF Download, Goto, PC, Content
      <4>3. QED
        BY <3>6, <4>1, <4>2, ZenonT(60) DEF Download, spanVars
    <3>7. CASE Uncompress(t)
      BY <3>7, ZenonT(60), SMTT(60) DEF Uncompress, Goto, spanVars, PC, Content
    <3>8. CASE AddSpan(t)
      BY <3>8, ZenonT(60) DEF AddSpan, Goto, spanVars, PC
    <3>9. CASE CommitSpan(t)
      BY <3>9, ZenonT(60) DEF CommitSpan, Goto, PC, Content
    <3>10. CASE SetState(t)
      <4>1. state' \in [Spans -> SpanState]
        <5>1. finalState(t) \in SpanState
          BY ZenonT(60) DEF finalState, SpanState
        <5>2. UNCHANGED state \/ state' = [state EXCEPT ![span(t)] = finalState(t)]
          BY <3>10, ZenonT(60) DEF SetState
        <5>3. QED
          BY <5>1, <5>2, ZenonT(60)
      <4>2. buf' \in [Threads -> Content]
        <5>1. \/ UNCHANGED buf
              \/ buf' = [buf EXCEPT ![t] = IF IsReader(t) THEN buf[t] ELSE "none"]
          BY <3>10, ZenonT(60) DEF SetState
        <5>2. QED
          BY <5>1, ZenonT(60) DEF Content
      <4>3. pc' \in [Threads -> PC]
        <5>1. pc' = [pc EXCEPT ![t] = "unlock"] \/ pc' = [pc EXCEPT ![t] = "fail"]
          BY <3>10, ZenonT(60) DEF SetState, Goto
        <5>2. QED
          BY <5>1, ZenonT(60) DEF PC
      <4>4. UNCHANGED <<mu, cache, closing, calls, tries>>
        BY <3>10, ZenonT(60) DEF SetState
      <4>5. QED
        BY <4>1, <4>2, <4>3, <4>4, ZenonT(60)
    <3>11. CASE Fail(t)
      BY <3>11, ZenonT(60) DEF Fail, resetState, Goto, PC, Content, SpanState
    <3>12. CASE Unlock(t)
      BY <3>12, ZenonT(60) DEF Unlock, Goto, PC
    <3>13. QED
      BY <2>4, <3>2, <3>3, <3>4, <3>5, <3>6, <3>7, <3>8, <3>9, <3>10, <3>11,
         <3>12, ZenonT(60) DEF Step
  <2>5. CASE CloseZinfo
    BY <2>5, ZenonT(60) DEF CloseZinfo, spanVars
  <2>6. CASE CloseCache
    BY <2>6, ZenonT(60) DEF CloseCache, Content
  <2>7. CASE UNCHANGED vars
    BY <2>7, ZenonT(60) DEF vars
  <2>8. QED
    BY <2>1, <2>2, <2>3, <2>4, <2>5, <2>6, <2>7, ZenonT(60) DEF Next
<1>3. QED
  BY <1>1, <1>2, PTL DEF Spec

-----------------------------------------------------------------------------
(***************************************************************************)
(* A call touches only goroutines that are idle and a return only ones     *)
(* that are done, so neither disturbs the work on a span.                  *)
(***************************************************************************)
LEMMA CallsTouchOnlyIdle ==
    ASSUME TypeOK, Outstanding, NEW c \in Callers, Call(c)
    PROVE  /\ UNCHANGED <<state, mu, cache, closing, buf>>
           /\ \A t \in Threads : pc'[t] = pc[t] \/ (pc[t] = "idle" /\ pc'[t] = "check")
<1>1. \A S : Start(c, S) =>
        /\ UNCHANGED <<state, mu, cache, closing, buf>>
        /\ \A t \in Threads : pc'[t] = pc[t] \/ (pc[t] = "idle" /\ pc'[t] = "check")
  BY ZenonT(60) DEF Start, spanVars, Outstanding, TypeOK
<1>2. QED
  BY <1>1, ZenonT(60) DEF Call, GetContents, FetchSingleSpan, ResolveSpan

\* The same for the return of a call.
LEMMA ReturnsTouchOnlyDone ==
    ASSUME TypeOK, Outstanding, NEW c \in Callers, Return(c)
    PROVE  /\ UNCHANGED <<state, mu, cache, closing>>
           /\ \A t \in Threads :
                 \/ pc'[t] = pc[t] /\ buf'[t] = buf[t]
                 \/ pc[t] \in {"idle", "done"} /\ pc'[t] = "idle"
<1> SUFFICES ASSUME NEW t \in Threads
             PROVE  \/ pc'[t] = pc[t] /\ buf'[t] = buf[t]
                    \/ pc[t] \in {"idle", "done"} /\ pc'[t] = "idle"
  BY ZenonT(60) DEF Return, spanVars
<1>1. CASE t[1] = c
  <2>1. pc[t] \in {"idle", "done"}
    BY <1>1, ThreadFacts, ZenonT(60) DEF Outstanding, Return
  <2>2. QED
    BY <1>1, <2>1, ZenonT(60) DEF Return, TypeOK
<1>2. CASE t[1] # c
  BY <1>2, ZenonT(60) DEF Return, TypeOK
<1>3. QED
  BY <1>1, <1>2, ZenonT(60)

\* Every step of a goroutine moves only its own program counter and buffer,
\* and its own span's entries.
LEMMA StepsAreLocal ==
    ASSUME TypeOK, NEW t \in Threads, Lock(t) \/ Step(t)
    PROVE  /\ UNCHANGED <<calls, closing>>
           /\ pc[t] # "idle"
           /\ \A u \in Threads \ {t} : pc'[u] = pc[u] /\ buf'[u] = buf[u]
           /\ \A s \in Spans \ {span(t)} :
                 state'[s] = state[s] /\ mu'[s] = mu[s] /\ cache'[s] = cache[s]
<1> USE DEF TypeOK, Goto, spanVars
<1>1. CASE Lock(t)
  BY <1>1, ZenonT(60) DEF Lock
<1>2. CASE Check(t)
  BY <1>2, ZenonT(60) DEF Check
<1>3. CASE RecheckSkips(t) \/ ReadCompressed(t)
  BY <1>3, ZenonT(60) DEF RecheckSkips, ReadCompressed
<1>4. CASE Request(t)
  BY <1>4, ZenonT(60) DEF Request
<1>5. CASE Download(t) \/ Uncompress(t)
  BY <1>5, ZenonT(60) DEF Download, Uncompress
<1>6. CASE AddSpan(t) \/ CommitSpan(t)
  BY <1>6, ZenonT(60) DEF AddSpan, CommitSpan
<1>7. CASE SetState(t)
  BY <1>7, ZenonT(60) DEF SetState
<1>8. CASE Fail(t) \/ Unlock(t)
  BY <1>8, ZenonT(60) DEF Fail, Unlock
<1>9. QED
  BY <1>1, <1>2, <1>3, <1>4, <1>5, <1>6, <1>7, <1>8, ZenonT(60) DEF Step

\* Goroutines exist only within outstanding calls of GetContents and the others.
LEMMA OutstandingInv == Spec => []Outstanding
<1>1. Init => Outstanding
  BY ZenonT(60) DEF Init, Outstanding
<1>2. TypeOK /\ Outstanding /\ [Next]_vars => Outstanding'
  <2> SUFFICES ASSUME TypeOK, Outstanding, [Next]_vars PROVE Outstanding'
    BY ZenonT(60)
  <2>1. ASSUME NEW c \in Callers, Call(c) PROVE Outstanding'
    <3>1. \A S : Start(c, S) => Outstanding'
      <4> SUFFICES ASSUME NEW S, Start(c, S), NEW t \in Threads, pc'[t] # "idle"
                   PROVE  span(t) \in calls'[t[1]]
        BY ZenonT(60) DEF Outstanding
      <4>1. CASE t[1] = c
        BY <4>1, ThreadFacts, ZenonT(60) DEF Start, Outstanding, TypeOK
      <4>2. CASE t[1] # c
        BY <4>2, ThreadFacts, ZenonT(60) DEF Start, Outstanding, TypeOK
      <4>3. QED
        BY <4>1, <4>2, ZenonT(60)
    <3>2. QED
      BY <2>1, <3>1, ZenonT(60) DEF Call, GetContents, FetchSingleSpan, ResolveSpan
  <2>2. ASSUME NEW c \in Callers, Return(c) PROVE Outstanding'
    <3> SUFFICES ASSUME NEW t \in Threads, pc'[t] # "idle"
                 PROVE  span(t) \in calls'[t[1]]
      BY ZenonT(60) DEF Outstanding
    <3>1. t[1] # c
      BY <2>2, ZenonT(60) DEF Return, TypeOK
    <3>2. QED
      BY <2>2, <3>1, ThreadFacts, ZenonT(60) DEF Return, Outstanding, TypeOK
  <2>3. ASSUME NEW t \in Threads, Lock(t) \/ Step(t) PROVE Outstanding'
    BY <2>3, StepsAreLocal, ZenonT(60) DEF Outstanding
  <2>4. CASE CloseZinfo \/ CloseCache
    BY <2>4, ZenonT(60) DEF CloseZinfo, CloseCache, Outstanding
  <2>5. CASE UNCHANGED vars
    BY <2>5, ZenonT(60) DEF vars, Outstanding
  <2>6. QED
    BY <2>1, <2>2, <2>3, <2>4, <2>5, ZenonT(60) DEF Next
<1>3. QED
  BY <1>1, <1>2, Typing, PTL DEF Spec

-----------------------------------------------------------------------------
\* The steps by what they do with the mutex: outside, taking it, inside,
\* giving it back.
LEMMA StepsAndMutex ==
    ASSUME TypeOK, NEW t \in Threads, Lock(t) \/ Step(t)
    PROVE  \/ /\ pc[t] \notin Critical /\ pc'[t] \notin Critical
              /\ mu' = mu
           \/ /\ pc[t] \notin Critical /\ pc'[t] \in Critical
              /\ mu[span(t)] = NoThread /\ mu'[span(t)] = t
           \/ /\ pc[t] \in Critical /\ pc'[t] \in Critical
              /\ mu' = mu
           \/ /\ pc[t] \in Critical /\ pc'[t] \notin Critical
              /\ mu'[span(t)] = NoThread
<1> USE ThreadFacts DEF TypeOK, Goto, spanVars, Critical, Working
<1>1. CASE Lock(t)
  BY <1>1, ZenonT(60) DEF Lock
<1>2. CASE Check(t)
  BY <1>2, ZenonT(60) DEF Check
<1>3. CASE RecheckSkips(t) \/ ReadCompressed(t)
  BY <1>3, ZenonT(60) DEF RecheckSkips, ReadCompressed
<1>4. CASE Request(t)
  BY <1>4, ZenonT(60) DEF Request
<1>5. CASE Download(t) \/ Uncompress(t)
  BY <1>5, ZenonT(60) DEF Download, Uncompress
<1>6. CASE AddSpan(t) \/ CommitSpan(t)
  BY <1>6, ZenonT(60) DEF AddSpan, CommitSpan
<1>7. CASE SetState(t)
  BY <1>7, ZenonT(60) DEF SetState
<1>8. CASE Fail(t)
  BY <1>8, ZenonT(60) DEF Fail
<1>9. CASE Unlock(t)
  BY <1>9, ZenonT(60) DEF Unlock
<1>10. QED
  BY <1>1, <1>2, <1>3, <1>4, <1>5, <1>6, <1>7, <1>8, <1>9, ZenonT(60) DEF Step

\* At most one goroutine at a time is between Lock and Unlock of a span's
\* mutex, and a locked mutex has such a goroutine.
THEOREM MutualExclusion == Spec => []Mutex
<1>1. Init => Mutex
  BY SMTT(60), Z3T(60) DEF Init, Mutex, Critical, Working
<1>2. TypeOK /\ Outstanding /\ Mutex /\ [Next]_vars => Mutex'
  <2> SUFFICES ASSUME TypeOK, Outstanding, Mutex, [Next]_vars PROVE Mutex'
    BY ZenonT(60)
  <2>1. ASSUME NEW c \in Callers, Call(c) PROVE Mutex'
    BY <2>1, CallsTouchOnlyIdle, SMTT(60), Z3T(60) DEF Mutex, Critical, Working
  <2>2. ASSUME NEW c \in Callers, Return(c) PROVE Mutex'
    BY <2>2, ReturnsTouchOnlyDone, SMTT(60), Z3T(60) DEF Mutex, Critical, Working
  <2>3. ASSUME NEW t \in Threads, Lock(t) \/ Step(t) PROVE Mutex'
    <3> span(t) \in Spans /\ NoThread \notin Threads
      BY ThreadFacts, SpanManagerAssumption, ZenonT(60)
    <3>1. ASSUME NEW u \in Threads, pc'[u] \in Critical
          PROVE  mu'[span(u)] = u
      <4>1. CASE u = t
        BY <2>3, <3>1, <4>1, StepsAndMutex, ZenonT(60) DEF Mutex
      <4>2. CASE u # t
        <5>1. pc[u] \in Critical /\ mu[span(u)] = u /\ span(u) \in Spans
          BY <2>3, <3>1, <4>2, StepsAreLocal, ThreadFacts, SMTT(60), Z3T(60) DEF Mutex
        <5>2. CASE span(u) = span(t)
          BY <2>3, <4>2, <5>1, <5>2, StepsAndMutex, SMTT(60), Z3T(60) DEF Mutex
        <5>3. CASE span(u) # span(t)
          BY <2>3, <5>1, <5>3, StepsAreLocal, ZenonT(60)
        <5>4. QED
          BY <5>2, <5>3, ZenonT(60)
      <4>3. QED
        BY <4>1, <4>2, ZenonT(60)
    <3>2. ASSUME NEW s \in Spans, mu'[s] # NoThread
          PROVE  mu'[s] \in Threads /\ span(mu'[s]) = s /\ pc'[mu'[s]] \in Critical
      <4>1. CASE s = span(t)
        <5>1. mu'[s] = t \/ mu'[s] = mu[s]
          BY <2>3, <3>2, <4>1, StepsAndMutex, ZenonT(60)
        <5>2. mu'[s] = t => pc'[t] \in Critical
          BY <2>3, <4>1, <3>2, StepsAndMutex, ZenonT(60) DEF Mutex
        <5>3. CASE mu'[s] = t
          BY <4>1, <5>2, <5>3, ZenonT(60)
        <5>4. CASE mu'[s] = mu[s] /\ mu'[s] # t
          BY <2>3, <3>2, <5>4, StepsAreLocal, SMTT(60), Z3T(60) DEF Mutex
        <5>5. QED
          BY <5>1, <5>3, <5>4, ZenonT(60)
      <4>2. CASE s # span(t)
        BY <2>3, <3>2, <4>2, StepsAreLocal, SMTT(60), Z3T(60) DEF Mutex
      <4>3. QED
        BY <4>1, <4>2, ZenonT(60)
    <3>3. QED
      BY <3>1, <3>2, ZenonT(60) DEF Mutex
  <2>4. CASE CloseZinfo \/ CloseCache
    BY <2>4, ZenonT(60) DEF CloseZinfo, CloseCache, spanVars, Mutex
  <2>5. CASE UNCHANGED vars
    BY <2>5, ZenonT(60) DEF vars, Mutex
  <2>6. QED
    BY <2>1, <2>2, <2>3, <2>4, <2>5, ZenonT(60) DEF Next
<1>3. QED
  BY <1>1, <1>2, Typing, OutstandingInv, PTL DEF Spec

-----------------------------------------------------------------------------
\* Outside the critical section a goroutine changes no span.
LEMMA SpansChangeInside ==
    ASSUME TypeOK, NEW t \in Threads, Lock(t) \/ Step(t), pc[t] \notin Critical
    PROVE  UNCHANGED <<state, cache>>
BY ZenonT(60) DEF Critical, Working, Lock, Step, Check, RecheckSkips, ReadCompressed, Request,
       Download, Uncompress, AddSpan, CommitSpan, SetState, Fail, Unlock, spanVars

\* So the span of a goroutine that is inside changes only by its own steps.
LEMMA OthersLeaveMySpan ==
    ASSUME TypeOK, Mutex, NEW t \in Threads, Lock(t) \/ Step(t),
           NEW u \in Threads, u # t, pc[u] \in Critical
    PROVE  /\ state'[span(u)] = state[span(u)]
           /\ cache'[span(u)] = cache[span(u)]
<1>1. CASE span(u) = span(t)
  BY <1>1, SpansChangeInside, ZenonT(60) DEF Mutex
<1>2. CASE span(u) # span(t)
  BY <1>2, StepsAreLocal, ThreadFacts, ZenonT(60)
<1>3. QED
  BY <1>1, <1>2, ZenonT(60)

\* The state of a span never goes back once it is fetched, and what the
\* transition table allows is all that a step does.
LEMMA StateSteps ==
    ASSUME TypeOK, StateByPC, NEW t \in Threads, Lock(t) \/ Step(t), NEW s \in Spans
    PROVE  /\ state[s] = "uncompressed" => state'[s] = "uncompressed"
           /\ state[s] = "fetched" => state'[s] \in {"fetched", "uncompressed"}
<1> USE ThreadFacts DEF TypeOK, spanVars
<1>1. CASE s # span(t)
  BY <1>1, StepsAreLocal, ZenonT(60)
<1>2. CASE s = span(t)
  <2>1. CASE Request(t)
    BY <1>2, <2>1, SMTT(60), Z3T(60) DEF Request, validateStateTransition, stateTransitionMap, SpanState
  <2>2. CASE SetState(t)
    BY <1>2, <2>2, SMTT(60), Z3T(60) DEF SetState, finalState, validateStateTransition,
       stateTransitionMap, SpanState
  <2>3. CASE Fail(t)
    BY <1>2, <2>3, ZenonT(60) DEF Fail, resetState
  <2>4. CASE ~Request(t) /\ ~SetState(t) /\ ~Fail(t)
    BY <2>4, ZenonT(60) DEF Lock, Step, Check, RecheckSkips, ReadCompressed, Download,
       Uncompress, AddSpan, CommitSpan, Unlock
  <2>5. QED
    BY <2>1, <2>2, <2>3, <2>4, ZenonT(60)
<1>3. QED
  BY <1>1, <1>2, ZenonT(60)

\* The state of a span follows the step of the goroutine that works on it.
LEMMA StateByPCInv == Spec => []StateByPC
<1>1. Init => StateByPC
  BY ZenonT(60) DEF Init, StateByPC, RequestedIsOwned
<1>2. TypeOK /\ Outstanding /\ Mutex /\ StateByPC /\ [Next]_vars /\ Mutex' => StateByPC'
  <2> SUFFICES ASSUME TypeOK, Outstanding, Mutex, StateByPC, [Next]_vars, Mutex'
               PROVE  StateByPC'
    BY ZenonT(60)
  <2>1. ASSUME NEW c \in Callers, Call(c) PROVE StateByPC'
    BY <2>1, CallsTouchOnlyIdle, SMTT(60), Z3T(60) DEF StateByPC, RequestedIsOwned, Working, Mutex
  <2>2. ASSUME NEW c \in Callers, Return(c) PROVE StateByPC'
    BY <2>2, ReturnsTouchOnlyDone, SMTT(60), Z3T(60) DEF StateByPC, RequestedIsOwned, Working, Mutex
  <2>3. ASSUME NEW t \in Threads, Lock(t) \/ Step(t) PROVE StateByPC'
    <3> DEFINE At(u) ==
          /\ pc[u] = "download" => state[span(u)] = "requested"
          /\ pc[u] \in {"uncompress", "add", "commit", "setState"} =>
                \/ state[span(u)] = "requested"
                \/ state[span(u)] = "fetched" /\ IsReader(u)
    <3>1. ASSUME NEW u \in Threads, u # t PROVE At(u)'
      <4>1. pc'[u] = pc[u]
        BY <2>3, <3>1, StepsAreLocal, ZenonT(60)
      <4>2. CASE pc[u] \in Critical
        BY <2>3, <3>1, <4>1, <4>2, OthersLeaveMySpan, ZenonT(60) DEF StateByPC, span, IsReader
      <4>3. CASE pc[u] \notin Critical
        BY <4>1, <4>3, ZenonT(60) DEF Critical, Working
      <4>4. QED
        BY <4>2, <4>3, ZenonT(60)
    <3>2. At(t)'
      <4> USE ThreadFacts DEF TypeOK, Goto, spanVars, StateByPC, IsReader
      <4>1. CASE Lock(t) \/ Check(t) \/ RecheckSkips(t) \/ Unlock(t) \/ Fail(t)
        BY <4>1, ZenonT(60) DEF Lock, Check, RecheckSkips, Unlock, Fail
      <4>2. CASE ReadCompressed(t)
        BY <4>2, ZenonT(60) DEF ReadCompressed, TakesFetched
      <4>3. CASE Request(t)
        BY <4>3, ZenonT(60) DEF Request
      <4>4. CASE Download(t) \/ Uncompress(t)
        BY <4>4, ZenonT(60) DEF Download, Uncompress
      <4>5. CASE AddSpan(t) \/ CommitSpan(t)
        BY <4>5, ZenonT(60) DEF AddSpan, CommitSpan
      <4>6. CASE SetState(t)
        BY <4>6, ZenonT(60) DEF SetState
      <4>7. QED
        BY <2>3, <4>1, <4>2, <4>3, <4>4, <4>5, <4>6, ZenonT(60) DEF Step
    <3>3. ASSUME NEW s \in Spans, state'[s] = "requested"
          PROVE  mu'[s] # NoThread /\ pc'[mu'[s]] \in Working
      <4>1. CASE s # span(t)
        <5>1. state[s] = "requested" /\ mu'[s] = mu[s]
          BY <2>3, <3>3, <4>1, StepsAreLocal, ZenonT(60)
        <5>2. mu[s] # NoThread /\ pc[mu[s]] \in Working
          BY <5>1, ZenonT(60) DEF StateByPC, RequestedIsOwned
        <5>3. mu[s] \in Threads \ {t}
          BY <4>1, <5>2, ZenonT(60) DEF Mutex
        <5>4. QED
          BY <2>3, <5>1, <5>2, <5>3, StepsAreLocal, SMTT(60), Z3T(60)
      <4>2. CASE s = span(t) /\ pc[t] \notin Critical
        <5>1. state[s] = "requested"
          BY <2>3, <3>3, <4>2, SpansChangeInside, ZenonT(60)
        <5>2. mu[s] # NoThread /\ pc[mu[s]] \in Working /\ mu[s] \in Threads \ {t}
          BY <4>2, <5>1, ZenonT(60) DEF StateByPC, RequestedIsOwned, Mutex, Critical
        <5>3. mu'[s] = mu[s]
          BY <2>3, <4>2, <5>2, StepsAndMutex, ZenonT(60)
        <5>4. QED
          BY <2>3, <5>2, <5>3, StepsAreLocal, SMTT(60), Z3T(60)
      <4>3. CASE s = span(t) /\ pc[t] \in Critical
        <5> USE <2>3, <3>3, <4>3, ThreadFacts, SpanManagerAssumption
            DEF TypeOK, Goto, spanVars, Working
        <5>1. mu[s] = t
          BY ZenonT(60) DEF Mutex
        <5>2. CASE pc[t] = "unlock"
          <6>1. state[s] = "requested"
            BY <5>2, ZenonT(60) DEF Step, Lock, Check, RecheckSkips, ReadCompressed, Request,
               Download, Uncompress, AddSpan, CommitSpan, SetState, Fail, Unlock
          <6>2. QED
            BY <5>1, <5>2, <6>1, ZenonT(60) DEF StateByPC, RequestedIsOwned
        <5>3. CASE pc[t] = "recheck"
          <6>1. state[s] = "requested" => FALSE
            BY <5>1, <5>3, ZenonT(60) DEF StateByPC, RequestedIsOwned
          <6>2. Request(t)
            BY <5>3, <6>1, ZenonT(60) DEF Step, Lock, Check, RecheckSkips, ReadCompressed, Request,
               Download, Uncompress, AddSpan, CommitSpan, SetState, Fail, Unlock
          <6>3. pc'[t] = "download" /\ mu' = mu
            BY <6>1, <6>2, ZenonT(60), SMTT(60) DEF Request
          <6>4. QED
            BY <5>1, <6>3, ZenonT(60)
        <5>4. CASE pc[t] \in Working
          <6>1. CASE SetState(t)
            BY <5>1, <6>1, ZenonT(60) DEF SetState, finalState, validateStateTransition
          <6>2. CASE Fail(t)
            BY <6>2, ZenonT(60) DEF Fail, resetState
          <6>3. CASE Download(t) \/ Uncompress(t) \/ AddSpan(t) \/ CommitSpan(t)
            BY <5>1, <6>3, ZenonT(60) DEF Download, Uncompress, AddSpan, CommitSpan
          <6>4. QED
            BY <5>4, <6>1, <6>2, <6>3, ZenonT(60) DEF Step, Lock, Check, RecheckSkips,
               ReadCompressed, Request, Unlock
        <5>5. QED
          BY <5>2, <5>3, <5>4, ZenonT(60) DEF Critical
      <4>4. QED
        BY <4>1, <4>2, <4>3, ZenonT(60)
    <3>4. QED
      BY <3>1, <3>2, <3>3, ZenonT(60) DEF StateByPC, RequestedIsOwned
  <2>4. CASE CloseZinfo \/ CloseCache
    BY <2>4, ZenonT(60) DEF CloseZinfo, CloseCache, spanVars, StateByPC, RequestedIsOwned
  <2>5. CASE UNCHANGED vars
    BY <2>5, ZenonT(60) DEF vars, StateByPC, RequestedIsOwned
  <2>6. QED
    BY <2>1, <2>2, <2>3, <2>4, <2>5, ZenonT(60) DEF Next
<1>3. QED
  BY <1>1, <1>2, Typing, OutstandingInv, MutualExclusion, PTL DEF Spec

\* No goroutine leaves a span in `requested`.
THEOREM RequestedSafe == Spec => []RequestedIsOwned
BY StateByPCInv, PTL DEF StateByPC

\* Progress on a span is never undone.
THEOREM ProgressKept == Spec => ProgressIsKept
<1>1. TypeOK /\ Outstanding /\ StateByPC /\ [Next]_vars =>
        [\A s \in Spans :
            /\ state[s] = "uncompressed" => state'[s] = "uncompressed"
            /\ state[s] = "fetched" => state'[s] \in {"fetched", "uncompressed"}]_vars
  BY StateSteps, CallsTouchOnlyIdle, ReturnsTouchOnlyDone, ZenonT(60)
  DEF Next, CloseZinfo, CloseCache, spanVars, vars
<1>2. QED
  BY <1>1, Typing, OutstandingInv, StateByPCInv, PTL DEF Spec, ProgressIsKept

-----------------------------------------------------------------------------
(***************************************************************************)
(* The bytes.  All of it is about an open manager, and about a cache whose *)
(* commits succeed: CommitSpan drops the error of one that does not.       *)
(***************************************************************************)
ThreadData(t) ==
    /\ pc[t] = "uncompress" => buf[t] = "compressed" /\ ~IsFetcher(t)
    /\ pc[t] \in {"add", "commit", "setState"} =>
          buf[t] = IF IsFetcher(t) THEN "compressed" ELSE "uncompressed"
    /\ pc[t] = "setState" => cache[span(t)] = buf[t]
    /\ IsReader(t) /\ pc[t] \in {"unlock", "done"} =>
          \/ buf[t] = "error"
          \/ buf[t] = "uncompressed" /\ state[span(t)] = "uncompressed"

SpanData(s) ==
    /\ state[s] = "unrequested" => cache[s] = "none"
    /\ state[s] = "requested" =>
          cache[s] = "none" \/ (mu[s] # NoThread /\ pc[mu[s]] = "setState")
    /\ state[s] = "fetched" =>
          \/ cache[s] = "compressed"
          \/ cache[s] = "uncompressed" /\ mu[s] # NoThread /\ pc[mu[s]] = "setState"
    /\ state[s] = "uncompressed" => cache[s] = "uncompressed"

DataByPC ==
    closing = "open" =>
        /\ \A t \in Threads : ThreadData(t)
        /\ \A s \in Spans : SpanData(s)

\* What the acting goroutine leaves behind, action by action.
LEMMA StepKeepsOwnData ==
    ASSUME TypeOK, Mutex, StateByPC, DataByPC, closing = "open", "commit" \notin Faults,
           NEW t \in Threads, Lock(t) \/ Step(t)
    PROVE  ThreadData(t)' /\ SpanData(span(t))'
<1> DEFINE s == span(t)
<1> s \in Spans /\ NoThread # t /\ ~(IsReader(t) /\ IsFetcher(t))
  BY ThreadFacts, SpanManagerAssumption, ZenonT(60), SMTT(60) DEF IsReader, IsFetcher
<1>0. ThreadData(t) /\ SpanData(s)
  BY ZenonT(60) DEF DataByPC
<1>m. pc[t] \in Critical => mu[s] = t
  BY ZenonT(60) DEF Mutex
<1>s. state[s] \in SpanState
  BY ZenonT(60) DEF TypeOK
<1> USE <1>0, <1>m DEF TypeOK, Goto, spanVars, ThreadData, SpanData, Critical, Working
<1>1. CASE Lock(t)
  BY <1>1, ZenonT(60) DEF Lock
<1>2. CASE Check(t)
  <2>1. CASE Skips(t)
    <3>1. IsReader(t) => Served(t) = "uncompressed" /\ state[s] = "uncompressed"
      BY <2>1, ZenonT(60) DEF Skips, Served, getSpanFromCache
    <3>2. pc'[t] = "done" /\ buf'[t] = Served(t) /\ UNCHANGED <<state, mu, cache>>
      BY <1>2, <2>1, ZenonT(60) DEF Check
    <3>3. SpanData(s)'
      BY <1>2, <3>2, SMTT(60), Z3T(60) DEF Check
    <3>4. QED
      BY <3>1, <3>2, <3>3, ZenonT(30) DEF IsReader
  <2>2. CASE ~Skips(t)
    BY <1>2, <2>2, ZenonT(60) DEF Check
  <2>3. QED
    BY <2>1, <2>2, ZenonT(30)
<1>3. CASE RecheckSkips(t)
  BY <1>3, ZenonT(60) DEF RecheckSkips, Skips, Served, getSpanFromCache
<1>4. CASE ReadCompressed(t)
  BY <1>4, ZenonT(60) DEF ReadCompressed, TakesFetched, getSpanFromCache
<1>5. CASE Request(t)
  <2>1. CASE validateStateTransition(s, "requested")
    <3>1. state[s] = "unrequested"
      BY <1>s, <2>1, OnlyUnrequested, ZenonT(60)
    <3>2. QED
      BY <1>5, <2>1, <3>1, ZenonT(60) DEF Request
  <2>2. CASE ~validateStateTransition(s, "requested")
    BY <1>5, <2>2, ZenonT(60) DEF Request
  <2>3. QED
    BY <2>1, <2>2, ZenonT(30)
<1>6. CASE Download(t)
  BY <1>6, ZenonT(60), SMTT(60) DEF Download, IsFetcher
<1>7. CASE Uncompress(t)
  <2>1. ~IsFetcher(t)
    BY <1>7, ZenonT(60) DEF Uncompress
  <2>2. QED
    BY <1>7, <2>1, ZenonT(60), SMTT(60) DEF Uncompress
<1>8. CASE AddSpan(t)
  BY <1>8, ZenonT(60) DEF AddSpan, IsFetcher
<1>9. CASE CommitSpan(t)
  <2>1. \/ state[s] = "requested"
        \/ state[s] = "fetched" /\ IsReader(t)
    BY <1>9, ZenonT(60) DEF CommitSpan, StateByPC
  <2>2. cache'[s] = buf[t] /\ pc'[t] = "setState" /\ UNCHANGED <<state, mu, buf>>
    BY <1>9, ZenonT(60) DEF CommitSpan
  <2>3. QED
    BY <1>9, <2>1, <2>2, ZenonT(60), SMTT(60) DEF CommitSpan, IsFetcher
<1>10. CASE SetState(t)
  <2>1. \/ state[s] = "requested"
        \/ state[s] = "fetched" /\ IsReader(t)
    BY <1>10, ZenonT(60) DEF SetState, StateByPC
  <2>2. validateStateTransition(s, finalState(t))
    <3>1. /\ {"fetched", "uncompressed"} \subseteq stateTransitionMap["requested"]
          /\ "uncompressed" \in stateTransitionMap["fetched"]
      BY ZenonT(60) DEF stateTransitionMap
    <3>2. finalState(t) \in {"fetched", "uncompressed"} /\ (IsReader(t) => finalState(t) = "uncompressed")
      BY ThreadFacts, ZenonT(60) DEF finalState
    <3>3. QED
      BY <2>1, <3>1, <3>2, ZenonT(60) DEF validateStateTransition
  <2>3. /\ state'[s] = finalState(t)
        /\ pc'[t] = "unlock"
        /\ UNCHANGED <<mu, cache>>
        /\ buf'[t] = IF IsReader(t) THEN buf[t] ELSE "none"
    BY <1>10, <2>2, ZenonT(60), SMTT(60) DEF SetState
  <2>4. cache[s] = IF IsFetcher(t) THEN "compressed" ELSE "uncompressed"
    BY <1>10, ZenonT(60) DEF SetState
  <2>5. CASE IsFetcher(t)
    BY <2>3, <2>4, <2>5, ZenonT(60) DEF finalState, IsReader, IsFetcher
  <2>6. CASE ~IsFetcher(t)
    <3>1. state'[s] = "uncompressed" /\ cache'[s] = "uncompressed"
      BY <2>3, <2>4, <2>6, ZenonT(60) DEF finalState
    <3>2. IsReader(t) => buf'[t] = "uncompressed"
      BY <1>10, <2>3, <2>6, ZenonT(60) DEF SetState
    <3>3. QED
      BY <2>3, <3>1, <3>2, ZenonT(30) DEF IsReader
  <2>7. QED
    BY <2>5, <2>6, ZenonT(30)
<1>11. CASE Fail(t)
  BY <1>11, ZenonT(60) DEF Fail, resetState
<1>12. CASE Unlock(t)
  <2>1. pc[t] = "unlock" /\ mu[s] = t /\ pc'[t] = "done"
    BY <1>12, ZenonT(60) DEF Unlock
  <2>2. state[s] # "requested"
    BY <2>1, ZenonT(60) DEF StateByPC, RequestedIsOwned
  <2>3. QED
    BY <1>12, <2>1, <2>2, ZenonT(60) DEF Unlock, IsReader
<1>13. QED
  BY <1>1, <1>2, <1>3, <1>4, <1>5, <1>6, <1>7, <1>8, <1>9, <1>10, <1>11, <1>12, ZenonT(30) DEF Step

\* So do the bytes a goroutine carries and the bytes in the cache.
LEMMA DataByPCInv ==
    ASSUME "commit" \notin Faults
    PROVE  Spec => []DataByPC
<1>1. Init => DataByPC
  BY ZenonT(60) DEF Init, DataByPC, ThreadData, SpanData
<1>2. TypeOK /\ Outstanding /\ Mutex /\ StateByPC /\ DataByPC /\ [Next]_vars => DataByPC'
  <2> SUFFICES ASSUME TypeOK, Outstanding, Mutex, StateByPC, DataByPC, [Next]_vars,
                      closing' = "open"
               PROVE  /\ \A u \in Threads : ThreadData(u)'
                      /\ \A s \in Spans : SpanData(s)'
    BY ZenonT(60) DEF DataByPC
  <2>0. closing = "open"
    <3>1. \A c \in Callers : Call(c) \/ Return(c) => closing' = closing
      BY CallsTouchOnlyIdle, ReturnsTouchOnlyDone, ZenonT(60)
    <3>2. \A t \in Threads : Lock(t) \/ Step(t) => closing' = closing
      BY StepsAreLocal, ZenonT(60)
    <3>3. ~CloseZinfo /\ ~CloseCache
      BY ZenonT(60) DEF CloseZinfo, CloseCache
    <3>4. QED
      BY <3>1, <3>2, <3>3, ZenonT(60) DEF Next, vars
  <2>a. (\A u \in Threads : ThreadData(u)) /\ (\A s \in Spans : SpanData(s))
    BY <2>0, ZenonT(60) DEF DataByPC
  <2> USE DEF IsReader, IsFetcher, span
  <2>1. ASSUME NEW c \in Callers, Call(c)
        PROVE  (\A u \in Threads : ThreadData(u)') /\ (\A s \in Spans : SpanData(s)')
    <3>1. \A u \in Threads : ThreadData(u)'
      BY <2>1, <2>a, CallsTouchOnlyIdle, ZenonT(60) DEF ThreadData
    <3>2. \A s \in Spans : SpanData(s)'
      BY <2>1, <2>a, CallsTouchOnlyIdle, SMTT(60), Z3T(60) DEF SpanData, Mutex
    <3>3. QED
      BY <3>1, <3>2, ZenonT(60)
  <2>2. ASSUME NEW c \in Callers, Return(c)
        PROVE  (\A u \in Threads : ThreadData(u)') /\ (\A s \in Spans : SpanData(s)')
    <3>1. \A u \in Threads : ThreadData(u)'
      BY <2>2, <2>a, ReturnsTouchOnlyDone, ZenonT(60) DEF ThreadData
    <3>2. \A s \in Spans : SpanData(s)'
      BY <2>2, <2>a, ReturnsTouchOnlyDone, SMTT(60), Z3T(60) DEF SpanData, Mutex
    <3>3. QED
      BY <3>1, <3>2, ZenonT(60)
  <2>3. ASSUME NEW t \in Threads, Lock(t) \/ Step(t)
        PROVE  (\A u \in Threads : ThreadData(u)') /\ (\A s \in Spans : SpanData(s)')
    <3>1. ThreadData(t)' /\ SpanData(span(t))'
      BY <2>0, <2>3, StepKeepsOwnData, ZenonT(60)
    <3>2. ASSUME NEW u \in Threads, u # t PROVE ThreadData(u)'
      <4>1. pc'[u] = pc[u] /\ buf'[u] = buf[u] /\ span(u) \in Spans
        BY <2>3, <3>2, StepsAreLocal, ThreadFacts, ZenonT(60)
      <4>2. pc[u] \in Critical => cache'[span(u)] = cache[span(u)]
        BY <2>3, <3>2, OthersLeaveMySpan, ZenonT(60)
      <4>3. state[span(u)] = "uncompressed" => state'[span(u)] = "uncompressed"
        BY <2>3, <4>1, StateSteps, ZenonT(60)
      <4>4. QED
        BY <2>a, <4>1, <4>2, <4>3, ZenonT(60) DEF ThreadData, Critical, Working
    <3>3. ASSUME NEW s \in Spans, s # span(t) PROVE SpanData(s)'
      <4>1. state'[s] = state[s] /\ mu'[s] = mu[s] /\ cache'[s] = cache[s]
        BY <2>3, <3>3, StepsAreLocal, ZenonT(60)
      <4>2. mu[s] # NoThread => pc'[mu[s]] = pc[mu[s]]
        BY <2>3, <3>3, StepsAreLocal, SMTT(60), Z3T(60) DEF Mutex
      <4>3. QED
        BY <2>a, <4>1, <4>2, ZenonT(60) DEF SpanData
    <3>4. QED
      BY <3>1, <3>2, <3>3, ZenonT(60)
  <2>4. CASE UNCHANGED vars
    BY <2>4, <2>a, ZenonT(60) DEF vars, ThreadData, SpanData
  <2>5. ~CloseZinfo /\ ~CloseCache
    BY ZenonT(60) DEF CloseZinfo, CloseCache
  <2>6. QED
    BY <2>1, <2>2, <2>3, <2>4, <2>5, ZenonT(60) DEF Next
<1>3. QED
  BY <1>1, <1>2, Typing, OutstandingInv, MutualExclusion, StateByPCInv, PTL DEF Spec

\* The state of a span never promises more than the cache holds.
THEOREM CacheSafe ==
    ASSUME "commit" \notin Faults
    PROVE  Spec => []CacheAgreesWithState
<1>1. DataByPC => CacheAgreesWithState
  BY ZenonT(60) DEF DataByPC, SpanData, CacheAgreesWithState
<1>2. QED
  BY <1>1, DataByPCInv, PTL

\* A read of an open manager gives decompressed data or an error.
THEOREM ReadersSafe ==
    ASSUME "commit" \notin Faults
    PROVE  Spec => []ReadersGetFileData
<1>1. DataByPC => ReadersGetFileData
  BY ZenonT(60) DEF DataByPC, ThreadData, ReadersGetFileData
<1>2. QED
  BY <1>1, DataByPCInv, PTL

\* No span is downloaded again once its bytes are cached.
THEOREM NeverDownloadedAgain ==
    ASSUME "commit" \notin Faults
    PROVE  Spec => DownloadedOnce
<1>1. ASSUME TypeOK, Outstanding, DataByPC, [Next]_vars,
             NEW t \in Threads, pc[t] # "download", pc'[t] = "download", closing = "open"
      PROVE  cache[span(t)] = "none"
  <2>1. Request(t)
    <3>1. \A c \in Callers : ~Call(c) /\ ~Return(c)
      BY <1>1, CallsTouchOnlyIdle, ReturnsTouchOnlyDone, ZenonT(60)
    <3>2. \A u \in Threads : Lock(u) \/ Step(u) => u = t
      BY <1>1, StepsAreLocal, ZenonT(60)
    <3>3. Lock(t) \/ Step(t)
      BY <1>1, <3>1, <3>2, ZenonT(60) DEF Next, CloseZinfo, CloseCache, vars
    <3>4. QED
      BY <1>1, <3>3, ZenonT(60) DEF TypeOK, Lock, Step, Check, RecheckSkips, ReadCompressed,
         Download, Uncompress, AddSpan, CommitSpan, SetState, Fail, Unlock, Goto
  <2>2. validateStateTransition(span(t), "requested")
    BY <1>1, <2>1, ZenonT(60) DEF Request, Goto, TypeOK
  <2>3. state[span(t)] = "unrequested"
    BY <2>2, <1>1, ThreadFacts, SMTT(60), Z3T(60), ZenonT(60)
    DEF validateStateTransition, stateTransitionMap, TypeOK, SpanState
  <2>4. QED
    BY <1>1, <2>3, ThreadFacts, ZenonT(60) DEF DataByPC, SpanData
<1>2. TypeOK /\ Outstanding /\ DataByPC /\ [Next]_vars =>
        [\A t \in Threads :
            pc[t] # "download" /\ pc'[t] = "download" /\ closing = "open"
                => cache[span(t)] = "none"]_vars
  BY <1>1, ZenonT(60)
<1>3. QED
  BY <1>2, Typing, OutstandingInv, DataByPCInv, PTL DEF Spec, DownloadedOnce

-----------------------------------------------------------------------------
(***************************************************************************)
(* Errors.  Before its work a goroutine has no answer yet, so an error it  *)
(* has after the check, the recheck or the final setState is of that step. *)
(***************************************************************************)
NoAnswer(t) == pc[t] \in {"idle", "check", "lock", "recheck"} => buf[t] = "none"
NoAnswerYet == \A t \in Threads : NoAnswer(t)

\* Check and recheck give an answer only as they leave.
LEMMA StepAnswers ==
    ASSUME TypeOK, NEW t \in Threads, Lock(t) \/ Step(t), NoAnswer(t)
    PROVE  NoAnswer(t)'
<1>1. pc'[t] \in {"idle", "check", "lock", "recheck"} =>
        pc[t] \in {"check", "lock"} /\ buf'[t] = buf[t]
  <2>1. CASE Lock(t) \/ Check(t)
    BY <2>1, ZenonT(60) DEF Lock, Check, Goto, TypeOK
  <2>2. CASE RecheckSkips(t) \/ ReadCompressed(t) \/ Request(t)
    BY <2>2, ZenonT(60) DEF RecheckSkips, ReadCompressed, Request, Goto, TypeOK
  <2>3. CASE Download(t) \/ Uncompress(t) \/ AddSpan(t)
    BY <2>3, ZenonT(60) DEF Download, Uncompress, AddSpan, Goto, TypeOK
  <2>4. CASE CommitSpan(t) \/ SetState(t) \/ Fail(t) \/ Unlock(t)
    BY <2>4, ZenonT(60) DEF CommitSpan, SetState, Fail, Unlock, Goto, TypeOK
  <2>5. QED
    BY <2>1, <2>2, <2>3, <2>4, ZenonT(60) DEF Step
<1>2. QED
  BY <1>1, ZenonT(60) DEF NoAnswer

\* A goroutine of GetContents and the others starts without an answer.
LEMMA NoAnswerYetInv == Spec => []NoAnswerYet
<1>1. Init => NoAnswerYet
  BY ZenonT(60) DEF Init, NoAnswerYet, NoAnswer
<1>2. TypeOK /\ Outstanding /\ NoAnswerYet /\ [Next]_vars => NoAnswerYet'
  <2> SUFFICES ASSUME TypeOK, Outstanding, NoAnswerYet, [Next]_vars, NEW u \in Threads
               PROVE  NoAnswer(u)'
    BY ZenonT(60) DEF NoAnswerYet
  <2>0. NoAnswer(u)
    BY ZenonT(60) DEF NoAnswerYet
  <2>1. ASSUME NEW c \in Callers, Call(c) PROVE NoAnswer(u)'
    BY <2>0, <2>1, CallsTouchOnlyIdle, ZenonT(60) DEF NoAnswer
  <2>2. ASSUME NEW c \in Callers, Return(c) PROVE NoAnswer(u)'
    <3>1. buf'[u] = "none" \/ (pc'[u] = pc[u] /\ buf'[u] = buf[u])
      <4>1. CASE u[1] = c
        BY <2>2, <4>1, ZenonT(60) DEF Return
      <4>2. CASE u[1] # c
        BY <2>2, <4>2, ZenonT(60) DEF Return
      <4>3. QED
        BY <4>1, <4>2, ZenonT(60)
    <3>2. QED
      BY <2>0, <3>1, ZenonT(60) DEF NoAnswer
  <2>3. ASSUME NEW t \in Threads, Lock(t) \/ Step(t) PROVE NoAnswer(u)'
    <3>1. CASE u = t
      BY <2>0, <2>3, <3>1, StepAnswers, ZenonT(60)
    <3>2. CASE u # t
      BY <2>0, <2>3, <3>2, StepsAreLocal, ZenonT(60) DEF NoAnswer
    <3>3. QED
      BY <3>1, <3>2, ZenonT(60)
  <2>4. CASE CloseZinfo \/ CloseCache \/ UNCHANGED vars
    <3>1. UNCHANGED <<pc, buf>>
      BY <2>4, ZenonT(60) DEF CloseZinfo, CloseCache, vars
    <3>2. QED
      BY <2>0, <3>1, ZenonT(60) DEF NoAnswer
  <2>5. QED
    BY <2>1, <2>2, <2>3, <2>4, ZenonT(60) DEF Next
<1>3. QED
  BY <1>1, <1>2, Typing, OutstandingInv, PTL DEF Spec

\* A span that a reader or a fetcher rechecks and cannot use is unrequested:
\* setState to requested is valid.
LEMMA RequestIsValid ==
    ASSUME TypeOK, Mutex, StateByPC, NEW t \in Threads, t[1] \notin Prefetchers,
           pc[t] = "recheck", ~Skips(t), ~TakesFetched(t)
    PROVE  validateStateTransition(span(t), "requested")
<1>1. span(t) \in Spans /\ (IsReader(t) \/ IsFetcher(t)) /\ state[span(t)] \in SpanState
  BY ThreadFacts, ZenonT(60) DEF IsReader, IsFetcher, Callers, TypeOK
<1>2. mu[span(t)] = t
  BY ZenonT(60) DEF Mutex, Critical
<1>3. state[span(t)] # "requested"
  BY <1>1, <1>2, ZenonT(60) DEF StateByPC, RequestedIsOwned, Working
<1>4. state[span(t)] = "unrequested"
  BY <1>1, <1>3, ZenonT(60) DEF Skips, TakesFetched, SpanState
<1>5. "requested" \in stateTransitionMap["unrequested"]
  BY ZenonT(60) DEF stateTransitionMap
<1>6. QED
  BY <1>4, <1>5, ZenonT(60) DEF validateStateTransition

\* The final state is one the table allows from where the work began.
LEMMA SetStateIsValid ==
    ASSUME StateByPC, NEW t \in Threads, pc[t] = "setState"
    PROVE  validateStateTransition(span(t), finalState(t))
<1>1. state[span(t)] = "requested" \/ (state[span(t)] = "fetched" /\ IsReader(t))
  BY ZenonT(60) DEF StateByPC
<1>2. /\ {"fetched", "uncompressed"} \subseteq stateTransitionMap["requested"]
      /\ "uncompressed" \in stateTransitionMap["fetched"]
  BY ZenonT(60) DEF stateTransitionMap
<1>3. /\ finalState(t) \in {"fetched", "uncompressed"}
      /\ IsReader(t) => finalState(t) = "uncompressed"
  BY SpanManagerAssumption, ZenonT(60) DEF finalState, IsReader, IsFetcher
<1>4. QED
  BY <1>1, <1>2, <1>3, ZenonT(60) DEF validateStateTransition

\* The steps of a goroutine at which the state of its span decides.
LEMMA DecisionsDoNotFail ==
    ASSUME TypeOK, Mutex, StateByPC, DataByPC, NoAnswerYet, closing = "open",
           NEW t \in Threads, t[1] \notin Prefetchers,
           pc[t] \in {"check", "recheck", "setState"}, Lock(t) \/ Step(t)
    PROVE  pc'[t] # "fail" /\ buf'[t] # "error"
<1>1. span(t) \in Spans /\ ThreadData(t) /\ SpanData(span(t))
  BY ThreadFacts, ZenonT(60) DEF DataByPC
<1>2. pc[t] \in {"check", "recheck"} => buf[t] = "none"
  BY ZenonT(60) DEF NoAnswerYet, NoAnswer
<1>3. Skips(t) => Served(t) # "error"
  <2>1. CASE IsReader(t)
    <3>1. ~IsFetcher(t)
      BY <2>1, SpanManagerAssumption, ZenonT(60) DEF IsReader, IsFetcher
    <3>2. Skips(t) => cache[span(t)] = "uncompressed"
      BY <1>1, <3>1, ZenonT(60) DEF Skips, SpanData
    <3>3. QED
      BY <3>2, ZenonT(60) DEF Served, getSpanFromCache
  <2>2. CASE ~IsReader(t)
    BY <2>2, ZenonT(60) DEF Served
  <2>3. QED
    BY <2>1, <2>2, ZenonT(60)
<1>4. CASE Check(t)
  BY <1>2, <1>3, <1>4, ZenonT(60) DEF Check, Goto, TypeOK
<1>5. CASE RecheckSkips(t)
  BY <1>3, <1>5, ZenonT(60) DEF RecheckSkips, Goto, TypeOK
<1>6. CASE ReadCompressed(t)
  <2>1. getSpanFromCache(span(t)) # "error"
    BY <1>1, <1>6, ZenonT(60) DEF ReadCompressed, TakesFetched, SpanData, getSpanFromCache
  <2>2. QED
    BY <1>6, <2>1, ZenonT(60) DEF ReadCompressed, Goto, TypeOK
<1>7. CASE Request(t)
  <2>1. validateStateTransition(span(t), "requested")
    BY <1>7, RequestIsValid, ZenonT(60) DEF Request
  <2>2. QED
    BY <1>2, <1>7, <2>1, ZenonT(60) DEF Request, Goto, TypeOK
<1>8. CASE SetState(t)
  <2>1. validateStateTransition(span(t), finalState(t)) /\ pc[t] = "setState"
    BY <1>8, SetStateIsValid, ZenonT(60) DEF SetState
  <2>2. buf[t] # "error"
    BY <1>1, <2>1, ZenonT(60) DEF ThreadData
  <2>3. QED
    BY <1>8, <2>1, <2>2, ZenonT(60) DEF SetState, Goto, TypeOK
<1>9. QED
  BY <1>4, <1>5, <1>6, <1>7, <1>8, ZenonT(60) DEF Step, Lock, Download, Uncompress, AddSpan, CommitSpan,
     Fail, Unlock

\* Where commits succeed, a read or a background fetch fails only by a fault of
\* its own download, decompression or addition, never by what the others did.
THEOREM FailuresAreFaults ==
    ASSUME "commit" \notin Faults
    PROVE  Spec => ErrorsAreFaults
<1>1. ASSUME TypeOK, Outstanding, Mutex, StateByPC, DataByPC, NoAnswerYet, [Next]_vars,
             NEW t \in Threads, t[1] \notin Prefetchers, closing = "open",
             pc[t] \in {"check", "recheck", "setState"}
      PROVE  pc'[t] # "fail" /\ buf'[t] # "error"
  <2>1. buf[t] # "error"
    BY <1>1, ZenonT(60) DEF NoAnswerYet, NoAnswer, DataByPC, ThreadData
  <2>2. CASE pc'[t] = pc[t] /\ buf'[t] = buf[t]
    BY <1>1, <2>1, <2>2, ZenonT(60)
  <2>3. ASSUME NEW c \in Callers, Call(c) \/ Return(c) PROVE pc'[t] = pc[t] /\ buf'[t] = buf[t]
    BY <1>1, <2>3, CallsTouchOnlyIdle, ReturnsTouchOnlyDone, ZenonT(60)
  <2>4. ASSUME NEW u \in Threads \ {t}, Lock(u) \/ Step(u)
        PROVE  pc'[t] = pc[t] /\ buf'[t] = buf[t]
    BY <1>1, <2>4, StepsAreLocal, ZenonT(60)
  <2>5. CASE Lock(t) \/ Step(t)
    BY <1>1, <2>5, DecisionsDoNotFail, ZenonT(60)
  <2>6. CASE CloseZinfo \/ CloseCache \/ UNCHANGED vars
    BY <2>2, <2>6, ZenonT(60) DEF CloseZinfo, CloseCache, vars
  <2>7. QED
    BY <1>1, <2>2, <2>3, <2>4, <2>5, <2>6, ZenonT(60) DEF Next
<1>2. TypeOK /\ Outstanding /\ Mutex /\ StateByPC /\ DataByPC /\ NoAnswerYet /\ [Next]_vars =>
        [\A t \in Threads :
            /\ t[1] \notin Prefetchers
            /\ closing = "open"
            /\ pc[t] \in {"check", "recheck", "setState"}
            => pc'[t] # "fail" /\ buf'[t] # "error"]_vars
  BY <1>1, ZenonT(60)
<1>3. QED
  BY <1>2, Typing, OutstandingInv, MutualExclusion, StateByPCInv, DataByPCInv, NoAnswerYetInv, PTL
  DEF Spec, ErrorsAreFaults

-----------------------------------------------------------------------------
(***************************************************************************)
(* Refinement.  A commit is a Put, the end of a reader's goroutine is a    *)
(* Serve or a Refuse, a return is a Take, the first half of Close is the   *)
(* Close of the store, and everything else is a stutter.                   *)
(***************************************************************************)
storedNow == [s \in Spans |-> IF closing = "open" THEN cache[s] ELSE "none"]
answerNow == [t \in Clients |-> answerOf(t)]

\* The clients of the store are the goroutines of the readers.
LEMMA ClientFacts ==
    /\ Clients \subseteq Threads
    /\ \A t \in Clients : IsReader(t)
    /\ \A t \in Threads : IsReader(t) => t \in Clients
BY ZenonT(60) DEF Clients, Threads, Callers, IsReader

\* The Commit of addSpanToCache is a Put of the store, or a stutter.
LEMMA CommitIsPut ==
    ASSUME TypeOK, Mutex, StateByPC, DataByPC, "commit" \notin Faults,
           NEW t \in Threads, CommitSpan(t), closing = "open"
    PROVE  Store!Put(span(t), "compressed") \/ Store!Put(span(t), "uncompressed")
<1> DEFINE s == span(t)
<1>1. s \in Spans /\ pc[t] = "commit" /\ mu[s] = t /\ ThreadData(t) /\ SpanData(s)
  BY ThreadFacts, ZenonT(60) DEF CommitSpan, Mutex, Critical, Working, DataByPC
<1>2. \/ state[s] = "requested" /\ cache[s] = "none"
      \/ state[s] = "fetched" /\ cache[s] = "compressed" /\ IsReader(t)
  BY <1>1, ZenonT(60) DEF StateByPC, SpanData
<1>3. \/ cache[s] = "none" /\ buf[t] \in {"compressed", "uncompressed"}
      \/ cache[s] = "compressed" /\ buf[t] = "uncompressed"
  BY <1>1, <1>2, SpanManagerAssumption, ZenonT(60) DEF ThreadData, IsReader, IsFetcher
<1>4. cache' = [cache EXCEPT ![s] = buf[t]] /\ closing' = closing
  BY ZenonT(60) DEF CommitSpan
<1>5. storedNow' = [storedNow EXCEPT ![s] = buf[t]]
  BY <1>1, <1>4, ZenonT(60) DEF storedNow, TypeOK
<1>6. answerNow' = answerNow
  <2>1. \A u \in Clients : answerOf(u)' = answerOf(u)
    BY ClientFacts, ZenonT(60) DEF CommitSpan, Goto, answerOf, TypeOK
  <2>2. QED
    BY <2>1, ZenonT(60) DEF answerNow
<1>7. QED
  BY <1>1, <1>3, <1>4, <1>5, <1>6, ZenonT(30) DEF Store!Put, storedNow, answerNow

\* The last step of a reader's goroutine serves or refuses its span.
LEMMA EndIsAnswer ==
    ASSUME TypeOK, DataByPC, NEW t \in Threads, IsReader(t),
           pc[t] # "done", pc'[t] = "done", ThreadData(t)' \/ closing # "open",
           \A u \in Threads \ {t} : pc'[u] = pc[u] /\ buf'[u] = buf[u],
           UNCHANGED <<cache, closing>>,
           state'[span(t)] = state[span(t)]
    PROVE  Store!Serve(t) \/ Store!Refuse(t)
<1>1. t \in Clients /\ span(t) \in Spans /\ span(t) = t[2]
  BY ClientFacts, ThreadFacts, ZenonT(60) DEF span
<1>2. answerNow[t] = "none"
  BY <1>1, ZenonT(60) DEF answerNow, answerOf
<1>3. answerNow' = [answerNow EXCEPT ![t] = answerOf(t)']
  <2>1. \A u \in Clients \ {t} : answerOf(u)' = answerOf(u)
    BY ClientFacts, ZenonT(60) DEF answerOf
  <2>2. QED
    BY <1>1, <2>1, ZenonT(30) DEF answerNow
<1>4. storedNow' = storedNow /\ (closing = "open")' = (closing = "open")
  BY ZenonT(60) DEF storedNow
<1>5. CASE answerOf(t)' = "error"
  BY <1>1, <1>2, <1>3, <1>4, <1>5, ZenonT(60) DEF Store!Refuse, storedNow, answerNow
<1>6. CASE answerOf(t)' # "error"
  <2>1. answerOf(t)' \in {"data", "wrong"}
    BY <1>6, ZenonT(60) DEF answerOf
  <2>2. closing = "open" => answerOf(t)' = "data" /\ state[span(t)] = "uncompressed"
    BY <1>6, <2>1, ZenonT(60) DEF answerOf, ThreadData, IsReader
  <2>3. closing = "open" => storedNow[t[2]] = "uncompressed"
    BY <1>1, <2>2, ZenonT(60) DEF DataByPC, SpanData, storedNow
  <2>4. QED
    BY <1>1, <1>2, <1>3, <1>4, <2>1, <2>2, <2>3, ZenonT(30) DEF Store!Serve, storedNow, answerNow
<1>7. QED
  BY <1>5, <1>6, ZenonT(60)

\* A step of a goroutine that changes neither the cache nor an answer is
\* invisible to the store.
LEMMA QuietStep ==
    ASSUME TypeOK, UNCHANGED closing,
           \A s \in Spans : cache'[s] = cache[s] \/ closing # "open",
           \A t \in Clients : answerOf(t)' = answerOf(t)
    PROVE  UNCHANGED <<closing = "open", storedNow, answerNow>>
<1>1. answerNow' = answerNow
  BY ZenonT(60) DEF answerNow
<1>2. storedNow' = storedNow
  BY ZenonT(60) DEF storedNow
<1>3. QED
  BY <1>1, <1>2, ZenonT(60)

\* The span manager, whose commits succeed, implements the span store.
THEOREM ImplementsStore ==
    ASSUME "commit" \notin Faults
    PROVE  Spec => StoreSpec
<1>1. Init => Store!Init
  <2> SUFFICES ASSUME Init PROVE Store!Init
    BY ZenonT(60)
  <2>1. storedNow = [s \in Spans |-> "none"]
    BY ZenonT(60) DEF Init, storedNow
  <2>2. answerNow = [t \in Clients |-> "none"]
    BY ClientFacts, ZenonT(60) DEF Init, answerNow, answerOf
  <2>3. QED
    BY <2>1, <2>2, ZenonT(60) DEF Init, Store!Init, storedNow, answerNow
<1>2. ASSUME TypeOK, Outstanding, Mutex, StateByPC, DataByPC, DataByPC', [Next]_vars
      PROVE  Store!Next \/ UNCHANGED <<closing = "open", storedNow, answerNow>>
  <2>1. ASSUME NEW c \in Callers, Call(c)
        PROVE  UNCHANGED <<closing = "open", storedNow, answerNow>>
    <3>1. \A t \in Clients : answerOf(t)' = answerOf(t)
      BY <1>2, <2>1, CallsTouchOnlyIdle, ClientFacts, ZenonT(60) DEF answerOf
    <3>2. QED
      BY <1>2, <2>1, <3>1, CallsTouchOnlyIdle, QuietStep, ZenonT(60)
  <2>2. ASSUME NEW c \in Callers, Return(c)
        PROVE  Store!Next
    <3> DEFINE T == {t \in Clients : t[1] = c}
    <3>1. \A t \in Clients : answerOf(t)' = IF t \in T THEN "none" ELSE answerOf(t)
      BY <1>2, <2>2, ClientFacts, ZenonT(60) DEF Return, answerOf, TypeOK
    <3>2. answerNow' = [t \in Clients |-> IF t \in T THEN "none" ELSE answerNow[t]]
      BY <3>1, ZenonT(60) DEF answerNow
    <3>3. UNCHANGED <<closing, cache>>
      BY <2>2, ZenonT(60) DEF Return, spanVars
    <3>4. Store!Take(T)
      BY <3>2, <3>3, ZenonT(60) DEF Store!Take, answerNow
    <3>5. QED
      BY <3>4, ZenonT(60) DEF Store!Next
  <2>3. ASSUME NEW t \in Threads, Lock(t) \/ Step(t)
        PROVE  Store!Next \/ UNCHANGED <<closing = "open", storedNow, answerNow>>
    <3>1. CASE CommitSpan(t) /\ closing = "open"
      BY <1>2, <3>1, CommitIsPut, ThreadFacts, ZenonT(60) DEF Store!Next
    <3>2. CASE IsReader(t) /\ (Check(t) \/ Unlock(t)) /\ pc'[t] = "done"
      <4>1. UNCHANGED <<state, cache, closing>> /\ pc[t] # "done"
        BY <3>2, ZenonT(60) DEF Check, Unlock, spanVars
      <4>2. ThreadData(t)' \/ closing # "open"
        BY <1>2, <4>1, ZenonT(60) DEF DataByPC
      <4>3. Store!Serve(t) \/ Store!Refuse(t)
        BY <1>2, <2>3, <3>2, <4>1, <4>2, StepsAreLocal, EndIsAnswer, ZenonT(30)
      <4>4. QED
        BY <3>2, <4>3, ClientFacts, ZenonT(60) DEF Store!Next
    <3>3. CASE /\ ~(CommitSpan(t) /\ closing = "open")
               /\ ~(IsReader(t) /\ (Check(t) \/ Unlock(t)) /\ pc'[t] = "done")
      <4>1. UNCHANGED cache \/ closing # "open"
        BY <2>3, <3>3, ZenonT(60) DEF Lock, Step, Check, RecheckSkips, ReadCompressed, Request,
           Download, Uncompress, AddSpan, SetState, Fail, Unlock, spanVars
      <4>2. IsReader(t) => pc[t] # "done" /\ pc'[t] # "done"
        BY <1>2, <2>3, <3>3, ZenonT(60), SMTT(60) DEF TypeOK, Goto, Lock, Step, Check, RecheckSkips,
           ReadCompressed, Request, Download, Uncompress, AddSpan, CommitSpan,
           SetState, Fail, Unlock
      <4>3. \A u \in Clients : answerOf(u)' = answerOf(u)
        <5>1. SUFFICES ASSUME NEW u \in Clients PROVE answerOf(u)' = answerOf(u)
          BY ZenonT(60)
        <5>2. u \in Threads /\ IsReader(u)
          BY ClientFacts, ZenonT(60)
        <5>3. CASE u = t
          BY <4>2, <5>2, <5>3, ZenonT(60) DEF answerOf
        <5>4. CASE u # t
          <6>1. pc'[u] = pc[u] /\ buf'[u] = buf[u]
            BY <1>2, <2>3, <5>2, <5>4, StepsAreLocal, ZenonT(60)
          <6>2. QED
            BY <6>1, ZenonT(60) DEF answerOf
        <5>5. QED
          BY <5>3, <5>4, ZenonT(60)
      <4>4. UNCHANGED closing
        BY <1>2, <2>3, StepsAreLocal, ZenonT(60)
      <4>5. \A s \in Spans : cache'[s] = cache[s] \/ closing # "open"
        BY <4>1, ZenonT(60)
      <4>6. QED
        BY <1>2, <4>3, <4>4, <4>5, QuietStep, ZenonT(60)
    <3>4. QED
      BY <3>1, <3>2, <3>3, ZenonT(60)
  <2>4. CASE CloseZinfo
    <3>1. \A t \in Clients : answerOf(t)' = answerOf(t)
      BY <2>4, ZenonT(60) DEF CloseZinfo, answerOf
    <3>2. answerNow' = answerNow
      BY <3>1, ZenonT(60) DEF answerNow
    <3>3. storedNow' = [s \in Spans |-> "none"]
      BY <2>4, ZenonT(60) DEF CloseZinfo, storedNow
    <3>4. Store!Close
      BY <2>4, <3>2, <3>3, ZenonT(60) DEF CloseZinfo, Store!Close, storedNow, answerNow
    <3>5. QED
      BY <3>4, ZenonT(60) DEF Store!Next
  <2>5. CASE CloseCache
    <3>1. answerNow' = answerNow
      <4>1. \A t \in Clients : answerOf(t)' = answerOf(t)
        BY <2>5, ZenonT(60) DEF CloseCache, answerOf
      <4>2. QED
        BY <4>1, ZenonT(60) DEF answerNow
    <3>2. storedNow' = storedNow /\ (closing = "open")' = (closing = "open")
      BY <2>5, ZenonT(60) DEF CloseCache, storedNow
    <3>3. QED
      BY <3>1, <3>2, ZenonT(60)
  <2>6. CASE UNCHANGED vars
    <3>1. \A t \in Clients : answerOf(t)' = answerOf(t)
      BY <2>6, ZenonT(60) DEF vars, answerOf
    <3>2. QED
      BY <1>2, <2>6, <3>1, QuietStep, ZenonT(60) DEF vars
  <2>7. QED
    BY <1>2, <2>1, <2>2, <2>3, <2>4, <2>5, <2>6, ZenonT(60) DEF Next
<1>3. TypeOK /\ Outstanding /\ Mutex /\ StateByPC /\ DataByPC /\ DataByPC' /\ [Next]_vars
        => [Store!Next]_(Store!vars)
  BY <1>2, ZenonT(60) DEF Store!vars, storedNow, answerNow
<1>4. QED
  BY <1>1, <1>3, Typing, OutstandingInv, MutualExclusion, StateByPCInv, DataByPCInv, PTL
  DEF Spec, StoreSpec, Store!Spec
=============================================================================
