----------------------------- MODULE NamedMutex -----------------------------
(***************************************************************************)
(* The mutex per name (util/namedmutex/namedmutex.go) that lets one        *)
(* Resolve of a layer run at a time.                                       *)
(*                                                                         *)
(* Lock and Unlock are two steps each: a section under nl.mu that finds,   *)
(* makes or forgets the mutex of the name, and the operation on that mutex *)
(* itself, which is outside the section.  A mutex that was forgotten may   *)
(* still be locked when another one is made for the same name.             *)
(***************************************************************************)
EXTENDS Integers, FiniteSets

CONSTANTS
    Actors,   \* the goroutines
    Names,
    Mutexes,  \* the addresses a sync.Mutex may have
    NoActor, NoName, NoMutex

ASSUME NamedMutexAssumption ==
    /\ IsFiniteSet(Actors)
    /\ NoActor \notin Actors
    /\ NoName \notin Names
    /\ NoMutex \notin Mutexes

VARIABLES
    muMap,
    refMap,
    holder,  \* who has locked a mutex
    lpc,     \* where an actor stands: "out", "wait", "in", "leave"
    lname,   \* the name an actor locks
    lmu      \* the mutex it found under that name

lockVars == <<muMap, refMap, holder, lpc, lname, lmu>>

LockInit ==
    /\ muMap = [n \in Names |-> NoMutex]
    /\ refMap = [n \in Names |-> 0]
    /\ holder = [x \in Mutexes |-> NoActor]
    /\ lpc = [a \in Actors |-> "out"]
    /\ lname = [a \in Actors |-> NoName]
    /\ lmu = [a \in Actors |-> NoMutex]

\* The mutexes that nobody can reach: the allocator returns one of them.
NewMutexes ==
    {x \in Mutexes : /\ \A n \in Names : muMap[n] # x
                     /\ \A a \in Actors : lmu[a] # x}

\* Lock(name), under nl.mu.
LockName(a, n) ==
    \E mu \in IF muMap[n] = NoMutex THEN NewMutexes ELSE {muMap[n]} :
        /\ lpc[a] = "out"
        /\ muMap' = [muMap EXCEPT ![n] = mu]
        /\ refMap' = [refMap EXCEPT ![n] = @ + 1]
        /\ lpc' = [lpc EXCEPT ![a] = "wait"]
        /\ lname' = [lname EXCEPT ![a] = n]
        /\ lmu' = [lmu EXCEPT ![a] = mu]
        /\ UNCHANGED holder

Slip_EntersLocked(a) ==
    /\ lpc[a] = "wait"
    /\ holder' = [holder EXCEPT ![lmu[a]] = a]
    /\ lpc' = [lpc EXCEPT ![a] = "in"]
    /\ UNCHANGED <<muMap, refMap, lname, lmu>>

\* Lock(name), mu.Lock().
LockMutex(a) ==
    /\ lpc[a] = "wait"
    /\ holder[lmu[a]] = NoActor
    /\ holder' = [holder EXCEPT ![lmu[a]] = a]
    /\ lpc' = [lpc EXCEPT ![a] = "in"]
    /\ UNCHANGED <<muMap, refMap, lname, lmu>>

\* Unlock(name), under nl.mu.
UnlockName(a) ==
    LET n == lname[a]
    IN  /\ lpc[a] = "in"
        /\ refMap' = [refMap EXCEPT ![n] = @ - 1]
        /\ muMap' = IF refMap[n] - 1 <= 0
                      THEN [muMap EXCEPT ![n] = NoMutex] ELSE muMap
        /\ lpc' = [lpc EXCEPT ![a] = "leave"]
        /\ UNCHANGED <<holder, lname, lmu>>

Slip_LeftLocked(a) ==
    /\ lpc[a] = "leave"
    /\ lpc' = [lpc EXCEPT ![a] = "out"]
    /\ lname' = [lname EXCEPT ![a] = NoName]
    /\ lmu' = [lmu EXCEPT ![a] = NoMutex]
    /\ UNCHANGED <<muMap, refMap, holder>>

\* Unlock(name), mu.Unlock().
UnlockMutex(a) ==
    /\ lpc[a] = "leave"
    /\ holder' = [holder EXCEPT ![lmu[a]] = NoActor]
    /\ lpc' = [lpc EXCEPT ![a] = "out"]
    /\ lname' = [lname EXCEPT ![a] = NoName]
    /\ lmu' = [lmu EXCEPT ![a] = NoMutex]
    /\ UNCHANGED <<muMap, refMap>>

LockNext ==
    \E a \in Actors :
        \/ \E n \in Names : LockName(a, n)
        \/ LockMutex(a)
        \/ UnlockName(a)
        \/ UnlockMutex(a)

LockSpec == LockInit /\ [][LockNext]_lockVars

\* Whoever is between Lock and Unlock leaves, and sync.Mutex hands a mutex
\* that is unlocked again and again to each of its waiters.
LockFairSpec ==
    /\ LockSpec
    /\ \A a \in Actors : /\ SF_lockVars(LockMutex(a))
                          /\ WF_lockVars(UnlockName(a) \/ UnlockMutex(a))

-----------------------------------------------------------------------------
LockTypeOK ==
    /\ muMap \in [Names -> Mutexes \union {NoMutex}]
    /\ refMap \in [Names -> Nat]
    /\ holder \in [Mutexes -> Actors \union {NoActor}]
    /\ lpc \in [Actors -> {"out", "wait", "in", "leave"}]
    /\ lname \in [Actors -> Names \union {NoName}]
    /\ lmu \in [Actors -> Mutexes \union {NoMutex}]

\* Who is between Lock and Unlock of a name.
Owner ==
    [n \in Names |->
        IF \E a \in Actors : lpc[a] = "in" /\ lname[a] = n
        THEN CHOOSE a \in Actors : lpc[a] = "in" /\ lname[a] = n
        ELSE NoActor]

Abstract == INSTANCE NameLock WITH owner <- Owner

(* Lock and Unlock implement a lock per name: nobody gets past Lock of a   *)
(* name while another goroutine is between Lock and Unlock of it, although *)
(* the mutexes of a name come and go.                                      *)
ImplementsNameLock == Abstract!NameLockSpec

(* Two goroutines between Lock and Unlock have locked different names.     *)
LocksAreExclusive ==
    \A a, b \in Actors :
        (a # b /\ lpc[a] = "in" /\ lpc[b] = "in") => lname[a] # lname[b]

(* Whoever asks for the lock of a name gets it: no mutex is left locked,   *)
(* and nobody waits for one that was forgotten.                            *)
WaitersGetIn == \A a \in Actors : lpc[a] = "wait" ~> lpc[a] = "in"

Users(n) == {a \in Actors : lpc[a] \in {"wait", "in"} /\ lname[a] = n}

(* What makes LocksAreExclusive inductive: the map counts the users of a   *)
(* name, has a mutex for a name exactly while it is used, and all users of *)
(* the name use that mutex; whoever is past mu.Lock holds its mutex.       *)
NamesAreCounted ==
    /\ \A n \in Names : refMap[n] = Cardinality(Users(n))
    /\ \A n \in Names : muMap[n] = NoMutex <=> Users(n) = {}
    /\ \A a \in Actors :
          lpc[a] \in {"wait", "in"} =>
              lname[a] \in Names /\ lmu[a] = muMap[lname[a]]
    /\ \A a \in Actors : lpc[a] \in {"in", "leave"} =>
              lmu[a] \in Mutexes /\ holder[lmu[a]] = a
=============================================================================
