------------------------------ MODULE NameLock ------------------------------
(***************************************************************************)
(* What a lock per name promises: at most one owner of a name at a time.   *)
(* Resolver.Resolve (LazyMounts) is specified with it; NamedMutex is shown *)
(* to implement it.                                                        *)
(***************************************************************************)
CONSTANTS Actors, Names, NoActor

VARIABLE owner

NameLockInit == owner = [n \in Names |-> NoActor]

Acquire(a, n) ==
    /\ owner[n] = NoActor
    /\ owner' = [owner EXCEPT ![n] = a]

Release(a, n) ==
    /\ owner[n] = a
    /\ owner' = [owner EXCEPT ![n] = NoActor]

NameLockNext == \E a \in Actors, n \in Names : Acquire(a, n) \/ Release(a, n)

NameLockSpec == NameLockInit /\ [][NameLockNext]_owner
=============================================================================
