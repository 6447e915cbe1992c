--------------------------- MODULE NamedMutexProofs ---------------------------
(***************************************************************************)
(* Proofs about the mutex per name, for any goroutines, names and mutexes. *)
(*                                                                         *)
(* LocksAreExclusive is not inductive: it holds because two users of one   *)
(* name found the same mutex in the map, and they did because the map      *)
(* forgets a mutex only when its last user leaves.  NamesAreCounted says   *)
(* so and, with the types, is preserved by every step.                     *)
(***************************************************************************)
EXTENDS NamedMutex, FiniteSetTheorems, TLAPS

\* The users of a name are finitely many, so that they can be counted.
LEMMA UsersAreFinite ==
    ASSUME NEW n
    PROVE  IsFiniteSet(Users(n)) /\ Cardinality(Users(n)) \in Nat
<1>1. Users(n) \in SUBSET Actors
  BY ZenonT(60) DEF Users
<1>2. IsFiniteSet(Users(n))
  BY <1>1, NamedMutexAssumption, FS_Subset, ZenonT(60)
<1>3. QED
  BY <1>2, FS_CardinalityType, ZenonT(60)

\* The inductive invariant.
Inv == LockTypeOK /\ NamesAreCounted

\* A goroutine that calls Lock becomes a user of the name, and of no other.
LEMMA LockNameStep ==
    ASSUME Inv, NEW a \in Actors, NEW n \in Names, LockName(a, n)
    PROVE  Inv'
<1>1. PICK mu \in Mutexes :
         /\ muMap[n] # NoMutex => mu = muMap[n]
         /\ lpc[a] = "out"
         /\ muMap' = [muMap EXCEPT ![n] = mu]
         /\ refMap' = [refMap EXCEPT ![n] = @ + 1]
         /\ lpc' = [lpc EXCEPT ![a] = "wait"]
         /\ lname' = [lname EXCEPT ![a] = n]
         /\ lmu' = [lmu EXCEPT ![a] = mu]
         /\ holder' = holder
  BY ZenonT(60) DEF LockName, NewMutexes, Inv, LockTypeOK
<1>2. LockTypeOK'
  BY <1>1, SMTT(60), Z3T(60) DEF Inv, LockTypeOK
<1>3. Users(n)' = Users(n) \cup {a} /\ a \notin Users(n)
  BY <1>1, ZenonT(60) DEF Users, Inv, LockTypeOK
<1>4. \A m \in Names : m # n => Users(m)' = Users(m)
  BY <1>1, ZenonT(60) DEF Users, Inv, LockTypeOK
<1>5. \A m \in Names : refMap'[m] = Cardinality(Users(m)')
  <2>1. refMap'[n] = Cardinality(Users(n)')
    <3>1. Cardinality(Users(n)') = Cardinality(Users(n)) + 1
      BY <1>3, UsersAreFinite, FS_AddElement, ZenonT(60)
    <3>2. refMap[n] = Cardinality(Users(n))
      BY ZenonT(60) DEF Inv, NamesAreCounted
    <3>3. QED
      BY <1>1, <3>1, <3>2, ZenonT(60) DEF Inv, LockTypeOK
  <2>2. \A m \in Names : m # n => refMap'[m] = refMap[m]
    BY <1>1, ZenonT(60) DEF Inv, LockTypeOK
  <2>3. QED
    BY <1>4, <2>1, <2>2, ZenonT(60) DEF Inv, NamesAreCounted
<1>6. \A m \in Names : muMap'[m] = NoMutex <=> Users(m)' = {}
  BY <1>1, <1>3, <1>4, NamedMutexAssumption, ZenonT(60) DEF Inv, LockTypeOK, NamesAreCounted
<1>7. \A b \in Actors : lpc'[b] \in {"wait", "in"} =>
         lname'[b] \in Names /\ lmu'[b] = muMap'[lname'[b]]
  <2>1. SUFFICES ASSUME NEW b \in Actors, lpc'[b] \in {"wait", "in"}
        PROVE  lname'[b] \in Names /\ lmu'[b] = muMap'[lname'[b]]
    BY ZenonT(60)
  <2>2. CASE b = a
    BY <1>1, <2>2, ZenonT(60) DEF Inv, LockTypeOK
  <2>3. CASE b # a
    <3>1. lpc[b] \in {"wait", "in"} /\ lname'[b] = lname[b] /\ lmu'[b] = lmu[b]
      BY <1>1, <2>1, <2>3, ZenonT(60) DEF Inv, LockTypeOK
    <3>2. lname[b] \in Names /\ lmu[b] = muMap[lname[b]] /\ b \in Users(lname[b])
      BY <3>1, ZenonT(60) DEF Inv, NamesAreCounted, Users
    <3>3. muMap[lname[b]] # NoMutex
      BY <3>2, ZenonT(60) DEF Inv, NamesAreCounted
    <3>4. QED
      BY <1>1, <3>1, <3>2, <3>3, ZenonT(60) DEF Inv, LockTypeOK
  <2>4. QED
    BY <2>2, <2>3, ZenonT(60)
<1>8. \A b \in Actors : lpc'[b] \in {"in", "leave"} =>
         lmu'[b] \in Mutexes /\ holder'[lmu'[b]] = b
  BY <1>1, ZenonT(60) DEF Inv, LockTypeOK, NamesAreCounted
<1>9. QED
  BY <1>2, <1>5, <1>6, <1>7, <1>8, ZenonT(60) DEF Inv, NamesAreCounted, Users

\* mu.Lock makes its caller the holder; whoever else is past mu.Lock holds
\* another mutex, since this one was free.
LEMMA LockMutexStep ==
    ASSUME Inv, NEW a \in Actors, LockMutex(a)
    PROVE  Inv'
<1>1. /\ lpc[a] = "wait" /\ holder[lmu[a]] = NoActor
      /\ holder' = [holder EXCEPT ![lmu[a]] = a]
      /\ lpc' = [lpc EXCEPT ![a] = "in"]
      /\ muMap' = muMap /\ refMap' = refMap /\ lname' = lname /\ lmu' = lmu
  BY ZenonT(60) DEF LockMutex
<1>2. lname[a] \in Names /\ lmu[a] = muMap[lname[a]] /\ a \in Users(lname[a])
  BY <1>1, ZenonT(60) DEF Inv, NamesAreCounted, Users
<1>3. lmu[a] \in Mutexes
  BY <1>2, SMTT(60), Z3T(60) DEF Inv, NamesAreCounted, LockTypeOK
<1>4. LockTypeOK'
  BY <1>1, ZenonT(60) DEF Inv, LockTypeOK
<1>5. \A m \in Names : Users(m)' = Users(m)
  BY <1>1, ZenonT(60) DEF Users, Inv, LockTypeOK
<1>6. \A b \in Actors : lpc'[b] \in {"in", "leave"} =>
         lmu'[b] \in Mutexes /\ holder'[lmu'[b]] = b
  BY <1>1, <1>3, NamedMutexAssumption, SMTT(60), Z3T(60) DEF Inv, LockTypeOK, NamesAreCounted
<1>7. \A b \in Actors : lpc'[b] \in {"wait", "in"} => lpc[b] \in {"wait", "in"}
  BY <1>1, ZenonT(60) DEF Inv, LockTypeOK
<1>8. QED
  BY <1>1, <1>4, <1>5, <1>6, <1>7, SMTT(60), Z3T(60) DEF Inv, NamesAreCounted, Users

\* The last user of a name, and no other, takes the mutex out of the map.
LEMMA UnlockNameStep ==
    ASSUME Inv, NEW a \in Actors, UnlockName(a)
    PROVE  Inv'
<1>1. PICK n \in Names : n = lname[a] /\ lmu[a] = muMap[n] /\ a \in Users(n)
  BY ZenonT(60) DEF UnlockName, Inv, NamesAreCounted, Users
<1>2. /\ lpc[a] = "in"
      /\ refMap' = [refMap EXCEPT ![n] = @ - 1]
      /\ muMap' = IF refMap[n] - 1 <= 0 THEN [muMap EXCEPT ![n] = NoMutex] ELSE muMap
      /\ lpc' = [lpc EXCEPT ![a] = "leave"]
      /\ holder' = holder /\ lname' = lname /\ lmu' = lmu
  BY <1>1, ZenonT(60) DEF UnlockName
<1>3. Users(n)' = Users(n) \ {a}
  BY <1>1, <1>2, ZenonT(60) DEF Users, Inv, LockTypeOK
<1>4. \A m \in Names : m # n => Users(m)' = Users(m)
  BY <1>1, <1>2, ZenonT(60) DEF Users, Inv, LockTypeOK
<1>5. Cardinality(Users(n)') = refMap[n] - 1 /\ IsFiniteSet(Users(n)')
  <2>1. refMap[n] = Cardinality(Users(n))
    BY ZenonT(60) DEF Inv, NamesAreCounted
  <2>2. QED
    BY <1>1, <1>3, <2>1, UsersAreFinite, FS_RemoveElement, SMTT(60), Z3T(60)
<1>6. refMap[n] - 1 \in Nat
  BY <1>5, FS_CardinalityType, ZenonT(60)
<1>7. LockTypeOK'
  BY <1>1, <1>2, <1>6, ZenonT(60) DEF Inv, LockTypeOK
<1>8. \A m \in Names : refMap'[m] = Cardinality(Users(m)')
  BY <1>1, <1>2, <1>4, <1>5, SMTT(60), Z3T(60) DEF Inv, LockTypeOK, NamesAreCounted
<1>9. refMap[n] - 1 <= 0 <=> Users(n)' = {}
  BY <1>5, <1>6, FS_EmptySet, SMTT(60), Z3T(60)
<1>10. \A m \in Names : muMap'[m] = NoMutex <=> Users(m)' = {}
  <2>1. muMap[n] # NoMutex
    BY <1>1, ZenonT(60) DEF Inv, NamesAreCounted
  <2>2. muMap'[n] = NoMutex <=> Users(n)' = {}
    BY <1>1, <1>2, <1>9, <2>1, ZenonT(60) DEF Inv, LockTypeOK
  <2>3. \A m \in Names : m # n => muMap'[m] = muMap[m]
    BY <1>1, <1>2, ZenonT(60) DEF Inv, LockTypeOK
  <2>4. QED
    BY <1>4, <2>2, <2>3, SMTT(60), Z3T(60) DEF Inv, NamesAreCounted
<1>11. \A b \in Actors : lpc'[b] \in {"wait", "in"} =>
          lname'[b] \in Names /\ lmu'[b] = muMap'[lname'[b]]
  <2>1. SUFFICES ASSUME NEW b \in Actors, lpc'[b] \in {"wait", "in"}
        PROVE  lname'[b] \in Names /\ lmu'[b] = muMap'[lname'[b]]
    BY ZenonT(60)
  <2>2. b # a /\ lpc[b] \in {"wait", "in"}
    BY <1>1, <1>2, <2>1, ZenonT(60) DEF Inv, LockTypeOK
  <2>3. lname[b] \in Names /\ lmu[b] = muMap[lname[b]] /\ b \in Users(lname[b])
    BY <2>2, ZenonT(60) DEF Inv, NamesAreCounted, Users
  <2>4. muMap'[lname[b]] = muMap[lname[b]]
    <3>1. CASE lname[b] = n
      <4>1. Users(n)' # {}
        BY <1>3, <2>2, <2>3, <3>1, ZenonT(60)
      <4>2. QED
        BY <1>1, <1>2, <1>9, <4>1, ZenonT(60)
    <3>2. CASE lname[b] # n
      BY <1>1, <1>2, <2>3, <3>2, ZenonT(60) DEF Inv, LockTypeOK
    <3>3. QED
      BY <3>1, <3>2, ZenonT(60)
  <2>5. QED
    BY <1>1, <1>2, <2>3, <2>4, ZenonT(60)
<1>12. \A b \in Actors : lpc'[b] \in {"in", "leave"} =>
          lmu'[b] \in Mutexes /\ holder'[lmu'[b]] = b
  BY <1>1, <1>2, ZenonT(60) DEF Inv, LockTypeOK, NamesAreCounted
<1>13. QED
  BY <1>7, <1>8, <1>10, <1>11, <1>12, ZenonT(60) DEF Inv, NamesAreCounted, Users

\* mu.Unlock frees the mutex of its caller: no other goroutine holds it.
LEMMA UnlockMutexStep ==
    ASSUME Inv, NEW a \in Actors, UnlockMutex(a)
    PROVE  Inv'
<1>1. /\ lpc[a] = "leave"
      /\ holder' = [holder EXCEPT ![lmu[a]] = NoActor]
      /\ lpc' = [lpc EXCEPT ![a] = "out"]
      /\ lname' = [lname EXCEPT ![a] = NoName]
      /\ lmu' = [lmu EXCEPT ![a] = NoMutex]
      /\ muMap' = muMap /\ refMap' = refMap
  BY ZenonT(60) DEF UnlockMutex
<1>2. LockTypeOK'
  BY <1>1, ZenonT(60) DEF Inv, LockTypeOK
<1>3. \A m \in Names : Users(m)' = Users(m)
  BY <1>1, ZenonT(60) DEF Users, Inv, LockTypeOK
<1>4. \A b \in Actors : lpc'[b] \in {"wait", "in"} =>
         lname'[b] \in Names /\ lmu'[b] = muMap'[lname'[b]]
  BY <1>1, ZenonT(60) DEF Inv, LockTypeOK, NamesAreCounted
<1>5. \A b \in Actors : lpc'[b] \in {"in", "leave"} =>
         lmu'[b] \in Mutexes /\ holder'[lmu'[b]] = b
  BY <1>1, NamedMutexAssumption, ZenonT(60) DEF Inv, LockTypeOK, NamesAreCounted
<1>6. QED
  BY <1>1, <1>2, <1>3, <1>4, <1>5, SMTT(60), Z3T(60) DEF Inv, NamesAreCounted, Users

\* The types and the accounting of namedmutex.go are preserved by every step.
THEOREM InvHolds == LockSpec => []Inv
<1>1. LockInit => Inv
  <2>1. SUFFICES ASSUME LockInit PROVE Inv
    BY ZenonT(60)
  <2>2. \A n \in Names : Users(n) = {}
    BY <2>1, ZenonT(60) DEF LockInit, Users
  <2>3. \A n \in Names : refMap[n] = Cardinality(Users(n))
    BY <2>1, <2>2, FS_EmptySet, ZenonT(60) DEF LockInit
  <2>4. QED
    BY <2>1, <2>2, <2>3, ZenonT(60) DEF LockInit, Inv, LockTypeOK, NamesAreCounted
<1>2. Inv /\ [LockNext]_lockVars => Inv'
  <2>1. SUFFICES ASSUME Inv, [LockNext]_lockVars PROVE Inv'
    BY ZenonT(60)
  <2>2. CASE LockNext
    BY <2>1, <2>2, LockNameStep, LockMutexStep, UnlockNameStep, UnlockMutexStep, ZenonT(60) DEF LockNext
  <2>3. CASE UNCHANGED lockVars
    BY <2>1, <2>3, SMTT(60), Z3T(60) DEF lockVars, Inv, LockTypeOK, NamesAreCounted, Users
  <2>4. QED
    BY <2>1, <2>2, <2>3, ZenonT(60)
<1>3. QED
  BY <1>1, <1>2, PTL DEF LockSpec

\* The maps of NamedMutex and the locals of its callers have their types: in
\* particular no count falls below zero.
THEOREM LockTyping == LockSpec => []LockTypeOK
<1>1. Inv => LockTypeOK
  BY ZenonT(60) DEF Inv
<1>2. QED
  BY <1>1, InvHolds, PTL

\* The map counts the users of each name and keeps their mutex as long as there
\* is one, through every interleaving of the two sections of Lock and Unlock.
THEOREM NamesCounted == LockSpec => []NamesAreCounted
<1>1. Inv => NamesAreCounted
  BY ZenonT(60) DEF Inv
<1>2. QED
  BY <1>1, InvHolds, PTL

\* Two owners of one name would hold the same mutex.
LEMMA OneOwner == Inv => LocksAreExclusive
<1>1. SUFFICES ASSUME Inv, NEW a \in Actors, NEW b \in Actors,
                      lpc[a] = "in", lpc[b] = "in", lname[a] = lname[b]
      PROVE  a = b
  BY ZenonT(60) DEF LocksAreExclusive
<1>2. lmu[a] = lmu[b] /\ holder[lmu[a]] = a /\ holder[lmu[b]] = b
  BY <1>1, SMTT(60), Z3T(60) DEF Inv, NamesAreCounted
<1>3. QED
  BY <1>2, ZenonT(60)

\* At most one goroutine is between Lock and Unlock of a name.
THEOREM Exclusion == LockSpec => []LocksAreExclusive
  BY OneOwner, InvHolds, PTL

\* Owner is what its name says.
OwnersAreIn ==
    \A n \in Names :
        /\ \A a \in Actors : lpc[a] = "in" /\ lname[a] = n => Owner[n] = a
        /\ (\A a \in Actors : ~(lpc[a] = "in" /\ lname[a] = n)) => Owner[n] = NoActor

\* Who owns a name is well defined: the goroutine that is in, if there is one.
LEMMA OwnerIs == Inv => OwnersAreIn
<1>1. SUFFICES ASSUME Inv, NEW n \in Names
      PROVE  /\ \A a \in Actors : lpc[a] = "in" /\ lname[a] = n => Owner[n] = a
             /\ (\A a \in Actors : ~(lpc[a] = "in" /\ lname[a] = n)) => Owner[n] = NoActor
  BY ZenonT(60) DEF OwnersAreIn
<1>2. CASE \E a \in Actors : lpc[a] = "in" /\ lname[a] = n
  <2>1. Owner[n] = CHOOSE a \in Actors : lpc[a] = "in" /\ lname[a] = n
    BY <1>2, ZenonT(60) DEF Owner
  <2>2. Owner[n] \in Actors /\ lpc[Owner[n]] = "in" /\ lname[Owner[n]] = n
    BY <1>2, <2>1, ZenonT(60)
  <2>3. \A a \in Actors : lpc[a] = "in" /\ lname[a] = n => Owner[n] = a
    BY <1>1, <2>2, OneOwner, ZenonT(60) DEF LocksAreExclusive
  <2>4. QED
    BY <1>2, <2>3, ZenonT(60)
<1>3. CASE ~ \E a \in Actors : lpc[a] = "in" /\ lname[a] = n
  BY <1>3, ZenonT(60) DEF Owner
<1>4. QED
  BY <1>2, <1>3, ZenonT(60)

\* NamedMutex implements a lock per name: Lock and Unlock take effect as one
\* step each, when mu.Lock returns and when the name's count is taken back.
THEOREM ImplementsLock == LockSpec => ImplementsNameLock
<1>1. LockInit => Abstract!NameLockInit
  <2>1. SUFFICES ASSUME LockInit PROVE Owner = [n \in Names |-> NoActor]
    BY ZenonT(60) DEF Abstract!NameLockInit
  <2>2. \A a \in Actors : lpc[a] # "in"
    BY <2>1, ZenonT(60) DEF LockInit
  <2>3. QED
    BY <2>2, ZenonT(60) DEF Owner
<1>2. Inv' => OwnersAreIn' /\ LocksAreExclusive'
  BY OwnerIs, OneOwner, PTL
<1>3. ASSUME Inv, Inv', [LockNext]_lockVars
      PROVE  Abstract!NameLockNext \/ UNCHANGED Owner
  <2>1. OwnersAreIn /\ OwnersAreIn' /\ LocksAreExclusive'
    BY <1>2, <1>3, OwnerIs, ZenonT(60)
  <2>2. Owner = [n \in Names |-> Owner[n]] /\ Owner' = [n \in Names |-> Owner'[n]]
    BY ZenonT(60) DEF Owner
  <2>3. ASSUME NEW m \in Names,
               \A b \in Actors : lpc'[b] = "in" /\ lname'[b] = m <=> lpc[b] = "in" /\ lname[b] = m
        PROVE  Owner'[m] = Owner[m]
    <3>1. CASE \E b \in Actors : lpc[b] = "in" /\ lname[b] = m
      <4>1. PICK b \in Actors : lpc[b] = "in" /\ lname[b] = m
        BY <3>1, ZenonT(60)
      <4>2. lpc'[b] = "in" /\ lname'[b] = m
        BY <2>3, <4>1, ZenonT(60)
      <4>3. Owner[m] = b /\ Owner'[m] = b
        BY <2>1, <4>1, <4>2, ZenonT(60) DEF OwnersAreIn
      <4>4. QED
        BY <4>3, ZenonT(60)
    <3>2. CASE ~ \E b \in Actors : lpc[b] = "in" /\ lname[b] = m
      <4>1. Owner[m] = NoActor
        BY <2>1, <3>2, ZenonT(60) DEF OwnersAreIn
      <4>2. \A b \in Actors : ~(lpc'[b] = "in" /\ lname'[b] = m)
        BY <2>3, <3>2, ZenonT(60)
      <4>3. Owner'[m] = NoActor
        BY <2>1, <4>2, ZenonT(60) DEF OwnersAreIn
      <4>4. QED
        BY <4>1, <4>3, ZenonT(60)
    <3>3. QED
      BY <3>1, <3>2, ZenonT(60)
  <2>4. ASSUME NEW a \in Actors, LockMutex(a)
        PROVE  Abstract!NameLockNext
    <3>1. PICK n \in Names : n = lname[a]
      BY <1>3, <2>4, ZenonT(60) DEF LockMutex, Inv, NamesAreCounted
    <3>2. lpc' = [lpc EXCEPT ![a] = "in"] /\ lname' = lname /\ lpc[a] = "wait"
      BY <2>4, ZenonT(60) DEF LockMutex
    <3>3. /\ lpc'[a] = "in" /\ lname'[a] = n
          /\ \A b \in Actors : b # a => lpc'[b] = lpc[b] /\ lname'[b] = lname[b]
      BY <1>3, <3>1, <3>2, ZenonT(60) DEF Inv, LockTypeOK
    <3>4. Owner'[n] = a
      BY <2>1, <3>3, ZenonT(60) DEF OwnersAreIn
    <3>5. \A b \in Actors : ~(lpc[b] = "in" /\ lname[b] = n)
      BY <2>1, <3>1, <3>2, <3>3, ZenonT(60) DEF LocksAreExclusive
    <3>6. Owner[n] = NoActor
      BY <2>1, <3>5, ZenonT(60) DEF OwnersAreIn
    <3>7. \A m \in Names : m # n => Owner'[m] = Owner[m]
      BY <2>3, <3>1, <3>2, <3>3, ZenonT(60)
    <3>8. Owner' = [Owner EXCEPT ![n] = a]
      BY <2>2, <3>4, <3>7, ZenonT(60)
    <3>9. QED
      BY <3>6, <3>8, ZenonT(60) DEF Abstract!NameLockNext, Abstract!Acquire
  <2>5. ASSUME NEW a \in Actors, UnlockName(a)
        PROVE  Abstract!NameLockNext
    <3>1. PICK n \in Names : n = lname[a]
      BY <1>3, <2>5, ZenonT(60) DEF UnlockName, Inv, NamesAreCounted
    <3>2. lpc' = [lpc EXCEPT ![a] = "leave"] /\ lname' = lname /\ lpc[a] = "in"
      BY <2>5, ZenonT(60) DEF UnlockName
    <3>3. /\ lpc'[a] # "in"
          /\ \A b \in Actors : b # a => lpc'[b] = lpc[b] /\ lname'[b] = lname[b]
      BY <1>3, <3>1, <3>2, ZenonT(60) DEF Inv, LockTypeOK
    <3>4. Owner[n] = a
      BY <2>1, <3>1, <3>2, ZenonT(60) DEF OwnersAreIn
    <3>5. \A b \in Actors : ~(lpc'[b] = "in" /\ lname'[b] = n)
      BY <1>3, <3>1, <3>2, <3>3, OneOwner, ZenonT(60) DEF LocksAreExclusive
    <3>6. Owner'[n] = NoActor
      BY <2>1, <3>5, ZenonT(60) DEF OwnersAreIn
    <3>7. \A m \in Names : m # n => Owner'[m] = Owner[m]
      BY <2>3, <3>1, <3>2, <3>3, ZenonT(60)
    <3>8. Owner' = [Owner EXCEPT ![n] = NoActor]
      BY <2>2, <3>6, <3>7, ZenonT(60)
    <3>9. QED
      BY <3>4, <3>8, ZenonT(60) DEF Abstract!NameLockNext, Abstract!Release
  <2>6. ASSUME NEW a \in Actors, UnlockMutex(a) \/ \E n \in Names : LockName(a, n)
        PROVE  UNCHANGED Owner
    <3>1. /\ lpc[a] # "in"
          /\ lpc' \in {[lpc EXCEPT ![a] = "out"], [lpc EXCEPT ![a] = "wait"]}
          /\ \E n : lname' = [lname EXCEPT ![a] = n]
      BY <2>6, ZenonT(60) DEF UnlockMutex, LockName
    <3>2. \A b \in Actors : /\ lpc'[b] = "in" <=> lpc[b] = "in"
                            /\ lpc[b] = "in" => lname'[b] = lname[b]
      BY <1>3, <3>1, ZenonT(60) DEF Inv, LockTypeOK
    <3>3. QED
      BY <2>2, <2>3, <3>2, ZenonT(60)
  <2>7. CASE UNCHANGED lockVars
    BY <2>7, ZenonT(60) DEF lockVars, Owner
  <2>8. QED
    BY <1>3, <2>4, <2>5, <2>6, <2>7, ZenonT(60) DEF LockNext
<1>4. QED
  BY <1>1, <1>3, InvHolds, PTL DEF LockSpec, ImplementsNameLock, Abstract!NameLockSpec
=============================================================================
