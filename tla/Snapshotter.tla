---------------------------- MODULE Snapshotter ----------------------------
(***************************************************************************)
(* The snapshotter (snapshot/snapshot.go): containerd's snapshots in a     *)
(* database, their directories on disk and the lazy mounts on them.        *)
(*                                                                         *)
(* A write transaction of the database is a lock; directories are created  *)
(* and renamed within it and deleted outside of it.  Calls of several      *)
(* clients, containerd's garbage collector (Cleanup), the shutdown and a   *)
(* crash at any point interleave.                                          *)
(*                                                                         *)
(* The directory of a snapshot is named by its id, the temporary one of a  *)
(* createSnapshot by a negative number.  The filesystem below (fs.Mount,   *)
(* MountLocal, MountParallel, Check, Unmount) is modelled by what it does  *)
(* to the mounts and to its table of layers, and by success or failure.    *)
(* Snapshots have no id-map labels here.                                   *)
(***************************************************************************)
EXTENDS Integers, FiniteSets

CONSTANTS
    Clients,     \* callers of the snapshot API
    Cleaners,    \* containerd's garbage collector, which calls Cleanup
    Keys,        \* keys of active snapshots and views
    Names,       \* names of committed snapshots
    None,
    MaxID,       \* bound on the snapshots created,
    MaxTemps,    \* bound on the temporary directories in use,
    MaxStops,    \* on the times the process ends
    AsyncRemove, \* the settings of asyncRemove to consider,
    Parallel,    \* and of parallel pull
    Faults

Callers == Clients \cup Cleaners
Snapshots == Keys \cup Names
IDs == 1 .. MaxID
Temps == -MaxTemps .. -1
Dirs == IDs \cup Temps
FaultKinds == {"crash", "io", "torn", "usage", "fuse", "umount"}

\* The number of snapshots bounds how many layers are below one (Chain).
ASSUME SnapshotterAssumption ==
    /\ MaxID \in Nat /\ MaxTemps \in Nat /\ MaxStops \in Nat
    /\ IsFiniteSet(Callers) /\ Cardinality(Snapshots) \in Nat
    /\ Clients \cap Cleaners = {} /\ Keys \cap Names = {}
    /\ None \notin Snapshots \cup Callers
    /\ AsyncRemove \subseteq BOOLEAN
    /\ Parallel \subseteq {"off", "on", "fallback"}
    /\ Faults \subseteq FaultKinds

VARIABLES
    config,   \* the settings of the process
    db,       \* the committed content of the database
    seq,      \* its sequence of ids, rolled back with a transaction
    writer,   \* the caller whose write transaction is open
    dirs,     \* directories under snapshots/
    mounted,  \* those with a FUSE mount on their fs directory
    layers,   \* those in the filesystem's table of layers
    up,       \* "running", "restoring" or "down"
    toRestore, stops,
    pc,       \* of a call: its step,
    arg,      \* its arguments,
    new,      \* the directory it has created,
    todo, cur \* the directories it has still to delete, and is deleting

dbVars == <<db, seq>>
diskVars == <<dirs, mounted, layers>>
upVars == <<up, toRestore, stops, config>>
callVars == <<arg, new, todo, cur>>
vars == <<dbVars, writer, diskVars, upVars, pc, callVars>>

Kinds == {"active", "view", "committed"}

\* None stands for no entry of the database.
ASSUME NoneIsNoEntry ==
    None \notin [id : Nat, kind : Kinds, parent : Names \cup {None}, remote : BOOLEAN]

Steps == {"idle", "begin", "create", "commitNew", "mounts", "mount", "fallback",
          "deferred", "local", "parallel", "handOut", "commitRemote", "commitLocal",
          "remove", "scan", "delete", "removeAll", "close", "unmountAll"}
Committed == {n \in Names : db[n] # None}

\* Those with the remote label.
Remote == {n \in Committed : db[n].remote}
ids == {db[k].id : k \in {k \in Snapshots : db[k] # None}}
NoArg == [kind |-> "none", key |-> None, parent |-> None, target |-> None]

Init ==
    /\ config \in [asyncRemove : AsyncRemove, allowInvalid : {FALSE}, parallel : Parallel]
    /\ db = [k \in Snapshots |-> None]
    /\ seq = 0
    /\ writer = None
    /\ dirs = {} /\ mounted = {} /\ layers = {}
    /\ up = "running" /\ toRestore = {} /\ stops = 0
    /\ pc = [c \in Callers |-> "idle"]
    /\ arg = [c \in Callers |-> NoArg]
    /\ new = [c \in Callers |-> 0]
    /\ todo = [c \in Callers |-> {}] /\ cur = [c \in Callers |-> 0]

Goto(c, l) == pc' = [pc EXCEPT ![c] = l]

\* The call is over.
Return(c) ==
    /\ Goto(c, "idle")
    /\ arg' = [arg EXCEPT ![c] = NoArg]
    /\ new' = [new EXCEPT ![c] = 0]
    /\ UNCHANGED <<todo, cur>>

\* No two calls work on one key at a time.
Call(c, o, a) ==
    /\ up = "running"
    /\ pc[c] = "idle"
    /\ \A d \in Callers : a.key = None \/ arg[d].key # a.key
    /\ Goto(c, o)
    /\ arg' = [arg EXCEPT ![c] = a]
    /\ UNCHANGED <<dbVars, writer, diskVars, upVars, new, todo, cur>>

\* Prepare with a target is how containerd asks for a layer of an image,
\* Prepare without one and View how it asks for a container's file system.
CallPrepare(c) ==
    /\ seq < MaxID
    /\ \E k \in Keys, p \in Committed \cup {None}, t \in Names \cup {None} :
          Call(c, "begin", [kind |-> "active", key |-> k, parent |-> p, target |-> t])

CallView(c) ==
    /\ seq < MaxID
    /\ \E k \in Keys, p \in Committed :
          Call(c, "begin", [kind |-> "view", key |-> k, parent |-> p, target |-> None])

CallCommit(c) ==
    \E k \in Keys, t \in Names :
        /\ db[k] # None
        /\ Call(c, "commitLocal", [kind |-> "none", key |-> k, parent |-> None, target |-> t])

CallRemove(c) ==
    \E k \in Snapshots :
        /\ db[k] # None
        /\ Call(c, "remove", [kind |-> "none", key |-> k, parent |-> None, target |-> None])

CallMounts(c) ==
    \E k \in Keys :
        /\ db[k] # None
        /\ Call(c, "mounts", [kind |-> "none", key |-> k, parent |-> k, target |-> None])

CallCleanup(c) == Call(c, "scan", NoArg)

\* The shutdown, here by one of the clients; calls of the others go on.
NoClose == \A c \in Clients : pc[c] \notin {"close", "unmountAll"}
CallClose(c) == stops < MaxStops /\ NoClose /\ Call(c, "close", NoArg)

(***************************************************************************)
(* createSnapshot                                                          *)
(***************************************************************************)
\* os.MkdirTemp takes a name that is not in use.
FreeTemps == Temps \ (dirs \cup UNION {todo[d] \cup {new[d], cur[d]} : d \in Callers})
NextTemp == CHOOSE t \in FreeTemps : TRUE

\* TransactionContext(true) and prepareDirectory.
prepareDirectory(c) ==
    /\ pc[c] = "begin"
    /\ writer = None
    /\ writer' = c
    /\ FreeTemps # {}
    /\ dirs' = dirs \cup {NextTemp}
    /\ new' = [new EXCEPT ![c] = NextTemp]
    /\ Goto(c, "create")
    /\ UNCHANGED <<dbVars, mounted, layers, upVars, arg, todo, cur>>

\* storage.CreateSnapshot refuses a key that exists and a parent that does not.
Creatable(c) ==
    /\ db[arg[c].key] = None
    /\ arg[c].parent # None => db[arg[c].parent] # None /\ db[arg[c].parent].id \in dirs

\* Slip: an error path without the rollback.
Slip_NoRollback(c, S) ==
    /\ todo' = [todo EXCEPT ![c] = S]
    /\ Goto(c, "delete")
    /\ UNCHANGED writer

\* The rollback, after which the deferred function deletes outside of the lock.
Rollback(c, S) ==
    /\ writer' = None
    /\ todo' = [todo EXCEPT ![c] = S]
    /\ Goto(c, "delete")

\* What a createSnapshot that fails deletes: an error of a directory or of
\* CreateSnapshot leaves the temporary one.  A rename that fails, as it does if
\* the new id has a directory, makes it delete that one as well.
leftBehind(c) ==
    {S \in {{new[c]}, {new[c], seq + 1}} :
        IF S = {new[c]} THEN ~Creatable(c) \/ "io" \in Faults
        ELSE Creatable(c) /\ (seq + 1 \in dirs \/ "torn" \in Faults)}

\* CreateSnapshot, the look at the parent, and the rename to the new id.
Rename(c) ==
    /\ pc[c] = "create"
    /\ \/ /\ Creatable(c)
          /\ seq + 1 \notin dirs
          /\ dirs' = (dirs \ {new[c]}) \cup {seq + 1}
          /\ new' = [new EXCEPT ![c] = seq + 1]
          /\ Goto(c, "commitNew")
          /\ UNCHANGED <<writer, todo>>
       \/ /\ \E S \in leftBehind(c) : Rollback(c, S)
          /\ UNCHANGED <<dirs, new>>
    /\ UNCHANGED <<dbVars, mounted, layers, upVars, arg, cur>>

\* A target is mounted lazily unless parallel pull is on or its layer is small
\* (skipRemoteSnapshotPrepare).
afterCreate(c) ==
    IF arg[c].target = None THEN {"mounts"}
    ELSE IF config.parallel = "on" THEN {"fallback"} ELSE {"mount", "fallback"}

\* The commit of the transaction and where the call goes on.
CommitNew(c) ==
    /\ pc[c] = "commitNew"
    /\ \E ok \in {TRUE, "torn" \notin Faults} :
          IF ok
            THEN /\ db' = [db EXCEPT ![arg[c].key] =
                             [id |-> new[c], kind |-> arg[c].kind,
                              parent |-> arg[c].parent, remote |-> FALSE]]
                 /\ seq' = new[c]
                 /\ writer' = None
                 /\ \E next \in afterCreate(c) : Goto(c, next)
                 /\ UNCHANGED todo
            ELSE Rollback(c, {new[c]}) /\ UNCHANGED dbVars
    /\ UNCHANGED <<diskVars, upVars, arg, new, cur>>

(***************************************************************************)
(* Prepare and Mounts                                                      *)
(***************************************************************************)
\* fs.Mount registers the layer before it starts the FUSE server and leaves it
\* registered when that fails.
MountOutcomes == {"ok", "error", "noIndex"} \cup ({"fuse"} \cap Faults)
mount(d, o) ==
    /\ layers' = IF o \in {"ok", "fuse"} THEN layers \cup {d} ELSE layers
    /\ mounted' = IF o = "ok" THEN mounted \cup {d} ELSE mounted

prepareRemoteSnapshot(c) ==
    /\ pc[c] = "mount"
    /\ \E o \in MountOutcomes :
          /\ mount(new[c], o)
          /\ Goto(c, CASE o = "ok" -> "commitRemote"
                       [] o = "noIndex" -> "deferred"
                       [] OTHER -> "fallback")
    /\ UNCHANGED <<dbVars, writer, dirs, upVars, callVars>>

\* The layer and all layers below it.
Chain(k) ==
    LET below[i \in 0 .. Cardinality(Snapshots)] ==
            IF i = 0 THEN {k} \ {None}
            ELSE below[i - 1] \cup
                 ({db[n].parent : n \in {m \in below[i - 1] : db[m] # None}} \ {None})
    IN below[Cardinality(Snapshots)]

\* Slip: only the layer asked for is checked.
Slip_TopOnly(k) ==
    \A n \in {k} \ {None} : db[n] # None /\ (db[n].remote => db[n].id \in layers)

Available(k) ==
    \A n \in Chain(k) : db[n] # None /\ (db[n].remote => db[n].id \in layers)

\* For a remote layer fs.Check also asks the registry, which may be out of reach.
checkAvailability(k) == {Available(k)} \cup {FALSE : n \in Chain(k) \cap Remote}

useParallel(c) == config.parallel = "on" \/ (config.parallel = "fallback" /\ pc[c] = "deferred")

\* Without a lazy mount the snapshotter unpacks the layer itself or, if there
\* is no index and parallel pull is off, returns the mounts to containerd.
Fallback(c) ==
    /\ pc[c] \in {"fallback", "deferred"}
    /\ \E available \in checkAvailability(arg[c].parent) :
          IF available
            THEN /\ Goto(c, IF useParallel(c) THEN "parallel"
                            ELSE IF pc[c] = "deferred" THEN "handOut" ELSE "local")
                 /\ UNCHANGED callVars
            ELSE Return(c)
    /\ UNCHANGED <<dbVars, writer, diskVars, upVars>>

\* MountLocal and MountParallel; after an error of the latter Prepare fails.
prepareLocalSnapshot(c) ==
    /\ pc[c] \in {"local", "parallel"}
    /\ \/ Goto(c, "commitLocal") /\ UNCHANGED callVars
       \/ pc[c] = "local" /\ Goto(c, "handOut") /\ UNCHANGED callVars
       \/ pc[c] = "parallel" /\ Return(c)
    /\ UNCHANGED <<dbVars, writer, diskVars, upVars>>

mounts(c) ==
    /\ pc[c] = "mounts"
    /\ \E available \in checkAvailability(arg[c].parent) :
          IF available
            THEN Goto(c, "handOut") /\ UNCHANGED callVars
            ELSE Return(c)
    /\ UNCHANGED <<dbVars, writer, diskVars, upVars>>

HandOut(c) ==
    /\ pc[c] = "handOut"
    /\ Return(c)
    /\ UNCHANGED <<dbVars, writer, diskVars, upVars>>

(***************************************************************************)
(* commit and Remove, each one write transaction                           *)
(***************************************************************************)
\* CommitActive refuses a name that exists, which counts as success in Prepare.
Committable(c) ==
    /\ db[arg[c].key] # None
    /\ db[arg[c].key].kind = "active"
    /\ db[arg[c].target] = None

\* An error of DiskUsage, which a cancelled call gets, leaves commit without a
\* rollback: the err it sets is not the one the deferred function looks at.
usageFails(c) ==
    pc[c] = "commitLocal" /\ db[arg[c].key] # None /\ "usage" \in Faults

commit(c) ==
    /\ pc[c] \in {"commitRemote", "commitLocal"}
    /\ writer = None
    /\ \E cancelled \in {FALSE, usageFails(c)} :
          /\ db' = IF cancelled \/ ~Committable(c) THEN db
                   ELSE [db EXCEPT ![arg[c].key] = None,
                                   ![arg[c].target] =
                                       [db[arg[c].key] EXCEPT
                                           !.kind = "committed",
                                           !.remote = pc[c] = "commitRemote"]]
          /\ writer' = IF cancelled THEN c ELSE None
    /\ Return(c)
    /\ UNCHANGED <<seq, diskVars, upVars>>

Removable(k) == db[k] # None /\ \A n \in Snapshots : db[n] # None => db[n].parent # k

\* Slip: only directories that an id names are looked at.
Slip_OnlyIDs(used) == {d \in dirs : d > 0} \ used

\* getCleanupDirectories: what is on disk and not in the database.
Cleanable(used) == dirs \ used

Remove(c) ==
    /\ pc[c] = "remove"
    /\ writer = None
    /\ IF Removable(arg[c].key)
         THEN /\ db' = [db EXCEPT ![arg[c].key] = None]
              /\ IF config.asyncRemove
                   THEN Return(c)
                   ELSE /\ todo' = [todo EXCEPT ![c] = Cleanable(ids \ {db[arg[c].key].id})]
                        /\ Goto(c, "delete")
                        /\ UNCHANGED <<arg, new, cur>>
         ELSE Return(c) /\ UNCHANGED db
    /\ UNCHANGED <<seq, writer, diskVars, upVars>>

(***************************************************************************)
(* Cleanup, and the deletion of directories, without a transaction         *)
(***************************************************************************)
\* Slip: the scan is done in a read transaction.
Slip_ReadTransaction(c) ==
    /\ pc[c] = "scan"
    /\ todo' = [todo EXCEPT ![c] = Cleanable(ids)]
    /\ Goto(c, "delete")
    /\ UNCHANGED <<dbVars, writer, diskVars, upVars, arg, new, cur>>

cleanupDirectories(c) ==
    /\ pc[c] = "scan"
    /\ writer = None
    /\ todo' = [todo EXCEPT ![c] = Cleanable(ids)]
    /\ Goto(c, "delete")
    /\ UNCHANGED <<dbVars, writer, diskVars, upVars, arg, new, cur>>

\* unmountSnapshotDirectory; fs.Unmount drops the layer before it unmounts and
\* knows nothing of a mount that is not in its table.
unmountDirectory(d, ok) ==
    IF d \notin mounted
      THEN ok /\ UNCHANGED <<mounted, layers>>
      ELSE /\ ok = (d \in layers) \/ ("umount" \in Faults /\ ~ok)
           /\ layers' = layers \ {d}
           /\ mounted' = IF ok THEN mounted \ {d} ELSE mounted

unmountSnapshotDirectory(c) ==
    /\ pc[c] = "delete"
    /\ \E d \in todo[c], ok \in BOOLEAN :
          /\ unmountDirectory(d, ok)
          /\ todo' = [todo EXCEPT ![c] = @ \ {d}]
          /\ IF ok
               THEN cur' = [cur EXCEPT ![c] = d] /\ Goto(c, "removeAll")
               ELSE UNCHANGED <<cur, pc>>
    /\ UNCHANGED <<dbVars, writer, dirs, upVars, arg, new>>

\* RemoveAll, which a mount stops.
RemoveAll(c) ==
    /\ pc[c] = "removeAll"
    /\ dirs' = dirs \ ({cur[c]} \ mounted)
    /\ cur' = [cur EXCEPT ![c] = 0]
    /\ Goto(c, "delete")
    /\ UNCHANGED <<dbVars, writer, mounted, layers, upVars, arg, new, todo>>

Deleted(c) ==
    /\ pc[c] = "delete"
    /\ todo[c] = {}
    /\ Return(c)
    /\ UNCHANGED <<dbVars, writer, diskVars, upVars>>

(***************************************************************************)
(* The process ends, by Close or by a crash, and starts again.             *)
(***************************************************************************)
Stop ==
    /\ up' = "down"
    /\ stops' = stops + 1
    /\ writer' = None
    /\ layers' = {}
    /\ pc' = [c \in Callers |-> "idle"]
    /\ arg' = [c \in Callers |-> NoArg]
    /\ new' = [c \in Callers |-> 0]
    /\ todo' = [c \in Callers |-> {}] /\ cur' = [c \in Callers |-> 0]

\* unmountAllSnapshots lists every directory, those in the database included.
unmountAllSnapshots(c) ==
    /\ pc[c] = "close"
    /\ writer = None
    /\ todo' = [todo EXCEPT ![c] = dirs]
    /\ Goto(c, "unmountAll")
    /\ UNCHANGED <<dbVars, writer, diskVars, upVars, arg, new, cur>>

CloseUnmount(c) ==
    /\ pc[c] = "unmountAll"
    /\ \E d \in todo[c], ok \in BOOLEAN :
          /\ unmountDirectory(d, ok)
          /\ todo' = [todo EXCEPT ![c] = @ \ {d}]
    /\ UNCHANGED <<dbVars, writer, dirs, upVars, pc, arg, new, cur>>

\* The database closes once no transaction is open, and the process ends.
Close(c) ==
    /\ pc[c] = "unmountAll"
    /\ todo[c] = {}
    /\ writer = None
    /\ \A d \in Callers : pc[d] \notin {"mount", "local", "parallel"}
    /\ Stop
    /\ UNCHANGED <<dbVars, dirs, mounted, toRestore, config>>

\* A crash between the rename and the commit of createSnapshot leaves a
\* directory whose id is not taken.
Crash ==
    /\ "crash" \in Faults
    /\ stops < MaxStops
    /\ up # "down"
    /\ "torn" \in Faults \/ \A c \in Callers : pc[c] # "commitNew"
    /\ Stop
    /\ toRestore' = {}
    /\ UNCHANGED <<dbVars, dirs, mounted, config>>

\* NewSnapshotter takes the settings anew, and restoreRemoteSnapshot unmounts
\* what is left of the last process ...
Restart ==
    /\ up = "down"
    /\ mounted' = {}
    /\ toRestore' = Remote
    /\ up' = "restoring"
    /\ \E allow \in BOOLEAN : config' = [config EXCEPT !.allowInvalid = allow]
    /\ UNCHANGED <<dbVars, writer, dirs, layers, stops, pc, callVars>>

\* Slip: no failure ends the restore.
Slip_Continue(o) == TRUE

Continues(o) == o = "ok" \/ config.allowInvalid

\* ... and mounts the remote snapshots again.  One that fails ends the process,
\* unless invalid mounts are allowed.
restoreRemoteSnapshot(n) ==
    /\ up = "restoring"
    /\ n \in toRestore
    /\ dirs' = dirs \cup {db[n].id}
    /\ \E o \in MountOutcomes :
          IF Continues(o)
            THEN /\ mount(db[n].id, o)
                 /\ toRestore' = toRestore \ {n}
                 /\ UNCHANGED up
            ELSE /\ up' = "down"
                 /\ layers' = {} /\ toRestore' = {}
                 /\ UNCHANGED mounted
    /\ UNCHANGED <<dbVars, writer, stops, config, pc, callVars>>

Restored ==
    /\ up = "restoring"
    /\ toRestore = {}
    /\ up' = "running"
    /\ UNCHANGED <<dbVars, writer, diskVars, toRestore, stops, config, pc, callVars>>

ClientCall(c) ==
    \/ CallPrepare(c) \/ CallView(c) \/ CallCommit(c) \/ CallRemove(c) \/ CallMounts(c)

Step(c) ==
    \/ prepareDirectory(c) \/ Rename(c) \/ CommitNew(c) \/ prepareRemoteSnapshot(c)
    \/ Fallback(c) \/ prepareLocalSnapshot(c) \/ mounts(c) \/ HandOut(c)
    \/ commit(c) \/ Remove(c) \/ cleanupDirectories(c)
    \/ unmountSnapshotDirectory(c) \/ RemoveAll(c) \/ Deleted(c)
    \/ unmountAllSnapshots(c) \/ CloseUnmount(c) \/ Close(c)

Next ==
    \/ \E c \in Clients : ClientCall(c)
    \/ \E c \in Cleaners : CallCleanup(c)
    \/ \E c \in Clients : CallClose(c)
    \/ \E c \in Callers : Step(c)
    \/ Crash
    \/ Restart
    \/ \E n \in Names : restoreRemoteSnapshot(n)
    \/ Restored

Spec == Init /\ [][Next]_vars

FairSpec ==
    /\ Spec
    /\ \A c \in Callers : SF_vars(Step(c))
    /\ \A c \in Cleaners : WF_vars(CallCleanup(c))
    /\ WF_vars(Restart) /\ WF_vars(Restored)
    /\ \A n \in Names : WF_vars(restoreRemoteSnapshot(n))

-----------------------------------------------------------------------------
TypeOK ==
    /\ db \in [Snapshots -> [id : Nat, kind : Kinds, parent : Names \cup {None},
                             remote : BOOLEAN] \cup {None}]
    /\ seq \in Nat
    /\ writer \in Callers \cup {None}
    /\ dirs \subseteq Int /\ mounted \subseteq Int /\ layers \subseteq Int
    /\ up \in {"running", "restoring", "down"}
    /\ toRestore \subseteq Names
    /\ stops \in 0 .. MaxStops
    /\ config \in [asyncRemove : BOOLEAN, allowInvalid : BOOLEAN,
                   parallel : {"off", "on", "fallback"}]
    /\ pc \in [Callers -> Steps]
    /\ arg \in [Callers -> [kind : {"none", "active", "view"}, key : Snapshots \cup {None},
                            parent : Snapshots \cup {None}, target : Names \cup {None}]]
    /\ todo \in [Callers -> SUBSET Int]
    /\ new \in [Callers -> Int] /\ cur \in [Callers -> Int]

\* Every snapshot in the database has its directory: nothing that Cleanup,
\* Remove or a failed createSnapshot deletes without the lock is in use.
SnapshotsHaveDirectories == ids \subseteq dirs

\* While the process runs, every remote snapshot is mounted, after a restart
\* too, unless the configuration allows invalid mounts.
RemoteSnapshotsAreMounted ==
    up = "running" /\ NoClose /\ ~config.allowInvalid =>
        \A n \in Remote : db[n].id \in mounted

\* Mounts are handed out only if every lazy layer below is mounted.
MountsAreServed ==
    [][\A c \in Clients : pc[c] # "handOut" /\ pc'[c] = "handOut" /\ NoClose =>
          \A n \in Chain(arg[c].parent) \cap Remote : db[n].id \in mounted]_vars

\* Every directory that no snapshot owns is deleted in the end, but for one whose
\* unmount has failed: fs.Unmount forgets the layer first (fs.go:1313) and refuses
\* the next attempt, so that what is mounted without a layer stays there, until
\* the restart.
OrphansAreDeleted ==
    \A d \in Dirs :
        (d \in dirs /\ d \notin ids) ~>
            (d \notin dirs \/ d \in ids \/ up # "running" \/ d \in mounted \ layers)

\* What Cleanup removes is no snapshot's directory, however long ago it made its
\* list of the abandoned ones.
CleanupSparesSnapshots ==
    [][\A c \in Cleaners : RemoveAll(c) => cur[c] \notin ids]_vars

\* A Remove that has begun ends, with the snapshot gone or an error.
RemovesEnd == \A c \in Clients : pc[c] = "remove" ~> pc[c] # "remove"

\* Every call returns.
CallsReturn == \A c \in Callers : pc[c] # "idle" ~> pc[c] = "idle"
=============================================================================
