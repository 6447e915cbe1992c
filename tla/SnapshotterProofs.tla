------------------------- MODULE SnapshotterProofs -------------------------
(***************************************************************************)
(* Proofs about Snapshotter, for any clients, keys, names and bounds.      *)
(***************************************************************************)
EXTENDS Snapshotter, TLAPS

Entries == [id : Nat, kind : Kinds, parent : Names \cup {None}, remote : BOOLEAN]
Args == [kind : {"none", "active", "view"}, key : Snapshots \cup {None},
         parent : Snapshots \cup {None}, target : Names \cup {None}]
Configs == [asyncRemove : BOOLEAN, allowInvalid : BOOLEAN,
            parallel : {"off", "on", "fallback"}]

\* The parts of TypeOK, which actions change one by one.
DbTypes == db \in [Snapshots -> Entries \cup {None}] /\ seq \in Nat /\ writer \in Callers \cup {None}
DiskTypes == dirs \subseteq Int /\ mounted \subseteq Int /\ layers \subseteq Int
UpTypes ==
    /\ up \in {"running", "restoring", "down"} /\ toRestore \subseteq Names
    /\ stops \in 0 .. MaxStops /\ config \in Configs
CallTypes ==
    /\ pc \in [Callers -> Steps] /\ arg \in [Callers -> Args]
    /\ todo \in [Callers -> SUBSET Int]
    /\ new \in [Callers -> Int] /\ cur \in [Callers -> Int]

\* What a call's arguments are at the steps that use them.
LayerSteps == {"mount", "fallback", "deferred", "local", "parallel",
               "commitRemote", "commitLocal"}
ArgsFit(c) ==
    /\ pc[c] \in {"begin", "create", "commitNew"} =>
         /\ arg[c].kind \in {"active", "view"} /\ arg[c].key \in Keys
         /\ arg[c].parent \in Names \cup {None}
    /\ pc[c] \in LayerSteps => arg[c].key \in Keys /\ arg[c].target \in Names
    /\ pc[c] = "remove" => arg[c].key \in Snapshots
    /\ pc[c] \in {"close", "unmountAll"} => stops < MaxStops

\* A createSnapshot holds the write transaction from its temporary directory to
\* its commit, so that the id it has taken is the next one all the while.
CreatorIsWriter(c) ==
    /\ pc[c] \in {"create", "commitNew"} => writer = c
    /\ pc[c] = "commitNew" => new[c] = seq + 1

CallsFit == \A c \in Callers : ArgsFit(c) /\ CreatorIsWriter(c)

\* There are no calls unless the process runs, and the snapshots to restore are
\* remote ones of the database.
RestoresFirst ==
    /\ up # "running" => \A c \in Callers : pc[c] = "idle"
    /\ up = "restoring" => toRestore \subseteq Remote

Shape == DbTypes /\ DiskTypes /\ UpTypes /\ CallTypes /\ CallsFit /\ RestoresFirst

\* The step is one of this call.
Only(c) == \A d \in Callers \ {c} : UNCHANGED <<pc[d], arg[d], new[d], todo[d], cur[d]>>

\* No createSnapshot of another call meets a change of the database.
OthersWait(c) ==
    \A d \in Callers \ {c} : pc[d] \in {"create", "commitNew"} => UNCHANGED <<seq, writer>>

\* The parts make up TypeOK.
LEMMA ShapeIsTyped == Shape => TypeOK
  BY ZenonT(60) DEF Shape, DbTypes, DiskTypes, UpTypes, CallTypes, TypeOK, Entries, Args, Configs

\* A call without arguments has well-formed ones.
LEMMA NoArgIsArg == NoArg \in Args
  BY ZenonT(60) DEF NoArg, Args

\* The program starts in that shape.
LEMMA InitShape == Init => Shape
  <1> SUFFICES ASSUME Init PROVE Shape
    BY ZenonT(60)
  <1> USE SnapshotterAssumption
  <1>1. UpTypes
    <2>1. config \in Configs
      BY ZenonT(60) DEF Init, Configs
    <2> QED
      BY <2>1, SMTT(60), Z3T(60) DEF Init, UpTypes
  <1>2. DbTypes
    BY ZenonT(60) DEF Init, DbTypes
  <1>3. DiskTypes
    BY ZenonT(60) DEF Init, DiskTypes
  <1>4. CallTypes /\ \A c \in Callers : pc[c] = "idle"
    BY NoArgIsArg, SMTT(60), Z3T(60) DEF Init, CallTypes, Steps
  <1>5. CallsFit
    BY <1>4, ZenonT(60) DEF CallsFit, ArgsFit, CreatorIsWriter, LayerSteps
  <1>6. RestoresFirst
    BY ZenonT(60) DEF Init, RestoresFirst
  <1> QED
    BY <1>1, <1>2, <1>3, <1>4, <1>5, <1>6, ZenonT(60) DEF Shape

\* What is left to show for the step of one call.
LEMMA OneCall ==
  ASSUME Shape, NEW c \in Callers, up = "running", UNCHANGED upVars, Only(c), OthersWait(c),
         DbTypes', DiskTypes', CallTypes', ArgsFit(c)', CreatorIsWriter(c)'
  PROVE Shape'
  <1>1. ASSUME NEW d \in Callers \ {c} PROVE ArgsFit(d)' /\ CreatorIsWriter(d)'
    <2>1. UNCHANGED <<pc[d], arg[d], new[d], stops>> /\ ArgsFit(d) /\ CreatorIsWriter(d)
      BY ZenonT(60) DEF Only, Shape, CallsFit, upVars
    <2>2. pc[d] \in {"create", "commitNew"} => UNCHANGED <<seq, writer>>
      BY ZenonT(60) DEF OthersWait
    <2>3. ArgsFit(d)'
      BY <2>1, ZenonT(60) DEF ArgsFit
    <2>4. CreatorIsWriter(d)'
      BY <2>1, <2>2, ZenonT(60) DEF CreatorIsWriter
    <2> QED
      BY <2>3, <2>4, ZenonT(60)
  <1>2. CallsFit'
    BY <1>1, ZenonT(60) DEF CallsFit
  <1>3. UpTypes' /\ RestoresFirst'
    BY ZenonT(60) DEF Shape, UpTypes, RestoresFirst, upVars
  <1> QED
    BY <1>2, <1>3, ZenonT(60) DEF Shape

\* A call begins with arguments that fit.
LEMMA CallShape ==
  ASSUME Shape, NEW c \in Callers, NEW o \in Steps \ {"create", "commitNew"}, NEW a \in Args,
         Call(c, o, a),
         o = "begin" => a.kind # "none" /\ a.key \in Keys /\ a.parent \in Names \cup {None},
         o \in LayerSteps => a.key \in Keys /\ a.target \in Names,
         o = "remove" => a.key \in Snapshots,
         o \in {"close", "unmountAll"} => stops < MaxStops
  PROVE Shape'
  <1>1. /\ up = "running" /\ pc' = [pc EXCEPT ![c] = o] /\ arg' = [arg EXCEPT ![c] = a]
        /\ UNCHANGED <<dbVars, writer, diskVars, upVars, new, todo, cur>>
    BY ZenonT(60) DEF Call, Goto
  <1>2. CallTypes' /\ Only(c) /\ OthersWait(c) /\ pc'[c] = o /\ arg'[c] = a
    BY <1>1, ZenonT(60) DEF Shape, CallTypes, Only, OthersWait, dbVars
  <1>3. ArgsFit(c)'
    BY <1>1, <1>2, ZenonT(60) DEF ArgsFit, Args, upVars
  <1>4. CreatorIsWriter(c)'
    BY <1>2, ZenonT(60) DEF CreatorIsWriter
  <1>5. DbTypes' /\ DiskTypes'
    BY <1>1, ZenonT(60) DEF Shape, DbTypes, DiskTypes, dbVars, diskVars
  <1> QED
    BY <1>1, <1>2, <1>3, <1>4, <1>5, OneCall, ZenonT(60)

\* A call returns, or goes on with the arguments it has.
LEMMA GoOnShape ==
  ASSUME Shape, NEW c \in Callers, pc[c] # "idle", UNCHANGED upVars, OthersWait(c),
         DbTypes', DiskTypes',
         \/ Return(c)
         \/ \E l \in Steps \ {"begin", "create", "commitNew", "remove", "close", "unmountAll"} :
               /\ Goto(c, l) /\ UNCHANGED callVars
               /\ l \in LayerSteps => arg[c].key \in Keys /\ arg[c].target \in Names
  PROVE Shape'
  <1>1. up = "running"
    BY ZenonT(60) DEF Shape, RestoresFirst
  <1>2. CASE Return(c)
    <2>1. CallTypes' /\ Only(c) /\ pc'[c] = "idle"
      BY <1>2, NoArgIsArg, SMTT(60), Z3T(60) DEF Return, Goto, Shape, CallTypes, Only, Steps
    <2>2. ArgsFit(c)' /\ CreatorIsWriter(c)'
      BY <2>1, ZenonT(60) DEF ArgsFit, CreatorIsWriter, LayerSteps
    <2> QED
      BY <1>1, <2>1, <2>2, OneCall, ZenonT(60)
  <1>3. ASSUME NEW l \in Steps \ {"begin", "create", "commitNew", "remove", "close", "unmountAll"},
               Goto(c, l), UNCHANGED callVars,
               l \in LayerSteps => arg[c].key \in Keys /\ arg[c].target \in Names
        PROVE Shape'
    <2>1. CallTypes' /\ Only(c) /\ pc'[c] = l /\ arg' = arg
      BY <1>3, ZenonT(60) DEF Goto, Shape, CallTypes, Only, callVars
    <2>2. ArgsFit(c)' /\ CreatorIsWriter(c)'
      BY <1>3, <2>1, ZenonT(60) DEF ArgsFit, CreatorIsWriter
    <2> QED
      BY <1>1, <2>1, <2>2, OneCall, ZenonT(60)
  <1> QED
    BY <1>2, <1>3, ZenonT(60)

\* The temporary directory of a createSnapshot has no id's name.
LEMMA FreshTemp ==
  ASSUME FreeTemps # {} PROVE NextTemp \in Temps /\ NextTemp \in Int /\ NextTemp < 0
  <1>1. NextTemp \in FreeTemps
    BY ZenonT(60) DEF NextTemp
  <1>2. NextTemp \in Temps
    BY <1>1, ZenonT(60) DEF FreeTemps
  <1> QED
    BY <1>2, SMTT(60), Z3T(60) DEF Temps

\* The steps of createSnapshot keep the shape.
LEMMA CreateShape ==
  ASSUME Shape, NEW c \in Callers, prepareDirectory(c) \/ Rename(c) \/ CommitNew(c)
  PROVE Shape'
  <1>1. up = "running" /\ UNCHANGED upVars
    BY ZenonT(60) DEF prepareDirectory, Rename, CommitNew, Shape, RestoresFirst
  <1>2. CASE prepareDirectory(c)
    <2>1. NextTemp \in Temps /\ NextTemp \in Int
      BY <1>2, FreshTemp, ZenonT(60) DEF prepareDirectory
    <2>2. /\ pc[c] = "begin" /\ writer = None /\ writer' = c /\ dirs' = dirs \cup {NextTemp}
          /\ pc' = [pc EXCEPT ![c] = "create"] /\ new' = [new EXCEPT ![c] = NextTemp]
          /\ UNCHANGED <<db, seq, mounted, layers, arg, todo, cur, stops>>
      BY <1>1, <1>2, ZenonT(60) DEF prepareDirectory, Goto, dbVars, upVars
    <2>3. DbTypes' /\ DiskTypes'
      BY <2>1, <2>2, ZenonT(60) DEF Shape, DbTypes, DiskTypes
    <2>4. CallTypes' /\ Only(c) /\ pc'[c] = "create"
      BY <2>1, <2>2, ZenonT(60) DEF Shape, CallTypes, Only, Steps
    <2>5. OthersWait(c)
      BY <2>2, SnapshotterAssumption, ZenonT(60) DEF OthersWait, Shape, CallsFit, CreatorIsWriter
    <2>6. ArgsFit(c)' /\ CreatorIsWriter(c)'
      BY <2>2, <2>4, ZenonT(60) DEF Shape, CallsFit, ArgsFit, CreatorIsWriter, LayerSteps
    <2> QED
      BY <1>1, <2>3, <2>4, <2>5, <2>6, OneCall, ZenonT(60)
  <1>3. CASE Rename(c)
    <2>1. pc[c] = "create" /\ writer = c /\ UNCHANGED <<db, seq, mounted, layers, arg, cur, stops>>
      BY <1>1, <1>3, ZenonT(60) DEF Rename, dbVars, upVars, Shape, CallsFit, CreatorIsWriter
    <2>2. OthersWait(c)
      BY <2>1, ZenonT(60) DEF OthersWait, Shape, CallsFit, CreatorIsWriter
    <2>3. new[c] \in Int /\ seq + 1 \in Nat
      BY SMTT(60), Z3T(60) DEF Shape, CallTypes, DbTypes
    <2>4. CASE /\ dirs' = (dirs \ {new[c]}) \cup {seq + 1}
               /\ new' = [new EXCEPT ![c] = seq + 1]
               /\ pc' = [pc EXCEPT ![c] = "commitNew"]
               /\ UNCHANGED <<writer, todo>>
      <3>1. DbTypes' /\ DiskTypes'
        <4>1. seq + 1 \in Int
          BY <2>3, SMTT(60), Z3T(60)
        <4>2. DiskTypes'
          BY <2>1, <2>4, <4>1, ZenonT(60) DEF Shape, DiskTypes
        <4> QED
          BY <2>1, <2>4, <4>2, ZenonT(60) DEF Shape, DbTypes
      <3>2. CallTypes' /\ Only(c) /\ pc'[c] = "commitNew" /\ new'[c] = seq + 1
        BY <2>1, <2>3, <2>4, SMTT(60), Z3T(60) DEF Shape, CallTypes, Only, Steps
      <3>3. ArgsFit(c)' /\ CreatorIsWriter(c)'
        BY <2>1, <2>4, <3>2, ZenonT(60) DEF Shape, CallsFit, ArgsFit, CreatorIsWriter, LayerSteps
      <3> QED
        BY <1>1, <2>2, <3>1, <3>2, <3>3, OneCall, ZenonT(60)
    <2>5. ASSUME NEW S \in SUBSET Int, Rollback(c, S), UNCHANGED <<dirs, new>>
          PROVE Shape'
      <3>1. DbTypes' /\ DiskTypes'
        BY <2>1, <2>5, ZenonT(60) DEF Rollback, Shape, DbTypes, DiskTypes
      <3>2. CallTypes' /\ Only(c) /\ pc'[c] = "delete"
        BY <2>1, <2>5, ZenonT(60) DEF Rollback, Goto, Shape, CallTypes, Only, Steps
      <3>3. ArgsFit(c)' /\ CreatorIsWriter(c)'
        BY <3>2, ZenonT(60) DEF ArgsFit, CreatorIsWriter, LayerSteps
      <3> QED
        BY <1>1, <2>2, <3>1, <3>2, <3>3, OneCall, ZenonT(60)
    <2>6. \A S \in leftBehind(c) : S \in SUBSET Int
      BY <2>3, SMTT(60), Z3T(60) DEF leftBehind
    <2> QED
      BY <1>3, <2>4, <2>5, <2>6, ZenonT(60) DEF Rename, Goto
  <1>4. CASE CommitNew(c)
    <2>1. /\ pc[c] = "commitNew" /\ writer = c /\ new[c] = seq + 1
          /\ UNCHANGED <<dirs, mounted, layers, arg, new, cur, stops>>
      BY <1>1, <1>4, ZenonT(60) DEF CommitNew, diskVars, upVars, Shape, CallsFit, CreatorIsWriter
    <2>2. OthersWait(c)
      BY <2>1, ZenonT(60) DEF OthersWait, Shape, CallsFit, CreatorIsWriter
    <2>3. DiskTypes' /\ new[c] \in Nat
      BY <2>1, SMTT(60), Z3T(60) DEF Shape, DiskTypes, DbTypes
    <2> DEFINE e == [id |-> new[c], kind |-> arg[c].kind, parent |-> arg[c].parent, remote |-> FALSE]
    <2>4. CASE /\ db' = [db EXCEPT ![arg[c].key] = e]
               /\ seq' = new[c] /\ writer' = None /\ todo' = todo
               /\ \E l \in afterCreate(c) : Goto(c, l)
      <3>1. e \in Entries
        BY <2>1, <2>3, ZenonT(60) DEF Shape, CallsFit, ArgsFit, Entries, Kinds
      <3> HIDE DEF e
      <3>2. DbTypes'
        <4>1. db' \in [Snapshots -> Entries \cup {None}]
          BY <2>4, <3>1, ZenonT(60) DEF Shape, DbTypes
        <4> QED
          BY <2>3, <2>4, <4>1, ZenonT(60) DEF Shape, DbTypes
      <3>3. PICK l \in afterCreate(c) : Goto(c, l)
        BY <2>4, ZenonT(60)
      <3>4. /\ l \in {"mounts", "fallback", "mount"}
            /\ l # "mounts" => arg[c].target \in Names
        BY <3>3, ZenonT(60) DEF afterCreate, Shape, CallTypes, Args
      <3>5. CallTypes' /\ Only(c) /\ pc'[c] = l
        BY <2>1, <2>4, <3>3, <3>4, ZenonT(60) DEF Goto, Shape, CallTypes, Only, Steps
      <3>6. ArgsFit(c)' /\ CreatorIsWriter(c)'
        BY <2>1, <3>4, <3>5, ZenonT(60) DEF Shape, CallsFit, ArgsFit, CreatorIsWriter, LayerSteps
      <3> QED
        BY <1>1, <2>2, <2>3, <3>2, <3>5, <3>6, OneCall, ZenonT(60)
    <2>5. CASE Rollback(c, {new[c]}) /\ UNCHANGED dbVars
      <3>1. DbTypes'
        BY <2>5, ZenonT(60) DEF Rollback, dbVars, Shape, DbTypes
      <3>2. CallTypes' /\ Only(c) /\ pc'[c] = "delete"
        BY <2>1, <2>3, <2>5, ZenonT(60) DEF Rollback, Goto, Shape, CallTypes, Only, Steps
      <3>3. ArgsFit(c)' /\ CreatorIsWriter(c)'
        BY <3>2, ZenonT(60) DEF ArgsFit, CreatorIsWriter, LayerSteps
      <3> QED
        BY <1>1, <2>2, <2>3, <3>1, <3>2, <3>3, OneCall, ZenonT(60)
    <2> QED
      BY <1>4, <2>4, <2>5, ZenonT(60) DEF CommitNew
  <1> QED
    BY <1>2, <1>3, <1>4, ZenonT(60)

\* So do commit and Remove, which change the database,
LEMMA UpdateShape ==
  ASSUME Shape, NEW c \in Callers, commit(c) \/ Remove(c)
  PROVE Shape'
  <1>1. /\ up = "running" /\ pc[c] # "idle" /\ writer = None
        /\ UNCHANGED <<seq, upVars, diskVars>>
    BY ZenonT(60) DEF commit, Remove, Shape, RestoresFirst
  <1>2. DiskTypes'
    BY <1>1, ZenonT(60) DEF Shape, DiskTypes, diskVars
  <1>3. OthersWait(c)
    BY <1>1, SnapshotterAssumption, ZenonT(60) DEF OthersWait, Shape, CallsFit, CreatorIsWriter
  <1>4. CASE commit(c)
    <2>1. Return(c) /\ writer' \in {c, None} /\ pc[c] \in LayerSteps
      BY <1>4, ZenonT(60) DEF commit, LayerSteps
    <2> DEFINE k == arg[c].key
               e == [db[k] EXCEPT !.kind = "committed", !.remote = (pc[c] = "commitRemote")]
    <2>2. \/ db' = db
          \/ db[k] # None /\ db' = [db EXCEPT ![k] = None, ![arg[c].target] = e]
      BY <1>4, ZenonT(60) DEF commit, Committable
    <2>3. k \in Snapshots
      BY <2>1, ZenonT(60) DEF Shape, CallsFit, ArgsFit, Snapshots
    <2>4. db[k] # None => e \in Entries
      <3>1. db[k] # None => db[k] \in Entries
        BY <2>3, ZenonT(60) DEF Shape, DbTypes
      <3> QED
        BY <3>1, ZenonT(30) DEF Entries, Kinds
    <2> HIDE DEF k, e
    <2>5. db' \in [Snapshots -> Entries \cup {None}]
      BY <2>2, <2>4, ZenonT(60) DEF Shape, DbTypes
    <2>6. DbTypes'
      BY <1>1, <2>1, <2>5, ZenonT(60) DEF Shape, DbTypes
    <2> QED
      BY <1>1, <1>2, <1>3, <2>1, <2>6, GoOnShape, ZenonT(60)
  <1>5. CASE Remove(c)
    <2>1. writer' = None /\ (db' = db \/ db' = [db EXCEPT ![arg[c].key] = None])
      BY <1>1, <1>5, ZenonT(60) DEF Remove
    <2>2. DbTypes'
      <3>1. db' \in [Snapshots -> Entries \cup {None}]
        BY <2>1, ZenonT(60) DEF Shape, DbTypes
      <3> QED
        BY <1>1, <2>1, <3>1, ZenonT(60) DEF Shape, DbTypes
    <2>3. CASE Return(c)
      BY <1>1, <1>2, <1>3, <2>2, <2>3, GoOnShape, ZenonT(60)
    <2>4. ASSUME NEW S, S \subseteq dirs, todo' = [todo EXCEPT ![c] = S],
                 Goto(c, "delete"), UNCHANGED <<arg, new, cur>>
          PROVE Shape'
      <3>1. S \in SUBSET Int
        BY <2>4, ZenonT(60) DEF Shape, DiskTypes
      <3>2. CallTypes' /\ Only(c) /\ pc'[c] = "delete"
        BY <2>4, <3>1, ZenonT(60) DEF Goto, Shape, CallTypes, Only, Steps
      <3>3. ArgsFit(c)' /\ CreatorIsWriter(c)'
        BY <3>2, ZenonT(60) DEF ArgsFit, CreatorIsWriter, LayerSteps
      <3> QED
        BY <1>1, <1>2, <1>3, <2>2, <3>2, <3>3, OneCall, ZenonT(60)
    <2> QED
      BY <1>5, <2>3, <2>4, ZenonT(60) DEF Remove, Cleanable
  <1> QED
    BY <1>4, <1>5, ZenonT(60)

\* and the scans and deletions of directories.
LEMMA DeleteShape ==
  ASSUME Shape, NEW c \in Callers,
         \/ cleanupDirectories(c) \/ unmountAllSnapshots(c) \/ unmountSnapshotDirectory(c)
         \/ CloseUnmount(c) \/ RemoveAll(c)
  PROVE Shape'
  <1>1. up = "running" /\ UNCHANGED <<db, seq, writer, upVars, arg, new>>
    BY ZenonT(60) DEF cleanupDirectories, unmountAllSnapshots, unmountSnapshotDirectory, CloseUnmount,
           RemoveAll, dbVars, Shape, RestoresFirst
  <1>2. DbTypes' /\ OthersWait(c) /\ stops' = stops
    BY <1>1, ZenonT(60) DEF Shape, DbTypes, OthersWait, upVars
  <1>3. /\ dirs' \subseteq dirs /\ mounted' \subseteq mounted /\ layers' \subseteq layers
    BY ZenonT(60) DEF cleanupDirectories, unmountAllSnapshots, unmountSnapshotDirectory, CloseUnmount,
           RemoveAll, diskVars, unmountDirectory
  <1>4. DiskTypes'
    BY <1>3, ZenonT(60) DEF Shape, DiskTypes
  <1>5. /\ \E S \in SUBSET Int : todo' = [todo EXCEPT ![c] = S]
        /\ \E d \in Int : cur' = [cur EXCEPT ![c] = d]
        /\ \E l \in {"delete", "removeAll", "unmountAll"} : pc' = [pc EXCEPT ![c] = l]
        /\ pc'[c] = "unmountAll" => pc[c] \in {"close", "unmountAll"}
    <2>1. 0 \in Int /\ todo[c] \in SUBSET Int /\ cur[c] \in Int /\ dirs \in SUBSET Int /\ pc[c] \in Steps
      BY SMTT(60), Z3T(60) DEF Shape, CallTypes, DiskTypes
    <2>2. /\ todo = [todo EXCEPT ![c] = todo[c]] /\ cur = [cur EXCEPT ![c] = cur[c]]
          /\ pc = [pc EXCEPT ![c] = pc[c]] /\ c \in DOMAIN pc
      BY ZenonT(60) DEF Shape, CallTypes
    <2>3. CASE cleanupDirectories(c)
      BY <2>1, <2>2, <2>3, ZenonT(60) DEF cleanupDirectories, Cleanable, Goto
    <2>4. CASE unmountAllSnapshots(c)
      BY <2>1, <2>2, <2>4, ZenonT(60) DEF unmountAllSnapshots, Goto
    <2>5. CASE unmountSnapshotDirectory(c)
      BY <2>1, <2>2, <2>5, ZenonT(60) DEF unmountSnapshotDirectory, Goto
    <2>6. CASE CloseUnmount(c)
      BY <2>1, <2>2, <2>6, ZenonT(60) DEF CloseUnmount
    <2>7. CASE RemoveAll(c)
      BY <2>1, <2>2, <2>7, ZenonT(60) DEF RemoveAll, Goto
    <2> QED
      BY <2>3, <2>4, <2>5, <2>6, <2>7, ZenonT(60)
  <1>6. CallTypes' /\ Only(c) /\ pc'[c] \in {"delete", "removeAll", "unmountAll"}
    BY <1>1, <1>5, SMTT(60), Z3T(60) DEF Shape, CallTypes, Only, Steps
  <1>7. ArgsFit(c)' /\ CreatorIsWriter(c)'
    BY <1>2, <1>5, <1>6, ZenonT(60) DEF Shape, CallsFit, ArgsFit, CreatorIsWriter, LayerSteps
  <1> QED
    BY <1>1, <1>2, <1>4, <1>6, <1>7, OneCall, ZenonT(60)

\* The process ends, by Close or by a crash.
LEMMA StopShape ==
  ASSUME Shape, Stop, stops < MaxStops, toRestore' \subseteq Names,
         UNCHANGED <<dbVars, dirs, mounted, config>>
  PROVE Shape'
  <1> USE SnapshotterAssumption
  <1>1. DbTypes' /\ DiskTypes'
    BY ZenonT(60) DEF Stop, Shape, DbTypes, DiskTypes, dbVars
  <1>2. UpTypes'
    BY SMTT(60), Z3T(60) DEF Stop, Shape, UpTypes
  <1>3. CallTypes' /\ \A c \in Callers : pc'[c] = "idle"
    BY NoArgIsArg, SMTT(60), Z3T(60) DEF Stop, CallTypes, Steps
  <1>4. CallsFit'
    BY <1>3, ZenonT(60) DEF CallsFit, ArgsFit, CreatorIsWriter, LayerSteps
  <1>5. RestoresFirst'
    BY <1>3, ZenonT(60) DEF Stop, RestoresFirst
  <1> QED
    BY <1>1, <1>2, <1>3, <1>4, <1>5, ZenonT(60) DEF Shape

\* It starts again.
LEMMA StartShape ==
  ASSUME Shape, Restart \/ Restored \/ \E n \in Names : restoreRemoteSnapshot(n)
  PROVE Shape'
  <1>1. up # "running" /\ UNCHANGED <<db, seq, writer, pc, arg, new, todo, cur, stops>>
    BY ZenonT(60) DEF Restart, Restored, restoreRemoteSnapshot, dbVars, upVars, callVars
  <1>2. DbTypes' /\ CallTypes' /\ \A c \in Callers : pc'[c] = "idle"
    BY <1>1, ZenonT(60) DEF Shape, DbTypes, CallTypes, RestoresFirst
  <1>3. CallsFit'
    BY <1>2, ZenonT(60) DEF CallsFit, ArgsFit, CreatorIsWriter, LayerSteps
  <1>4. Remote' = Remote /\ Remote \subseteq Names
    BY <1>1, ZenonT(60) DEF Remote, Committed
  <1>5. CASE Restart
    <2>1. mounted' = {} /\ dirs' = dirs /\ layers' = layers /\ toRestore' = Remote /\ up' = "restoring"
      BY <1>5, ZenonT(60) DEF Restart
    <2>2. config' \in Configs
      BY <1>5, ZenonT(60) DEF Restart, Shape, UpTypes, Configs
    <2>3. UpTypes' /\ DiskTypes' /\ RestoresFirst'
      BY <1>1, <1>2, <1>4, <2>1, <2>2, ZenonT(60) DEF Shape, UpTypes, DiskTypes, RestoresFirst
    <2> QED
      BY <1>2, <1>3, <2>3, ZenonT(60) DEF Shape
  <1>6. CASE Restored
    <2>1. up' = "running" /\ UNCHANGED <<dirs, mounted, layers, toRestore, config>>
      BY <1>6, ZenonT(60) DEF Restored, diskVars
    <2>2. UpTypes' /\ DiskTypes' /\ RestoresFirst'
      BY <1>1, <2>1, ZenonT(60) DEF Shape, UpTypes, DiskTypes, RestoresFirst
    <2> QED
      BY <1>2, <1>3, <2>2, ZenonT(60) DEF Shape
  <1>7. ASSUME NEW n \in Names, restoreRemoteSnapshot(n) PROVE Shape'
    <2>1. db[n].id \in Int
      <3>1. db[n] \in Entries
        BY <1>7, ZenonT(60) DEF restoreRemoteSnapshot, Shape, DbTypes, RestoresFirst, Remote, Committed, Snapshots
      <3> QED
        BY <3>1, SMTT(60), Z3T(60) DEF Entries
    <2>2. /\ dirs' = dirs \cup {db[n].id} /\ config' = config
          /\ mounted' \subseteq mounted \cup {db[n].id} /\ layers' \subseteq layers \cup {db[n].id}
          /\ toRestore' \subseteq toRestore /\ up' \in {up, "down"} /\ up = "restoring"
      BY <1>7, ZenonT(60) DEF restoreRemoteSnapshot, mount
    <2>3. DiskTypes'
      BY <2>1, <2>2, ZenonT(60) DEF Shape, DiskTypes
    <2>4. UpTypes' /\ RestoresFirst'
      BY <1>1, <1>2, <1>4, <2>2, ZenonT(60) DEF Shape, UpTypes, RestoresFirst
    <2> QED
      BY <1>2, <1>3, <2>3, <2>4, ZenonT(60) DEF Shape
  <1> QED
    BY <1>5, <1>6, <1>7, ZenonT(60)

\* Every step of a call, of the process and of a restart keeps the shape.
LEMMA StepShape == Shape /\ [Next]_vars => Shape'
  <1> SUFFICES ASSUME Shape, [Next]_vars PROVE Shape'
    BY ZenonT(60)
  <1>1. ASSUME NEW c \in Callers, ClientCall(c) PROVE Shape'
    <2>1. Committed \subseteq Names /\ Committed \subseteq Snapshots /\ Keys \subseteq Snapshots
          /\ Names \subseteq Snapshots
      BY ZenonT(60) DEF Committed, Snapshots
    <2>2. /\ {"begin", "commitLocal", "remove", "mounts"} \subseteq Steps \ {"create", "commitNew"}
          /\ "commitLocal" \in LayerSteps /\ "begin" \notin LayerSteps
          /\ "remove" \notin LayerSteps /\ "mounts" \notin LayerSteps
      BY ZenonT(60) DEF Steps, LayerSteps
    <2>3. CASE CallPrepare(c) \/ CallView(c)
      <3>1. PICK kind \in {"active", "view"}, k \in Keys, p \in Committed \cup {None},
                 t \in Names \cup {None} :
              Call(c, "begin", [kind |-> kind, key |-> k, parent |-> p, target |-> t])
        BY <2>3, ZenonT(60) DEF CallPrepare, CallView
      <3>2. [kind |-> kind, key |-> k, parent |-> p, target |-> t] \in Args
        BY <2>1, ZenonT(60) DEF Args
      <3> QED
        BY <2>1, <2>2, <3>1, <3>2, CallShape, ZenonT(60)
    <2>4. CASE CallCommit(c)
      <3>1. PICK k \in Keys, t \in Names :
              Call(c, "commitLocal", [kind |-> "none", key |-> k, parent |-> None, target |-> t])
        BY <2>4, ZenonT(60) DEF CallCommit
      <3>2. [kind |-> "none", key |-> k, parent |-> None, target |-> t] \in Args
        BY <2>1, ZenonT(60) DEF Args
      <3> QED
        BY <2>1, <2>2, <3>1, <3>2, CallShape, ZenonT(60)
    <2>5. CASE CallRemove(c)
      <3>1. PICK k \in Snapshots :
              Call(c, "remove", [kind |-> "none", key |-> k, parent |-> None, target |-> None])
        BY <2>5, ZenonT(60) DEF CallRemove
      <3>2. [kind |-> "none", key |-> k, parent |-> None, target |-> None] \in Args
        BY ZenonT(60) DEF Args
      <3> QED
        BY <2>2, <3>1, <3>2, CallShape, ZenonT(60)
    <2>6. CASE CallMounts(c)
      <3>1. PICK k \in Keys :
              Call(c, "mounts", [kind |-> "none", key |-> k, parent |-> k, target |-> None])
        BY <2>6, ZenonT(60) DEF CallMounts
      <3>2. [kind |-> "none", key |-> k, parent |-> k, target |-> None] \in Args
        BY <2>1, ZenonT(60) DEF Args
      <3> QED
        BY <2>2, <3>1, <3>2, CallShape, ZenonT(60)
    <2> QED
      BY <1>1, <2>3, <2>4, <2>5, <2>6, ZenonT(60) DEF ClientCall
  <1>2. ASSUME NEW c \in Callers, CallCleanup(c) \/ CallClose(c) PROVE Shape'
    <2>1. \E o \in {"scan", "close"} : Call(c, o, NoArg) /\ (o = "close" => stops < MaxStops)
      BY <1>2, ZenonT(60) DEF CallCleanup, CallClose
    <2> QED
      BY <2>1, NoArgIsArg, CallShape, ZenonT(60) DEF Steps, LayerSteps
  <1>3. ASSUME NEW c \in Callers,
               \/ Fallback(c) \/ prepareLocalSnapshot(c) \/ mounts(c) \/ HandOut(c) \/ Deleted(c)
        PROVE Shape'
    <2>1. pc[c] # "idle" /\ UNCHANGED <<dbVars, writer, diskVars, upVars>>
      BY <1>3, ZenonT(60) DEF Fallback, prepareLocalSnapshot, mounts, HandOut, Deleted
    <2>2. DbTypes' /\ DiskTypes' /\ OthersWait(c)
      BY <2>1, ZenonT(60) DEF Shape, DbTypes, DiskTypes, OthersWait, dbVars, diskVars
    <2>3. \/ Return(c)
          \/ \E l \in {"parallel", "local", "commitLocal", "handOut"} :
                Goto(c, l) /\ UNCHANGED callVars /\ (l # "handOut" => pc[c] \in LayerSteps)
      BY <1>3, ZenonT(60) DEF Fallback, prepareLocalSnapshot, mounts, HandOut, Deleted, LayerSteps
    <2>4. pc[c] \in LayerSteps => arg[c].key \in Keys /\ arg[c].target \in Names
      BY ZenonT(60) DEF Shape, CallsFit, ArgsFit
    <2> QED
      BY <2>1, <2>2, <2>3, <2>4, GoOnShape, ZenonT(60) DEF Steps, LayerSteps
  <1>4. ASSUME NEW c \in Callers, prepareRemoteSnapshot(c) PROVE Shape'
    <2>1. pc[c] = "mount" /\ UNCHANGED <<dbVars, writer, dirs, upVars, callVars>>
      BY <1>4, ZenonT(60) DEF prepareRemoteSnapshot
    <2>2. /\ mounted' \subseteq mounted \cup {new[c]} /\ layers' \subseteq layers \cup {new[c]}
          /\ \E l \in {"commitRemote", "deferred", "fallback"} : Goto(c, l)
      BY <1>4, ZenonT(60) DEF prepareRemoteSnapshot, mount
    <2>3. DbTypes' /\ DiskTypes' /\ OthersWait(c)
      BY <2>1, <2>2, ZenonT(60) DEF Shape, DbTypes, DiskTypes, OthersWait, CallTypes, dbVars
    <2>4. arg[c].key \in Keys /\ arg[c].target \in Names
      BY <2>1, ZenonT(60) DEF Shape, CallsFit, ArgsFit, LayerSteps
    <2> QED
      BY <2>1, <2>2, <2>3, <2>4, GoOnShape, ZenonT(60) DEF Steps
  <1>5. ASSUME NEW c \in Callers, Close(c) PROVE Shape'
    <2>1. stops < MaxStops /\ toRestore' = toRestore /\ toRestore \subseteq Names
      BY <1>5, ZenonT(60) DEF Close, Shape, CallsFit, ArgsFit, UpTypes
    <2> QED
      BY <1>5, <2>1, StopShape, ZenonT(60) DEF Close
  <1>6. CASE Crash
    BY <1>6, StopShape, ZenonT(60) DEF Crash
  <1>7. CASE UNCHANGED vars
    <2>1. UNCHANGED <<db, seq, writer, dirs, mounted, layers, up, toRestore, stops, config,
                      pc, arg, new, todo, cur>>
      BY <1>7, ZenonT(60) DEF vars, dbVars, diskVars, upVars, callVars
    <2>2. DbTypes' /\ DiskTypes' /\ UpTypes' /\ CallTypes'
      BY <2>1, ZenonT(60) DEF Shape, DbTypes, DiskTypes, UpTypes, CallTypes
    <2> QED
      BY <2>1, <2>2, ZenonT(60) DEF Shape, CallsFit, ArgsFit, CreatorIsWriter, RestoresFirst, Remote, Committed
  <1> QED
    BY <1>1, <1>2, <1>3, <1>4, <1>5, <1>6, <1>7, CreateShape, UpdateShape, DeleteShape, StartShape, ZenonT(60)
       DEF Next, Step, Callers

\* The types, for any clients, keys, names and bounds, and with every fault.
THEOREM Typing == Spec => []TypeOK
  <1>1. Spec => []Shape
    BY InitShape, StepShape, PTL DEF Spec
  <1> QED
    BY <1>1, ShapeIsTyped, PTL

-----------------------------------------------------------------------------
(***************************************************************************)
(* Why no snapshot loses its directory, although directories are deleted   *)
(* outside of the transaction that listed them: an id is given out once,   *)
(* and a list holds only ids given out before and free since.  This needs  *)
(* a createSnapshot never to fail between its rename and its commit.       *)
(***************************************************************************)

\* Snapshots have ids of their own, given out before, and directories.
OwnDirectories ==
    /\ \A k \in Snapshots : db[k] # None => db[k].id \in dirs /\ db[k].id \in 1 .. seq
    /\ \A k, l \in Snapshots :
          db[k] # None /\ db[l] # None /\ db[k].id = db[l].id => k = l

\* A directory whose id is not given out yet is that of the createSnapshot that
\* is about to commit it.
NoStrayDirectory ==
    \A d \in dirs : d > seq => writer # None /\ pc[writer] = "commitNew" /\ d = seq + 1

\* What a call is going to delete, or has just created.
Free(d) == d <= seq /\ \A k \in Snapshots : db[k] # None => db[k].id # d
ListIsFree(c) ==
    /\ pc[c] \in {"delete", "removeAll"} => \A d \in todo[c] : Free(d)
    /\ pc[c] = "removeAll" => Free(cur[c])
    /\ pc[c] = "create" => new[c] < 0
    /\ pc[c] = "commitNew" => new[c] \in dirs
ListsAreFree == \A c \in Callers : ListIsFree(c)

DirInv == OwnDirectories /\ NoStrayDirectory /\ ListsAreFree

\* Steps that add no snapshot, give out no id and delete no directory in use.
LEMMA KeepsOwn ==
  ASSUME OwnDirectories, seq' = seq,
         \A k \in Snapshots : db'[k] # None => db'[k] = db[k],
         \A k \in Snapshots : db'[k] # None /\ db[k].id \in dirs => db[k].id \in dirs'
  PROVE OwnDirectories'
  BY ZenonT(60) DEF OwnDirectories

\* Under such steps what is free stays free.
LEMMA KeepsFree ==
  ASSUME seq' = seq, \A k \in Snapshots : db'[k] # None => db'[k] = db[k]
  PROVE \A x : Free(x) => Free(x)'
  BY ZenonT(60) DEF Free

\* The lists of the other calls.
LEMMA KeepsLists ==
  ASSUME NEW c \in Callers, CallTypes, ListsAreFree, Only(c), ListIsFree(c)',
         \A x \in Int : Free(x) => Free(x)',
         \A d \in Callers \ {c} : pc[d] = "commitNew" /\ new[d] \in dirs => new[d] \in dirs'
  PROVE ListsAreFree'
  <1> SUFFICES ASSUME NEW d \in Callers \ {c} PROVE ListIsFree(d)'
    BY ZenonT(60) DEF ListsAreFree
  <1>1. UNCHANGED <<pc[d], new[d], todo[d], cur[d]>> /\ ListIsFree(d)
    BY ZenonT(60) DEF Only, ListsAreFree
  <1>2. todo[d] \subseteq Int /\ cur[d] \in Int
    BY ZenonT(60) DEF CallTypes
  <1> QED
    BY <1>1, <1>2, ZenonT(60) DEF ListIsFree

\* A step that touches neither database nor directories and begins no create
\* and no deletion.
LEMMA QuietStep ==
  ASSUME Shape, DirInv, UNCHANGED <<db, seq, writer, dirs>>,
         \A c \in Callers :
             \/ UNCHANGED <<pc[c], new[c], todo[c], cur[c]>>
             \/ /\ pc[c] \notin {"create", "commitNew"}
                /\ pc'[c] \notin {"create", "commitNew", "delete", "removeAll"}
  PROVE DirInv'
  <1>1. OwnDirectories'
    BY KeepsOwn, ZenonT(60) DEF DirInv
  <1>2. NoStrayDirectory'
    BY ZenonT(60) DEF DirInv, NoStrayDirectory, Shape, DbTypes
  <1>3. \A x : Free(x) => Free(x)'
    BY KeepsFree, ZenonT(60)
  <1>4. ListsAreFree'
    BY <1>3, ZenonT(60) DEF DirInv, ListsAreFree, ListIsFree
  <1> QED
    BY <1>1, <1>2, <1>4, ZenonT(60) DEF DirInv

\* With no create about to commit, everything on disk has an id given out
\* before, so that what is on disk and in nobody's name is free.
LEMMA ScanIsFree ==
  ASSUME Shape, DirInv, writer = None
  PROVE /\ \A d \in dirs : d <= seq
        /\ \A d \in Callers : pc[d] \notin {"create", "commitNew"}
  <1>1. \A d \in Callers : pc[d] \notin {"create", "commitNew"}
    BY SnapshotterAssumption, ZenonT(60) DEF Shape, CallsFit, CreatorIsWriter
  <1> QED
    BY <1>1, SMTT(60), Z3T(60) DEF Shape, DbTypes, DiskTypes, DirInv, NoStrayDirectory

\* The steps of createSnapshot.
LEMMA CreateDirs ==
  ASSUME "torn" \notin Faults, Shape, DirInv, NEW c \in Callers,
         prepareDirectory(c) \/ Rename(c) \/ CommitNew(c)
  PROVE DirInv'
  <1>1. CASE prepareDirectory(c)
    <2> DEFINE td == NextTemp
    <2>1. FreeTemps # {} /\ dirs' = dirs \cup {td} /\ new' = [new EXCEPT ![c] = td]
      BY <1>1, ZenonT(60) DEF prepareDirectory
    <2>2. td \in Int /\ td < 0
      BY <2>1, FreshTemp, ZenonT(60)
    <2> HIDE DEF td
    <2>3. writer = None /\ UNCHANGED <<db, seq, arg, todo, cur>> /\ pc' = [pc EXCEPT ![c] = "create"]
      BY <1>1, ZenonT(60) DEF prepareDirectory, Goto, dbVars
    <2>4. OwnDirectories'
      BY <2>1, <2>3, KeepsOwn, ZenonT(60) DEF DirInv
    <2>5. NoStrayDirectory'
      BY <2>1, <2>2, <2>3, SnapshotterAssumption, ScanIsFree, SMTT(60), Z3T(60) DEF Shape, DbTypes, DiskTypes, NoStrayDirectory
    <2>6. Only(c) /\ ListIsFree(c)'
      BY <2>1, <2>2, <2>3, ZenonT(60) DEF Only, ListIsFree, Shape, CallTypes
    <2>7. ListsAreFree'
      BY <2>1, <2>3, <2>6, KeepsLists, KeepsFree, ZenonT(60) DEF DirInv, Shape
    <2> QED
      BY <2>4, <2>5, <2>7, ZenonT(60) DEF DirInv
  <1>2. CASE Rename(c)
    <2>1. pc[c] = "create" /\ UNCHANGED <<db, seq, arg, cur>>
      BY <1>2, ZenonT(60) DEF Rename, dbVars
    <2>2. writer = c /\ new[c] < 0 /\ new[c] \in Int /\ seq \in Nat
      BY <2>1, ZenonT(60) DEF Shape, CallsFit, CreatorIsWriter, DirInv, ListsAreFree, ListIsFree, CallTypes, DbTypes
    <2>3. c # None /\ \A d \in dirs : d \in Int /\ d <= seq
      BY <2>1, <2>2, SnapshotterAssumption, SMTT(60), Z3T(60) DEF DirInv, NoStrayDirectory, Shape, DiskTypes
    <2>4. \A k \in Snapshots : db[k] # None => db[k].id # new[c]
      BY <2>2, SMTT(60), Z3T(60) DEF DirInv, OwnDirectories
    <2>5. \A x : Free(x) => Free(x)'
      BY <2>1, KeepsFree, ZenonT(60)
    <2>6. \A d \in Callers \ {c} : pc[d] # "commitNew"
      BY <2>2, ZenonT(60) DEF Shape, CallsFit, CreatorIsWriter
    <2>7. CASE /\ dirs' = (dirs \ {new[c]}) \cup {seq + 1}
               /\ new' = [new EXCEPT ![c] = seq + 1]
               /\ pc' = [pc EXCEPT ![c] = "commitNew"]
               /\ UNCHANGED <<writer, todo>>
      <3>1. OwnDirectories'
        BY <2>1, <2>4, <2>7, KeepsOwn, ZenonT(60) DEF DirInv
      <3>2. NoStrayDirectory'
        <4>1. pc'[c] = "commitNew"
          BY <2>7, ZenonT(60) DEF Shape, CallTypes
        <4> QED
          BY <2>1, <2>2, <2>3, <2>7, <4>1, SMTT(60), Z3T(60) DEF NoStrayDirectory
      <3>3. Only(c) /\ ListIsFree(c)'
        BY <2>1, <2>7, ZenonT(60) DEF Only, ListIsFree, Shape, CallTypes
      <3>4. ListsAreFree'
        BY <2>5, <2>6, <3>3, KeepsLists, ZenonT(60) DEF DirInv, Shape
      <3> QED
        BY <3>1, <3>2, <3>4, ZenonT(60) DEF DirInv
    <2>8. CASE Rollback(c, {new[c]}) /\ UNCHANGED <<dirs, new>>
      <3>1. OwnDirectories'
        BY <2>1, <2>8, KeepsOwn, ZenonT(60) DEF DirInv
      <3>2. NoStrayDirectory'
        BY <2>1, <2>2, <2>3, <2>8, SMTT(60), Z3T(60) DEF NoStrayDirectory
      <3>3. Free(new[c])
        BY <2>2, <2>4, SMTT(60), Z3T(60) DEF Free
      <3>4. Only(c) /\ ListIsFree(c)'
        BY <2>1, <2>5, <2>8, <3>3, ZenonT(60) DEF Only, ListIsFree, Shape, CallTypes, Rollback, Goto
      <3>5. ListsAreFree'
        BY <2>5, <2>6, <3>4, KeepsLists, ZenonT(60) DEF DirInv, Shape
      <3> QED
        BY <3>1, <3>2, <3>5, ZenonT(60) DEF DirInv
    <2>9. ASSUME NEW S \in leftBehind(c) PROVE S = {new[c]}
      BY <2>2, <2>3, SMTT(60), Z3T(60) DEF leftBehind
    <2> QED
      BY <1>2, <2>7, <2>8, <2>9, ZenonT(60) DEF Rename, Goto
  <1>3. CASE CommitNew(c)
    <2>1. pc[c] = "commitNew" /\ UNCHANGED <<dirs, arg, new, cur>>
      BY <1>3, ZenonT(60) DEF CommitNew, diskVars
    <2>2. writer = c /\ new[c] = seq + 1 /\ new[c] \in dirs /\ seq \in Nat
      BY <2>1, ZenonT(60) DEF Shape, CallsFit, CreatorIsWriter, DirInv, ListsAreFree, ListIsFree, DbTypes
    <2> DEFINE e == [id |-> new[c], kind |-> arg[c].kind, parent |-> arg[c].parent, remote |-> FALSE]
    <2>3. /\ db' = [db EXCEPT ![arg[c].key] = e]
          /\ seq' = seq + 1 /\ writer' = None /\ todo' = todo
          /\ \E l \in afterCreate(c) : Goto(c, l)
      <3>1. PICK ok \in {TRUE, "torn" \notin Faults} :
               IF ok
                 THEN /\ db' = [db EXCEPT ![arg[c].key] = e]
                      /\ seq' = new[c]
                      /\ writer' = None
                      /\ \E l \in afterCreate(c) : Goto(c, l)
                      /\ UNCHANGED todo
                 ELSE Rollback(c, {new[c]}) /\ UNCHANGED dbVars
        BY <1>3, ZenonT(60) DEF CommitNew
      <3>2. ok
        BY ZenonT(60)
      <3> QED
        BY <2>2, <3>1, <3>2, ZenonT(60)
    <2>4. e.id = seq + 1 /\ seq' = seq + 1 /\ writer' = None
      BY <2>2, <2>3, ZenonT(60)
    <2> HIDE DEF e
    <2>5. \A k \in Snapshots : db'[k] # None => db'[k] = db[k] \/ (k = arg[c].key /\ db'[k].id = seq + 1)
      BY <2>3, <2>4, ZenonT(60) DEF Shape, DbTypes
    <2>6. OwnDirectories'
      BY <2>1, <2>2, <2>4, <2>5, SMTT(60), Z3T(60) DEF DirInv, OwnDirectories
    <2>7. NoStrayDirectory'
      <3>1. \A d \in dirs : d \in Int /\ d <= seq + 1
        <4>1. dirs \subseteq Int
          BY ZenonT(60) DEF Shape, DiskTypes
        <4>2. \A d \in dirs : d > seq => d = seq + 1
          BY ZenonT(60) DEF DirInv, NoStrayDirectory
        <4> QED
          BY <2>2, <4>1, <4>2, SMTT(60), Z3T(60)
      <3> QED
        BY <2>1, <2>2, <2>4, <3>1, SMTT(60), Z3T(60) DEF NoStrayDirectory
    <2>8. \A x \in Int : Free(x) => Free(x)'
      BY <2>2, <2>4, <2>5, SMTT(60), Z3T(60) DEF Free
    <2>9. Only(c) /\ ListIsFree(c)'
      BY <2>1, <2>3, ZenonT(60) DEF Only, ListIsFree, Shape, CallTypes, Goto, afterCreate
    <2>10. ListsAreFree'
      BY <2>1, <2>8, <2>9, KeepsLists, ZenonT(60) DEF DirInv, Shape
    <2> QED
      BY <2>6, <2>7, <2>10, ZenonT(60) DEF DirInv
  <1> QED
    BY <1>1, <1>2, <1>3, ZenonT(60)

\* CommitActive moves a directory from a key to a name.
LEMMA CommitDirs ==
  ASSUME Shape, DirInv, NEW c \in Callers, commit(c)
  PROVE DirInv'
  <1>1. /\ writer = None /\ pc[c] \in LayerSteps /\ pc' = [pc EXCEPT ![c] = "idle"]
        /\ UNCHANGED <<seq, dirs, todo, cur>> /\ new' = [new EXCEPT ![c] = 0]
        /\ arg' = [arg EXCEPT ![c] = NoArg]
    BY ZenonT(60) DEF commit, Return, Goto, LayerSteps, diskVars
  <1> DEFINE k == arg[c].key
             t == arg[c].target
             e == [db[k] EXCEPT !.kind = "committed", !.remote = (pc[c] = "commitRemote")]
  <1>2. \/ db' = db
        \/ db[k] # None /\ db[t] = None /\ db' = [db EXCEPT ![k] = None, ![t] = e]
    BY ZenonT(60) DEF commit, Committable
  <1>3. k \in Keys /\ t \in Names /\ k # t /\ k \in Snapshots /\ t \in Snapshots
    BY <1>1, SnapshotterAssumption, ZenonT(60) DEF Shape, CallsFit, ArgsFit, Snapshots
  <1>4. db[k] # None => e.id = db[k].id
    BY <1>3, ZenonT(60) DEF Shape, DbTypes, Entries
  <1> HIDE DEF k, t, e
  <1> DEFINE own(l) == IF l = t THEN k ELSE l
  <1>5. \/ db' = db
        \/ \A l \in Snapshots : db'[l] # None =>
             l # k /\ own(l) \in Snapshots /\ db[own(l)] # None /\ db'[l].id = db[own(l)].id
    BY <1>2, <1>3, <1>4, ZenonT(60) DEF Shape, DbTypes
  <1>6. \A l, m \in Snapshots : l # k /\ m # k /\ own(l) = own(m) => l = m
    BY ZenonT(60)
  <1>7. OwnDirectories'
    <2>1. CASE db' = db
      BY <1>1, <2>1, KeepsOwn, ZenonT(60) DEF DirInv
    <2>2. CASE \A l \in Snapshots : db'[l] # None =>
                 l # k /\ own(l) \in Snapshots /\ db[own(l)] # None /\ db'[l].id = db[own(l)].id
      <3> HIDE DEF own
      <3>1. \A l \in Snapshots : db'[l] # None => db'[l].id \in dirs' /\ db'[l].id \in 1 .. seq'
        BY <1>1, <2>2, ZenonT(60) DEF DirInv, OwnDirectories
      <3>2. ASSUME NEW l \in Snapshots, NEW m \in Snapshots,
                   db'[l] # None, db'[m] # None, db'[l].id = db'[m].id
            PROVE l = m
        <4>1. own(l) = own(m)
          BY <2>2, <3>2, ZenonT(60) DEF DirInv, OwnDirectories
        <4> QED
          BY <1>6, <2>2, <3>2, <4>1, ZenonT(60)
      <3> QED
        BY <3>1, <3>2, ZenonT(60) DEF OwnDirectories
    <2> QED
      BY <1>5, <2>1, <2>2, ZenonT(60)
  <1>8. NoStrayDirectory'
    <2>1. \A d \in dirs' : d \in Int /\ d <= seq' /\ seq' \in Int
      BY <1>1, ScanIsFree, SMTT(60), Z3T(60) DEF Shape, DbTypes, DiskTypes
    <2> QED
      BY <2>1, SMTT(60), Z3T(60) DEF NoStrayDirectory
  <1>9. \A x \in Int : Free(x) => Free(x)'
    <2> HIDE DEF own
    <2> QED
      BY <1>1, <1>5, ZenonT(60) DEF Free
  <1>10. Only(c) /\ ListIsFree(c)'
    BY <1>1, ZenonT(60) DEF Only, ListIsFree, Shape, CallTypes
  <1>11. ListsAreFree'
    BY <1>1, <1>9, <1>10, KeepsLists, ZenonT(60) DEF DirInv, Shape
  <1> QED
    BY <1>7, <1>8, <1>11, ZenonT(60) DEF DirInv

\* Remove and Cleanup list what is in nobody's name.
LEMMA ListDirs ==
  ASSUME Shape, DirInv, NEW c \in Callers, Remove(c) \/ cleanupDirectories(c)
  PROVE DirInv'
  <1>1. /\ writer = None /\ UNCHANGED <<seq, writer, dirs, cur>>
        /\ pc[c] \in {"remove", "scan"}
    BY ZenonT(60) DEF Remove, Return, cleanupDirectories, dbVars, diskVars
  <1>2. \A k \in Snapshots : db'[k] # None => db'[k] = db[k]
    BY ZenonT(60) DEF Remove, cleanupDirectories, dbVars, Shape, DbTypes
  <1>3. OwnDirectories'
    BY <1>1, <1>2, KeepsOwn, ZenonT(60) DEF DirInv
  <1>4. NoStrayDirectory'
    <2>1. \A d \in dirs' : d \in Int /\ d <= seq' /\ seq' \in Int
      BY <1>1, ScanIsFree, SMTT(60), Z3T(60) DEF Shape, DbTypes, DiskTypes
    <2> QED
      BY <2>1, SMTT(60), Z3T(60) DEF NoStrayDirectory
  <1>5. \A x \in Int : Free(x) => Free(x)'
    BY <1>1, <1>2, KeepsFree, ZenonT(60)
  <1>6. CASE Return(c)
    <2>1. Only(c) /\ ListIsFree(c)'
      BY <1>6, ZenonT(60) DEF Return, Goto, Only, ListIsFree, Shape, CallTypes
    <2>2. ListsAreFree'
      BY <1>1, <1>5, <2>1, KeepsLists, ZenonT(60) DEF DirInv, Shape
    <2> QED
      BY <1>3, <1>4, <2>2, ZenonT(60) DEF DirInv
  <1>7. ASSUME NEW S, \A x \in S : Free(x)', todo' = [todo EXCEPT ![c] = S],
               Goto(c, "delete"), UNCHANGED <<arg, new>>
        PROVE DirInv'
    <2>1. Only(c) /\ ListIsFree(c)'
      BY <1>1, <1>7, ZenonT(60) DEF Goto, Only, ListIsFree, Shape, CallTypes
    <2>2. ListsAreFree'
      BY <1>1, <1>5, <2>1, KeepsLists, ZenonT(60) DEF DirInv, Shape
    <2> QED
      BY <1>3, <1>4, <2>2, ZenonT(60) DEF DirInv
  <1>8. \A x \in dirs : x <= seq
    BY <1>1, ScanIsFree, ZenonT(60)
  <1>9. CASE Remove(c)
    <2> DEFINE k == arg[c].key
    <2>1. \/ Return(c)
          \/ /\ db[k] # None /\ db' = [db EXCEPT ![k] = None]
             /\ todo' = [todo EXCEPT ![c] = dirs \ (ids \ {db[k].id})]
             /\ Goto(c, "delete") /\ UNCHANGED <<arg, new>>
      BY <1>9, ZenonT(60) DEF Remove, Removable, Cleanable
    <2>2. k \in Snapshots
      <3>1. pc[c] = "remove"
        BY <1>9, ZenonT(60) DEF Remove
      <3> QED
        BY <3>1, ZenonT(60) DEF Shape, CallsFit, ArgsFit
    <2> HIDE DEF k
    <2>3. ASSUME db[k] # None, db' = [db EXCEPT ![k] = None], NEW x \in dirs \ (ids \ {db[k].id})
          PROVE Free(x)'
      <3>1. \A l \in Snapshots : db[l] # None /\ l # k => db[l].id # x
        BY <2>2, <2>3, ZenonT(60) DEF ids, DirInv, OwnDirectories
      <3>2. \A l \in Snapshots : db'[l] # None => l # k /\ db'[l] = db[l]
        BY <2>2, <2>3, ZenonT(60) DEF Shape, DbTypes
      <3> QED
        BY <1>1, <1>8, <3>1, <3>2, ZenonT(60) DEF Free
    <2> QED
      BY <1>6, <1>7, <2>1, <2>3, ZenonT(60)
  <1>10. CASE cleanupDirectories(c)
    <2>1. /\ todo' = [todo EXCEPT ![c] = dirs \ ids] /\ Goto(c, "delete")
          /\ UNCHANGED <<db, arg, new>>
      BY <1>10, ZenonT(60) DEF cleanupDirectories, Cleanable, dbVars
    <2>2. \A x \in dirs \ ids : Free(x)'
      BY <1>1, <1>8, <2>1, ZenonT(60) DEF Free, ids
    <2> QED
      BY <1>7, <2>1, <2>2, ZenonT(60)
  <1> QED
    BY <1>9, <1>10, ZenonT(60)

\* What is deleted has been free since.
LEMMA DeleteDirs ==
  ASSUME Shape, DirInv, NEW c \in Callers, unmountSnapshotDirectory(c) \/ RemoveAll(c)
  PROVE DirInv'
  <1>1. pc[c] \in {"delete", "removeAll"} /\ UNCHANGED <<db, seq, writer, arg, new>>
    BY ZenonT(60) DEF unmountSnapshotDirectory, RemoveAll, dbVars
  <1>2. \A x : Free(x) => Free(x)'
    BY <1>1, KeepsFree, ZenonT(60)
  <1>3. \A x \in todo[c] : Free(x)
    BY <1>1, ZenonT(60) DEF DirInv, ListsAreFree, ListIsFree
  <1>4. CASE unmountSnapshotDirectory(c)
    <2>1. PICK d \in todo[c] :
             /\ todo' = [todo EXCEPT ![c] = @ \ {d}] /\ dirs' = dirs /\ pc[c] = "delete"
             /\ \/ cur' = [cur EXCEPT ![c] = d] /\ pc' = [pc EXCEPT ![c] = "removeAll"]
                \/ UNCHANGED <<cur, pc>>
      BY <1>4, ZenonT(60) DEF unmountSnapshotDirectory, Goto
    <2>2. OwnDirectories'
      BY <1>1, <2>1, KeepsOwn, ZenonT(60) DEF DirInv
    <2>3. NoStrayDirectory'
      <3>1. \A b \in Callers : pc[b] = "commitNew" => pc'[b] = "commitNew"
        BY <2>1, ZenonT(60) DEF Shape, CallTypes
      <3> QED
        BY <1>1, <2>1, <3>1, ZenonT(60) DEF DirInv, NoStrayDirectory, Shape, DbTypes
    <2>4. Only(c)
      BY <1>1, <2>1, ZenonT(60) DEF Only, Shape, CallTypes
    <2>5. ListIsFree(c)'
      <3>1. todo'[c] = todo[c] \ {d} /\ pc'[c] \in {"delete", "removeAll"}
            /\ (pc'[c] = "removeAll" => cur'[c] = d)
        BY <2>1, ZenonT(60) DEF Shape, CallTypes
      <3> QED
        BY <1>2, <1>3, <3>1, ZenonT(60) DEF ListIsFree
    <2>6. ListsAreFree'
      BY <1>2, <2>1, <2>4, <2>5, KeepsLists, ZenonT(60) DEF DirInv, Shape
    <2> QED
      BY <2>2, <2>3, <2>6, ZenonT(60) DEF DirInv
  <1>5. CASE RemoveAll(c)
    <2>1. /\ pc[c] = "removeAll" /\ dirs' = dirs \ ({cur[c]} \ mounted) /\ todo' = todo
          /\ cur' = [cur EXCEPT ![c] = 0] /\ pc' = [pc EXCEPT ![c] = "delete"]
      BY <1>5, ZenonT(60) DEF RemoveAll, Goto
    <2>2. Free(cur[c])
      BY <2>1, ZenonT(60) DEF DirInv, ListsAreFree, ListIsFree
    <2>3. \A k \in Snapshots : db[k] # None => db[k].id # cur[c]
      BY <2>2, ZenonT(60) DEF Free
    <2>4. OwnDirectories'
      BY <1>1, <2>1, <2>3, KeepsOwn, ZenonT(60) DEF DirInv
    <2>5. NoStrayDirectory'
      <3>1. \A b \in Callers : pc[b] = "commitNew" => pc'[b] = "commitNew"
        BY <2>1, ZenonT(60) DEF Shape, CallTypes
      <3> QED
        BY <1>1, <2>1, <3>1, ZenonT(60) DEF DirInv, NoStrayDirectory, Shape, DbTypes
    <2>6. Only(c) /\ ListIsFree(c)'
      BY <1>1, <1>2, <1>3, <2>1, ZenonT(60) DEF Only, ListIsFree, Shape, CallTypes
    <2>7. \A d \in Callers : pc[d] = "commitNew" => new[d] # cur[c]
      <3>1. cur[c] <= seq /\ cur[c] \in Int /\ seq \in Int
        BY <2>2, SMTT(60), Z3T(60) DEF Free, Shape, CallTypes, DbTypes
      <3> QED
        BY <3>1, SMTT(60), Z3T(60) DEF Shape, CallsFit, CreatorIsWriter
    <2>8. ListsAreFree'
      BY <1>2, <2>1, <2>6, <2>7, KeepsLists, ZenonT(60) DEF DirInv, Shape
    <2> QED
      BY <2>4, <2>5, <2>8, ZenonT(60) DEF DirInv
  <1> QED
    BY <1>4, <1>5, ZenonT(60)

\* With the process go its lists and the calls that hold them.
LEMMA StopDirs ==
  ASSUME Shape, DirInv, Stop, UNCHANGED <<db, seq, dirs>>,
         writer = None \/ \A c \in Callers : pc[c] # "commitNew"
  PROVE DirInv'
  <1>1. \A d \in dirs : d <= seq
    BY ScanIsFree, SMTT(60), Z3T(60) DEF DirInv, NoStrayDirectory, Shape, DbTypes, DiskTypes
  <1>2. OwnDirectories'
    BY KeepsOwn, ZenonT(60) DEF DirInv
  <1>3. NoStrayDirectory'
    BY <1>1, SMTT(60), Z3T(60) DEF NoStrayDirectory, Shape, DbTypes, DiskTypes
  <1>4. ListsAreFree'
    BY ZenonT(60) DEF Stop, ListsAreFree, ListIsFree
  <1> QED
    BY <1>2, <1>3, <1>4, ZenonT(60) DEF DirInv

\* Every step keeps database, directories and lists in agreement.
LEMMA StepDirs ==
  ASSUME "torn" \notin Faults PROVE Shape /\ DirInv /\ [Next]_vars => DirInv'
  <1> SUFFICES ASSUME Shape, DirInv, [Next]_vars PROVE DirInv'
    BY ZenonT(60)
  <1>1. ASSUME NEW c \in Callers, ClientCall(c) \/ CallCleanup(c) \/ CallClose(c) PROVE DirInv'
    <2>1. \E o \in {"begin", "commitLocal", "remove", "mounts", "scan", "close"} :
             \E a : Call(c, o, a)
      BY <1>1, ZenonT(60) DEF ClientCall, CallPrepare, CallView, CallCommit, CallRemove, CallMounts,
         CallCleanup, CallClose
    <2>2. /\ UNCHANGED <<db, seq, writer, dirs, new, todo, cur>> /\ pc[c] = "idle"
          /\ \E o \in {"begin", "commitLocal", "remove", "mounts", "scan", "close"} :
                pc' = [pc EXCEPT ![c] = o]
      BY <2>1, ZenonT(60) DEF Call, Goto, dbVars, diskVars
    <2> QED
      BY <2>2, QuietStep, ZenonT(60) DEF Shape, CallTypes
  <1>2. ASSUME NEW c \in Callers,
               \/ prepareRemoteSnapshot(c) \/ Fallback(c) \/ prepareLocalSnapshot(c)
               \/ mounts(c) \/ HandOut(c) \/ Deleted(c)
        PROVE DirInv'
    <2>1. /\ UNCHANGED <<db, seq, writer, dirs, todo, cur>>
          /\ pc[c] \notin {"create", "commitNew"}
          /\ new' = new \/ new' = [new EXCEPT ![c] = 0]
      BY <1>2, ZenonT(60) DEF prepareRemoteSnapshot, Fallback, prepareLocalSnapshot, mounts, HandOut, Deleted,
         Return, dbVars, diskVars, callVars
    <2>2. \E l \in {"commitRemote", "deferred", "fallback", "parallel", "local", "commitLocal",
                    "handOut", "idle"} : pc' = [pc EXCEPT ![c] = l]
      BY <1>2, ZenonT(60) DEF prepareRemoteSnapshot, Fallback, prepareLocalSnapshot, mounts, HandOut,
         Deleted, Return, Goto
    <2> QED
      BY <2>1, <2>2, QuietStep, ZenonT(60) DEF Shape, CallTypes
  <1>3. ASSUME NEW c \in Callers, unmountAllSnapshots(c) \/ CloseUnmount(c) PROVE DirInv'
    <2>1. /\ UNCHANGED <<db, seq, writer, dirs, new, cur>>
          /\ pc[c] \in {"close", "unmountAll"} /\ pc' = [pc EXCEPT ![c] = "unmountAll"]
          /\ \E S : todo' = [todo EXCEPT ![c] = S]
      BY <1>3, ZenonT(60) DEF unmountAllSnapshots, CloseUnmount, Goto, dbVars, diskVars, Shape, CallTypes
    <2> QED
      BY <2>1, QuietStep, ZenonT(60) DEF Shape, CallTypes
  <1>4. CASE Restart \/ Restored
    <2>1. UNCHANGED <<db, seq, writer, dirs, pc, new, todo, cur>>
      BY <1>4, ZenonT(60) DEF Restart, Restored, dbVars, diskVars, callVars
    <2> QED
      BY <2>1, QuietStep, ZenonT(60)
  <1>5. ASSUME NEW n \in Names, restoreRemoteSnapshot(n) PROVE DirInv'
    <2>1. n \in Snapshots /\ db[n] # None
      BY <1>5, ZenonT(60) DEF restoreRemoteSnapshot, Shape, RestoresFirst, Remote, Committed, Snapshots
    <2>2. UNCHANGED <<db, seq, writer, dirs, pc, new, todo, cur>>
      BY <1>5, <2>1, ZenonT(60) DEF restoreRemoteSnapshot, dbVars, callVars, DirInv, OwnDirectories
    <2> QED
      BY <2>2, QuietStep, ZenonT(60)
  <1>6. ASSUME NEW c \in Callers, Close(c) PROVE DirInv'
    BY <1>6, StopDirs, ZenonT(60) DEF Close, dbVars
  <1>7. CASE Crash
    BY <1>7, StopDirs, ZenonT(60) DEF Crash, dbVars
  <1>8. CASE UNCHANGED vars
    BY <1>8, QuietStep, ZenonT(60) DEF vars, dbVars, diskVars, callVars
  <1> QED
    BY <1>1, <1>2, <1>3, <1>4, <1>5, <1>6, <1>7, <1>8, CreateDirs, CommitDirs, ListDirs, DeleteDirs, ZenonT(60)
       DEF Next, Step, Callers

\* The program starts with no snapshot and no directory.
LEMMA InitDirs == Init => DirInv
  BY ZenonT(60), SMTT(60) DEF Init, DirInv, OwnDirectories, NoStrayDirectory, ListsAreFree, ListIsFree

\* Unless a createSnapshot fails between its rename and its commit, the database
\* and the directories agree as DirInv says.
LEMMA DirInvariant ==
  ASSUME "torn" \notin Faults PROVE Spec => [](Shape /\ DirInv)
  <1>1. Init => Shape /\ DirInv
    BY InitShape, InitDirs, ZenonT(60)
  <1>2. Shape /\ DirInv /\ [Next]_vars => (Shape /\ DirInv)'
    BY StepShape, StepDirs, ZenonT(60)
  <1> QED
    BY <1>1, <1>2, PTL DEF Spec

\* No snapshot loses its directory to Cleanup, Remove or a failing create,
\* which delete without holding the transaction.
THEOREM DirectoriesAreSafe ==
  ASSUME "torn" \notin Faults PROVE Spec => []SnapshotsHaveDirectories
  <1>1. DirInv => SnapshotsHaveDirectories
    BY ZenonT(60) DEF DirInv, OwnDirectories, SnapshotsHaveDirectories, ids
  <1> QED
    BY <1>1, DirInvariant, PTL

\* What Cleanup removes belongs to no snapshot at that moment.
THEOREM CleanupIsSafe ==
  ASSUME "torn" \notin Faults PROVE Spec => CleanupSparesSnapshots
  <1>1. Shape /\ DirInv => \A c \in Cleaners : RemoveAll(c) => cur[c] \notin ids
    BY ZenonT(60) DEF RemoveAll, DirInv, ListsAreFree, ListIsFree, Free, ids, Callers
  <1> QED
    BY <1>1, DirInvariant, PTL DEF CleanupSparesSnapshots
-----------------------------------------------------------------------------
(***************************************************************************)
(* The layers below a snapshot.  Chain is a recursive function, and what   *)
(* is shown of it rests on induction, as the least level that fails.       *)
(***************************************************************************)
Orders == INSTANCE WellFoundedInduction

\* A set of numbers that is not empty has a least one.
LEMMA Least ==
  ASSUME NEW T \in SUBSET Nat, T # {}
  PROVE \E m \in T : \A y \in T : m <= y
  <1>1. PICK m \in T : \A y \in T : ~(<<y, m>> \in Orders!OpToRel(<, Nat))
    BY Orders!WFMin, Orders!NatLessThanWellFounded, ZenonT(60)
  <1>2. ASSUME NEW y \in T PROVE m <= y
    <2>1. ~(y < m)
      BY <1>1, <1>2, ZenonT(60) DEF Orders!OpToRel
    <2> QED
      BY <2>1, SMTT(60), Z3T(60)
  <1> QED
    BY <1>1, <1>2, ZenonT(60)

\* The snapshots of a set and their parents; the levels of a chain in the
\* database d, from the snapshot k down; and the chain, which is the last one.
Grow(d, S) == S \cup ({d[n].parent : n \in {m \in S : d[m] # None}} \ {None})
AreLevels(f, d, k, n) ==
    f = [i \in 0 .. n |-> IF i = 0 THEN {k} \ {None} ELSE Grow(d, f[i - 1])]
Top == Cardinality(Snapshots)

ChainIn(d, k) == (CHOOSE f : AreLevels(f, d, k, Top))[Top]

\* There are finitely many levels.
LEMMA TopIsNat == Top \in Nat
  BY SnapshotterAssumption, ZenonT(60) DEF Top

\* It is the one checkAvailability walks.
LEMMA ChainIsIn ==
  ASSUME NEW k
  PROVE Chain(k) = ChainIn(db, k)
  BY ZenonT(60) DEF Chain, ChainIn, AreLevels, Grow, Top

\* The definition of the levels by recursion defines them.
LEMMA LevelsExist ==
  ASSUME NEW d, NEW k, NEW n \in Nat
  PROVE \E f : AreLevels(f, d, k, n)
  <1> DEFINE T == {i \in Nat : ~\E f : AreLevels(f, d, k, i)}
  <1> SUFFICES ASSUME T # {} PROVE FALSE
    BY ZenonT(60)
  <1>1. PICK m \in T : \A y \in T : m <= y
    BY Least, ZenonT(60)
  <1>2. m # 0
    <2>1. AreLevels([i \in 0 .. 0 |-> {k} \ {None}], d, k, 0)
      BY SMTT(60), Z3T(60) DEF AreLevels
    <2> QED
      BY <2>1, ZenonT(60)
  <1>3. m - 1 \in Nat /\ ~(m <= m - 1)
    BY <1>2, SMTT(60), Z3T(60)
  <1>4. PICK g : AreLevels(g, d, k, m - 1)
    BY <1>1, <1>3, ZenonT(60)
  <1> DEFINE f == [i \in 0 .. m |-> IF i = m THEN Grow(d, g[m - 1]) ELSE g[i]]
  <1>5. AreLevels(f, d, k, m)
    <2> DEFINE h == [i \in 0 .. m |-> IF i = 0 THEN {k} \ {None} ELSE Grow(d, f[i - 1])]
    <2>1. ASSUME NEW i \in 0 .. m PROVE f[i] = h[i]
      <3>1. CASE i = m
        <4>1. f[i] = Grow(d, g[m - 1]) /\ i # 0 /\ m - 1 \in 0 .. m /\ m - 1 # m
          BY <1>2, <3>1, SMTT(60), Z3T(60)
        <4>2. f[m - 1] = g[m - 1]
          BY <4>1, ZenonT(60)
        <4> HIDE DEF f
        <4>3. h[i] = Grow(d, f[m - 1])
          BY <3>1, <4>1, ZenonT(60)
        <4> QED
          BY <4>1, <4>2, <4>3, ZenonT(60)
      <3>2. CASE i # m
        <4>1. i \in 0 .. m - 1 /\ f[i] = g[i]
          BY <3>2, SMTT(60), Z3T(60)
        <4>2. g[i] = IF i = 0 THEN {k} \ {None} ELSE Grow(d, g[i - 1])
          BY <1>4, <4>1, ZenonT(60) DEF AreLevels
        <4>3. i # 0 => i - 1 \in 0 .. m /\ i - 1 # m
          BY <4>1, SMTT(60), Z3T(60)
        <4>4. i # 0 => f[i - 1] = g[i - 1]
          BY <4>3, ZenonT(60)
        <4> HIDE DEF f
        <4>5. h[i] = IF i = 0 THEN {k} \ {None} ELSE Grow(d, f[i - 1])
          BY ZenonT(60)
        <4> QED
          BY <4>1, <4>2, <4>4, <4>5, ZenonT(60)
      <3> QED
        BY <3>1, <3>2, ZenonT(60)
    <2>2. f = h
      BY <2>1, ZenonT(60)
    <2> HIDE DEF f
    <2> QED
      BY <2>2, ZenonT(60) DEF AreLevels
  <1> QED
    BY <1>1, <1>5, ZenonT(60)

\* So the chain has levels.
LEMMA ChainLevels ==
  ASSUME NEW d, NEW k
  PROVE \E f : AreLevels(f, d, k, Top) /\ ChainIn(d, k) = f[Top]
  BY LevelsExist, TopIsNat, ZenonT(60) DEF ChainIn

\* A level is the one before it and its parents.
Starts(f, k) == f[0] = {k} \ {None}
Grows(f, d, i) == f[i] = Grow(d, f[i - 1])

\* That is what Chain computes.
LEMMA LevelFacts ==
  ASSUME NEW d, NEW k, NEW f, AreLevels(f, d, k, Top)
  PROVE Starts(f, k) /\ \A i \in 1 .. Top : Grows(f, d, i)
  <1>1. 0 \in 0 .. Top /\ \A i \in 1 .. Top : i \in 0 .. Top /\ i # 0
    BY TopIsNat, SMTT(60), Z3T(60)
  <1> QED
    BY <1>1, ZenonT(60) DEF AreLevels, Starts, Grows

\* What holds of the snapshot and goes from a snapshot to its parent holds of
\* the layers below.
LEMMA ChainWithin ==
  ASSUME NEW d, NEW k, NEW S, {k} \ {None} \subseteq S,
         \A R : R \subseteq S => Grow(d, R) \subseteq S
  PROVE ChainIn(d, k) \subseteq S
  <1>1. PICK f : AreLevels(f, d, k, Top) /\ ChainIn(d, k) = f[Top]
    BY ChainLevels, ZenonT(60)
  <1> DEFINE T == {i \in 0 .. Top : ~(f[i] \subseteq S)}
  <1>2. CASE T # {}
    <2>1. PICK m \in T : \A y \in T : m <= y
      <3>1. T \in SUBSET Nat
        BY SMTT(60), Z3T(60)
      <3> QED
        BY <1>2, <3>1, Least, ZenonT(60)
    <2>2. m # 0
      <3>1. Starts(f, k)
        BY <1>1, LevelFacts, ZenonT(60)
      <3> QED
        BY <3>1, ZenonT(60) DEF Starts
    <2>3. m \in 1 .. Top /\ m - 1 \in 0 .. Top /\ ~(m <= m - 1)
      BY <2>2, TopIsNat, SMTT(60), Z3T(60)
    <2>4. f[m - 1] \subseteq S
      BY <2>1, <2>3, ZenonT(60)
    <2>5. Grows(f, d, m)
      BY <1>1, <2>3, LevelFacts, ZenonT(60)
    <2> QED
      BY <2>1, <2>4, <2>5, ZenonT(60) DEF Grows
  <1>3. CASE T = {}
    <2>1. Top \in 0 .. Top
      BY TopIsNat, SMTT(60), Z3T(60)
    <2> QED
      BY <1>1, <1>3, <2>1, ZenonT(60)
  <1> QED
    BY <1>2, <1>3, ZenonT(60)

\* Every level is part of the chain.
LEMMA LevelsInChain ==
  ASSUME NEW d, NEW k, NEW f, AreLevels(f, d, k, Top), NEW i \in 0 .. Top
  PROVE f[i] \subseteq f[Top]
  <1> DEFINE T == {j \in 0 .. Top : ~(f[Top - j] \subseteq f[Top])}
  <1>1. CASE T # {}
    <2>1. PICK m \in T : \A y \in T : m <= y
      <3>1. T \in SUBSET Nat
        BY SMTT(60), Z3T(60)
      <3> QED
        BY <1>1, <3>1, Least, ZenonT(60)
    <2>2. m # 0
      <3>1. Top - 0 = Top
        BY TopIsNat, SMTT(60), Z3T(60)
      <3> QED
        BY <3>1, <2>1, ZenonT(60)
    <2>3. /\ m - 1 \in 0 .. Top /\ ~(m <= m - 1) /\ Top - (m - 1) \in 1 .. Top
          /\ (Top - (m - 1)) - 1 = Top - m
      BY <2>2, TopIsNat, SMTT(60), Z3T(60)
    <2>4. f[Top - (m - 1)] \subseteq f[Top]
      BY <2>1, <2>3, ZenonT(60)
    <2>5. Grows(f, d, Top - (m - 1))
      BY <2>3, LevelFacts, ZenonT(60)
    <2>6. f[Top - m] \subseteq Grow(d, f[Top - m])
      BY ZenonT(60) DEF Grow
    <2> QED
      BY <2>1, <2>3, <2>4, <2>5, <2>6, ZenonT(60) DEF Grows
  <1>2. CASE T = {}
    <2>1. Top - i \in 0 .. Top /\ Top - (Top - i) = i
      BY TopIsNat, SMTT(60), Z3T(60)
    <2> QED
      BY <1>2, <2>1, ZenonT(60)
  <1> QED
    BY <1>1, <1>2, ZenonT(60)

\* A database that agrees on the layers of a chain has the same chain.
LEMMA SameChain ==
  ASSUME NEW d, NEW e, NEW k, \A n \in ChainIn(d, k) : e[n] = d[n]
  PROVE ChainIn(e, k) = ChainIn(d, k)
  <1>1. PICK f : AreLevels(f, d, k, Top) /\ ChainIn(d, k) = f[Top]
    BY ChainLevels, ZenonT(60)
  <1>2. PICK g : AreLevels(g, e, k, Top) /\ ChainIn(e, k) = g[Top]
    BY ChainLevels, ZenonT(60)
  <1> DEFINE T == {i \in 0 .. Top : f[i] # g[i]}
  <1>3. CASE T # {}
    <2>1. PICK m \in T : \A y \in T : m <= y
      <3>1. T \in SUBSET Nat
        BY SMTT(60), Z3T(60)
      <3> QED
        BY <1>3, <3>1, Least, ZenonT(60)
    <2>2. m # 0
      <3>1. Starts(f, k) /\ Starts(g, k)
        BY <1>1, <1>2, LevelFacts, ZenonT(60)
      <3> QED
        BY <2>1, <3>1, ZenonT(60) DEF Starts
    <2>3. m \in 1 .. Top /\ m - 1 \in 0 .. Top /\ ~(m <= m - 1)
      BY <2>2, TopIsNat, SMTT(60), Z3T(60)
    <2>4. f[m - 1] = g[m - 1]
      BY <2>1, <2>3, ZenonT(60)
    <2>5. Grows(f, d, m) /\ Grows(g, e, m)
      BY <1>1, <1>2, <2>3, LevelFacts, ZenonT(60)
    <2>6. \A n \in f[m - 1] : e[n] = d[n]
      BY <1>1, <2>3, LevelsInChain, ZenonT(60)
    <2>7. Grow(d, f[m - 1]) = Grow(e, f[m - 1])
      BY <2>6, ZenonT(60) DEF Grow
    <2> QED
      BY <2>1, <2>4, <2>5, <2>7, ZenonT(60) DEF Grows
  <1>4. CASE T = {}
    <2>1. Top \in 0 .. Top
      BY TopIsNat, SMTT(60), Z3T(60)
    <2> QED
      BY <1>1, <1>2, <1>4, <2>1, ZenonT(60)
  <1> QED
    BY <1>3, <1>4, ZenonT(60)

\* A layer below a snapshot is committed under a name and the parent of a
\* snapshot, so that Remove refuses to remove it.
LEMMA ChainLayers ==
  ASSUME NEW d \in [Snapshots -> Entries \cup {None}], NEW k \in Names \cup {None}, NEW n \in ChainIn(d, k)
  PROVE n \in Names /\ (n = k \/ \E m \in Snapshots : d[m] # None /\ d[m].parent = n)
  <1> DEFINE S == {x \in Names : x = k \/ \E m \in Snapshots : d[m] # None /\ d[m].parent = x}
  <1>1. ASSUME NEW R \in SUBSET S, NEW x \in Grow(d, R) PROVE x \in S
    <2>1. CASE x \in R
      BY <2>1, ZenonT(60)
    <2>2. CASE x \notin R
      <3>1. PICK m \in R : d[m] # None /\ x = d[m].parent /\ x # None
        BY <1>1, <2>2, ZenonT(60) DEF Grow
      <3>2. m \in Snapshots
        BY ZenonT(60) DEF Snapshots
      <3>3. d[m] \in Entries
        BY <3>1, <3>2, ZenonT(60)
      <3>4. d[m].parent \in Names \cup {None}
        BY <3>3, ZenonT(60) DEF Entries
      <3> QED
        BY <3>1, <3>2, <3>4, ZenonT(60)
    <2> QED
      BY <2>1, <2>2, ZenonT(60)
  <1>2. {k} \ {None} \subseteq S
    BY ZenonT(60)
  <1> HIDE DEF S
  <1>3. ChainIn(d, k) \subseteq S
    BY <1>1, <1>2, ChainWithin, ZenonT(60)
  <1> QED
    BY <1>3, ZenonT(60) DEF S
-----------------------------------------------------------------------------
(***************************************************************************)
(* Why a remote snapshot is mounted while the process runs.  Prepare       *)
(* commits it only after its mount and has its key for itself, so that the *)
(* directory it mounted is that of the snapshot it commits; unmounts are   *)
(* of free directories, until the shutdown; and a restart mounts the       *)
(* snapshots one by one before any call.                                   *)
(***************************************************************************)
Closing == {"close", "unmountAll"}

\* Calls in progress work on different keys.
OneCallPerKey ==
    \A c, d \in Callers : c # d /\ arg[c].key # None => arg[c].key # arg[d].key

\* The garbage collector does not shut the process down.
ClientsClose == \A c \in Callers : pc[c] \in Closing => c \in Clients

\* A Prepare that mounts has mounted the directory of the snapshot of its key.
Mounting(c) ==
    /\ pc[c] \in {"mount", "commitRemote"} => db[arg[c].key].id = new[c]
    /\ pc[c] = "commitRemote" /\ NoClose /\ db[arg[c].key] # None => new[c] \in mounted

\* The snapshot of a Prepare keeps the parent it was created on ...
Rooted(c) ==
    pc[c] \in {"mount", "fallback", "deferred", "local"} =>
        db[arg[c].key] # None /\ db[arg[c].key].parent = arg[c].parent

\* ... and the layers below that checkAvailability has found.
AllServed(k) == \A n \in ChainIn(db, k) : db[n] # None /\ (db[n].remote => db[n].id \in mounted)
KeepsLayers(c) == pc[c] = "local" /\ NoClose /\ "fuse" \notin Faults => AllServed(arg[c].parent)

\* A layer is in the table only if it is mounted, unless a FUSE server failed.
TableIsMounted ==
    ("fuse" \notin Faults => layers \subseteq mounted) /\ (up = "down" => layers = {})

\* The remote snapshots are mounted, but for those still to restore.
Served(S) == \A n \in Remote \ S : db[n].id \in mounted

MountInv ==
    /\ OneCallPerKey /\ ClientsClose /\ TableIsMounted
    /\ \A c \in Callers : Mounting(c) /\ Rooted(c) /\ KeepsLayers(c)
    /\ ~config.allowInvalid => /\ up = "running" /\ NoClose => Served({})
                               /\ up = "restoring" => Served(toRestore)

\* Snapshots are entries, and None is none.
LEMMA EntryFacts ==
  ASSUME Shape
  PROVE /\ None \notin Snapshots /\ Names \subseteq Snapshots /\ Keys \subseteq Snapshots
        /\ Keys \cap Names = {}
        /\ \A k \in Snapshots : db[k] # None => db[k] \in Entries
  BY SnapshotterAssumption, ZenonT(60) DEF Shape, DbTypes, Snapshots

\* What is left to show for a step of one call.
LEMMA MountFrame ==
  ASSUME Shape, MountInv, NEW c \in Callers, Only(c),
         up = "running", UNCHANGED <<up, config>>,
         arg'[c].key = arg[c].key \/ \A d \in Callers : arg'[c].key = None \/ arg[d].key # arg'[c].key,
         pc[c] \in Closing => pc'[c] \in Closing, pc'[c] \in Closing => c \in Clients,
         \A k \in Keys : k # arg[c].key => db'[k] = db[k],
         \A n \in Names : db[n] # None => db'[n] = db[n] \/ Removable(n),
         "fuse" \notin Faults => layers' \subseteq mounted',
         NoClose' => \A k \in Snapshots :
             db[k] # None /\ db[k].id \in mounted => db[k].id \in mounted',
         NoClose' => \A n \in Remote' : (n \in Remote /\ db'[n] = db[n]) \/ db'[n].id \in mounted',
         Mounting(c)', Rooted(c)', KeepsLayers(c)'
  PROVE MountInv'
  <1>1. \A d \in Callers \ {c} : UNCHANGED <<pc[d], arg[d], new[d]>>
    BY ZenonT(60) DEF Only
  <1>2. ASSUME NEW a \in Callers, NEW b \in Callers, a # b, arg'[a].key # None
        PROVE  arg'[a].key # arg'[b].key
    <2>1. arg[a].key # None => arg[a].key # arg[b].key
      BY <1>2, ZenonT(60) DEF MountInv, OneCallPerKey
    <2>2. CASE arg'[c].key = arg[c].key
      <3>1. arg'[a].key = arg[a].key /\ arg'[b].key = arg[b].key
        BY <1>1, <2>2, ZenonT(60)
      <3> QED
        BY <1>2, <2>1, <3>1, ZenonT(60)
    <2>3. CASE \A d \in Callers : arg'[c].key = None \/ arg[d].key # arg'[c].key
      BY <1>1, <1>2, <2>1, <2>3, ZenonT(60)
    <2> QED
      BY <2>2, <2>3, ZenonT(60)
  <1>3. ClientsClose'
    BY <1>1, ZenonT(60) DEF MountInv, ClientsClose
  <1>4. NoClose' => NoClose
    <2>1. \A d \in Clients : d \in Callers
      BY ZenonT(60) DEF Callers
    <2> QED
      BY <1>1, <2>1, ZenonT(60) DEF NoClose, Closing
  <1>k. ASSUME NEW d \in Callers \ {c}, pc[d] \in LayerSteps
        PROVE  db'[arg[d].key] = db[arg[d].key] /\ arg[d].key \in Keys
    <2>1. arg[d].key \in Keys /\ arg[d].key # None
      BY <1>k, EntryFacts, ZenonT(60) DEF Shape, CallsFit, ArgsFit
    <2>2. arg[d].key # arg[c].key
      BY <2>1, ZenonT(60) DEF MountInv, OneCallPerKey
    <2> QED
      BY <2>1, <2>2, ZenonT(60)
  <1>5. ASSUME NEW d \in Callers PROVE Mounting(d)'
    <2>1. CASE d = c
      BY <2>1, ZenonT(60)
    <2>2. CASE d # c
      <3>1. pc'[d] = pc[d] /\ arg'[d] = arg[d] /\ new'[d] = new[d] /\ Mounting(d)
        BY <1>1, <2>2, ZenonT(60) DEF MountInv
      <3>2. pc[d] \in {"mount", "commitRemote"} =>
              db'[arg[d].key] = db[arg[d].key] /\ arg[d].key \in Snapshots
        BY <1>k, <2>2, EntryFacts, ZenonT(60) DEF LayerSteps
      <3>3. pc[d] = "commitRemote" => pc[d] \in {"mount", "commitRemote"}
        BY ZenonT(60)
      <3> QED
        BY <1>4, <3>1, <3>2, <3>3, ZenonT(60) DEF Mounting
    <2> QED
      BY <2>1, <2>2, ZenonT(60)
  <1>6. ASSUME ~config'.allowInvalid, NoClose' PROVE Served({})'
    <2>1. Served({}) /\ NoClose
      BY <1>4, <1>6, ZenonT(60) DEF MountInv
    <2>2. \A n \in Remote : n \in Snapshots /\ db[n] # None /\ db[n].id \in mounted
      BY <2>1, EntryFacts, ZenonT(60) DEF Served, Remote, Committed
    <2> QED
      BY <1>6, <2>2, ZenonT(60) DEF Served
  <1>7. up' # "restoring" /\ up' # "down"
    BY ZenonT(60)
  <1>8. ASSUME NEW d \in Callers PROVE Rooted(d)'
    <2>1. CASE d # c
      <3>1. Rooted(d) /\ pc'[d] = pc[d] /\ arg'[d] = arg[d]
        BY <1>1, <2>1, ZenonT(60) DEF MountInv
      <3>2. pc[d] \in {"mount", "fallback", "deferred", "local"} => db'[arg[d].key] = db[arg[d].key]
        BY <1>k, <2>1, ZenonT(60) DEF LayerSteps
      <3> QED
        BY <3>1, <3>2, ZenonT(60) DEF Rooted
    <2> QED
      BY <2>1, ZenonT(60)
  <1>9. ASSUME NEW d \in Callers \ {c}, pc'[d] = "local", NoClose', "fuse" \notin Faults
        PROVE  AllServed(arg[d].parent)'
    <2> DEFINE q == arg[d].parent
               b == arg[d].key
    <2>1. pc[d] = "local" /\ pc[d] \in LayerSteps /\ arg'[d] = arg[d]
      BY <1>1, <1>9, ZenonT(60) DEF LayerSteps
    <2>2. b \in Snapshots /\ db[b] # None /\ db[b].parent = q /\ AllServed(q)
      BY <1>4, <1>9, <1>k, <2>1, EntryFacts, ZenonT(60) DEF MountInv, Rooted, KeepsLayers
    <2>3. q \in Names \cup {None}
      <3>1. db[b] \in Entries
        BY <2>2, EntryFacts, ZenonT(60)
      <3>2. db[b].parent \in Names \cup {None}
        BY <3>1, ZenonT(60) DEF Entries
      <3> QED
        BY <2>2, <3>2, ZenonT(60)
    <2> HIDE DEF q, b
    <2>4. ASSUME NEW n \in ChainIn(db, q)
          PROVE  n \in Snapshots /\ db'[n] = db[n] /\ db[n] # None
      <3>1. n \in Names /\ (n = q \/ \E m \in Snapshots : db[m] # None /\ db[m].parent = n)
        BY <2>3, <2>4, ChainLayers, ZenonT(60) DEF Shape, DbTypes
      <3>2. ~Removable(n)
        BY <2>2, <3>1, ZenonT(60) DEF Removable
      <3>3. db[n] # None
        BY <2>2, <2>4, ZenonT(60) DEF AllServed
      <3> QED
        BY <3>1, <3>2, <3>3, EntryFacts, ZenonT(60)
    <2>5. ChainIn(db', q) = ChainIn(db, q)
      BY <2>4, SameChain, ZenonT(60)
    <2>6. \A n \in ChainIn(db', q) : db'[n] # None /\ (db'[n].remote => db'[n].id \in mounted')
      BY <1>9, <2>2, <2>4, <2>5, ZenonT(60) DEF AllServed
    <2>7. arg'[d].parent = q
      BY <2>1, ZenonT(60) DEF q
    <2> QED
      BY <2>6, <2>7, ZenonT(60) DEF AllServed
  <1>10. ASSUME NEW d \in Callers PROVE KeepsLayers(d)'
    BY <1>9, ZenonT(60) DEF KeepsLayers
  <1>11. TableIsMounted'
    BY <1>7, ZenonT(60) DEF TableIsMounted
  <1> QED
    BY <1>2, <1>3, <1>5, <1>6, <1>7, <1>8, <1>10, <1>11, ZenonT(60) DEF MountInv, OneCallPerKey

\* Steps that leave database and mounts alone.
LEMMA MountQuiet ==
  ASSUME Shape, MountInv, NEW c \in Callers, Only(c), up = "running",
         UNCHANGED <<db, mounted, layers, up, config>>,
         arg'[c].key = arg[c].key \/ \A d \in Callers : arg'[c].key = None \/ arg[d].key # arg'[c].key,
         pc[c] \in Closing => pc'[c] \in Closing, pc'[c] \in Closing => c \in Clients,
         pc'[c] \notin {"mount", "fallback", "deferred", "local", "commitRemote"}
  PROVE MountInv'
  <1>1. Mounting(c)' /\ Rooted(c)' /\ KeepsLayers(c)'
    BY ZenonT(60) DEF Mounting, Rooted, KeepsLayers
  <1>2. Remote' = Remote
    BY ZenonT(60) DEF Remote, Committed
  <1>3. "fuse" \notin Faults => layers \subseteq mounted
    BY ZenonT(60) DEF MountInv, TableIsMounted
  <1> QED
    BY <1>1, <1>2, <1>3, MountFrame, ZenonT(60)

\* checkAvailability finds layers in the table, and these are mounted.
LEMMA AvailableIsServed ==
  ASSUME MountInv, NEW k, Available(k), "fuse" \notin Faults
  PROVE AllServed(k)
  <1>1. layers \subseteq mounted
    BY ZenonT(60) DEF MountInv, TableIsMounted
  <1> QED
    BY <1>1, ChainIsIn, ZenonT(60) DEF Available, AllServed

\* Prepare and Mounts go on only with the layers below available.
LEMMA OnlyAvailable ==
  ASSUME Shape, NEW c \in Callers, Fallback(c) \/ mounts(c), pc'[c] # "idle"
  PROVE Available(arg[c].parent) /\ arg' = arg
  <1>1. ~Return(c)
    BY ZenonT(60) DEF Return, Goto, Shape, CallTypes
  <1>2. PICK available \in checkAvailability(arg[c].parent) : available /\ UNCHANGED callVars
    BY <1>1, ZenonT(60) DEF Fallback, mounts
  <1> QED
    BY <1>2, ZenonT(60) DEF checkAvailability, callVars

\* The steps of a call that change neither the database nor the mounts.
LEMMA QuietMounts ==
  ASSUME Shape, MountInv, NEW c \in Callers,
         \/ prepareDirectory(c) \/ Rename(c) \/ Fallback(c) \/ prepareLocalSnapshot(c)
         \/ mounts(c) \/ HandOut(c) \/ cleanupDirectories(c) \/ RemoveAll(c) \/ Deleted(c)
         \/ unmountAllSnapshots(c)
  PROVE MountInv'
  <1>1. /\ pc[c] # "idle" /\ UNCHANGED <<db, mounted, layers, up, config>>
        /\ pc[c] \in Closing => unmountAllSnapshots(c)
    BY ZenonT(60) DEF prepareDirectory, Rename, Fallback, prepareLocalSnapshot, mounts, HandOut,
       cleanupDirectories, RemoveAll, Deleted, unmountAllSnapshots, Closing, dbVars, diskVars, upVars
  <1>2. up = "running"
    BY <1>1, ZenonT(60) DEF Shape, RestoresFirst
  <1>3. PICK l \in {"create", "commitNew", "delete", "parallel", "handOut", "local", "commitLocal",
                    "idle", "unmountAll"} :
          /\ pc' = [pc EXCEPT ![c] = l] /\ (l = "unmountAll" <=> unmountAllSnapshots(c))
          /\ l = "local" => Fallback(c)
    <2>1. CASE prepareDirectory(c) \/ Rename(c) \/ cleanupDirectories(c) \/ RemoveAll(c)
      BY <2>1, ZenonT(60) DEF prepareDirectory, Rename, cleanupDirectories, RemoveAll, Rollback, Goto,
         unmountAllSnapshots
    <2>2. CASE Fallback(c) \/ prepareLocalSnapshot(c) \/ mounts(c) \/ HandOut(c) \/ Deleted(c)
      BY <2>2, ZenonT(60) DEF Fallback, prepareLocalSnapshot, mounts, HandOut, Deleted, Return, Goto,
         unmountAllSnapshots
    <2>3. CASE unmountAllSnapshots(c)
      BY <2>3, ZenonT(60) DEF unmountAllSnapshots, Goto
    <2> QED
      BY <2>1, <2>2, <2>3, ZenonT(60)
  <1>4. \/ arg' = arg \/ arg' = [arg EXCEPT ![c] = NoArg]
    BY ZenonT(60) DEF prepareDirectory, Rename, Fallback, prepareLocalSnapshot, mounts, HandOut,
       cleanupDirectories, RemoveAll, Deleted, unmountAllSnapshots, Return, callVars
  <1>5. /\ \E x : new' = [new EXCEPT ![c] = x]
        /\ \E x : todo' = [todo EXCEPT ![c] = x]
        /\ \E x : cur' = [cur EXCEPT ![c] = x]
    <2>1. /\ new = [new EXCEPT ![c] = new[c]] /\ todo = [todo EXCEPT ![c] = todo[c]]
          /\ cur = [cur EXCEPT ![c] = cur[c]]
      BY ZenonT(60) DEF Shape, CallTypes
    <2>2. /\ new' = new \/ \E x : new' = [new EXCEPT ![c] = x]
          /\ todo' = todo \/ \E x : todo' = [todo EXCEPT ![c] = x]
          /\ cur' = cur \/ \E x : cur' = [cur EXCEPT ![c] = x]
      BY ZenonT(60) DEF prepareDirectory, Rename, Fallback, prepareLocalSnapshot, mounts, HandOut,
         cleanupDirectories, RemoveAll, Deleted, unmountAllSnapshots, Return, Rollback, callVars
    <2> QED
      BY <2>1, <2>2, ZenonT(60)
  <1>6. /\ Only(c) /\ pc'[c] = l
        /\ arg'[c].key = arg[c].key \/ arg'[c].key = None
    <2>1. pc'[c] = l /\ \A d \in Callers \ {c} : UNCHANGED <<pc[d], new[d], todo[d], cur[d]>>
      BY <1>3, <1>5, ZenonT(60) DEF Shape, CallTypes
    <2>2. \A d \in Callers \ {c} : UNCHANGED arg[d]
      BY <1>4, ZenonT(60) DEF Shape, CallTypes
    <2>3. arg'[c] = arg[c] \/ arg'[c] = NoArg
      BY <1>4, ZenonT(60) DEF Shape, CallTypes
    <2>4. NoArg.key = None
      BY ZenonT(60) DEF NoArg
    <2> QED
      BY <2>1, <2>2, <2>3, <2>4, ZenonT(60) DEF Only
  <1>7. unmountAllSnapshots(c) => c \in Clients
    BY ZenonT(60) DEF unmountAllSnapshots, MountInv, ClientsClose, Closing
  <1>8. /\ pc[c] \in Closing => pc'[c] \in Closing
        /\ pc'[c] \in Closing => c \in Clients
        /\ pc'[c] \notin {"mount", "fallback", "deferred", "commitRemote"}
    BY <1>1, <1>3, <1>6, <1>7, ZenonT(60) DEF Closing
  <1>9. CASE l # "local"
    BY <1>1, <1>2, <1>6, <1>8, <1>9, MountQuiet, ZenonT(60)
  <1>10. CASE l = "local"
    <2>1. pc[c] \in {"fallback", "deferred"} /\ Available(arg[c].parent) /\ arg' = arg
      BY <1>3, <1>6, <1>10, OnlyAvailable, ZenonT(60) DEF Fallback
    <2>2. Rooted(c)' /\ Mounting(c)'
      BY <1>1, <1>6, <1>8, <2>1, ZenonT(60) DEF MountInv, Rooted, Mounting
    <2>3. KeepsLayers(c)'
      <3>1. "fuse" \notin Faults => AllServed(arg[c].parent)
        BY <2>1, AvailableIsServed, ZenonT(60)
      <3> QED
        BY <1>1, <2>1, <3>1, ZenonT(60) DEF KeepsLayers, AllServed
    <2>4. Remote' = Remote
      BY <1>1, ZenonT(60) DEF Remote, Committed
    <2>5. "fuse" \notin Faults => layers \subseteq mounted
      BY ZenonT(60) DEF MountInv, TableIsMounted
    <2> QED
      BY <1>1, <1>2, <1>6, <1>8, <2>2, <2>3, <2>4, <2>5, MountFrame, ZenonT(60)
  <1> QED
    BY <1>9, <1>10, ZenonT(60)

\* A call begins.
LEMMA CallMount ==
  ASSUME Shape, MountInv, NEW c \in Callers,
         NEW o \in {"begin", "commitLocal", "remove", "mounts", "scan", "close"}, NEW a \in Args,
         Call(c, o, a), o = "close" => c \in Clients
  PROVE MountInv'
  <1>1. /\ up = "running" /\ pc[c] = "idle" /\ UNCHANGED <<db, mounted, layers, up, config, new, todo, cur>>
        /\ pc' = [pc EXCEPT ![c] = o] /\ arg' = [arg EXCEPT ![c] = a]
        /\ \A d \in Callers : a.key = None \/ arg[d].key # a.key
    BY ZenonT(60) DEF Call, Goto, dbVars, diskVars, upVars
  <1>2. Only(c) /\ pc'[c] = o /\ arg'[c] = a
    BY <1>1, ZenonT(60) DEF Only, Shape, CallTypes
  <1>3. pc[c] \notin Closing /\ (pc'[c] \in Closing => c \in Clients)
        /\ pc'[c] \notin {"mount", "fallback", "deferred", "local", "commitRemote"}
    BY <1>1, <1>2, ZenonT(60) DEF Closing
  <1> QED
    BY <1>1, <1>2, <1>3, MountQuiet, ZenonT(60)

\* createSnapshot commits an entry that is not a remote one, under its key.
LEMMA CommitNewMount ==
  ASSUME Shape, MountInv, NEW c \in Callers, CommitNew(c)
  PROVE MountInv'
  <1> DEFINE k == arg[c].key
             e == [id |-> new[c], kind |-> arg[c].kind, parent |-> arg[c].parent, remote |-> FALSE]
  <1>1. pc[c] = "commitNew" /\ UNCHANGED <<mounted, layers, up, config, arg, new, cur>>
    BY ZenonT(60) DEF CommitNew, diskVars, upVars
  <1>2. up = "running" /\ pc[c] \notin Closing /\ k \in Keys /\ k \in Snapshots
    BY <1>1, EntryFacts, ZenonT(60) DEF Shape, RestoresFirst, CallsFit, ArgsFit, Closing
  <1>3. \/ /\ db' = db /\ pc' = [pc EXCEPT ![c] = "delete"]
           /\ todo' = [todo EXCEPT ![c] = {new[c]}]
        \/ /\ db' = [db EXCEPT ![k] = e] /\ UNCHANGED todo
           /\ \E l \in {"mounts", "fallback", "mount"} : pc' = [pc EXCEPT ![c] = l]
    BY ZenonT(60) DEF CommitNew, Rollback, Goto, afterCreate, dbVars
  <1>4. Only(c) /\ pc'[c] \in {"delete", "mounts", "fallback", "mount"}
    BY <1>1, <1>3, ZenonT(60) DEF Only, Shape, CallTypes
  <1>5. CASE db' = db /\ pc' = [pc EXCEPT ![c] = "delete"]
    <2>1. pc'[c] = "delete" /\ pc'[c] \notin Closing /\ arg'[c].key = arg[c].key
      BY <1>1, <1>5, ZenonT(60) DEF Shape, CallTypes, Closing
    <2> QED
      BY <1>1, <1>2, <1>4, <1>5, <2>1, MountQuiet, ZenonT(60)
  <1>6. CASE db' = [db EXCEPT ![k] = e]
    <2>1. e.id = new[c] /\ e.parent = arg[c].parent
      BY ZenonT(60)
    <2>e. e # None
      <3>1. new[c] = seq + 1 /\ arg[c].kind \in Kinds /\ arg[c].parent \in Names \cup {None}
        BY <1>1, ZenonT(60) DEF Shape, CallsFit, ArgsFit, CreatorIsWriter, Kinds
      <3>2. seq + 1 \in Nat
        BY SMTT(60), Z3T(60) DEF Shape, DbTypes
      <3>3. e \in Entries
        BY <3>1, <3>2, ZenonT(60) DEF Entries
      <3>4. None \notin Entries
        BY NoneIsNoEntry, ZenonT(60) DEF Entries
      <3> QED
        BY <3>3, <3>4, ZenonT(60)
    <2> HIDE DEF e
    <2>2. db'[k] = e /\ \A l \in Snapshots : l # k => db'[l] = db[l]
      BY <1>2, <1>6, ZenonT(60) DEF Shape, DbTypes
    <2>3. Mounting(c)' /\ Rooted(c)' /\ KeepsLayers(c)'
      BY <1>1, <1>4, <2>1, <2>2, <2>e, ZenonT(60) DEF Mounting, Rooted, KeepsLayers
    <2>4. /\ \A l \in Keys : l # k => db'[l] = db[l]
          /\ \A n \in Names : db'[n] = db[n]
      BY <1>2, <2>2, EntryFacts, ZenonT(60)
    <2>7. "fuse" \notin Faults => layers \subseteq mounted
      BY ZenonT(60) DEF MountInv, TableIsMounted
    <2>5. ASSUME NEW n \in Remote' PROVE n \in Remote /\ db'[n] = db[n]
      <3>1. n \in Names /\ n # k /\ n \in Snapshots /\ db'[n] # None /\ db'[n].remote
        BY <1>2, <2>5, EntryFacts, ZenonT(60) DEF Remote, Committed
      <3> QED
        BY <2>2, <3>1, ZenonT(60) DEF Remote, Committed
    <2>6. pc'[c] \notin Closing /\ arg'[c].key = arg[c].key
      BY <1>1, <1>4, ZenonT(60) DEF Closing
    <2> QED
      BY <1>1, <1>2, <1>4, <2>3, <2>4, <2>5, <2>6, <2>7, MountFrame, ZenonT(60)
  <1> QED
    BY <1>3, <1>5, <1>6, ZenonT(60)

\* A lazy mount that succeeds is one of the new snapshot's directory.
LEMMA PrepareRemoteMount ==
  ASSUME Shape, MountInv, NEW c \in Callers, prepareRemoteSnapshot(c)
  PROVE MountInv'
  <1>1. pc[c] = "mount" /\ UNCHANGED <<db, up, config, arg, new, todo, cur>>
    BY ZenonT(60) DEF prepareRemoteSnapshot, dbVars, upVars, callVars
  <1>2. up = "running" /\ pc[c] \notin Closing
    BY <1>1, ZenonT(60) DEF Shape, RestoresFirst, Closing
  <1>3. /\ mounted \subseteq mounted' /\ ("fuse" \notin Faults => layers' \subseteq mounted')
        /\ \/ pc' = [pc EXCEPT ![c] = "commitRemote"] /\ new[c] \in mounted'
           \/ \E l \in {"deferred", "fallback"} : pc' = [pc EXCEPT ![c] = l]
    <2>1. PICK o \in MountOutcomes :
            /\ mount(new[c], o)
            /\ Goto(c, CASE o = "ok" -> "commitRemote"
                         [] o = "noIndex" -> "deferred"
                         [] OTHER -> "fallback")
      BY ZenonT(60) DEF prepareRemoteSnapshot
    <2>t. "fuse" \notin Faults => layers \subseteq mounted /\ o # "fuse"
      BY ZenonT(60) DEF MountInv, TableIsMounted, MountOutcomes
    <2>2. CASE o = "ok"
      <3>1. mounted' = mounted \cup {new[c]} /\ layers' = layers \cup {new[c]}
        BY <2>1, <2>2, ZenonT(60) DEF mount
      <3>2. pc' = [pc EXCEPT ![c] = "commitRemote"]
        BY <2>1, <2>2, ZenonT(60) DEF Goto
      <3> QED
        BY <2>t, <3>1, <3>2, ZenonT(60)
    <2>3. CASE o # "ok"
      <3>1. mounted' = mounted /\ (o # "fuse" => layers' = layers)
        BY <2>1, <2>3, ZenonT(60) DEF mount
      <3>2. \E l \in {"deferred", "fallback"} : pc' = [pc EXCEPT ![c] = l]
        BY <2>1, <2>3, ZenonT(60) DEF Goto
      <3> QED
        BY <2>t, <3>1, <3>2, ZenonT(60)
    <2> QED
      BY <2>2, <2>3, ZenonT(60)
  <1>4. /\ Only(c) /\ pc'[c] \in {"commitRemote", "deferred", "fallback"}
        /\ pc'[c] = "commitRemote" => new[c] \in mounted'
    BY <1>1, <1>3, ZenonT(60) DEF Only, Shape, CallTypes
  <1>5. db[arg[c].key].id = new[c]
    BY <1>1, ZenonT(60) DEF MountInv, Mounting
  <1>6. Mounting(c)' /\ KeepsLayers(c)'
    BY <1>1, <1>4, <1>5, ZenonT(60) DEF Mounting, KeepsLayers
  <1>9. Rooted(c)'
    BY <1>1, <1>4, ZenonT(60) DEF MountInv, Rooted
  <1>7. Remote' = Remote
    BY <1>1, ZenonT(60) DEF Remote, Committed
  <1>8. pc'[c] \notin Closing /\ arg'[c].key = arg[c].key
    BY <1>1, <1>4, ZenonT(60) DEF Closing
  <1> QED
    BY <1>1, <1>2, <1>3, <1>4, <1>6, <1>7, <1>8, <1>9, MountFrame, ZenonT(60)

\* Prepare commits as remote what it has mounted.
LEMMA CommitMount ==
  ASSUME Shape, MountInv, NEW c \in Callers, commit(c)
  PROVE MountInv'
  <1> DEFINE k == arg[c].key
             t == arg[c].target
             e == [db[k] EXCEPT !.kind = "committed", !.remote = (pc[c] = "commitRemote")]
  <1>1. /\ pc[c] \in {"commitRemote", "commitLocal"} /\ pc' = [pc EXCEPT ![c] = "idle"]
        /\ UNCHANGED <<mounted, layers, up, config, todo, cur>> /\ new' = [new EXCEPT ![c] = 0]
        /\ arg' = [arg EXCEPT ![c] = NoArg]
    BY ZenonT(60) DEF commit, Return, Goto, diskVars, upVars
  <1>2. up = "running" /\ pc[c] \notin Closing
    BY <1>1, ZenonT(60) DEF Shape, RestoresFirst, Closing
  <1>3. Only(c) /\ pc'[c] = "idle" /\ arg'[c] = NoArg
    BY <1>1, ZenonT(60) DEF Only, Shape, CallTypes
  <1>4. NoArg.key = None
    BY ZenonT(60) DEF NoArg
  <1>5. k \in Keys /\ t \in Names /\ k # t /\ k \in Snapshots /\ t \in Snapshots
    BY <1>1, EntryFacts, ZenonT(60) DEF Shape, CallsFit, ArgsFit, LayerSteps
  <1>6. \/ db' = db
        \/ db[k] # None /\ db[t] = None /\ db' = [db EXCEPT ![k] = None, ![t] = e]
    BY ZenonT(60) DEF commit, Committable
  <1>7. /\ Mounting(c)' /\ Rooted(c)' /\ KeepsLayers(c)' /\ pc'[c] \notin Closing
        /\ pc'[c] \notin {"mount", "fallback", "deferred", "local", "commitRemote"}
        /\ "fuse" \notin Faults => layers' \subseteq mounted'
    BY <1>1, <1>3, ZenonT(60) DEF Mounting, Rooted, KeepsLayers, Closing, MountInv, TableIsMounted
  <1>8. CASE db' = db
    BY <1>1, <1>2, <1>3, <1>4, <1>7, <1>8, MountQuiet, ZenonT(60)
  <1>9. CASE db[k] # None /\ db[t] = None /\ db' = [db EXCEPT ![k] = None, ![t] = e]
    <2>1. db[k] \in Entries
      BY <1>5, <1>9, EntryFacts, ZenonT(60)
    <2>2. e.id = db[k].id /\ e.remote = (pc[c] = "commitRemote")
      BY <2>1, ZenonT(60) DEF Entries
    <2> HIDE DEF e, k, t
    <2>3. db'[k] = None /\ db'[t] = e /\ \A l \in Snapshots : l # k /\ l # t => db'[l] = db[l]
      BY <1>5, <1>9, ZenonT(60) DEF Shape, DbTypes
    <2>4. /\ \A l \in Keys : l # k => db'[l] = db[l]
          /\ \A n \in Names : db[n] # None => db'[n] = db[n]
      BY <1>5, <1>9, <2>3, EntryFacts, ZenonT(60)
    <2>7. \A l \in Keys : l # arg[c].key => db'[l] = db[l]
      BY <2>4, ZenonT(60) DEF k
    <2>5. NoClose' => NoClose
      BY <1>2, <1>3, ZenonT(60) DEF NoClose, Only, Closing, Callers
    <2>6. ASSUME NoClose', NEW n \in Remote'
          PROVE (n \in Remote /\ db'[n] = db[n]) \/ db'[n].id \in mounted'
      <3>1. n \in Names /\ n \in Snapshots /\ n # k /\ db'[n] # None /\ db'[n].remote
        BY <1>5, <2>6, EntryFacts, ZenonT(60) DEF Remote, Committed
      <3>2. CASE n # t
        BY <2>3, <3>1, <3>2, ZenonT(60) DEF Remote, Committed
      <3>3. CASE n = t
        <4>1. pc[c] = "commitRemote"
          BY <2>2, <2>3, <3>1, <3>3, ZenonT(60)
        <4>2. db[k].id = new[c] /\ new[c] \in mounted
          BY <1>9, <2>5, <2>6, <4>1, ZenonT(60) DEF MountInv, Mounting, k
        <4> QED
          BY <1>1, <2>2, <2>3, <3>3, <4>2, ZenonT(60)
      <3> QED
        BY <3>2, <3>3, ZenonT(60)
    <2> QED
      BY <1>1, <1>2, <1>3, <1>4, <1>7, <2>4, <2>6, <2>7, MountFrame, ZenonT(60)
  <1> QED
    BY <1>6, <1>8, <1>9, ZenonT(60)

\* Remove takes a snapshot away and leaves its mount to the deletion.
LEMMA RemoveMount ==
  ASSUME Shape, MountInv, NEW c \in Callers, Remove(c)
  PROVE MountInv'
  <1> DEFINE k == arg[c].key
  <1>1. pc[c] = "remove" /\ UNCHANGED <<mounted, layers, up, config>>
    BY ZenonT(60) DEF Remove, diskVars, upVars
  <1>2. up = "running" /\ pc[c] \notin Closing /\ k \in Snapshots
    BY <1>1, ZenonT(60) DEF Shape, RestoresFirst, CallsFit, ArgsFit, Closing
  <1>3. /\ \E l \in {"idle", "delete"} : pc' = [pc EXCEPT ![c] = l]
        /\ arg' = arg \/ arg' = [arg EXCEPT ![c] = NoArg]
        /\ new' = new \/ new' = [new EXCEPT ![c] = 0]
        /\ todo' = todo \/ \E x : todo' = [todo EXCEPT ![c] = x]
        /\ cur' = cur
        /\ db' = db \/ (Removable(k) /\ db' = [db EXCEPT ![k] = None])
    BY ZenonT(60) DEF Remove, Return, Goto
  <1>4. Only(c) /\ pc'[c] \in {"idle", "delete"} /\ (arg'[c] = arg[c] \/ arg'[c] = NoArg)
    <2>1. pc'[c] \in {"idle", "delete"} /\ \A d \in Callers \ {c} : UNCHANGED pc[d]
      BY <1>3, ZenonT(60) DEF Shape, CallTypes
    <2>2. \A d \in Callers \ {c} : UNCHANGED <<arg[d], new[d]>>
      BY <1>3, ZenonT(60) DEF Shape, CallTypes
    <2>3. \A d \in Callers \ {c} : UNCHANGED <<todo[d], cur[d]>>
      BY <1>3, ZenonT(60) DEF Shape, CallTypes
    <2>4. arg'[c] = arg[c] \/ arg'[c] = NoArg
      BY <1>3, ZenonT(60) DEF Shape, CallTypes
    <2> QED
      BY <2>1, <2>2, <2>3, <2>4, ZenonT(60) DEF Only
  <1>5. NoArg.key = None
    BY ZenonT(60) DEF NoArg
  <1>6. /\ Mounting(c)' /\ Rooted(c)' /\ KeepsLayers(c)' /\ pc'[c] \notin Closing
        /\ "fuse" \notin Faults => layers' \subseteq mounted'
    BY <1>1, <1>4, ZenonT(60) DEF Mounting, Rooted, KeepsLayers, Closing, MountInv, TableIsMounted
  <1>7. \A l \in Snapshots : l # k => db'[l] = db[l]
    BY <1>3, ZenonT(60) DEF Shape, DbTypes
  <1>8. /\ \A l \in Keys : l # arg[c].key => db'[l] = db[l]
        /\ \A n \in Names : db'[n] = db[n] \/ Removable(n)
    <2>1. Keys \subseteq Snapshots /\ Names \subseteq Snapshots
      BY EntryFacts, ZenonT(60)
    <2> QED
      BY <1>3, <1>7, <2>1, ZenonT(60)
  <1>9. ASSUME NEW n \in Remote' PROVE n \in Remote /\ db'[n] = db[n]
    <2>1. n \in Names /\ n \in Snapshots /\ db'[n] # None /\ db'[n].remote
      BY <1>9, EntryFacts, ZenonT(60) DEF Remote, Committed
    <2>2. db'[n] = db[n]
      <3>1. CASE n = k /\ db' = [db EXCEPT ![k] = None]
        <4>1. db'[n] = None
          BY <1>2, <3>1, ZenonT(60) DEF Shape, DbTypes
        <4> QED
          BY <2>1, <4>1, ZenonT(60)
      <3> QED
        BY <1>3, <1>7, <2>1, <3>1, ZenonT(60)
    <2> QED
      BY <2>1, <2>2, ZenonT(60) DEF Remote, Committed
  <1> QED
    BY <1>1, <1>2, <1>4, <1>5, <1>6, <1>8, <1>9, MountFrame, ZenonT(60)

\* The directories that are unmounted belong to no snapshot, until the shutdown.
LEMMA UnmountMount ==
  ASSUME Shape, DirInv, MountInv, NEW c \in Callers, unmountSnapshotDirectory(c) \/ CloseUnmount(c)
  PROVE MountInv'
  <1>1. /\ pc[c] \in {"delete", "unmountAll"} /\ UNCHANGED <<db, up, config, arg, new>>
        /\ pc[c] = "delete" <=> unmountSnapshotDirectory(c)
    BY ZenonT(60) DEF unmountSnapshotDirectory, CloseUnmount, dbVars, upVars
  <1>2. PICK d \in todo[c] :
          /\ \A x \in mounted : x # d => x \in mounted'
          /\ UNCHANGED <<mounted, layers>> \/ layers' = layers \ {d}
          /\ todo' = [todo EXCEPT ![c] = @ \ {d}]
          /\ cur' = cur \/ cur' = [cur EXCEPT ![c] = d]
          /\ pc' = pc \/ (pc' = [pc EXCEPT ![c] = "removeAll"] /\ pc[c] = "delete")
    BY ZenonT(60) DEF unmountSnapshotDirectory, CloseUnmount, unmountDirectory, Goto
  <1>3. up = "running"
    BY <1>1, ZenonT(60) DEF Shape, RestoresFirst
  <1>4. /\ Only(c) /\ pc'[c] \in {pc[c], "removeAll"} /\ (pc[c] = "unmountAll" => pc'[c] = pc[c])
        /\ arg'[c].key = arg[c].key
    <2>1. \A b \in Callers \ {c} : UNCHANGED <<pc[b], arg[b], new[b]>>
      BY <1>1, <1>2, ZenonT(60) DEF Shape, CallTypes
    <2>2. \A b \in Callers \ {c} : UNCHANGED <<todo[b], cur[b]>>
      BY <1>2, ZenonT(60) DEF Shape, CallTypes
    <2>3. pc'[c] \in {pc[c], "removeAll"} /\ (pc[c] = "unmountAll" => pc'[c] = pc[c])
      BY <1>1, <1>2, ZenonT(60) DEF Shape, CallTypes
    <2> QED
      BY <1>1, <2>1, <2>2, <2>3, ZenonT(60) DEF Only
  <1>5. pc[c] = "unmountAll" => c \in Clients
    BY ZenonT(60) DEF MountInv, ClientsClose, Closing
  <1>6. pc[c] = "unmountAll" => ~NoClose'
    BY <1>4, <1>5, ZenonT(60) DEF NoClose
  <1>7. pc[c] = "delete" => Free(d)
    BY <1>2, ZenonT(60) DEF DirInv, ListsAreFree, ListIsFree
  <1>8. NoClose' => \A k \in Snapshots :
          db[k] # None /\ db[k].id \in mounted => db[k].id \in mounted'
    BY <1>1, <1>2, <1>6, <1>7, ZenonT(60) DEF Free
  <1>9. /\ pc[c] \in Closing => pc'[c] \in Closing
        /\ pc'[c] \in Closing => c \in Clients
    BY <1>1, <1>4, <1>5, ZenonT(60) DEF Mounting, Closing
  <1>10. Mounting(c)' /\ Rooted(c)' /\ KeepsLayers(c)'
    BY <1>1, <1>4, ZenonT(60) DEF Mounting, Rooted, KeepsLayers
  <1>12. "fuse" \notin Faults => layers' \subseteq mounted'
    BY <1>2, ZenonT(60) DEF MountInv, TableIsMounted
  <1>11. Remote' = Remote
    BY <1>1, ZenonT(60) DEF Remote, Committed
  <1> QED
    BY <1>1, <1>3, <1>4, <1>8, <1>9, <1>10, <1>11, <1>12, MountFrame, ZenonT(60)

\* Nothing is promised of a process that is gone ...
LEMMA StopMount ==
  ASSUME Stop PROVE MountInv'
  <1>1. /\ up' = "down" /\ layers' = {}
        /\ \A c \in Callers : pc'[c] = "idle" /\ arg'[c] = NoArg
    BY ZenonT(60) DEF Stop
  <1>2. NoArg.key = None
    BY ZenonT(60) DEF NoArg
  <1>3. up' # "running" /\ up' # "restoring"
    BY <1>1, ZenonT(60)
  <1>4. OneCallPerKey'
    BY <1>1, <1>2, ZenonT(60) DEF OneCallPerKey
  <1>5. /\ ClientsClose' /\ TableIsMounted'
        /\ \A c \in Callers : Mounting(c)' /\ Rooted(c)' /\ KeepsLayers(c)'
    BY <1>1, ZenonT(60) DEF ClientsClose, Mounting, Rooted, KeepsLayers, TableIsMounted, Closing
  <1> QED
    BY <1>3, <1>4, <1>5, ZenonT(60) DEF MountInv

\* ... and the next one mounts every remote snapshot before it takes a call.
LEMMA StartMount ==
  ASSUME Shape, MountInv, Restart \/ (\E n \in Names : restoreRemoteSnapshot(n)) \/ Restored
  PROVE MountInv'
  <1>1. up # "running" /\ UNCHANGED <<db, pc, arg, new, todo, cur>>
    BY ZenonT(60) DEF Restart, restoreRemoteSnapshot, Restored, dbVars, callVars
  <1>2. \A c \in Callers : pc[c] = "idle"
    BY <1>1, ZenonT(60) DEF Shape, RestoresFirst
  <1>3. OneCallPerKey' /\ ClientsClose'
    BY <1>1, ZenonT(60) DEF MountInv, OneCallPerKey, ClientsClose
  <1>4. \A c \in Callers : Mounting(c)' /\ Rooted(c)' /\ KeepsLayers(c)'
    BY <1>1, <1>2, ZenonT(60) DEF Mounting, Rooted, KeepsLayers
  <1>7. TableIsMounted'
    <2>1. CASE Restart
      BY <2>1, ZenonT(60) DEF Restart, MountInv, TableIsMounted
    <2>2. ASSUME NEW n \in Names, restoreRemoteSnapshot(n) PROVE TableIsMounted'
      <3>1. PICK o \in MountOutcomes :
              \/ mount(db[n].id, o) /\ up = "restoring" /\ up' = up
              \/ layers' = {}
        BY <2>2, ZenonT(60) DEF restoreRemoteSnapshot
      <3>2. CASE layers' = {}
        BY <3>2, ZenonT(60) DEF TableIsMounted
      <3>3. CASE mount(db[n].id, o) /\ up = "restoring" /\ up' = up
        <4>1. "fuse" \notin Faults => layers \subseteq mounted /\ o # "fuse"
          BY ZenonT(60) DEF MountInv, TableIsMounted, MountOutcomes
        <4>2. up' # "down"
          BY <3>3, ZenonT(60)
        <4>3. /\ o = "ok" => mounted' = mounted \cup {db[n].id} /\ layers' = layers \cup {db[n].id}
              /\ o \notin {"ok", "fuse"} => mounted' = mounted /\ layers' = layers
          BY <3>3, ZenonT(60) DEF mount
        <4> QED
          BY <4>1, <4>2, <4>3, ZenonT(60) DEF TableIsMounted
      <3> QED
        BY <3>1, <3>2, <3>3, ZenonT(60)
    <2>3. CASE Restored
      BY <2>3, ZenonT(60) DEF Restored, diskVars, MountInv, TableIsMounted
    <2> QED
      BY <2>1, <2>2, <2>3, ZenonT(60)
  <1>5. Remote' = Remote
    BY <1>1, ZenonT(60) DEF Remote, Committed
  <1>6. /\ ~config'.allowInvalid /\ up' = "running" => Served({})'
        /\ ~config'.allowInvalid /\ up' = "restoring" => Served(toRestore)'
    <2>1. CASE Restart
      <3>1. up' = "restoring" /\ toRestore' = Remote
        BY <2>1, ZenonT(60) DEF Restart
      <3> QED
        BY <1>5, <3>1, ZenonT(60) DEF Served
    <2>2. CASE \E n \in Names : restoreRemoteSnapshot(n)
      <3>1. PICK n \in Names, o \in MountOutcomes :
              /\ up = "restoring" /\ config' = config
              /\ \/ /\ Continues(o) /\ mount(db[n].id, o)
                    /\ toRestore' = toRestore \ {n} /\ up' = up
                 \/ up' = "down"
        BY <2>2, ZenonT(60) DEF restoreRemoteSnapshot
      <3>2. CASE up' = "down"
        BY <3>2, ZenonT(60)
      <3>3. CASE config'.allowInvalid
        BY <3>3, ZenonT(60)
      <3>4. CASE /\ Continues(o) /\ mount(db[n].id, o) /\ toRestore' = toRestore \ {n} /\ up' = up
                 /\ ~config'.allowInvalid
        <4>1. o = "ok" /\ up' = "restoring"
          BY <3>1, <3>4, ZenonT(60) DEF Continues
        <4>2. mounted' = mounted \cup {db[n].id}
          BY <3>4, <4>1, ZenonT(60) DEF mount
        <4>3. Served(toRestore)
          BY <3>1, <3>4, ZenonT(60) DEF MountInv
        <4>4. \A m \in Remote \ toRestore' : db'[m].id \in mounted'
          BY <1>1, <3>4, <4>2, <4>3, ZenonT(60) DEF Served
        <4> QED
          BY <1>5, <4>1, <4>4, ZenonT(60) DEF Served
      <3> QED
        BY <3>1, <3>2, <3>3, <3>4, ZenonT(60)
    <2>3. CASE Restored
      <3>1. up = "restoring" /\ toRestore = {} /\ up' = "running" /\ UNCHANGED <<mounted, config>>
        BY <2>3, ZenonT(60) DEF Restored, diskVars
      <3>2. ~config.allowInvalid => Served({})
        BY <3>1, ZenonT(60) DEF MountInv
      <3> QED
        BY <1>1, <1>5, <3>1, <3>2, ZenonT(60) DEF Served
    <2> QED
      BY <2>1, <2>2, <2>3, ZenonT(60)
  <1> QED
    BY <1>3, <1>4, <1>6, <1>7, ZenonT(60) DEF MountInv

\* Every step keeps the remote snapshots mounted.
LEMMA StepMounts == Shape /\ DirInv /\ MountInv /\ [Next]_vars => MountInv'
  <1> SUFFICES ASSUME Shape, DirInv, MountInv, [Next]_vars PROVE MountInv'
    BY ZenonT(60)
  <1>1. ASSUME NEW c \in Clients, ClientCall(c) \/ CallClose(c) PROVE MountInv'
    <2>1. c \in Callers
      BY <1>1, ZenonT(60) DEF Callers
    <2>2. \E o \in {"begin", "commitLocal", "remove", "mounts", "scan", "close"}, a \in Args :
             Call(c, o, a)
      <3>1. CASE CallPrepare(c) \/ CallView(c)
        BY <3>1, ZenonT(60) DEF CallPrepare, CallView, Args, Snapshots, Committed
      <3>2. CASE CallCommit(c) \/ CallRemove(c) \/ CallMounts(c)
        BY <3>2, ZenonT(60) DEF CallCommit, CallRemove, CallMounts, Args, Snapshots
      <3>3. CASE CallClose(c)
        BY <3>3, NoArgIsArg, ZenonT(60) DEF CallClose
      <3> QED
        BY <1>1, <3>1, <3>2, <3>3, ZenonT(60) DEF ClientCall
    <2> QED
      BY <2>1, <2>2, CallMount, ZenonT(60)
  <1>2. ASSUME NEW c \in Cleaners, CallCleanup(c) PROVE MountInv'
    BY <1>2, NoArgIsArg, CallMount, ZenonT(60) DEF CallCleanup, Callers
  <1>3. ASSUME NEW c \in Callers, Close(c) PROVE MountInv'
    BY <1>3, StopMount, ZenonT(60) DEF Close
  <1>4. CASE Crash
    BY <1>4, StopMount, ZenonT(60) DEF Crash
  <1>5. CASE UNCHANGED vars
    <2>1. UNCHANGED <<db, mounted, layers, up, toRestore, config, pc, arg, new>>
      BY <1>5, ZenonT(60) DEF vars, dbVars, diskVars, upVars, callVars
    <2> QED
      BY <2>1, ZenonT(60) DEF MountInv, OneCallPerKey, ClientsClose, Mounting, Rooted, KeepsLayers,
         AllServed, TableIsMounted, Served, NoClose, Remote, Committed
  <1>6. ASSUME NEW c \in Callers, Step(c) PROVE MountInv'
    <2>1. CASE \/ prepareDirectory(c) \/ Rename(c) \/ Fallback(c) \/ prepareLocalSnapshot(c)
               \/ mounts(c) \/ HandOut(c) \/ cleanupDirectories(c) \/ RemoveAll(c) \/ Deleted(c)
               \/ unmountAllSnapshots(c)
      BY <2>1, QuietMounts, ZenonT(60)
    <2> QED
      BY <1>3, <1>6, <2>1, CommitNewMount, PrepareRemoteMount, CommitMount, RemoveMount,
         UnmountMount, ZenonT(60) DEF Step
  <1> QED
    BY <1>1, <1>2, <1>4, <1>5, <1>6, StartMount, ZenonT(60) DEF Next

\* The program starts with no snapshot and no call.
LEMMA InitMounts == Init => MountInv
  <1> SUFFICES ASSUME Init PROVE MountInv
    BY ZenonT(60)
  <1>1. /\ up = "running" /\ layers = {} /\ \A k \in Snapshots : db[k] = None
        /\ \A c \in Callers : pc[c] = "idle" /\ arg[c] = NoArg
    BY ZenonT(60) DEF Init
  <1>2. Remote = {}
    BY <1>1, ZenonT(60) DEF Remote, Committed, Snapshots
  <1>3. NoArg.key = None
    BY ZenonT(60) DEF NoArg
  <1>4. OneCallPerKey
    BY <1>1, <1>3, ZenonT(60) DEF OneCallPerKey
  <1>5. /\ ClientsClose /\ TableIsMounted
        /\ \A c \in Callers : Mounting(c) /\ Rooted(c) /\ KeepsLayers(c)
    BY <1>1, ZenonT(60) DEF ClientsClose, Mounting, Rooted, KeepsLayers, TableIsMounted, Closing
  <1>6. up # "restoring" /\ Served({})
    BY <1>1, <1>2, ZenonT(60) DEF Served
  <1> QED
    BY <1>4, <1>5, <1>6, ZenonT(60) DEF MountInv

\* The snapshots, their directories and the mounts agree.
LEMMA MountInvariant ==
  ASSUME "torn" \notin Faults PROVE Spec => [](Shape /\ DirInv /\ MountInv)
  <1>1. Init => MountInv
    BY InitMounts, ZenonT(60)
  <1>2. Shape /\ DirInv /\ MountInv /\ [Next]_vars => MountInv'
    BY StepMounts, ZenonT(60)
  <1>3. Spec => [](Shape /\ DirInv)
    BY DirInvariant, ZenonT(60)
  <1> QED
    BY <1>1, <1>2, <1>3, PTL DEF Spec

\* While the process runs and until it shuts down, every remote snapshot is
\* mounted, after a restart too, unless the configuration allows invalid mounts.
THEOREM RemoteSnapshotsStayMounted ==
  ASSUME "torn" \notin Faults PROVE Spec => []RemoteSnapshotsAreMounted
  <1>1. MountInv => RemoteSnapshotsAreMounted
    BY ZenonT(60) DEF MountInv, Served, RemoteSnapshotsAreMounted
  <1> QED
    BY <1>1, MountInvariant, PTL

HandsOut(c) == Fallback(c) \/ mounts(c) \/ (prepareLocalSnapshot(c) /\ pc[c] = "local")

\* The steps of a call that hand out mounts.
LEMMA HandingOut ==
  ASSUME Shape, [Next]_vars, NEW c \in Callers, pc[c] # "handOut", pc'[c] = "handOut"
  PROVE HandsOut(c)
  <1>1. ASSUME NEW d \in Callers, NEW l, pc' = [pc EXCEPT ![d] = l], l = "handOut" => HandsOut(d)
        PROVE  HandsOut(c)
    BY <1>1, ZenonT(60) DEF Shape, CallTypes
  <1>2. ASSUME NEW d \in Callers, ClientCall(d) \/ CallCleanup(d) \/ CallClose(d) PROVE HandsOut(c)
    <2>1. \E o \in {"begin", "commitLocal", "remove", "mounts", "scan", "close"} :
             pc' = [pc EXCEPT ![d] = o]
      BY <1>2, ZenonT(60) DEF ClientCall, CallPrepare, CallView, CallCommit, CallRemove, CallMounts,
         CallCleanup, CallClose, Call, Goto
    <2> QED
      BY <1>1, <2>1, ZenonT(60)
  <1>3. ASSUME NEW d \in Callers, prepareLocalSnapshot(d) PROVE HandsOut(c)
    <2>1. \/ pc[d] = "local" /\ pc' = [pc EXCEPT ![d] = "handOut"]
          \/ \E l \in {"commitLocal", "idle"} : pc' = [pc EXCEPT ![d] = l]
      BY <1>3, ZenonT(60) DEF prepareLocalSnapshot, Return, Goto
    <2> QED
      BY <1>1, <1>3, <2>1, ZenonT(60) DEF HandsOut
  <1>4. ASSUME NEW d \in Callers, Fallback(d) \/ mounts(d) PROVE HandsOut(c)
    <2>1. \E l : pc' = [pc EXCEPT ![d] = l]
      BY <1>4, ZenonT(60) DEF Fallback, mounts, Return, Goto
    <2> QED
      BY <1>1, <1>4, <2>1, ZenonT(60) DEF HandsOut
  <1>5. ASSUME NEW d \in Callers,
               \/ prepareDirectory(d) \/ Rename(d) \/ CommitNew(d) \/ prepareRemoteSnapshot(d)
               \/ HandOut(d) \/ commit(d) \/ Remove(d)
        PROVE  HandsOut(c)
    <2>1. \E l \in {"create", "commitNew", "delete", "mounts", "fallback", "mount", "commitRemote",
                    "deferred", "idle"} : pc' = [pc EXCEPT ![d] = l]
      BY <1>5, ZenonT(60) DEF prepareDirectory, Rename, CommitNew, prepareRemoteSnapshot, HandOut, commit,
         Remove, Return, Rollback, Goto, afterCreate
    <2> QED
      BY <1>1, <2>1, ZenonT(60)
  <1>6. ASSUME NEW d \in Callers,
               \/ cleanupDirectories(d) \/ unmountSnapshotDirectory(d) \/ RemoveAll(d) \/ Deleted(d)
               \/ unmountAllSnapshots(d) \/ CloseUnmount(d)
        PROVE  HandsOut(c)
    <2>1. \/ pc' = pc
          \/ \E l \in {"delete", "removeAll", "idle", "unmountAll"} : pc' = [pc EXCEPT ![d] = l]
      BY <1>6, ZenonT(60) DEF cleanupDirectories, unmountSnapshotDirectory, RemoveAll, Deleted,
         unmountAllSnapshots, CloseUnmount, Return, Goto
    <2> QED
      BY <1>1, <2>1, ZenonT(60)
  <1>7. ~Stop
    BY ZenonT(60) DEF Stop
  <1>8. (\A d \in Callers : ~Close(d)) /\ ~Crash
    BY <1>7, ZenonT(60) DEF Close, Crash
  <1>9. ~Restart /\ (\A n \in Names : ~restoreRemoteSnapshot(n)) /\ ~Restored /\ ~UNCHANGED vars
    BY ZenonT(60) DEF Restart, restoreRemoteSnapshot, Restored, vars
  <1> QED
    BY <1>2, <1>3, <1>4, <1>5, <1>6, <1>8, <1>9, ZenonT(60) DEF Next, Step, Callers

\* Prepare, View and Mounts hand out mounts only if every lazy layer below is
\* mounted, also where availability was checked before the layer was unpacked
\* and snapshots were removed since, whatever the configuration allows.
THEOREM HandedOutAreServed ==
  ASSUME "torn" \notin Faults, "fuse" \notin Faults PROVE Spec => MountsAreServed
  <1>1. ASSUME Shape, MountInv, [Next]_vars, NEW c \in Clients,
               pc[c] # "handOut", pc'[c] = "handOut", NoClose
        PROVE  \A n \in Chain(arg[c].parent) \cap Remote : db[n].id \in mounted
    <2>1. c \in Callers
      BY ZenonT(60) DEF Callers
    <2>2. HandsOut(c)
      BY <1>1, <2>1, HandingOut, ZenonT(60)
    <2>3. AllServed(arg[c].parent)
      <3>1. CASE Fallback(c) \/ mounts(c)
        BY <1>1, <2>1, <3>1, OnlyAvailable, AvailableIsServed, ZenonT(60)
      <3>2. CASE pc[c] = "local"
        BY <1>1, <2>1, <3>2, ZenonT(60) DEF MountInv, KeepsLayers
      <3> QED
        BY <2>2, <3>1, <3>2, ZenonT(60) DEF HandsOut
    <2> QED
      BY <2>3, ChainIsIn, ZenonT(60) DEF AllServed, Remote
  <1>2. Shape /\ MountInv /\ [Next]_vars =>
          [\A c \in Clients : pc[c] # "handOut" /\ pc'[c] = "handOut" /\ NoClose =>
              \A n \in Chain(arg[c].parent) \cap Remote : db[n].id \in mounted]_vars
    BY <1>1, ZenonT(60)
  <1> QED
    BY <1>2, MountInvariant, PTL DEF Spec, MountsAreServed
=============================================================================
