---------------------------- MODULE SociArtifacts ----------------------------
(***************************************************************************)
(* The life of SOCI artifacts on one host with the containerd content      *)
(* store: the `soci` commands that build, convert, remove, rebuild and     *)
(* push them, the snapshotter that fetches them for the images it mounts,  *)
(* containerd's garbage collector, and a user who removes and pulls        *)
(* images.  The artifacts database is a file that one process at a time    *)
(* can open, so commands run one after the other; everything else          *)
(* interleaves with each of their steps.                                   *)
(***************************************************************************)
EXTENDS ContentStore, ArtifactsDb

CONSTANTS
    Published,    \* the images that can be pulled
    Pulled(_),    \* the blobs of a published image that a pull brings
    Indexes,      \* the SOCI indexes that are published with them
    Names,        \* the names images may have on the host
    First,        \* the name of the image that is there to begin with
    PlatformArgs, \* platforms, in order, that commands are given
    SpanSizes, PathArgs, Destinations, Fetchers,
    Given(_),     \* the indexes that the labels of a manifest's mounts may give
    PullModes,    \* the sets of SOCI versions ("v1", "v2") that may be enabled
    Faults,       \* among "label", "network", "crash", "restart"
    MaxEvents     \* bound on commands, user actions and faults

VARIABLES
    store,     \* the content store
    images,    \* image name -> target, SOCI index label, blobs found (see Kept)
    db,        \* the artifacts database
    cli,       \* the command that runs
    fetch,     \* the sociContext.Init that each fetcher runs
    contexts,  \* image manifest -> what sociContext.Init came to
    pushed,    \* the blobs that were published since
    events     \* events so far

vars == <<store, images, db, cli, fetch, contexts, pushed, events>>
Stored == DOMAIN store.refs
FirstPublished == UNION {Closure(b) : b \in Published \cup Indexes}
registry == FirstPublished \cup pushed

\* `blobs` are the index's zTOCs so far, `descs` the manifests of the OCI index
\* under conversion, `found` what the command uses and did not create.
Idle == [op |-> "idle", step |-> "", name |-> "", dst |-> "", target |-> EmptyConfig, todo |-> <<>>,
         spanSize |-> 0, paths |-> {}, force |-> FALSE, manifest |-> EmptyConfig, next |-> 0, blobs |-> <<>>,
         failed |-> FALSE, index |-> EmptyConfig, indexes |-> <<>>, descs |-> <<>>, found |-> {}, pending |-> {}, image |-> <<>>]
NoFetch == [step |-> "idle", manifest |-> EmptyConfig, given |-> <<>>, index |-> EmptyConfig, next |-> 0, found |-> {}]

PartsOf(blob) == {blob.parts[i].to : i \in DOMAIN blob.parts}

\* What the conversion that made the target, and the creation of the index that
\* the label names, found in the store.
Image(target) == [target |-> target, index |-> <<>>, targetFound |-> {}, indexFound |-> {}]

\* containerd labels what it pulls: each blob refers to its parts.
Init ==
    /\ \E target \in Published :
          /\ store = NewStore([b \in Pulled(target) |-> PartsOf(b)], {"cli", "dead"} \cup Fetchers)
          /\ images = First :> Image(target)
    /\ db = <<>>
    /\ cli = Idle
    /\ fetch = [f \in Fetchers |-> NoFetch]
    /\ contexts = <<>>
    /\ pushed = {}
    /\ events = 0

Event == events < MaxEvents /\ events' = events + 1

\* The command ends, with an error or not: its leases are given back.
End == cli' = Idle /\ store' = EndBatch(store, "cli")

May(fault) == fault \in Faults /\ events < MaxEvents

\* A call to containerd that is rejected ends the command.
LabelFails(step) ==
    /\ cli.step = step /\ May("label") /\ Event /\ End
    /\ UNCHANGED <<images, db, fetch, contexts, pushed>>

\* The blobs among `blobs` that are there and not under the command's lease.
Found(blobs) == {b \in blobs : Exists(store, b) /\ b \notin store.leases["cli"]}

-----------------------------------------------------------------------------
(* soci create and soci convert: building the index of each platform. *)

StartBuild(op, name, dst, platforms, spanSize, paths, force) ==
    /\ cli.op = "idle" /\ name \in DOMAIN images
    /\ Event
    /\ cli' = [Idle EXCEPT !.op = op, !.step = IF op = "convert" THEN "convert" ELSE "manifest",
                           !.name = name, !.dst = dst, !.target = images[name].target,
                           !.todo = platforms, !.spanSize = spanSize, !.paths = paths, !.force = force]
    /\ UNCHANGED <<store, images, db, fetch, contexts, pushed>>

\* Convert loads the image's OCI index before anything is built.
ReadOciIndex ==
    /\ cli.step = "convert"
    /\ IF Exists(store, cli.target)
       THEN cli' = [cli EXCEPT !.step = "manifest", !.descs = newOciIndex(cli.target)] /\ UNCHANGED store
       ELSE End
    /\ UNCHANGED <<images, db, fetch, contexts, pushed, events>>

GetImageManifestDescriptor ==
    /\ cli.step = "manifest"
    /\ \E found \in {{m \in ForPlatform(cli.target, Head(cli.todo), cli.op = "convert") : Exists(store, m)}} :
          IF Exists(store, cli.target) /\ found # {}
          THEN /\ \E m \in found : cli' = [cli EXCEPT !.step = "layer", !.manifest = m, !.next = 1, !.blobs = <<>>]
               /\ UNCHANGED store
          ELSE End
    /\ UNCHANGED <<images, db, fetch, contexts, pushed, events>>

LayerHere == Layers(cli.manifest)[cli.next]

BuiltLayer(z) ==
    [cli EXCEPT !.next = @ + 1, !.blobs = Append(@, addSociLayerAnnotations(LayerHere, z)), !.found = @ \cup Found({z})]

LayerFailed == [cli EXCEPT !.next = @ + 1, !.failed = TRUE]

\* The layer's own content is needed to build its zTOC, and may not be there.
BuildAndPush(z) ==
    IF Exists(store, LayerHere)
    THEN /\ cli' = BuiltLayer(z)
         /\ store' = Push(store, "cli", z)
         /\ db' = WriteArtifactEntry(db, z, ArtifactEntry("soci_layer", <<LayerHere>>, <<>>, cli.spanSize, events))
    ELSE cli' = LayerFailed /\ UNCHANGED <<store, db>>

\* A zTOC that the database knows and the store holds is taken as it is, if it is
\* one (ztoc.Unmarshal).
buildSociLayer ==
    /\ cli.step = "layer" /\ cli.next <= Len(Layers(cli.manifest))
    /\ \E known \in {getExistingZtocForLayer(db, LayerHere, cli.spanSize, cli.force)} :
          IF skipBuildingZtoc(LayerHere)
          THEN cli' = [cli EXCEPT !.next = @ + 1] /\ UNCHANGED <<store, db>>
          ELSE IF known = {} THEN BuildAndPush(Ztoc(LayerHere.name, cli.spanSize))
          ELSE \E z \in known :
               IF Exists(store, z)
               THEN cli' = (IF z.kind = "ztoc" THEN BuiltLayer(z) ELSE LayerFailed) /\ UNCHANGED <<store, db>>
               ELSE BuildAndPush(Ztoc(LayerHere.name, cli.spanSize))
    /\ UNCHANGED <<images, fetch, contexts, pushed, events>>

Version == IF cli.op = "create" THEN "v1" ELSE "v2"

PushAll(st, descs) == FoldLeft(LAMBDA s, d : Push(s, "cli", d.to), st, descs)

WritePrefetch(descs) ==
    FoldLeft(LAMBDA d, desc : WriteArtifactEntry(d, desc.to, ArtifactEntry("soci_prefetch", desc.note, <<>>, 0, events)),
             db, descs)

\* On to the next platform; conversion goes on to the image when there is none.
NextPlatform(c) ==
    [c EXCEPT !.todo = Tail(@), !.next = 1,
              !.step = IF Len(c.todo) > 1 THEN "manifest" ELSE IF c.op = "create" THEN "end" ELSE "annotate"]

\* No layer had a zTOC: convert tries the other platforms.
EmptyIndex ==
    IF cli.op = "create" \/ (Len(cli.todo) = 1 /\ cli.indexes = <<>>)
    THEN End /\ UNCHANGED db
    ELSE cli' = NextPlatform(cli) /\ UNCHANGED <<store, db>>

PushIndex(index, prefetch) ==
    /\ store' = Push(PushAll(PushAll(store, prefetch), <<ConfigOf(index)>>), "cli", index)
    /\ db' = WritePrefetch(prefetch)
    /\ cli' = [cli EXCEPT !.step = "label", !.index = index,
                          !.found = @ \cup Found({index, EmptyConfig} \cup {prefetch[i].to : i \in DOMAIN prefetch})]

\* The goroutines that build layers append to builtZtocs without a lock: the
\* prefetch artifacts are made from some of the layers that were built.
Remembered ==
    IF cli.paths = {} \/ cli.blobs = <<>> THEN {{}}
    ELSE (SUBSET {cli.blobs[i].note[1] : i \in DOMAIN cli.blobs}) \ {{}}

writeSociIndex ==
    /\ cli.step = "layer" /\ cli.next > Len(Layers(cli.manifest))
    /\ IF cli.failed THEN End /\ UNCHANGED db
       ELSE IF cli.blobs = <<>> THEN EmptyIndex
       ELSE \E built \in Remembered :
            \E prefetch \in {buildPrefetchLayer(Layers(cli.manifest), cli.paths, built, cli.spanSize)} :
               PushIndex(NewIndex(Version, cli.blobs \o prefetch, IF Version = "v1" THEN <<cli.manifest>> ELSE <<>>), prefetch)
    /\ UNCHANGED <<images, fetch, contexts, pushed, events>>

WriteIndexEntry ==
    db' = WriteArtifactEntry(db, cli.index, ArtifactEntry("soci_index", <<cli.manifest>>, <<cli.target>>, 0, events))

Indexed(lost) ==
    [cli EXCEPT !.found = @ \cup lost,
                !.indexes = Append(@, [platform |-> Head(cli.todo), manifest |-> cli.manifest,
                                       desc |-> Desc(cli.index, Version, "", <<>>)])]

\* The label for the config must be set; a zTOC's label that cannot be set is
\* passed over (`lost`).
LabelSociIndex(lost) ==
    /\ cli.step = "label"
    /\ IF Exists(store, cli.index)
       THEN /\ store' = LabelGCRefContent(store, cli.index, {cli.index.parts[i].to : i \in DOMAIN cli.index.parts} \ lost)
            /\ WriteIndexEntry
            /\ cli' = IF cli.op = "create" THEN [Indexed(lost) EXCEPT !.step = "image"] ELSE NextPlatform(Indexed(lost))
       ELSE End /\ UNCHANGED db
    /\ UNCHANGED <<images, fetch, contexts, pushed>>

labelSociIndex ==
    \/ LabelSociIndex({}) /\ UNCHANGED events
    \/ /\ May("label") /\ Event
       /\ \E i \in DOMAIN cli.blobs : LabelSociIndex({cli.blobs[i].to})
    \/ LabelFails("label")

\* soci create: the image's label keeps the index.  An error is not looked at.
updateImage ==
    /\ cli.step = "image"
    /\ images' = IF cli.name \in DOMAIN images
                 THEN [images EXCEPT ![cli.name].index = <<cli.index>>, ![cli.name].indexFound = cli.found]
                 ELSE images
    /\ cli' = NextPlatform(cli)
    /\ UNCHANGED <<store, db, fetch, contexts, pushed, events>>

createEnds ==
    /\ cli.step = "end"
    /\ End /\ UNCHANGED <<images, db, fetch, contexts, pushed, events>>

-----------------------------------------------------------------------------
(* soci convert: the image with the indexes. *)

\* The manifest under `next` becomes `new`; its index, if it has one (ix # 0),
\* is told its digest.
Rewritten(new, ix) ==
    [cli EXCEPT !.next = @ + 1,
                !.descs[cli.next] = [@ EXCEPT !.to = new, !.note = <<>>],
                !.indexes = IF ix = 0 THEN @ ELSE [@ EXCEPT ![ix].desc.note = <<new>>],
                !.found = @ \cup Found({new} \cup PartsOf(new)) \cup (PartsOf(new) \ Stored)]

\* A manifest that was not pulled is left as it is, unless it has an index.
Annotate(m, ix) ==
    IF Exists(store, m)
    THEN \E new \in {Annotated(m, IF ix = 0 THEN <<>> ELSE <<cli.indexes[ix].desc.to>>)} :
            /\ store' = LabelGCRefContent(Push(store, "cli", new), new, PartsOf(new))
            /\ cli' = Rewritten(new, ix)
    ELSE IF ix = 0
    THEN cli' = [cli EXCEPT !.next = @ + 1, !.found = @ \cup Closure(m)] /\ UNCHANGED store
    ELSE End

annotateImages ==
    /\ cli.step = "annotate" /\ cli.next <= Len(cli.descs)
    /\ \E m \in {cli.descs[cli.next].to} : Annotate(m, IndexOf(cli.indexes, m))
    /\ UNCHANGED <<images, db, fetch, contexts, pushed, events>>

\* addSociIndexes, and the OCI index is written.  A SOCI index in it that the
\* database does not know ends the conversion.
Unknown(descs) == {i \in DOMAIN descs : descs[i].mediaType = "v2" /\ descs[i].to \notin DOMAIN db}

PushOciIndex(oci) ==
    /\ db' = updateSociV2ArtifactReferences(db,
                 IF Unknown(oci.parts) = {} THEN oci.parts ELSE SubSeq(oci.parts, 1, Min(Unknown(oci.parts)) - 1), <<oci>>)
    /\ IF Unknown(oci.parts) = {}
       THEN /\ store' = Push(store, "cli", oci)
            /\ cli' = [cli EXCEPT !.step = "labelOci", !.index = oci, !.found = @ \cup Found({oci})]
       ELSE cli' = Idle /\ store' = EndBatch(Push(store, "cli", oci), "cli")

pushOCIIndex ==
    /\ cli.step = "annotate" /\ cli.next > Len(cli.descs)
    /\ PushOciIndex(OciIndex(FoldLeft(LAMBDA descs, ix : addSociIndex(descs, ix), cli.descs, cli.indexes)))
    /\ UNCHANGED <<images, fetch, contexts, pushed, events>>

labelOCIIndex ==
    /\ cli.step = "labelOci"
    /\ IF Exists(store, cli.index)
       THEN /\ store' = LabelGCRefContent(store, cli.index, PartsOf(cli.index))
            /\ cli' = [cli EXCEPT !.step = "getImage"]
       ELSE End
    /\ UNCHANGED <<images, db, fetch, contexts, pushed, events>>

\* The destination image is read ...
getConvertedImage ==
    /\ cli.step = "getImage"
    /\ cli' = [cli EXCEPT !.step = "putImage", !.image = IF cli.dst \in DOMAIN images THEN <<images[cli.dst]>> ELSE <<>>]
    /\ UNCHANGED <<store, images, db, fetch, contexts, pushed, events>>

\* Labels that are written back though the image has lost them since: their index
\* is like one that was found.
StaleIndex(old) == IF images[cli.dst].index = old.index THEN {} ELSE Range(old.index)

\* ... and is created, or replaced as it was read but for its target.  Either is
\* an error when the image came or went since.  The command ends.
writeConvertedImage ==
    /\ cli.step = "putImage"
    /\ images' = IF cli.image = <<>> /\ cli.dst \notin DOMAIN images
                 THEN (cli.dst :> [Image(cli.index) EXCEPT !.targetFound = cli.found]) @@ images
                 ELSE IF cli.image # <<>> /\ cli.dst \in DOMAIN images
                 THEN [images EXCEPT ![cli.dst] = [cli.image[1] EXCEPT
                          !.target = cli.index, !.targetFound = cli.found, !.indexFound = @ \cup StaleIndex(cli.image[1])]]
                 ELSE images
    /\ End
    /\ UNCHANGED <<db, fetch, contexts, pushed, events>>

-----------------------------------------------------------------------------
(* soci index rm, soci rebuild-db, soci push. *)

StartRm(indexes) ==
    /\ cli.op = "idle" /\ indexes # {}
    /\ Event
    /\ cli' = [Idle EXCEPT !.op = "rm", !.step = "rm", !.pending = indexes]
    /\ UNCHANGED <<store, images, db, fetch, contexts, pushed>>

\* An entry goes before its content.  Who removes an index gives up its blobs.
Released(i) == [n \in DOMAIN images |-> [images[n] EXCEPT !.targetFound = @ \cup {i}, !.indexFound = @ \cup {i}]]

removeArtifactEntry ==
    /\ cli.step = "rm"
    /\ \E i \in cli.pending :
          IF i \in DOMAIN db /\ db[i].type = "soci_index"
          THEN /\ db' = RemoveArtifactEntryByIndexDigest(db, i)
               /\ images' = Released(i)
               /\ contexts' = [m \in DOMAIN contexts |-> [contexts[m] EXCEPT !.found = @ \cup {i}]]
               /\ fetch' = [f \in Fetchers |-> [fetch[f] EXCEPT !.found = @ \cup {i}]]
               /\ cli' = [cli EXCEPT !.step = "delete", !.index = i, !.pending = @ \ {i}]
               /\ UNCHANGED store
          ELSE End /\ UNCHANGED <<db, images, contexts, fetch>>
    /\ UNCHANGED <<pushed, events>>

removeContent ==
    /\ cli.step = "delete"
    /\ IF Exists(store, cli.index) /\ cli.pending # {}
       THEN store' = Delete(store, cli.index) /\ cli' = [cli EXCEPT !.step = "rm"]
       ELSE cli' = Idle /\ store' = EndBatch(Delete(store, cli.index), "cli")
    /\ UNCHANGED <<images, db, fetch, contexts, pushed, events>>

StartRebuild ==
    /\ cli.op = "idle"
    /\ Event
    /\ cli' = [Idle EXCEPT !.op = "rebuild-db", !.step = "old"]
    /\ UNCHANGED <<store, images, db, fetch, contexts, pushed>>

removeOldArtifacts ==
    /\ cli.step = "old"
    /\ db' = RemoveOldArtifacts(db, Stored)
    /\ cli' = [cli EXCEPT !.step = "new"]
    /\ UNCHANGED <<store, images, fetch, contexts, pushed, events>>

\* An index whose image manifest is not in the store ends the command.
addNewArtifacts ==
    /\ cli.step = "new"
    /\ \/ \E i \in NewIndexes(db, Stored) :
             IF Exists(store, i.subject[1])
             THEN db' = addNewArtifact(db, i, events) /\ UNCHANGED <<cli, store>>
             ELSE End /\ UNCHANGED db
       \/ NewIndexes(db, Stored) = {} /\ End /\ UNCHANGED db
    /\ UNCHANGED <<images, fetch, contexts, pushed, events>>

StartPush(name, platforms) ==
    /\ cli.op = "idle" /\ name \in DOMAIN images
    /\ Event
    /\ cli' = [Idle EXCEPT !.op = "push", !.step = "select", !.target = images[name].target, !.todo = platforms]
    /\ UNCHANGED <<store, images, db, fetch, contexts, pushed>>

\* The newest index of version 1 of the platform's manifest.
Newest(indexes) == {i \in indexes : \A j \in indexes : db[j].createdAt <= db[i].createdAt}

ToPush(manifest) == Newest({i \in getIndexArtifactEntries(db, manifest) : IsSociIndex(i, "v1")})

selectIndexes ==
    /\ cli.step = "select"
    /\ IF Exists(store, cli.target) /\ \E m \in ForPlatform(cli.target, Head(cli.todo), FALSE) : ToPush(m) # {}
       THEN /\ \E m \in ForPlatform(cli.target, Head(cli.todo), FALSE) : \E i \in ToPush(m) :
                  cli' = [cli EXCEPT !.indexes = Append(@, i), !.todo = Tail(@),
                                     !.step = IF Len(cli.todo) > 1 THEN "select" ELSE "copy"]
            /\ UNCHANGED store
       ELSE End
    /\ UNCHANGED <<images, db, fetch, contexts, pushed, events>>

Referrers(manifest) == {i \in registry : IsSociIndex(i, "v1") /\ i.subject = <<manifest>>}

\* oras.CopyGraph: parts before wholes, so that an error leaves no index behind.
CopyGraph(index) ==
    LET all == Closure(index) \cup Closure(index.subject[1])
    IN  IF all \subseteq registry \cup Stored
        THEN pushed' = pushed \cup (all \ FirstPublished) /\ cli' = [cli EXCEPT !.indexes = Tail(@)] /\ UNCHANGED store
        ELSE pushed' = pushed \cup (((Closure(index) \ {index}) \cap Stored) \ FirstPublished) /\ End

\* With --existing-index skip, an image that has an index keeps it.
copyIndexes ==
    /\ cli.step = "copy"
    /\ IF cli.indexes = <<>> THEN End /\ UNCHANGED pushed
       ELSE \/ CopyGraph(Head(cli.indexes))
            \/ /\ Referrers(Head(cli.indexes).subject[1]) # {}
               /\ cli' = [cli EXCEPT !.indexes = Tail(@)] /\ UNCHANGED <<store, pushed>>
    /\ UNCHANGED <<images, db, fetch, contexts, events>>

\* The process is killed: its leases live until they expire.
CliCrashes ==
    /\ cli.op # "idle" /\ May("crash") /\ Event
    /\ cli' = Idle
    /\ store' = [store EXCEPT !.leases = [@ EXCEPT !["dead"] = @ \cup store.leases["cli"], !["cli"] = {}]]
    /\ UNCHANGED <<images, db, fetch, contexts, pushed>>

-----------------------------------------------------------------------------
(* The snapshotter: sociContext.Init, once for each image manifest. *)

Manifests(target) ==
    IF target.kind = "index" THEN {target.parts[i].to : i \in {j \in DOMAIN target.parts : target.parts[j].mediaType = "image"}}
    ELSE {target}

Settle(f, context) ==
    /\ contexts' = (fetch[f].manifest :> context) @@ contexts
    /\ fetch' = [fetch EXCEPT ![f] = NoFetch]

\* The error is kept for good.
FetchFails(f) ==
    /\ Settle(f, [index |-> <<>>, given |-> FALSE, found |-> {}])
    /\ store' = EndBatch(store, f)

findSociIndexDescAnnotation(m) == IF m \in registry THEN Range(m.annotation) ELSE {}

\* The index that the mount's label gives; else of version 2, by the manifest's
\* annotation; else of version 1, the first referrer.  A manifest that cannot be
\* fetched is an error, not one without annotation.  The versions that are
\* `enabled` are those of the snapshotter's configuration; a manifest is looked up
\* once by a process, so that no state has to remember them.
findSociIndexDesc(m, given, enabled) ==
    IF given # <<>> THEN Range(given)
    ELSE IF "v2" \in enabled /\ (m \notin registry \/ findSociIndexDescAnnotation(m) # {})
    THEN findSociIndexDescAnnotation(m)
    ELSE IF "v1" \in enabled THEN Referrers(m) ELSE {}

getSociContext(f, m, given) ==
    /\ fetch[f].step = "idle"
    /\ m \notin DOMAIN contexts /\ \A g \in Fetchers : fetch[g].manifest # m
    /\ Event
    /\ fetch' = [fetch EXCEPT ![f] = [NoFetch EXCEPT !.step = "find", !.manifest = m, !.given = given]]
    /\ UNCHANGED <<store, images, db, cli, contexts, pushed>>

Go(f, step) == fetch' = [fetch EXCEPT ![f].step = step]
Next1(f) == fetch' = [fetch EXCEPT ![f].step = "blob", ![f].next = @ + 1]

fetchIndex(f) ==
    /\ fetch[f].step = "find"
    /\ \E candidates \in {findSociIndexDesc(fetch[f].manifest, fetch[f].given, enabled) : enabled \in PullModes} :
          \/ \E i \in candidates \cap Stored :
                /\ fetch' = [fetch EXCEPT ![f] = [@ EXCEPT !.step = "blob", !.next = 1, !.index = i, !.found = {i}]]
                /\ UNCHANGED <<store, contexts, events>>
          \/ \E i \in (candidates \cap registry) \ Stored :
                /\ store' = Push(store, f, i)
                /\ fetch' = [fetch EXCEPT ![f] = [@ EXCEPT !.step = "root", !.next = 1, !.index = i, !.found = {}]]
                /\ UNCHANGED <<contexts, events>>
          \/ candidates \cap (Stored \cup registry) = {} /\ FetchFails(f) /\ UNCHANGED events
          \/ /\ fetch[f].given = <<>> \/ candidates \cap Stored = {}
             /\ May("network") /\ Event /\ FetchFails(f)
    /\ UNCHANGED <<images, db, cli, pushed>>

labelIndexRoot(f) ==
    /\ fetch[f].step = "root"
    /\ \/ /\ Exists(store, fetch[f].index)
          /\ store' = LabelGCRoot(store, fetch[f].index)
          /\ Go(f, "blob")
          /\ UNCHANGED <<contexts, events>>
       \/ ~Exists(store, fetch[f].index) /\ FetchFails(f) /\ UNCHANGED events
       \/ May("label") /\ Event /\ FetchFails(f)
    /\ UNCHANGED <<images, db, cli, pushed>>

BlobHere(f) == LayersOf(fetch[f].index)[fetch[f].next].to

\* A blob that is there is taken as it is; the others are stored and labelled.
fetchBlob(f) ==
    /\ fetch[f].step = "blob" /\ fetch[f].next <= Len(LayersOf(fetch[f].index))
    /\ IF Exists(store, BlobHere(f))
       THEN /\ fetch' = [fetch EXCEPT ![f].next = @ + 1, ![f].found = @ \cup {BlobHere(f)}]
            /\ UNCHANGED <<store, contexts, events>>
       ELSE \/ /\ BlobHere(f) \in registry
               /\ store' = Push(store, f, BlobHere(f)) /\ Go(f, "label")
               /\ UNCHANGED <<contexts, events>>
            \/ May("network") /\ Event /\ FetchFails(f)
    /\ UNCHANGED <<images, db, cli, pushed>>

labelBlob(f) ==
    /\ fetch[f].step = "label"
    /\ \/ /\ Exists(store, fetch[f].index)
          /\ store' = LabelGCRefContent(store, fetch[f].index, {BlobHere(f)})
          /\ Next1(f)
          /\ UNCHANGED <<contexts, events>>
       \/ ~Exists(store, fetch[f].index) /\ FetchFails(f) /\ UNCHANGED events
       \/ May("label") /\ Event /\ FetchFails(f)
    /\ UNCHANGED <<images, db, cli, pushed>>

fetchEnds(f) ==
    /\ fetch[f].step = "blob" /\ fetch[f].next > Len(LayersOf(fetch[f].index))
    /\ Settle(f, [index |-> <<fetch[f].index>>, given |-> fetch[f].given # <<>>, found |-> fetch[f].found])
    /\ store' = EndBatch(store, f)
    /\ UNCHANGED <<images, db, cli, pushed, events>>

SnapshotterRestarts ==
    /\ May("restart") /\ Event
    /\ contexts # <<>> \/ \E f \in Fetchers : fetch[f] # NoFetch
    /\ contexts' = <<>>
    /\ fetch' = [f \in Fetchers |-> NoFetch]
    /\ store' = [store EXCEPT !.leases = [o \in DOMAIN @ |->
                    IF o \in Fetchers THEN {}
                    ELSE IF o = "dead" THEN @[o] \cup UNION {@[f] : f \in Fetchers} ELSE @[o]]]
    /\ UNCHANGED <<images, db, cli, pushed>>

-----------------------------------------------------------------------------
(* containerd, and the tools that users have besides soci. *)

CollectGarbage ==
    /\ store' = Collect(store, UNION {{images[n].target} \cup {images[n].index[i] : i \in DOMAIN images[n].index} : n \in DOMAIN images})
    /\ store' # store
    /\ UNCHANGED <<images, db, cli, fetch, contexts, pushed, events>>

LeasesExpire ==
    /\ store.leases["dead"] # {}
    /\ store' = EndBatch(store, "dead")
    /\ UNCHANGED <<images, db, cli, fetch, contexts, pushed, events>>

RemoveImage(n) ==
    /\ n \in DOMAIN images
    /\ Event
    /\ images' = [k \in DOMAIN images \ {n} |-> images[k]]
    /\ UNCHANGED <<store, db, cli, fetch, contexts, pushed>>

PullImage(n, target) ==
    /\ n \notin DOMAIN images
    /\ Event
    /\ images' = (n :> Image(target)) @@ images
    /\ store' = [store EXCEPT !.refs = [b \in DOMAIN @ \cup Pulled(target) |->
                     (IF b \in DOMAIN @ THEN @[b] ELSE {}) \cup IF b \in Pulled(target) THEN PartsOf(b) ELSE {}]]
    /\ UNCHANGED <<db, cli, fetch, contexts, pushed>>

PublishImage(n) ==
    /\ n \in DOMAIN images /\ Closure(images[n].target) \subseteq registry \cup Stored
    /\ ~Closure(images[n].target) \subseteq registry
    /\ Event
    /\ pushed' = pushed \cup (Closure(images[n].target) \ FirstPublished)
    /\ UNCHANGED <<store, images, db, cli, fetch, contexts>>

-----------------------------------------------------------------------------

Build ==
    \/ \E n \in Names, ps \in PlatformArgs, s \in SpanSizes :
          \/ \E paths \in PathArgs : StartBuild("create", n, n, ps, s, paths, FALSE)
          \/ \E dst \in Destinations, force \in {FALSE} \cup {db # <<>>} : StartBuild("convert", n, dst, ps, s, {}, force)
    \/ ReadOciIndex \/ GetImageManifestDescriptor \/ buildSociLayer \/ writeSociIndex \/ labelSociIndex
    \/ updateImage \/ createEnds
    \/ annotateImages \/ pushOCIIndex \/ labelOCIIndex \/ getConvertedImage \/ writeConvertedImage
    \/ \E step \in {"annotate", "labelOci", "getImage", "putImage"} : LabelFails(step)

Manage ==
    \/ \E i \in DOMAIN db \cup {EmptyConfig} : StartRm({i})
    \/ \E n \in DOMAIN images : StartRm(GetArtifactEntriesByImageDigest(db, images[n].target))
    \/ removeArtifactEntry \/ removeContent
    \/ StartRebuild \/ removeOldArtifacts \/ addNewArtifacts
    \/ \E n \in Names, ps \in PlatformArgs : StartPush(n, ps)
    \/ selectIndexes \/ copyIndexes
    \/ CliCrashes

Snapshotter ==
    \/ \E f \in Fetchers :
          \/ \E n \in DOMAIN images : \E m \in Manifests(images[n].target) : \E given \in {<<>>} \cup {<<i>> : i \in Given(m)} : getSociContext(f, m, given)
          \/ fetchIndex(f) \/ labelIndexRoot(f) \/ fetchBlob(f) \/ labelBlob(f) \/ fetchEnds(f)
    \/ SnapshotterRestarts

World ==
    \/ CollectGarbage \/ LeasesExpire
    \/ \E n \in Names : RemoveImage(n) \/ PublishImage(n) \/ \E target \in Published : PullImage(n, target)

Next == Build \/ Manage \/ Snapshotter \/ World

Spec == Init /\ [][Next]_vars
-----------------------------------------------------------------------------

Needs(blobs) == UNION {Closure(b) : b \in blobs}

\* What a command that runs has made so far.
Made ==
    {cli.blobs[i].to : i \in DOMAIN cli.blobs} \cup {cli.indexes[i].desc.to : i \in DOMAIN cli.indexes}
        \cup IF cli.step \in {"label", "image", "labelOci", "getImage", "putImage"} THEN {cli.index} ELSE {}

\* No garbage collection takes what `soci create` or `soci convert` makes: while
\* the command runs, nothing of what it has made for any platform, all of which
\* comes under its leases (soci_index.go:494, create.go:150); once an image names
\* an index, by its label or its target, nothing of that index until the image is
\* removed or its label names another, whatever runs, fails or is removed in
\* between.  `soci create` has one label for all platforms: only the index of the
\* last one is kept when it ends (see CreateKeepsEveryIndex).  Left out: blobs the
\* command found in the store, which its lease does not cover, and zTOCs whose
\* label could not be set, an error that writeSociIndex drops (soci_index.go:1055).
ImagesKeepTheirIndexes ==
    /\ cli.op \in {"create", "convert"} => Needs(Made) \subseteq Stored \cup Needs(cli.found)
    /\ \A n \in DOMAIN images :
          /\ Needs({images[n].index[i] : i \in DOMAIN images[n].index}) \subseteq Stored \cup Needs(images[n].indexFound)
          /\ images[n].target \notin Published => Needs({images[n].target}) \subseteq Stored \cup Needs(images[n].targetFound)

\* What FetchSociArtifacts stores for a sociContext stays while the snapshotter
\* runs, though nothing but its own labels keeps it: the index is made a root
\* before its zTOCs are fetched, and each zTOC is labelled before the lease ends.
\* Left out: blobs that were in the store already, which it does not label.
\* And the index is one of the image that is mounted, whichever of the
\* annotation and the referrers it was found by and whichever versions are
\* enabled: every layer it describes is a layer of the manifest.  An index that
\* the mount's label gives is taken as it is (fs.go:898).
ContextsKeepTheirZtocs ==
    \A m \in DOMAIN contexts : \A i \in DOMAIN contexts[m].index :
        LET descs == Range(LayersOf(contexts[m].index[i])) IN
        /\ {contexts[m].index[i]} \cup {d.to : d \in descs} \subseteq Stored \cup Needs(contexts[m].found)
        /\ ~contexts[m].given => {d.note[1] : d \in descs} \subseteq Range(Layers(m))

\* Prefetch artifacts hold the spans of the bytes of files asked for, and of the
\* byte after each, in order, merged where they touch or overlap.
SpansAreExact(prefetch, layer, spanSize) ==
    /\ \A k \in 1..(Len(prefetch.spans) - 1) : prefetch.spans[k][2] + 1 < prefetch.spans[k + 1][1]
    /\ \E paths \in SUBSET {p \in DOMAIN FileExtents : layer.name \in DOMAIN FileExtents[p]} :
          UNION {s[1]..s[2] : s \in Range(prefetch.spans)}
            = UNION {{b \div spanSize : b \in FileExtents[p][layer.name][1]..(FileExtents[p][layer.name][1] + FileExtents[p][layer.name][2])}
                        : p \in paths}

\* A zTOC or prefetch artifact in a SOCI index that is stored or published was
\* made from the layer it is annotated with, however the database came to name
\* it: by a build, or by rebuild-db from indexes with prefetch artifacts.
IndexesDescribeTheirLayers ==
    \A i \in Stored \cup pushed : (IsSociIndex(i, "v1") \/ IsSociIndex(i, "v2")) =>
        \A d \in Range(LayersOf(i)) :
            /\ d.mediaType = "soci layer" => d.to.kind = "ztoc" /\ d.to.name = d.note[1].name
            /\ d.mediaType = "soci prefetch" => d.to.kind = "prefetch"
            /\ d.to.kind = "prefetch" => SpansAreExact(d.to, d.note[1], LayersOf(i)[1].to.n)
            /\ i.subject # <<>> => d.note[1] \in Range(Layers(i.subject[1]))

SociDescs(target) == {d \in {target.parts[i] : i \in DOMAIN target.parts} : d.mediaType = "v2"}

\* Whatever was converted before and for which platforms, an image that
\* `soci convert` wrote has at most one SOCI index for a platform; the index and
\* the image manifest of the platform name each other; and no annotation names
\* an index that is not part of the image.
ConvertedImagesAreConsistent ==
    \A n \in DOMAIN images : images[n].target.kind = "index" /\ SociDescs(images[n].target) # {} =>
        \E t \in {images[n].target} :
            /\ \A i, j \in DOMAIN t.parts :
                  t.parts[i] \in SociDescs(t) /\ t.parts[j] \in SociDescs(t) /\ t.parts[i].platform = t.parts[j].platform => i = j
            /\ \A d \in SociDescs(t) : \E i \in DOMAIN t.parts :
                  /\ d.note = <<t.parts[i].to>> /\ t.parts[i].platform = d.platform
                  /\ t.parts[i].to.annotation = <<d.to>>
            /\ \A i \in DOMAIN t.parts : \A k \in DOMAIN t.parts[i].to.annotation :
                  \E d \in SociDescs(t) : d.to = t.parts[i].to.annotation[k]

\* The database lists every index that images keep (soci push and soci index rm
\* find indexes through it), through rebuilds that race with garbage collection.
KeptIndexesAreListed ==
    \A n \in DOMAIN images : \A i \in DOMAIN images[n].index :
        images[n].index[i] \in Stored => images[n].index[i] \in DOMAIN db \cup images[n].indexFound

-----------------------------------------------------------------------------
\* When `soci create` ends, the image's label names the index of every platform.
\* It names that of the last one, and containerd may collect the others.
CreateKeepsEveryIndex ==
    cli.step = "end" /\ cli.name \in DOMAIN images =>
        \A i \in DOMAIN cli.indexes : cli.indexes[i].desc.to \in Range(images[cli.name].index)

=============================================================================
