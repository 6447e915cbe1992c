----------------------------- MODULE ArtifactsDb -----------------------------
(***************************************************************************)
(* The artifacts database of soci/artifacts.go: a bucket for each artifact *)
(* digest.  A value `db` of it is a function from artifacts to entries.    *)
(***************************************************************************)
EXTENDS SociIndex, FiniteSets, TLC

ArtifactEntry(type, original, image, spanSize, createdAt) ==
    [type |-> type, original |-> original, image |-> image, spanSize |-> spanSize, createdAt |-> createdAt]

WriteArtifactEntry(db, artifact, entry) == (artifact :> entry) @@ db

Slip_AnyLayer(db, layer, spanSize, force) ==
    {z \in DOMAIN db : ~force /\ db[z].type = "soci_layer" /\ db[z].spanSize = spanSize}

\* Which zTOCs of a layer the builder may use again: with --force, none.
getExistingZtocForLayer(db, layer, spanSize, force) ==
    {z \in DOMAIN db : /\ ~force
                       /\ db[z].type = "soci_layer"
                       /\ db[z].original = <<layer>>
                       /\ db[z].spanSize = spanSize}

getIndexArtifactEntries(db, manifest) ==
    {a \in DOMAIN db : db[a].type = "soci_index" /\ db[a].original = <<manifest>>}

GetArtifactEntriesByImageDigest(db, image) ==
    {a \in DOMAIN db : db[a].type = "soci_index" /\ db[a].image = <<image>>}

RemoveArtifactEntryByIndexDigest(db, index) == [a \in DOMAIN db \ {index} |-> db[a]]

\* An entry whose digest is not found is an error (see Unknown).
updateSociV2ArtifactReference(db, index, manifest, image) ==
    [db EXCEPT ![index].original = manifest, ![index].image = image]

\* All the SOCI indexes of an OCI index, one after the other.
updateSociV2ArtifactReferences(db, descs, image) ==
    FoldLeft(LAMBDA d, desc : IF desc.mediaType = "v2"
                              THEN updateSociV2ArtifactReference(d, desc.to, desc.note, image)
                              ELSE d,
             db, descs)

Slip_ChecksOnlyLayers(db, stored) ==
    [a \in {b \in DOMAIN db : b \in stored /\ db[b].type # "soci_index"} |-> db[a]]

RemoveOldArtifacts(db, stored) == [a \in DOMAIN db \cap stored |-> db[a]]

\* The indexes that addNewArtifacts looks at: of version 1, and not yet known.
NewIndexes(db, stored) ==
    {b \in stored : IsSociIndex(b, "v1") /\ b.subject # <<>> /\ b \notin DOMAIN db}

\* Every blob of the index becomes a layer's; only zTOCs have a span size.
addNewArtifact(db, index, createdAt) ==
    FoldLeft(LAMBDA d, desc : WriteArtifactEntry(d, desc.to,
                                 ArtifactEntry("soci_layer", desc.note, <<>>, desc.to.n, createdAt)),
             WriteArtifactEntry(db, index,
                 ArtifactEntry("soci_index", index.subject, index.subject, 0, createdAt)),
             LayersOf(index))

=============================================================================
