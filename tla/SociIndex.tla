------------------------------ MODULE SociIndex ------------------------------
(***************************************************************************)
(* The content that soci/soci_index.go and soci/soci_convert.go read and   *)
(* write: layers, zTOCs, prefetch artifacts, image manifests, SOCI indexes *)
(* and OCI indexes, and the functions that make one from another.  As in   *)
(* the code, a SOCI index is a manifest that its config's media type tells *)
(* from an image.                                                          *)
(***************************************************************************)
EXTENDS Integers, Sequences, SequencesExt

CONSTANTS
    SmallLayers,        \* layers below min-layer-size
    UnsupportedLayers,  \* layers compressed in a way no zTOC can be built for
    FileExtents         \* path -> layer -> <<offset, size>> of the file there

Blob(kind, name, n, spans) ==
    [kind |-> kind, name |-> name, n |-> n, spans |-> spans, parts |-> <<>>, subject |-> <<>>, annotation |-> <<>>]

\* A descriptor; `note` is the digest its annotations give: of the image layer
\* (zTOCs, prefetch artifacts) or of the image manifest (SOCI indexes).
Desc(blob, mediaType, platform, note) ==
    [to |-> blob, mediaType |-> mediaType, platform |-> platform, note |-> note]

Layer(l) == Blob("layer", l, 0, <<>>)
Ztoc(l, spanSize) == Blob("ztoc", l, spanSize, <<>>)
PrefetchArtifact(spans) == Blob("prefetch", "", 0, spans)
ImageConfig(platform) == Blob("config", platform, 0, <<>>)
EmptyConfig == Blob("config", "", 0, <<>>)

Manifest(mediaType, config, layers, subject, annotation) ==
    [Blob("manifest", mediaType, 0, <<>>) EXCEPT !.parts = <<config>> \o layers, !.subject = subject, !.annotation = annotation]

OciIndex(descs) == [Blob("index", "oci", 0, <<>>) EXCEPT !.parts = descs]

ConfigOf(manifest) == Head(manifest.parts)
LayersOf(manifest) == Tail(manifest.parts)
Layers(manifest) == [i \in 1..Len(LayersOf(manifest)) |-> LayersOf(manifest)[i].to]

IsSociIndex(blob, version) == blob.kind = "manifest" /\ ConfigOf(blob).mediaType = version

NewIndex(version, blobs, subject) ==
    Manifest("oci", Desc(EmptyConfig, version, "", <<>>), blobs, subject, <<>>)

\* Everything a SOCI index or an OCI index needs, itself included.
RECURSIVE Closure(_)
Closure(blob) == {blob} \cup UNION {Closure(blob.parts[i].to) : i \in DOMAIN blob.parts}

\* The platforms.OnlyStrict match of an image's target: the first descriptor of
\* the platform, or the target itself when it is a manifest, whose platform is
\* looked at only if it is `known`.
ForPlatform(target, platform, known) ==
    IF target.kind = "index"
    THEN {target.parts[i].to : i \in {j \in DOMAIN target.parts :
            /\ target.parts[j].platform = platform
            /\ \A k \in 1..(j - 1) : target.parts[k].platform # platform}}
    ELSE IF known /\ ConfigOf(target).to.name # platform THEN {} ELSE {target}

-----------------------------------------------------------------------------
(* Layers. *)

skipBuildingZtoc(layer) == layer.name \in SmallLayers \cup UnsupportedLayers

addSociLayerAnnotations(layer, ztoc) == Desc(ztoc, "soci layer", "", <<layer>>)

\* The spans of one file: the end offset is that of the byte after it.
FileSpans(extent, spanSize) ==
    <<extent[1] \div spanSize, (extent[1] + extent[2]) \div spanSize>>

\* The layer a path is prefetched from: the topmost of those with a zTOC.
TopLayers(layers, path, built) ==
    {layers[i] : i \in {j \in DOMAIN layers :
        /\ layers[j] \in built /\ layers[j].name \in DOMAIN FileExtents[path]
        /\ \A k \in (j + 1)..Len(layers) : layers[k] \in built => layers[k].name \notin DOMAIN FileExtents[path]}}

SpansIn(layers, layer, paths, built, spanSize) ==
    {FileSpans(FileExtents[p][layer.name], spanSize) : p \in {q \in paths : layer \in TopLayers(layers, q, built)}}

Before(s, t) == s[1] < t[1] \/ (s[1] = t[1] /\ s[2] < t[2])

\* One turn of the loop: a span that touches or overlaps the last one extends it.
Merge(merged, s) ==
    IF merged = <<>> THEN <<s>>
    ELSE IF s[1] <= Last(merged)[2] + 1
    THEN Front(merged) \o <<<<Last(merged)[1], IF s[2] > Last(merged)[2] THEN s[2] ELSE Last(merged)[2]>>>>
    ELSE Append(merged, s)

normalizePrefetchSpans(spans) ==
    FoldLeft(LAMBDA merged, s : Merge(merged, s), <<>>, SetToSortSeq(spans, Before))

\* The prefetch artifacts of an index, in the order of its layers; `built` is
\* what the builder remembers of its layers.
buildPrefetchLayer(layers, paths, built, spanSize) ==
    LET Wanted(layer) == SpansIn(layers, layer, paths, built, spanSize)
        Some(layer) == Wanted(layer) # {}
        For(layer) == Desc(PrefetchArtifact(normalizePrefetchSpans(Wanted(layer))), "soci prefetch", "", <<layer>>)
        chosen == SelectSeq(layers, Some)
    IN  [i \in 1..Len(chosen) |-> For(chosen[i])]

-----------------------------------------------------------------------------
(* Conversion. *)

\* A manifest on its own is given a platform: that of its config.
newOciIndex(target) ==
    IF target.kind = "index" THEN target.parts
    ELSE <<Desc(target, "image", ConfigOf(target).to.name, <<>>)>>

\* The rewritten manifest: OCI media types, and the digest of its SOCI index.
Annotated(manifest, index) ==
    Manifest("oci", [ConfigOf(manifest) EXCEPT !.mediaType = "image"], LayersOf(manifest),
             manifest.subject, IF index = <<>> THEN manifest.annotation ELSE index)

\* An index here is a record [platform, manifest, desc] (IndexWithMetadata).
IndexOf(indexes, manifest) == SelectInSeq(indexes, LAMBDA ix : ix.manifest = manifest)

Slip_AlwaysAppends(descs, ix) == Append(descs, [ix.desc EXCEPT !.platform = ix.platform])

addSociIndex(descs, ix) ==
    LET i == SelectInSeq(descs, LAMBDA d : d.mediaType = "v2" /\ d.platform = ix.platform)
        desc == [ix.desc EXCEPT !.platform = ix.platform]
    IN  IF i = 0 THEN Append(descs, desc) ELSE [descs EXCEPT ![i] = desc]

=============================================================================
