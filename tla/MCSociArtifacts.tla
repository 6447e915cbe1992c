--------------------------- MODULE MCSociArtifacts ---------------------------
(* Small instances of SociArtifacts. *)
EXTENDS SociArtifacts

Layered(names) == [i \in DOMAIN names |-> Desc(Layer(names[i]), "layer", "", <<>>)]
DockerImage(platform, layers) ==
    Manifest("docker", Desc(ImageConfig(platform), "docker", "", <<>>), Layered(layers), <<>>, <<>>)
Of(platform, layers) == Desc(DockerImage(platform, layers), "image", platform, <<>>)

\* Two platforms that share a layer; three platforms, one with nothing but a
\* layer that is too small and one that is not pulled; a manifest on its own,
\* with a SOCI index.
TwoPlatforms == [OciIndex(<<Of("p1", <<"A", "B">>), Of("p2", <<"A">>)>>) EXCEPT !.name = "docker"]
PartPulled == OciIndex(<<Of("p1", <<"A", "S">>), Of("p2", <<"S">>), Of("p3", <<"B">>)>>)
OneManifest == DockerImage("p1", <<"A">>)

AllPublished == {TwoPlatforms, PartPulled, OneManifest}
WhatIsPulled(target) == IF target = PartPulled THEN Closure(target) \ Closure(target.parts[3].to) ELSE Closure(target)
PublishedIndexes ==
    {NewIndex("v1", <<addSociLayerAnnotations(Layer("A"), Ztoc("A", 2)),
                      Desc(PrefetchArtifact(<<<<0, 2>>>>), "soci prefetch", "", <<Layer("A")>>)>>, <<OneManifest>>)}
\* A mount of the manifest with the small layer gives an index of another one.
GivenIndexes(m) == IF m = PartPulled.parts[2].to THEN PublishedIndexes ELSE {}

PlatformLists == {<<"p1">>, <<"p1", "p2">>}
\* Of "A", in spans of two bytes: a file inside another, one that touches it, one
\* on its own.
Extents == "f" :> ("A" :> <<1, 1>> @@ "B" :> <<3, 1>>) @@ "g" :> ("A" :> <<0, 4>>)
           @@ "h" :> ("A" :> <<6, 1>>) @@ "k" :> ("A" :> <<11, 1>>)
PathSets == {DOMAIN Extents}
=============================================================================
