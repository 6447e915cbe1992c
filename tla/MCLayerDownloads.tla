-------------------------- MODULE MCLayerDownloads --------------------------
(* Small instances of LayerDownloads. *)
EXTENDS LayerDownloads, TLC

\* Two images.  One has a layer that takes two requests, of different length, and
\* shares a layer that takes a single request with the other; a second pull of
\* it may be what premounts the shared one.
OwnImage == "a1" :> "a" @@ "a2" :> "a" @@ "b1" :> "b"
Digests == "a1" :> "x" @@ "a2" :> "y" @@ "b1" :> "y"
Sizes == "a1" :> 3 @@ "a2" :> 2 @@ "b1" :> 2

Config(d, perImage, u, unpacksPerImage, chunkSize, discard) ==
    [downloads |-> d, downloadsPerImage |-> perImage, unpacks |-> u,
     unpacksPerImage |-> unpacksPerImage, chunkSize |-> chunkSize, discard |-> discard]

\* Tight limits; limits for images alone; none, and one request a layer; and
\* limits that checkParallelPullUnpack refuses.
SomeConfigs == {Config(2, 1, 1, 1, 2, FALSE), Config(0, 2, 0, 1, 2, TRUE), Config(1, 0, 0, 0, 0, FALSE),
                Config(1, 2, 1, 1, 2, FALSE)}
=============================================================================
