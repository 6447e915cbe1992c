---------------------------- MODULE MCLayerFiles ----------------------------
(***************************************************************************)
(* Layers of up to three entries, over the paths a, b, a/b, with the kinds *)
(* of entries that the metadata code tells apart, as a tar file and as a   *)
(* gzip file with one or several spans.                                    *)
(***************************************************************************)
EXTENDS LayerFiles

A == <<"a">>
B == <<"b">>

Entry(path, type, size, link, xattrs, header) ==
    [path |-> path, type |-> type, size |-> size, link |-> link, xattrs |-> xattrs,
     header |-> header]

Entries == {
    Entry(<<>>, "dir", 0, <<>>, Nothing, 2),
    Entry(<<A>>, "dir", 0, <<>>, Nothing, 2),
    Entry(<<A>>, "reg", 3, <<>>, [x |-> "v"], 4),
    Entry(<<A, B>>, "reg", 2, <<>>, [x |-> "v", y |-> ""], 4),
    Entry(<<B>>, "reg", 5, <<>>, Nothing, 2),
    Entry(<<B>>, "hardlink", 0, <<A>>, Nothing, 2),
    Entry(<<B>>, "symlink", 0, <<A>>, Nothing, 2),
    Entry(<<Whiteout(A)>>, "reg", 0, <<>>, Nothing, 2),
    Entry(<<A, whiteoutOpaqueDir>>, "reg", 0, <<>>, Nothing, 2)}

Layers(n) == [1 .. n -> Entries]

\* Blocks of at most `len' bytes of data, in three bytes each; every second
\* one starts in the middle of a byte.
DeflateBlocks(size, len) ==
    [i \in 1 .. (size + len - 1) \div len |->
        [out |-> IF i * len <= size THEN len ELSE size - (i - 1) * len,
         in |-> 3, bits |-> i % 2 = 0]]

Tar(entries, zeros) ==
    [entries |-> entries, zeros |-> zeros, algorithm |-> "uncompressed", blocks |-> <<>>]

Gzip(entries, zeros, len) ==
    [Tar(entries, zeros) EXCEPT !.algorithm = "gzip",
        !.blocks = DeflateBlocks(UncompressedSize(Tar(entries, zeros)), len)]

EmptyBlock == [out |-> 0, in |-> 3, bits |-> FALSE]
Flushed(b) == [b EXCEPT !.blocks = <<EmptyBlock>> \o @]

\* Three different entries of files and directories that can be unpacked
LongLayers ==
    {l \in [1 .. 3 -> {e \in Entries : e.path # <<>> /\ e.type # "symlink"}] :
        Cardinality(Range(l)) = 3 /\ Unpacked(l).ok}

MCBlobs ==
    {Tar(l, 2) : l \in Layers(1) \union Layers(2)}
      \union {Tar(l, 0) : l \in Layers(1)} \union {Gzip(l, 1, 3) : l \in Layers(1)}
      \union {Gzip(l, 4, 3) : l \in {m \in Layers(2) : m[1] # m[2]}}
      \union {Gzip(l, 2, 5) : l \in LongLayers}
      \union {Flushed(Gzip(l, 2, 5)) : l \in Layers(1)}

MCMapOrders == {<<"x", "y">>, <<"y", "x">>}
MCScripts == {<<"range", "range">>, <<"whole", "range">>, <<"whole", "whole">>,
              <<"short", "range">>, <<"error", "range">>}
MCReads == {<<0, 0>>, <<0, 2>>, <<1, 4>>, <<3, 4>>}
MCNames == {A, B, Whiteout(A), StateDir}

=============================================================================
