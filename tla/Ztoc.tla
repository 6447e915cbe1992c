-------------------------------- MODULE Ztoc --------------------------------
(***************************************************************************)
(* The zTOC of a layer: what ztoc.Builder writes about a layer blob, and   *)
(* what comes back when the snapshotter reads it (ztoc/, ztoc/compression/ *)
(* and the C code behind it).                                              *)
(*                                                                         *)
(* A byte of the tar archive is the number of its position, and so is a    *)
(* byte of the blob, so that a run of bytes says where it comes from.  A   *)
(* digest is the run it was computed from.                                 *)
(*                                                                         *)
(* A blob is a record                                                      *)
(*   entries   the tar entries: path, type, size, link, xattrs and header, *)
(*             the number of bytes of the entry's header blocks;           *)
(*   zeros     the zero blocks after the last entry;                       *)
(*   algorithm "gzip" or "uncompressed";                                   *)
(*   blocks    for gzip, the deflate blocks: the bytes they produce (out), *)
(*             the bytes they take (in), and whether the block starts in   *)
(*             the middle of a byte (bits).                                *)
(***************************************************************************)
EXTENDS Integers, Sequences, SequencesExt

CONSTANTS
    TarBlockSize,
    SpanSize,
    GzipHeader     \* bytes before the first deflate block

\* The run of positions from..to-1.
Run(from, to) == [i \in 1 .. to - from |-> from + i - 1]

AlignToTarBlock(o) ==
    IF o % TarBlockSize > 0 THEN o + TarBlockSize - (o % TarBlockSize) ELSE o

-----------------------------------------------------------------------------
(* Building                                                                *)

\* tar.Reader.Next on a tracked stream: where the data of the entry after
\* those of toc starts, and where its header does.
NextHeader(toc) ==
    IF toc = <<>> THEN 0
    ELSE AlignToTarBlock(Last(toc).offset + Last(toc).size)

\* metadataFromTarReader
metadataFromTarReader(blob) ==
    FoldLeft(LAMBDA toc, e :
                Append(toc, [path |-> e.path, type |-> e.type, link |-> e.link,
                             xattrs |-> e.xattrs, size |-> e.size,
                             tarHeaderOffset |-> NextHeader(toc),
                             offset |-> NextHeader(toc) + e.header]),
             <<>>, blob.entries)

\* Where the tracked reader is when tar.Reader has come to the end: that is after
\* a second zero block, or where the archive ends.  A layer may hold more.
UncompressedArchiveSize(blob) ==
    NextHeader(metadataFromTarReader(blob)) + TarBlockSize * (IF blob.zeros > 2 THEN 2 ELSE blob.zeros)
UncompressedSize(blob) ==
    NextHeader(metadataFromTarReader(blob)) + blob.zeros * TarBlockSize

\* generate_zinfo_from_fp: a checkpoint at a block boundary that is at the
\* start of the data, or more than a span after the previous one; none after
\* the last block.
generate_zinfo_from_fp(blocks) ==
    LET Boundary(z, b) ==
            LET due == z.out = 0 \/ z.out - z.last > SpanSize
                cp == [in |-> z.in, out |-> z.out, bits |-> b.bits]
            IN  [list |-> IF due THEN Append(z.list, cp) ELSE z.list,
                 last |-> IF due THEN z.out ELSE z.last,
                 in |-> z.in + b.in, out |-> z.out + b.out]
        start == [list |-> <<>>, last |-> 0, in |-> GzipHeader, out |-> 0]
    IN  FoldLeft(Boundary, start, blocks)

GzipSize(blob) == generate_zinfo_from_fp(blob.blocks).in

\* The size of the file.  (A gzip trailer is part of the last block here.)
CompressedSize(blob) ==
    IF blob.algorithm = "gzip" THEN GzipSize(blob) ELSE UncompressedSize(blob)

\* NewZinfoFromFile.  A zinfo of a tar file is its size and its span size.
NewZinfoFromFile(blob) ==
    IF blob.algorithm = "gzip"
    THEN [algorithm |-> "gzip", list |-> generate_zinfo_from_fp(blob.blocks).list]
    ELSE [algorithm |-> "uncompressed", size |-> UncompressedSize(blob)]

-----------------------------------------------------------------------------
(* Zinfo                                                                   *)

\* The list of a gzip zinfo starts at 1, span IDs start at 0.
Checkpoint(zinfo, id) == zinfo.list[id + 1]

MaxSpanID(zinfo) ==
    IF zinfo.algorithm = "gzip" THEN Len(zinfo.list) - 1
    ELSE IF zinfo.size % SpanSize = 0 THEN zinfo.size \div SpanSize - 1
    ELSE zinfo.size \div SpanSize

\* pt_index_from_ucmp_offset stops at the last checkpoint; the division of a
\* tar file's does not.
UncompressedOffsetToSpanID(zinfo, off) ==
    IF zinfo.algorithm = "gzip"
    THEN SelectLastInSeq(zinfo.list, LAMBDA cp : cp.out <= off) - 1
    ELSE off \div SpanSize

\* A gzip span that starts in the middle of a byte takes that byte in too.
StartCompressedOffset(zinfo, id) ==
    IF zinfo.algorithm = "gzip"
    THEN Checkpoint(zinfo, id).in - (IF Checkpoint(zinfo, id).bits THEN 1 ELSE 0)
    ELSE id * SpanSize

EndCompressedOffset(zinfo, id, fileSize) ==
    IF id = MaxSpanID(zinfo) THEN fileSize
    ELSE IF zinfo.algorithm = "gzip" THEN Checkpoint(zinfo, id + 1).in
    ELSE (id + 1) * SpanSize

StartUncompressedOffset(zinfo, id) ==
    IF zinfo.algorithm = "gzip" THEN Checkpoint(zinfo, id).out ELSE id * SpanSize

EndUncompressedOffset(zinfo, id, fileSize) ==
    IF id = MaxSpanID(zinfo) THEN fileSize
    ELSE StartUncompressedOffset(zinfo, id + 1)

\* ExtractDataFromBuffer: what inflating buf gives, size bytes from position off
\* of the archive on.  If buf is not from the start of span id, nobody knows.
Garbage == -1

Extracted(zinfo, buf, size, off, id) ==
    LET right == Head(buf) = StartCompressedOffset(zinfo, id)
    IN  IF size < 0 \/ buf = <<>> THEN [ok |-> FALSE, bytes |-> <<>>]
        ELSE [ok |-> TRUE,
              bytes |-> IF right THEN Run(off, off + size)
                        ELSE [i \in 1 .. size |-> Garbage]]

-----------------------------------------------------------------------------
(* The table as it is stored                                               *)

\* getPerSpanDigests
getPerSpanDigests(zinfo, fileSize) ==
    [i \in 1 .. MaxSpanID(zinfo) + 1 |->
        Run(StartCompressedOffset(zinfo, i - 1),
            EndCompressedOffset(zinfo, i - 1, fileSize))]

\* BuildZtoc
BuildZtoc(blob) ==
    LET zinfo == NewZinfoFromFile(blob)
    IN  [toc |-> metadataFromTarReader(blob), zinfo |-> zinfo,
         maxSpanID |-> MaxSpanID(zinfo),
         spanDigests |-> getPerSpanDigests(zinfo, CompressedSize(blob)),
         compressedArchiveSize |-> CompressedSize(blob),
         uncompressedArchiveSize |-> UncompressedArchiveSize(blob)]

\* Marshal: all of the zTOC but the offsets of the tar headers.
Marshal(ztoc) ==
    [ztoc EXCEPT !.toc = [i \in DOMAIN @ |->
        [path |-> @[i].path, type |-> @[i].type, link |-> @[i].link,
         xattrs |-> @[i].xattrs, size |-> @[i].size, offset |-> @[i].offset]]]

\* flatbufferToTOC: the entries in the order of their data, with the offsets
\* of their headers worked out again.
WithHeaders(sorted, headers) ==
    [ok |-> \A i \in DOMAIN sorted : headers[i] <= sorted[i].offset,
     toc |-> [i \in DOMAIN sorted |->
                [path |-> sorted[i].path, type |-> sorted[i].type, link |-> sorted[i].link,
                 xattrs |-> sorted[i].xattrs, size |-> sorted[i].size,
                 offset |-> sorted[i].offset, tarHeaderOffset |-> headers[i]]]]

InOrder(stored) == SortSeq(stored, LAMBDA x, y : x.offset < y.offset)
EndOf(e) == e.offset + e.size

Slip_NotAligned(stored) ==
    WithHeaders(InOrder(stored),
                [i \in DOMAIN stored |-> IF i = 1 THEN 0 ELSE EndOf(InOrder(stored)[i - 1])])

flatbufferToTOC(stored) ==
    WithHeaders(InOrder(stored),
                [i \in DOMAIN stored |-> IF i = 1 THEN 0
                                         ELSE AlignToTarBlock(EndOf(InOrder(stored)[i - 1]))])

\* Unmarshal
Unmarshal(stored) ==
    [ok |-> flatbufferToTOC(stored.toc).ok,
     ztoc |-> [stored EXCEPT !.toc = flatbufferToTOC(@).toc]]

=============================================================================
