----------------------------- MODULE ChunkRanges -----------------------------
(* How fs/parallel_artifact_fetcher.go splits a layer into ranged requests. *)
EXTENDS Integers

unlimited == 0

calcNumLoops(chunkSize, size) ==
    IF chunkSize <= unlimited THEN 1
    ELSE IF size % chunkSize # 0 THEN (size \div chunkSize) + 1 ELSE size \div chunkSize

\* The first and the last byte of request i: the range is inclusive.
getRange(chunkSize, i, size) ==
    IF chunkSize <= unlimited THEN <<0, size - 1>>
    ELSE <<i * chunkSize,
           (IF i * chunkSize + chunkSize < size THEN i * chunkSize + chunkSize ELSE size) - 1>>

Bytes(chunkSize, i, size) == getRange(chunkSize, i, size)[1] .. getRange(chunkSize, i, size)[2]

=============================================================================
