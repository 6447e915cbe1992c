----------------------------- MODULE LayerFiles -----------------------------
(***************************************************************************)
(* The files of a lazily loaded layer, from the zTOC to the bytes that a   *)
(* read returns: the metadata store is filled (metadata/reader.go), the    *)
(* span manager checks the table (fs/span-manager), the kernel looks up,   *)
(* lists, opens and reads (fs/layer/node.go, fs/reader/reader.go), and     *)
(* spans are fetched from the registry by byte range (fs/remote/blob.go,   *)
(* resolver.go).                                                           *)
(*                                                                         *)
(* One FUSE request is one step.  That requests of several threads for one *)
(* span exclude each other is the subject of SpanManager, what a registry  *)
(* answers to a request before it sends a body that of RegistryAccess, and *)
(* when a layer is closed that of LazyMounts.                              *)
(***************************************************************************)
EXTENDS LayerMetadata

CONSTANTS
    Blobs,        \* the layers to consider
    MapOrders,    \* orders in which a loop may meet the keys of a map
    ChunkSize,    \* insertion chunk size of the metadata store
    SharedStore,  \* whether layers share a database ("db") or not ("db-multi")
    Names,        \* the names that a client asks for
    Reads,        \* the offsets and lengths of reads
    Retries,      \* maxSpanVerificationFailureRetries
    Scripts,      \* the replies that the attempts at a span may get
    MaxRequests   \* bound: FUSE requests of a behaviour

VARIABLES
    blob,      \* the layer in the registry
    ztoc,      \* its zTOC, as the snapshotter reads it
    disk,      \* what unpacking it gives, for comparison
    mapOrder,
    store,     \* the metadata of the layer
    chunk,     \* the next entry to insert
    phase,     \* "nodes", "spans", "mounted" or "failed"
    reruns,    \* how often a batch was rolled back under the layer
    inodes,    \* path -> what the kernel knows there
    listed,    \* the nodes with entsCached
    file,      \* an open file, or NoFile
    spans,     \* what is in the cache: span -> its bytes
    regions,   \* fetchedRegionSet
    requests,  \* how many requests came
    answer     \* the last request and what it returned

vars == <<blob, ztoc, disk, mapOrder, store, chunk, phase, reruns, inodes, listed,
          file, spans, regions, requests, answer>>

layerVars == <<blob, ztoc, disk, mapOrder>>
initVars == <<store, chunk, phase, reruns>>

NoFile == [id |-> NoNode]
NoAnswer == [op |-> "none"]
StateDir == <<".soci-snapshotter">>

EmptyStore == [nodes |-> Nothing, md |-> Nothing, curID |-> 0, root |-> NoNode,
               ok |-> TRUE]

Init ==
    /\ blob \in Blobs
    /\ disk = Unpacked(blob.entries)
    /\ mapOrder \in MapOrders
    /\ store = initRootNode(EmptyStore)
    /\ chunk = 1
    /\ \E read \in {Unmarshal(Marshal(BuildZtoc(blob)))} :
          ztoc = read.ztoc /\ phase = IF read.ok THEN "nodes" ELSE "failed"
    /\ reruns = 0
    /\ inodes = Nothing /\ listed = {} /\ file = NoFile
    /\ spans = Nothing /\ regions = <<>>
    /\ requests = 0 /\ answer = NoAnswer

-----------------------------------------------------------------------------
(* Mounting                                                                *)

ChunkEnd == IF chunk + ChunkSize - 1 < Len(ztoc.toc) THEN chunk + ChunkSize - 1
            ELSE Len(ztoc.toc)

RunChunk(st) == initNodes(st, ztoc.toc, chunk, ChunkEnd, mapOrder)

\* A transaction is rolled back: the nodes are what they were, what the
\* function changed outside of the database stays.
RolledBack(st) == [st EXCEPT !.nodes = store.nodes, !.ok = TRUE]

\* db.Batch runs the function of a chunk.  If the function fails, it is run
\* once more on its own.
InsertChunk ==
    /\ phase = "nodes" /\ chunk <= Len(ztoc.toc)
    /\ \E once \in {RunChunk(store)} :
       \E done \in {IF once.ok THEN once ELSE RunChunk(RolledBack(once))} :
          /\ store' = done
          /\ phase' = IF done.ok THEN phase ELSE "failed"
    /\ chunk' = ChunkEnd + 1
    /\ UNCHANGED <<layerVars, reruns, inodes, listed, file, spans, regions,
                   requests, answer>>

\* In a shared database the function of another layer in the same batch may
\* fail; the batch is rolled back and the function will be run again.
RollBackChunk ==
    /\ SharedStore /\ reruns < 1
    /\ phase = "nodes" /\ chunk <= Len(ztoc.toc)
    /\ RunChunk(store).ok
    /\ store' = RolledBack(RunChunk(store))
    /\ reruns' = reruns + 1
    /\ UNCHANGED <<layerVars, chunk, phase, inodes, listed, file, spans, regions,
                   requests, answer>>

\* The children and the entries of the nodes are written in a second pass.
WriteMetadata ==
    /\ phase = "nodes" /\ chunk > Len(ztoc.toc)
    /\ phase' = "spans"
    /\ UNCHANGED <<layerVars, store, chunk, reruns, inodes, listed, file, spans,
                   regions, requests, answer>>

Start(id) == StartUncompressedOffset(ztoc.zinfo, id)
End(id) == EndUncompressedOffset(ztoc.zinfo, id, ztoc.uncompressedArchiveSize)
CompStart(id) == StartCompressedOffset(ztoc.zinfo, id)
CompEnd(id) == EndCompressedOffset(ztoc.zinfo, id, ztoc.compressedArchiveSize)

\* buildAllSpans: offsets grow from span to span.  The last one may be empty.
MonotonicCheckpoints ==
    \A id \in 0 .. ztoc.maxSpanID - 1 : CompStart(id) < CompEnd(id) /\ Start(id) < End(id)

-----------------------------------------------------------------------------
(* Looking up and listing                                                  *)

\* The nodes of the metadata store
GetChild(id, base) == Child(store.md, id, base)
Children(id) == IF id \in DOMAIN store.md THEN DOMAIN store.md[id].children ELSE {}
GetAttr(id) == readNodeEntryToAttr(store.nodes[id])

Slip_ListsWhiteouts(id) ==
    {[name |-> n, kind |-> "node", id |-> GetChild(id, n)] :
        n \in {c \in Children(id) : ~IsWhiteout(c)}}
      \union
    {[name |-> Tail(w), kind |-> "whiteout", id |-> GetChild(id, w)] :
        w \in {c \in Children(id) : IsWhiteout(c) /\ c # whiteoutOpaqueDir}}

\* readdir: whiteouts are shown as such, unless the layer replaces the name.
readdir(id) ==
    LET normal == {c \in Children(id) : ~IsWhiteout(c)}
        whiteouts == {c \in Children(id) : IsWhiteout(c) /\ c # whiteoutOpaqueDir}
    IN  {[name |-> n, kind |-> "node", id |-> GetChild(id, n)] : n \in normal}
          \union
        {[name |-> Tail(w), kind |-> "whiteout", id |-> GetChild(id, w)] :
            w \in {w \in whiteouts : Tail(w) \notin normal}}

\* The directories that the kernel knows
IsDirectory(path) ==
    /\ path \in DOMAIN inodes
    /\ inodes[path].kind = "node"
    /\ store.nodes[inodes[path].id].type = "dir"

Request == phase = "mounted" /\ requests < MaxRequests /\ requests' = requests + 1

Readdir(path) ==
    /\ Request /\ IsDirectory(path)
    /\ listed' = listed \union {inodes[path].id}
    /\ answer' = [op |-> "readdir", path |-> path, ents |-> readdir(inodes[path].id)]
    /\ UNCHANGED <<layerVars, initVars, inodes, file, spans, regions>>

NotFound == [kind |-> "ENOENT", id |-> NoNode]

\* What Lookup finds in the store: the name, or a whiteout of it.
Stored(id, name) ==
    IF GetChild(id, name) # NoNode
    THEN [kind |-> "node", id |-> GetChild(id, name)]
    ELSE IF GetChild(id, Whiteout(name)) # NoNode
    THEN [kind |-> "whiteout", id |-> GetChild(id, Whiteout(name))]
    ELSE NotFound

\* A name that is in memory is answered from there (with the attributes of a
\* node, whiteout or not); one that a listing in memory lacks does not exist;
\* one that the store lacks makes the directory be listed.
Found(path, id, name) ==
    IF IsWhiteout(name) THEN NotFound
    ELSE IF path = <<>> /\ name = StateDir THEN [kind |-> "state", id |-> NoNode]
    ELSE IF Append(path, name) \in DOMAIN inodes THEN inodes[Append(path, name)]
    ELSE IF id \in listed /\ name \notin {e.name : e \in readdir(id)} THEN NotFound
    ELSE Stored(id, name)

Lookup(path, name) ==
    /\ Request /\ IsDirectory(path)
    /\ \E found \in {Found(path, inodes[path].id, name)}, child \in {Append(path, name)} :
          /\ answer' = [op |-> "lookup", path |-> child, kind |-> found.kind]
          /\ inodes' = IF found.kind \in {"node", "whiteout"}
                       THEN Put(inodes, child, found) ELSE inodes
          /\ listed' = IF found.kind = "ENOENT" /\ ~IsWhiteout(name)
                       THEN listed \union {inodes[path].id} ELSE listed
    /\ UNCHANGED <<layerVars, initVars, file, spans, regions>>

\* The kernel forgets an inode that it knows nothing below of.
Forget(path) ==
    /\ phase = "mounted" /\ path \in DOMAIN inodes \ {<<>>}
    /\ \A p \in DOMAIN inodes : IsPrefix(path, p) => p = path
    /\ inodes' = Restrict(inodes, DOMAIN inodes \ {path})
    /\ UNCHANGED <<layerVars, initVars, listed, file, spans, regions, requests, answer>>

\* Getxattr of the attribute that makes a directory opaque for overlayfs
GetOpaque(path) ==
    /\ Request /\ IsDirectory(path)
    /\ answer' = [op |-> "opaque", path |-> path,
                  yes |-> GetChild(inodes[path].id, whiteoutOpaqueDir) # NoNode]
    /\ UNCHANGED <<layerVars, initVars, inodes, listed, file, spans, regions>>

-----------------------------------------------------------------------------
(* Byte ranges of the blob                                                 *)

\* regionSet.add, from the tail of the sorted list on
RECURSIVE addFrom(_, _, _)
addFrom(rs, r, i) ==
    LET l == rs[i]
        overlaps == \/ l.b <= r.b /\ r.b <= l.e + 1 /\ l.e <= r.e
                    \/ r.b <= l.b /\ l.b <= r.e + 1 /\ r.e <= l.e
                    \/ r.b <= l.b /\ l.e <= r.e
        super == [b |-> IF l.b < r.b THEN l.b ELSE r.b, e |-> IF l.e > r.e THEN l.e ELSE r.e]
    IN  IF i = 0 THEN <<r>> \o rs
        ELSE IF l.b <= r.b /\ r.e <= l.e THEN rs
        ELSE IF ~overlaps /\ l.e < r.b THEN InsertAt(rs, i + 1, r)
        ELSE addFrom(IF overlaps THEN RemoveAt(rs, i) ELSE rs,
                     IF overlaps THEN super ELSE r, i - 1)

Slip_NotMerged(rs, r) == Append(rs, r)

add(rs, r) == addFrom(rs, r, Len(rs))

totalSize(rs) == FoldLeft(LAMBDA n, r : n + (r.e - r.b + 1), 0, rs)

\* What a registry does with a request for a range: it sends the range, the
\* whole blob, a part of the range, or no body at all.
Replies == {"range", "whole", "short", "error"}

Body(reply, r) ==
    CASE reply = "range" -> Run(r.b, r.e + 1)
      [] reply = "whole" -> Run(0, ztoc.compressedArchiveSize)
      [] reply = "short" -> Run(r.b, r.e)
      [] reply = "error" -> <<>>

\* blob.ReadAt: as many bytes as were asked for, from the start of the body,
\* wherever in the blob the reply says that it starts.  A body that is too
\* short is an error.  No bytes are no request.
ReadAt(rs, from, to, reply) ==
    LET r == [b |-> from, e |-> to - 1]
        body == Body(reply, r)
    IN  IF from = to THEN [ok |-> TRUE, bytes |-> <<>>, regions |-> rs]
        ELSE IF reply = "error" \/ Len(body) < to - from
        THEN [ok |-> FALSE, bytes |-> <<>>, regions |-> rs]
        ELSE [ok |-> TRUE, bytes |-> SubSeq(body, 1, to - from), regions |-> add(rs, r)]

\* SpanManager's New, then newNode for the root.  What comes before the first span
\* is read and verified; a read that fails is not tried again.
VerifyHeader(bytes) == ztoc.zinfo.algorithm = "gzip" => bytes = Run(0, GzipHeader)

MountLayer(reply) ==
    /\ phase = "spans"
    /\ \E counted \in {ztoc.maxSpanID = MaxSpanID(ztoc.zinfo) /\ Len(ztoc.spanDigests) = ztoc.maxSpanID + 1} :
       \E header \in {ReadAt(regions, 0, CompStart(0), reply)} :
          /\ regions' = IF counted THEN header.regions ELSE regions
          /\ answer' = [op |-> "mount", ok |-> header.ok]
          /\ phase' = IF counted /\ header.ok /\ VerifyHeader(header.bytes) /\ MonotonicCheckpoints
                      THEN "mounted" ELSE "failed"
    /\ inodes' = IF phase' = "mounted"
                 THEN [p \in {<<>>} |-> [kind |-> "node", id |-> store.root]]
                 ELSE inodes
    /\ UNCHANGED <<layerVars, store, chunk, reruns, listed, file, spans, requests>>

-----------------------------------------------------------------------------
(* Spans                                                                   *)

Slip_Unverified(bytes, id) == TRUE

verifySpanContents(bytes, id) == bytes = ztoc.spanDigests[id + 1]

\* fetchSpanWithRetries: bytes that are not the span's are asked for again, a
\* read that fails is not.  replies[i] is the reply to attempt i.
Attempted(got, right) ==
    [ok |-> got.ok /\ right, done |-> ~got.ok \/ right, bytes |-> got.bytes,
     regions |-> got.regions]

Checked(got, id) == Attempted(got, verifySpanContents(got.bytes, id))

fetchSpanWithRetries(id, rs, replies) ==
    FoldLeft(LAMBDA f, reply :
                IF f.done THEN f
                ELSE Checked(ReadAt(f.regions, CompStart(id), CompEnd(id), reply), id),
             [ok |-> FALSE, done |-> FALSE, bytes |-> <<>>, regions |-> rs],
             SubSeq(replies, 1, Retries + 1))

\* uncompressSpan
uncompressSpan(id, bytes) ==
    IF End(id) = Start(id) THEN [ok |-> TRUE, bytes |-> <<>>]
    ELSE Extracted(ztoc.zinfo, bytes, End(id) - Start(id), Start(id), id)

\* fetchAndCacheSpan
Cached(c, id, bytes, regs) ==
    [ok |-> TRUE, spans |-> Put(c.spans, id, bytes), regions |-> regs]
NotCached(c, regs) == [ok |-> FALSE, spans |-> c.spans, regions |-> regs]

fetchAndCacheSpan(c, id, fetched) ==
    IF fetched.ok /\ uncompressSpan(id, fetched.bytes).ok
    THEN Cached(c, id, uncompressSpan(id, fetched.bytes).bytes, fetched.regions)
    ELSE NotCached(c, fetched.regions)

\* getSpanContent: from the cache, or from the registry
getSpanContent(c, id, replies) ==
    IF id \in DOMAIN c.spans THEN Cached(c, id, c.spans[id], c.regions)
    ELSE fetchAndCacheSpan(c, id, fetchSpanWithRetries(id, c.regions, replies))

\* getSpanInfo: the part of span id that a request for from..to-1 takes.  The
\* span of position `to' is one of the spans even if it has no part in it.
startOffInSpan(id, from) == IF from > Start(id) THEN from - Start(id) ELSE 0

endOffInSpan(id, to) == IF to < End(id) THEN to - Start(id) ELSE End(id) - Start(id)

\* GetContents.  The spans are got in parallel: all of them are tried.
Joined(g, s, id, from, to) ==
    [ok |-> g.ok /\ s.ok, spans |-> s.spans, regions |-> s.regions,
     bytes |-> IF s.ok THEN g.bytes \o SubSeq(s.spans[id], startOffInSpan(id, from) + 1,
                                              endOffInSpan(id, to))
               ELSE g.bytes]

GetContents(c, from, to, replies) ==
    LET first == UncompressedOffsetToSpanID(ztoc.zinfo, from)
        last == UncompressedOffsetToSpanID(ztoc.zinfo, to)
    IN  IF last > ztoc.maxSpanID THEN [c EXCEPT !.ok = FALSE, !.bytes = <<>>]
        ELSE FoldLeft(LAMBDA g, id :
                        Joined(g, getSpanContent(g, id, replies), id, from, to),
                      [c EXCEPT !.bytes = <<>>], Run(first, last + 1))

-----------------------------------------------------------------------------
(* Reading                                                                 *)

\* Open: metadata's OpenFile takes size and place of the file from the store.
Open(path) ==
    /\ Request /\ path \in DOMAIN inodes /\ inodes[path].kind = "node"
    /\ store.nodes[inodes[path].id].type = "reg"
    /\ \E e \in {ztoc.toc[store.md[inodes[path].id].entry]} :
          file' = [id |-> inodes[path].id, path |-> path, verified |-> FALSE,
                   tarName |-> e.path, size |-> store.nodes[inodes[path].id].size,
                   offset |-> e.offset, tarHeaderOffset |-> e.tarHeaderOffset]
    /\ answer' = NoAnswer
    /\ UNCHANGED <<layerVars, initVars, inodes, listed, spans, regions>>

\* The entry of the blob whose header is just these bytes, if there is one
HeaderOf(bytes) ==
    {i \in DOMAIN blob.entries :
        LET end == ztoc.toc[i].offset
        IN  bytes = Run(end - blob.entries[i].header, end)}

\* Verify: the tar header in the layer says of the file what the store does.
Verify(got) ==
    /\ got.ok
    /\ \E i \in HeaderOf(got.bytes) :
          LET e == blob.entries[i] IN
          /\ e.path = file.tarName
          /\ [type |-> e.type, size |-> e.size, xattrs |-> e.xattrs]
               = [type |-> GetAttr(file.id).type, size |-> GetAttr(file.id).size,
                  xattrs |-> GetAttr(file.id).xattrs]

\* ReadAt of fs/reader, under Read of the file handle.  The header is read and
\* verified before the first read of the file's bytes.
Header(c, replies) ==
    IF file.verified THEN c
    ELSE GetContents(c, file.tarHeaderOffset, file.offset, replies)

Contents(c, verified, off, size, replies) ==
    IF ~verified \/ size = 0 THEN [c EXCEPT !.ok = verified, !.bytes = <<>>]
    ELSE GetContents(c, file.offset + off, file.offset + off + size, replies)

ReadSize(off, len) ==
    IF off >= file.size THEN 0
    ELSE IF file.size - off > len THEN len ELSE file.size - off

Read(off, len, replies) ==
    /\ Request /\ file # NoFile
    /\ \E header \in {Header([ok |-> TRUE, bytes |-> <<>>, spans |-> spans,
                              regions |-> regions], replies)} :
       \E verified \in {file.verified \/ Verify(header)} :
       \E done \in {Contents(header, verified, off, ReadSize(off, len), replies)} :
          /\ file' = [file EXCEPT !.verified = verified]
          /\ spans' = done.spans
          /\ regions' = done.regions
          /\ \E ok \in {done.ok /\ Len(done.bytes) = ReadSize(off, len)} :
                answer' = [op |-> "read", path |-> file.path, off |-> off, len |-> len,
                           replies |-> replies, ok |-> ok,
                           bytes |-> IF ok THEN done.bytes ELSE <<>>]
    /\ UNCHANGED <<layerVars, initVars, inodes, listed>>

-----------------------------------------------------------------------------
Next ==
    \/ InsertChunk \/ RollBackChunk \/ WriteMetadata
    \/ \E reply \in Replies : MountLayer(reply)
    \/ \E path \in DOMAIN inodes :
          \/ Readdir(path) \/ Forget(path) \/ GetOpaque(path) \/ Open(path)
          \/ \E name \in Names : Lookup(path, name)
    \/ \E r \in Reads, replies \in Scripts : Read(r[1], r[2], replies)

Spec == Init /\ [][Next]_vars

-----------------------------------------------------------------------------
(* Properties                                                              *)

\* Storing a zTOC and reading it again gives the table that was built, with
\* the offsets of the tar headers, which are not stored (flatbufferToTOC).
ZtocSurvives ==
    phase = "nodes" /\ chunk = 1 => ztoc = BuildZtoc(blob)

(* What unpacking gives, as overlayfs sees it *)
DiskChildren(dir) ==
    {Last(p) : p \in {q \in DOMAIN disk.tree : q # <<>> /\ Front(q) = dir}}

DiskKind(dir, name) ==
    IF name \in DiskChildren(dir) THEN "node"
    ELSE IF Whiteout(name) \in DiskChildren(dir) THEN "whiteout"
    ELSE "ENOENT"

\* A directory entry for the path of a file that has other names: the entry
\* is written over the node of the file (see README.md).
RetypesLinkedFile ==
    \E i, j, k \in DOMAIN blob.entries :
        /\ i < k /\ j < k
        /\ blob.entries[i].type # "dir" /\ blob.entries[k].type = "dir"
        /\ blob.entries[i].path = blob.entries[k].path
        /\ blob.entries[j].type = "hardlink"

NodeAt(path) == getIDByName(store.md, path, store.root)

\* However the entries of a layer come, in whatever chunks, and even if a
\* chunk was run twice: a layer that is mounted shows at every path what
\* unpacking the layer would have put there, under the same names, with two
\* names for one file where the layer has a hard link.  And a layer that can be
\* unpacked is mounted, unless a batch of the shared store was rolled back
\* under it, its gzip header could not be read, or its gzip stream starts with a
\* block that produces nothing.  Left out is RetypesLinkedFile.
MountShowsTheLayer ==
    /\ phase = "failed" /\ disk.ok =>
          \/ reruns > 0
          \/ blob.algorithm = "gzip" /\ (blob.blocks[1].out = 0 \/ (answer.op = "mount" /\ ~answer.ok))
    /\ phase = "mounted" /\ disk.ok /\ ~RetypesLinkedFile =>
        \A p \in DOMAIN disk.tree :
            LET id == NodeAt(p) IN
            /\ id \in DOMAIN store.nodes
            /\ store.nodes[id].type = disk.tree[p].type
            /\ disk.tree[p].entry # 0 => store.md[id].entry = disk.tree[p].entry
            /\ \A q \in DOMAIN disk.tree :
                  disk.tree[p].type # "dir" =>
                    ((id = NodeAt(q)) <=> (disk.tree[p] = disk.tree[q]))
            /\ disk.tree[p].type = "dir" => Children(id) \ {Dot} = DiskChildren(p)

\* A client sees the same directory whatever was asked before: looking a name
\* up finds what unpacking put there, or the whiteout of a name that the
\* layer removes, and a listing holds just the names that can be looked up;
\* a directory is opaque if the layer says so.  Left out is RetypesLinkedFile.
AnswersShowTheLayer ==
    disk.ok /\ ~RetypesLinkedFile =>
        /\ answer.op = "lookup" /\ answer.kind # "state" /\ ~IsWhiteout(Last(answer.path)) =>
              answer.kind = DiskKind(Front(answer.path), Last(answer.path))
        /\ answer.op = "readdir" =>
              {[name |-> e.name, kind |-> e.kind] : e \in {f \in answer.ents : f.name # Dot}}
                = {[name |-> n, kind |-> DiskKind(answer.path, n)] :
                      n \in {c \in DiskChildren(answer.path) : ~IsWhiteout(c)} \union
                            {Tail(w) : w \in {c \in DiskChildren(answer.path) :
                                                IsWhiteout(c) /\ c # whiteoutOpaqueDir}}}
        /\ answer.op = "opaque" =>
              (answer.yes <=> whiteoutOpaqueDir \in DiskChildren(answer.path))

(* The bytes of the file at a path, as the tar archive has them *)
FileBytes(path, off, len) ==
    LET e == ztoc.toc[disk.tree[path].entry]
        end == IF off + len < e.size THEN off + len ELSE e.size
    IN  Run(e.offset + off, e.offset + end)

\* One of several extended attributes is empty: it may be lost in the store,
\* and the file then never passes Verify (see README.md).
LosesXattr(path) ==
    LET xattrs == blob.entries[disk.tree[path].entry].xattrs
    IN  Cardinality(DOMAIN xattrs) > 1 /\ "" \in Range(xattrs)

\* A read that succeeds returns the bytes of the file, whatever the registry
\* sent: the whole blob for a range, a part of it, and whichever spans were
\* in the cache.  If the registry sends the ranges it is asked for, every read
\* of a file succeeds, but for LosesXattr: also at the ends of spans and of the
\* archive, and for a file whose tar header lies in another span.
ReadsReturnTheFile ==
    answer.op = "read" /\ disk.ok =>
        /\ answer.ok => answer.bytes = FileBytes(answer.path, answer.off, answer.len)
        /\ ~answer.ok => answer.replies[1] # "range" \/ LosesXattr(answer.path)

\* The bytes that a layer reports as fetched are counted once: the regions
\* are apart, in order and within the blob, and hold every span in the cache.
FetchedSizeIsExact ==
    LET held == UNION {regions[i].b .. regions[i].e : i \in DOMAIN regions} IN
    /\ \A i, j \in DOMAIN regions : i < j => regions[i].e + 1 < regions[j].b
    /\ totalSize(regions) = Cardinality(held)
    /\ held \subseteq 0 .. ztoc.compressedArchiveSize - 1
    /\ \A id \in DOMAIN spans : CompStart(id) .. CompEnd(id) - 1 \subseteq held

=============================================================================
