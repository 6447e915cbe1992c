------------------------ MODULE LayerDownloadsProofs ------------------------
(***************************************************************************)
(* Proofs about LayerDownloads, for any layers, images, limits, chunk      *)
(* sizes and faults.                                                       *)
(***************************************************************************)
EXTENDS LayerDownloads, FiniteSetTheorems, WellFoundedInduction, TLAPS

-----------------------------------------------------------------------------
(* The ranges of the requests.                                             *)

\* Division as the code uses it to count the requests of a layer.
LEMMA Division ==
    ASSUME NEW n \in Nat, NEW c \in Nat \ {0}
    PROVE  /\ n \div c \in Nat /\ n % c \in 0 .. c - 1
           /\ n = (n \div c) * c + (n % c)
BY SMTT(60), Z3T(60)

\* Requests start a chunk after one another.
LEMMA NextChunk ==
    ASSUME NEW c \in Nat \ {0}, NEW i \in Nat, NEW j \in Nat, i < j
    PROVE  i * c + c <= j * c
<1> DEFINE d == j - i - 1
<1>1. d \in Nat /\ j = i + 1 + d
  BY SMTT(60), Z3T(60)
<1> HIDE DEF d
<1>2. j * c = i * c + c + d * c
  BY <1>1, SMTT(60), Z3T(60)
<1>3. d * c >= 0
  BY <1>1, SMTT(60), Z3T(60)
<1> QED  BY <1>2, <1>3, SMTT(60), Z3T(60)

\* The number of requests: the last one starts before the end of the layer and
\* one more would not.
LEMMA LoopsBound ==
    ASSUME NEW c \in Nat \ {0}, NEW n \in Nat \ {0}
    PROVE  /\ calcNumLoops(c, n) \in Nat \ {0}
           /\ (calcNumLoops(c, n) - 1) * c < n
           /\ n <= calcNumLoops(c, n) * c
<1> DEFINE q == n \div c
           r == n % c
<1>1. q \in Nat /\ r \in 0 .. c - 1 /\ n = q * c + r
  BY Division, ZenonT(60)
<1>2. (q + 1) * c = q * c + c
  BY <1>1, SMTT(60), Z3T(60)
<1>3. CASE r # 0
  <2>1. calcNumLoops(c, n) = q + 1
    BY <1>3, SMTT(60), Z3T(60) DEF calcNumLoops, unlimited
  <2> HIDE DEF q, r
  <2>2. q * c \in Nat
    BY <1>1, SMTT(60), Z3T(60)
  <2> QED  BY <1>1, <1>2, <1>3, <2>1, <2>2, SMTT(60), Z3T(60)
<1>4. CASE r = 0
  <2>1. calcNumLoops(c, n) = q
    BY <1>4, SMTT(60), Z3T(60) DEF calcNumLoops, unlimited
  <2> HIDE DEF q, r
  <2>2. q # 0
    BY <1>1, <1>4, SMTT(60), Z3T(60)
  <2>3. (q - 1) * c = q * c - c
    BY <1>1, SMTT(60), Z3T(60)
  <2> QED  BY <1>1, <1>4, <2>1, <2>2, <2>3, SMTT(60), Z3T(60)
<1> QED  BY <1>3, <1>4, ZenonT(60)

\* Without a chunk size there is one request.
LEMMA OneLoop ==
    ASSUME NEW c \in Int, c <= unlimited, NEW n \in Nat \ {0}, NEW i \in Int
    PROVE  calcNumLoops(c, n) = 1 /\ Bytes(c, i, n) = 0 .. n - 1
BY ZenonT(60) DEF calcNumLoops, Bytes, getRange, unlimited

\* Every layer takes a request.
LEMMA SomeLoop ==
    ASSUME NEW c \in Int, NEW n \in Nat \ {0}
    PROVE  calcNumLoops(c, n) \in Nat \ {0}
<1>1. CASE c <= unlimited
  BY <1>1, OneLoop, SMTT(60), Z3T(60)
<1>2. CASE ~(c <= unlimited)
  BY <1>2, LoopsBound, SMTT(60), Z3T(60) DEF unlimited
<1> QED  BY <1>1, <1>2, ZenonT(60)

\* The bytes of a request, when there is a chunk size.
LEMMA BytesOf ==
    ASSUME NEW c \in Nat \ {0}, NEW n \in Nat \ {0}, NEW i \in Nat
    PROVE  Bytes(c, i, n) = {b \in Int : i * c <= b /\ b < i * c + c /\ b < n}
<1>1. i * c \in Nat
  BY SMTT(60), Z3T(60)
<1> DEFINE s == i * c
<1>2. Bytes(c, i, n) = s .. (IF s + c < n THEN s + c ELSE n) - 1
  BY SMTT(60), Z3T(60) DEF Bytes, getRange, unlimited
<1> HIDE DEF s
<1>3. Bytes(c, i, n) = {b \in Int : s <= b /\ b < s + c /\ b < n}
  BY <1>1, <1>2, SMTT(60), Z3T(60) DEF s
<1> QED  BY <1>3, ZenonT(60) DEF s

\* calcNumLoops and getRange: the ranges of a layer's requests are not empty,
\* lie within the layer, do not overlap and leave no byte out.
THEOREM RangesPartition ==
    ASSUME NEW c \in Int, NEW n \in Nat \ {0}
    PROVE  LET R == 0 .. calcNumLoops(c, n) - 1
           IN  /\ \A i \in R : Bytes(c, i, n) # {} /\ Bytes(c, i, n) \subseteq 0 .. n - 1
               /\ \A i, j \in R : i # j => Bytes(c, i, n) \intersect Bytes(c, j, n) = {}
               /\ \A b \in 0 .. n - 1 : \E i \in R : b \in Bytes(c, i, n)
<1>1. CASE c <= unlimited
  <2>1. calcNumLoops(c, n) = 1 /\ \A i \in Int : Bytes(c, i, n) = 0 .. n - 1
    BY <1>1, OneLoop, ZenonT(60)
  <2>2. 0 .. calcNumLoops(c, n) - 1 = {0}
    BY <2>1, SMTT(60), Z3T(60)
  <2>3. Bytes(c, 0, n) = 0 .. n - 1 /\ 0 .. n - 1 # {}
    <3>1. 0 \in 0 .. n - 1
      BY SMTT(60), Z3T(60)
    <3>2. 0 \in Int
      BY SMTT(60), Z3T(60)
    <3>3. Bytes(c, 0, n) = 0 .. n - 1
      BY <2>1, <3>2, ZenonT(60)
    <3> QED  BY <3>1, <3>3, ZenonT(60)
  <2> QED  BY <2>2, <2>3, ZenonT(60)
<1>2. CASE ~(c <= unlimited)
  <2> DEFINE k == calcNumLoops(c, n)
  <2>1. c \in Nat \ {0}
    BY <1>2, SMTT(60), Z3T(60) DEF unlimited
  <2>2. k \in Nat \ {0} /\ (k - 1) * c < n /\ n <= k * c
    BY <2>1, LoopsBound, ZenonT(60)
  <2>3. \A i \in Nat : Bytes(c, i, n) = {b \in Int : i * c <= b /\ b < i * c + c /\ b < n}
    BY <2>1, BytesOf, ZenonT(60)
  <2>4. \A i \in Nat : i * c \in Nat
    BY <2>1, SMTT(60), Z3T(60)
  <2>5. \A i, j \in Nat : i < j => i * c + c <= j * c
    BY <2>1, NextChunk, ZenonT(60)
  <2> HIDE DEF k
  <2>6. ASSUME NEW i \in 0 .. k - 1
        PROVE  Bytes(c, i, n) # {} /\ Bytes(c, i, n) \subseteq 0 .. n - 1
    <3>1. i \in Nat /\ k - 1 \in Nat /\ (i = k - 1 \/ i < k - 1)
      BY <2>2, SMTT(60), Z3T(60)
    <3>2. i * c < n
      <4>1. CASE i = k - 1
        BY <4>1, <2>2, ZenonT(60)
      <4>2. CASE i < k - 1
        <5>1. i * c + c <= (k - 1) * c
          BY <4>2, <3>1, <2>5, ZenonT(60)
        <5> QED  BY <5>1, <2>1, <2>2, <2>4, <3>1, SMTT(60), Z3T(60)
      <4> QED  BY <3>1, <4>1, <4>2, ZenonT(60)
    <3>3. i * c \in Bytes(c, i, n)
      BY <3>1, <3>2, <2>1, <2>3, <2>4, SMTT(60), Z3T(60)
    <3>4. Bytes(c, i, n) \subseteq 0 .. n - 1
      BY <3>1, <2>3, <2>4, SMTT(60), Z3T(60)
    <3> QED  BY <3>3, <3>4, ZenonT(60)
  <2>7. ASSUME NEW i \in 0 .. k - 1, NEW j \in 0 .. k - 1, i # j
        PROVE  Bytes(c, i, n) \intersect Bytes(c, j, n) = {}
    <3>1. i \in Nat /\ j \in Nat /\ (i < j \/ j < i)
      BY <2>2, <2>7, SMTT(60), Z3T(60)
    <3>2. i * c + c <= j * c \/ j * c + c <= i * c
      BY <3>1, <2>5, ZenonT(60)
    <3>3. i * c \in Nat /\ j * c \in Nat
      BY <3>1, <2>4, ZenonT(60)
    <3> QED  BY <3>1, <3>2, <3>3, <2>1, <2>3, SMTT(60), Z3T(60)
  <2>8. ASSUME NEW b \in 0 .. n - 1
        PROVE  \E i \in 0 .. k - 1 : b \in Bytes(c, i, n)
    <3> DEFINE i == b \div c
    <3>1. i \in Nat /\ b % c \in 0 .. c - 1 /\ b = i * c + (b % c)
      BY <2>1, Division, SMTT(60), Z3T(60)
    <3> HIDE DEF i
    <3>2. i * c <= b /\ b < i * c + c
      BY <3>1, <2>1, <2>4, SMTT(60), Z3T(60)
    <3>3. b \in Bytes(c, i, n)
      BY <3>1, <3>2, <2>3, SMTT(60), Z3T(60)
    <3>4. i < k
      <4>1. SUFFICES ASSUME ~(i < k) PROVE FALSE
        BY ZenonT(60)
      <4>2. k = i \/ k < i
        BY <4>1, <3>1, <2>2, SMTT(60), Z3T(60)
      <4>3. k * c <= i * c
        BY <4>2, <3>1, <2>1, <2>2, <2>4, <2>5, SMTT(60), Z3T(60)
      <4> QED  BY <4>3, <3>2, <3>1, <2>1, <2>2, <2>4, SMTT(60), Z3T(60)
    <3>5. i \in 0 .. k - 1
      BY <3>1, <3>4, <2>2, SMTT(60), Z3T(60)
    <3> QED  BY <3>3, <3>5, ZenonT(60)
  <2> QED  BY <2>6, <2>7, <2>8, ZenonT(60) DEF k
<1> QED  BY <1>1, <1>2, ZenonT(60)

-----------------------------------------------------------------------------
(* The inductive invariant.  A layer whose loop still makes requests has   *)
(* one to make, a layer that waits has none; a byte of a request that      *)
(* ended well is written; a file that is read has seen all its requests    *)
(* end well.                                                               *)

\* The phases in which the file of a layer is read, or was.
Reading == {"lease", "leaseGlobal", "apply", "stored", "ok"}

\* The requests of a layer and what they wrote.
FetchInv(l) ==
    /\ pc[l] \in {"fetch", "initial"} => \A i \in Requests(l) : chunks[l][i] = "none"
    /\ pc[l] \in {"acquire", "acquireGlobal"} => ToRequest(l) # {}
    /\ pc[l] = "wait" => ToRequest(l) = {}
    /\ pc[l] \in Reading /\ l \notin local =>
          /\ InFlight(l) = {} /\ l \notin failed
          /\ l \in ranged => \A i \in Requests(l) : chunks[l][i] = "done"
    /\ l \in ranged /\ l \notin failed =>
          \A i \in Requests(l) : chunks[l][i] = "done" =>
              \A b \in Bytes(config.chunkSize, i, Size[l]) : file[l][b] # "hole"

\* A layer found in the content store stays there; one that was downloaded is
\* verified before it counts as unpacked, and its storage is not forgotten.
StoreInv(l) ==
    /\ l \in local \/ storing[l] = "ok" => Digest[l] \in stored
    /\ pc[l] \in {"stored", "ok"} /\ l \notin local => Intact(l)
    /\ pc[l] \in {"apply", "stored"} /\ l \notin local /\ ~config.discard => storing[l] # "none"
    /\ pc[l] = "ok" /\ ~config.discard => Digest[l] \in stored

LayerInv(l) == FetchInv(l) /\ StoreInv(l)

\* Who holds a permit, or is about to: the layers of an image that wait for the
\* second limiter, and those that are unpacked.
Acquiring(i) == {l \in Of(i) : pc[l] = "acquireGlobal"}
Leases(l) == Unpacking(l) \/ pc[l] = "leaseGlobal"
Leased(i) == {l \in Of(i) : Leases(l)}
UnpackingAll == {l \in Layers : Unpacking(l)}

\* The download permits of an image: its limiter counts the requests under way and
\* the layer that waits for the other limiter; after a cancel some may be lost.
DownloadInv(i) ==
    /\ IsFiniteSet(Holding(Of(i)))
    /\ config.downloadsPerImage > unlimited =>
          LET held == Cardinality(Holding(Of(i))) + Cardinality(Acquiring(i))
          IN  /\ held <= downloads[i] /\ downloads[i] <= config.downloadsPerImage
              /\ i \notin cancelled \/ config.downloads <= unlimited => downloads[i] = held

\* The unpack permits of an image.
UnpackInv(i) ==
    config.unpacksPerImage > unlimited =>
        unpacks[i] = Cardinality(Leased(i)) /\ unpacks[i] <= config.unpacksPerImage

\* The download permits of all images together.
AllDownloadInv ==
    /\ IsFiniteSet(Holding(Layers))
    /\ config.downloads > unlimited =>
          allDownloads = Cardinality(Holding(Layers)) /\ allDownloads <= config.downloads

\* The unpack permits of all images together.
AllUnpackInv ==
    config.unpacks > unlimited =>
        allUnpacks = Cardinality(UnpackingAll) /\ allUnpacks <= config.unpacks

DownloadSide ==
    /\ downloads \in [Images -> Nat] /\ allDownloads \in Nat
    /\ AllDownloadInv /\ \A i \in Images : DownloadInv(i)

UnpackSide ==
    /\ unpacks \in [Images -> Nat] /\ allUnpacks \in Nat
    /\ AllUnpackInv /\ \A i \in Images : UnpackInv(i)

Inv == TypeOK /\ DownloadSide /\ UnpackSide /\ \A l \in Layers : LayerInv(l)

-----------------------------------------------------------------------------
(* Facts about the definitions.                                            *)

\* The requests of a layer are numbered from zero and there is one at least.
LEMMA RequestsOf ==
    ASSUME TypeOK, NEW l \in Layers
    PROVE  /\ loops(l) \in Nat \ {0} /\ 0 \in Requests(l) /\ Requests(l) \subseteq Nat
           /\ config.chunkSize \in Int /\ Size[l] \in Nat \ {0}
<1>1. config.chunkSize \in Int /\ Size[l] \in Nat \ {0}
  BY LayerDownloadsAssumption, ZenonT(60) DEF TypeOK
<1>2. loops(l) \in Nat \ {0}
  BY <1>1, SomeLoop, ZenonT(60) DEF loops
<1> QED  BY <1>1, <1>2, SMTT(60), Z3T(60) DEF Requests

\* The loop's next request is one that was not made yet.
LEMMA NextRequest ==
    ASSUME NEW S, S \subseteq Nat, S # {}
    PROVE  Min(S) \in S
<1>1. PICK x \in S : \A y \in S : <<y, x>> \notin OpToRel(<, Nat)
  BY WFMin, NatLessThanWellFounded, ZenonT(60)
<1>2. \A y \in S : ~(y < x)
  <2> SUFFICES ASSUME NEW y \in S, y < x PROVE FALSE
    BY ZenonT(60)
  <2>1. <<y, x>> \in Nat \X Nat /\ <<y, x>>[1] < <<y, x>>[2]
    BY ZenonT(60)
  <2>2. <<y, x>> \in OpToRel(<, Nat)
    BY <2>1, ZenonT(60) DEF OpToRel
  <2> QED  BY <1>1, <2>2, ZenonT(60)
<1>3. \A y \in S : x <= y
  BY <1>2, SMTT(60), Z3T(60)
<1> QED  BY <1>3, ZenonT(60) DEF Min

\* Who holds a download permit: the requests under way.
LEMMA HoldingIs ==
    ASSUME NEW S
    PROVE  \A x : x \in Holding(S) <=> \E l \in S : \E i \in InFlight(l) : x = <<l, i>>
BY SMTT(60), Z3T(60) DEF Holding

\* No request starts or ends.
LEMMA HoldingSame ==
    ASSUME NEW S, \A l \in S : InFlight(l)' = InFlight(l)
    PROVE  Holding(S)' = Holding(S)
BY ZenonT(60) DEF Holding

\* A request starts.
LEMMA HoldingAdd ==
    ASSUME NEW S, NEW l \in S, NEW i, i \notin InFlight(l),
           InFlight(l)' = InFlight(l) \union {i},
           \A k \in S \ {l} : InFlight(k)' = InFlight(k)
    PROVE  Holding(S)' = Holding(S) \union {<<l, i>>} /\ <<l, i>> \notin Holding(S)
<1>1. \A x : x \in Holding(S)' <=> \E k \in S : \E j \in InFlight(k)' : x = <<k, j>>
  BY SMTT(60), Z3T(60) DEF Holding
<1>2. \A x : x \in Holding(S) <=> \E k \in S : \E j \in InFlight(k) : x = <<k, j>>
  BY HoldingIs, ZenonT(60)
<1>3. <<l, i>> \notin Holding(S)
  BY <1>2, SMTT(60), Z3T(60)
<1>4. ASSUME NEW x PROVE x \in Holding(S)' <=> x \in Holding(S) \union {<<l, i>>}
  BY <1>1, <1>2, SMTT(60), Z3T(60)
<1> QED  BY <1>3, <1>4, ZenonT(60)

\* A request ends.
LEMMA HoldingRemove ==
    ASSUME NEW S, NEW l \in S, NEW i \in InFlight(l),
           InFlight(l)' = InFlight(l) \ {i},
           \A k \in S \ {l} : InFlight(k)' = InFlight(k)
    PROVE  Holding(S)' = Holding(S) \ {<<l, i>>} /\ <<l, i>> \in Holding(S)
<1>1. \A x : x \in Holding(S)' <=> \E k \in S : \E j \in InFlight(k)' : x = <<k, j>>
  BY SMTT(60), Z3T(60) DEF Holding
<1>2. \A x : x \in Holding(S) <=> \E k \in S : \E j \in InFlight(k) : x = <<k, j>>
  BY HoldingIs, ZenonT(60)
<1>3. <<l, i>> \in Holding(S)
  BY <1>2, ZenonT(60)
<1>4. ASSUME NEW x PROVE x \in Holding(S)' <=> x \in Holding(S) \ {<<l, i>>}
  BY <1>1, <1>2, SMTT(60), Z3T(60)
<1> QED  BY <1>3, <1>4, ZenonT(60)

\* Sets of layers are finite.
LEMMA LayersAreFinite ==
    ASSUME NEW S, S \subseteq Layers
    PROVE  IsFiniteSet(S) /\ Cardinality(S) \in Nat
BY LayerDownloadsAssumption, FS_Subset, FS_CardinalityType, ZenonT(60)

\* A step of one layer leaves the others as they are.
Same(k) ==
    /\ pc'[k] = pc[k] /\ chunks'[k] = chunks[k] /\ file'[k] = file[k] /\ storing'[k] = storing[k]
    /\ k \in local' <=> k \in local
    /\ k \in ranged' <=> k \in ranged
    /\ k \in failed' <=> k \in failed
    /\ Digest[k] \in stored => Digest[k] \in stored'

\* A layer that a step does not touch keeps its part of the invariant.
LEMMA LayerFrame ==
    ASSUME NEW k \in Layers, config' = config, Same(k), LayerInv(k)
    PROVE  LayerInv(k)' /\ InFlight(k)' = InFlight(k) /\ Requests(k)' = Requests(k)
<1>1. Requests(k)' = Requests(k)
  BY ZenonT(60) DEF Requests, loops
<1>2. InFlight(k)' = InFlight(k)
  BY <1>1, ZenonT(60) DEF InFlight, Same
<1>3. ToRequest(k)' = ToRequest(k)
  BY <1>1, ZenonT(60) DEF ToRequest, Same
<1>4. FetchInv(k)'
  BY <1>1, <1>2, <1>3, ZenonT(60) DEF FetchInv, Same, LayerInv
<1>5. StoreInv(k)'
  BY ZenonT(60) DEF StoreInv, Same, LayerInv, Intact
<1> QED  BY <1>1, <1>2, <1>4, <1>5, ZenonT(60) DEF LayerInv

-----------------------------------------------------------------------------
(* The permits: what a step does to who holds one.                         *)

\* The types of the configuration.
LEMMA ConfigIs ==
    ASSUME TypeOK
    PROVE  /\ config.downloads \in Int /\ config.downloadsPerImage \in Int
           /\ config.unpacks \in Int /\ config.unpacksPerImage \in Int
           /\ config.chunkSize \in Int /\ config.discard \in BOOLEAN
           /\ \A l \in Layers : image(l) \in Images
BY LayerDownloadsAssumption, ZenonT(60) DEF TypeOK, image

\* One more member.
LEMMA CardPlus ==
    ASSUME NEW S, IsFiniteSet(S), NEW x, x \notin S
    PROVE  IsFiniteSet(S \union {x}) /\ Cardinality(S) \in Nat
           /\ Cardinality(S \union {x}) = Cardinality(S) + 1
BY FS_AddElement, FS_CardinalityType, ZenonT(60)

\* One member less.
LEMMA CardMinus ==
    ASSUME NEW S, IsFiniteSet(S), NEW x \in S
    PROVE  IsFiniteSet(S \ {x}) /\ Cardinality(S) \in Nat \ {0}
           /\ Cardinality(S \ {x}) = Cardinality(S) - 1
<1>1. IsFiniteSet(S \ {x}) /\ Cardinality(S \ {x}) = Cardinality(S) - 1
  BY FS_RemoveElement, ZenonT(60)
<1>2. Cardinality(S) \in Nat /\ Cardinality(S \ {x}) \in Nat
  BY <1>1, FS_CardinalityType, ZenonT(60)
<1> QED  BY <1>1, <1>2, SMTT(60), Z3T(60)

\* The part of a layer's state that its download permits depend on, and the
\* part that its unpack permits depend on.
StillD(k) == InFlight(k)' = InFlight(k) /\ (pc'[k] = "acquireGlobal" <=> pc[k] = "acquireGlobal")
StillU(k) == (Leases(k)' <=> Leases(k)) /\ (Unpacking(k)' <=> Unpacking(k))

\* An image none of whose layers and permits change.
LEMMA ImageDownloadsStay ==
    ASSUME NEW i \in Images, config' = config, \A k \in Of(i) : StillD(k),
           DownloadInv(i), cancelled \subseteq cancelled', downloads'[i] = downloads[i]
    PROVE  DownloadInv(i)'
<1>1. Of(i)' = Of(i)
  BY ZenonT(60) DEF Of, image
<1>2. Holding(Of(i))' = Holding(Of(i))
  <2>1. \A k \in Of(i) : InFlight(k)' = InFlight(k)
    BY ZenonT(60) DEF StillD
  <2>2. \A S : (\A k \in S : InFlight(k)' = InFlight(k)) => Holding(S)' = Holding(S)
    BY HoldingSame, ZenonT(60)
  <2> QED  BY <1>1, <2>1, <2>2, ZenonT(60) DEF Holding
<1>3. Acquiring(i)' = Acquiring(i)
  BY <1>1, ZenonT(60) DEF Acquiring, StillD
<1> QED  BY <1>2, <1>3, ZenonT(60) DEF DownloadInv

\* The same for the unpack permits.
LEMMA ImageUnpacksStay ==
    ASSUME NEW i \in Images, config' = config, \A k \in Of(i) : Leases(k)' <=> Leases(k),
           UnpackInv(i), unpacks'[i] = unpacks[i]
    PROVE  UnpackInv(i)'
<1>1. Of(i)' = Of(i)
  BY ZenonT(60) DEF Of, image
<1>2. Leased(i)' = Leased(i)
  BY <1>1, ZenonT(60) DEF Leased
<1> QED  BY <1>2, ZenonT(60) DEF UnpackInv

\* A step that takes and gives back no permit for downloads ...
LEMMA DownloadsStay ==
    ASSUME DownloadSide, config' = config, \A k \in Layers : StillD(k),
           downloads' = downloads, allDownloads' = allDownloads, cancelled \subseteq cancelled'
    PROVE  DownloadSide'
<1>1. Holding(Layers)' = Holding(Layers)
  BY HoldingSame, ZenonT(60) DEF StillD
<1>2. AllDownloadInv'
  BY <1>1, ZenonT(60) DEF DownloadSide, AllDownloadInv
<1>3. \A i \in Images : DownloadInv(i)'
  <2> SUFFICES ASSUME NEW i \in Images PROVE DownloadInv(i)'
    BY ZenonT(60)
  <2>1. \A k \in Of(i) : StillD(k)
    BY ZenonT(60) DEF Of
  <2>2. downloads'[i] = downloads[i]
    BY ZenonT(60)
  <2> QED  BY <2>1, <2>2, ImageDownloadsStay, ZenonT(60) DEF DownloadSide
<1> QED  BY <1>2, <1>3, ZenonT(60) DEF DownloadSide

\* ... and one that takes and gives back none for unpacking.
LEMMA UnpacksStay ==
    ASSUME UnpackSide, config' = config, \A k \in Layers : StillU(k),
           unpacks' = unpacks, allUnpacks' = allUnpacks
    PROVE  UnpackSide'
<1>1. UnpackingAll' = UnpackingAll
  BY ZenonT(60) DEF UnpackingAll, StillU
<1>2. AllUnpackInv'
  BY <1>1, ZenonT(60) DEF UnpackSide, AllUnpackInv
<1>3. \A i \in Images : UnpackInv(i)'
  <2> SUFFICES ASSUME NEW i \in Images PROVE UnpackInv(i)'
    BY ZenonT(60)
  <2>1. \A k \in Of(i) : Leases(k)' <=> Leases(k)
    BY ZenonT(60) DEF Of, StillU
  <2>2. unpacks'[i] = unpacks[i]
    BY ZenonT(60)
  <2> QED  BY <2>1, <2>2, ImageUnpacksStay, ZenonT(60) DEF UnpackSide
<1> QED  BY <1>2, <1>3, ZenonT(60) DEF UnpackSide

\* AcquireDownload: the image's permit is taken.
LEMMA TakesDownload ==
    ASSUME TypeOK, DownloadSide, NEW l \in Layers, config' = config, cancelled' = cancelled,
           \A k \in Layers : InFlight(k)' = InFlight(k),
           pc[l] = "acquire", pc' = [pc EXCEPT ![l] = "acquireGlobal"],
           Free(config.downloadsPerImage, downloads[image(l)]),
           downloads' = [downloads EXCEPT ![image(l)] = Take(config.downloadsPerImage, @)],
           allDownloads' = allDownloads
    PROVE  DownloadSide'
<1> DEFINE i == image(l)
<1>1. i \in Images /\ i' = i /\ config.downloadsPerImage \in Int
  BY ConfigIs, ZenonT(60) DEF image
<1>2. \A k \in Layers \ {l} : StillD(k)
  BY ZenonT(60) DEF StillD, TypeOK
<1>3. AllDownloadInv'
  <2>1. Holding(Layers)' = Holding(Layers)
    BY HoldingSame, ZenonT(60)
  <2> QED  BY <2>1, ZenonT(60) DEF DownloadSide, AllDownloadInv
<1>4. ASSUME NEW j \in Images, j # i PROVE DownloadInv(j)'
  <2>1. \A k \in Of(j) : StillD(k)
    BY <1>2, <1>4, ZenonT(60) DEF Of
  <2>2. downloads'[j] = downloads[j]
    BY <1>4, ZenonT(60) DEF DownloadSide
  <2> QED  BY <2>1, <2>2, ImageDownloadsStay, ZenonT(60) DEF DownloadSide
<1>5. downloads' \in [Images -> Nat]
  BY <1>1, SMTT(60), Z3T(60) DEF DownloadSide, Take
<1>6. DownloadInv(i)'
  <2>1. Of(i)' = Of(i) /\ l \in Of(i)
    BY ZenonT(60) DEF Of, image
  <2>2. Holding(Of(i))' = Holding(Of(i))
    <3>1. \A k \in Of(i) : InFlight(k)' = InFlight(k)
      BY ZenonT(60) DEF Of
    <3>2. \A S : (\A k \in S : InFlight(k)' = InFlight(k)) => Holding(S)' = Holding(S)
      BY HoldingSame, ZenonT(60)
    <3> QED  BY <2>1, <3>1, <3>2, ZenonT(60) DEF Holding
  <2>3. Acquiring(i)' = Acquiring(i) \union {l} /\ l \notin Acquiring(i)
    <3>1. \A k \in Of(i) : pc'[k] = "acquireGlobal" <=> pc[k] = "acquireGlobal" \/ k = l
      BY ZenonT(60) DEF TypeOK, Of
    <3> QED  BY <2>1, <3>1, ZenonT(60) DEF Acquiring
  <2>4. IsFiniteSet(Acquiring(i))
    BY LayersAreFinite, ZenonT(60) DEF Acquiring, Of
  <2>5. Cardinality(Acquiring(i)') = Cardinality(Acquiring(i)) + 1 /\ Cardinality(Acquiring(i)) \in Nat
    BY <2>3, <2>4, CardPlus, ZenonT(60)
  <2>6. DownloadInv(i) /\ downloads[i] \in Nat
    BY <1>1, ZenonT(60) DEF DownloadSide
  <2>7. Cardinality(Holding(Of(i))) \in Nat
    BY <2>6, FS_CardinalityType, ZenonT(60) DEF DownloadInv
  <2>8. config.downloadsPerImage > unlimited =>
           downloads'[i] = downloads[i] + 1 /\ downloads[i] < config.downloadsPerImage
    BY <1>1, <2>6, SMTT(60), Z3T(60) DEF DownloadSide, Take, Free, unlimited
  <2> HIDE DEF i
  <2>9. IsFiniteSet(Holding(Of(i))')
    BY <2>2, <2>6, ZenonT(60) DEF DownloadInv
  <2> QED  BY <1>1, <2>2, <2>5, <2>6, <2>7, <2>8, <2>9, SMTT(60), Z3T(60) DEF DownloadInv, unlimited
<1> QED  BY <1>3, <1>4, <1>5, <1>6, ZenonT(60) DEF DownloadSide

\* A step of a layer does not concern the other images.
LEMMA OtherImagesDownloads ==
    ASSUME DownloadSide, NEW l \in Layers, config' = config, cancelled \subseteq cancelled',
           \A k \in Layers \ {l} : StillD(k),
           NEW j \in Images, j # image(l), downloads'[j] = downloads[j]
    PROVE  DownloadInv(j)'
<1>1. \A k \in Of(j) : StillD(k)
  BY ZenonT(60) DEF Of
<1> QED  BY <1>1, ImageDownloadsStay, ZenonT(60) DEF DownloadSide

\* The same for the unpack permits.
LEMMA OtherImagesUnpacks ==
    ASSUME UnpackSide, NEW l \in Layers, config' = config,
           \A k \in Layers \ {l} : StillU(k),
           NEW j \in Images, j # image(l), unpacks'[j] = unpacks[j]
    PROVE  UnpackInv(j)'
<1>1. \A k \in Of(j) : Leases(k)' <=> Leases(k)
  BY ZenonT(60) DEF Of, StillU
<1> QED  BY <1>1, ImageUnpacksStay, ZenonT(60) DEF UnpackSide

\* AcquireDownload fails on the limiter of all images: the permit of the image,
\* which is cancelled, is lost.
LEMMA LosesDownload ==
    ASSUME TypeOK, DownloadSide, NEW l \in Layers, config' = config, config.downloads > unlimited,
           cancelled' = cancelled \union {image(l)},
           \A k \in Layers : InFlight(k)' = InFlight(k),
           pc[l] = "acquireGlobal", pc' = [pc EXCEPT ![l] = "failed"],
           downloads' = downloads, allDownloads' = allDownloads
    PROVE  DownloadSide'
<1> DEFINE i == image(l)
<1>1. i \in Images /\ i' = i /\ config.downloadsPerImage \in Int /\ config.downloads \in Int
  BY ConfigIs, ZenonT(60) DEF image
<1>2. \A k \in Layers \ {l} : StillD(k)
  BY ZenonT(60) DEF StillD, TypeOK
<1>3. AllDownloadInv'
  <2>1. Holding(Layers)' = Holding(Layers)
    BY HoldingSame, ZenonT(60)
  <2> QED  BY <2>1, ZenonT(60) DEF DownloadSide, AllDownloadInv
<1>4. ASSUME NEW j \in Images, j # i PROVE DownloadInv(j)'
  <2>1. cancelled \subseteq cancelled' /\ downloads'[j] = downloads[j]
    BY ZenonT(60)
  <2> QED  BY <2>1, <1>2, <1>4, OtherImagesDownloads, ZenonT(60)
<1>5. DownloadInv(i)'
  <2>1. Of(i)' = Of(i) /\ l \in Of(i)
    BY ZenonT(60) DEF Of, image
  <2>2. Holding(Of(i))' = Holding(Of(i))
    <3>1. \A k \in Of(i) : InFlight(k)' = InFlight(k)
      BY ZenonT(60) DEF Of
    <3>2. \A S : (\A k \in S : InFlight(k)' = InFlight(k)) => Holding(S)' = Holding(S)
      BY HoldingSame, ZenonT(60)
    <3> QED  BY <2>1, <3>1, <3>2, ZenonT(60) DEF Holding
  <2>3. Acquiring(i)' = Acquiring(i) \ {l} /\ l \in Acquiring(i)
    <3>1. \A k \in Of(i) : pc'[k] = "acquireGlobal" <=> pc[k] = "acquireGlobal" /\ k # l
      BY ZenonT(60) DEF TypeOK, Of
    <3> QED  BY <2>1, <3>1, ZenonT(60) DEF Acquiring
  <2>4. IsFiniteSet(Acquiring(i))
    BY LayersAreFinite, ZenonT(60) DEF Acquiring, Of
  <2>5. Cardinality(Acquiring(i)') = Cardinality(Acquiring(i)) - 1 /\ Cardinality(Acquiring(i)) \in Nat \ {0}
    BY <2>3, <2>4, CardMinus, ZenonT(60)
  <2>6. DownloadInv(i) /\ downloads[i] \in Nat
    BY <1>1, ZenonT(60) DEF DownloadSide
  <2>7. Cardinality(Holding(Of(i))) \in Nat
    BY <2>6, FS_CardinalityType, ZenonT(60) DEF DownloadInv
  <2>8. i \in cancelled'
    BY ZenonT(60)
  <2> HIDE DEF i
  <2>9. IsFiniteSet(Holding(Of(i))')
    BY <2>2, <2>6, ZenonT(60) DEF DownloadInv
  <2> QED  BY <1>1, <2>2, <2>5, <2>6, <2>7, <2>8, <2>9, SMTT(60), Z3T(60) DEF DownloadInv, unlimited
<1> QED  BY <1>3, <1>4, <1>5, ZenonT(60) DEF DownloadSide

\* AcquireDownload takes the second permit and the request starts.
LEMMA StartsRequest ==
    ASSUME TypeOK, DownloadSide, NEW l \in Layers, NEW r, config' = config, cancelled' = cancelled,
           r \notin InFlight(l), InFlight(l)' = InFlight(l) \union {r},
           \A k \in Layers \ {l} : InFlight(k)' = InFlight(k),
           pc[l] = "acquireGlobal", NEW next \in {"acquire", "wait"}, pc' = [pc EXCEPT ![l] = next],
           downloads' = downloads, Free(config.downloads, allDownloads),
           allDownloads' = Take(config.downloads, allDownloads)
    PROVE  DownloadSide'
<1> DEFINE i == image(l)
<1>1. /\ i \in Images /\ i' = i
      /\ config.downloadsPerImage \in Int /\ config.downloads \in Int
  BY ConfigIs, ZenonT(60) DEF image
<1>2. \A k \in Layers \ {l} : StillD(k)
  BY ZenonT(60) DEF StillD, TypeOK
<1>3. allDownloads' \in Nat /\ AllDownloadInv'
  <2>1. Holding(Layers)' = Holding(Layers) \union {<<l, r>>} /\ <<l, r>> \notin Holding(Layers)
    BY HoldingAdd, ZenonT(60)
  <2>2. AllDownloadInv /\ allDownloads \in Nat
    BY ZenonT(60) DEF DownloadSide
  <2>3. /\ IsFiniteSet(Holding(Layers)') /\ Cardinality(Holding(Layers)) \in Nat
        /\ Cardinality(Holding(Layers)') = Cardinality(Holding(Layers)) + 1
    BY <2>1, <2>2, CardPlus, SMTT(60), Z3T(60) DEF AllDownloadInv
  <2> QED  BY <1>1, <2>2, <2>3, SMTT(60), Z3T(60) DEF AllDownloadInv, Take, Free, unlimited
<1>4. ASSUME NEW j \in Images, j # i PROVE DownloadInv(j)'
  <2>1. cancelled \subseteq cancelled' /\ downloads'[j] = downloads[j]
    BY ZenonT(60)
  <2> QED  BY <2>1, <1>2, <1>4, OtherImagesDownloads, ZenonT(60)
<1>5. DownloadInv(i)'
  <2>1. Of(i)' = Of(i) /\ l \in Of(i)
    BY ZenonT(60) DEF Of, image
  <2>2. Holding(Of(i))' = Holding(Of(i)) \union {<<l, r>>} /\ <<l, r>> \notin Holding(Of(i))
    <3>1. \A k \in Of(i) \ {l} : InFlight(k)' = InFlight(k)
      BY ZenonT(60) DEF Of
    <3>2. \A S : l \in S /\ (\A k \in S \ {l} : InFlight(k)' = InFlight(k)) =>
             Holding(S)' = Holding(S) \union {<<l, r>>} /\ <<l, r>> \notin Holding(S)
      BY HoldingAdd, ZenonT(60)
    <3> QED  BY <2>1, <3>1, <3>2, ZenonT(60) DEF Holding
  <2>3. Acquiring(i)' = Acquiring(i) \ {l} /\ l \in Acquiring(i)
    <3>1. \A k \in Of(i) : pc'[k] = "acquireGlobal" <=> pc[k] = "acquireGlobal" /\ k # l
      BY ZenonT(60) DEF TypeOK, Of
    <3> QED  BY <2>1, <3>1, ZenonT(60) DEF Acquiring
  <2>4. IsFiniteSet(Acquiring(i))
    BY LayersAreFinite, ZenonT(60) DEF Acquiring, Of
  <2>5. Cardinality(Acquiring(i)') = Cardinality(Acquiring(i)) - 1 /\ Cardinality(Acquiring(i)) \in Nat \ {0}
    BY <2>3, <2>4, CardMinus, ZenonT(60)
  <2>6. DownloadInv(i) /\ downloads[i] \in Nat
    BY <1>1, ZenonT(60) DEF DownloadSide
  <2>7. /\ IsFiniteSet(Holding(Of(i))') /\ Cardinality(Holding(Of(i))) \in Nat
        /\ Cardinality(Holding(Of(i))') = Cardinality(Holding(Of(i))) + 1
    BY <2>2, <2>6, CardPlus, SMTT(60), Z3T(60) DEF DownloadInv
  <2> HIDE DEF i
  <2> QED  BY <1>1, <2>5, <2>6, <2>7, SMTT(60), Z3T(60) DEF DownloadInv, unlimited
<1> QED  BY <1>3, <1>4, <1>5, ZenonT(60) DEF DownloadSide

\* The request ends, well or not, and gives back both permits.
LEMMA EndsRequest ==
    ASSUME TypeOK, DownloadSide, NEW l \in Layers, NEW r \in InFlight(l), config' = config,
           cancelled' = cancelled, InFlight(l)' = InFlight(l) \ {r},
           \A k \in Layers \ {l} : InFlight(k)' = InFlight(k),
           pc' = pc, ReleaseDownload(l)
    PROVE  DownloadSide'
<1> DEFINE i == image(l)
<1>0. /\ downloads' = [downloads EXCEPT ![i] = Give(config.downloadsPerImage, @)]
      /\ allDownloads' = Give(config.downloads, allDownloads)
  BY ZenonT(60) DEF ReleaseDownload
<1>1. /\ i \in Images /\ i' = i
      /\ config.downloadsPerImage \in Int /\ config.downloads \in Int
  BY ConfigIs, ZenonT(60) DEF image
<1>2. \A k \in Layers \ {l} : StillD(k)
  BY ZenonT(60) DEF StillD, TypeOK
<1>3. allDownloads' \in Nat /\ AllDownloadInv'
  <2>1. Holding(Layers)' = Holding(Layers) \ {<<l, r>>} /\ <<l, r>> \in Holding(Layers)
    BY HoldingRemove, ZenonT(60)
  <2>2. AllDownloadInv /\ allDownloads \in Nat
    BY ZenonT(60) DEF DownloadSide
  <2>3. /\ IsFiniteSet(Holding(Layers)') /\ Cardinality(Holding(Layers)) \in Nat \ {0}
        /\ Cardinality(Holding(Layers)') = Cardinality(Holding(Layers)) - 1
    BY <2>1, <2>2, CardMinus, ZenonT(60) DEF AllDownloadInv
  <2> QED  BY <1>0, <1>1, <2>2, <2>3, SMTT(60), Z3T(60) DEF AllDownloadInv, Give, unlimited
<1>4. ASSUME NEW j \in Images, j # i PROVE DownloadInv(j)'
  <2>1. cancelled \subseteq cancelled' /\ downloads'[j] = downloads[j]
    BY <1>0, <1>4, ZenonT(60) DEF DownloadSide
  <2> QED  BY <2>1, <1>2, <1>4, OtherImagesDownloads, ZenonT(60)
<1>5. downloads' \in [Images -> Nat] /\ DownloadInv(i)'
  <2>1. Of(i)' = Of(i) /\ l \in Of(i)
    BY ZenonT(60) DEF Of, image
  <2>2. Holding(Of(i))' = Holding(Of(i)) \ {<<l, r>>} /\ <<l, r>> \in Holding(Of(i))
    <3>1. \A k \in Of(i) \ {l} : InFlight(k)' = InFlight(k)
      BY ZenonT(60) DEF Of
    <3>2. \A S : l \in S /\ (\A k \in S \ {l} : InFlight(k)' = InFlight(k)) =>
             Holding(S)' = Holding(S) \ {<<l, r>>} /\ <<l, r>> \in Holding(S)
      BY HoldingRemove, ZenonT(60)
    <3> QED  BY <2>1, <3>1, <3>2, ZenonT(60) DEF Holding
  <2>3. Acquiring(i)' = Acquiring(i) /\ Cardinality(Acquiring(i)) \in Nat
    BY <2>1, LayersAreFinite, ZenonT(60) DEF Acquiring, Of
  <2>6. DownloadInv(i) /\ downloads[i] \in Nat /\ downloads \in [Images -> Nat]
    BY <1>1, ZenonT(60) DEF DownloadSide
  <2>7. /\ IsFiniteSet(Holding(Of(i))') /\ Cardinality(Holding(Of(i))) \in Nat \ {0}
        /\ Cardinality(Holding(Of(i))') = Cardinality(Holding(Of(i))) - 1
    <3>1. IsFiniteSet(Holding(Of(i)))
      BY <2>6, ZenonT(60) DEF DownloadInv
    <3> HIDE DEF i
    <3> QED  BY <2>2, <3>1, CardMinus, SMTT(60), Z3T(60)
  <2> HIDE DEF i
  <2>8. config.downloadsPerImage > unlimited => downloads[i] - 1 \in Nat
    BY <2>3, <2>6, <2>7, SMTT(60), Z3T(60) DEF DownloadInv
  <2>9. downloads' \in [Images -> Nat]
    BY <1>0, <1>1, <2>6, <2>8, SMTT(60), Z3T(60) DEF Give, unlimited
  <2>10. config.downloadsPerImage > unlimited => downloads'[i] = downloads[i] - 1
    BY <1>0, <1>1, <2>6, SMTT(60), Z3T(60) DEF Give, unlimited
  <2> QED  BY <1>1, <2>3, <2>6, <2>7, <2>9, <2>10, SMTT(60), Z3T(60) DEF DownloadInv, unlimited
<1> QED  BY <1>3, <1>4, <1>5, ZenonT(60) DEF DownloadSide

\* The permit of an image is given back by a layer that has one.
LEMMA GivesLease ==
    ASSUME TypeOK, UnpackSide, NEW l \in Layers, config' = config, NEW i \in Images, i = image(l),
           Leases(l), \A k \in Of(i) : Leases(k)' <=> Leases(k) /\ k # l,
           unpacks' = [unpacks EXCEPT ![i] = Give(config.unpacksPerImage, @)]
    PROVE  unpacks' \in [Images -> Nat] /\ UnpackInv(i)'
<1>1. config.unpacksPerImage \in Int
  BY ConfigIs, ZenonT(60)
<1>2. Of(i)' = Of(i) /\ l \in Of(i)
  BY ZenonT(60) DEF Of, image
<1>3. Leased(i)' = Leased(i) \ {l} /\ l \in Leased(i)
  BY <1>2, ZenonT(60) DEF Leased
<1>4. IsFiniteSet(Leased(i))
  BY LayersAreFinite, ZenonT(60) DEF Leased, Of
<1>5. Cardinality(Leased(i)') = Cardinality(Leased(i)) - 1 /\ Cardinality(Leased(i)) \in Nat \ {0}
  BY <1>3, <1>4, CardMinus, ZenonT(60)
<1>6. UnpackInv(i) /\ unpacks[i] \in Nat /\ unpacks \in [Images -> Nat]
  BY ZenonT(60) DEF UnpackSide
<1>7. config.unpacksPerImage > unlimited => unpacks[i] - 1 \in Nat
  BY <1>5, <1>6, SMTT(60), Z3T(60) DEF UnpackInv
<1>8. unpacks' \in [Images -> Nat]
  BY <1>1, <1>6, <1>7, SMTT(60), Z3T(60) DEF Give, unlimited
<1>9. config.unpacksPerImage > unlimited => unpacks'[i] = unpacks[i] - 1
  BY <1>1, <1>6, SMTT(60), Z3T(60) DEF Give, unlimited
<1> QED  BY <1>1, <1>5, <1>6, <1>8, <1>9, SMTT(60), Z3T(60) DEF UnpackInv, unlimited

\* AcquireUnpackLease: the image's permit is taken.
LEMMA TakesLease ==
    ASSUME TypeOK, UnpackSide, NEW l \in Layers, config' = config,
           pc[l] = "lease", pc' = [pc EXCEPT ![l] = "leaseGlobal"],
           Free(config.unpacksPerImage, unpacks[image(l)]),
           unpacks' = [unpacks EXCEPT ![image(l)] = Take(config.unpacksPerImage, @)],
           allUnpacks' = allUnpacks
    PROVE  UnpackSide'
<1> DEFINE i == image(l)
<1>1. i \in Images /\ i' = i /\ config.unpacksPerImage \in Int
  BY ConfigIs, ZenonT(60) DEF image
<1>2. \A k \in Layers \ {l} : StillU(k)
  BY ZenonT(60) DEF StillU, Leases, Unpacking, TypeOK
<1>3. AllUnpackInv'
  <2>1. UnpackingAll' = UnpackingAll
    BY ZenonT(60) DEF UnpackingAll, Unpacking, TypeOK
  <2> QED  BY <2>1, ZenonT(60) DEF UnpackSide, AllUnpackInv
<1>4. ASSUME NEW j \in Images, j # i PROVE UnpackInv(j)'
  <2>1. unpacks'[j] = unpacks[j]
    BY <1>4, ZenonT(60) DEF UnpackSide
  <2> QED  BY <2>1, <1>2, <1>4, OtherImagesUnpacks, ZenonT(60)
<1>5. unpacks' \in [Images -> Nat] /\ UnpackInv(i)'
  <2>1. Of(i)' = Of(i) /\ l \in Of(i)
    BY ZenonT(60) DEF Of, image
  <2>2. Leased(i)' = Leased(i) \union {l} /\ l \notin Leased(i)
    <3>1. \A k \in Of(i) : (Leases(k)' <=> Leases(k) \/ k = l) /\ ~Leases(l)
      BY ZenonT(60) DEF TypeOK, Of, Leases, Unpacking
    <3> QED  BY <2>1, <3>1, ZenonT(60) DEF Leased
  <2>3. IsFiniteSet(Leased(i))
    BY LayersAreFinite, ZenonT(60) DEF Leased, Of
  <2>4. Cardinality(Leased(i)') = Cardinality(Leased(i)) + 1 /\ Cardinality(Leased(i)) \in Nat
    BY <2>2, <2>3, CardPlus, ZenonT(60)
  <2>5. UnpackInv(i) /\ unpacks[i] \in Nat /\ unpacks \in [Images -> Nat]
    BY <1>1, ZenonT(60) DEF UnpackSide
  <2> HIDE DEF i
  <2>6. unpacks' \in [Images -> Nat]
    BY <1>1, <2>5, SMTT(60), Z3T(60) DEF Take, i
  <2>7. config.unpacksPerImage > unlimited =>
           unpacks'[i] = unpacks[i] + 1 /\ unpacks[i] < config.unpacksPerImage
    BY <1>1, <2>5, SMTT(60), Z3T(60) DEF Take, Free, unlimited, i
  <2> QED  BY <1>1, <2>4, <2>5, <2>6, <2>7, SMTT(60), Z3T(60) DEF UnpackInv, unlimited
<1> QED  BY <1>3, <1>4, <1>5, ZenonT(60) DEF UnpackSide

\* The second limiter fails: the permit of the image is given back.
LEMMA DropsLease ==
    ASSUME TypeOK, UnpackSide, NEW l \in Layers, config' = config,
           pc[l] = "leaseGlobal", pc' = [pc EXCEPT ![l] = "failed"],
           unpacks' = [unpacks EXCEPT ![image(l)] = Give(config.unpacksPerImage, @)],
           allUnpacks' = allUnpacks
    PROVE  UnpackSide'
<1> PICK i \in Images : i = image(l)
  BY ConfigIs, ZenonT(60)
<1>1. config.unpacksPerImage \in Int
  BY ConfigIs, ZenonT(60)
<1>2. \A k \in Layers \ {l} : StillU(k)
  BY ZenonT(60) DEF StillU, Leases, Unpacking, TypeOK
<1>3. AllUnpackInv'
  <2>1. UnpackingAll' = UnpackingAll
    BY ZenonT(60) DEF UnpackingAll, Unpacking, TypeOK
  <2> QED  BY <2>1, ZenonT(60) DEF UnpackSide, AllUnpackInv
<1>4. ASSUME NEW j \in Images, j # i PROVE UnpackInv(j)'
  <2>1. unpacks'[j] = unpacks[j]
    BY <1>4, ZenonT(60) DEF UnpackSide
  <2> QED  BY <2>1, <1>2, <1>4, OtherImagesUnpacks, ZenonT(60)
<1>5. unpacks' \in [Images -> Nat] /\ UnpackInv(i)'
  <2>1. Leases(l) /\ \A k \in Of(i) : Leases(k)' <=> Leases(k) /\ k # l
    BY ZenonT(60) DEF TypeOK, Of, Leases, Unpacking
  <2>2. unpacks' = [unpacks EXCEPT ![i] = Give(config.unpacksPerImage, @)]
    BY ZenonT(60)
  <2> QED  BY <1>1, <2>1, <2>2, GivesLease, ZenonT(60)
<1> QED  BY <1>3, <1>4, <1>5, ZenonT(60) DEF UnpackSide

\* AcquireUnpackLease takes the second permit.
LEMMA StartsUnpack ==
    ASSUME TypeOK, UnpackSide, NEW l \in Layers, config' = config,
           pc[l] = "leaseGlobal", pc' = [pc EXCEPT ![l] = "apply"],
           unpacks' = unpacks, Free(config.unpacks, allUnpacks),
           allUnpacks' = Take(config.unpacks, allUnpacks)
    PROVE  UnpackSide'
<1>1. config.unpacks \in Int /\ allUnpacks \in Nat /\ AllUnpackInv
  BY ConfigIs, ZenonT(60) DEF UnpackSide
<1>2. \A k \in Layers : Leases(k)' <=> Leases(k)
  BY ZenonT(60) DEF Leases, Unpacking, TypeOK
<1>3. \A j \in Images : UnpackInv(j)'
  <2> SUFFICES ASSUME NEW j \in Images PROVE UnpackInv(j)'
    BY ZenonT(60)
  <2>1. \A k \in Of(j) : Leases(k)' <=> Leases(k)
    BY <1>2, ZenonT(60) DEF Of
  <2>2. unpacks'[j] = unpacks[j]
    BY ZenonT(60)
  <2> QED  BY <2>1, <2>2, ImageUnpacksStay, ZenonT(60) DEF UnpackSide
<1>4. UnpackingAll' = UnpackingAll \union {l} /\ l \notin UnpackingAll
  <2>1. \A k \in Layers : (Unpacking(k)' <=> Unpacking(k) \/ k = l) /\ ~Unpacking(l)
    BY ZenonT(60) DEF TypeOK, Unpacking
  <2> QED  BY <2>1, ZenonT(60) DEF UnpackingAll
<1>5. IsFiniteSet(UnpackingAll)
  BY LayersAreFinite, ZenonT(60) DEF UnpackingAll
<1>6. Cardinality(UnpackingAll') = Cardinality(UnpackingAll) + 1 /\ Cardinality(UnpackingAll) \in Nat
  BY <1>4, <1>5, CardPlus, ZenonT(60)
<1>7. allUnpacks' \in Nat /\ AllUnpackInv'
  BY <1>1, <1>6, SMTT(60), Z3T(60) DEF AllUnpackInv, Take, Free, unlimited
<1> QED  BY <1>3, <1>7, ZenonT(60) DEF UnpackSide

\* release: both permits are given back.
LEMMA GivesBoth ==
    ASSUME TypeOK, UnpackSide, NEW l \in Layers, config' = config,
           Unpacking(l), NEW next \in {"ok", "failed"}, pc' = [pc EXCEPT ![l] = next], release(l)
    PROVE  UnpackSide'
<1> PICK i \in Images : i = image(l)
  BY ConfigIs, ZenonT(60)
<1>0. /\ unpacks' = [unpacks EXCEPT ![i] = Give(config.unpacksPerImage, @)]
      /\ allUnpacks' = Give(config.unpacks, allUnpacks)
  BY ZenonT(60) DEF release
<1>1. /\ config.unpacksPerImage \in Int /\ config.unpacks \in Int /\ allUnpacks \in Nat /\ AllUnpackInv
  BY ConfigIs, ZenonT(60) DEF UnpackSide
<1>2. \A k \in Layers \ {l} : StillU(k)
  BY ZenonT(60) DEF StillU, Leases, Unpacking, TypeOK
<1>3. allUnpacks' \in Nat /\ AllUnpackInv'
  <2>1. UnpackingAll' = UnpackingAll \ {l} /\ l \in UnpackingAll
    <3>1. \A k \in Layers : Unpacking(k)' <=> Unpacking(k) /\ k # l
      BY ZenonT(60) DEF TypeOK, Unpacking
    <3> QED  BY <3>1, ZenonT(60) DEF UnpackingAll
  <2>2. IsFiniteSet(UnpackingAll)
    BY LayersAreFinite, ZenonT(60) DEF UnpackingAll
  <2>3. Cardinality(UnpackingAll') = Cardinality(UnpackingAll) - 1 /\ Cardinality(UnpackingAll) \in Nat \ {0}
    BY <2>1, <2>2, CardMinus, ZenonT(60)
  <2> QED  BY <1>0, <1>1, <2>3, SMTT(60), Z3T(60) DEF AllUnpackInv, Give, unlimited
<1>4. ASSUME NEW j \in Images, j # i PROVE UnpackInv(j)'
  <2>1. unpacks'[j] = unpacks[j]
    BY <1>0, <1>4, ZenonT(60) DEF UnpackSide
  <2> QED  BY <2>1, <1>2, <1>4, OtherImagesUnpacks, ZenonT(60)
<1>5. unpacks' \in [Images -> Nat] /\ UnpackInv(i)'
  <2>1. Leases(l) /\ \A k \in Of(i) : Leases(k)' <=> Leases(k) /\ k # l
    BY ZenonT(60) DEF TypeOK, Of, Leases, Unpacking
  <2> QED  BY <1>0, <1>1, <2>1, GivesLease, ZenonT(60)
<1> QED  BY <1>3, <1>4, <1>5, ZenonT(60) DEF UnpackSide

-----------------------------------------------------------------------------
(* The steps.  Most of them move one layer from a phase to the next.       *)

Phases == {"fetch", "initial", "acquire", "acquireGlobal", "wait", "lease", "leaseGlobal",
           "apply", "stored", "ok", "failed"}

\* A layer moves on to its next phase.
Moves(l, next) ==
    /\ next \in Phases /\ pc' = [pc EXCEPT ![l] = next]
    /\ UNCHANGED <<config, second, chunks, failed, file>>

\* What such a step leaves alone.
LEMMA MovesFacts ==
    ASSUME TypeOK, NEW l \in Layers, NEW next, Moves(l, next)
    PROVE  /\ pc' \in [Layers -> Phases] /\ pc'[l] = next
           /\ \A k \in Layers \ {l} : pc'[k] = pc[k]
           /\ \A k \in Layers : Requests(k)' = Requests(k) /\ InFlight(k)' = InFlight(k)
<1>1. pc \in [Layers -> Phases]
  BY ZenonT(60) DEF TypeOK, Phases
<1>2. pc' \in [Layers -> Phases] /\ pc'[l] = next /\ \A k \in Layers \ {l} : pc'[k] = pc[k]
  BY <1>1, ZenonT(60) DEF Moves
<1>3. \A k \in Layers : Requests(k)' = Requests(k)
  BY ZenonT(60) DEF Moves, Requests, loops
<1>4. \A k \in Layers : InFlight(k)' = InFlight(k)
  BY <1>3, ZenonT(60) DEF Moves, InFlight
<1> QED  BY <1>2, <1>3, <1>4, ZenonT(60)

\* It keeps the types.
LEMMA MovesTypes ==
    ASSUME TypeOK, NEW l \in Layers, NEW next, Moves(l, next), DownloadSide', UnpackSide',
           local' \subseteq Layers, ranged' \subseteq Layers, stored' \subseteq Blobs,
           cancelled' \subseteq Images, faults' \in 0 .. MaxFaults,
           storing' \in [Layers -> {"none", "running", "ok", "error"}]
    PROVE  TypeOK'
<1>1. pc' \in [Layers -> Phases] /\ \A k \in Layers : Requests(k)' = Requests(k)
  BY MovesFacts, ZenonT(60)
<1>2. config' = config /\ second' = second /\ chunks' = chunks /\ failed' = failed /\ file' = file
  BY ZenonT(60) DEF Moves
<1>3. /\ config' \in Configs /\ second' \subseteq Second
      /\ failed' \subseteq Layers /\ DOMAIN chunks' = Layers /\ DOMAIN file' = Layers
  BY <1>2, ZenonT(60) DEF TypeOK
<1>4. \A k \in Layers : chunks'[k] \in [Requests(k)' -> {"none", "request", "good", "bad", "short", "done"}]
  BY <1>1, <1>2, ZenonT(60) DEF TypeOK
<1>5. \A k \in Layers : file'[k] \in [0 .. Size[k] - 1 -> {"hole", "good", "bad"}]
  BY <1>2, ZenonT(60) DEF TypeOK
<1>6. /\ downloads' \in [Images -> Nat] /\ unpacks' \in [Images -> Nat]
      /\ allDownloads' \in Nat /\ allUnpacks' \in Nat
  BY ZenonT(60) DEF DownloadSide, UnpackSide
<1> QED  BY <1>1, <1>3, <1>4, <1>5, <1>6, ZenonT(60) DEF TypeOK, Phases

\* The other layers keep their part of the invariant.
LEMMA OthersKeep ==
    ASSUME \A k \in Layers : LayerInv(k), NEW l \in Layers, config' = config,
           \A k \in Layers \ {l} : Same(k), LayerInv(l)'
    PROVE  \A k \in Layers : LayerInv(k)'
BY LayerFrame, ZenonT(60)

\* It keeps the invariant of the other layers.
LEMMA MovesOthers ==
    ASSUME TypeOK, \A k \in Layers : LayerInv(k), NEW l \in Layers, NEW next, Moves(l, next), LayerInv(l)',
           \A k \in Layers \ {l} :
              /\ k \in local' <=> k \in local
              /\ k \in ranged' <=> k \in ranged
              /\ Digest[k] \in stored => Digest[k] \in stored'
              /\ storing'[k] = storing[k]
    PROVE  \A k \in Layers : LayerInv(k)'
<1>1. \A k \in Layers \ {l} : pc'[k] = pc[k]
  BY MovesFacts, ZenonT(60)
<1>2. UNCHANGED <<config, second, chunks, failed, file>>
  BY ZenonT(60) DEF Moves
<1>3. \A k \in Layers \ {l} : Same(k)
  BY <1>1, <1>2, ZenonT(60) DEF Same
<1> QED  BY <1>2, <1>3, OthersKeep, ZenonT(60)

\* A premount that fails asks nothing of its layer any more.
LEMMA FailedLayer ==
    ASSUME TypeOK, NEW l \in Layers, LayerInv(l), Moves(l, "failed"), ranged' = ranged,
           l \in local' => l \in local, stored' = stored, storing' = storing
    PROVE  LayerInv(l)'
<1>1. pc'[l] = "failed" /\ Requests(l)' = Requests(l)
  BY MovesFacts, ZenonT(60)
<1>2. UNCHANGED <<config, second, chunks, failed, file>>
  BY ZenonT(60) DEF Moves
<1>3. FetchInv(l)'
  BY <1>1, <1>2, ZenonT(60) DEF FetchInv, LayerInv, Reading
<1>4. StoreInv(l)'
  BY <1>1, <1>2, ZenonT(60) DEF StoreInv, LayerInv
<1> QED  BY <1>3, <1>4, ZenonT(60) DEF LayerInv

\* The faults stay within their bound.
LEMMA FaultType ==
    ASSUME TypeOK, NEW kind, Fault(kind)
    PROVE  faults' \in 0 .. MaxFaults
BY LayerDownloadsAssumption, SMTT(60), Z3T(60) DEF TypeOK, Fault

\* A failing layer cancels its image.
LEMMA FailFacts ==
    ASSUME TypeOK, NEW l \in Layers, Fail(l), UNCHANGED <<config, second, chunks, failed, file>>
    PROVE  /\ Moves(l, "failed") /\ cancelled' = cancelled \union {image(l)}
           /\ cancelled \subseteq cancelled' /\ cancelled' \subseteq Images
<1>1. Moves(l, "failed") /\ cancelled' = cancelled \union {image(l)}
  BY ZenonT(60) DEF Fail, Goto, Moves, Phases
<1> QED  BY <1>1, ConfigIs, ZenonT(60) DEF TypeOK

\* A step that fails and holds no permit.
LEMMA FailsQuietly ==
    ASSUME Inv, NEW l \in Layers, Fail(l), UNCHANGED <<config, second, chunks, failed, file>>,
           UNCHANGED <<local, ranged, storing, stored>>, UNCHANGED permits,
           pc[l] \in {"fetch", "initial", "acquire", "wait", "lease"}, faults' \in 0 .. MaxFaults
    PROVE  Inv'
<1>0. TypeOK /\ DownloadSide /\ UnpackSide /\ \A k \in Layers : LayerInv(k)
  BY ZenonT(60) DEF Inv
<1>1. /\ Moves(l, "failed") /\ cancelled \subseteq cancelled' /\ cancelled' \subseteq Images
  BY <1>0, FailFacts, ZenonT(60)
<1>2. /\ config' = config /\ pc'[l] = "failed" /\ \A k \in Layers : InFlight(k)' = InFlight(k)
      /\ \A k \in Layers \ {l} : pc'[k] = pc[k]
  BY <1>0, <1>1, MovesFacts, ZenonT(60)
<1>3. \A k \in Layers : StillD(k) /\ StillU(k)
  BY <1>2, ZenonT(60) DEF StillD, StillU, Leases, Unpacking
<1>4. downloads' = downloads /\ allDownloads' = allDownloads /\ unpacks' = unpacks /\ allUnpacks' = allUnpacks
  BY ZenonT(60) DEF permits
<1>5. DownloadSide'
  BY <1>0, <1>1, <1>2, <1>3, <1>4, DownloadsStay, ZenonT(60)
<1>6. UnpackSide'
  BY <1>0, <1>2, <1>3, <1>4, UnpacksStay, ZenonT(60)
<1>7. TypeOK'
  <2>1. /\ local' \subseteq Layers /\ ranged' \subseteq Layers /\ stored' \subseteq Blobs
        /\ storing' \in [Layers -> {"none", "running", "ok", "error"}]
    BY <1>0, ZenonT(60) DEF TypeOK
  <2> QED  BY <1>0, <1>1, <1>5, <1>6, <2>1, MovesTypes, ZenonT(60)
<1>8. LayerInv(l)'
  BY <1>0, <1>1, FailedLayer, ZenonT(60)
<1>9. \A k \in Layers : LayerInv(k)'
  BY <1>0, <1>1, <1>8, MovesOthers, ZenonT(60)
<1> QED  BY <1>5, <1>6, <1>7, <1>9, ZenonT(60) DEF Inv

\* A layer moves on and no permit is involved.
LEMMA QuietMove ==
    ASSUME Inv, NEW l \in Layers, NEW next, Moves(l, next), LayerInv(l)',
           pc[l] \notin {"acquireGlobal", "leaseGlobal"}, next \notin {"acquireGlobal", "leaseGlobal"},
           pc[l] \in {"apply", "stored"} <=> next \in {"apply", "stored"},
           UNCHANGED <<permits, cancelled, faults, storing, stored>>,
           local' \subseteq Layers, ranged' \subseteq Layers,
           \A k \in Layers \ {l} : (k \in local' <=> k \in local) /\ (k \in ranged' <=> k \in ranged)
    PROVE  Inv'
<1>0. TypeOK /\ DownloadSide /\ UnpackSide /\ \A k \in Layers : LayerInv(k)
  BY ZenonT(60) DEF Inv
<1>1. /\ config' = config /\ pc'[l] = next /\ \A k \in Layers : InFlight(k)' = InFlight(k)
      /\ \A k \in Layers \ {l} : pc'[k] = pc[k]
  BY <1>0, MovesFacts, ZenonT(60) DEF Moves
<1>2. \A k \in Layers : StillD(k) /\ StillU(k)
  BY <1>1, ZenonT(60) DEF StillD, StillU, Leases, Unpacking
<1>3. downloads' = downloads /\ allDownloads' = allDownloads /\ unpacks' = unpacks /\ allUnpacks' = allUnpacks
  BY ZenonT(60) DEF permits
<1>4. cancelled \subseteq cancelled' /\ cancelled' \subseteq Images /\ faults' \in 0 .. MaxFaults
  BY <1>0, ZenonT(60) DEF TypeOK
<1>5. DownloadSide'
  BY <1>0, <1>1, <1>2, <1>3, <1>4, DownloadsStay, ZenonT(60)
<1>6. UnpackSide'
  BY <1>0, <1>1, <1>2, <1>3, UnpacksStay, ZenonT(60)
<1>7. TypeOK'
  <2>1. stored' \subseteq Blobs /\ storing' \in [Layers -> {"none", "running", "ok", "error"}]
    BY <1>0, ZenonT(60) DEF TypeOK
  <2> QED  BY <1>0, <1>4, <1>5, <1>6, <2>1, MovesTypes, ZenonT(60)
<1>8. \A k \in Layers : LayerInv(k)'
  BY <1>0, MovesOthers, ZenonT(60)
<1> QED  BY <1>5, <1>6, <1>7, <1>8, ZenonT(60) DEF Inv

\* A layer none of whose requests was made has one to make.
LEMMA SomeToRequest ==
    ASSUME TypeOK, NEW l \in Layers, \A i \in Requests(l) : chunks[l][i] = "none"
    PROVE  ToRequest(l) # {}
<1>1. 0 \in Requests(l)
  BY RequestsOf, ZenonT(60)
<1>2. 0 \in ToRequest(l)
  BY <1>1, ZenonT(60) DEF ToRequest
<1> QED  BY <1>2, ZenonT(60)

\* A layer is looked up in the content store.
LEMMA FetchLocalStep ==
    ASSUME Inv, NEW l \in Layers, FetchLocal(l)
    PROVE  Inv'
<1>0. TypeOK /\ LayerInv(l)
  BY ZenonT(60) DEF Inv
<1>1. /\ pc[l] = "fetch" /\ UNCHANGED <<config, second, chunks, failed, file>>
      /\ UNCHANGED <<ranged, storing, stored, cancelled, permits, faults>>
  BY ZenonT(60) DEF FetchLocal
<1>2. PICK next \in {"lease", "initial", "acquire"} :
         /\ pc' = [pc EXCEPT ![l] = next]
         /\ next = "lease" => Digest[l] \in stored /\ local' = local \union {l}
         /\ next # "lease" => local' = local
  BY ZenonT(60) DEF FetchLocal, Goto
<1>3. Moves(l, next)
  BY <1>1, <1>2, ZenonT(60) DEF Moves, Phases
<1>4. pc'[l] = next /\ Requests(l)' = Requests(l) /\ InFlight(l)' = InFlight(l)
  BY <1>0, <1>3, MovesFacts, ZenonT(60)
<1>5. \A i \in Requests(l) : chunks[l][i] = "none"
  BY <1>0, <1>1, ZenonT(60) DEF LayerInv, FetchInv
<1>6. ToRequest(l)' # {}
  <2>1. ToRequest(l)' = ToRequest(l)
    BY <1>1, <1>4, ZenonT(60) DEF ToRequest
  <2> QED  BY <2>1, <1>0, <1>5, SomeToRequest, ZenonT(60)
<1>7. FetchInv(l)'
  BY <1>0, <1>1, <1>2, <1>4, <1>5, <1>6, ZenonT(60) DEF LayerInv, FetchInv, Reading
<1>8. StoreInv(l)'
  BY <1>0, <1>1, <1>2, <1>4, ZenonT(60) DEF LayerInv, StoreInv
<1>9. LayerInv(l)'
  BY <1>7, <1>8, ZenonT(60) DEF LayerInv
<1>10. /\ local' \subseteq Layers /\ ranged' \subseteq Layers
       /\ \A k \in Layers \ {l} : (k \in local' <=> k \in local) /\ (k \in ranged' <=> k \in ranged)
  BY <1>0, <1>1, <1>2, ZenonT(60) DEF TypeOK
<1> QED  BY <1>1, <1>2, <1>3, <1>9, <1>10, QuietMove, ZenonT(60)

\* The ingest file cannot be made.
LEMMA IngestFailsStep ==
    ASSUME Inv, NEW l \in Layers, IngestFails(l)
    PROVE  Inv'
<1>1. /\ pc[l] \in {"fetch", "initial", "acquire", "wait", "lease"} /\ Fail(l) /\ Fault("file")
      /\ UNCHANGED <<config, second, chunks, failed, file>> /\ UNCHANGED <<local, ranged, storing, stored>>
      /\ UNCHANGED permits
  BY ZenonT(60) DEF IngestFails
<1>2. faults' \in 0 .. MaxFaults
  BY <1>1, FaultType, ZenonT(60) DEF Inv
<1> QED  BY <1>1, <1>2, FailsQuietly, ZenonT(60)

\* The first request tells whether the registry serves ranges.
LEMMA doInitialFetchStep ==
    ASSUME Inv, NEW l \in Layers, doInitialFetch(l)
    PROVE  Inv'
<1>0. TypeOK /\ LayerInv(l)
  BY ZenonT(60) DEF Inv
<1>1. /\ pc[l] = "initial" /\ UNCHANGED <<config, second, chunks, failed, file>>
      /\ UNCHANGED <<local, storing, stored, permits>>
  BY ZenonT(60) DEF doInitialFetch
<1>2. CASE Fail(l) /\ UNCHANGED ranged /\ (Fault("initial") \/ UNCHANGED faults)
  <2>1. faults' \in 0 .. MaxFaults
    BY <1>0, <1>2, FaultType, ZenonT(60) DEF TypeOK
  <2> QED  BY <1>1, <1>2, <2>1, FailsQuietly, ZenonT(60)
<1>3. CASE ranged' \in {ranged, ranged \union {l}} /\ Goto(l, "acquire") /\ UNCHANGED <<cancelled, faults>>
  <2>1. Moves(l, "acquire")
    BY <1>1, <1>3, ZenonT(60) DEF Moves, Phases, Goto
  <2>2. pc'[l] = "acquire" /\ Requests(l)' = Requests(l) /\ InFlight(l)' = InFlight(l)
    BY <1>0, <2>1, MovesFacts, ZenonT(60)
  <2>3. \A i \in Requests(l) : chunks[l][i] = "none"
    BY <1>0, <1>1, ZenonT(60) DEF LayerInv, FetchInv
  <2>4. ToRequest(l)' # {}
    <3>1. 0 \in Requests(l)
      BY <1>0, RequestsOf, ZenonT(60)
    <3>2. 0 \in ToRequest(l)'
      BY <1>1, <2>2, <2>3, <3>1, ZenonT(60) DEF ToRequest
    <3> QED  BY <3>2, ZenonT(60)
  <2>5. FetchInv(l)'
    BY <1>1, <2>2, <2>3, <2>4, ZenonT(60) DEF FetchInv, Reading
  <2>6. StoreInv(l)'
    BY <1>0, <1>1, <2>2, ZenonT(60) DEF LayerInv, StoreInv
  <2>7. LayerInv(l)'
    BY <2>5, <2>6, ZenonT(60) DEF LayerInv
  <2>8. /\ local' \subseteq Layers /\ ranged' \subseteq Layers
        /\ \A k \in Layers \ {l} : (k \in local' <=> k \in local) /\ (k \in ranged' <=> k \in ranged)
    BY <1>0, <1>1, <1>3, ZenonT(60) DEF TypeOK
  <2> QED  BY <1>1, <1>3, <2>1, <2>7, <2>8, QuietMove, ZenonT(60)
<1> QED  BY <1>2, <1>3, ZenonT(60) DEF doInitialFetch

\* A request takes the permit of its image ...
LEMMA AcquireDownloadStep ==
    ASSUME Inv, NEW l \in Layers, AcquireDownload(l)
    PROVE  Inv'
<1>0. TypeOK /\ DownloadSide /\ UnpackSide /\ \A k \in Layers : LayerInv(k)
  BY ZenonT(60) DEF Inv
<1>1. /\ pc[l] = "acquire" /\ UNCHANGED <<config, second, chunks, failed, file>>
      /\ UNCHANGED <<local, ranged, storing, stored, faults>>
  BY ZenonT(60) DEF AcquireDownload
<1>2. CASE Refused(config.downloadsPerImage, l)
  <2>1. Fail(l) /\ UNCHANGED permits
    BY <1>2, ZenonT(60) DEF AcquireDownload
  <2>2. faults' \in 0 .. MaxFaults
    BY <1>0, <1>1, ZenonT(60) DEF TypeOK
  <2> QED  BY <1>1, <2>1, <2>2, FailsQuietly, ZenonT(60)
<1>3. CASE ~Refused(config.downloadsPerImage, l)
  <2>1. /\ Free(config.downloadsPerImage, downloads[image(l)])
        /\ downloads' = [downloads EXCEPT ![image(l)] = Take(config.downloadsPerImage, @)]
        /\ Goto(l, "acquireGlobal") /\ UNCHANGED <<cancelled, allDownloads, unpacks, allUnpacks>>
    BY <1>3, ZenonT(60) DEF AcquireDownload
  <2>2. Moves(l, "acquireGlobal")
    BY <1>1, <2>1, ZenonT(60) DEF Moves, Phases, Goto
  <2>3. /\ config' = config /\ pc'[l] = "acquireGlobal" /\ \A k \in Layers : InFlight(k)' = InFlight(k)
        /\ \A k \in Layers \ {l} : pc'[k] = pc[k]
        /\ Requests(l)' = Requests(l)
    BY <1>0, <2>2, MovesFacts, ZenonT(60) DEF Moves
  <2>4. \A k \in Layers : StillU(k)
    BY <1>1, <2>3, ZenonT(60) DEF StillU, Leases, Unpacking
  <2>5. UnpackSide'
    BY <1>0, <2>1, <2>3, <2>4, UnpacksStay, ZenonT(60)
  <2>6. DownloadSide'
    BY <1>0, <1>1, <2>1, <2>3, TakesDownload, ZenonT(60) DEF Goto
  <2>7. TypeOK'
    <3>1. /\ local' \subseteq Layers /\ ranged' \subseteq Layers /\ stored' \subseteq Blobs
          /\ cancelled' \subseteq Images /\ faults' \in 0 .. MaxFaults
          /\ storing' \in [Layers -> {"none", "running", "ok", "error"}]
      BY <1>0, <1>1, <2>1, ZenonT(60) DEF TypeOK
    <3> QED  BY <1>0, <2>2, <2>5, <2>6, <3>1, MovesTypes, ZenonT(60)
  <2>8. LayerInv(l)'
    <3>1. ToRequest(l)' = ToRequest(l)
      BY <1>1, <2>3, ZenonT(60) DEF ToRequest
    <3>2. LayerInv(l)
      BY <1>0, ZenonT(60)
    <3>3. FetchInv(l)'
      BY <1>1, <2>3, <3>1, <3>2, ZenonT(60) DEF LayerInv, FetchInv, Reading
    <3>4. StoreInv(l)'
      BY <1>1, <2>3, <3>2, ZenonT(60) DEF LayerInv, StoreInv
    <3> QED  BY <3>3, <3>4, ZenonT(60) DEF LayerInv
  <2>9. \A k \in Layers : LayerInv(k)'
    BY <1>0, <1>1, <2>2, <2>8, MovesOthers, ZenonT(60)
  <2> QED  BY <2>5, <2>6, <2>7, <2>9, ZenonT(60) DEF Inv
<1> QED  BY <1>2, <1>3, ZenonT(60)

\* The loop makes a request: if it was the last one, none is left.
LEMMA NextIsTaken ==
    ASSUME TypeOK, NEW l \in Layers, ToRequest(l) # {}
    PROVE  LET r == Min(ToRequest(l))
               S == ToRequest(l) \ {r}
           IN  /\ r \in ToRequest(l) /\ r \in Requests(l) /\ chunks[l][r] = "none"
               /\ Cardinality(ToRequest(l)) > 1 => S # {}
               /\ ~(Cardinality(ToRequest(l)) > 1) => S = {}
<1> DEFINE T == ToRequest(l)
<1>1. 0 \in Requests(l) /\ Requests(l) \subseteq Nat /\ loops(l) \in Nat
  BY RequestsOf, ZenonT(60)
<1>2. T \subseteq Requests(l) /\ \A i \in T : chunks[l][i] = "none"
  BY <1>1, ZenonT(60) DEF ToRequest
<1>3. IsFiniteSet(T)
  <2>1. IsFiniteSet(Requests(l))
    BY <1>1, FS_Interval, SMTT(60), Z3T(60) DEF Requests
  <2> QED  BY <1>2, <2>1, FS_Subset, ZenonT(60)
<1> PICK r : r = Min(T)
  BY ZenonT(60)
<1> HIDE DEF T
<1>4. r \in T
  BY <1>1, <1>2, NextRequest, ZenonT(60) DEF T
<1>5. /\ IsFiniteSet(T \ {r}) /\ Cardinality(T \ {r}) = Cardinality(T) - 1
      /\ Cardinality(T) \in Nat \ {0}
  BY <1>3, <1>4, CardMinus, ZenonT(60)
<1>6. Cardinality(T \ {r}) = 0 <=> T \ {r} = {}
  BY <1>5, FS_EmptySet, ZenonT(60)
<1>7. Cardinality(T) > 1 <=> T \ {r} # {}
  BY <1>5, <1>6, SMTT(60), Z3T(60)
<1> QED  BY <1>2, <1>4, <1>7, ZenonT(60) DEF T

\* ... and the other one, and starts.
LEMMA StartRequestStep ==
    ASSUME Inv, NEW l \in Layers, StartRequest(l)
    PROVE  Inv'
<1>0. TypeOK /\ DownloadSide /\ UnpackSide /\ \A k \in Layers : LayerInv(k)
  BY ZenonT(60) DEF Inv
<1>1. /\ pc[l] = "acquireGlobal" /\ UNCHANGED <<config, second, failed, file>>
      /\ UNCHANGED <<local, ranged, storing, stored, faults>>
  BY ZenonT(60) DEF StartRequest
<1>2. CASE Refused(config.downloads, l)
  <2>1. Fail(l) /\ UNCHANGED permits /\ chunks' = chunks
    BY <1>2, ZenonT(60) DEF StartRequest
  <2>2. /\ Moves(l, "failed") /\ cancelled' = cancelled \union {image(l)}
        /\ cancelled \subseteq cancelled' /\ cancelled' \subseteq Images
    BY <1>0, <1>1, <2>1, FailFacts, ZenonT(60)
  <2>3. /\ config' = config /\ pc'[l] = "failed" /\ \A k \in Layers : InFlight(k)' = InFlight(k)
        /\ \A k \in Layers \ {l} : pc'[k] = pc[k]
    BY <1>0, <2>2, MovesFacts, ZenonT(60) DEF Moves
  <2>4. \A k \in Layers : StillU(k)
    BY <1>1, <2>3, ZenonT(60) DEF StillU, Leases, Unpacking
  <2>5. downloads' = downloads /\ allDownloads' = allDownloads /\ unpacks' = unpacks /\ allUnpacks' = allUnpacks
    BY <2>1, ZenonT(60) DEF permits
  <2>6. UnpackSide'
    BY <1>0, <2>3, <2>4, <2>5, UnpacksStay, ZenonT(60)
  <2>7. DownloadSide'
    BY <1>0, <1>1, <1>2, <2>2, <2>3, <2>5, LosesDownload, ZenonT(60) DEF Moves, Refused
  <2>8. TypeOK'
    <3>1. /\ local' \subseteq Layers /\ ranged' \subseteq Layers /\ stored' \subseteq Blobs
          /\ faults' \in 0 .. MaxFaults
          /\ storing' \in [Layers -> {"none", "running", "ok", "error"}]
      BY <1>0, <1>1, ZenonT(60) DEF TypeOK
    <3> QED  BY <1>0, <2>2, <2>6, <2>7, <3>1, MovesTypes, ZenonT(60)
  <2>9. LayerInv(l)'
    BY <1>0, <1>1, <2>2, FailedLayer, ZenonT(60)
  <2>10. \A k \in Layers : LayerInv(k)'
    BY <1>0, <1>1, <2>2, <2>9, MovesOthers, ZenonT(60)
  <2> QED  BY <2>6, <2>7, <2>8, <2>10, ZenonT(60) DEF Inv
<1>3. CASE ~Refused(config.downloads, l)
  <2>0. ToRequest(l) # {}
    BY <1>0, <1>1, ZenonT(60) DEF LayerInv, FetchInv
  <2> PICK r : r = Min(ToRequest(l))
    BY ZenonT(60)
  <2>1. /\ r \in ToRequest(l) /\ r \in Requests(l) /\ chunks[l][r] = "none"
        /\ Cardinality(ToRequest(l)) > 1 => ToRequest(l) \ {r} # {}
        /\ ~(Cardinality(ToRequest(l)) > 1) => ToRequest(l) \ {r} = {}
    BY <1>0, <2>0, NextIsTaken, ZenonT(60)
  <2>2. PICK next \in {"acquire", "wait"} :
           /\ pc' = [pc EXCEPT ![l] = next]
           /\ next = "acquire" => ToRequest(l) \ {r} # {}
           /\ next = "wait" => ToRequest(l) \ {r} = {}
    BY <1>3, <2>1, ZenonT(60) DEF StartRequest, Goto
  <2>3. /\ Free(config.downloads, allDownloads)
        /\ allDownloads' = Take(config.downloads, allDownloads)
        /\ chunks' = [chunks EXCEPT ![l][r] = "request"]
        /\ UNCHANGED <<cancelled, downloads, unpacks, allUnpacks>>
    BY <1>3, ZenonT(60) DEF StartRequest
  <2>4. /\ DOMAIN chunks = Layers /\ pc \in [Layers -> Phases]
        /\ chunks[l] \in [Requests(l) -> {"none", "request", "good", "bad", "short", "done"}]
    BY <1>0, ZenonT(60) DEF TypeOK, Phases
  <2>5. /\ DOMAIN chunks' = Layers /\ \A k \in Layers \ {l} : chunks'[k] = chunks[k] /\ pc'[k] = pc[k]
        /\ chunks'[l] = [chunks[l] EXCEPT ![r] = "request"] /\ pc'[l] = next
        /\ pc' \in [Layers -> Phases]
    BY <2>2, <2>3, <2>4, ZenonT(60) DEF Phases
  <2>6. \A k \in Layers : Requests(k)' = Requests(k)
    BY <1>1, ZenonT(60) DEF Requests, loops
  <2>7. /\ chunks'[l][r] = "request" /\ \A i \in Requests(l) \ {r} : chunks'[l][i] = chunks[l][i]
        /\ chunks'[l] \in [Requests(l) -> {"none", "request", "good", "bad", "short", "done"}]
    BY <2>1, <2>4, <2>5, ZenonT(60)
  <2>8. /\ r \notin InFlight(l) /\ InFlight(l)' = InFlight(l) \union {r}
        /\ \A k \in Layers \ {l} : InFlight(k)' = InFlight(k)
    <3>1. r \notin InFlight(l) /\ InFlight(l)' = InFlight(l) \union {r}
      BY <2>1, <2>6, <2>7, ZenonT(60) DEF InFlight
    <3>2. \A k \in Layers \ {l} : InFlight(k)' = InFlight(k)
      BY <2>5, <2>6, ZenonT(60) DEF InFlight
    <3> QED  BY <3>1, <3>2, ZenonT(60)
  <2>9. ToRequest(l)' = ToRequest(l) \ {r}
    <3>1. 0 \in Requests(l)
      BY <1>0, RequestsOf, ZenonT(60)
    <3> QED  BY <1>1, <2>6, <2>7, <3>1, ZenonT(60) DEF ToRequest
  <2>10. DownloadSide'
    BY <1>0, <1>1, <2>2, <2>3, <2>8, StartsRequest, ZenonT(60)
  <2>11. UnpackSide'
    <3>1. \A k \in Layers : StillU(k)
      BY <1>1, <2>5, ZenonT(60) DEF StillU, Leases, Unpacking
    <3> QED  BY <1>0, <1>1, <2>3, <3>1, UnpacksStay, ZenonT(60)
  <2>12. TypeOK'
    <3>1. \A k \in Layers : chunks'[k] \in [Requests(k)' -> {"none", "request", "good", "bad", "short", "done"}]
      <4> SUFFICES ASSUME NEW k \in Layers
                   PROVE  chunks'[k] \in [Requests(k) -> {"none", "request", "good", "bad", "short", "done"}]
        BY <2>6, ZenonT(60)
      <4>1. CASE k = l
        BY <4>1, <2>7, ZenonT(60)
      <4>2. CASE k # l
        BY <4>2, <1>0, <2>5, ZenonT(60) DEF TypeOK
      <4> QED  BY <4>1, <4>2, ZenonT(60)
    <3>2. /\ downloads' \in [Images -> Nat] /\ unpacks' \in [Images -> Nat]
          /\ allDownloads' \in Nat /\ allUnpacks' \in Nat
      BY <2>10, <2>11, ZenonT(60) DEF DownloadSide, UnpackSide
    <3> QED  BY <1>0, <1>1, <2>3, <2>5, <3>1, <3>2, ZenonT(60) DEF TypeOK, Phases
  <2>13. LayerInv(l)'
    <3>1. LayerInv(l)
      BY <1>0, ZenonT(60)
    <3>4. l \in ranged /\ l \notin failed =>
             \A i \in Requests(l) : chunks'[l][i] = "done" =>
                 \A b \in Bytes(config.chunkSize, i, Size[l]) : file[l][b] # "hole"
      <4>1. \A i \in Requests(l) : chunks'[l][i] = "done" => chunks[l][i] = "done"
        BY <2>7, ZenonT(60)
      <4> QED  BY <3>1, <4>1, ZenonT(60) DEF LayerInv, FetchInv
    <3>5. /\ pc'[l] \notin {"fetch", "initial"} /\ pc'[l] # "acquireGlobal"
          /\ pc'[l] \notin Reading
      BY <2>2, <2>5, ZenonT(60) DEF Reading
    <3>6. /\ pc'[l] = "acquire" => ToRequest(l)' # {}
          /\ pc'[l] = "wait" => ToRequest(l)' = {}
      BY <2>2, <2>5, <2>9, ZenonT(60)
    <3>2. FetchInv(l)'
      BY <1>1, <2>6, <3>4, <3>5, <3>6, ZenonT(60) DEF FetchInv
    <3>3. StoreInv(l)'
      BY <1>1, <2>5, <3>1, ZenonT(60) DEF LayerInv, StoreInv
    <3> QED  BY <3>2, <3>3, ZenonT(60) DEF LayerInv
  <2>14. \A k \in Layers : LayerInv(k)'
    <3>1. \A k \in Layers \ {l} : Same(k)
      BY <1>1, <2>5, ZenonT(60) DEF Same
    <3> QED  BY <1>0, <1>1, <2>13, <3>1, OthersKeep, ZenonT(60)
  <2> QED  BY <2>10, <2>11, <2>12, <2>14, ZenonT(60) DEF Inv
<1> QED  BY <1>2, <1>3, ZenonT(60)

\* A request of a layer goes on or ends: what a step of one does to the types,
\* to the other layers and to the permits for unpacking.
LEMMA RequestStep ==
    ASSUME Inv, NEW l \in Layers, NEW i \in Requests(l), NEW state \in {"good", "bad", "short", "done"},
           chunks' = [chunks EXCEPT ![l][i] = state], LayerInv(l)', DownloadSide',
           \A k \in Layers \ {l} : (k \in failed' <=> k \in failed) /\ file'[k] = file[k],
           failed' \subseteq Layers, DOMAIN file' = Layers,
           file'[l] \in [0 .. Size[l] - 1 -> {"hole", "good", "bad"}],
           UNCHANGED <<config, second, pc, local, ranged, storing, stored, cancelled>>,
           UNCHANGED <<unpacks, allUnpacks>>, faults' \in 0 .. MaxFaults
    PROVE  Inv'
<1>0. TypeOK /\ DownloadSide /\ UnpackSide /\ \A k \in Layers : LayerInv(k)
  BY ZenonT(60) DEF Inv
<1>1. UnpackSide'
  <2>1. \A k \in Layers : StillU(k)
    BY ZenonT(60) DEF StillU, Leases, Unpacking
  <2> QED  BY <1>0, <2>1, UnpacksStay, ZenonT(60)
<1>2. /\ DOMAIN chunks = Layers
      /\ chunks[l] \in [Requests(l) -> {"none", "request", "good", "bad", "short", "done"}]
  BY <1>0, ZenonT(60) DEF TypeOK
<1>3. /\ DOMAIN chunks' = Layers /\ \A k \in Layers \ {l} : chunks'[k] = chunks[k]
      /\ chunks'[l] \in [Requests(l) -> {"none", "request", "good", "bad", "short", "done"}]
  BY <1>2, ZenonT(60)
<1>4. \A k \in Layers : Requests(k)' = Requests(k)
  BY ZenonT(60) DEF Requests, loops
<1>5. TypeOK'
  <2>1. \A k \in Layers : chunks'[k] \in [Requests(k)' -> {"none", "request", "good", "bad", "short", "done"}]
    <3> SUFFICES ASSUME NEW k \in Layers
                 PROVE  chunks'[k] \in [Requests(k) -> {"none", "request", "good", "bad", "short", "done"}]
      BY <1>4, ZenonT(60)
    <3>1. CASE k = l
      BY <3>1, <1>3, ZenonT(60)
    <3>2. CASE k # l
      BY <3>2, <1>0, <1>3, ZenonT(60) DEF TypeOK
    <3> QED  BY <3>1, <3>2, ZenonT(60)
  <2>2. \A k \in Layers : file'[k] \in [0 .. Size[k] - 1 -> {"hole", "good", "bad"}]
    BY <1>0, ZenonT(60) DEF TypeOK
  <2>3. /\ downloads' \in [Images -> Nat] /\ unpacks' \in [Images -> Nat]
        /\ allDownloads' \in Nat /\ allUnpacks' \in Nat
    BY <1>1, ZenonT(60) DEF DownloadSide, UnpackSide
  <2> QED  BY <1>0, <1>3, <2>1, <2>2, <2>3, ZenonT(60) DEF TypeOK
<1>6. \A k \in Layers : LayerInv(k)'
  <2>1. \A k \in Layers \ {l} : Same(k)
    BY <1>3, ZenonT(60) DEF Same
  <2> QED  BY <1>0, <2>1, OthersKeep, ZenonT(60)
<1> QED  BY <1>1, <1>5, <1>6, ZenonT(60) DEF Inv

\* What becomes of the requests of a layer when one of them goes on or ends.
LEMMA RequestsNext ==
    ASSUME TypeOK, NEW l \in Layers, NEW i \in Requests(l), NEW state \in {"good", "bad", "short", "done"},
           chunks[l][i] \in {"request", "good", "bad", "short"}, config' = config, ranged' = ranged,
           chunks' = [chunks EXCEPT ![l][i] = state]
    PROVE  /\ chunks'[l][i] = state /\ \A j \in Requests(l) \ {i} : chunks'[l][j] = chunks[l][j]
           /\ i \in InFlight(l) /\ \A k \in Layers \ {l} : InFlight(k)' = InFlight(k)
           /\ InFlight(l)' = IF state = "done" THEN InFlight(l) \ {i} ELSE InFlight(l)
           /\ ToRequest(l)' = ToRequest(l)
           /\ Requests(l)' = Requests(l)
<1>1. /\ DOMAIN chunks = Layers
      /\ chunks[l] \in [Requests(l) -> {"none", "request", "good", "bad", "short", "done"}]
  BY ZenonT(60) DEF TypeOK
<1>2. /\ chunks'[l][i] = state /\ \A j \in Requests(l) \ {i} : chunks'[l][j] = chunks[l][j]
      /\ \A k \in Layers \ {l} : chunks'[k] = chunks[k]
  BY <1>1, ZenonT(60)
<1>3. \A k \in Layers : Requests(k)' = Requests(k)
  BY ZenonT(60) DEF Requests, loops
<1>4. \A k \in Layers \ {l} : InFlight(k)' = InFlight(k)
  BY <1>2, <1>3, ZenonT(60) DEF InFlight
<1>5. i \in InFlight(l) /\ InFlight(l)' = IF state = "done" THEN InFlight(l) \ {i} ELSE InFlight(l)
  BY <1>2, <1>3, ZenonT(60) DEF InFlight
<1>6. ToRequest(l)' = ToRequest(l)
  <2>1. 0 \in Requests(l)
    BY RequestsOf, ZenonT(60)
  <2> QED  BY <1>2, <1>3, <2>1, ZenonT(60) DEF ToRequest
<1> QED  BY <1>2, <1>3, <1>4, <1>5, <1>6, ZenonT(60)

\* The layer of a request under way is not read.
LEMMA BusyLayer ==
    ASSUME TypeOK, NEW l \in Layers, LayerInv(l), NEW i \in InFlight(l)
    PROVE  pc[l] \notin {"fetch", "initial"} /\ (pc[l] \in Reading => l \in local)
BY ZenonT(60) DEF LayerInv, FetchInv, InFlight

\* The registry answers a request.
LEMMA FetchRangeStep ==
    ASSUME Inv, NEW l \in Layers, NEW i \in Requests(l), FetchRange(l, i)
    PROVE  Inv'
<1>0. TypeOK /\ DownloadSide /\ LayerInv(l)
  BY ZenonT(60) DEF Inv
<1>1. /\ chunks[l][i] = "request"
      /\ UNCHANGED <<config, second, pc, local, ranged, file, storing, stored, cancelled>>
  BY ZenonT(60) DEF FetchRange
<1>2. chunks[l][i] \in {"request", "good", "bad", "short"}
  BY <1>1, ZenonT(60)
<1>3. /\ DOMAIN file' = Layers /\ file'[l] \in [0 .. Size[l] - 1 -> {"hole", "good", "bad"}]
      /\ failed \subseteq Layers /\ faults \in 0 .. MaxFaults
  BY <1>0, <1>1, ZenonT(60) DEF TypeOK
<1>4. CASE EndRequest(l, i, TRUE) /\ (Fault("request") \/ UNCHANGED faults)
  <2>1. /\ chunks' = [chunks EXCEPT ![l][i] = "done"] /\ failed' = failed \union {l}
        /\ ReleaseDownload(l) /\ UNCHANGED <<unpacks, allUnpacks>>
    BY <1>4, ZenonT(60) DEF EndRequest
  <2>2. /\ i \in InFlight(l) /\ \A k \in Layers \ {l} : InFlight(k)' = InFlight(k)
        /\ InFlight(l)' = InFlight(l) \ {i} /\ ToRequest(l)' = ToRequest(l) /\ Requests(l)' = Requests(l)
    BY <1>0, <1>1, <1>2, <2>1, RequestsNext, ZenonT(60)
  <2>3. pc[l] \notin {"fetch", "initial"} /\ (pc[l] \in Reading => l \in local)
    BY <1>0, <2>2, BusyLayer, ZenonT(60)
  <2>4. DownloadSide'
    BY <1>0, <1>1, <2>1, <2>2, EndsRequest, ZenonT(60)
  <2>5. LayerInv(l)'
    <3>1. FetchInv(l)'
      BY <1>0, <1>1, <2>1, <2>2, <2>3, ZenonT(60) DEF LayerInv, FetchInv
    <3>2. StoreInv(l)'
      BY <1>0, <1>1, ZenonT(60) DEF LayerInv, StoreInv, Intact
    <3> QED  BY <3>1, <3>2, ZenonT(60) DEF LayerInv
  <2>6. faults' \in 0 .. MaxFaults
    BY <1>0, <1>3, <1>4, FaultType, ZenonT(60)
  <2>7. failed' \subseteq Layers /\ \A k \in Layers \ {l} : (k \in failed' <=> k \in failed) /\ file'[k] = file[k]
    BY <1>1, <1>3, <2>1, ZenonT(60)
  <2> QED  BY <1>1, <1>3, <2>1, <2>4, <2>5, <2>6, <2>7, RequestStep, ZenonT(60)
<1>5. CASE /\ \E reply \in {"good", "bad", "short"} :
                 /\ chunks' = [chunks EXCEPT ![l][i] = reply]
                 /\ IF reply = "good" THEN UNCHANGED faults ELSE Fault(reply)
           /\ UNCHANGED <<failed, permits>>
  <2> PICK reply \in {"good", "bad", "short"} :
         /\ chunks' = [chunks EXCEPT ![l][i] = reply]
         /\ IF reply = "good" THEN UNCHANGED faults ELSE Fault(reply)
    BY <1>5, ZenonT(60)
  <2>1. /\ chunks'[l][i] = reply /\ \A j \in Requests(l) \ {i} : chunks'[l][j] = chunks[l][j]
        /\ i \in InFlight(l) /\ \A k \in Layers \ {l} : InFlight(k)' = InFlight(k)
        /\ InFlight(l)' = InFlight(l) /\ ToRequest(l)' = ToRequest(l) /\ Requests(l)' = Requests(l)
    BY <1>0, <1>1, <1>2, RequestsNext, ZenonT(60)
  <2>2. pc[l] \notin {"fetch", "initial"} /\ (pc[l] \in Reading => l \in local)
    BY <1>0, <2>1, BusyLayer, ZenonT(60)
  <2>3. /\ downloads' = downloads /\ allDownloads' = allDownloads
        /\ UNCHANGED <<unpacks, allUnpacks>>
    BY <1>5, ZenonT(60) DEF permits
  <2>4. DownloadSide'
    <3>1. \A k \in Layers : StillD(k)
      BY <1>1, <2>1, ZenonT(60) DEF StillD
    <3>2. cancelled \subseteq cancelled'
      BY <1>1, ZenonT(60)
    <3> QED  BY <1>0, <1>1, <2>3, <3>1, <3>2, DownloadsStay, ZenonT(60)
  <2>5. LayerInv(l)'
    <3>1. FetchInv(l)'
      BY <1>0, <1>1, <1>5, <2>1, <2>2, ZenonT(60) DEF LayerInv, FetchInv
    <3>2. StoreInv(l)'
      BY <1>0, <1>1, ZenonT(60) DEF LayerInv, StoreInv, Intact
    <3> QED  BY <3>1, <3>2, ZenonT(60) DEF LayerInv
  <2>6. faults' \in 0 .. MaxFaults
    BY <1>0, <1>3, FaultType, ZenonT(60)
  <2>7. failed' \subseteq Layers /\ \A k \in Layers \ {l} : (k \in failed' <=> k \in failed) /\ file'[k] = file[k]
    BY <1>1, <1>3, <1>5, ZenonT(60)
  <2> QED  BY <1>1, <1>3, <2>3, <2>4, <2>5, <2>6, <2>7, RequestStep, ZenonT(60)
<1> QED  BY <1>4, <1>5, ZenonT(60) DEF FetchRange

\* A write leaves no byte of the file unwritten that was written, and writes
\* all bytes of its range when it does not end in an error.
LEMMA WriteFacts ==
    ASSUME TypeOK, NEW l \in Layers, NEW i \in Requests(l), WriteRange(l, i)
    PROVE  /\ DOMAIN file' = Layers /\ \A k \in Layers \ {l} : file'[k] = file[k]
           /\ file'[l] \in [0 .. Size[l] - 1 -> {"hole", "good", "bad"}]
           /\ \A b \in 0 .. Size[l] - 1 : file[l][b] # "hole" => file'[l][b] # "hole"
           /\ l \in ranged /\ chunks[l][i] # "short" =>
                 \A b \in Bytes(config.chunkSize, i, Size[l]) \intersect (0 .. Size[l] - 1) : file'[l][b] # "hole"
<1> DEFINE new(b) ==
             IF b \in Written(l, i) /\ ~(chunks[l][i] = "short" /\ b = Max(Written(l, i)))
             THEN IF chunks[l][i] = "bad" THEN "bad" ELSE "good"
             ELSE file[l][b]
<1>1. DOMAIN file = Layers /\ file[l] \in [0 .. Size[l] - 1 -> {"hole", "good", "bad"}]
  BY ZenonT(60) DEF TypeOK
<1>2. file' = [file EXCEPT ![l] = [b \in DOMAIN file[l] |-> new(b)]]
  BY ZenonT(60) DEF WriteRange
<1>3. \A b : /\ file[l][b] \in {"hole", "good", "bad"} => new(b) \in {"hole", "good", "bad"}
             /\ file[l][b] # "hole" => new(b) # "hole"
             /\ b \in Written(l, i) /\ chunks[l][i] # "short" => new(b) # "hole"
  BY ZenonT(60)
<1> HIDE DEF new
<1>4. /\ DOMAIN file' = Layers /\ \A k \in Layers \ {l} : file'[k] = file[k]
      /\ file'[l] = [b \in 0 .. Size[l] - 1 |-> new(b)]
  BY <1>1, <1>2, ZenonT(60)
<1>5. file'[l] \in [0 .. Size[l] - 1 -> {"hole", "good", "bad"}]
  BY <1>1, <1>3, <1>4, ZenonT(60)
<1>6. \A b \in 0 .. Size[l] - 1 : file[l][b] # "hole" => file'[l][b] # "hole"
  BY <1>3, <1>4, SMTT(60), Z3T(60)
<1>7. l \in ranged => Written(l, i) = Bytes(config.chunkSize, i, Size[l])
  BY ZenonT(60) DEF Written
<1>8. ASSUME l \in ranged, chunks[l][i] # "short"
      PROVE  \A b \in Bytes(config.chunkSize, i, Size[l]) \intersect (0 .. Size[l] - 1) : file'[l][b] # "hole"
  <2> SUFFICES ASSUME NEW b \in Bytes(config.chunkSize, i, Size[l]), b \in 0 .. Size[l] - 1
               PROVE  file'[l][b] # "hole"
    BY ZenonT(60)
  <2>1. b \in Written(l, i)
    BY <1>7, <1>8, ZenonT(60)
  <2> QED  BY <1>3, <1>4, <1>8, <2>1, SMTT(60), Z3T(60)
<1> QED  BY <1>4, <1>5, <1>6, <1>8, ZenonT(60)

\* An answer is written and the permits are given back.
LEMMA WriteRangeStep ==
    ASSUME Inv, NEW l \in Layers, NEW i \in Requests(l), WriteRange(l, i)
    PROVE  Inv'
<1>0. TypeOK /\ DownloadSide /\ LayerInv(l)
  BY ZenonT(60) DEF Inv
<1>1. /\ chunks[l][i] \in {"request", "good", "bad", "short"}
      /\ UNCHANGED <<config, second, pc, local, ranged, storing, stored, cancelled, faults>>
  BY ZenonT(60) DEF WriteRange
<1>2. PICK error \in BOOLEAN :
         /\ EndRequest(l, i, error)
         /\ l \in ranged /\ chunks[l][i] = "short" => error
  <2>1. CASE EndRequest(l, i, l \in ranged /\ chunks[l][i] = "short")
    BY <2>1, ZenonT(60)
  <2>2. CASE EndRequest(l, i, TRUE)
    BY <2>2, ZenonT(60)
  <2> QED  BY <2>1, <2>2, ZenonT(60) DEF WriteRange
<1>3. /\ chunks' = [chunks EXCEPT ![l][i] = "done"]
      /\ failed' = IF error THEN failed \union {l} ELSE failed
      /\ ReleaseDownload(l) /\ UNCHANGED <<unpacks, allUnpacks>>
  BY <1>2, ZenonT(60) DEF EndRequest
<1>4. /\ chunks'[l][i] = "done" /\ \A j \in Requests(l) \ {i} : chunks'[l][j] = chunks[l][j]
      /\ i \in InFlight(l) /\ \A k \in Layers \ {l} : InFlight(k)' = InFlight(k)
      /\ InFlight(l)' = InFlight(l) \ {i} /\ ToRequest(l)' = ToRequest(l) /\ Requests(l)' = Requests(l)
  BY <1>0, <1>1, <1>3, RequestsNext, ZenonT(60)
<1>5. pc[l] \notin {"fetch", "initial"} /\ (pc[l] \in Reading => l \in local)
  BY <1>0, <1>4, BusyLayer, ZenonT(60)
<1>6. /\ DOMAIN file' = Layers /\ \A k \in Layers \ {l} : file'[k] = file[k]
      /\ file'[l] \in [0 .. Size[l] - 1 -> {"hole", "good", "bad"}]
      /\ \A b \in 0 .. Size[l] - 1 : file[l][b] # "hole" => file'[l][b] # "hole"
      /\ l \in ranged /\ chunks[l][i] # "short" =>
            \A b \in Bytes(config.chunkSize, i, Size[l]) \intersect (0 .. Size[l] - 1) : file'[l][b] # "hole"
  BY <1>0, WriteFacts, ZenonT(60)
<1>7. \A j \in Requests(l) : Bytes(config.chunkSize, j, Size[l]) \subseteq 0 .. Size[l] - 1
  <2>1. config.chunkSize \in Int /\ Size[l] \in Nat \ {0}
    BY <1>0, RequestsOf, ZenonT(60)
  <2> QED  BY <2>1, RangesPartition, ZenonT(60) DEF Requests, loops
<1>8. DownloadSide'
  BY <1>0, <1>1, <1>3, <1>4, EndsRequest, ZenonT(60)
<1>9. FetchInv(l)'
  <2>1. ASSUME l \in ranged', l \notin failed', NEW j \in Requests(l), chunks'[l][j] = "done",
               NEW b \in Bytes(config.chunkSize, j, Size[l])
        PROVE  file'[l][b] # "hole"
    <3>1. l \in ranged /\ l \notin failed /\ ~error /\ b \in 0 .. Size[l] - 1
      BY <1>1, <1>3, <1>7, <2>1, ZenonT(60)
    <3>2. CASE j = i
      BY <1>2, <1>6, <3>1, <3>2, ZenonT(60)
    <3>3. CASE j # i
      <4>1. chunks[l][j] = "done"
        BY <1>4, <2>1, <3>3, ZenonT(60)
      <4>2. file[l][b] # "hole"
        BY <1>0, <3>1, <4>1, ZenonT(60) DEF LayerInv, FetchInv
      <4> QED  BY <1>6, <3>1, <4>2, ZenonT(60)
    <3> QED  BY <3>2, <3>3, ZenonT(60)
  <2>2. config' = config /\ pc' = pc /\ local' = local
    BY <1>1, ZenonT(60)
  <2>3. (pc[l] \in {"acquire", "acquireGlobal"} => ToRequest(l) # {}) /\ (pc[l] = "wait" => ToRequest(l) = {})
    BY <1>0, ZenonT(60) DEF LayerInv, FetchInv
  <2> QED  BY <1>4, <1>5, <2>1, <2>2, <2>3, ZenonT(60) DEF FetchInv
<1>10. StoreInv(l)'
  BY <1>0, <1>1, <1>5, ZenonT(60) DEF LayerInv, StoreInv, Reading
<1>11. LayerInv(l)'
  BY <1>9, <1>10, ZenonT(60) DEF LayerInv
<1>12. /\ failed' \subseteq Layers /\ faults' \in 0 .. MaxFaults
       /\ \A k \in Layers \ {l} : (k \in failed' <=> k \in failed) /\ file'[k] = file[k]
  BY <1>0, <1>1, <1>3, <1>6, ZenonT(60) DEF TypeOK
<1> QED  BY <1>1, <1>3, <1>6, <1>8, <1>11, <1>12, RequestStep, ZenonT(60)

\* The requests of a layer have ended, or its context has.
LEMMA FetchEndsStep ==
    ASSUME Inv, NEW l \in Layers, FetchEnds(l)
    PROVE  Inv'
<1>0. TypeOK /\ LayerInv(l)
  BY ZenonT(60) DEF Inv
<1>1. /\ pc[l] = "wait" /\ UNCHANGED <<config, second, chunks, failed, file>>
      /\ UNCHANGED <<local, ranged, storing, stored>> /\ UNCHANGED <<permits, faults>>
  BY ZenonT(60) DEF FetchEnds
<1>2. faults' \in 0 .. MaxFaults
  BY <1>0, <1>1, ZenonT(60) DEF TypeOK
<1>3. CASE Fail(l)
  BY <1>1, <1>2, <1>3, FailsQuietly, ZenonT(60)
<1>4. CASE InFlight(l) = {} /\ l \notin failed /\ Goto(l, "lease") /\ cancelled' = cancelled
  <2>1. Moves(l, "lease")
    BY <1>1, <1>4, ZenonT(60) DEF Moves, Phases, Goto
  <2>2. pc'[l] = "lease" /\ Requests(l)' = Requests(l) /\ InFlight(l)' = InFlight(l)
    BY <1>0, <2>1, MovesFacts, ZenonT(60)
  <2>3. l \in ranged => \A i \in Requests(l) : chunks[l][i] = "done"
    <3>1. ToRequest(l) = {}
      BY <1>0, <1>1, ZenonT(60) DEF LayerInv, FetchInv
    <3> QED  BY <1>4, <3>1, ZenonT(60) DEF ToRequest, InFlight
  <2>4. FetchInv(l)'
    BY <1>0, <1>1, <1>4, <2>2, <2>3, ZenonT(60) DEF LayerInv, FetchInv
  <2>5. StoreInv(l)'
    BY <1>0, <1>1, <2>2, ZenonT(60) DEF LayerInv, StoreInv
  <2>6. LayerInv(l)'
    BY <2>4, <2>5, ZenonT(60) DEF LayerInv
  <2>7. /\ local' \subseteq Layers /\ ranged' \subseteq Layers
        /\ \A k \in Layers \ {l} : (k \in local' <=> k \in local) /\ (k \in ranged' <=> k \in ranged)
    BY <1>0, <1>1, ZenonT(60) DEF TypeOK
  <2> QED  BY <1>1, <1>4, <2>1, <2>6, <2>7, QuietMove, ZenonT(60)
<1> QED  BY <1>3, <1>4, ZenonT(60) DEF FetchEnds

\* A layer moves on and only permits for unpacking are involved.
LEMMA UnpackMove ==
    ASSUME Inv, NEW l \in Layers, NEW next, Moves(l, next), LayerInv(l)', UnpackSide',
           pc[l] # "acquireGlobal", next # "acquireGlobal",
           UNCHANGED <<local, ranged, stored, downloads, allDownloads>>,
           cancelled \subseteq cancelled', cancelled' \subseteq Images, faults' \in 0 .. MaxFaults,
           storing' \in [Layers -> {"none", "running", "ok", "error"}],
           \A k \in Layers \ {l} : storing'[k] = storing[k]
    PROVE  Inv'
<1>0. TypeOK /\ DownloadSide /\ \A k \in Layers : LayerInv(k)
  BY ZenonT(60) DEF Inv
<1>1. /\ config' = config /\ pc'[l] = next /\ \A k \in Layers : InFlight(k)' = InFlight(k)
      /\ \A k \in Layers \ {l} : pc'[k] = pc[k]
  BY <1>0, MovesFacts, ZenonT(60) DEF Moves
<1>2. \A k \in Layers : StillD(k)
  BY <1>1, ZenonT(60) DEF StillD
<1>3. DownloadSide'
  BY <1>0, <1>1, <1>2, DownloadsStay, ZenonT(60)
<1>4. local' \subseteq Layers /\ ranged' \subseteq Layers /\ stored' \subseteq Blobs
  BY <1>0, ZenonT(60) DEF TypeOK
<1>5. TypeOK'
  BY <1>0, <1>3, <1>4, MovesTypes, ZenonT(60)
<1>6. \A k \in Layers : LayerInv(k)'
  BY <1>0, MovesOthers, ZenonT(60)
<1> QED  BY <1>3, <1>5, <1>6, ZenonT(60) DEF Inv

\* A layer takes the unpack permit of its image ...
LEMMA AcquireUnpackLeaseStep ==
    ASSUME Inv, NEW l \in Layers, AcquireUnpackLease(l)
    PROVE  Inv'
<1>0. TypeOK /\ UnpackSide /\ LayerInv(l)
  BY ZenonT(60) DEF Inv
<1>1. /\ pc[l] = "lease" /\ UNCHANGED <<config, second, chunks, failed, file>>
      /\ UNCHANGED <<local, ranged, storing, stored>> /\ UNCHANGED faults
  BY ZenonT(60) DEF AcquireUnpackLease
<1>2. /\ faults' \in 0 .. MaxFaults /\ storing' \in [Layers -> {"none", "running", "ok", "error"}]
      /\ cancelled \subseteq Images
  BY <1>0, <1>1, ZenonT(60) DEF TypeOK
<1>3. CASE Refused(config.unpacksPerImage, l)
  <2>1. Fail(l) /\ UNCHANGED permits
    BY <1>3, ZenonT(60) DEF AcquireUnpackLease
  <2> QED  BY <1>1, <1>2, <2>1, FailsQuietly, ZenonT(60)
<1>4. CASE ~Refused(config.unpacksPerImage, l)
  <2>1. /\ Free(config.unpacksPerImage, unpacks[image(l)])
        /\ unpacks' = [unpacks EXCEPT ![image(l)] = Take(config.unpacksPerImage, @)]
        /\ Goto(l, "leaseGlobal")
        /\ UNCHANGED <<cancelled, downloads, allDownloads, allUnpacks>>
    BY <1>4, ZenonT(60) DEF AcquireUnpackLease
  <2>2. Moves(l, "leaseGlobal")
    BY <1>1, <2>1, ZenonT(60) DEF Moves, Phases, Goto
  <2>3. pc'[l] = "leaseGlobal" /\ Requests(l)' = Requests(l) /\ InFlight(l)' = InFlight(l)
    BY <1>0, <2>2, MovesFacts, ZenonT(60)
  <2>4. UnpackSide'
    BY <1>0, <1>1, <2>1, TakesLease, ZenonT(60) DEF Goto
  <2>5. LayerInv(l)'
    <3>1. FetchInv(l)'
      BY <1>0, <1>1, <2>3, ZenonT(60) DEF LayerInv, FetchInv, Reading
    <3>2. StoreInv(l)'
      BY <1>0, <1>1, <2>3, ZenonT(60) DEF LayerInv, StoreInv
    <3> QED  BY <3>1, <3>2, ZenonT(60) DEF LayerInv
  <2> QED  BY <1>1, <1>2, <2>1, <2>2, <2>4, <2>5, UnpackMove, ZenonT(60)
<1> QED  BY <1>3, <1>4, ZenonT(60)

\* ... and the other one, and its unpacking starts.
LEMMA StartUnpackStep ==
    ASSUME Inv, NEW l \in Layers, StartUnpack(l)
    PROVE  Inv'
<1>0. TypeOK /\ UnpackSide /\ LayerInv(l)
  BY ZenonT(60) DEF Inv
<1>1. /\ pc[l] = "leaseGlobal" /\ UNCHANGED <<config, second, chunks, failed, file>>
      /\ UNCHANGED <<local, ranged, stored, downloads, allDownloads>> /\ UNCHANGED faults
  BY ZenonT(60) DEF StartUnpack
<1>2. /\ faults' \in 0 .. MaxFaults /\ storing \in [Layers -> {"none", "running", "ok", "error"}]
      /\ cancelled \subseteq Images
  BY <1>0, <1>1, ZenonT(60) DEF TypeOK
<1>3. CASE Refused(config.unpacks, l)
  <2>1. /\ unpacks' = [unpacks EXCEPT ![image(l)] = Give(config.unpacksPerImage, @)]
        /\ Fail(l) /\ UNCHANGED <<allUnpacks, storing>>
    BY <1>3, ZenonT(60) DEF StartUnpack
  <2>2. /\ Moves(l, "failed") /\ cancelled \subseteq cancelled' /\ cancelled' \subseteq Images
    BY <1>0, <1>1, <2>1, FailFacts, ZenonT(60)
  <2>3. LayerInv(l)'
    BY <1>0, <1>1, <2>1, <2>2, FailedLayer, ZenonT(60)
  <2>4. UnpackSide'
    BY <1>0, <1>1, <2>1, <2>2, DropsLease, ZenonT(60) DEF Moves
  <2> QED  BY <1>1, <1>2, <2>1, <2>2, <2>3, <2>4, UnpackMove, ZenonT(60)
<1>4. CASE ~Refused(config.unpacks, l)
  <2>1. /\ Free(config.unpacks, allUnpacks)
        /\ allUnpacks' = Take(config.unpacks, allUnpacks)
        /\ Goto(l, "apply") /\ UNCHANGED <<cancelled, unpacks>>
        /\ storing' = IF l \in local \/ config.discard THEN storing ELSE [storing EXCEPT ![l] = "running"]
    BY <1>4, ZenonT(60) DEF StartUnpack
  <2>2. Moves(l, "apply")
    BY <1>1, <2>1, ZenonT(60) DEF Moves, Phases, Goto
  <2>3. pc'[l] = "apply" /\ Requests(l)' = Requests(l) /\ InFlight(l)' = InFlight(l)
    BY <1>0, <2>2, MovesFacts, ZenonT(60)
  <2>4. UnpackSide'
    BY <1>0, <1>1, <2>1, StartsUnpack, ZenonT(60) DEF Goto
  <2>5. /\ storing' \in [Layers -> {"none", "running", "ok", "error"}]
        /\ \A k \in Layers \ {l} : storing'[k] = storing[k]
        /\ l \in local \/ config.discard => storing' = storing
        /\ l \notin local /\ ~config.discard => storing'[l] = "running"
    BY <1>2, <2>1, ZenonT(60)
  <2>6. LayerInv(l)'
    <3>1. FetchInv(l)'
      BY <1>0, <1>1, <2>3, ZenonT(60) DEF LayerInv, FetchInv, Reading
    <3>2. StoreInv(l)'
      BY <1>0, <1>1, <2>3, <2>5, ZenonT(60) DEF LayerInv, StoreInv
    <3> QED  BY <3>1, <3>2, ZenonT(60) DEF LayerInv
  <2> QED  BY <1>1, <1>2, <2>1, <2>2, <2>4, <2>5, <2>6, UnpackMove, ZenonT(60)
<1> QED  BY <1>3, <1>4, ZenonT(60)

\* An unpack that fails gives back both permits.
LEMMA UnpackFails ==
    ASSUME Inv, NEW l \in Layers, Unpacking(l), Fail(l), release(l), faults' \in 0 .. MaxFaults,
           UNCHANGED <<config, second, chunks, failed, file>>, UNCHANGED <<local, ranged, storing, stored>>
    PROVE  Inv'
<1>0. TypeOK /\ UnpackSide /\ LayerInv(l)
  BY ZenonT(60) DEF Inv
<1>1. /\ Moves(l, "failed") /\ cancelled \subseteq cancelled' /\ cancelled' \subseteq Images
  BY <1>0, FailFacts, ZenonT(60)
<1>2. LayerInv(l)'
  BY <1>0, <1>1, FailedLayer, ZenonT(60)
<1>3. UnpackSide'
  <2>1. "failed" \in {"ok", "failed"}
    BY ZenonT(60)
  <2> QED  BY <1>0, <1>1, <2>1, GivesBoth, ZenonT(60) DEF Moves
<1>4. UNCHANGED <<downloads, allDownloads>> /\ pc[l] # "acquireGlobal"
  BY ZenonT(60) DEF release, Unpacking
<1>5. storing' \in [Layers -> {"none", "running", "ok", "error"}]
  BY <1>0, ZenonT(60) DEF TypeOK
<1> QED  BY <1>1, <1>2, <1>3, <1>4, <1>5, UnpackMove, ZenonT(60)

\* The layer is applied and verified.
LEMMA ApplyStep ==
    ASSUME Inv, NEW l \in Layers, Apply(l)
    PROVE  Inv'
<1>0. TypeOK /\ LayerInv(l)
  BY ZenonT(60) DEF Inv
<1>1. /\ pc[l] = "apply" /\ UNCHANGED <<config, second, chunks, failed, file>>
      /\ UNCHANGED <<local, ranged, storing, stored>>
  BY ZenonT(60) DEF Apply
<1>2. CASE Fail(l) /\ release(l) /\ (UNCHANGED faults \/ Fault("file"))
  <2>1. faults' \in 0 .. MaxFaults
    BY <1>0, <1>2, FaultType, ZenonT(60) DEF TypeOK
  <2>2. Unpacking(l)
    BY <1>1, ZenonT(60) DEF Unpacking
  <2> QED  BY <1>1, <1>2, <2>1, <2>2, UnpackFails, ZenonT(60)
<1>3. CASE Verified(l) /\ Goto(l, "stored") /\ UNCHANGED <<permits, cancelled, faults>>
  <2>1. Moves(l, "stored")
    BY <1>1, <1>3, ZenonT(60) DEF Moves, Phases, Goto
  <2>2. pc'[l] = "stored" /\ Requests(l)' = Requests(l) /\ InFlight(l)' = InFlight(l)
    BY <1>0, <2>1, MovesFacts, ZenonT(60)
  <2>3. FetchInv(l)'
    BY <1>0, <1>1, <2>2, ZenonT(60) DEF LayerInv, FetchInv, Reading
  <2>4. StoreInv(l)'
    BY <1>0, <1>1, <1>3, <2>2, ZenonT(60) DEF LayerInv, StoreInv, Verified, Intact
  <2>5. LayerInv(l)'
    BY <2>3, <2>4, ZenonT(60) DEF LayerInv
  <2>6. /\ local' \subseteq Layers /\ ranged' \subseteq Layers
        /\ \A k \in Layers \ {l} : (k \in local' <=> k \in local) /\ (k \in ranged' <=> k \in ranged)
    BY <1>0, <1>1, ZenonT(60) DEF TypeOK
  <2> QED  BY <1>1, <1>3, <2>1, <2>5, <2>6, QuietMove, ZenonT(60)
<1> QED  BY <1>2, <1>3, ZenonT(60) DEF Apply

\* The unpacking ends, with the storage of the layer.
LEMMA UnpackEndsStep ==
    ASSUME Inv, NEW l \in Layers, UnpackEnds(l)
    PROVE  Inv'
<1>0. TypeOK /\ UnpackSide /\ LayerInv(l)
  BY ZenonT(60) DEF Inv
<1>1. /\ pc[l] = "stored" /\ storing[l] # "running" /\ release(l)
      /\ UNCHANGED <<config, second, chunks, failed, file>>
      /\ UNCHANGED <<local, ranged, storing, stored>> /\ UNCHANGED faults
  BY ZenonT(60) DEF UnpackEnds
<1>2. /\ faults' \in 0 .. MaxFaults /\ storing' \in [Layers -> {"none", "running", "ok", "error"}]
      /\ cancelled \subseteq Images
  BY <1>0, <1>1, ZenonT(60) DEF TypeOK
<1>3. Unpacking(l)
  BY <1>1, ZenonT(60) DEF Unpacking
<1>4. CASE Fail(l)
  BY <1>1, <1>2, <1>3, <1>4, UnpackFails, ZenonT(60)
<1>5. CASE storing[l] # "error" /\ Goto(l, "ok") /\ UNCHANGED cancelled
  <2>1. Moves(l, "ok")
    BY <1>1, <1>5, ZenonT(60) DEF Moves, Phases, Goto
  <2>2. pc'[l] = "ok" /\ Requests(l)' = Requests(l) /\ InFlight(l)' = InFlight(l)
    BY <1>0, <2>1, MovesFacts, ZenonT(60)
  <2>3. FetchInv(l)'
    BY <1>0, <1>1, <2>2, ZenonT(60) DEF LayerInv, FetchInv, Reading
  <2>4. StoreInv(l)'
    <3>1. storing[l] \in {"none", "running", "ok", "error"}
      BY <1>0, ZenonT(60) DEF TypeOK
    <3> QED  BY <1>0, <1>1, <1>5, <2>2, <3>1, ZenonT(60) DEF LayerInv, StoreInv, Intact
  <2>5. LayerInv(l)'
    BY <2>3, <2>4, ZenonT(60) DEF LayerInv
  <2>6. UnpackSide'
    <3>1. "ok" \in {"ok", "failed"}
      BY ZenonT(60)
    <3> QED  BY <1>0, <1>1, <1>3, <2>1, <3>1, GivesBoth, ZenonT(60) DEF Moves
  <2>7. UNCHANGED <<downloads, allDownloads>>
    BY <1>1, ZenonT(60) DEF release
  <2> QED  BY <1>1, <1>2, <1>5, <2>1, <2>5, <2>6, <2>7, UnpackMove, ZenonT(60)
<1> QED  BY <1>4, <1>5, ZenonT(60) DEF UnpackEnds

\* A step that changes neither the phase nor the requests of a layer.
LEMMA PermitsStay ==
    ASSUME Inv, UNCHANGED <<config, second, pc, chunks>>, UNCHANGED permits, cancelled \subseteq cancelled'
    PROVE  DownloadSide' /\ UnpackSide'
<1>1. DownloadSide /\ UnpackSide
  BY ZenonT(60) DEF Inv
<1>2. \A k \in Layers : InFlight(k)' = InFlight(k)
  BY ZenonT(60) DEF InFlight, Requests, loops
<1>3. \A k \in Layers : StillD(k) /\ StillU(k)
  BY <1>2, ZenonT(60) DEF StillD, StillU, Leases, Unpacking
<1>4. downloads' = downloads /\ allDownloads' = allDownloads /\ unpacks' = unpacks /\ allUnpacks' = allUnpacks
  BY ZenonT(60) DEF permits
<1>5. DownloadSide'
  BY <1>1, <1>3, <1>4, DownloadsStay, ZenonT(60)
<1>6. UnpackSide'
  BY <1>1, <1>3, <1>4, UnpacksStay, ZenonT(60)
<1> QED  BY <1>5, <1>6, ZenonT(60)

\* The goroutine that stores the layer ends.
LEMMA StoreStep ==
    ASSUME Inv, NEW l \in Layers, Store(l)
    PROVE  Inv'
<1>0. TypeOK /\ \A k \in Layers : LayerInv(k)
  BY ZenonT(60) DEF Inv
<1>1. /\ storing[l] = "running"
      /\ UNCHANGED <<config, second, pc, local, ranged, chunks, failed, file, cancelled, permits>>
  BY ZenonT(60) DEF Store
<1>2. PICK result \in {"ok", "error"} :
         /\ storing' = [storing EXCEPT ![l] = result]
         /\ stored' = IF result = "ok" THEN stored \union {Digest[l]} ELSE stored
         /\ UNCHANGED faults \/ Fault("file")
  BY ZenonT(60) DEF Store
<1>3. /\ storing' \in [Layers -> {"none", "running", "ok", "error"}] /\ storing'[l] = result
      /\ \A k \in Layers \ {l} : storing'[k] = storing[k]
  BY <1>0, <1>2, ZenonT(60) DEF TypeOK
<1>4. DownloadSide' /\ UnpackSide'
  BY <1>1, PermitsStay, ZenonT(60)
<1>5. TypeOK'
  <2>0. stored \subseteq Blobs /\ Digest[l] \in Blobs
    BY <1>0, ZenonT(60) DEF TypeOK, Blobs
  <2>1. stored' \subseteq Blobs /\ faults' \in 0 .. MaxFaults
    BY <1>0, <1>2, <2>0, FaultType, ZenonT(60) DEF TypeOK
  <2>2. /\ downloads' \in [Images -> Nat] /\ unpacks' \in [Images -> Nat]
        /\ allDownloads' \in Nat /\ allUnpacks' \in Nat
    BY <1>4, ZenonT(60) DEF DownloadSide, UnpackSide
  <2>3. \A k \in Layers : Requests(k)' = Requests(k)
    BY <1>1, ZenonT(60) DEF Requests, loops
  <2> QED  BY <1>0, <1>1, <1>3, <2>1, <2>2, <2>3, ZenonT(60) DEF TypeOK
<1>6. LayerInv(l)'
  <2>1. LayerInv(l)
    BY <1>0, ZenonT(60)
  <2>2. Requests(l)' = Requests(l)
    BY <1>1, ZenonT(60) DEF Requests, loops
  <2>3. FetchInv(l)'
    BY <1>1, <2>1, <2>2, ZenonT(60) DEF LayerInv, FetchInv, ToRequest, InFlight
  <2>4. StoreInv(l)'
    BY <1>1, <1>2, <1>3, <2>1, ZenonT(60) DEF LayerInv, StoreInv, Intact
  <2> QED  BY <2>3, <2>4, ZenonT(60) DEF LayerInv
<1>7. \A k \in Layers : LayerInv(k)'
  <2>1. \A k \in Layers \ {l} : Same(k)
    BY <1>1, <1>2, <1>3, ZenonT(60) DEF Same
  <2> QED  BY <1>0, <1>1, <1>6, <2>1, OthersKeep, ZenonT(60)
<1> QED  BY <1>4, <1>5, <1>7, ZenonT(60) DEF Inv

\* An image is removed, or its jobs expire.
LEMMA CleanImageStep ==
    ASSUME Inv, NEW i \in Images, CleanImage(i)
    PROVE  Inv'
<1>0. TypeOK /\ \A k \in Layers : LayerInv(k)
  BY ZenonT(60) DEF Inv
<1>1. /\ Fault("clean") /\ cancelled' = cancelled \union {i}
      /\ UNCHANGED <<config, second, pc, local, ranged, chunks, failed, file, storing, stored, permits>>
  BY ZenonT(60) DEF CleanImage
<1>2. DownloadSide' /\ UnpackSide'
  BY <1>1, PermitsStay, ZenonT(60)
<1>3. TypeOK'
  <2>1. cancelled' \subseteq Images /\ faults' \in 0 .. MaxFaults
    BY <1>0, <1>1, FaultType, ZenonT(60) DEF TypeOK
  <2>2. /\ downloads' \in [Images -> Nat] /\ unpacks' \in [Images -> Nat]
        /\ allDownloads' \in Nat /\ allUnpacks' \in Nat
    BY <1>2, ZenonT(60) DEF DownloadSide, UnpackSide
  <2>3. \A k \in Layers : Requests(k)' = Requests(k)
    BY <1>1, ZenonT(60) DEF Requests, loops
  <2> QED  BY <1>0, <1>1, <2>1, <2>2, <2>3, ZenonT(60) DEF TypeOK
<1>4. \A k \in Layers : LayerInv(k)'
  <2>1. \A k \in Layers : Same(k)
    BY <1>1, ZenonT(60) DEF Same
  <2> QED  BY <1>0, <1>1, <2>1, LayerFrame, ZenonT(60)
<1> QED  BY <1>2, <1>3, <1>4, ZenonT(60) DEF Inv

-----------------------------------------------------------------------------
(* The theorems.                                                           *)

\* Before the first pull.
LEMMA InitInv == Init => Inv
<1> SUFFICES ASSUME Init PROVE Inv
  BY ZenonT(60)
<1>1. /\ config \in Configs /\ second \subseteq Second /\ stored \subseteq Present
      /\ pc = [l \in Layers |-> "fetch"] /\ local = {} /\ ranged = {} /\ failed = {}
      /\ chunks = [l \in Layers |-> [i \in Requests(l) |-> "none"]]
      /\ file = [l \in Layers |-> [b \in 0 .. Size[l] - 1 |-> "hole"]]
      /\ storing = [l \in Layers |-> "none"] /\ cancelled = {} /\ faults = 0
      /\ downloads = [i \in Images |-> 0] /\ allDownloads = 0
      /\ unpacks = [i \in Images |-> 0] /\ allUnpacks = 0
  BY ZenonT(60) DEF Init
<1>2. TypeOK
  <2>1. stored \subseteq Blobs
    BY <1>1, ZenonT(60) DEF Blobs
  <2> QED  BY <1>1, <2>1, LayerDownloadsAssumption, SMTT(60), Z3T(60) DEF TypeOK
<1>3. \A l \in Layers : InFlight(l) = {} /\ pc[l] = "fetch" /\ storing[l] = "none"
                        /\ \A i \in Requests(l) : chunks[l][i] = "none"
  BY <1>1, ZenonT(60) DEF InFlight
<1>4. \A S : S \subseteq Layers => Holding(S) = {}
  BY <1>3, HoldingIs, ZenonT(60)
<1>5. IsFiniteSet({}) /\ Cardinality({}) = 0
  BY FS_EmptySet, ZenonT(60)
<1>6. DownloadSide
  <2>1. Holding(Layers) = {} /\ \A i \in Images : Holding(Of(i)) = {} /\ Acquiring(i) = {}
    BY <1>3, <1>4, ZenonT(60) DEF Of, Acquiring
  <2>2. config.downloads \in Int /\ config.downloadsPerImage \in Int
    BY <1>2, ConfigIs, ZenonT(60)
  <2>3. downloads \in [Images -> Nat] /\ allDownloads \in Nat /\ \A i \in Images : downloads[i] = 0
    BY <1>1, ZenonT(60)
  <2>4. AllDownloadInv
    BY <1>1, <1>5, <2>1, <2>2, SMTT(60), Z3T(60) DEF AllDownloadInv, unlimited
  <2>5. ASSUME NEW i \in Images PROVE DownloadInv(i)
    <3>1. IsFiniteSet(Holding(Of(i))) /\ Cardinality(Holding(Of(i))) = 0 /\ Cardinality(Acquiring(i)) = 0
      BY <1>5, <2>1, ZenonT(60)
    <3>2. downloads[i] = 0
      BY <2>3, ZenonT(60)
    <3> QED  BY <2>2, <3>1, <3>2, SMTT(60), Z3T(60) DEF DownloadInv, unlimited
  <2> QED  BY <2>3, <2>4, <2>5, ZenonT(60) DEF DownloadSide
<1>7. UnpackSide
  <2>1. UnpackingAll = {} /\ \A i \in Images : Leased(i) = {}
    BY <1>3, ZenonT(60) DEF Of, Leased, Leases, Unpacking, UnpackingAll
  <2>2. config.unpacks \in Int /\ config.unpacksPerImage \in Int
    BY <1>2, ConfigIs, ZenonT(60)
  <2>3. unpacks \in [Images -> Nat] /\ allUnpacks \in Nat /\ \A i \in Images : unpacks[i] = 0
    BY <1>1, ZenonT(60)
  <2>4. AllUnpackInv
    BY <1>1, <1>5, <2>1, <2>2, SMTT(60), Z3T(60) DEF AllUnpackInv, unlimited
  <2>5. ASSUME NEW i \in Images PROVE UnpackInv(i)
    <3>1. Cardinality(Leased(i)) = 0
      BY <1>5, <2>1, ZenonT(60)
    <3>2. unpacks[i] = 0
      BY <2>3, ZenonT(60)
    <3> QED  BY <2>2, <3>1, <3>2, SMTT(60), Z3T(60) DEF UnpackInv, unlimited
  <2> QED  BY <2>3, <2>4, <2>5, ZenonT(60) DEF UnpackSide
<1>8. \A l \in Layers : LayerInv(l)
  BY <1>1, <1>3, ZenonT(60) DEF LayerInv, FetchInv, StoreInv, Reading
<1> QED  BY <1>2, <1>6, <1>7, <1>8, ZenonT(60) DEF Inv

\* A step of nothing that is modelled here.
LEMMA StutterInv ==
    ASSUME Inv, UNCHANGED vars
    PROVE  Inv'
<1>0. TypeOK /\ \A k \in Layers : LayerInv(k)
  BY ZenonT(60) DEF Inv
<1>1. UNCHANGED <<config, second, pc, local, ranged, chunks, failed, file, storing, stored, cancelled, permits, faults>>
  BY ZenonT(60) DEF vars
<1>2. DownloadSide' /\ UnpackSide'
  <2>1. cancelled \subseteq cancelled'
    BY <1>1, ZenonT(60)
  <2> QED  BY <1>1, <2>1, PermitsStay, ZenonT(60)
<1>3. TypeOK'
  <2>1. \A k \in Layers : Requests(k)' = Requests(k)
    BY <1>1, ZenonT(60) DEF Requests, loops
  <2>2. /\ downloads' \in [Images -> Nat] /\ unpacks' \in [Images -> Nat]
        /\ allDownloads' \in Nat /\ allUnpacks' \in Nat
    BY <1>2, ZenonT(60) DEF DownloadSide, UnpackSide
  <2> QED  BY <1>0, <1>1, <2>1, <2>2, ZenonT(60) DEF TypeOK
<1>4. \A k \in Layers : LayerInv(k)'
  <2>1. \A k \in Layers : Same(k)
    BY <1>1, ZenonT(60) DEF Same
  <2> QED  BY <1>0, <1>1, <2>1, LayerFrame, ZenonT(60)
<1> QED  BY <1>2, <1>3, <1>4, ZenonT(60) DEF Inv

\* Every step.
LEMMA NextInv ==
    ASSUME Inv, [Next]_vars
    PROVE  Inv'
<1>1. ASSUME NEW l \in Layers, Premount(l) PROVE Inv'
  BY <1>1, FetchLocalStep, doInitialFetchStep, AcquireDownloadStep, StartRequestStep, FetchEndsStep,
     AcquireUnpackLeaseStep, StartUnpackStep, ApplyStep, StoreStep, UnpackEndsStep, ZenonT(60) DEF Premount
<1>2. ASSUME NEW l \in Layers, IngestFails(l) PROVE Inv'
  BY <1>2, IngestFailsStep, ZenonT(60)
<1>3. ASSUME NEW l \in Layers, NEW i \in Requests(l), FetchRange(l, i) \/ WriteRange(l, i) PROVE Inv'
  BY <1>3, FetchRangeStep, WriteRangeStep, ZenonT(60)
<1>4. ASSUME NEW i \in Images, CleanImage(i) PROVE Inv'
  BY <1>4, CleanImageStep, ZenonT(60)
<1>5. CASE UNCHANGED vars
  BY <1>5, StutterInv, ZenonT(60)
<1> QED  BY <1>1, <1>2, <1>3, <1>4, <1>5, ZenonT(60) DEF Next

\* The invariant holds throughout every pull.
THEOREM InvHolds == Spec => []Inv
BY InitInv, NextInv, PTL DEF Spec

\* The goroutines of premount keep the types of the state they share.
THEOREM Typing == Spec => []TypeOK
<1>1. Inv => TypeOK
  BY ZenonT(60) DEF Inv
<1> QED  BY <1>1, InvHolds, PTL, ZenonT(60)

\* The limiters count what they should: the limits hold, permits are neither
\* lost nor given back twice, but for the one that a cancelled layer leaves with
\* its image, whatever way requests and unpacks end (fs/
\* adaptive_fetch_image_layers.go, AcquireDownload, ReleaseDownload and
\* AcquireUnpackLease).
THEOREM PermitsAreCounted == Spec => []PermitsAreHeld
<1>1. ASSUME Inv PROVE PermitsAreHeld
  <2>1. TypeOK /\ DownloadSide /\ UnpackSide
    BY <1>1, ZenonT(60) DEF Inv
  <2>2. /\ config.downloads \in Int /\ config.downloadsPerImage \in Int
        /\ config.unpacks \in Int /\ config.unpacksPerImage \in Int
    BY <2>1, ConfigIs, ZenonT(60)
  <2>3. /\ config.downloads > unlimited =>
              allDownloads = Cardinality(Holding(Layers)) /\ allDownloads <= config.downloads
        /\ config.unpacks > unlimited =>
              allUnpacks = Cardinality({l \in Layers : Unpacking(l)}) /\ allUnpacks <= config.unpacks
    BY <2>1, ZenonT(60) DEF DownloadSide, UnpackSide, AllDownloadInv, AllUnpackInv, UnpackingAll
  <2>4. ASSUME NEW i \in Images
        PROVE  /\ Within(config.downloadsPerImage, Cardinality(Holding(Of(i))))
               /\ config.downloadsPerImage > unlimited /\ (i \notin cancelled \/ config.downloads <= unlimited) =>
                     downloads[i] = Cardinality(Holding(Of(i))) + Cardinality({l \in Of(i) : pc[l] = "acquireGlobal"})
    <3>1. DownloadInv(i) /\ downloads[i] \in Nat
      BY <2>1, ZenonT(60) DEF DownloadSide
    <3>2. Cardinality(Holding(Of(i))) \in Nat /\ Cardinality(Acquiring(i)) \in Nat
      BY <3>1, FS_CardinalityType, LayersAreFinite, ZenonT(60) DEF DownloadInv, Acquiring, Of
    <3>3. Acquiring(i) = {l \in Of(i) : pc[l] = "acquireGlobal"}
      BY ZenonT(60) DEF Acquiring
    <3> QED  BY <2>2, <3>1, <3>2, <3>3, SMTT(60), Z3T(60) DEF DownloadInv, Within, unlimited
  <2>5. ASSUME NEW i \in Images
        PROVE  /\ Within(config.unpacksPerImage, Cardinality({l \in Of(i) : Unpacking(l)}))
               /\ config.unpacksPerImage > unlimited =>
                     unpacks[i] = Cardinality({l \in Of(i) : Unpacking(l) \/ pc[l] = "leaseGlobal"})
    <3> DEFINE U == {l \in Of(i) : Unpacking(l)}
    <3>1. UnpackInv(i)
      BY <2>1, ZenonT(60) DEF UnpackSide
    <3>2. Leased(i) = {l \in Of(i) : Unpacking(l) \/ pc[l] = "leaseGlobal"} /\ U \subseteq Leased(i)
      BY ZenonT(60) DEF Leased, Leases
    <3>3. IsFiniteSet(Leased(i)) /\ Cardinality(Leased(i)) \in Nat
      BY LayersAreFinite, ZenonT(60) DEF Leased, Of
    <3> HIDE DEF U
    <3>4. Cardinality(U) \in Nat /\ Cardinality(U) <= Cardinality(Leased(i))
      BY <3>2, <3>3, FS_Subset, FS_CardinalityType, ZenonT(60)
    <3>5. Within(config.unpacksPerImage, Cardinality(U))
      BY <2>2, <3>1, <3>3, <3>4, SMTT(60), Z3T(60) DEF UnpackInv, Within, unlimited
    <3>6. config.unpacksPerImage > unlimited => unpacks[i] = Cardinality(Leased(i))
      BY <3>1, ZenonT(60) DEF UnpackInv
    <3> QED  BY <3>2, <3>5, <3>6, ZenonT(60) DEF U
  <2>6. /\ Within(config.downloads, Cardinality(Holding(Layers)))
        /\ Within(config.unpacks, Cardinality({l \in Layers : Unpacking(l)}))
    <3>1. config.downloads > unlimited \/ config.downloads <= unlimited
      BY <2>2, SMTT(60), Z3T(60) DEF unlimited
    <3>2. config.unpacks > unlimited \/ config.unpacks <= unlimited
      BY <2>2, SMTT(60), Z3T(60) DEF unlimited
    <3> QED  BY <2>3, <3>1, <3>2, ZenonT(60) DEF Within
  <2>7. LimitsHold
    BY <2>4, <2>5, <2>6, ZenonT(60) DEF LimitsHold
  <2> QED  BY <2>3, <2>4, <2>5, <2>7, ZenonT(60) DEF PermitsAreHeld
<1> QED  BY <1>1, InvHolds, PTL

\* A file is read only when no request writes to it any more and, if it was
\* fetched in ranges, when the ranges have filled it: parallelArtifactFetcher
\* returns no earlier, for any chunk size and layer size.
THEOREM FilesAreWhole == Spec => []FilesAreWholeWhenRead
<1>1. ASSUME Inv PROVE FilesAreWholeWhenRead
  <2> SUFFICES ASSUME NEW l \in Layers \ local,
                      pc[l] \in {"lease", "leaseGlobal", "apply", "stored", "ok"}
               PROVE  InFlight(l) = {} /\ (l \in ranged => \A b \in DOMAIN file[l] : file[l][b] # "hole")
    BY ZenonT(60) DEF FilesAreWholeWhenRead
  <2>1. TypeOK /\ FetchInv(l)
    BY <1>1, ZenonT(60) DEF Inv, LayerInv
  <2>2. /\ InFlight(l) = {} /\ l \notin failed
        /\ l \in ranged => \A i \in Requests(l) : chunks[l][i] = "done"
    BY <2>1, ZenonT(60) DEF FetchInv, Reading
  <2>3. ASSUME l \in ranged, NEW b \in DOMAIN file[l] PROVE file[l][b] # "hole"
    <3>1. config.chunkSize \in Int /\ Size[l] \in Nat \ {0}
      BY <2>1, RequestsOf, ZenonT(60)
    <3>2. b \in 0 .. Size[l] - 1
      BY <2>1, <2>3, ZenonT(60) DEF TypeOK
    <3>3. PICK i \in Requests(l) : b \in Bytes(config.chunkSize, i, Size[l])
      BY <3>1, <3>2, RangesPartition, ZenonT(60) DEF Requests, loops
    <3>4. chunks[l][i] = "done"
      BY <2>2, <2>3, ZenonT(60)
    <3> QED  BY <2>1, <2>2, <2>3, <3>3, <3>4, ZenonT(60) DEF FetchInv
  <2> QED  BY <2>2, <2>3, ZenonT(60)
<1> QED  BY <1>1, InvHolds, PTL, ZenonT(60)

\* A layer that premount reports as unpacked was verified, and it is in the
\* content store unless unpacked layers are discarded.
THEOREM UnpackedAreVerified == Spec => []UnpackedLayersAreVerified
<1>1. ASSUME Inv PROVE UnpackedLayersAreVerified
  <2>1. \A l \in Layers : StoreInv(l)
    BY <1>1, ZenonT(60) DEF Inv, LayerInv
  <2> QED  BY <2>1, ZenonT(60) DEF StoreInv, UnpackedLayersAreVerified
<1> QED  BY <1>1, InvHolds, PTL

=============================================================================
