--------------------------- MODULE ElfLoadProofs ---------------------------
(***************************************************************************)
(* Proofs about the ELF loader: which files it takes, and that the memory  *)
(* of a loaded one is its segments.                                        *)
(***************************************************************************)
EXTENDS ElfLoad, MemoryRegionsProofs

(***************************************************************************)
(* The chunks of an image cover each of its bytes once.                    *)
(***************************************************************************)

\* What the chunks are, in numbers: w words and then bytes.
ShapeOf(n, w) ==
  /\ 4 * w <= n
  /\ n > 0 => 4 * w <= n - 1
  /\ DOMAIN Chunks(n) = 1 .. w + (n - 4 * w)
  /\ \A k \in DOMAIN Chunks(n) :
       Chunks(n)[k] = IF k <= w THEN [at |-> 4 * (k - 1), size |-> 4]
                      ELSE [at |-> 4 * w + (k - w - 1), size |-> 1]

LEMMA ChunkShape ==
  ASSUME NEW n \in Nat
  PROVE  \E w \in Nat : ShapeOf(n, w)
<1> DEFINE w == WordCount(n)
<1>1. w \in Nat /\ 4 * w <= n /\ (n > 0 => 4 * w <= n - 1)
  <2>1. CASE n = 0
    BY <2>1 DEF WordCount
  <2>2. CASE n # 0
    <3>1. (n - 1) \div 4 \in Nat /\ 4 * ((n - 1) \div 4) <= n - 1
      BY <2>2
    <3> QED
      BY <2>2, <3>1 DEF WordCount, WordSize
  <2> QED
    BY <2>1, <2>2
<1>2. /\ DOMAIN Chunks(n) = 1 .. w + (n - 4 * w)
      /\ \A k \in DOMAIN Chunks(n) :
           Chunks(n)[k] = IF k <= w THEN [at |-> 4 * (k - 1), size |-> 4]
                          ELSE [at |-> 4 * w + (k - w - 1), size |-> 1]
  BY DEF Chunks, WordSize, ByteSize
<1> HIDE DEF w
<1>3. ShapeOf(n, w)
  BY <1>1, <1>2 DEF ShapeOf
<1> QED
  BY <1>1, <1>3

\* Each byte is in a chunk, and the last one is a chunk of its own.
LEMMA ChunkOfByte ==
  ASSUME NEW n \in Nat, NEW o \in 0 .. n - 1
  PROVE  \E k \in DOMAIN Chunks(n) :
           /\ Chunks(n)[k].at <= o /\ o < Chunks(n)[k].at + Chunks(n)[k].size
           /\ o = n - 1 => Chunks(n)[k].at = o
<1>0. PICK w \in Nat : ShapeOf(n, w)
  BY ChunkShape
<1>1. /\ 4 * w <= n /\ (n > 0 => 4 * w <= n - 1)
      /\ DOMAIN Chunks(n) = 1 .. w + (n - 4 * w)
      /\ \A k \in DOMAIN Chunks(n) :
           Chunks(n)[k] = IF k <= w THEN [at |-> 4 * (k - 1), size |-> 4]
                          ELSE [at |-> 4 * w + (k - w - 1), size |-> 1]
  BY <1>0 DEF ShapeOf
<1>2. CASE o < 4 * w
  <2>1. PICK q : q = o \div 4
    OBVIOUS
  <2>2. q \in Nat /\ 4 * q <= o /\ o < 4 * q + 4
    BY <2>1
  <2>3. q + 1 \in 1 .. w + (n - 4 * w) /\ q + 1 <= w /\ (q + 1) - 1 = q /\ o # n - 1
    BY <1>1, <1>2, <2>2
  <2>4. Chunks(n)[q + 1] = [at |-> 4 * q, size |-> 4]
    BY <1>1, <2>3
  <2> QED
    BY <1>1, <2>2, <2>3, <2>4
<1>3. CASE o >= 4 * w
  <2>1. PICK k \in Int : k = w + (o - 4 * w) + 1
    BY <1>1
  <2>2. k \in 1 .. w + (n - 4 * w) /\ ~(k <= w) /\ 4 * w + (k - w - 1) = o
    BY <1>1, <1>3, <2>1
  <2>3. Chunks(n)[k] = [at |-> o, size |-> 1]
    BY <1>1, <2>2
  <2> QED
    BY <1>1, <2>2, <2>3
<1> QED
  BY <1>1, <1>2, <1>3

\* Chunks do not overlap.
LEMMA ChunksApart ==
  ASSUME NEW n \in Nat, NEW k \in DOMAIN Chunks(n), NEW l \in DOMAIN Chunks(n), k < l
  PROVE  Chunks(n)[k].at + Chunks(n)[k].size <= Chunks(n)[l].at
<1>0. PICK w \in Nat : ShapeOf(n, w)
  BY ChunkShape
<1>1. /\ 4 * w <= n
      /\ DOMAIN Chunks(n) = 1 .. w + (n - 4 * w)
      /\ \A j \in DOMAIN Chunks(n) :
           Chunks(n)[j] = IF j <= w THEN [at |-> 4 * (j - 1), size |-> 4]
                          ELSE [at |-> 4 * w + (j - w - 1), size |-> 1]
  BY <1>0 DEF ShapeOf
<1>2. k \in Nat /\ l \in Nat
  BY <1>1
<1>3. CASE l <= w
  BY <1>1, <1>2, <1>3
<1>4. CASE k <= w /\ ~(l <= w)
  BY <1>1, <1>2, <1>4
<1>5. CASE ~(k <= w)
  <2>1. ~(l <= w)
    BY <1>1, <1>2, <1>5
  <2> QED
    BY <1>1, <1>2, <1>5, <2>1
<1> QED
  BY <1>3, <1>4, <1>5

\* An image that is loaded into a region of its size, where no other region is, fills it.
LEMMA ImageStored ==
  ASSUME NEW rs, Filled(rs), NEW baseAddress \in Address,
         NEW n \in Address, n # 0, NEW image \in [1 .. n -> Byte],
         NEW i \in DOMAIN rs, rs[i].baseAddress = baseAddress, rs[i].size = n,
         \A j \in DOMAIN rs : j # i =>
           \A k \in 1 .. n : ~Holds(rs[j], (baseAddress + k - 1) % AddressLimit, ByteSize),
         LoadFromFlashImage(rs, baseAddress, image).exception = noException
  PROVE  /\ baseAddress + n <= AddressLimit
         /\ LoadFromFlashImage(rs, baseAddress, image).regions
              = [rs EXCEPT ![i].pData = image]
<1> DEFINE L == AddressLimit
           At(k) == Chunks(n)[k].at
           Size(k) == Chunks(n)[k].size
           Addr(k) == ChunkAddress(baseAddress, Chunks(n)[k])
<1>1. /\ L \in Nat /\ L > 0 /\ n \in Nat /\ n < L
      /\ baseAddress \in Nat /\ baseAddress < L
  BY AddressLimitAssumption DEF Address
<1>0. Len(image) = n
  BY <1>1
<1>2. /\ Stored(rs, baseAddress, n) = DOMAIN Chunks(n)
      /\ LoadFromFlashImage(rs, baseAddress, image).regions
           = StoreChunks(rs, baseAddress, image, DOMAIN Chunks(n))
  BY <1>0 DEF LoadFromFlashImage, Returns, Throws, noException, busErrorException
<1>3. ASSUME NEW k \in DOMAIN Chunks(n)
      PROVE  At(k) \in Nat /\ Size(k) \in {1, 4} /\ At(k) + Size(k) <= n /\ k \in 1 .. n
  BY <1>1, ChunkBounds
<1>4. ASSUME NEW k \in DOMAIN Chunks(n)
      PROVE  Matching(rs, Addr(k), Size(k)) # {}
  <2>1. k \in 1 .. k
    BY <1>3
  <2> QED
    BY <1>2, <2>1 DEF Stored
<1>5. \A j \in DOMAIN rs : rs[j] \in MemoryRegion
  BY ElementOfSeq, LenProperties DEF Filled
<1>6. \A j \in DOMAIN rs : rs[j].baseAddress \in Nat /\ rs[j].size \in Nat
  <2>1. \A x \in Address : x \in Nat
    BY AddressLimitAssumption DEF Address
  <2> QED
    BY <1>5, <2>1 DEF MemoryRegion
<1>7. ASSUME NEW k \in DOMAIN Chunks(n)
      PROVE  Addr(k) \in Nat /\ Addr(k) = (baseAddress + At(k)) % L
  <2>1. Addr(k) = (baseAddress + At(k)) % L
    BY DEF ChunkAddress
  <2>2. baseAddress + At(k) \in Nat
    BY <1>1, <1>3
  <2>3. \A x \in Nat : x % L \in Nat
    BY <1>1
  <2> QED
    BY <2>1, <2>2, <2>3
<1>8. ASSUME NEW k \in DOMAIN Chunks(n)
      PROVE  Matching(rs, Addr(k), Size(k)) = {i} /\ Holds(rs[i], Addr(k), Size(k))
  <2>1. ASSUME NEW j \in Matching(rs, Addr(k), Size(k)), j # i
        PROVE  FALSE
    <3>1. j \in DOMAIN rs /\ Holds(rs[j], Addr(k), Size(k))
      BY <2>1 DEF Matching
    <3>2. PICK a, s, b, z : a = Addr(k) /\ s = Size(k) /\ b = rs[j].baseAddress /\ z = rs[j].size
      OBVIOUS
    <3>3. a \in Nat /\ s \in {1, 4} /\ b \in Nat /\ z \in Nat /\ a >= b /\ a + s <= b + z
      BY <1>3, <1>6, <1>7, <3>1, <3>2 DEF Holds
    <3>4. a + 1 <= b + z
      BY <3>3
    <3>5. Holds(rs[j], Addr(k), ByteSize)
      BY <3>2, <3>3, <3>4 DEF Holds, ByteSize
    <3>6. PICK m \in Int : m = At(k) + 1
      BY <1>3
    <3>7. m \in 1 .. n /\ baseAddress + m - 1 = baseAddress + At(k)
      BY <1>1, <1>3, <3>6
    <3> QED
      BY <1>7, <2>1, <3>1, <3>5, <3>7
  <2>2. Matching(rs, Addr(k), Size(k)) = {i}
    BY <1>4, <2>1
  <2> QED
    BY <2>2 DEF Matching
<1>9. baseAddress + n <= L
  <2>1. PICK k \in DOMAIN Chunks(n) : At(k) = n - 1
    <3>1. n - 1 \in 0 .. n - 1
      BY <1>1
    <3> QED
      BY <1>1, <3>1, ChunkOfByte
  <2>2. PICK x \in Nat : x = baseAddress + (n - 1)
    BY <1>1
  <2>3. x % L >= baseAddress
    BY <1>7, <1>8, <2>1, <2>2 DEF Holds
  <2>4. x < 2 * L
    BY <1>1, <2>2
  <2>5. SUFFICES ASSUME x >= L PROVE FALSE
    BY <1>1, <2>2
  <2>6. x % L = x - L
    BY <2>4, <2>5, Wrapping
  <2>7. x - L < baseAddress
    BY <1>1, <2>2
  <2> QED
    BY <1>1, <2>2, <2>3, <2>6, <2>7
<1>10. ASSUME NEW k \in DOMAIN Chunks(n)
       PROVE  /\ ChunkTarget(rs, baseAddress, Chunks(n)[k]).region = i
              /\ RegionOffset(rs, ChunkTarget(rs, baseAddress, Chunks(n)[k])) = At(k)
  <2>1. Min({i}) = i
    <3>1. i \in Nat
      BY LenProperties DEF Filled
    <3>2. {i} \in SUBSET Nat /\ {i} # {}
      BY <3>1
    <3>3. Min({i}) \in {i}
      BY <3>2, MinIsLeast
    <3> QED
      BY <3>3
  <2>2. ChunkTarget(rs, baseAddress, Chunks(n)[k]) = [region |-> i, address |-> Addr(k)]
    BY <1>8, <2>1 DEF ChunkTarget, findMatchingRegion, Filled
  <2>3. PICK x \in Nat : x = baseAddress + At(k)
    BY <1>1, <1>3
  <2>4. x < L /\ x - baseAddress = At(k) /\ At(k) < L
    BY <1>1, <1>3, <1>9, <2>3
  <2>5. Addr(k) = x
    <3>1. x % L = x
      BY <2>4, Wrapping
    <3>2. Addr(k) = x % L
      BY <1>7, <2>3
    <3> QED
      BY <3>1, <3>2
  <2>6. At(k) % L = At(k)
    BY <1>3, <2>4, Wrapping
  <2>7. RegionOffset(rs, [region |-> i, address |-> x]) = (x - baseAddress) % L
    BY DEF RegionOffset
  <2> QED
    BY <2>2, <2>4, <2>5, <2>6, <2>7
<1> DEFINE ks == DOMAIN Chunks(n)
           Into(j, b) == StoresInto(rs, baseAddress, n, ks, j, b)
           Data(j) == [b \in 1 .. Len(rs[j].pData) |->
                         IF Into(j, b) = {} THEN rs[j].pData[b]
                         ELSE StoredByte(rs, baseAddress, image, Max(Into(j, b)), b)]
<1>11. ASSUME NEW b \in 1 .. n
       PROVE  Into(i, b) # {} /\ StoredByte(rs, baseAddress, image, Max(Into(i, b)), b) = image[b]
  <2>0. PICK o \in Int : o = b - 1
    OBVIOUS
  <2>1. o \in 0 .. n - 1 /\ o = b - 1
    BY <1>1, <2>0
  <2>2. PICK k \in DOMAIN Chunks(n) : At(k) <= o /\ o < At(k) + Size(k)
    BY <1>1, <2>1, ChunkOfByte
  <2>3. k \in Into(i, b)
    <3>1. /\ ChunkTarget(rs, baseAddress, Chunks(n)[k]).region = i
          /\ RegionOffset(rs, ChunkTarget(rs, baseAddress, Chunks(n)[k])) = At(k)
      BY <1>10
    <3>2. b - 1 >= At(k) /\ b - 1 < At(k) + Size(k)
      BY <1>1, <1>3, <2>1, <2>2
    <3> QED
      BY <3>1, <3>2 DEF StoresInto
  <2>4. Into(i, b) \in SUBSET (0 .. n)
    <3>1. \A m \in DOMAIN Chunks(n) : m \in 0 .. n
      BY <1>1, <1>3
    <3> QED
      BY <3>1 DEF StoresInto
  <2>5. PICK m : m = Max(Into(i, b))
    OBVIOUS
  <2>6. m \in Into(i, b)
    BY <1>1, <2>3, <2>4, <2>5, MaxIsGreatest
  <2>7. m \in DOMAIN Chunks(n) /\ RegionOffset(rs, ChunkTarget(rs, baseAddress, Chunks(n)[m])) = At(m)
    BY <1>10, <2>6 DEF StoresInto
  <2>8. At(m) + b - At(m) = b
    BY <1>1, <1>3, <2>7
  <2>9. StoredByte(rs, baseAddress, image, m, b) = image[At(m) + b - At(m)]
    BY <1>0, <2>7 DEF StoredByte
  <2> QED
    BY <2>3, <2>5, <2>8, <2>9
<1>12. ASSUME NEW j \in DOMAIN rs, j # i, NEW b
       PROVE  Into(j, b) = {}
  <2>1. \A k \in ks : ChunkTarget(rs, baseAddress, Chunks(n)[k]).region = i
    BY <1>10
  <2> QED
    BY <1>12, <2>1 DEF StoresInto
<1>13. StoreChunks(rs, baseAddress, image, ks)
         = [j \in DOMAIN rs |-> [rs[j] EXCEPT !.pData = Data(j)]]
  BY <1>0 DEF StoreChunks
<1> HIDE DEF Into
<1>14. Data(i) = image
  <2>1. Len(rs[i].pData) = n
    BY DEF Filled
  <2>2. image = [b \in 1 .. n |-> image[b]]
    OBVIOUS
  <2> QED
    BY <1>11, <2>1, <2>2
<1>15. ASSUME NEW j \in DOMAIN rs, j # i
       PROVE  Data(j) = rs[j].pData
  <2>1. rs[j].pData \in Seq(Byte)
    BY <1>5 DEF MemoryRegion
  <2>2. rs[j].pData = [b \in 1 .. Len(rs[j].pData) |-> rs[j].pData[b]]
    BY <2>1, LenProperties
  <2> QED
    BY <1>12, <1>15, <2>2
<1> HIDE DEF Data, ks
<1>16. ASSUME NEW j \in DOMAIN rs, j # i
       PROVE  [rs[j] EXCEPT !.pData = Data(j)] = rs[j]
  BY <1>5, <1>15, <1>16 DEF MemoryRegion
<1>17. [j \in DOMAIN rs |-> [rs[j] EXCEPT !.pData = Data(j)]] = [rs EXCEPT ![i].pData = image]
  BY <1>14, <1>16 DEF Filled
<1> QED
  BY <1>2, <1>9, <1>13, <1>17 DEF ks

(***************************************************************************)
(* Loading a segment.                                                      *)
(***************************************************************************)

\* A sum that wraps gets smaller.
LEMMA WrapsDown ==
  ASSUME NEW x \in Nat
  PROVE  x % AddressLimit \in Nat /\ x % AddressLimit <= x
<1>1. AddressLimit \in Nat /\ AddressLimit > 0
  BY AddressLimitAssumption
<1>2. x % AddressLimit \in 0 .. AddressLimit - 1
  BY <1>1
<1>3. x < AddressLimit => x % AddressLimit = x
  BY <1>1, Wrapping
<1>4. CASE x < AddressLimit
  BY <1>1, <1>2, <1>3, <1>4
<1>5. CASE x >= AddressLimit
  <2>1. PICK y : y = x % AddressLimit
    OBVIOUS
  <2>2. y \in 0 .. AddressLimit - 1
    BY <1>2, <2>1
  <2>3. y \in Nat /\ y <= x
    BY <1>1, <1>5, <2>2
  <2> QED
    BY <2>1, <2>3
<1> QED
  BY <1>1, <1>4, <1>5

\* What is refused is not in the file.
LEMMA FetchRefused ==
  ASSUME NEW offset \in Nat, NEW size \in Nat, NEW n \in Nat, n = Len(elf.blob),
         ~Fetches(offset, size)
  PROVE  offset + size > n
<1>1. PICK x \in Nat : x = offset + size
  OBVIOUS
<1>2. PICK y : y = x % AddressLimit
  OBVIOUS
<1>3. y \in Nat /\ y <= x
  BY <1>2, WrapsDown
<1>4. ~(offset <= n /\ y <= n)
  BY <1>1, <1>2 DEF Fetches
<1> QED
  BY <1>1, <1>3, <1>4

\* What is fetched is in the file, when the sum does not wrap.
LEMMA FetchedWhole ==
  ASSUME NEW offset \in Nat, NEW size \in Nat, NEW n \in Nat, n = Len(elf.blob),
         Fetches(offset, size), offset + size < AddressLimit
  PROVE  offset + size <= n
<1>1. PICK x \in Nat : x = offset + size
  OBVIOUS
<1>2. x % AddressLimit = x
  <2>1. x >= 0 /\ x < AddressLimit
    BY <1>1
  <2> QED
    BY <2>1, Wrapping
<1> QED
  BY <1>1, <1>2 DEF Fetches

\* The bytes a segment is loaded with: those of the file as far as it goes.
IsDataOf(data, h) ==
  /\ data \in [1 .. h.p_filesz -> Byte]
  /\ \A k \in 1 .. h.p_filesz :
       h.p_offset + k <= Len(elf.blob) => data[k] = elf.blob[h.p_offset + k]

\* The region of a segment.
IsSegment(r, h) ==
  /\ r \in MemoryRegion
  /\ r.baseAddress = h.p_paddr /\ r.size = h.p_filesz
  /\ h.p_paddr + h.p_filesz <= AddressLimit
  /\ IsDataOf(r.pData, h) /\ Len(r.pData) = r.size
  /\ r.isReadOnly /\ ~r.isAlias

LEMMA DataTypes ==
  ASSUME NEW h \in ProgramHeader, NEW data, IsDataOf(data, h)
  PROVE  data \in Seq(Byte) /\ Len(data) = h.p_filesz
<1>1. h.p_filesz \in Nat
  <2>1. h.p_filesz \in Address
    BY DEF ProgramHeader
  <2> QED
    BY <2>1, AddressLimitAssumption DEF Address
<1> QED
  BY <1>1, SeqDef DEF IsDataOf

\* The bytes at an offset that is in the file or right behind it.
LEMMA SegmentBytes ==
  ASSUME NEW h \in ProgramHeader, elf.blob \in Seq(Byte), h.p_offset <= Len(elf.blob),
         NEW behind \in [Address -> Byte]
  PROVE  IsDataOf(SegmentData(h, behind), h)
<1>1. PICK o, f, n : o = h.p_offset /\ f = h.p_filesz /\ n = Len(elf.blob)
  OBVIOUS
<1>2. /\ o \in Nat /\ f \in Nat /\ n \in Nat /\ o <= n /\ f < AddressLimit
      /\ AddressLimit \in Nat
  <2>1. h.p_offset \in Address /\ h.p_filesz \in Address
    BY DEF ProgramHeader
  <2>2. Len(elf.blob) \in Nat
    BY LenProperties
  <2> QED
    BY <1>1, <2>1, <2>2, AddressLimitAssumption DEF Address
<1> DEFINE Data(k) == IF o + k <= n THEN elf.blob[o + k] ELSE behind[o + k - n]
<1>3. SegmentData(h, behind) = [k \in 1 .. f |-> Data(k)]
  BY <1>1 DEF SegmentData
<1>4. ASSUME NEW k \in 1 .. f
      PROVE  Data(k) \in Byte
  <2>1. CASE o + k <= n
    <3>1. PICK x : x = o + k
      OBVIOUS
    <3>2. x \in 1 .. n
      BY <1>2, <2>1, <3>1
    <3>3. elf.blob[x] \in Byte
      BY <1>1, <3>2, ElementOfSeq
    <3> QED
      BY <2>1, <3>1, <3>3
  <2>2. CASE ~(o + k <= n)
    <3>1. PICK x : x = o + k - n
      OBVIOUS
    <3>2. x \in 0 .. AddressLimit - 1
      BY <1>2, <2>2, <3>1
    <3>3. behind[x] \in Byte
      BY <3>2 DEF Address
    <3> QED
      BY <2>2, <3>1, <3>3
  <2> QED
    BY <2>1, <2>2
<1>5. \A k \in 1 .. f : o + k <= n => Data(k) = elf.blob[o + k]
  OBVIOUS
<1> HIDE DEF Data
<1> QED
  BY <1>1, <1>3, <1>4, <1>5 DEF IsDataOf

\* Making the only region that is at an address read-only.
LEMMA LockedRegion ==
  ASSUME NEW rs, Filled(rs), NEW i \in DOMAIN rs, NEW baseAddress,
         Matching(rs, baseAddress, 1) = {i}, NEW ok,
         MakeRegionReadOnly(rs, baseAddress, ok).exception = noException
  PROVE  LET new == MakeRegionReadOnly(rs, baseAddress, ok).regions
         IN  /\ DOMAIN new = DOMAIN rs
             /\ \A j \in DOMAIN rs : j # i => new[j] = rs[j]
             /\ new[i].baseAddress = rs[i].baseAddress /\ new[i].size = rs[i].size
             /\ new[i].pData = rs[i].pData
             /\ new[i].isReadOnly /\ ~new[i].isAlias
<1>1. rs[i] \in MemoryRegion /\ ~rs[i].isAlias
  BY ElementOfSeq, LenProperties DEF Filled
<1>2. Min({i}) = i
  <2>1. i \in Nat
    BY LenProperties DEF Filled
  <2>2. {i} \in SUBSET Nat /\ {i} # {}
    BY <2>1
  <2>3. Min({i}) \in {i}
    BY <2>2, MinIsLeast
  <2> QED
    BY <2>3
<1>3. findMatchingRegion(rs, baseAddress, 1).region = i
  BY <1>1, <1>2 DEF findMatchingRegion
<1> DEFINE only == [rs EXCEPT ![i].isReadOnly = TRUE]
           new  == [only EXCEPT ![i].pReadCounts = ZeroReadCounts(rs[i].size)]
<1>4. MakeRegionReadOnly(rs, baseAddress, ok).regions = new
  BY <1>3 DEF MakeRegionReadOnly, Returns, Throws, noException, outOfMemoryException
<1>5. /\ DOMAIN only = DOMAIN rs /\ only[i] = [rs[i] EXCEPT !.isReadOnly = TRUE]
      /\ \A j \in DOMAIN rs : j # i => only[j] = rs[j]
  BY <1>1
<1> HIDE DEF only
<1>6. /\ DOMAIN new = DOMAIN rs
      /\ new[i] = [only[i] EXCEPT !.pReadCounts = ZeroReadCounts(rs[i].size)]
      /\ \A j \in DOMAIN rs : j # i => new[j] = rs[j]
  BY <1>1, <1>5
<1> HIDE DEF new
<1>7. /\ new[i].baseAddress = rs[i].baseAddress /\ new[i].size = rs[i].size
      /\ new[i].pData = rs[i].pData
      /\ new[i].isReadOnly /\ ~new[i].isAlias
  BY <1>1, <1>5, <1>6 DEF MemoryRegion
<1> QED
  BY <1>4, <1>6, <1>7

\* Loading a segment where no region is adds its region, and no other.
LEMMA SegmentLoaded ==
  ASSUME NEW rs, Filled(rs), GoodRegions(rs), NEW h \in ProgramHeader,
         h.p_filesz # 0, NEW data, IsDataOf(data, h),
         \A j \in DOMAIN rs : \A k \in 1 .. h.p_filesz : ~Holds(rs[j], Place(h, k), ByteSize),
         NEW regionOk \in BOOLEAN, NEW countsOk \in BOOLEAN,
         LoadEntry(rs, h, data, regionOk, countsOk).exception = noException
  PROVE  LET new == LoadEntry(rs, h, data, regionOk, countsOk).regions
         IN  /\ DOMAIN new = 1 .. Len(rs) + 1
             /\ \A j \in DOMAIN rs : new[j] = rs[j]
             /\ new[Len(rs) + 1].baseAddress = h.p_paddr
             /\ new[Len(rs) + 1].size = h.p_filesz
             /\ h.p_paddr + h.p_filesz <= AddressLimit
             /\ new[Len(rs) + 1].pData = data
             /\ new[Len(rs) + 1].isReadOnly /\ ~new[Len(rs) + 1].isAlias
<1>1. PICK base, n, image, m :
        base = h.p_paddr /\ n = h.p_filesz /\ image = data /\ m = Len(rs)
  OBVIOUS
<1>2. /\ base \in Address /\ n \in Address /\ n # 0 /\ image \in [1 .. n -> Byte]
      /\ image \in Seq(Byte)
  BY <1>1, DataTypes DEF ProgramHeader, IsDataOf
<1>3. m \in Nat /\ DOMAIN rs = 1 .. m /\ rs \in Seq(MemoryRegion)
  BY <1>1, LenProperties DEF Filled
<1> DEFINE r       == NewRegion(base, n)
           created == Append(rs, r)
           load    == LoadFromFlashImage(created, base, image)
           lock    == MakeRegionReadOnly(load.regions, base, countsOk)
<1>4. /\ load.exception = noException /\ lock.exception = noException
      /\ LoadEntry(rs, h, data, regionOk, countsOk) = lock
  BY <1>1 DEF LoadEntry, CreateRegion, Returns, Throws, noException, outOfMemoryException
<1> HIDE DEF load, lock
<1>5. Filled(created)
  BY <1>2, AppendedBytes
<1>6. /\ DOMAIN created = 1 .. m + 1 /\ created[m + 1] = r
      /\ \A j \in DOMAIN rs : created[j] = rs[j]
  BY <1>1, <1>3
<1>7. r.baseAddress = base /\ r.size = n
  BY DEF NewRegion
<1> HIDE DEF r, created
<1>8. m + 1 \in DOMAIN created /\ \A j \in DOMAIN created : j # m + 1 => j \in DOMAIN rs
  BY <1>3, <1>6
<1>9. ASSUME NEW j \in DOMAIN created, j # m + 1, NEW k \in 1 .. n
      PROVE  ~Holds(created[j], (base + k - 1) % AddressLimit, ByteSize)
  <2>1. j \in DOMAIN rs /\ created[j] = rs[j]
    BY <1>6, <1>8, <1>9
  <2> QED
    BY <1>1, <2>1 DEF Place
<1>10. /\ base + n <= AddressLimit
       /\ load.regions = [created EXCEPT ![m + 1].pData = image]
  <2>1. created[m + 1].baseAddress = base /\ created[m + 1].size = n
    BY <1>6, <1>7
  <2>2. \A j \in DOMAIN created : j # m + 1 =>
          \A k \in 1 .. n : ~Holds(created[j], (base + k - 1) % AddressLimit, ByteSize)
    BY <1>9
  <2>3. LoadFromFlashImage(created, base, image).exception = noException
    BY <1>4 DEF load
  <2>4. PICK i : i = m + 1
    OBVIOUS
  <2>5. /\ base + n <= AddressLimit
        /\ LoadFromFlashImage(created, base, image).regions = [created EXCEPT ![i].pData = image]
    BY <1>2, <1>5, <1>8, <2>1, <2>2, <2>3, <2>4, ImageStored
  <2> QED
    BY <2>4, <2>5 DEF load
<1>11. \A j \in DOMAIN created : created[j] \in MemoryRegion
  BY <1>5, ElementOfSeq, LenProperties DEF Filled
<1>12. /\ DOMAIN load.regions = DOMAIN created
       /\ load.regions[m + 1] = [r EXCEPT !.pData = image]
       /\ \A j \in DOMAIN rs : load.regions[j] = rs[j]
  <2>1. \A j \in DOMAIN rs : j # m + 1
    BY <1>3
  <2> QED
    BY <1>6, <1>8, <1>10, <1>11, <2>1
<1>13. r \in MemoryRegion /\ ~r.isAlias
  BY <1>5, <1>6, <1>8, <1>11 DEF Filled
<1>14. /\ load.regions[m + 1].baseAddress = base /\ load.regions[m + 1].size = n
       /\ load.regions[m + 1].pData = image /\ ~load.regions[m + 1].isAlias
  BY <1>7, <1>12, <1>13 DEF MemoryRegion
<1>15. Filled(load.regions)
  <2>1. load.regions \in Seq(MemoryRegion)
    <3>1. GoodRegions(created)
      <4>1. created = CreateRegion(rs, base, n, TRUE).regions
        BY DEF CreateRegion, Returns, created, r
      <4> QED
        BY <1>2, <4>1, CreateRegionGood
    <3> QED
      BY <1>2, <3>1, LoadGood DEF load, GoodRegions
  <2>2. Len(image) = n
    BY <1>2, AddressLimitAssumption DEF Address
  <2> QED
    BY <1>3, <1>6, <1>8, <1>12, <1>14, <2>1, <2>2 DEF Filled
<1>16. Matching(load.regions, base, 1) = {m + 1}
  <2>1. Holds(load.regions[m + 1], base, 1)
    <3>1. base \in Nat /\ n \in Nat
      BY <1>2, AddressLimitAssumption DEF Address
    <3> QED
      BY <1>2, <1>14, <3>1 DEF Holds
  <2>2. ASSUME NEW j \in DOMAIN rs
        PROVE  ~Holds(load.regions[j], base, 1)
    <3>1. 1 \in 1 .. n /\ base + 1 - 1 = base /\ base \in Int /\ base >= 0 /\ base < AddressLimit
      BY <1>2, AddressLimitAssumption DEF Address
    <3>2. Place(h, 1) = base
      BY <1>1, <3>1, Wrapping DEF Place
    <3> QED
      BY <1>1, <1>12, <3>1, <3>2 DEF ByteSize
  <2> QED
    BY <1>8, <1>12, <2>1, <2>2 DEF Matching
<1>17. /\ DOMAIN lock.regions = DOMAIN load.regions
       /\ \A j \in DOMAIN load.regions : j # m + 1 => lock.regions[j] = load.regions[j]
       /\ lock.regions[m + 1].baseAddress = base /\ lock.regions[m + 1].size = n
       /\ lock.regions[m + 1].pData = image
       /\ lock.regions[m + 1].isReadOnly /\ ~lock.regions[m + 1].isAlias
  <2>1. PICK i, rs2 : i = m + 1 /\ rs2 = load.regions
    OBVIOUS
  <2>2. MakeRegionReadOnly(rs2, base, countsOk).exception = noException
    BY <1>4, <2>1 DEF lock
  <2>3. Filled(rs2) /\ i \in DOMAIN rs2 /\ Matching(rs2, base, 1) = {i}
    BY <1>8, <1>12, <1>15, <1>16, <2>1
  <2>4. LET new == MakeRegionReadOnly(rs2, base, countsOk).regions
        IN  /\ DOMAIN new = DOMAIN rs2
            /\ \A j \in DOMAIN rs2 : j # i => new[j] = rs2[j]
            /\ new[i].baseAddress = rs2[i].baseAddress /\ new[i].size = rs2[i].size
            /\ new[i].pData = rs2[i].pData
            /\ new[i].isReadOnly /\ ~new[i].isAlias
    BY <2>2, <2>3, LockedRegion
  <2> QED
    BY <1>14, <2>1, <2>4 DEF lock
<1>18. \A j \in DOMAIN rs : lock.regions[j] = rs[j]
  <2>1. \A j \in DOMAIN rs : j # m + 1 /\ j \in DOMAIN load.regions
    BY <1>3, <1>6, <1>12
  <2> QED
    BY <1>12, <1>17, <2>1
<1> QED
  BY <1>1, <1>4, <1>6, <1>10, <1>12, <1>17, <1>18

(***************************************************************************)
(* The inductive invariant.                                                *)
(***************************************************************************)

\* The header of a file that gets to its program headers.
HeaderInv ==
  stage \in {"entries", "done"} =>
    /\ Len(elf.blob) >= EhdrSize
    /\ elf.isExecutable
    /\ elf.e_phoff # 0
    /\ elf.e_phentsize >= PhdrSize

\* What the loop has looked at is in the file, when no sum wraps.
EntriesInv ==
  /\ pgmHeaderOffset <= HeaderOffset(index)
  /\ SumsFit /\ index \in DOMAIN elf.headers => pgmHeaderOffset = HeaderOffset(index)
  /\ SumsFit => \A i \in DOMAIN elf.headers : i < index => HeaderEnd(i) <= Len(elf.blob)
  /\ SumsFit => \A i \in Loadable : i < index => SegmentEnd(i) <= Len(elf.blob)
  /\ entryLoadCount # 0 <=> \E i \in Loadable : i < index

\* The memory is the segments of the program headers before n.
HoldsSegments(rs, n) ==
  /\ \A j \in DOMAIN rs : \E i \in Loadable : i < n /\ IsSegment(rs[j], elf.headers[i])
  /\ \A i \in Loadable : i < n => \E j \in DOMAIN rs : IsSegment(rs[j], elf.headers[i])

SegmentsInv == stage # "failed" /\ Disjoint => HoldsSegments(regions, index)

\* The segments of the program headers before n are locked.
LocksSegments(rs, n) ==
  /\ \A k \in DOMAIN rs : ~rs[k].isAlias /\ IsLockedOrShadowed(rs, k)
  /\ \A i \in Loadable : i < n => IsLocked(rs, elf.headers[i].p_paddr)

LocksInv == stage # "failed" => LocksSegments(regions, index)

ElfInv ==
  /\ elf \in Elfs
  /\ ElfTypeOK
  /\ GoodRegions(regions)
  /\ HeaderInv
  /\ EntriesInv
  /\ SegmentsInv
  /\ LocksInv
  /\ stage = "done" => index = Len(elf.headers) + 1 /\ entryLoadCount # 0
  /\ stage # "failed" => exception = noException
  /\ exception = elfFormatException => ~WellFormed

(***************************************************************************)
(* The steps.                                                              *)
(***************************************************************************)

LEMMA ElfTypes ==
  ASSUME elf \in Elfs
  PROVE  /\ elf.blob \in Seq(Byte) /\ Len(elf.blob) \in Nat
         /\ elf.e_phoff \in Address /\ elf.e_phoff \in Nat /\ elf.e_phentsize \in Nat
         /\ EhdrSize \in Nat /\ EhdrSize < AddressLimit
         /\ PhdrSize \in Nat /\ PhdrSize < AddressLimit
         /\ elf.headers \in Seq(ProgramHeader) /\ Len(elf.headers) \in Nat
         /\ DOMAIN elf.headers = 1 .. Len(elf.headers)
<1>1. elf \in Elf
  BY ElfAssumption
<1>2. /\ elf.blob \in Seq(Byte) /\ elf.headers \in Seq(ProgramHeader)
      /\ elf.e_phoff \in Address /\ elf.e_phentsize \in Address
  BY <1>1 DEF Elf
<1>3. \A x \in Address : x \in Nat /\ x < AddressLimit
  BY AddressLimitAssumption DEF Address
<1> QED
  BY <1>2, <1>3, LenProperties, SizeAssumption

LEMMA HeaderTypes ==
  ASSUME elf \in Elfs, NEW i \in DOMAIN elf.headers
  PROVE  /\ elf.headers[i] \in ProgramHeader
         /\ elf.headers[i].p_offset \in Nat /\ elf.headers[i].p_filesz \in Nat
<1>1. elf.headers[i] \in ProgramHeader
  BY ElfTypes, ElementOfSeq
<1>2. \A x \in Address : x \in Nat
  BY AddressLimitAssumption DEF Address
<1> QED
  BY <1>1, <1>2 DEF ProgramHeader

\* The file stays, and so does what is said of it.
LEMMA FileStays ==
  ASSUME UNCHANGED elf
  PROVE  /\ Loadable' = Loadable /\ WellFormed' = WellFormed /\ Disjoint' = Disjoint
         /\ SumsFit' = SumsFit
         /\ \A i : /\ HeaderOffset(i)' = HeaderOffset(i) /\ HeaderEnd(i)' = HeaderEnd(i)
                  /\ SegmentEnd(i)' = SegmentEnd(i)
         /\ \A rs, n : HoldsSegments(rs, n)' = HoldsSegments(rs, n)
         /\ \A rs, n : LocksSegments(rs, n)' = LocksSegments(rs, n)
<1>1. Loadable' = Loadable
  BY DEF Loadable
<1>2. \A i : /\ HeaderOffset(i)' = HeaderOffset(i) /\ HeaderEnd(i)' = HeaderEnd(i)
            /\ SegmentEnd(i)' = SegmentEnd(i)
  BY DEF HeaderOffset, HeaderEnd, SegmentEnd
<1>3. WellFormed' = WellFormed /\ SumsFit' = SumsFit
  BY <1>1, <1>2 DEF WellFormed, SumsFit
<1>4. Disjoint' = Disjoint
  BY <1>1 DEF Disjoint
<1>5. \A r, h : IsSegment(r, h)' = IsSegment(r, h)
  BY DEF IsSegment, IsDataOf
<1>6. \A rs, n : HoldsSegments(rs, n)' = HoldsSegments(rs, n)
  BY <1>1, <1>5 DEF HoldsSegments
<1>7. \A rs, n : LocksSegments(rs, n)' = LocksSegments(rs, n)
  BY <1>1 DEF LocksSegments
<1> QED
  BY <1>1, <1>2, <1>3, <1>4, <1>6, <1>7

\* The loads throw what they may.
LEMMA LoadEntryExceptions ==
  ASSUME NEW rs, NEW h, NEW data, NEW regionOk, NEW countsOk
  PROVE  LoadEntry(rs, h, data, regionOk, countsOk).exception
           \in {noException, outOfMemoryException, busErrorException}
  BY DEF LoadEntry, CreateRegion, LoadFromFlashImage, MakeRegionReadOnly, Returns, Throws

LEMMA LoadEntryGood ==
  ASSUME NEW rs, GoodRegions(rs), NEW h \in ProgramHeader, NEW data \in Seq(Byte),
         NEW regionOk \in BOOLEAN, NEW countsOk \in BOOLEAN
  PROVE  GoodRegions(LoadEntry(rs, h, data, regionOk, countsOk).regions)
<1>1. h.p_paddr \in Address /\ h.p_filesz \in Address
  BY DEF ProgramHeader
<1> DEFINE created == CreateRegion(rs, h.p_paddr, h.p_filesz, regionOk)
           loaded  == LoadFromFlashImage(created.regions, h.p_paddr, data)
<1>2. GoodRegions(created.regions)
  BY <1>1, CreateRegionGood
<1> HIDE DEF created
<1>3. GoodRegions(loaded.regions)
  BY <1>1, <1>2, LoadGood
<1> HIDE DEF loaded
<1>4. GoodRegions(MakeRegionReadOnly(loaded.regions, h.p_paddr, countsOk).regions)
  BY <1>1, <1>3, MakeRegionReadOnlyGood
<1> QED
  BY <1>2, <1>3, <1>4 DEF LoadEntry, created, loaded

LEMMA InitElfInv == Init => ElfInv
<1> SUFFICES ASSUME Init PROVE ElfInv
  OBVIOUS
<1>1. PICK m : m = Len(elf.headers)
  OBVIOUS
<1>2. m \in Nat /\ DOMAIN elf.headers = 1 .. m /\ elf \in Elfs
      /\ elf.e_phoff \in Address /\ elf.e_phoff \in Nat /\ elf.e_phentsize \in Nat
  BY <1>1, ElfTypes DEF Init
<1>3. ElfTypeOK
  <2>1. 1 \in 1 .. m + 1 /\ 0 \in 0 .. 1 - 1
    BY <1>2
  <2> QED
    BY <1>1, <1>2, <2>1, EmptyOrdered DEF Init, ElfTypeOK
<1>4. GoodRegions(<<>>)
  BY DEF GoodRegions, Redirects
<1>5. \A i \in DOMAIN elf.headers : ~(i < 1)
  BY <1>2
<1>6. EntriesInv
  <2>1. elf.e_phentsize * (1 - 1) = 0
    BY <1>2
  <2>2. HeaderOffset(1) = elf.e_phoff
    BY <1>2, <2>1 DEF HeaderOffset
  <2> QED
    BY <1>2, <1>5, <2>2 DEF Init, EntriesInv, Loadable
<1>7. HoldsSegments(<<>>, 1) /\ LocksSegments(<<>>, 1)
  BY <1>5 DEF HoldsSegments, LocksSegments, Loadable
<1> QED
  BY <1>2, <1>3, <1>4, <1>6, <1>7
  DEF Init, ElfInv, HeaderInv, SegmentsInv, LocksInv, noException, elfFormatException

\* A step that stays at its program header.
LEMMA StaysAtEntry ==
  ASSUME ElfInv, UNCHANGED <<elf, regions, index, pgmHeaderOffset, entryLoadCount>>,
         stage \in {"header", "entries"}, stage' \in {"entries", "done", "failed"},
         stage' # "failed" =>
           /\ HeaderInv' /\ exception' = noException
           /\ stage' = "done" => index = Len(elf.headers) + 1 /\ entryLoadCount # 0,
         stage' = "failed" => exception' = elfFormatException /\ ~WellFormed
  PROVE  ElfInv'
<1>1. ElfTypeOK' /\ GoodRegions(regions)' /\ elf' \in Elfs
  BY DEF ElfInv, ElfTypeOK
<1>2. EntriesInv'
  BY FileStays DEF ElfInv, EntriesInv
<1>3. SegmentsInv' /\ LocksInv'
  BY FileStays DEF ElfInv, SegmentsInv, LocksInv
<1>4. HeaderInv'
  BY DEF HeaderInv
<1>5. exception' = elfFormatException => ~WellFormed'
  BY FileStays DEF noException, elfFormatException
<1> QED
  BY <1>1, <1>2, <1>3, <1>4, <1>5 DEF ElfInv

LEMMA validateElfHeaderContentsKeeps ==
  ASSUME ElfInv, validateElfHeaderContents
  PROVE  ElfInv'
<1>1. PICK n : n = Len(elf.blob)
  OBVIOUS
<1>2. n \in Nat /\ EhdrSize \in Nat /\ EhdrSize < AddressLimit
  BY <1>1, ElfTypes DEF ElfInv
<1>3. Fetches(0, EhdrSize) <=> n >= EhdrSize
  <2>1. 0 + EhdrSize = EhdrSize /\ 0 <= n /\ EhdrSize >= 0
    BY <1>2
  <2>2. EhdrSize % AddressLimit = EhdrSize
    BY <1>2, <2>1, Wrapping
  <2>3. Fetches(0, EhdrSize) <=> EhdrSize <= n
    BY <1>1, <2>1, <2>2 DEF Fetches
  <2> QED
    BY <1>2, <2>3
<1>4. Loadable # {} => elf.headers # <<>>
  BY DEF Loadable
<1>5. ~(Fetches(0, EhdrSize) /\ HeaderIsValid) => ~WellFormed
  BY <1>1, <1>3, <1>4 DEF HeaderIsValid, WellFormed
<1>6. Fetches(0, EhdrSize) /\ HeaderIsValid /\ UNCHANGED elf => HeaderInv'
  BY <1>1, <1>3 DEF HeaderIsValid, HeaderInv
<1> QED
  BY <1>5, <1>6, StaysAtEntry DEF validateElfHeaderContents, Throw, ElfInv

\* Where a program header is.
LEMMA HeaderPlace ==
  ASSUME elf \in Elfs, NEW i \in Nat \ {0}
  PROVE  HeaderOffset(i) \in Nat
<1>1. PICK p, s : p = elf.e_phoff /\ s = elf.e_phentsize
  OBVIOUS
<1>2. p \in Nat /\ s \in Nat /\ i - 1 \in Nat
  BY <1>1, ElfTypes
<1>3. s * (i - 1) \in Nat
  BY <1>2
<1>4. p + s * (i - 1) \in Nat
  BY <1>2, <1>3
<1> QED
  BY <1>1, <1>4 DEF HeaderOffset

\* A program header that is refused is not in the file, and one that is fetched is in it
\* when no sum wraps.
LEMMA HeaderFetched ==
  ASSUME ElfInv, index \in DOMAIN elf.headers
  PROVE  /\ ~Fetches(pgmHeaderOffset, PhdrSize) => ~(HeaderEnd(index) <= Len(elf.blob))
         /\ Fetches(pgmHeaderOffset, PhdrSize) /\ SumsFit => HeaderEnd(index) <= Len(elf.blob)
<1>1. PICK n, o, c, q : /\ n = Len(elf.blob) /\ o = pgmHeaderOffset
                        /\ c = HeaderOffset(index) /\ q = PhdrSize
  OBVIOUS
<1>2. n \in Nat /\ o \in Nat /\ c \in Nat /\ q \in Nat /\ o <= c
  <2>1. \A x \in Address : x \in Nat
    BY AddressLimitAssumption DEF Address
  <2>2. n \in Nat /\ q \in Nat /\ o \in Nat
    BY <1>1, <2>1, ElfTypes DEF ElfInv, ElfTypeOK
  <2>3. index \in Nat \ {0}
    <3>1. PICK i, m : i = index /\ m = Len(elf.headers)
      OBVIOUS
    <3>2. m \in Nat /\ i \in 1 .. m
      BY <3>1, ElfTypes DEF ElfInv
    <3> QED
      BY <3>1, <3>2
  <2> QED
    BY <1>1, <2>2, <2>3, HeaderPlace DEF ElfInv, EntriesInv
<1>3. HeaderEnd(index) = c + q
  BY <1>1 DEF HeaderEnd
<1>4. ASSUME ~Fetches(o, q)
      PROVE  ~(c + q <= n)
  <2>1. o + q > n
    BY <1>1, <1>2, <1>4, FetchRefused
  <2> QED
    BY <1>2, <2>1
<1>5. ASSUME Fetches(o, q), SumsFit
      PROVE  c + q <= n
  <2>1. o = c /\ c + q < AddressLimit
    BY <1>1, <1>3, <1>5 DEF ElfInv, EntriesInv, SumsFit
  <2> QED
    BY <1>1, <1>2, <1>5, <2>1, FetchedWhole
<1> QED
  BY <1>1, <1>3, <1>4, <1>5

LEMMA entryOutOfBoundsKeeps ==
  ASSUME ElfInv, entryOutOfBounds
  PROVE  ElfInv'
<1>1. ~(HeaderEnd(index) <= Len(elf.blob))
  BY HeaderFetched DEF entryOutOfBounds
<1>2. ~WellFormed
  BY <1>1 DEF WellFormed, entryOutOfBounds
<1> QED
  BY <1>2, StaysAtEntry DEF entryOutOfBounds, Throw

\* The data of a segment: the same.
LEMMA DataFetched ==
  ASSUME ElfInv, index \in Loadable
  PROVE  /\ ~Fetches(NextHeader.p_offset, NextHeader.p_filesz)
              => ~(SegmentEnd(index) <= Len(elf.blob))
         /\ Fetches(NextHeader.p_offset, NextHeader.p_filesz) /\ SumsFit
              => SegmentEnd(index) <= Len(elf.blob)
<1>1. PICK n, o, s : /\ n = Len(elf.blob)
                     /\ o = elf.headers[index].p_offset /\ s = elf.headers[index].p_filesz
  OBVIOUS
<1>2. n \in Nat /\ o \in Nat /\ s \in Nat
  <2>1. index \in DOMAIN elf.headers
    BY DEF Loadable
  <2> QED
    BY <1>1, <2>1, ElfTypes, HeaderTypes DEF ElfInv
<1>3. SegmentEnd(index) = o + s /\ NextHeader.p_offset = o /\ NextHeader.p_filesz = s
  BY <1>1 DEF SegmentEnd, NextHeader
<1>4. ASSUME ~Fetches(o, s)
      PROVE  ~(o + s <= n)
  <2>1. o + s > n
    BY <1>1, <1>2, <1>4, FetchRefused
  <2> QED
    BY <1>2, <2>1
<1>5. ASSUME Fetches(o, s), SumsFit
      PROVE  o + s <= n
  <2>1. o + s < AddressLimit
    BY <1>3, <1>5 DEF SumsFit
  <2> QED
    BY <1>1, <1>2, <1>5, <2>1, FetchedWhole
<1> QED
  BY <1>1, <1>3, <1>4, <1>5

LEMMA dataOutOfBoundsKeeps ==
  ASSUME ElfInv, dataOutOfBounds
  PROVE  ElfInv'
<1>0. index \in Loadable
  BY DEF dataOutOfBounds, AtEntry, Loadable, NextHeader
<1>1. ~(SegmentEnd(index) <= Len(elf.blob))
  BY <1>0, DataFetched DEF dataOutOfBounds
<1>2. ~WellFormed
  BY <1>0, <1>1 DEF WellFormed
<1> QED
  BY <1>2, StaysAtEntry DEF dataOutOfBounds, AtEntry, Throw

LEMMA allEntriesLoadedKeeps ==
  ASSUME ElfInv, allEntriesLoaded
  PROVE  ElfInv'
<1>1. CASE entryLoadCount = 0
  <2>1. PICK m : m = Len(elf.headers)
    OBVIOUS
  <2>2. m \in Nat /\ DOMAIN elf.headers = 1 .. m /\ index = m + 1
    BY <2>1, ElfTypes DEF ElfInv, allEntriesLoaded
  <2>3. \A i \in DOMAIN elf.headers : i < index
    BY <2>2
  <2>4. Loadable = {}
    BY <1>1, <2>3 DEF ElfInv, EntriesInv, Loadable
  <2> QED
    BY <1>1, <2>4, StaysAtEntry DEF allEntriesLoaded, Throw, WellFormed
<1>2. CASE entryLoadCount # 0
  <2>1. HeaderInv'
    BY <1>2 DEF ElfInv, HeaderInv, allEntriesLoaded
  <2> QED
    BY <1>2, <2>1, StaysAtEntry DEF allEntriesLoaded, ElfInv
<1> QED
  BY <1>1, <1>2

\* One program header further.
LEMMA EntryPassed ==
  ASSUME ElfInv, AtEntry, NextEntry, UNCHANGED <<elf, stage, exception>>,
         index \in Loadable /\ SumsFit => SegmentEnd(index) <= Len(elf.blob),
         entryLoadCount' = IF index \in Loadable THEN entryLoadCount + 1 ELSE entryLoadCount,
         GoodRegions(regions)',
         Disjoint => HoldsSegments(regions', index + 1),
         LocksSegments(regions', index + 1)
  PROVE  ElfInv'
<1>1. stage = "entries" /\ index \in DOMAIN elf.headers /\ index' = index + 1
  BY DEF AtEntry, NextEntry
<1>2. PICK i, c, m : i = index /\ c = entryLoadCount /\ m = Len(elf.headers)
  OBVIOUS
<1>3. m \in Nat /\ i \in 1 .. m /\ c \in 0 .. i - 1
  BY <1>1, <1>2, ElfTypes DEF ElfInv, ElfTypeOK
<1>4. \A j \in DOMAIN elf.headers : j < index' <=> (j < index \/ j = index)
  <2>1. \A j \in 1 .. m : j < i + 1 <=> (j < i \/ j = i)
    BY <1>3
  <2> QED
    BY <1>1, <1>2, <2>1, ElfTypes DEF ElfInv
<1>5. SumsFit => HeaderEnd(index) <= Len(elf.blob)
  BY <1>1, HeaderFetched DEF AtEntry
<1>6. /\ pgmHeaderOffset' \in Address /\ pgmHeaderOffset' <= HeaderOffset(index + 1)
      /\ SumsFit /\ index + 1 \in DOMAIN elf.headers => pgmHeaderOffset' = HeaderOffset(index + 1)
  <2>1. PICK o, s, e, q : /\ o = pgmHeaderOffset /\ s = elf.e_phentsize
                          /\ e = HeaderOffset(index) /\ q = PhdrSize
    OBVIOUS
  <2>2. o \in Nat /\ s \in Nat /\ e \in Nat /\ q \in Nat /\ o <= e
    <3>1. \A x \in Address : x \in Nat
      BY AddressLimitAssumption DEF Address
    <3>2. i \in Nat \ {0}
      BY <1>3
    <3> QED
      BY <1>2, <2>1, <3>1, <3>2, ElfTypes, HeaderPlace DEF ElfInv, ElfTypeOK, EntriesInv
  <2>3. HeaderOffset(index + 1) = e + s
    <3>1. PICK p : p = elf.e_phoff
      OBVIOUS
    <3>2. p \in Nat /\ e = p + s * (i - 1) /\ HeaderOffset(i + 1) = p + s * ((i + 1) - 1)
      BY <1>2, <2>1, <3>1, ElfTypes DEF ElfInv, HeaderOffset
    <3>3. s * ((i + 1) - 1) = s * (i - 1) + s /\ s * (i - 1) \in Nat
      BY <1>3, <2>2
    <3> QED
      BY <1>2, <2>2, <3>2, <3>3
  <2>4. PICK x \in Nat : x = o + s
    BY <2>2
  <2>5. pgmHeaderOffset' = x % AddressLimit
    BY <2>1, <2>4 DEF NextEntry
  <2>6. PICK y : y = x % AddressLimit
    OBVIOUS
  <2>7. y \in Address /\ y \in Nat /\ y <= x
    <3>1. y \in Nat /\ y <= x
      BY <2>6, WrapsDown
    <3>2. x % AddressLimit \in 0 .. AddressLimit - 1
      BY AddressLimitAssumption
    <3> QED
      BY <2>6, <3>1, <3>2 DEF Address
  <2>8. y <= e + s
    BY <2>2, <2>4, <2>7
  <2>9. ASSUME SumsFit, index + 1 \in DOMAIN elf.headers
        PROVE  y = e + s
    <3>1. e + s + q < AddressLimit /\ o = e
      BY <1>1, <2>1, <2>3, <2>9 DEF SumsFit, HeaderEnd, ElfInv, EntriesInv
    <3>2. x >= 0 /\ x < AddressLimit /\ x = e + s
      BY <2>2, <2>4, <3>1, AddressLimitAssumption
    <3> QED
      BY <2>6, <3>2, Wrapping
  <2> QED
    BY <2>3, <2>5, <2>6, <2>7, <2>8, <2>9
<1>7. ElfTypeOK'
  <2>1. i + 1 \in 1 .. m + 1 /\ c \in 0 .. (i + 1) - 1 /\ c + 1 \in 0 .. (i + 1) - 1
    BY <1>3
  <2>2. index' \in 1 .. Len(elf.headers) + 1 /\ entryLoadCount' \in 0 .. index' - 1
    BY <1>1, <1>2, <2>1
  <2> QED
    BY <1>6, <2>2 DEF ElfInv, ElfTypeOK, GoodRegions
<1>8. EntriesInv'
  <2>1. /\ pgmHeaderOffset' <= HeaderOffset(index')
        /\ SumsFit /\ index' \in DOMAIN elf.headers => pgmHeaderOffset' = HeaderOffset(index')
    BY <1>1, <1>6
  <2>2. SumsFit => \A j \in DOMAIN elf.headers : j < index' => HeaderEnd(j) <= Len(elf.blob)
    BY <1>4, <1>5 DEF ElfInv, EntriesInv
  <2>3. SumsFit => \A j \in Loadable : j < index' => SegmentEnd(j) <= Len(elf.blob)
    BY <1>4 DEF ElfInv, EntriesInv, Loadable
  <2>4. entryLoadCount' # 0 <=> \E j \in Loadable : j < index'
    <3>1. c + 1 # 0
      BY <1>3
    <3>2. entryLoadCount' # 0 <=> (entryLoadCount # 0 \/ index \in Loadable)
      BY <1>2, <3>1
    <3>3. (\E j \in Loadable : j < index')
            <=> ((\E j \in Loadable : j < index) \/ index \in Loadable)
      BY <1>4 DEF Loadable
    <3> QED
      BY <3>2, <3>3 DEF ElfInv, EntriesInv
  <2>5. HeaderOffset(index)' = HeaderOffset(index')
    BY DEF HeaderOffset
  <2> QED
    BY <2>1, <2>2, <2>3, <2>4, <2>5, FileStays DEF EntriesInv
<1>9. SegmentsInv' /\ LocksInv'
  BY <1>1, FileStays DEF SegmentsInv, LocksInv
<1>10. HeaderInv'
  BY DEF ElfInv, HeaderInv
<1> QED
  BY <1>1, <1>7, <1>8, <1>9, <1>10, FileStays DEF ElfInv

LEMMA skipEntryKeeps ==
  ASSUME ElfInv, skipEntry
  PROVE  ElfInv'
<1>1. AtEntry /\ NextEntry /\ UNCHANGED <<elf, regions, entryLoadCount, stage, exception>>
  BY DEF skipEntry
<1>2. index \notin Loadable
  BY DEF skipEntry, Loadable, NextHeader
<1>3. /\ Disjoint => HoldsSegments(regions, index + 1)
      /\ LocksSegments(regions, index + 1)
  <2>1. PICK i, m : i = index /\ m = Len(elf.headers)
    OBVIOUS
  <2>2. m \in Nat /\ i \in 1 .. m /\ DOMAIN elf.headers = 1 .. m
    BY <1>1, <2>1, ElfTypes DEF ElfInv, AtEntry
  <2>3. \A j \in 1 .. m : j < i + 1 <=> (j < i \/ j = i)
    BY <2>2
  <2>4. \A j \in Loadable : j < index + 1 <=> j < index
    BY <1>2, <2>1, <2>2, <2>3 DEF Loadable
  <2>5. (Disjoint => HoldsSegments(regions, index)) /\ LocksSegments(regions, index)
    BY <1>1 DEF ElfInv, SegmentsInv, LocksInv, AtEntry
  <2> QED
    BY <2>4, <2>5 DEF HoldsSegments, LocksSegments
<1> QED
  BY <1>1, <1>2, <1>3, EntryPassed DEF ElfInv

\* Regions that are segments have their bytes, and hold what is placed in them.
LEMMA SegmentHolds ==
  ASSUME elf \in Elfs, NEW i \in DOMAIN elf.headers, NEW r, IsSegment(r, elf.headers[i]),
         NEW a \in Address
  PROVE  Holds(r, a, ByteSize) <=> a \in Segment(elf.headers[i])
<1>1. PICK p, f, h : h = elf.headers[i] /\ p = h.p_paddr /\ f = h.p_filesz
  OBVIOUS
<1>2. p \in Nat /\ f \in Nat /\ a \in Nat /\ AddressLimit \in Nat /\ a < AddressLimit
  <2>1. \A x \in Address : x \in Nat /\ x < AddressLimit
    BY AddressLimitAssumption DEF Address
  <2> QED
    BY <1>1, <2>1, HeaderTypes, AddressLimitAssumption DEF ProgramHeader
<1>3. r.baseAddress = p /\ r.size = f /\ p + f <= AddressLimit
  BY <1>1 DEF IsSegment
<1>4. \A k \in 1 .. f : Place(h, k) = p + k - 1
  <2> TAKE k \in 1 .. f
  <2>1. PICK x \in Int : x = p + k - 1
    BY <1>2
  <2>2. x >= 0 /\ x < AddressLimit
    BY <1>2, <1>3, <2>1
  <2>3. x % AddressLimit = x
    BY <2>2, Wrapping
  <2> QED
    BY <1>1, <2>1, <2>3 DEF Place
<1>5. Segment(h) = {p + k - 1 : k \in 1 .. f}
  BY <1>1, <1>4 DEF Segment
<1>6. Holds(r, a, ByteSize) <=> (a >= p /\ a + 1 <= p + f)
  BY <1>3 DEF Holds, ByteSize
<1>7. (a >= p /\ a + 1 <= p + f) <=> \E k \in 1 .. f : a = p + k - 1
  <2>1. ASSUME a >= p, a + 1 <= p + f
        PROVE  \E k \in 1 .. f : a = p + k - 1
    <3>1. PICK k \in Int : k = a - p + 1
      BY <1>2
    <3>2. k \in 1 .. f /\ a = p + k - 1
      BY <1>2, <2>1, <3>1
    <3> QED
      BY <3>2
  <2>2. ASSUME NEW k \in 1 .. f, a = p + k - 1
        PROVE  a >= p /\ a + 1 <= p + f
    BY <1>2, <2>2
  <2> QED
    BY <2>1, <2>2
<1> QED
  BY <1>1, <1>5, <1>6, <1>7

LEMMA SegmentsFilled ==
  ASSUME NEW rs, GoodRegions(rs), NEW n, HoldsSegments(rs, n)
  PROVE  Filled(rs)
  BY DEF GoodRegions, HoldsSegments, IsSegment, Filled

\* What a load adds: the segment of the program header, and nothing is where it goes.
LEMMA SegmentAdded ==
  ASSUME ElfInv, AtEntry, Disjoint, index \in Loadable,
         NEW data, IsDataOf(data, elf.headers[index]),
         NEW regionOk \in BOOLEAN, NEW countsOk \in BOOLEAN,
         LoadEntry(regions, elf.headers[index], data, regionOk, countsOk).exception = noException
  PROVE  HoldsSegments(LoadEntry(regions, elf.headers[index], data, regionOk, countsOk).regions,
                       index + 1)
<1>1. PICK i, m, h, rs : /\ i = index /\ m = Len(elf.headers)
                         /\ h = elf.headers[index] /\ rs = regions
  OBVIOUS
<1>2. /\ m \in Nat /\ i \in 1 .. m /\ DOMAIN elf.headers = 1 .. m
      /\ h \in ProgramHeader /\ elf \in Elfs
  BY <1>1, ElfTypes, HeaderTypes DEF ElfInv, AtEntry
<1>3. HoldsSegments(rs, i) /\ GoodRegions(rs) /\ Filled(rs)
  BY <1>1, SegmentsFilled DEF ElfInv, SegmentsInv, AtEntry
<1>4. \A j \in 1 .. m : j < i + 1 <=> (j < i \/ j = i)
  BY <1>2
<1>5. \A j \in Loadable : /\ j < i + 1 <=> (j < i \/ j = i)
                          /\ j < i => j # i
  <2>1. \A j \in 1 .. m : j < i => j # i
    BY <1>2
  <2> QED
    BY <1>2, <1>4, <2>1 DEF Loadable
<1>6. ASSUME NEW j \in DOMAIN rs, NEW k \in 1 .. h.p_filesz
      PROVE  ~Holds(rs[j], Place(h, k), ByteSize)
  <2>1. PICK l \in Loadable : l < i /\ IsSegment(rs[j], elf.headers[l])
    BY <1>3 DEF HoldsSegments
  <2>2. Place(h, k) \in Segment(h)
    BY DEF Segment
  <2>3. Place(h, k) \notin Segment(elf.headers[l])
    <3>1. l # i /\ i \in Loadable /\ l \in Loadable
      BY <1>1, <1>5, <2>1
    <3> QED
      BY <1>1, <2>2, <3>1 DEF Disjoint
  <2>4. Place(h, k) \in Address
    <3>1. PICK x \in Int : x = h.p_paddr + k - 1
      <4>1. h.p_paddr \in Address /\ h.p_filesz \in Address
        BY <1>2 DEF ProgramHeader
      <4> QED
        BY <4>1, AddressLimitAssumption DEF Address
    <3>2. x % AddressLimit \in Address
      BY AddressLimitAssumption DEF Address
    <3> QED
      BY <3>1, <3>2 DEF Place
  <2>5. l \in DOMAIN elf.headers
    BY DEF Loadable
  <2> QED
    BY <1>2, <2>1, <2>3, <2>4, <2>5, SegmentHolds
<1>7. PICK new : new = LoadEntry(rs, h, data, regionOk, countsOk).regions
  OBVIOUS
<1>8. PICK z : z = Len(rs)
  OBVIOUS
<1>9. z \in Nat /\ DOMAIN rs = 1 .. z
  BY <1>3, <1>8, LenProperties DEF Filled
<1>10. /\ DOMAIN new = 1 .. z + 1
       /\ \A j \in DOMAIN rs : new[j] = rs[j]
       /\ new[z + 1].baseAddress = h.p_paddr /\ new[z + 1].size = h.p_filesz
       /\ h.p_paddr + h.p_filesz <= AddressLimit
       /\ new[z + 1].pData = data
       /\ new[z + 1].isReadOnly /\ ~new[z + 1].isAlias
  <2>1. h.p_filesz # 0 /\ IsDataOf(data, h)
    BY <1>1 DEF Loadable, isFlashLoadableEntry
  <2>2. LoadEntry(rs, h, data, regionOk, countsOk).exception = noException
    BY <1>1
  <2> QED
    BY <1>2, <1>3, <1>6, <1>7, <1>8, <2>1, <2>2, SegmentLoaded
<1>11. data \in Seq(Byte) /\ Len(data) = h.p_filesz /\ IsDataOf(data, h)
  BY <1>1, <1>2, DataTypes
<1>12. new[z + 1] \in MemoryRegion
  <2>1. GoodRegions(new)
    BY <1>2, <1>3, <1>7, <1>11, LoadEntryGood
  <2>2. z + 1 \in DOMAIN new
    BY <1>9, <1>10
  <2> QED
    BY <2>1, <2>2, ElementOfSeq, LenProperties DEF GoodRegions
<1>13. IsSegment(new[z + 1], h)
  BY <1>10, <1>11, <1>12 DEF IsSegment
<1>14. \A j \in DOMAIN new : j \in DOMAIN rs \/ j = z + 1
  BY <1>9, <1>10
<1>15. \A j \in DOMAIN rs : j \in DOMAIN new
  BY <1>9, <1>10
<1>16. z + 1 \in DOMAIN new
  BY <1>9, <1>10
<1>17. HoldsSegments(new, i + 1)
  <2>1. ASSUME NEW j \in DOMAIN new
        PROVE  \E l \in Loadable : l < i + 1 /\ IsSegment(new[j], elf.headers[l])
    <3>1. CASE j = z + 1
      BY <1>1, <1>5, <1>13, <3>1
    <3>2. CASE j \in DOMAIN rs
      <4>1. PICK l \in Loadable : l < i /\ IsSegment(rs[j], elf.headers[l])
        BY <1>3, <3>2 DEF HoldsSegments
      <4> QED
        BY <1>5, <1>10, <3>2, <4>1
    <3> QED
      BY <1>14, <3>1, <3>2
  <2>2. ASSUME NEW l \in Loadable, l < i + 1
        PROVE  \E j \in DOMAIN new : IsSegment(new[j], elf.headers[l])
    <3>1. CASE l = i
      BY <1>1, <1>13, <1>16, <3>1
    <3>2. CASE l < i
      <4>1. PICK j \in DOMAIN rs : IsSegment(rs[j], elf.headers[l])
        BY <1>3, <3>2 DEF HoldsSegments
      <4> QED
        BY <1>10, <1>15, <4>1
    <3> QED
      BY <1>5, <2>2, <3>1, <3>2
  <2> QED
    BY <2>1, <2>2 DEF HoldsSegments
<1> QED
  BY <1>1, <1>7, <1>17

\* Loading an image changes the data of the regions and nothing else.
LEMMA LoadFields ==
  ASSUME NEW rs, GoodRegions(rs), NEW baseAddress, NEW image, NEW i \in DOMAIN rs
  PROVE  LET new == LoadFromFlashImage(rs, baseAddress, image).regions
         IN  /\ SamePlace(rs[i], new[i])
             /\ new[i].isReadOnly = rs[i].isReadOnly /\ new[i].pReadCounts = rs[i].pReadCounts
<1> DEFINE ks      == Stored(rs, baseAddress, Len(image))
           new     == StoreChunks(rs, baseAddress, image, ks)
           Into(j, b) == StoresInto(rs, baseAddress, Len(image), ks, j, b)
           Data(j) == [b \in 1 .. Len(rs[j].pData) |->
                         IF Into(j, b) = {} THEN rs[j].pData[b]
                         ELSE StoredByte(rs, baseAddress, image, Max(Into(j, b)), b)]
<1>1. LoadFromFlashImage(rs, baseAddress, image).regions = new
  BY DEF LoadFromFlashImage, Returns, Throws
<1>2. new = [j \in DOMAIN rs |-> [rs[j] EXCEPT !.pData = Data(j)]]
  BY DEF StoreChunks
<1> HIDE DEF new, Data
<1>3. rs[i] \in MemoryRegion /\ new[i] = [rs[i] EXCEPT !.pData = Data(i)]
  BY <1>2, GoodElement DEF GoodRegion
<1> QED
  BY <1>1, <1>3 DEF SamePlace, MemoryRegion

\* Making a region read-only: the region that an address is found in has its counters,
\* and the others are as they were.
LEMMA LockFields ==
  ASSUME NEW rs, GoodRegions(rs), NEW baseAddress \in Address, NEW ok,
         MakeRegionReadOnly(rs, baseAddress, ok).exception = noException
  PROVE  LET new == MakeRegionReadOnly(rs, baseAddress, ok).regions
             i   == findMatchingRegion(rs, baseAddress, 1).region
         IN  /\ Matching(rs, baseAddress, 1) # {} /\ i \in DOMAIN rs
             /\ DOMAIN new = DOMAIN rs
             /\ \A j \in DOMAIN rs : j # i => new[j] = rs[j]
             /\ SamePlace(rs[i], new[i])
             /\ new[i].isReadOnly /\ new[i].pReadCounts = ZeroReadCounts(new[i].size)
<1> DEFINE i    == findMatchingRegion(rs, baseAddress, 1).region
           only == [rs EXCEPT ![i].isReadOnly = TRUE]
           new  == [only EXCEPT ![i].pReadCounts = ZeroReadCounts(rs[i].size)]
<1>1. /\ Matching(rs, baseAddress, 1) # {}
      /\ MakeRegionReadOnly(rs, baseAddress, ok).regions = new
  BY DEF MakeRegionReadOnly, Returns, Throws, noException, outOfMemoryException,
         busErrorException
<1>2. i \in DOMAIN rs /\ rs[i] \in MemoryRegion
  BY <1>1, FindGood DEF GoodRegion
<1> HIDE DEF i
<1>3. /\ DOMAIN only = DOMAIN rs /\ only[i] = [rs[i] EXCEPT !.isReadOnly = TRUE]
      /\ \A j \in DOMAIN rs : j # i => only[j] = rs[j]
  BY <1>2
<1> HIDE DEF only
<1>4. /\ DOMAIN new = DOMAIN rs
      /\ new[i] = [only[i] EXCEPT !.pReadCounts = ZeroReadCounts(rs[i].size)]
      /\ \A j \in DOMAIN rs : j # i => new[j] = rs[j]
  BY <1>2, <1>3
<1> HIDE DEF new
<1>5. /\ SamePlace(rs[i], new[i]) /\ new[i].isReadOnly
      /\ new[i].pReadCounts = ZeroReadCounts(new[i].size)
  BY <1>2, <1>3, <1>4 DEF SamePlace, MemoryRegion
<1> QED
  BY <1>1, <1>2, <1>4, <1>5 DEF i

\* What is locked stays locked behind regions that keep their places.
LEMMA StaysLocked ==
  ASSUME NEW old, GoodRegions(old), NEW new, GoodRegions(new), KeepsPlaces(old, new),
         \A i \in DOMAIN old : old[i].isReadOnly => new[i].isReadOnly,
         NEW a \in Address, IsLocked(old, a)
  PROVE  IsLocked(new, a)
<1>1. Matching(old, a, ByteSize) # {}
  BY DEF IsLocked
<1>2. findMatchingRegion(new, a, ByteSize) = findMatchingRegion(old, a, ByteSize)
  BY <1>1, SameFinds DEF GoodRegions
<1>3. Matching(new, a, ByteSize) # {}
  BY <1>1 DEF Matching, KeepsPlaces, SamePlace, Holds
<1>4. findMatchingRegion(old, a, ByteSize).region \in DOMAIN old
  BY <1>1, FindGood DEF ByteSize
<1> QED
  BY <1>1, <1>2, <1>3, <1>4 DEF IsLocked, IsPermitted

\* Loading an entry locks its first byte, and leaves the locks that are there.
LEMMA EntryLocked ==
  ASSUME NEW rs, GoodRegions(rs), NEW h \in ProgramHeader, NEW data \in Seq(Byte),
         \A k \in DOMAIN rs : ~rs[k].isAlias /\ IsLockedOrShadowed(rs, k),
         NEW regionOk \in BOOLEAN, NEW countsOk \in BOOLEAN,
         LoadEntry(rs, h, data, regionOk, countsOk).exception = noException
  PROVE  LET new == LoadEntry(rs, h, data, regionOk, countsOk).regions
         IN  /\ \A k \in DOMAIN new : ~new[k].isAlias /\ IsLockedOrShadowed(new, k)
             /\ IsLocked(new, h.p_paddr)
             /\ \A a \in Address : IsLocked(rs, a) => IsLocked(new, a)
<1>1. PICK base, n, z : base = h.p_paddr /\ n = h.p_filesz /\ z = Len(rs)
  OBVIOUS
<1>2. /\ base \in Address /\ n \in Address /\ z \in Nat /\ DOMAIN rs = 1 .. z
      /\ rs \in Seq(MemoryRegion)
  BY <1>1, LenProperties DEF ProgramHeader, GoodRegions
<1> DEFINE r       == NewRegion(base, n)
           created == Append(rs, r)
           load    == LoadFromFlashImage(created, base, data)
           loaded  == load.regions
           lock    == MakeRegionReadOnly(loaded, base, countsOk)
           new     == lock.regions
           i       == findMatchingRegion(loaded, base, 1).region
<1>3. lock.exception = noException /\ LoadEntry(rs, h, data, regionOk, countsOk) = lock
  BY <1>1 DEF LoadEntry, CreateRegion, Returns, Throws, noException, outOfMemoryException
<1>4. GoodRegions(created)
  <2>1. created = CreateRegion(rs, base, n, TRUE).regions
    BY DEF CreateRegion, Returns
  <2> QED
    BY <1>2, <2>1, CreateRegionGood
<1>5. /\ DOMAIN created = 1 .. z + 1 /\ created[z + 1] = r
      /\ \A k \in DOMAIN rs : created[k] = rs[k]
  BY <1>1, <1>2
<1>6. r.baseAddress = base /\ ~r.isReadOnly /\ ~r.isAlias
  BY DEF NewRegion
<1> HIDE DEF r, created
<1>7. GoodRegions(loaded) /\ DOMAIN loaded = DOMAIN created
  BY <1>2, <1>4, LoadGood, LoadPlaces
<1>8. \A k \in DOMAIN created :
        /\ SamePlace(created[k], loaded[k])
        /\ loaded[k].isReadOnly = created[k].isReadOnly
        /\ loaded[k].pReadCounts = created[k].pReadCounts
  BY <1>4, LoadFields
<1> HIDE DEF load, loaded
<1>9. /\ Matching(loaded, base, 1) # {} /\ i \in DOMAIN loaded
      /\ DOMAIN new = DOMAIN loaded
      /\ \A k \in DOMAIN loaded : k # i => new[k] = loaded[k]
      /\ SamePlace(loaded[i], new[i])
      /\ new[i].isReadOnly /\ new[i].pReadCounts = ZeroReadCounts(new[i].size)
  BY <1>2, <1>3, <1>7, LockFields
<1>10. GoodRegions(new)
  BY <1>2, <1>7, MakeRegionReadOnlyGood
<1>11. i \in Matching(loaded, base, 1) \/ loaded[Min(Matching(loaded, base, 1))].isAlias
  <2>1. Matching(loaded, base, 1) \in SUBSET Nat
    BY <1>2, <1>5, <1>7 DEF Matching
  <2>2. Min(Matching(loaded, base, 1)) \in Matching(loaded, base, 1)
    BY <1>9, <2>1, MinIsLeast
  <2> QED
    BY <2>2 DEF findMatchingRegion
<1> HIDE DEF lock, i
<1>12. \A k \in DOMAIN rs : k \in DOMAIN created
  BY <1>2, <1>5
<1>13. \A k \in DOMAIN created : k \in DOMAIN rs \/ k = z + 1
  BY <1>2, <1>5
<1>14. \A k \in DOMAIN created : SamePlace(created[k], new[k])
  <2>1. ASSUME NEW k \in DOMAIN created
        PROVE  SamePlace(loaded[k], new[k])
    BY <1>7, <1>9 DEF SamePlace
  <2> QED
    BY <1>8, <2>1 DEF SamePlace
<1>15. /\ KeepsPlaces(rs, new) /\ KeepsPlaces(loaded, new)
       /\ \A k \in DOMAIN rs : rs[k].isReadOnly => new[k].isReadOnly
       /\ \A k \in DOMAIN new : ~new[k].isAlias
  <2>1. KeepsPlaces(rs, new)
    BY <1>5, <1>7, <1>9, <1>12, <1>14 DEF KeepsPlaces
  <2>2. KeepsPlaces(loaded, new)
    BY <1>7, <1>8, <1>9, <1>14 DEF KeepsPlaces, SamePlace
  <2>3. \A k \in DOMAIN rs : rs[k].isReadOnly => new[k].isReadOnly
    BY <1>5, <1>7, <1>8, <1>9, <1>12
  <2>4. \A k \in DOMAIN created : ~created[k].isAlias
    BY <1>5, <1>6, <1>13
  <2> QED
    BY <1>7, <1>9, <1>14, <2>1, <2>2, <2>3, <2>4 DEF SamePlace
<1>16. IsLocked(new, base)
  <2>1. findMatchingRegion(new, base, 1) = findMatchingRegion(loaded, base, 1)
    BY <1>7, <1>9, <1>10, <1>15, SameFinds DEF GoodRegions
  <2>2. Matching(new, base, 1) # {}
    BY <1>9, <1>15 DEF Matching, KeepsPlaces, SamePlace, Holds
  <2> QED
    BY <1>9, <2>1, <2>2 DEF IsLocked, IsPermitted, ByteSize, i
<1>17. ASSUME NEW a \in Address, IsLocked(rs, a)
       PROVE  IsLocked(new, a)
  BY <1>10, <1>15, <1>17, StaysLocked
<1>18. ASSUME NEW k \in DOMAIN new
       PROVE  IsLockedOrShadowed(new, k)
  <2>1. CASE k = i
    BY <1>9, <2>1 DEF IsLockedOrShadowed
  <2>2. CASE k # i /\ k \in DOMAIN rs
    <3>1. /\ new[k].isReadOnly = rs[k].isReadOnly /\ new[k].pReadCounts = rs[k].pReadCounts
          /\ new[k].size = rs[k].size /\ new[k].baseAddress = rs[k].baseAddress
      BY <1>5, <1>7, <1>8, <1>9, <1>12, <1>14, <2>2 DEF SamePlace
    <3>2. ASSUME NEW j \in 1 .. k - 1, Holds(rs[j], rs[k].baseAddress, ByteSize)
          PROVE  Holds(new[j], new[k].baseAddress, ByteSize)
      <4>1. j \in DOMAIN rs
        BY <1>2, <2>2
      <4> QED
        BY <1>15, <3>1, <3>2, <4>1 DEF KeepsPlaces, SamePlace, Holds
    <3> QED
      BY <2>2, <3>1, <3>2 DEF IsLockedOrShadowed
  <2>3. CASE k # i /\ k = z + 1
    <3>1. ~new[k].isReadOnly /\ new[k].baseAddress = base
      BY <1>5, <1>6, <1>7, <1>8, <1>9, <1>14, <2>3 DEF SamePlace
    <3>2. i \in 1 .. k - 1
      BY <1>2, <1>5, <1>7, <1>9, <2>3
    <3>3. \A j \in DOMAIN loaded : ~loaded[j].isAlias
      BY <1>7, <1>8, <1>14, <1>15, <1>9 DEF SamePlace
    <3>4. i \in Matching(loaded, base, 1)
      <4>1. Min(Matching(loaded, base, 1)) \in DOMAIN loaded
        <5>1. Matching(loaded, base, 1) \in SUBSET Nat
          BY <1>2, <1>5, <1>7 DEF Matching
        <5> QED
          BY <1>9, <5>1, MinIsLeast DEF Matching
      <4> QED
        BY <1>11, <3>3, <4>1
    <3>5. Holds(new[i], base, ByteSize)
      BY <1>9, <3>4 DEF Matching, Holds, SamePlace, ByteSize
    <3> QED
      BY <3>1, <3>2, <3>5 DEF IsLockedOrShadowed
  <2> QED
    BY <1>7, <1>9, <1>13, <2>1, <2>2, <2>3
<1> QED
  BY <1>1, <1>3, <1>15, <1>16, <1>17, <1>18 DEF lock

\* What a load locks: the segment of the program header, and those before it.
LEMMA SegmentLocked ==
  ASSUME ElfInv, AtEntry, NEW data \in Seq(Byte),
         NEW regionOk \in BOOLEAN, NEW countsOk \in BOOLEAN,
         LoadEntry(regions, elf.headers[index], data, regionOk, countsOk).exception = noException
  PROVE  LocksSegments(LoadEntry(regions, elf.headers[index], data, regionOk, countsOk).regions,
                       index + 1)
<1>1. PICK i, m, h, rs : /\ i = index /\ m = Len(elf.headers)
                         /\ h = elf.headers[index] /\ rs = regions
  OBVIOUS
<1>2. /\ m \in Nat /\ i \in 1 .. m /\ DOMAIN elf.headers = 1 .. m
      /\ h \in ProgramHeader /\ elf \in Elfs /\ GoodRegions(rs)
  BY <1>1, ElfTypes, HeaderTypes DEF ElfInv, AtEntry
<1>3. LocksSegments(rs, i)
  BY <1>1 DEF ElfInv, LocksInv, AtEntry
<1>4. PICK new : new = LoadEntry(rs, h, data, regionOk, countsOk).regions
  OBVIOUS
<1>5. /\ \A k \in DOMAIN new : ~new[k].isAlias /\ IsLockedOrShadowed(new, k)
      /\ IsLocked(new, h.p_paddr)
      /\ \A a \in Address : IsLocked(rs, a) => IsLocked(new, a)
  <2>1. \A k \in DOMAIN rs : ~rs[k].isAlias /\ IsLockedOrShadowed(rs, k)
    BY <1>3 DEF LocksSegments
  <2>2. LoadEntry(rs, h, data, regionOk, countsOk).exception = noException
    BY <1>1
  <2> QED
    BY <1>2, <1>4, <2>1, <2>2, EntryLocked
<1>6. \A l \in 1 .. m : l < i + 1 => l < i \/ l = i
  BY <1>2
<1>7. ASSUME NEW l \in Loadable, l < i + 1
      PROVE  IsLocked(new, elf.headers[l].p_paddr)
  <2>1. l \in DOMAIN elf.headers /\ (l < i \/ l = i)
    BY <1>2, <1>6, <1>7 DEF Loadable
  <2>2. elf.headers[l].p_paddr \in Address
    BY <1>2, <2>1, HeaderTypes DEF ProgramHeader
  <2> QED
    BY <1>1, <1>3, <1>5, <2>1, <2>2 DEF LocksSegments
<1>8. LocksSegments(new, i + 1)
  BY <1>5, <1>7 DEF LocksSegments
<1> QED
  BY <1>1, <1>4, <1>8

LEMMA loadEntryKeeps ==
  ASSUME ElfInv, loadEntry
  PROVE  ElfInv'
<1>1. /\ AtEntry /\ UNCHANGED elf /\ index \in Loadable /\ stage = "entries"
      /\ Fetches(NextHeader.p_offset, NextHeader.p_filesz)
  BY DEF loadEntry, AtEntry, Loadable, NextHeader
<1>2. SumsFit => SegmentEnd(index) <= Len(elf.blob)
  BY <1>1, DataFetched
<1>3. PICK h : h = elf.headers[index]
  OBVIOUS
<1>4. PICK regionOk, countsOk \in MallocOutcomes, behind \in Behind :
        LET result == LoadEntry(regions, h, SegmentData(h, behind), regionOk, countsOk)
        IN  /\ regions' = result.regions
            /\ \/ /\ result.exception = noException
                  /\ entryLoadCount' = entryLoadCount + 1
                  /\ NextEntry
                  /\ UNCHANGED <<stage, exception>>
               \/ /\ result.exception # noException
                  /\ Throw(result.exception)
                  /\ UNCHANGED <<index, pgmHeaderOffset, entryLoadCount>>
  BY <1>3 DEF loadEntry, NextHeader
<1>5. PICK data : data = SegmentData(h, behind)
  OBVIOUS
<1>6. /\ regionOk \in BOOLEAN /\ countsOk \in BOOLEAN /\ h \in ProgramHeader
      /\ IsDataOf(data, h) /\ data \in Seq(Byte)
  <2>1. /\ regionOk \in BOOLEAN /\ countsOk \in BOOLEAN /\ h \in ProgramHeader
        /\ elf.blob \in Seq(Byte)
    BY <1>1, <1>3, ElfAssumption, ElfTypes, HeaderTypes DEF ElfInv, Loadable
  <2>2. h.p_offset <= Len(elf.blob) /\ behind \in [Address -> Byte]
    BY <1>1, <1>3, BehindAssumption DEF Fetches, NextHeader
  <2> QED
    BY <1>5, <2>1, <2>2, SegmentBytes, DataTypes
<1>7. GoodRegions(regions)'
  BY <1>4, <1>5, <1>6, LoadEntryGood DEF ElfInv
<1>8. PICK e : e = LoadEntry(regions, h, data, regionOk, countsOk).exception
  OBVIOUS
<1>9. e \in {noException, outOfMemoryException, busErrorException}
  BY <1>8, LoadEntryExceptions
<1>10. CASE e = noException
  <2>1. /\ NextEntry /\ UNCHANGED <<stage, exception>>
        /\ entryLoadCount' = entryLoadCount + 1
        /\ regions' = LoadEntry(regions, h, data, regionOk, countsOk).regions
    BY <1>4, <1>5, <1>8, <1>10
  <2>2. Disjoint => HoldsSegments(regions', index + 1)
    BY <1>1, <1>3, <1>6, <1>8, <1>10, <2>1, SegmentAdded
  <2>3. LocksSegments(regions', index + 1)
    BY <1>1, <1>3, <1>6, <1>8, <1>10, <2>1, SegmentLocked
  <2> QED
    BY <1>1, <1>2, <1>7, <2>1, <2>2, <2>3, EntryPassed
<1>11. CASE e # noException
  <2>1. /\ stage' = "failed" /\ exception' = e
        /\ UNCHANGED <<elf, index, pgmHeaderOffset, entryLoadCount>>
    BY <1>1, <1>4, <1>5, <1>8, <1>11 DEF Throw
  <2>2. exception' \in {outOfMemoryException, busErrorException}
    BY <1>9, <1>11, <2>1
  <2>3. ElfTypeOK'
    BY <1>7, <2>1, <2>2 DEF ElfInv, ElfTypeOK, GoodRegions
  <2>4. EntriesInv'
    BY <2>1, FileStays DEF ElfInv, EntriesInv
  <2>5. HeaderInv' /\ SegmentsInv' /\ LocksInv'
    BY <2>1 DEF HeaderInv, SegmentsInv, LocksInv
  <2>6. exception' # elfFormatException
    BY <2>2 DEF elfFormatException, outOfMemoryException, busErrorException
  <2> QED
    BY <1>7, <2>1, <2>3, <2>4, <2>5, <2>6 DEF ElfInv
<1> QED
  BY <1>10, <1>11

LEMMA StutterKeepsElf ==
  ASSUME ElfInv, UNCHANGED vars
  PROVE  ElfInv'
<1>1. UNCHANGED <<elf, regions, index, pgmHeaderOffset, entryLoadCount, stage, exception>>
  BY DEF vars
<1>2. ElfTypeOK' /\ HeaderInv' /\ GoodRegions(regions)'
  BY <1>1 DEF ElfInv, ElfTypeOK, HeaderInv
<1>3. EntriesInv'
  BY <1>1, FileStays DEF ElfInv, EntriesInv
<1>4. SegmentsInv' /\ LocksInv'
  BY <1>1, FileStays DEF ElfInv, SegmentsInv, LocksInv
<1> QED
  BY <1>1, <1>2, <1>3, <1>4, FileStays DEF ElfInv

\* One case for each action.
LEMMA NextElfInv == ElfInv /\ [Next]_vars => ElfInv'
<1> SUFFICES ASSUME ElfInv, [Next]_vars PROVE ElfInv'
  OBVIOUS
<1>1. CASE validateElfHeaderContents
  BY <1>1, validateElfHeaderContentsKeeps
<1>2. CASE entryOutOfBounds
  BY <1>2, entryOutOfBoundsKeeps
<1>3. CASE skipEntry
  BY <1>3, skipEntryKeeps
<1>4. CASE dataOutOfBounds
  BY <1>4, dataOutOfBoundsKeeps
<1>5. CASE loadEntry
  BY <1>5, loadEntryKeeps
<1>6. CASE allEntriesLoaded
  BY <1>6, allEntriesLoadedKeeps
<1>7. CASE UNCHANGED vars
  BY <1>7, StutterKeepsElf
<1> QED
  BY <1>1, <1>2, <1>3, <1>4, <1>5, <1>6, <1>7 DEF Next

(***************************************************************************)
(* The theorems.                                                           *)
(***************************************************************************)

\* Where the loop is in the file, and what it has loaded (ElfLoad_FromMemory).
THEOREM ElfInvHolds == Spec => []ElfInv
<1> QED
  BY InitElfInv, NextElfInv, PTL DEF Spec

\* The loop stays within the program headers, counts no more loads than it has passed
\* and throws nothing but its three exceptions (ElfLoad_FromMemory).
THEOREM TypeCorrect == Spec => []ElfTypeOK
<1>1. ElfInv => ElfTypeOK
  BY DEF ElfInv
<1> QED
  BY <1>1, ElfInvHolds, PTL

\* For every file: it is refused as malformed only if some of it is, wherever in the loop
\* that comes out, and loaded only if all of it is well formed, or the end of one of its
\* parts does not fit in 32 bits (validateElfHeaderContents, fetchSizedByteArray).
THEOREM FormatChecked == Spec => []ElfFormatIsChecked
<1>1. ElfInv => ElfFormatIsChecked
  <2> SUFFICES ASSUME ElfInv, stage = "done", SumsFit PROVE WellFormed
    BY DEF ElfInv, ElfFormatIsChecked
  <2>1. PICK m : m = Len(elf.headers)
    OBVIOUS
  <2>2. m \in Nat /\ DOMAIN elf.headers = 1 .. m /\ index = m + 1
    BY <2>1, ElfTypes DEF ElfInv
  <2>3. \A i \in DOMAIN elf.headers : i < index
    BY <2>2
  <2>4. \A i \in DOMAIN elf.headers : HeaderEnd(i) <= Len(elf.blob)
    BY <2>3 DEF ElfInv, EntriesInv
  <2>5. \A i \in Loadable : SegmentEnd(i) <= Len(elf.blob)
    BY <2>3 DEF ElfInv, EntriesInv, Loadable
  <2>6. Loadable # {}
    BY DEF ElfInv, EntriesInv
  <2> QED
    BY <2>4, <2>5, <2>6 DEF ElfInv, HeaderInv, WellFormed
<1> QED
  BY <1>1, ElfInvHolds, PTL

\* For every file, whatever its offsets, and however its segments lie: in a loaded file
\* the first byte of each segment is there and cannot be written, and a region without
\* its counters is a writable one that an earlier segment is in the way of
\* (loadIfFlashLoadableEntry, MemorySim_MakeRegionReadOnly).
THEOREM SegmentsLocked == Spec => []SegmentsAreLocked
<1>1. ElfInv => SegmentsAreLocked
  <2> SUFFICES ASSUME ElfInv, stage = "done"
               PROVE  /\ \A i \in Loadable : IsLocked(regions, elf.headers[i].p_paddr)
                      /\ \A k \in DOMAIN regions : IsLockedOrShadowed(regions, k)
    BY DEF SegmentsAreLocked
  <2>1. PICK m : m = Len(elf.headers)
    OBVIOUS
  <2>2. m \in Nat /\ DOMAIN elf.headers = 1 .. m /\ index = m + 1
    BY <2>1, ElfTypes DEF ElfInv
  <2>3. \A i \in Loadable : i < index
    BY <2>2 DEF Loadable
  <2> QED
    BY <2>3 DEF ElfInv, LocksInv, LocksSegments
<1> QED
  BY <1>1, ElfInvHolds, PTL

\* However its segments lie, as long as they are apart: the memory of a loaded file is
\* its segments, none of them writable, and nothing beside them, and holds the bytes of
\* the file as far as it goes (loadIfFlashLoadableEntry).
THEOREM FileLoaded == Spec => []ElfIsLoaded
<1>1. ElfInv => ElfIsLoaded
  <2> SUFFICES ASSUME ElfInv, stage = "done", Disjoint
               PROVE  /\ \A a \in Address :
                           Matching(regions, a, ByteSize) # {} <=>
                             \E i \in Loadable : a \in Segment(elf.headers[i])
                      /\ \A i \in Loadable : \A k \in 1 .. elf.headers[i].p_filesz :
                           LET a == Place(elf.headers[i], k)
                               o == elf.headers[i].p_offset + k
                           IN  /\ o <= Len(elf.blob) => ByteOf(regions, a) = elf.blob[o]
                               /\ ~IsPermitted(regions, a, ByteSize, WRITING)
    BY DEF ElfIsLoaded
  <2>1. PICK m : m = Len(elf.headers)
    OBVIOUS
  <2>2. m \in Nat /\ DOMAIN elf.headers = 1 .. m /\ index = m + 1 /\ elf \in Elfs
    BY <2>1, ElfTypes DEF ElfInv
  <2>3. \A i \in Loadable : i < index /\ i \in DOMAIN elf.headers
    BY <2>2 DEF Loadable
  <2>4. HoldsSegments(regions, index) /\ Filled(regions)
    BY SegmentsFilled DEF ElfInv, SegmentsInv
  <2>5. /\ \A j \in DOMAIN regions : \E i \in Loadable : IsSegment(regions[j], elf.headers[i])
        /\ \A i \in Loadable : \E j \in DOMAIN regions : IsSegment(regions[j], elf.headers[i])
    BY <2>3, <2>4 DEF HoldsSegments
  <2>6. ASSUME NEW a \in Address
        PROVE  Matching(regions, a, ByteSize) # {} <=>
                 \E i \in Loadable : a \in Segment(elf.headers[i])
    <3>1. ASSUME NEW j \in Matching(regions, a, ByteSize)
          PROVE  \E i \in Loadable : a \in Segment(elf.headers[i])
      <4>1. j \in DOMAIN regions /\ Holds(regions[j], a, ByteSize)
        BY DEF Matching
      <4>2. PICK i \in Loadable : IsSegment(regions[j], elf.headers[i])
        BY <2>5, <4>1
      <4> QED
        BY <2>2, <2>3, <4>1, <4>2, SegmentHolds
    <3>2. ASSUME NEW i \in Loadable, a \in Segment(elf.headers[i])
          PROVE  Matching(regions, a, ByteSize) # {}
      <4>1. PICK j \in DOMAIN regions : IsSegment(regions[j], elf.headers[i])
        BY <2>5
      <4>2. Holds(regions[j], a, ByteSize)
        BY <2>2, <2>3, <3>2, <4>1, SegmentHolds
      <4> QED
        BY <4>2 DEF Matching
    <3> QED
      BY <3>1, <3>2
  <2>7. ASSUME NEW i \in Loadable, NEW k \in 1 .. elf.headers[i].p_filesz
        PROVE  /\ elf.headers[i].p_offset + k <= Len(elf.blob) =>
                    ByteOf(regions, Place(elf.headers[i], k))
                      = elf.blob[elf.headers[i].p_offset + k]
               /\ ~IsPermitted(regions, Place(elf.headers[i], k), ByteSize, WRITING)
    <3>1. PICK h, p, f : h = elf.headers[i] /\ p = h.p_paddr /\ f = h.p_filesz
      OBVIOUS
    <3>2. /\ p \in Nat /\ f \in Nat /\ k \in 1 .. f /\ AddressLimit \in Nat
          /\ h \in ProgramHeader
      <4>1. \A x \in Address : x \in Nat
        BY AddressLimitAssumption DEF Address
      <4>2. h \in ProgramHeader /\ h.p_paddr \in Address /\ h.p_filesz \in Address
        BY <2>2, <2>3, <3>1, HeaderTypes DEF ProgramHeader
      <4> QED
        BY <3>1, <4>1, <4>2, AddressLimitAssumption
    <3>3. p + f <= AddressLimit
      BY <2>5, <3>1 DEF IsSegment
    <3>4. PICK a \in Int : a = p + k - 1
      BY <3>2
    <3>5. a \in Address /\ Place(h, k) = a
      <4>1. a >= 0 /\ a < AddressLimit
        BY <3>2, <3>3, <3>4
      <4>2. a % AddressLimit = a
        BY <4>1, Wrapping
      <4>3. a \in Address
        BY <3>2, <4>1 DEF Address
      <4> QED
        BY <3>1, <3>4, <4>2, <4>3 DEF Place
    <3>6. a \in Segment(h)
      BY <3>1, <3>2, <3>5 DEF Segment
    <3>7. PICK j : j = Min(Matching(regions, a, ByteSize))
      OBVIOUS
    <3>8. Matching(regions, a, ByteSize) # {}
      BY <2>6, <3>1, <3>5, <3>6
    <3>9. /\ j \in DOMAIN regions
          /\ findMatchingRegion(regions, a, ByteSize) = [region |-> j, address |-> a]
          /\ ByteOf(regions, a) = regions[j].pData[a - regions[j].baseAddress + 1]
      BY <2>4, <3>5, <3>7, <3>8, ByteAt
    <3>10. Holds(regions[j], a, ByteSize)
      <4>1. Matching(regions, a, ByteSize) \in SUBSET Nat
        BY <2>4, LenProperties DEF Matching, Filled
      <4>2. j \in Matching(regions, a, ByteSize)
        BY <3>7, <3>8, <4>1, MinIsLeast
      <4> QED
        BY <4>2 DEF Matching
    <3>11. PICK l \in Loadable : IsSegment(regions[j], elf.headers[l])
      BY <2>5, <3>9
    <3>12. a \in Segment(elf.headers[l])
      BY <2>2, <2>3, <3>5, <3>10, <3>11, SegmentHolds
    <3>13. l = i
      BY <3>1, <3>6, <3>12 DEF Disjoint
    <3>14. /\ regions[j].baseAddress = p /\ IsDataOf(regions[j].pData, h)
           /\ regions[j].isReadOnly
      BY <3>1, <3>11, <3>13 DEF IsSegment
    <3>15. a - p + 1 = k
      BY <3>2, <3>4
    <3>16. h.p_offset + k <= Len(elf.blob) => regions[j].pData[k] = elf.blob[h.p_offset + k]
      BY <3>1, <3>14 DEF IsDataOf
    <3>17. h.p_offset + k <= Len(elf.blob) => ByteOf(regions, a) = elf.blob[h.p_offset + k]
      BY <3>9, <3>14, <3>15, <3>16
    <3>18. ~IsPermitted(regions, a, ByteSize, WRITING)
      BY <3>9, <3>14 DEF IsPermitted
    <3> QED
      BY <3>1, <3>5, <3>17, <3>18
  <2> QED
    BY <2>6, <2>7
<1> QED
  BY <1>1, ElfInvHolds, PTL
=============================================================================
