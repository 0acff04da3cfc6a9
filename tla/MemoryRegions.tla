--------------------------- MODULE MemoryRegions ---------------------------
(***************************************************************************)
(* The region list of the memory simulator (libCrashDebug/src/MemorySim.c) *)
(* as a sequence, and the effect of each operation on it: every operator   *)
(* named after a function takes the list as it is and returns the list and *)
(* the exception the function leaves behind.                               *)
(*                                                                         *)
(* A pointer to a region is its index (regions are freed only from the     *)
(* tail), pData is the sequence of its bytes, pReadCounts the sequence of  *)
(* its counters with NULL as <<>>.  The pData of an alias is never used:   *)
(* it is left out.                                                         *)
(***************************************************************************)
EXTENDS Watchpoints

CONSTANTS
  Byte,             \* the values of a byte: 0 .. 255 in the code
  RAMBlock          \* RAM_ADDRESS_MASK clears an address modulo this: 2^28

ASSUME ByteAssumption     == 0 \in Byte
ASSUME RAMBlockAssumption == RAMBlock \in Nat \ {0}

FLASH_BASE_ADDRESS == 0

noException                 == "no exception"
busErrorException           == "bus error"
outOfMemoryException        == "out of memory"
bufferOverrunException      == "buffer overrun"
hardwareBreakpointException == "hardware breakpoint"

Exception == {noException, busErrorException, outOfMemoryException,
              bufferOverrunException, hardwareBreakpointException}

MemoryRegion ==
  [baseAddress : Address, size : Address, pData : Seq(Byte),
   isReadOnly : BOOLEAN, pReadCounts : Seq(Nat), watchpoints : Seq(Watchpoint),
   isAlias : BOOLEAN, redirectAddress : Address, pRedirect : Nat]

\* What a function leaves behind: the list, and how it returned.
Returns(rs)   == [regions |-> rs, exception |-> noException]
Throws(rs, e) == [regions |-> rs, exception |-> e]

(***************************************************************************)
(* Looking an address up.                                                  *)
(***************************************************************************)

\* Variant: only the first byte of the access is looked up.
HoldsFirstByte(r, address, size) ==
  address >= r.baseAddress /\ address < r.baseAddress + r.size

\* The comparison is made in uint64_t, so neither side wraps.
Holds(r, address, size) ==
  address >= r.baseAddress /\ address + size <= r.baseAddress + r.size

Matching(rs, address, size) == {i \in DOMAIN rs : Holds(rs[i], address, size)}

\* The first region of the list that holds the whole access; an alias hands the
\* access on to the region it redirects to.  Defined where one matches: the
\* code throws busErrorException otherwise.
findMatchingRegion(rs, address, size) ==
  LET i == Min(Matching(rs, address, size))
  IN  IF rs[i].isAlias
      THEN [region  |-> rs[i].pRedirect,
            address |-> ((address - rs[i].baseAddress) + rs[i].redirectAddress) % AddressLimit]
      ELSE [region |-> i, address |-> address]

\* The offset into pData of an address found in region i.
RegionOffset(rs, found) == (found.address - rs[found.region].baseAddress) % AddressLimit

\* The host pointer pData + regionOffset really points at size bytes of pData.
PointsIntoData(rs, found, size) ==
  RegionOffset(rs, found) + size <= Len(rs[found.region].pData)

\* The byte that memory rs holds at address a.
ByteOf(rs, a) ==
  LET found == findMatchingRegion(rs, a, ByteSize)
  IN  rs[found.region].pData[RegionOffset(rs, found) + 1]

(***************************************************************************)
(* An access: whether getDataPointer lets it through, and what it stores.  *)
(***************************************************************************)

\* Variant: a read-only region can be written.
IsHeld(rs, address, size, type) == Matching(rs, address, size) # {}

IsPermitted(rs, address, size, type) ==
  /\ Matching(rs, address, size) # {}
  /\ type = WRITING => ~rs[findMatchingRegion(rs, address, size).region].isReadOnly

Overwrite(rs, found, bytes) ==
  LET first == RegionOffset(rs, found) + 1
      old   == rs[found.region].pData
      new   == [b \in 1 .. Len(old) |->
                  IF b \in first .. first + Len(bytes) - 1 THEN bytes[b - first + 1] ELSE old[b]]
  IN  [rs EXCEPT ![found.region].pData = new]

(***************************************************************************)
(* Building the list.                                                      *)
(***************************************************************************)

NewRegion(baseAddress, size) ==
  [baseAddress |-> baseAddress, size |-> size, pData |-> [i \in 1 .. size |-> 0],
   isReadOnly |-> FALSE, pReadCounts |-> <<>>, watchpoints |-> <<>>,
   isAlias |-> FALSE, redirectAddress |-> 0, pRedirect |-> 0]

\* Variant: the new region goes to the head of the list.
CreateRegionAtHead(rs, baseAddress, size, mallocOk) ==
  IF mallocOk THEN Returns(<<NewRegion(baseAddress, size)>> \o rs)
              ELSE Throws(rs, outOfMemoryException)

\* mallocOk: every allocation the call makes succeeds.
CreateRegion(rs, baseAddress, size, mallocOk) ==
  IF mallocOk THEN Returns(Append(rs, NewRegion(baseAddress, size)))
              ELSE Throws(rs, outOfMemoryException)

\* Variant: the alias is as long as asked for.
NewAliasUnclipped(rs, aliasAddress, redirectAddress, size) ==
  [NewRegion(aliasAddress, 0) EXCEPT
     !.size = size, !.isAlias = TRUE, !.redirectAddress = redirectAddress,
     !.pRedirect = findMatchingRegion(rs, redirectAddress, 1).region]

\* Variant: the size left to the alias is a signed number.
NewAliasSigned(rs, aliasAddress, redirectAddress, size) ==
  LET p    == findMatchingRegion(rs, redirectAddress, 1).region
      left == rs[p].size - (redirectAddress - rs[p].baseAddress)
  IN  [NewRegion(aliasAddress, 0) EXCEPT
         !.size = IF size > left THEN left ELSE size, !.isAlias = TRUE,
         !.redirectAddress = redirectAddress, !.pRedirect = p]

\* The size left to an alias is computed from the redirect address as it was
\* passed in, whatever findMatchingRegion translated it to.
NewAlias(rs, aliasAddress, redirectAddress, size) ==
  LET p       == findMatchingRegion(rs, redirectAddress, 1).region
      maxSize == (rs[p].size - (redirectAddress - rs[p].baseAddress)) % AddressLimit
  IN  [baseAddress |-> aliasAddress, size |-> IF size > maxSize THEN maxSize ELSE size,
       pData |-> <<>>, isReadOnly |-> rs[p].isReadOnly, pReadCounts |-> <<>>,
       watchpoints |-> <<>>, isAlias |-> TRUE, redirectAddress |-> redirectAddress,
       pRedirect |-> p]

CreateAlias(rs, aliasAddress, redirectAddress, size, mallocOk) ==
  IF ~mallocOk THEN Throws(rs, outOfMemoryException)
  ELSE IF Matching(rs, redirectAddress, 1) = {} THEN Throws(rs, busErrorException)
  ELSE Returns(Append(rs, NewAlias(rs, aliasAddress, redirectAddress, size)))

\* One counter for each whole halfword of the region.
ZeroReadCounts(size) == [i \in 1 .. size \div HalfWordSize |-> 0]

\* Variant: an alias is locked itself, and not the region it redirects to.
MakeRegionReadOnlyUnredirected(rs, baseAddress, mallocOk) ==
  IF Matching(rs, baseAddress, 1) = {} THEN Throws(rs, busErrorException)
  ELSE LET i == Min(Matching(rs, baseAddress, 1))
       IN  Returns([rs EXCEPT ![i].isReadOnly = TRUE,
                              ![i].pReadCounts = ZeroReadCounts(rs[i].size)])

\* The region is read-only even when its counters cannot be allocated.
MakeRegionReadOnly(rs, baseAddress, mallocOk) ==
  IF Matching(rs, baseAddress, 1) = {} THEN Throws(rs, busErrorException)
  ELSE LET i      == findMatchingRegion(rs, baseAddress, 1).region
           locked == [rs EXCEPT ![i].isReadOnly = TRUE]
       IN  IF mallocOk
           THEN Returns([locked EXCEPT ![i].pReadCounts = ZeroReadCounts(rs[i].size)])
           ELSE Throws(locked, outOfMemoryException)

freeLastRegion(rs) == Front(rs)

(***************************************************************************)
(* Loading an image: words while more than one is left, then bytes.  An    *)
(* image is the sequence of its bytes.                                     *)
(***************************************************************************)

WordCount(n)  == IF n = 0 THEN 0 ELSE (n - 1) \div WordSize

\* The stores the loop makes for n bytes, in order: the offset and the size of
\* each.
Chunks(n) ==
  [k \in 1 .. WordCount(n) + (n - WordSize * WordCount(n)) |->
     IF k <= WordCount(n) THEN [at |-> WordSize * (k - 1), size |-> WordSize]
     ELSE [at |-> WordSize * WordCount(n) + (k - WordCount(n) - 1), size |-> ByteSize]]

ChunkAddress(baseAddress, chunk) == (baseAddress + chunk.at) % AddressLimit

\* The chunks stored before the first one that no region holds.
Stored(rs, baseAddress, n) ==
  {k \in DOMAIN Chunks(n) :
     \A j \in 1 .. k :
       Matching(rs, ChunkAddress(baseAddress, Chunks(n)[j]), Chunks(n)[j].size) # {}}

ChunkTarget(rs, baseAddress, chunk) ==
  findMatchingRegion(rs, ChunkAddress(baseAddress, chunk), chunk.size)

\* The chunks of ks that store into byte b (from 1) of region i.
StoresInto(rs, baseAddress, n, ks, i, b) ==
  {k \in ks : LET chunk == Chunks(n)[k]
                  found == ChunkTarget(rs, baseAddress, chunk)
              IN  /\ found.region = i
                  /\ b - 1 >= RegionOffset(rs, found)
                  /\ b - 1 < RegionOffset(rs, found) + chunk.size}

\* The byte of the image that chunk k stores into byte b of its region.
StoredByte(rs, baseAddress, image, k, b) ==
  LET chunk == Chunks(Len(image))[k]
  IN  image[chunk.at + b - RegionOffset(rs, ChunkTarget(rs, baseAddress, chunk))]

StoreChunks(rs, baseAddress, image, ks) ==
  LET n == Len(image)
      Data(i) == [b \in 1 .. Len(rs[i].pData) |->
                    LET into == StoresInto(rs, baseAddress, n, ks, i, b)
                    IN  IF into = {} THEN rs[i].pData[b]
                        ELSE StoredByte(rs, baseAddress, image, Max(into), b)]
  IN  [i \in DOMAIN rs |-> [rs[i] EXCEPT !.pData = Data(i)]]

\* Loading ignores read-only and watchpoints.  A chunk that no region holds
\* throws, and the chunks before it stay stored.
LoadFromFlashImage(rs, baseAddress, image) ==
  LET stored == Stored(rs, baseAddress, Len(image))
      loaded == StoreChunks(rs, baseAddress, image, stored)
  IN  IF stored = DOMAIN Chunks(Len(image)) THEN Returns(loaded)
                                            ELSE Throws(loaded, busErrorException)

\* Some chunk is stored outside the pData of its region.
LoadGoesWild(rs, baseAddress, image) ==
  \E k \in Stored(rs, baseAddress, Len(image)) :
    ~PointsIntoData(rs, ChunkTarget(rs, baseAddress, Chunks(Len(image))[k]),
                    Chunks(Len(image))[k].size)

\* A flash image is its bytes and its first word as a number, the initial stack
\* pointer that tells where RAM ends.
RAMBase(stack) == stack - (stack % RAMBlock)

\* Variant: nothing is taken back when a later step fails.
CreateRegionsFromFlashImageKept(rs, image, flashOk, countsOk, ramOk) ==
  LET created == CreateRegion(rs, FLASH_BASE_ADDRESS, Len(image.bytes), flashOk)
      loaded  == LoadFromFlashImage(created.regions, FLASH_BASE_ADDRESS, image.bytes)
      locked  == MakeRegionReadOnly(loaded.regions, FLASH_BASE_ADDRESS, countsOk)
      ram     == CreateRegion(locked.regions, RAMBase(image.stack),
                              image.stack % RAMBlock, ramOk)
      Failed(step) == step.exception # noException
  IN  IF Len(image.bytes) < WordSize THEN Throws(rs, bufferOverrunException)
      ELSE IF Failed(created) THEN created
      ELSE IF Failed(loaded) THEN loaded
      ELSE IF Failed(locked) THEN locked ELSE ram

\* The load is outside the try block: when it throws, the new flash region
\* stays.  Later failures take the last region off again.
CreateRegionsFromFlashImage(rs, image, flashOk, countsOk, ramOk) ==
  LET created == CreateRegion(rs, FLASH_BASE_ADDRESS, Len(image.bytes), flashOk)
      loaded  == LoadFromFlashImage(created.regions, FLASH_BASE_ADDRESS, image.bytes)
      locked  == MakeRegionReadOnly(loaded.regions, FLASH_BASE_ADDRESS, countsOk)
      ram     == CreateRegion(locked.regions, RAMBase(image.stack),
                              image.stack % RAMBlock, ramOk)
      Failed(step) == step.exception # noException
  IN  IF Len(image.bytes) < WordSize THEN Throws(rs, bufferOverrunException)
      ELSE IF Failed(created) THEN created
      ELSE IF Failed(loaded) THEN loaded
      ELSE IF Failed(locked) THEN Throws(freeLastRegion(locked.regions), locked.exception)
      ELSE IF Failed(ram) THEN Throws(freeLastRegion(ram.regions), ram.exception)
      ELSE ram

\* rs still has the regions of old: where they are and what they are, and the data
\* of those that are read-only.
KeepsRegions(old, rs) ==
  /\ DOMAIN old \subseteq DOMAIN rs
  /\ \A i \in DOMAIN old :
       /\ rs[i] = [old[i] EXCEPT !.pData = rs[i].pData]
       /\ old[i].isReadOnly => rs[i] = old[i]

(***************************************************************************)
(* Which lists the operations build.                                       *)
(***************************************************************************)

Ordered(wps) == IsSortedByStart(wps) /\ HasNoDuplicates(wps)

GoodRegion(r) == r \in MemoryRegion /\ Ordered(r.watchpoints)

\* An alias redirects to a region of its own, created before it.
Redirects(rs) ==
  \A i \in DOMAIN rs : rs[i].isAlias =>
    rs[i].pRedirect \in 1 .. i - 1 /\ ~rs[rs[i].pRedirect].isAlias

GoodRegions(rs) ==
  /\ rs \in Seq(MemoryRegion)
  /\ \A i \in DOMAIN rs : Ordered(rs[i].watchpoints)
  /\ Redirects(rs)

\* A region has its data and, once it is read-only, a counter for each halfword.
Equipped(r) ==
  ~r.isAlias => /\ Len(r.pData) = r.size
                /\ r.isReadOnly => Len(r.pReadCounts) = r.size \div HalfWordSize

\* An alias lies within the region that it redirects to.
Within(rs, i) ==
  rs[i].isAlias =>
    LET p == rs[rs[i].pRedirect]
    IN  /\ rs[i].redirectAddress >= p.baseAddress
        /\ rs[i].redirectAddress + rs[i].size <= p.baseAddress + p.size

Sound(rs) == \A i \in DOMAIN rs : Equipped(rs[i]) /\ Within(rs, i)

(***************************************************************************)
(* The memory map that GDB is told.                                        *)
(***************************************************************************)

MemoryMap(rs) ==
  [i \in DOMAIN rs |-> [type   |-> IF rs[i].isReadOnly THEN "flash" ELSE "ram",
                        start  |-> rs[i].baseAddress,
                        length |-> rs[i].size]]
=============================================================================
