------------------------------- MODULE ElfLoad -------------------------------
(***************************************************************************)
(* Loading the flash segments of an ELF file that is in memory             *)
(* (libCrashDebug/src/ElfLoad.c), one program header at a time.            *)
(***************************************************************************)
EXTENDS MemoryRegions

CONSTANTS
  Elfs,           \* the files that may be loaded
  EhdrSize,       \* sizeof(Elf32_Ehdr): 52
  PhdrSize,       \* sizeof(Elf32_Phdr): 32
  Behind,         \* what may lie behind the file in the memory of the host
  MallocOutcomes  \* {TRUE, FALSE} where memory may run out

\* load: the type is PT_LOAD.
ProgramHeader ==
  [load : BOOLEAN, p_offset : Address, p_filesz : Address, p_memsz : Address,
   p_paddr : Address]

\* An ELF file is its bytes and what the code finds in them: whether the header
\* identifies a little endian executable of 32 bits, and the program headers at
\* e_phoff + e_phentsize * i (they have a value even where they are not in the file).
Elf ==
  [blob : Seq(Byte), isExecutable : BOOLEAN, e_phoff : Address, e_phentsize : Address,
   headers : Seq(ProgramHeader)]

ASSUME SizeAssumption == {EhdrSize, PhdrSize} \subseteq Address \ {0}

ASSUME ElfAssumption == Elfs \subseteq Elf /\ MallocOutcomes \subseteq BOOLEAN

\* A read behind the file finds the byte of some b of Behind, or it ends the program:
\* then nothing follows.
ASSUME BehindAssumption == Behind \subseteq [Address -> Byte]

elfFormatException == "ELF format"

VARIABLES
  elf,              \* the file
  regions,          \* the simulated memory
  index,            \* the program header that is looked at next
  pgmHeaderOffset,  \* where it is
  entryLoadCount,   \* how many segments were loaded
  stage,            \* how far ElfLoad_FromMemory is
  exception         \* what it threw

vars == <<elf, regions, index, pgmHeaderOffset, entryLoadCount, stage, exception>>

\* fetchSizedByteArray does not throw.  The sum is made in 32 bits.
Fetches(offset, size) ==
  offset <= Len(elf.blob) /\ (offset + size) % AddressLimit <= Len(elf.blob)

HeaderIsValid ==
  /\ elf.isExecutable
  /\ elf.e_phoff # 0
  /\ elf.headers # <<>>
  /\ elf.e_phentsize >= PhdrSize

isFlashLoadableEntry(h) == h.load /\ h.p_filesz # 0 /\ h.p_memsz >= h.p_filesz

\* The p_filesz bytes at p_offset: of the file, and of what lies behind it.
SegmentData(h, behind) ==
  LET n == Len(elf.blob)
  IN  [k \in 1 .. h.p_filesz |-> IF h.p_offset + k <= n THEN elf.blob[h.p_offset + k]
                                 ELSE behind[h.p_offset + k - n]]

\* Variant: the segment stays writable.
LoadEntryUnlocked(rs, h, data, regionOk, countsOk) ==
  LET created == CreateRegion(rs, h.p_paddr, h.p_filesz, regionOk)
  IN  IF created.exception # noException THEN created
      ELSE LoadFromFlashImage(created.regions, h.p_paddr, data)

\* Variant: the load goes on without the counters.
LoadEntryRegardless(rs, h, data, regionOk, countsOk) ==
  LET created == CreateRegion(rs, h.p_paddr, h.p_filesz, regionOk)
      loaded  == LoadFromFlashImage(created.regions, h.p_paddr, data)
  IN  IF created.exception # noException THEN created
      ELSE IF loaded.exception # noException THEN loaded
      ELSE Returns(MakeRegionReadOnly(loaded.regions, h.p_paddr, countsOk).regions)

\* Creates, fills and locks the region of a segment.  Nothing is taken back when a
\* step fails.
LoadEntry(rs, h, data, regionOk, countsOk) ==
  LET created == CreateRegion(rs, h.p_paddr, h.p_filesz, regionOk)
      loaded  == LoadFromFlashImage(created.regions, h.p_paddr, data)
  IN  IF created.exception # noException THEN created
      ELSE IF loaded.exception # noException THEN loaded
      ELSE MakeRegionReadOnly(loaded.regions, h.p_paddr, countsOk)

Init ==
  /\ elf \in Elfs
  /\ regions = <<>>
  /\ index = 1
  /\ pgmHeaderOffset = elf.e_phoff
  /\ entryLoadCount = 0
  /\ stage = "header"
  /\ exception = noException

Throw(e) == stage' = "failed" /\ exception' = e

validateElfHeaderContents ==
  /\ stage = "header"
  /\ \/ /\ Fetches(0, EhdrSize) /\ HeaderIsValid
        /\ stage' = "entries"
        /\ UNCHANGED exception
     \/ /\ ~(Fetches(0, EhdrSize) /\ HeaderIsValid)
        /\ Throw(elfFormatException)
  /\ UNCHANGED <<elf, regions, index, pgmHeaderOffset, entryLoadCount>>

\* The next program header.
NextHeader == elf.headers[index]

\* The program header is looked at, and all of it is there.
AtEntry ==
  /\ stage = "entries"
  /\ index \in DOMAIN elf.headers
  /\ Fetches(pgmHeaderOffset, PhdrSize)

\* Variant: headers are as far apart as they are long.
NextEntryPacked ==
  index' = index + 1 /\ pgmHeaderOffset' = (pgmHeaderOffset + PhdrSize) % AddressLimit

\* Variant: the same header is looked at again.
NextEntrySame ==
  UNCHANGED index /\ pgmHeaderOffset' = (pgmHeaderOffset + elf.e_phentsize) % AddressLimit

NextEntry ==
  index' = index + 1 /\ pgmHeaderOffset' = (pgmHeaderOffset + elf.e_phentsize) % AddressLimit

entryOutOfBounds ==
  /\ stage = "entries"
  /\ index \in DOMAIN elf.headers
  /\ ~Fetches(pgmHeaderOffset, PhdrSize)
  /\ Throw(elfFormatException)
  /\ UNCHANGED <<elf, regions, index, pgmHeaderOffset, entryLoadCount>>

skipEntry ==
  /\ AtEntry
  /\ ~isFlashLoadableEntry(NextHeader)
  /\ NextEntry
  /\ UNCHANGED <<elf, regions, entryLoadCount, stage, exception>>

dataOutOfBounds ==
  /\ AtEntry
  /\ isFlashLoadableEntry(NextHeader)
  /\ ~Fetches(NextHeader.p_offset, NextHeader.p_filesz)
  /\ Throw(elfFormatException)
  /\ UNCHANGED <<elf, regions, index, pgmHeaderOffset, entryLoadCount>>

loadEntry ==
  /\ AtEntry
  /\ isFlashLoadableEntry(NextHeader)
  /\ Fetches(NextHeader.p_offset, NextHeader.p_filesz)
  /\ UNCHANGED elf
  /\ \E regionOk, countsOk \in MallocOutcomes, behind \in Behind :
       LET data   == SegmentData(NextHeader, behind)
           result == LoadEntry(regions, NextHeader, data, regionOk, countsOk)
       IN  /\ regions' = result.regions
           /\ \/ /\ result.exception = noException
                 /\ entryLoadCount' = entryLoadCount + 1
                 /\ NextEntry
                 /\ UNCHANGED <<stage, exception>>
              \/ /\ result.exception # noException
                 /\ Throw(result.exception)
                 /\ UNCHANGED <<index, pgmHeaderOffset, entryLoadCount>>

allEntriesLoaded ==
  /\ stage = "entries"
  /\ index = Len(elf.headers) + 1
  /\ \/ entryLoadCount = 0 /\ Throw(elfFormatException)
     \/ entryLoadCount # 0 /\ stage' = "done" /\ UNCHANGED exception
  /\ UNCHANGED <<elf, regions, index, pgmHeaderOffset, entryLoadCount>>

Next ==
  \/ validateElfHeaderContents
  \/ entryOutOfBounds
  \/ skipEntry
  \/ dataOutOfBounds
  \/ loadEntry
  \/ allEntriesLoaded

Spec == Init /\ [][Next]_vars

(***************************************************************************)
(* Properties.                                                             *)
(***************************************************************************)

\* Every variable keeps its type, and no more segments are loaded than there are
\* program headers.
ElfTypeOK ==
  /\ regions \in Seq(MemoryRegion)
  /\ index \in 1 .. Len(elf.headers) + 1
  /\ pgmHeaderOffset \in Address
  /\ entryLoadCount \in 0 .. index - 1
  /\ stage \in {"header", "entries", "done", "failed"}
  /\ exception \in {noException, elfFormatException, outOfMemoryException, busErrorException}

Loadable == {i \in DOMAIN elf.headers : isFlashLoadableEntry(elf.headers[i])}

\* Where a program header and a segment are in the file, in numbers that do not wrap.
HeaderOffset(i) == elf.e_phoff + elf.e_phentsize * (i - 1)
HeaderEnd(i)    == HeaderOffset(i) + PhdrSize
SegmentEnd(i)   == elf.headers[i].p_offset + elf.headers[i].p_filesz

\* What the file must be.
WellFormed ==
  /\ Len(elf.blob) >= EhdrSize
  /\ elf.isExecutable
  /\ elf.e_phoff # 0
  /\ elf.e_phentsize >= PhdrSize
  /\ \A i \in DOMAIN elf.headers : HeaderEnd(i) <= Len(elf.blob)
  /\ Loadable # {}
  /\ \A i \in Loadable : SegmentEnd(i) <= Len(elf.blob)

\* No sum of fetchSizedByteArray wraps.
SumsFit ==
  /\ \A i \in DOMAIN elf.headers : HeaderEnd(i) < AddressLimit
  /\ \A i \in Loadable : SegmentEnd(i) < AddressLimit

\* A file is only called malformed if it is.  It is loaded only if it is well formed as
\* a whole, or the end of one of its parts does not fit in 32 bits: the checks are
\* spread over the loop, between loads (fetchSizedByteArray and its callers).
ElfFormatIsChecked ==
  /\ stage = "done" /\ SumsFit => WellFormed
  /\ exception = elfFormatException => ~WellFormed

\* A file is loaded only if it is well formed, as the tests of the loader say: a p_filesz
\* that reaches past the end of the file throws (ElfLoadTest.cpp).
OnlyWellFormedIsLoaded == stage = "done" => WellFormed

Place(h, k) == (h.p_paddr + k - 1) % AddressLimit

Segment(h) == {Place(h, k) : k \in 1 .. h.p_filesz}

Disjoint ==
  \A i, j \in Loadable :
    i # j => Segment(elf.headers[i]) \cap Segment(elf.headers[j]) = {}

\* When segments do not overlap, the memory of a loaded file is these segments, as far
\* as they are in the file, not writable and nothing else (loadIfFlashLoadableEntry
\* finds the region it has just created by its address).
ElfIsLoaded ==
  stage = "done" /\ Disjoint =>
    /\ \A a \in Address :
         Matching(regions, a, ByteSize) # {} <=>
           \E i \in Loadable : a \in Segment(elf.headers[i])
    /\ \A i \in Loadable : \A k \in 1 .. elf.headers[i].p_filesz :
         LET a == Place(elf.headers[i], k)
             o == elf.headers[i].p_offset + k
         IN  /\ o <= Len(elf.blob) => ByteOf(regions, a) = elf.blob[o]
             /\ ~IsPermitted(regions, a, ByteSize, WRITING)

\* An address that is there and cannot be written.
IsLocked(rs, a) ==
  Matching(rs, a, ByteSize) # {} /\ ~IsPermitted(rs, a, ByteSize, WRITING)

\* Region k has its counters, all of them zero, or it stayed writable because the lock
\* by its address found a region before it.
IsLockedOrShadowed(rs, k) ==
  IF rs[k].isReadOnly THEN rs[k].pReadCounts = ZeroReadCounts(rs[k].size)
  ELSE \E j \in 1 .. k - 1 : Holds(rs[j], rs[k].baseAddress, ByteSize)

\* However the segments lie, the first byte of each is there and cannot be written, and
\* a region of the loaded file has its counters unless an earlier segment is in the way
\* of its own lock: MemorySim_MakeRegionReadOnly is handed the address and not the
\* region that was just created (loadIfFlashLoadableEntry).
SegmentsAreLocked ==
  stage = "done" =>
    /\ \A i \in Loadable : IsLocked(regions, elf.headers[i].p_paddr)
    /\ \A k \in DOMAIN regions : IsLockedOrShadowed(regions, k)
=============================================================================
