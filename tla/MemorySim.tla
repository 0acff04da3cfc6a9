----------------------------- MODULE MemorySim -----------------------------
(***************************************************************************)
(* The memory simulator of libCrashDebug/src/MemorySim.c: one action per   *)
(* function of MemorySim.h and of the IMemory interface.  A call runs to   *)
(* its end without interruption (the program has one thread), so a call is *)
(* one step; what it leaves to its caller is the value it returned or the  *)
(* exception it threw.                                                     *)
(*                                                                         *)
(* A call that would use memory outside the arrays of a region (undefined  *)
(* behaviour in C) sets wild, after which nothing is said any more.        *)
(***************************************************************************)
EXTENDS MemoryRegions

CONSTANTS
  RegionRequests,    \* records [baseAddress, size]
  AliasRequests,     \* records [aliasAddress, redirectAddress, size]
  ReadOnlyRequests,  \* addresses whose region is made read-only
  LoadRequests,      \* records [baseAddress, image]: image is its bytes
  FlashImages,       \* records [bytes, stack]: stack is the first word
  AccessAddresses,   \* addresses that are read and written
  AccessSizes,       \* sizes of these accesses
  WatchRequests,     \* records [address, size, type]: break/watchpoints
  MallocOutcomes,    \* whether an allocation may succeed and may fail
  MaxRegions,        \* bound: regions in the list
  MaxCount           \* bound: read counters and watchpointEncountered

ASSUME RequestAssumption ==
  /\ RegionRequests \subseteq [baseAddress : Address, size : Address]
  /\ AliasRequests \subseteq [aliasAddress : Address, redirectAddress : Address, size : Address]
  /\ ReadOnlyRequests \subseteq Address
  /\ LoadRequests \subseteq [baseAddress : Address, image : Seq(Byte)]
  /\ FlashImages \subseteq [bytes : Seq(Byte), stack : Address]
  /\ \A image \in FlashImages : Len(image.bytes) \in Address
  /\ AccessAddresses \subseteq Address
  /\ AccessSizes \subseteq AccessSize
  /\ WatchRequests \subseteq [address : Address, size : AccessSize, type : WatchpointType]
  /\ MallocOutcomes \subseteq BOOLEAN
  /\ MaxRegions \in Nat
  /\ MaxCount \in Nat

VARIABLES
  regions,               \* the list from pHeadRegion to pTailRegion
  watchpointEncountered, \* watchpoints hit since they were last asked for
  exception,             \* the exception of the last call, if it threw one
  value,                 \* what the last call returned: see the actions
  wild                   \* the last call left the arrays of its region

vars == <<regions, watchpointEncountered, exception, value, wild>>

NoValue == [kind |-> "nothing"]

Init ==
  /\ regions = <<>>
  /\ watchpointEncountered = 0
  /\ exception = noException
  /\ value = NoValue
  /\ wild = FALSE

\* What a call that builds the list leaves behind.
Leaves(result, what) ==
  /\ regions' = result.regions
  /\ exception' = result.exception
  /\ value' = what
  /\ UNCHANGED <<watchpointEncountered, wild>>

Fails(e, what) ==
  /\ exception' = e
  /\ value' = what
  /\ UNCHANGED <<regions, watchpointEncountered, wild>>

GoesWild ==
  /\ wild' = TRUE
  /\ UNCHANGED <<regions, watchpointEncountered, exception, value>>

Answers(v) ==
  /\ exception' = noException
  /\ value' = v
  /\ UNCHANGED wild

(***************************************************************************)
(* Building the list of regions.                                           *)
(***************************************************************************)

MemorySim_Uninit ==
  /\ regions # <<>>
  /\ Leaves(Returns(<<>>), NoValue)

\* Called on an empty simulator: every caller pairs it with MemorySim_Uninit.
MemorySim_Init ==
  /\ regions = <<>>
  /\ watchpointEncountered' = 0
  /\ regions' = <<>>
  /\ Answers(NoValue)

MemorySim_CreateRegion ==
  \E request \in RegionRequests, mallocOk \in MallocOutcomes :
    /\ Len(regions) < MaxRegions
    /\ Leaves(CreateRegion(regions, request.baseAddress, request.size, mallocOk), NoValue)

MemorySim_CreateAlias ==
  \E request \in AliasRequests, mallocOk \in MallocOutcomes :
    /\ Len(regions) < MaxRegions
    /\ Leaves(CreateAlias(regions, request.aliasAddress, request.redirectAddress,
                          request.size, mallocOk), NoValue)

MemorySim_MakeRegionReadOnly ==
  \E baseAddress \in ReadOnlyRequests, mallocOk \in MallocOutcomes :
    Leaves(MakeRegionReadOnly(regions, baseAddress, mallocOk), NoValue)

MemorySim_LoadFromFlashImage ==
  \E request \in LoadRequests :
    IF LoadGoesWild(regions, request.baseAddress, request.image)
    THEN GoesWild
    ELSE Leaves(LoadFromFlashImage(regions, request.baseAddress, request.image), NoValue)

MemorySim_CreateRegionsFromFlashImage ==
  \E image \in FlashImages, flashOk, countsOk, ramOk \in MallocOutcomes :
    /\ Len(regions) + 1 < MaxRegions
    /\ IF LoadGoesWild(CreateRegion(regions, FLASH_BASE_ADDRESS, Len(image.bytes), flashOk).regions,
                       FLASH_BASE_ADDRESS, image.bytes)
       THEN GoesWild
       ELSE Leaves(CreateRegionsFromFlashImage(regions, image, flashOk, countsOk, ramOk), NoValue)

\* The map is written anew into a buffer of its own on each call.
MemorySim_GetMemoryMapXML ==
  \E reallocOk \in MallocOutcomes :
    IF reallocOk
    THEN /\ Answers([kind |-> "map", map |-> MemoryMap(regions)])
         /\ UNCHANGED <<regions, watchpointEncountered>>
    ELSE Fails(outOfMemoryException, NoValue)

(***************************************************************************)
(* Break/watchpoints.  They belong to the region that holds the address,   *)
(* at the address it is redirected to.                                     *)
(***************************************************************************)

Key(request, found) == MakeWatchpoint(request.type, found.address, request.size)

\* The array is reallocated only when it grows past what it once held; whether a
\* set call allocates is left open.
SetWatchpoint(request) ==
  LET found == findMatchingRegion(regions, request.address, request.size)
      wps   == regions[found.region].watchpoints
      edited == setWatchpoint(wps, Key(request, found))
  IN  \/ /\ Matching(regions, request.address, request.size) = {}
         /\ Fails(busErrorException, NoValue)
      \/ /\ Matching(regions, request.address, request.size) # {}
         /\ TRUE \in MallocOutcomes
         /\ Leaves(Returns([regions EXCEPT ![found.region].watchpoints = edited]),
                   [kind |-> "set", request |-> request])
      \/ /\ Matching(regions, request.address, request.size) # {}
         /\ FALSE \in MallocOutcomes
         /\ edited # wps
         /\ Fails(outOfMemoryException, NoValue)

ClearWatchpoint(request) ==
  LET found == findMatchingRegion(regions, request.address, request.size)
      wps   == regions[found.region].watchpoints
  IN  \/ /\ Matching(regions, request.address, request.size) = {}
         /\ Fails(busErrorException, NoValue)
      \/ /\ Matching(regions, request.address, request.size) # {}
         /\ Leaves(Returns([regions EXCEPT
                ![found.region].watchpoints = clearWatchpoint(wps, Key(request, found))]),
                   [kind |-> "cleared", request |-> request])

MemorySim_SetHardwareBreakpoint ==
  \E request \in WatchRequests :
    request.type = WATCHPOINT_BREAKPOINT /\ SetWatchpoint(request)

MemorySim_ClearHardwareBreakpoint ==
  \E request \in WatchRequests :
    request.type = WATCHPOINT_BREAKPOINT /\ ClearWatchpoint(request)

MemorySim_SetHardwareWatchpoint ==
  \E request \in WatchRequests :
    request.type # WATCHPOINT_BREAKPOINT /\ SetWatchpoint(request)

MemorySim_ClearHardwareWatchpoint ==
  \E request \in WatchRequests :
    request.type # WATCHPOINT_BREAKPOINT /\ ClearWatchpoint(request)

MemorySim_WasWatchpointEncountered ==
  /\ watchpointEncountered' = 0
  /\ Answers([kind |-> "encountered", count |-> watchpointEncountered])
  /\ UNCHANGED regions

(***************************************************************************)
(* Accesses.  value is [kind |-> "data", ...] after a read, a pointer after *)
(* a mapping, and names the access that threw.                             *)
(***************************************************************************)

\* The halfword reads of a read-only region are counted.
Counted(found, size, type) ==
  LET i == RegionOffset(regions, found) \div HalfWordSize + 1
  IN  IF type = READING /\ size = HalfWordSize /\ regions[found.region].pReadCounts # <<>>
      THEN [regions EXCEPT ![found.region].pReadCounts[i] = @ + 1]
      ELSE regions

BelowMaxCount(rs) ==
  \A i \in DOMAIN rs : \A k \in DOMAIN rs[i].pReadCounts : rs[i].pReadCounts[k] <= MaxCount

Bytes(found, size) ==
  SubSeq(regions[found.region].pData, RegionOffset(regions, found) + 1,
         RegionOffset(regions, found) + size)

Refused(address, size, type) ==
  [kind |-> "refused", address |-> address, size |-> size, type |-> type]

\* The three ways in which getDataPointer does not come back with a pointer
\* into pData.  A breakpoint throws after the read was counted and after the
\* watchpoints that precede it in the array were.
getDataPointerFails(address, size, type, checkWatchpoints) ==
  LET found == findMatchingRegion(regions, address, size)
      scan  == checkForBreakWatchPoint(regions[found.region].watchpoints,
                                       found.address, size, type)
  IN  \/ /\ ~IsPermitted(regions, address, size, type)
         /\ Fails(busErrorException, Refused(address, size, type))
      \/ /\ IsPermitted(regions, address, size, type)
         /\ ~PointsIntoData(regions, found, size)
         /\ GoesWild
      \/ /\ IsPermitted(regions, address, size, type)
         /\ PointsIntoData(regions, found, size)
         /\ checkWatchpoints
         /\ scan.tripped
         /\ regions' = Counted(found, size, type)
         /\ BelowMaxCount(regions')
         /\ watchpointEncountered' = watchpointEncountered + Cardinality(scan.counted)
         /\ watchpointEncountered' <= MaxCount
         /\ exception' = hardwareBreakpointException
         /\ value' = Refused(address, size, type)
         /\ UNCHANGED wild

\* It does, and its caller leaves rs behind.
getDataPointerReturns(address, size, type, checkWatchpoints, rs) ==
  LET found == findMatchingRegion(regions, address, size)
      scan  == checkForBreakWatchPoint(regions[found.region].watchpoints,
                                       found.address, size, type)
  IN  /\ IsPermitted(regions, address, size, type)
      /\ PointsIntoData(regions, found, size)
      /\ checkWatchpoints => ~scan.tripped
      /\ watchpointEncountered' = IF checkWatchpoints
                                  THEN watchpointEncountered + Cardinality(scan.counted)
                                  ELSE watchpointEncountered
      /\ watchpointEncountered' <= MaxCount
      /\ regions' = rs
      /\ BelowMaxCount(regions')

\* read32, read16, read8
Read ==
  \E address \in AccessAddresses, size \in AccessSizes :
    LET found == findMatchingRegion(regions, address, size)
    IN  \/ getDataPointerFails(address, size, READING, TRUE)
        \/ /\ getDataPointerReturns(address, size, READING, TRUE, Counted(found, size, READING))
           /\ Answers([kind |-> "data", address |-> address, bytes |-> Bytes(found, size)])

\* write32, write16, write8
Write ==
  \E address \in AccessAddresses, size \in AccessSizes :
    \/ getDataPointerFails(address, size, WRITING, TRUE)
    \/ \E bytes \in [1 .. size -> Byte] :
         LET found == findMatchingRegion(regions, address, size)
         IN  /\ getDataPointerReturns(address, size, WRITING, TRUE,
                                      Overwrite(regions, found, bytes))
             /\ Answers([kind |-> "written", address |-> address, bytes |-> bytes])

Map(address, size, type) ==
  LET found == findMatchingRegion(regions, address, size)
  IN  \/ getDataPointerFails(address, size, type, FALSE)
      \/ /\ getDataPointerReturns(address, size, type, FALSE, Counted(found, size, type))
         /\ Answers([kind |-> "pointer", address |-> address, size |-> size, type |-> type,
                     region |-> found.region, offset |-> RegionOffset(regions, found)])

MemorySim_MapSimulatedAddressToHostAddressForWrite ==
  \E address \in AccessAddresses, size \in AccessSizes : Map(address, size, WRITING)

\* Mapping a halfword for read counts as a read of it.
MemorySim_MapSimulatedAddressToHostAddressForRead ==
  \E address \in AccessAddresses, size \in AccessSizes : Map(address, size, READING)

\* A region is read-only without counters after MakeRegionReadOnly ran out of
\* memory: the code then reads through a NULL pReadCounts.
MemorySim_GetFlashReadCount ==
  \E address \in AccessAddresses :
    LET found == findMatchingRegion(regions, address, HalfWordSize)
        r     == regions[found.region]
        i     == RegionOffset(regions, found) \div HalfWordSize + 1
    IN  \/ /\ Matching(regions, address, HalfWordSize) # {} => ~r.isReadOnly
           /\ Fails(busErrorException, NoValue)
        \/ /\ Matching(regions, address, HalfWordSize) # {}
           /\ r.isReadOnly
           /\ IF i \notin DOMAIN r.pReadCounts THEN GoesWild
              ELSE /\ Answers([kind |-> "count", address |-> address,
                               count |-> r.pReadCounts[i]])
                   /\ UNCHANGED <<regions, watchpointEncountered>>

Next ==
  /\ ~wild
  /\ \/ MemorySim_Init
     \/ MemorySim_Uninit
     \/ MemorySim_CreateRegion
     \/ MemorySim_CreateAlias
     \/ MemorySim_MakeRegionReadOnly
     \/ MemorySim_LoadFromFlashImage
     \/ MemorySim_CreateRegionsFromFlashImage
     \/ MemorySim_GetMemoryMapXML
     \/ MemorySim_SetHardwareBreakpoint
     \/ MemorySim_ClearHardwareBreakpoint
     \/ MemorySim_SetHardwareWatchpoint
     \/ MemorySim_ClearHardwareWatchpoint
     \/ MemorySim_WasWatchpointEncountered
     \/ Read
     \/ Write
     \/ MemorySim_MapSimulatedAddressToHostAddressForWrite
     \/ MemorySim_MapSimulatedAddressToHostAddressForRead
     \/ MemorySim_GetFlashReadCount

Spec == Init /\ [][Next]_vars

(***************************************************************************)
(* Properties.                                                             *)
(***************************************************************************)

\* Every variable holds values of its type.
TypeOK ==
  /\ regions \in Seq(MemoryRegion)
  /\ watchpointEncountered \in Nat
  /\ exception \in Exception
  /\ wild \in BOOLEAN

\* setWatchpoint and clearWatchpoint keep each array sorted by start address and
\* never hold a watchpoint twice, so that one clear takes it off.
WatchpointsOrdered ==
  \A i \in DOMAIN regions : /\ IsSortedByStart(regions[i].watchpoints)
                            /\ HasNoDuplicates(regions[i].watchpoints)

\* The scan of checkForBreakWatchPoint gives up early and loses nothing by it: it
\* trips if any breakpoint matches, and counts every watchpoint that does.
ScanIsComplete ==
  \A i \in DOMAIN regions, address \in AccessAddresses, size \in AccessSizes,
     type \in AccessType :
    LET wps  == regions[i].watchpoints
        scan == checkForBreakWatchPoint(wps, address, size, type)
    IN  /\ scan.tripped <=> \E k \in DOMAIN wps : Trips(wps[k], address, size, type)
        /\ ~scan.tripped =>
             scan.counted = {k \in DOMAIN wps : Counts(wps[k], address, size, type)}

\* A watchpoint counts the reads of any part of the bytes it was set on.  Read as
\* a property of the steps that set one.
WatchpointCoversItsBytes ==
  [][value'.kind = "set" =>
       LET request == value'.request
           wp      == MakeWatchpoint(request.type, request.address, request.size)
       IN  \A address \in AccessAddresses, size \in AccessSizes :
             /\ address >= request.address
             /\ address + size <= request.address + request.size
             /\ IsRelevant(wp, READING) /\ ~IsBreakpoint(wp)
             => Counts(wp, address, size, READING)]_vars

\* Every alias is asked for of an address that no alias is asked for at.
NoAliasOfAlias ==
  \A r, s \in AliasRequests :
    r.redirectAddress \notin s.aliasAddress .. s.aliasAddress + s.size - 1

MallocSucceeds == FALSE \notin MallocOutcomes

\* No call uses memory outside the arrays of a region: every address that
\* findMatchingRegion lets through, an alias's translation included, points into
\* pData, and every read-only region that is asked for counts has counters.
NeverWild == ~wild

\* CreateRegion and CreateAlias add behind the regions that are there, and the
\* first match wins: whatever an address meant, it still means after a later
\* region or alias overlaps it.
LaterRegionsNeverShadow ==
  [][Len(regions') > Len(regions) =>
       \A address \in AccessAddresses, size \in AccessSizes :
         Matching(regions, address, size) # {} =>
           findMatchingRegion(regions', address, size)
             = findMatchingRegion(regions, address, size)]_vars

Extents == [i \in DOMAIN regions |-> <<regions[i].baseAddress, regions[i].size>>]

\* A call that throws takes back every region it made: half of the regions of a
\* flash image are never left behind when memory runs out on the way.
FailedCallKeepsExtents ==
  [][exception' # noException => Extents' = Extents]_vars
=============================================================================
