-------------------------- MODULE MemorySimProofs --------------------------
(***************************************************************************)
(* The memory simulator keeps its types and the order of its break and     *)
(* watchpoint arrays, whatever regions, aliases, images and accesses it is *)
(* asked for and whichever allocations fail; so the scan that gives up     *)
(* early misses nothing.  Regions stay where they are while others come    *)
(* and go; no call leaves the arrays of its region.                        *)
(*                                                                         *)
(* The order of an array is not inductive alone: that an alias hands       *)
(* accesses on to a region of the list, and never to an alias, is what     *)
(* makes every array that is edited one of the list.                       *)
(***************************************************************************)
EXTENDS MemorySimFlat, MemoryRegionsProofs, FiniteSetTheorems

IInv ==
  /\ GoodRegions(regions)
  /\ watchpointEncountered \in Nat
  /\ exception \in Exception
  /\ wild \in BOOLEAN

(***************************************************************************)
(* The ways in which a call leaves the simulator.                          *)
(***************************************************************************)

\* A call that builds the list.
LEMMA LeavesKeeps ==
  ASSUME IInv, NEW result, NEW what, Leaves(result, what),
         GoodRegions(result.regions), result.exception \in Exception
  PROVE  IInv'
  BY DEF IInv, Leaves, GoodRegions, Redirects

\* A call that throws and changes nothing.
LEMMA FailsKeeps ==
  ASSUME IInv, NEW e \in Exception, NEW what, Fails(e, what)
  PROVE  IInv'
  BY DEF IInv, Fails, GoodRegions, Redirects

\* A call that leaves the arrays of its region.
LEMMA WildKeeps ==
  ASSUME IInv, GoesWild
  PROVE  IInv'
  BY DEF IInv, GoesWild, GoodRegions, Redirects

\* A call that answers.
LEMMA AnswersKeeps ==
  ASSUME IInv, NEW v, Answers(v), NEW rs, regions' = rs, GoodRegions(rs),
         watchpointEncountered' \in Nat
  PROVE  IInv'
  BY DEF IInv, Answers, Exception, GoodRegions, Redirects

(***************************************************************************)
(* Break/watchpoints.                                                      *)
(***************************************************************************)

\* Replacing the array of a region that an address was found in.
LEMMA EditGood ==
  ASSUME NEW rs, GoodRegions(rs), NEW i \in DOMAIN rs, NEW wps \in Seq(Watchpoint),
         Ordered(wps)
  PROVE  GoodRegions([rs EXCEPT ![i].watchpoints = wps])
<1> DEFINE r == [rs[i] EXCEPT !.watchpoints = wps]
<1>1. GoodRegion(rs[i])
  BY GoodElement
<1>2. GoodRegion(r) /\ r.isAlias = rs[i].isAlias /\ r.pRedirect = rs[i].pRedirect
  BY <1>1 DEF GoodRegion, MemoryRegion
<1>3. [rs EXCEPT ![i].watchpoints = wps] = [rs EXCEPT ![i] = r]
  OBVIOUS
<1> HIDE DEF r
<1> QED
  BY <1>2, <1>3, ReplaceRegion

\* The key that is looked for in the array is a watchpoint.
LEMMA KeyType ==
  ASSUME GoodRegions(regions), NEW request \in WatchRequests,
         Matching(regions, request.address, request.size) # {}
  PROVE  LET found == findMatchingRegion(regions, request.address, request.size)
         IN  /\ found.region \in DOMAIN regions
             /\ regions[found.region].watchpoints \in Seq(Watchpoint)
             /\ Ordered(regions[found.region].watchpoints)
             /\ Key(request, found) \in Watchpoint
<1> DEFINE found == findMatchingRegion(regions, request.address, request.size)
           end   == found.address + request.size
<1>1. /\ request.address \in Address /\ request.size \in AccessSize
      /\ request.type \in WatchpointType
  BY RequestAssumption
<1>2. /\ found.address \in Address /\ found.region \in DOMAIN regions
      /\ GoodRegion(regions[found.region])
  BY <1>1, FindGood
<1> HIDE DEF found
<1>3. end \in Int
  BY <1>1, <1>2, AddressLimitAssumption
  DEF Address, AccessSize, ByteSize, HalfWordSize, WordSize
<1> HIDE DEF end
<1>4. end % AddressLimit \in Address
  BY <1>3, AddressLimitAssumption DEF Address
<1>5. Key(request, found) \in Watchpoint
  BY <1>1, <1>2, <1>4 DEF Key, MakeWatchpoint, EndAddress, Watchpoint, end
<1> QED
  BY <1>2, <1>5 DEF GoodRegion, MemoryRegion, found

\* Setting a break/watchpoint.
LEMMA SetKeeps ==
  ASSUME IInv, NEW request \in WatchRequests, SetWatchpoint(request)
  PROVE  IInv'
<1> DEFINE matching == Matching(regions, request.address, request.size)
           found  == findMatchingRegion(regions, request.address, request.size)
           wps    == regions[found.region].watchpoints
           edited == setWatchpoint(wps, Key(request, found))
           result == Returns([regions EXCEPT ![found.region].watchpoints = edited])
           what   == [kind |-> "set", request |-> request]
<1>1. \/ Fails(busErrorException, NoValue)
      \/ Fails(outOfMemoryException, NoValue)
      \/ matching # {} /\ Leaves(result, what)
  BY DEF SetWatchpoint
<1>2. busErrorException \in Exception /\ outOfMemoryException \in Exception
  BY DEF Exception
<1>3. CASE matching # {} /\ Leaves(result, what)
  <2>1. GoodRegions(regions)
    BY DEF IInv
  <2>2. /\ found.region \in DOMAIN regions /\ wps \in Seq(Watchpoint) /\ Ordered(wps)
        /\ Key(request, found) \in Watchpoint
    BY <2>1, <1>3, KeyType
  <2>3. edited \in Seq(Watchpoint) /\ Ordered(edited)
    BY <2>2, SetKeepsOrder DEF Ordered
  <2> HIDE DEF edited, found
  <2>4. GoodRegions([regions EXCEPT ![found.region].watchpoints = edited])
    BY <2>1, <2>2, <2>3, EditGood
  <2>5. GoodRegions(result.regions) /\ result.exception \in Exception
    BY <2>4 DEF Returns, Exception
  <2> HIDE DEF result
  <2> QED
    BY <2>5, <1>3, LeavesKeeps
<1> QED
  BY <1>1, <1>2, <1>3, FailsKeeps

\* Clearing a break/watchpoint.
LEMMA ClearKeeps ==
  ASSUME IInv, NEW request \in WatchRequests, ClearWatchpoint(request)
  PROVE  IInv'
<1> DEFINE matching == Matching(regions, request.address, request.size)
           found  == findMatchingRegion(regions, request.address, request.size)
           wps    == regions[found.region].watchpoints
           edited == clearWatchpoint(wps, Key(request, found))
           result == Returns([regions EXCEPT ![found.region].watchpoints = edited])
           what   == [kind |-> "cleared", request |-> request]
<1>1. \/ Fails(busErrorException, NoValue)
      \/ matching # {} /\ Leaves(result, what)
  BY DEF ClearWatchpoint
<1>2. busErrorException \in Exception
  BY DEF Exception
<1>3. CASE matching # {} /\ Leaves(result, what)
  <2>1. GoodRegions(regions)
    BY DEF IInv
  <2>2. /\ found.region \in DOMAIN regions /\ wps \in Seq(Watchpoint) /\ Ordered(wps)
        /\ Key(request, found) \in Watchpoint
    BY <2>1, <1>3, KeyType
  <2>3. edited \in Seq(Watchpoint) /\ Ordered(edited)
    BY <2>2, ClearKeepsOrder DEF Ordered
  <2> HIDE DEF edited, found
  <2>4. GoodRegions([regions EXCEPT ![found.region].watchpoints = edited])
    BY <2>1, <2>2, <2>3, EditGood
  <2>5. GoodRegions(result.regions) /\ result.exception \in Exception
    BY <2>4 DEF Returns, Exception
  <2> HIDE DEF result
  <2> QED
    BY <2>5, <1>3, LeavesKeeps
<1> QED
  BY <1>1, <1>2, <1>3, FailsKeeps

(***************************************************************************)
(* Accesses.                                                               *)
(***************************************************************************)

\* The scan counts a natural number of watchpoints.
LEMMA ScanCounts ==
  ASSUME NEW wps \in Seq(Watchpoint), NEW address, NEW size, NEW type
  PROVE  Cardinality(checkForBreakWatchPoint(wps, address, size, type).counted) \in Nat
<1> DEFINE stops   == {i \in DOMAIN wps : StopsScan(wps[i], address, size, type)}
           stop    == ScanStop(wps, address, size, type)
           counted == {i \in 1 .. stop - 1 : Counts(wps[i], address, size, type)}
<1>1. Len(wps) \in Nat /\ DOMAIN wps = 1 .. Len(wps)
  BY LenProperties
<1>2. stop \in Nat
  <2>1. CASE stops = {}
    BY <2>1, <1>1 DEF ScanStop
  <2>2. CASE stops # {}
    <3>1. stops \in SUBSET Nat
      BY <1>1
    <3>2. Min(stops) \in Nat
      BY <2>2, <3>1, MinIsLeast
    <3> QED
      BY <2>2, <3>2 DEF ScanStop
  <2> QED
    BY <2>1, <2>2
<1> HIDE DEF stop
<1>3. IsFiniteSet(1 .. stop - 1)
  BY <1>2, FS_Interval
<1>4. IsFiniteSet(counted)
  BY <1>3, FS_Subset
<1>5. Cardinality(counted) \in Nat
  BY <1>4, FS_CardinalityType
<1> QED
  BY <1>5 DEF checkForBreakWatchPoint, stop

\* Counting a read.
LEMMA CountedGood ==
  ASSUME GoodRegions(regions), NEW found, found.region \in DOMAIN regions,
         NEW size, NEW type
  PROVE  GoodRegions(Counted(found, size, type))
<1> DEFINE i      == RegionOffset(regions, found) \div HalfWordSize + 1
           f      == found.region
           old    == regions[f].pReadCounts
           counts == [old EXCEPT ![i] = old[i] + 1]
           r      == [regions[f] EXCEPT !.pReadCounts = counts]
<1>1. GoodRegion(regions[f])
  BY GoodElement
<1>2. old \in Seq(Nat)
  BY <1>1 DEF GoodRegion, MemoryRegion
<1>3. Counted(found, size, type) \in {regions, [regions EXCEPT ![f] = r]}
  <2>1. [regions EXCEPT ![f].pReadCounts[i] = old[i] + 1] = [regions EXCEPT ![f] = r]
    OBVIOUS
  <2> QED
    BY <2>1 DEF Counted
<1> HIDE DEF i
<1>4. counts \in Seq(Nat)
  <2>1. Len(old) \in Nat /\ DOMAIN old = 1 .. Len(old) /\ \A k \in 1 .. Len(old) : old[k] \in Nat
    BY <1>2, LenProperties, ElementOfSeq
  <2>2. DOMAIN counts = 1 .. Len(old)
    BY <2>1
  <2>3. \A k \in 1 .. Len(old) : counts[k] = IF k = i THEN old[k] + 1 ELSE old[k]
    BY <2>1, <1>2
  <2>4. \A k \in 1 .. Len(old) : counts[k] \in Nat
    BY <2>1, <2>3
  <2>5. counts = [k \in 1 .. Len(old) |-> counts[k]]
    BY <2>1
  <2> HIDE DEF counts
  <2>6. counts \in [1 .. Len(old) -> Nat]
    BY <2>4, <2>5
  <2> QED
    BY <2>1, <2>6, SeqDef
<1> HIDE DEF counts
<1>5. GoodRegion(r) /\ r.isAlias = regions[f].isAlias /\ r.pRedirect = regions[f].pRedirect
  BY <1>1, <1>4 DEF GoodRegion, MemoryRegion
<1> HIDE DEF r
<1>6. GoodRegions([regions EXCEPT ![f] = r])
  BY <1>5, ReplaceRegion
<1> QED
  BY <1>3, <1>6

\* An access that does not come back with a pointer.
LEMMA FailsAccessKeeps ==
  ASSUME IInv, NEW address \in AccessAddresses, NEW size \in AccessSizes, NEW type,
         NEW check \in BOOLEAN, getDataPointerFails(address, size, type, check)
  PROVE  IInv'
<1> DEFINE found == findMatchingRegion(regions, address, size)
           scan  == checkForBreakWatchPoint(regions[found.region].watchpoints,
                                            found.address, size, type)
<1>1. CASE Fails(busErrorException, Refused(address, size, type))
  BY <1>1, FailsKeeps DEF Exception
<1>2. CASE GoesWild
  BY <1>2, WildKeeps
<1>3. CASE /\ IsPermitted(regions, address, size, type)
           /\ regions' = Counted(found, size, type)
           /\ watchpointEncountered' = watchpointEncountered + Cardinality(scan.counted)
           /\ exception' = hardwareBreakpointException
           /\ UNCHANGED wild
  <2>1. GoodRegions(regions) /\ watchpointEncountered \in Nat /\ wild \in BOOLEAN
    BY DEF IInv
  <2>2. found.region \in DOMAIN regions /\ GoodRegion(regions[found.region])
    BY <1>3, <2>1, FindGood, RequestAssumption DEF IsPermitted
  <2>3. Cardinality(scan.counted) \in Nat
    BY <2>2, ScanCounts DEF GoodRegion, MemoryRegion
  <2> HIDE DEF scan, found
  <2>4. GoodRegions(regions')
    <3>1. GoodRegions(Counted(found, size, type))
      BY <2>1, <2>2, CountedGood
    <3> QED
      BY <3>1, <1>3
  <2> QED
    BY <1>3, <2>1, <2>3, <2>4 DEF IInv, Exception, GoodRegions, Redirects
<1> QED
  BY <1>1, <1>2, <1>3 DEF getDataPointerFails

\* An access that comes back with a pointer.
LEMMA ReturnsAccessKeeps ==
  ASSUME IInv, NEW address \in AccessAddresses, NEW size \in AccessSizes, NEW type,
         NEW check \in BOOLEAN, NEW rs, NEW v,
         GoodRegions(rs), getDataPointerReturns(address, size, type, check, rs), Answers(v)
  PROVE  IInv'
<1> DEFINE found == findMatchingRegion(regions, address, size)
           scan  == checkForBreakWatchPoint(regions[found.region].watchpoints,
                                            found.address, size, type)
<1>1. GoodRegions(regions) /\ watchpointEncountered \in Nat
  BY DEF IInv
<1>2. /\ IsPermitted(regions, address, size, type)
      /\ regions' = rs
      /\ watchpointEncountered' = IF check
                                  THEN watchpointEncountered + Cardinality(scan.counted)
                                  ELSE watchpointEncountered
  BY DEF getDataPointerReturns
<1>3. found.region \in DOMAIN regions /\ GoodRegion(regions[found.region])
  BY <1>1, <1>2, FindGood, RequestAssumption DEF IsPermitted
<1>4. Cardinality(scan.counted) \in Nat
  BY <1>3, ScanCounts DEF GoodRegion, MemoryRegion
<1> HIDE DEF scan, found
<1>5. watchpointEncountered' \in Nat
  BY <1>1, <1>2, <1>4
<1> QED
  BY <1>2, <1>5, AnswersKeeps

\* A read, of any size.
LEMMA ReadKeeps ==
  ASSUME IInv, Read
  PROVE  IInv'
<1>1. PICK address \in AccessAddresses, size \in AccessSizes :
        LET found == findMatchingRegion(regions, address, size)
        IN  \/ getDataPointerFails(address, size, READING, TRUE)
            \/ /\ getDataPointerReturns(address, size, READING, TRUE,
                                        Counted(found, size, READING))
               /\ Answers([kind |-> "data", address |-> address, bytes |-> Bytes(found, size)])
  BY DEF Read
<1> DEFINE found == findMatchingRegion(regions, address, size)
           v == [kind |-> "data", address |-> address, bytes |-> Bytes(found, size)]
<1>2. CASE getDataPointerFails(address, size, READING, TRUE)
  BY <1>2, FailsAccessKeeps
<1>3. CASE /\ getDataPointerReturns(address, size, READING, TRUE, Counted(found, size, READING))
           /\ Answers(v)
  <2>1. GoodRegions(regions)
    BY DEF IInv
  <2>2. found.region \in DOMAIN regions
    BY <1>3, <2>1, FindGood, RequestAssumption DEF getDataPointerReturns, IsPermitted
  <2> HIDE DEF found
  <2>3. GoodRegions(Counted(found, size, READING))
    BY <2>1, <2>2, CountedGood
  <2> HIDE DEF v
  <2> QED
    BY <1>3, <2>3, ReturnsAccessKeeps
<1> QED
  BY <1>1, <1>2, <1>3

\* A write, of any size.
LEMMA WriteKeeps ==
  ASSUME IInv, Write
  PROVE  IInv'
<1>1. PICK address \in AccessAddresses, size \in AccessSizes :
        \/ getDataPointerFails(address, size, WRITING, TRUE)
        \/ \E bytes \in [1 .. size -> Byte] :
             LET found == findMatchingRegion(regions, address, size)
             IN  /\ getDataPointerReturns(address, size, WRITING, TRUE,
                                          Overwrite(regions, found, bytes))
                 /\ Answers([kind |-> "written", address |-> address, bytes |-> bytes])
  BY DEF Write
<1> DEFINE found == findMatchingRegion(regions, address, size)
<1>2. CASE getDataPointerFails(address, size, WRITING, TRUE)
  BY <1>2, FailsAccessKeeps
<1>3. ASSUME NEW bytes \in [1 .. size -> Byte],
             getDataPointerReturns(address, size, WRITING, TRUE,
                                   Overwrite(regions, found, bytes)),
             Answers([kind |-> "written", address |-> address, bytes |-> bytes])
      PROVE  IInv'
  <2> DEFINE v == [kind |-> "written", address |-> address, bytes |-> bytes]
  <2>1. GoodRegions(regions)
    BY DEF IInv
  <2>2. found.region \in DOMAIN regions /\ found.address \in Address
    BY <1>3, <2>1, FindGood, RequestAssumption DEF getDataPointerReturns, IsPermitted
  <2>3. size \in Nat
    BY RequestAssumption DEF AccessSize, ByteSize, HalfWordSize, WordSize
  <2> HIDE DEF found
  <2>4. GoodRegions(Overwrite(regions, found, bytes))
    BY <2>1, <2>2, <2>3, OverwriteGood
  <2>5. Answers(v)
    BY <1>3
  <2> HIDE DEF v
  <2> QED
    BY <1>3, <2>4, <2>5, ReturnsAccessKeeps
<1> QED
  BY <1>1, <1>2, <1>3

\* Mapping an address to a pointer.
LEMMA MapKeeps ==
  ASSUME IInv, NEW address \in AccessAddresses, NEW size \in AccessSizes, NEW type,
         Map(address, size, type)
  PROVE  IInv'
<1> DEFINE found == findMatchingRegion(regions, address, size)
           v == [kind |-> "pointer", address |-> address, size |-> size, type |-> type,
                 region |-> found.region, offset |-> RegionOffset(regions, found)]
<1>1. CASE getDataPointerFails(address, size, type, FALSE)
  BY <1>1, FailsAccessKeeps
<1>2. CASE /\ getDataPointerReturns(address, size, type, FALSE, Counted(found, size, type))
           /\ Answers(v)
  <2>1. GoodRegions(regions)
    BY DEF IInv
  <2>2. found.region \in DOMAIN regions
    BY <1>2, <2>1, FindGood, RequestAssumption DEF getDataPointerReturns, IsPermitted
  <2> HIDE DEF found, v
  <2>3. GoodRegions(Counted(found, size, type))
    BY <2>1, <2>2, CountedGood
  <2> QED
    BY <1>2, <2>3, ReturnsAccessKeeps
<1> QED
  BY <1>1, <1>2 DEF Map

\* Asking for the read count of an address.
LEMMA ReadCountKeeps ==
  ASSUME IInv, MemorySim_GetFlashReadCount
  PROVE  IInv'
<1>1. PICK address \in AccessAddresses :
        LET found == findMatchingRegion(regions, address, HalfWordSize)
            r     == regions[found.region]
            i     == RegionOffset(regions, found) \div HalfWordSize + 1
        IN  \/ Fails(busErrorException, NoValue)
            \/ GoesWild
            \/ /\ Answers([kind |-> "count", address |-> address, count |-> r.pReadCounts[i]])
               /\ UNCHANGED <<regions, watchpointEncountered>>
  BY DEF MemorySim_GetFlashReadCount
<1>2. GoodRegions(regions) /\ watchpointEncountered \in Nat /\ busErrorException \in Exception
  BY DEF IInv, Exception
<1> QED
  BY <1>1, <1>2, FailsKeeps, WildKeeps, AnswersKeeps

(***************************************************************************)
(* The invariant.                                                          *)
(***************************************************************************)

LEMMA InitIInv == Init => IInv
<1>1. GoodRegions(<<>>)
  BY DEF GoodRegions, Redirects
<1> SUFFICES ASSUME Init
             PROVE  IInv
  OBVIOUS
<1>2. GoodRegions(regions)
  BY <1>1 DEF Init, GoodRegions, Redirects
<1>3. watchpointEncountered \in Nat
  BY DEF Init
<1>4. exception \in Exception /\ wild \in BOOLEAN
  BY DEF Init, Exception
<1> QED
  BY <1>2, <1>3, <1>4 DEF IInv

\* A change of the list by one of the calls that build it.
LEMMA BuildKeeps ==
  ASSUME IInv, \/ MemorySim_Uninit
               \/ MemorySim_Init
               \/ MemorySim_CreateRegion
               \/ MemorySim_CreateAlias
               \/ MemorySim_MakeRegionReadOnly
               \/ MemorySim_LoadFromFlashImage
               \/ MemorySim_CreateRegionsFromFlashImage
               \/ MemorySim_GetMemoryMapXML
  PROVE  IInv'
<1>1. /\ GoodRegions(regions) /\ watchpointEncountered \in Nat
      /\ outOfMemoryException \in Exception
  BY DEF IInv, Exception
<1>2. GoodRegions(<<>>)
  BY DEF GoodRegions, Redirects
<1>3. FLASH_BASE_ADDRESS \in Address
  BY AddressLimitAssumption DEF FLASH_BASE_ADDRESS, Address
<1>4. CASE MemorySim_Uninit
  <2>1. Leaves(Returns(<<>>), NoValue)
    BY <1>4 DEF MemorySim_Uninit
  <2>2. Returns(<<>>).regions = <<>> /\ Returns(<<>>).exception \in Exception
    BY DEF Returns, Exception
  <2> QED
    BY <2>1, <2>2, <1>2, LeavesKeeps
<1>5. CASE MemorySim_Init
  BY <1>2, <1>5, AnswersKeeps DEF MemorySim_Init
<1>6. CASE MemorySim_CreateRegion
  <2>1. PICK request \in RegionRequests, mallocOk \in MallocOutcomes :
          Leaves(CreateRegion(regions, request.baseAddress, request.size, mallocOk), NoValue)
    BY <1>6 DEF MemorySim_CreateRegion
  <2>2. request.baseAddress \in Address /\ request.size \in Address /\ mallocOk \in BOOLEAN
    BY RequestAssumption
  <2> QED
    BY <1>1, <2>1, <2>2, CreateRegionGood, LeavesKeeps
<1>7. CASE MemorySim_CreateAlias
  <2>1. PICK request \in AliasRequests, mallocOk \in MallocOutcomes :
          Leaves(CreateAlias(regions, request.aliasAddress, request.redirectAddress,
                             request.size, mallocOk), NoValue)
    BY <1>7 DEF MemorySim_CreateAlias
  <2>2. /\ request.aliasAddress \in Address /\ request.redirectAddress \in Address
        /\ request.size \in Address /\ mallocOk \in BOOLEAN
    BY RequestAssumption
  <2> QED
    BY <1>1, <2>1, <2>2, CreateAliasGood, LeavesKeeps
<1>8. CASE MemorySim_MakeRegionReadOnly
  <2>1. PICK baseAddress \in ReadOnlyRequests, mallocOk \in MallocOutcomes :
          Leaves(MakeRegionReadOnly(regions, baseAddress, mallocOk), NoValue)
    BY <1>8 DEF MemorySim_MakeRegionReadOnly
  <2>2. baseAddress \in Address /\ mallocOk \in BOOLEAN
    BY RequestAssumption
  <2> QED
    BY <1>1, <2>1, <2>2, MakeRegionReadOnlyGood, LeavesKeeps
<1>9. CASE MemorySim_LoadFromFlashImage
  <2>1. PICK request \in LoadRequests :
          \/ GoesWild
          \/ Leaves(LoadFromFlashImage(regions, request.baseAddress, request.image), NoValue)
    BY <1>9 DEF MemorySim_LoadFromFlashImage
  <2>2. request.baseAddress \in Address /\ request.image \in Seq(Byte)
    BY RequestAssumption
  <2> QED
    BY <1>1, <2>1, <2>2, LoadGood, LeavesKeeps, WildKeeps
<1>10. CASE MemorySim_CreateRegionsFromFlashImage
  <2>1. PICK image \in FlashImages, flashOk \in MallocOutcomes, countsOk \in MallocOutcomes,
             ramOk \in MallocOutcomes :
          \/ GoesWild
          \/ Leaves(CreateRegionsFromFlashImage(regions, image, flashOk, countsOk, ramOk),
                    NoValue)
    BY <1>10 DEF MemorySim_CreateRegionsFromFlashImage
  <2>2. /\ image \in [bytes : Seq(Byte), stack : Address] /\ Len(image.bytes) \in Address
        /\ flashOk \in BOOLEAN /\ countsOk \in BOOLEAN /\ ramOk \in BOOLEAN
    BY RequestAssumption
  <2> QED
    BY <1>1, <2>1, <2>2, FlashGood, LeavesKeeps, WildKeeps
<1>11. CASE MemorySim_GetMemoryMapXML
  <2>1. \/ Fails(outOfMemoryException, NoValue)
        \/ /\ Answers([kind |-> "map", map |-> MemoryMap(regions)])
           /\ UNCHANGED <<regions, watchpointEncountered>>
    BY <1>11 DEF MemorySim_GetMemoryMapXML
  <2> QED
    BY <1>1, <2>1, FailsKeeps, AnswersKeeps
<1> QED
  BY <1>4, <1>5, <1>6, <1>7, <1>8, <1>9, <1>10, <1>11

LEMMA NextIInv == IInv /\ [Next]_vars => IInv'
<1> SUFFICES ASSUME IInv, [Next]_vars
             PROVE  IInv'
  OBVIOUS
<1>1. CASE \/ MemorySim_Uninit
           \/ MemorySim_Init
           \/ MemorySim_CreateRegion
           \/ MemorySim_CreateAlias
           \/ MemorySim_MakeRegionReadOnly
           \/ MemorySim_LoadFromFlashImage
           \/ MemorySim_CreateRegionsFromFlashImage
           \/ MemorySim_GetMemoryMapXML
  BY <1>1, BuildKeeps
<1>2. CASE MemorySim_SetHardwareBreakpoint
  BY <1>2, SetKeeps DEF MemorySim_SetHardwareBreakpoint
<1>3. CASE MemorySim_ClearHardwareBreakpoint
  BY <1>3, ClearKeeps DEF MemorySim_ClearHardwareBreakpoint
<1>4. CASE MemorySim_SetHardwareWatchpoint
  BY <1>4, SetKeeps DEF MemorySim_SetHardwareWatchpoint
<1>5. CASE MemorySim_ClearHardwareWatchpoint
  BY <1>5, ClearKeeps DEF MemorySim_ClearHardwareWatchpoint
<1>6. CASE MemorySim_WasWatchpointEncountered
  <2>1. GoodRegions(regions) /\ watchpointEncountered' \in Nat
    BY <1>6 DEF IInv, MemorySim_WasWatchpointEncountered
  <2> QED
    BY <1>6, <2>1, AnswersKeeps DEF MemorySim_WasWatchpointEncountered
<1>7. CASE Read
  BY <1>7, ReadKeeps
<1>8. CASE Write
  BY <1>8, WriteKeeps
<1>9. CASE MemorySim_MapSimulatedAddressToHostAddressForWrite
  BY <1>9, MapKeeps DEF MemorySim_MapSimulatedAddressToHostAddressForWrite
<1>10. CASE MemorySim_MapSimulatedAddressToHostAddressForRead
  BY <1>10, MapKeeps DEF MemorySim_MapSimulatedAddressToHostAddressForRead
<1>11. CASE MemorySim_GetFlashReadCount
  BY <1>11, ReadCountKeeps
<1>12. CASE UNCHANGED vars
  BY <1>12 DEF vars, IInv, GoodRegions, Redirects
<1> QED
  BY <1>1, <1>2, <1>3, <1>4, <1>5, <1>6, <1>7, <1>8, <1>9, <1>10, <1>11, <1>12 DEF Next

\* Every array that a reachable list holds is in order.
THEOREM IInvHolds == Spec => []IInv
<1> QED
  BY InitIInv, NextIInv, PTL DEF Spec

(***************************************************************************)
(* What follows from it.                                                   *)
(***************************************************************************)

\* Every variable holds values of its type, in every run of the simulator.
THEOREM TypeCorrect == Spec => []TypeOK
<1>1. IInv => TypeOK
  BY DEF IInv, TypeOK, GoodRegions
<1> QED
  BY <1>1, IInvHolds, PTL

\* The array of every region stays sorted and without duplicates, whatever is set,
\* cleared, read, written, loaded and freed.
THEOREM OrderKept == Spec => []WatchpointsOrdered
<1>1. IInv => WatchpointsOrdered
  BY DEF IInv, WatchpointsOrdered, GoodRegions, Ordered
<1> QED
  BY <1>1, IInvHolds, PTL

\* An access trips a breakpoint whenever one matches, and counts every watchpoint
\* that does, although the scan gives up early.
THEOREM ScanComplete == Spec => []ScanIsComplete
<1>1. ASSUME IInv
      PROVE  ScanIsComplete
  <2>1. SUFFICES ASSUME NEW i \in DOMAIN regions, NEW address \in AccessAddresses,
                        NEW size \in AccessSizes, NEW type \in AccessType
                 PROVE  LET wps  == regions[i].watchpoints
                            scan == checkForBreakWatchPoint(wps, address, size, type)
                        IN  /\ scan.tripped <=>
                                 \E k \in DOMAIN wps : Trips(wps[k], address, size, type)
                            /\ ~scan.tripped =>
                                 scan.counted
                                   = {k \in DOMAIN wps : Counts(wps[k], address, size, type)}
    BY DEF ScanIsComplete
  <2>2. regions[i].watchpoints \in Seq(Watchpoint) /\ IsSortedByStart(regions[i].watchpoints)
    BY <1>1, GoodElement DEF IInv, GoodRegion, MemoryRegion, Ordered
  <2>3. address \in Int
    BY RequestAssumption, AddressLimitAssumption DEF Address
  <2> QED
    BY <2>2, <2>3, ScanLosesNothing
<1> QED
  BY <1>1, IInvHolds, PTL

(***************************************************************************)
(* Where the regions are, whether they have what they need, and what the   *)
(* aliases of the list were asked for.                                     *)
(***************************************************************************)

\* The aliases of the list, as long as they were asked for or shorter.
AliasesRequested(rs) ==
  \A i \in DOMAIN rs : rs[i].isAlias =>
    \E r \in AliasRequests :
      rs[i].baseAddress = r.aliasAddress /\ rs[i].size <= r.size

\* What keeps a simulator from going wild.
Sane == Sound(regions) /\ AliasesRequested(regions) /\ NoAliasOfAlias /\ MallocSucceeds

\* Clients that ask for no alias of an alias.
Kept == AliasesRequested(regions) /\ NoAliasOfAlias

\* An alias within its region; a region of its own below the top.
Fit(rs, i) == Within(rs, i) /\ (~rs[i].isAlias => BelowTop(rs[i]))

\* The regions of new that are behind those of old fit.
NewOnesFit(old, new) == \A i \in DOMAIN new \ DOMAIN old : Fit(new, i)

\* What a step does that leaves the regions where they are.
Stays ==
  /\ KeepsPlaces(regions, regions')
  /\ exception' # noException => DOMAIN regions' = DOMAIN regions
  /\ Sane => Sound(regions') /\ UNCHANGED wild
  /\ Kept => AliasesRequested(regions')
  /\ Kept /\ NoRegionPassesTop => NewOnesFit(regions, regions')

LEMMA SameStays == \A rs : KeepsPlaces(rs, rs) /\ KeepsAliases(rs, rs)
  BY DEF KeepsAliases, KeepsPlaces, SamePlace

\* No alias is new.
LEMMA RequestedStay ==
  ASSUME NEW old, NEW new, KeepsAliases(old, new), AliasesRequested(old)
  PROVE  AliasesRequested(new)
BY DEF KeepsAliases, KeepsPlaces, SamePlace, AliasesRequested

LEMMA SameDomain ==
  ASSUME NEW old, NEW new, KeepsPlaces(old, new), DOMAIN new = DOMAIN old
  PROVE  KeepsAliases(old, new)
BY DEF KeepsAliases

\* The ways in which a call leaves the simulator.
LEMMA LeavesStays ==
  ASSUME NEW result, NEW what, Leaves(result, what),
         KeepsPlaces(regions, result.regions),
         result.exception # noException => DOMAIN result.regions = DOMAIN regions,
         Sane => Sound(result.regions),
         Kept => AliasesRequested(result.regions),
         Kept /\ NoRegionPassesTop => NewOnesFit(regions, result.regions)
  PROVE  Stays
BY DEF Leaves, Stays

LEMMA LeavesDomainStays ==
  ASSUME NEW result, NEW what, Leaves(result, what),
         KeepsPlaces(regions, result.regions), DOMAIN result.regions = DOMAIN regions,
         Sane => Sound(result.regions)
  PROVE  Stays
<1>1. Kept => AliasesRequested(result.regions)
  BY SameDomain, RequestedStay DEF Kept
<1>2. NewOnesFit(regions, result.regions)
  BY DEF NewOnesFit
<1> QED
  BY <1>1, <1>2, LeavesStays

LEMMA FailsStays ==
  ASSUME NEW e, NEW what, Fails(e, what)
  PROVE  Stays
BY SameStays DEF Fails, Stays, Sane, Kept, NewOnesFit

LEMMA AnswersStays ==
  ASSUME NEW v, Answers(v), KeepsPlaces(regions, regions'), DOMAIN regions' = DOMAIN regions,
         Sane => Sound(regions')
  PROVE  Stays
<1>1. Kept => AliasesRequested(regions')
  BY SameDomain, RequestedStay DEF Kept
<1>2. NewOnesFit(regions, regions')
  BY DEF NewOnesFit
<1> QED
  BY <1>1, <1>2 DEF Answers, Stays

\* Setting and clearing a break/watchpoint.
LEMMA WatchStays ==
  ASSUME IInv, NEW request \in WatchRequests,
         SetWatchpoint(request) \/ ClearWatchpoint(request)
  PROVE  Stays
<1> DEFINE found == findMatchingRegion(regions, request.address, request.size)
           f     == found.region
           Edited(wps) == [regions EXCEPT ![f].watchpoints = wps]
<1>1. \/ \E e : Fails(e, NoValue)
      \/ /\ Matching(regions, request.address, request.size) # {}
         /\ \E wps, what : Leaves(Returns(Edited(wps)), what)
  BY DEF SetWatchpoint, ClearWatchpoint
<1>2. ASSUME NEW wps, NEW what, Matching(regions, request.address, request.size) # {},
             Leaves(Returns(Edited(wps)), what)
      PROVE  Stays
  <2> DEFINE r == [regions[f] EXCEPT !.watchpoints = wps]
  <2>1. GoodRegions(regions)
    BY DEF IInv
  <2>2. f \in DOMAIN regions /\ regions[f] \in MemoryRegion
    BY <1>2, <2>1, FindGood, RequestAssumption DEF GoodRegion
  <2>3. Edited(wps) = [regions EXCEPT ![f] = r]
    OBVIOUS
  <2> HIDE DEF f, found
  <2>4. /\ SamePlace(regions[f], r) /\ r.pData = regions[f].pData
        /\ r.isReadOnly = regions[f].isReadOnly /\ r.pReadCounts = regions[f].pReadCounts
    BY <2>2 DEF SamePlace, MemoryRegion
  <2> HIDE DEF r
  <2>5. Sound(regions) => Equipped(r)
    BY <2>2, <2>4 DEF Sound, Equipped, SamePlace
  <2>6. LET rs == [regions EXCEPT ![f] = r]
        IN  /\ KeepsPlaces(regions, rs) /\ DOMAIN rs = DOMAIN regions
            /\ Sane => Sound(rs)
    BY <2>1, <2>2, <2>4, <2>5, ReplacedPlaces DEF Sane
  <2>7. Returns(Edited(wps)).regions = Edited(wps)
    BY DEF Returns
  <2> HIDE DEF Edited
  <2> QED
    BY <1>2, <2>3, <2>6, <2>7, LeavesDomainStays
<1> HIDE DEF Edited, found
<1> QED
  BY <1>1, <1>2, FailsStays

\* A read that is counted.
LEMMA CountedStays ==
  ASSUME GoodRegions(regions), NEW found, found.region \in DOMAIN regions, NEW size, NEW type
  PROVE  /\ KeepsPlaces(regions, Counted(found, size, type))
         /\ DOMAIN Counted(found, size, type) = DOMAIN regions
         /\ Sound(regions) => Sound(Counted(found, size, type))
<1> DEFINE i      == RegionOffset(regions, found) \div HalfWordSize + 1
           f      == found.region
           old    == regions[f].pReadCounts
           counts == [old EXCEPT ![i] = old[i] + 1]
           r      == [regions[f] EXCEPT !.pReadCounts = counts]
<1>1. regions[f] \in MemoryRegion
  BY GoodElement DEF GoodRegion
<1>2. Counted(found, size, type) \in {regions, [regions EXCEPT ![f] = r]}
  <2>1. [regions EXCEPT ![f].pReadCounts[i] = old[i] + 1] = [regions EXCEPT ![f] = r]
    OBVIOUS
  <2> QED
    BY <2>1 DEF Counted
<1> HIDE DEF i, f
<1>3. Len(counts) = Len(old)
  <2>1. old \in Seq(Nat)
    BY <1>1 DEF MemoryRegion
  <2>2. DOMAIN counts = DOMAIN old
    OBVIOUS
  <2> HIDE DEF counts, old
  <2>3. Len(old) \in Nat /\ DOMAIN counts = 1 .. Len(old)
    BY <2>1, <2>2, LenProperties
  <2> QED
    BY <2>3
<1>4. r.pReadCounts = counts
  BY <1>1 DEF MemoryRegion
<1> HIDE DEF counts
<1>5. /\ SamePlace(regions[f], r) /\ r.pData = regions[f].pData
      /\ r.isReadOnly = regions[f].isReadOnly
  BY <1>1 DEF SamePlace, MemoryRegion
<1> HIDE DEF r
<1>6. Sound(regions) => Equipped(r)
  BY <1>3, <1>4, <1>5 DEF Sound, Equipped, SamePlace, f
<1>7. LET rs == [regions EXCEPT ![f] = r]
      IN  /\ KeepsPlaces(regions, rs) /\ DOMAIN rs = DOMAIN regions
          /\ Sound(regions) => Sound(rs)
  BY <1>5, <1>6, ReplacedPlaces DEF f
<1> QED
  BY <1>2, <1>7, SameStays

\* An access that does not come back with a pointer.
LEMMA FailsAccessStays ==
  ASSUME IInv, NEW address \in AccessAddresses, NEW size \in AccessSizes, NEW type,
         NEW check \in BOOLEAN, getDataPointerFails(address, size, type, check)
  PROVE  Stays
<1> DEFINE found == findMatchingRegion(regions, address, size)
<1>1. GoodRegions(regions) /\ address \in Address /\ size \in Nat
  BY RequestAssumption DEF IInv, AccessSize, ByteSize, HalfWordSize, WordSize
<1>2. CASE Fails(busErrorException, Refused(address, size, type))
  BY <1>2, FailsStays
<1>3. CASE IsPermitted(regions, address, size, type) /\ ~PointsIntoData(regions, found, size)
           /\ GoesWild
  <2>1. Matching(regions, address, size) # {}
    BY <1>3 DEF IsPermitted
  <2>2. ~Sound(regions)
    BY <1>1, <1>3, <2>1, FoundInData
  <2> QED
    BY <1>3, <2>2, SameStays DEF GoesWild, Stays, Sane, Kept, NewOnesFit
<1>4. CASE /\ IsPermitted(regions, address, size, type)
           /\ regions' = Counted(found, size, type)
           /\ UNCHANGED wild
  <2>1. found.region \in DOMAIN regions
    BY <1>1, <1>4, FindGood DEF IsPermitted
  <2> HIDE DEF found
  <2>2. /\ KeepsPlaces(regions, regions') /\ DOMAIN regions' = DOMAIN regions
        /\ Sound(regions) => Sound(regions')
    BY <1>1, <1>4, <2>1, CountedStays
  <2> QED
    BY <1>4, <2>2, SameDomain, RequestedStay DEF Stays, Sane, Kept, NewOnesFit
<1> QED
  BY <1>2, <1>3, <1>4 DEF getDataPointerFails

\* A read, of any size; a write; a mapping to a pointer.
LEMMA AccessStays ==
  ASSUME IInv, NEW address \in AccessAddresses, NEW size \in AccessSizes, NEW type,
         NEW check \in BOOLEAN, NEW rs, NEW v,
         getDataPointerReturns(address, size, type, check, rs), Answers(v),
         LET found == findMatchingRegion(regions, address, size)
         IN  rs = Counted(found, size, type) \/ \E bytes : rs = Overwrite(regions, found, bytes)
  PROVE  Stays
<1> DEFINE found == findMatchingRegion(regions, address, size)
<1>1. GoodRegions(regions) /\ address \in Address
  BY RequestAssumption DEF IInv
<1>2. found.region \in DOMAIN regions
  BY <1>1, FindGood DEF getDataPointerReturns, IsPermitted
<1> HIDE DEF found
<1>3. /\ KeepsPlaces(regions, rs) /\ DOMAIN rs = DOMAIN regions
      /\ Sound(regions) => Sound(rs)
  BY <1>1, <1>2, CountedStays, OverwritePlaces DEF found
<1>4. regions' = rs
  BY DEF getDataPointerReturns
<1> QED
  BY <1>3, <1>4, AnswersStays DEF Sane

\* Asking for the read count of an address.
LEMMA ReadCountStays ==
  ASSUME IInv, MemorySim_GetFlashReadCount
  PROVE  Stays
<1>1. PICK address \in AccessAddresses :
        LET found == findMatchingRegion(regions, address, HalfWordSize)
            r     == regions[found.region]
            i     == RegionOffset(regions, found) \div HalfWordSize + 1
        IN  \/ Fails(busErrorException, NoValue)
            \/ /\ Matching(regions, address, HalfWordSize) # {}
               /\ r.isReadOnly
               /\ IF i \notin DOMAIN r.pReadCounts THEN GoesWild
                  ELSE \E v : Answers(v) /\ UNCHANGED <<regions, watchpointEncountered>>
  BY DEF MemorySim_GetFlashReadCount
<1> DEFINE found == findMatchingRegion(regions, address, HalfWordSize)
           r     == regions[found.region]
           o     == RegionOffset(regions, found)
           i     == o \div HalfWordSize + 1
<1>2. ASSUME Matching(regions, address, HalfWordSize) # {}, r.isReadOnly, Sound(regions)
      PROVE  i \in DOMAIN r.pReadCounts
  <2>1. GoodRegions(regions) /\ address \in Address /\ HalfWordSize \in Nat
    BY RequestAssumption DEF IInv, HalfWordSize
  <2>2. found.region \in DOMAIN regions /\ r \in MemoryRegion /\ ~r.isAlias
    BY <1>2, <2>1, FindGood DEF GoodRegion
  <2>3. o \in Nat /\ o + HalfWordSize <= r.size
    BY <1>2, <2>1, FoundInData
  <2>4. Len(r.pReadCounts) = r.size \div HalfWordSize
    BY <1>2, <2>2 DEF Sound, Equipped
  <2>5. r.size \in Nat /\ r.pReadCounts \in Seq(Nat)
    BY <2>2, AddressLimitAssumption DEF MemoryRegion, Address
  <2> HIDE DEF found, r, o
  <2>6. i \in 1 .. r.size \div HalfWordSize
    BY <2>3, <2>5 DEF HalfWordSize
  <2>7. DOMAIN r.pReadCounts = 1 .. r.size \div HalfWordSize
    BY <2>4, <2>5, LenProperties
  <2> QED
    BY <2>6, <2>7
<1> HIDE DEF found, r, o, i
<1>3. CASE Fails(busErrorException, NoValue)
  BY <1>3, FailsStays
<1>4. CASE \E v : Answers(v) /\ UNCHANGED <<regions, watchpointEncountered>>
  BY <1>4, SameStays DEF Stays, Sane, Kept, NewOnesFit, Answers
<1>5. CASE GoesWild /\ i \notin DOMAIN r.pReadCounts /\ r.isReadOnly
           /\ Matching(regions, address, HalfWordSize) # {}
  <2>1. ~Sound(regions)
    BY <1>2, <1>5
  <2> QED
    BY <1>5, <2>1, SameStays DEF GoesWild, Stays, Sane, Kept, NewOnesFit
<1> QED
  BY <1>1, <1>3, <1>4, <1>5 DEF found, r, o, i

\* An alias is no longer than it was asked to be.
LEMMA AliasNotLonger ==
  ASSUME NEW rs, GoodRegions(rs), NEW aliasAddress, NEW redirectAddress \in Address,
         NEW size \in Address, Matching(rs, redirectAddress, 1) # {}
  PROVE  LET alias == NewAlias(rs, aliasAddress, redirectAddress, size)
         IN  alias.baseAddress = aliasAddress /\ alias.size <= size
<1> DEFINE p == findMatchingRegion(rs, redirectAddress, 1).region
           m == (rs[p].size - (redirectAddress - rs[p].baseAddress)) % AddressLimit
<1>1. rs[p].size \in Int /\ rs[p].baseAddress \in Int /\ redirectAddress \in Int
      /\ size \in Int
  <2>1. GoodRegion(rs[p])
    BY FindGood
  <2> HIDE DEF p
  <2> QED
    BY <2>1, AddressLimitAssumption DEF GoodRegion, MemoryRegion, Address
<1>2. /\ NewAlias(rs, aliasAddress, redirectAddress, size).baseAddress = aliasAddress
      /\ NewAlias(rs, aliasAddress, redirectAddress, size).size = IF size > m THEN m ELSE size
  BY DEF NewAlias
<1> HIDE DEF p
<1>3. m \in Int
  BY <1>1, AddressLimitAssumption
<1> HIDE DEF m
<1>4. (IF size > m THEN m ELSE size) <= size
  BY <1>1, <1>3
<1> QED
  BY <1>2, <1>4

\* An address within an alias that was asked for.
LEMMA WithinRequested ==
  ASSUME NEW a \in Int, NEW base \in Int, NEW size \in Int, NEW n \in Int, size <= n,
         a >= base, a + 1 <= base + size
  PROVE  a \in base .. base + n - 1
OBVIOUS

\* Creating an alias: it is one that was asked for, of a region.
LEMMA AliasStays ==
  ASSUME IInv, MemorySim_CreateAlias
  PROVE  Stays
<1>1. PICK request \in AliasRequests, mallocOk \in MallocOutcomes :
        Leaves(CreateAlias(regions, request.aliasAddress, request.redirectAddress,
                           request.size, mallocOk), NoValue)
  BY DEF MemorySim_CreateAlias
<1> DEFINE address == request.redirectAddress
           S       == Matching(regions, address, 1)
           direct  == ~regions[Min(S)].isAlias
           alias   == NewAlias(regions, request.aliasAddress, address, request.size)
           result  == CreateAlias(regions, request.aliasAddress, address, request.size, mallocOk)
<1>2. /\ request.aliasAddress \in Address /\ address \in Address /\ request.size \in Address
      /\ mallocOk \in BOOLEAN /\ GoodRegions(regions)
  BY RequestAssumption DEF IInv
<1>3. /\ KeepsPlaces(regions, result.regions)
      /\ IF result.exception = noException
         THEN S # {} /\ result.regions = Append(regions, alias)
         ELSE result.regions = regions
      /\ Sound(regions) /\ direct => Sound(result.regions)
  BY <1>2, AliasPlaces
<1>4. ASSUME AliasesRequested(regions), S # {}
      PROVE  AliasesRequested(Append(regions, alias))
  <2>1. /\ DOMAIN Append(regions, alias) = 1 .. Len(regions) + 1
        /\ \A i \in DOMAIN regions : Append(regions, alias)[i] = regions[i]
        /\ Append(regions, alias)[Len(regions) + 1] = alias
    BY <1>2, AppendedPlaces
  <2>2. DOMAIN regions = 1 .. Len(regions) /\ Len(regions) \in Nat
    BY <1>2, GoodElement
  <2>3. alias.baseAddress = request.aliasAddress /\ alias.size <= request.size
    BY <1>2, <1>4, AliasNotLonger
  <2> HIDE DEF alias, S, result, direct
  <2>4. \A i \in 1 .. Len(regions) + 1 : i \in DOMAIN regions \/ i = Len(regions) + 1
    BY <2>2
  <2> QED
    BY <1>4, <2>1, <2>3, <2>4 DEF AliasesRequested
<1>5. ASSUME AliasesRequested(regions), NoAliasOfAlias, S # {}
      PROVE  direct
  <2>1. DOMAIN regions = 1 .. Len(regions) /\ Len(regions) \in Nat
    BY <1>2, GoodElement
  <2>2. Min(S) \in S
    <3>1. S \in SUBSET Nat
      BY <2>1 DEF Matching
    <3> HIDE DEF S
    <3> QED
      BY <3>1, <1>5, MinIsLeast
  <2>3. PICK i \in DOMAIN regions : i = Min(S) /\ Holds(regions[i], address, 1)
    BY <2>2 DEF Matching
  <2> SUFFICES ASSUME regions[i].isAlias
               PROVE  FALSE
    BY <2>3
  <2>4. PICK r \in AliasRequests :
          regions[i].baseAddress = r.aliasAddress /\ regions[i].size <= r.size
    BY <1>5 DEF AliasesRequested
  <2>5. regions[i] \in MemoryRegion /\ r.size \in Address
    BY <1>2, GoodElement, RequestAssumption DEF GoodRegion
  <2>6. /\ regions[i].baseAddress \in Int /\ regions[i].size \in Int /\ r.size \in Int
        /\ address \in Int
    BY <1>2, <2>5, AddressLimitAssumption DEF MemoryRegion, Address
  <2>7. address \in regions[i].baseAddress .. regions[i].baseAddress + r.size - 1
    BY <2>3, <2>4, <2>6, WithinRequested DEF Holds
  <2> QED
    BY <1>5, <2>4, <2>7 DEF NoAliasOfAlias
<1>6. result.exception # noException => DOMAIN result.regions = DOMAIN regions
  BY <1>3
<1>7. Kept => S = {} \/ direct
  BY <1>5 DEF Kept
<1>8. ASSUME S # {}, direct
      PROVE  NewOnesFit(regions, Append(regions, alias))
  <2>1. /\ alias.isAlias /\ alias.pRedirect \in DOMAIN regions
        /\ alias.redirectAddress >= regions[alias.pRedirect].baseAddress
        /\ alias.redirectAddress + alias.size
             <= regions[alias.pRedirect].baseAddress + regions[alias.pRedirect].size
    BY <1>2, <1>8, AliasReaches
  <2>2. /\ DOMAIN Append(regions, alias) = 1 .. Len(regions) + 1
        /\ \A i \in DOMAIN regions : Append(regions, alias)[i] = regions[i]
        /\ Append(regions, alias)[Len(regions) + 1] = alias
    BY <1>2, AppendedPlaces
  <2>3. DOMAIN regions = 1 .. Len(regions) /\ Len(regions) \in Nat
    BY <1>2, GoodElement
  <2> HIDE DEF alias, S, result, direct
  <2>4. \A i \in 1 .. Len(regions) + 1 : i \in DOMAIN regions \/ i = Len(regions) + 1
    BY <2>3
  <2> QED
    BY <2>1, <2>2, <2>4 DEF NewOnesFit, Fit, Within
<1> HIDE DEF alias, S, direct
<1>9. Sane => Sound(result.regions)
  <2> HIDE DEF result
  <2> QED
    BY <1>3, <1>7 DEF Sane, Kept
<1>10. Kept => AliasesRequested(result.regions) /\ NewOnesFit(regions, result.regions)
  <2>1. NewOnesFit(regions, regions)
    BY DEF NewOnesFit
  <2> HIDE DEF result
  <2> QED
    BY <1>3, <1>4, <1>7, <1>8, <2>1 DEF Kept
<1> QED
  BY <1>1, <1>3, <1>6, <1>9, <1>10, LeavesStays DEF result, address

\* The other calls that build the list.
LEMMA BuildStays ==
  ASSUME IInv, \/ MemorySim_CreateRegion
               \/ MemorySim_MakeRegionReadOnly
               \/ MemorySim_LoadFromFlashImage
               \/ MemorySim_CreateRegionsFromFlashImage
  PROVE  Stays
<1>1. GoodRegions(regions)
  BY DEF IInv
<1>2. CASE MemorySim_CreateRegion
  <2>1. PICK request \in RegionRequests, mallocOk \in MallocOutcomes :
          Leaves(CreateRegion(regions, request.baseAddress, request.size, mallocOk), NoValue)
    BY <1>2 DEF MemorySim_CreateRegion
  <2>2. request.baseAddress \in Address /\ request.size \in Address /\ mallocOk \in BOOLEAN
    BY RequestAssumption
  <2> DEFINE result == CreateRegion(regions, request.baseAddress, request.size, mallocOk)
  <2>3. /\ KeepsAliases(regions, result.regions)
        /\ Sound(regions) => Sound(result.regions)
    BY <1>1, <2>2, CreatePlaces
  <2>4. result.exception # noException => result.regions = regions
    BY DEF CreateRegion, Returns, Throws
  <2>5. KeepsPlaces(regions, result.regions)
    BY <2>3 DEF KeepsAliases
  <2>6. ASSUME NoRegionPassesTop
        PROVE  NewOnesFit(regions, result.regions)
    <3> DEFINE r == NewRegion(request.baseAddress, request.size)
    <3>1. BelowTop(r)
      BY <2>6 DEF BelowTop, NoRegionPassesTop, NewRegion
    <3>2. result.regions \in {regions, Append(regions, r)}
      BY DEF CreateRegion, Returns, Throws
    <3> HIDE DEF r, result
    <3>3. \A i \in DOMAIN result.regions \ DOMAIN regions : BelowTop(result.regions[i])
      BY <1>1, <3>1, <3>2, FreshAppended
    <3> QED
      BY <2>3, <3>3 DEF NewOnesFit, Fit, Within, KeepsAliases
  <2> HIDE DEF result
  <2>7. Kept => AliasesRequested(result.regions)
    BY <2>3, RequestedStay DEF Kept
  <2> QED
    BY <2>1, <2>3, <2>4, <2>5, <2>6, <2>7, LeavesStays DEF Sane, result
<1>3. CASE MemorySim_MakeRegionReadOnly
  <2>1. PICK baseAddress \in ReadOnlyRequests, mallocOk \in MallocOutcomes :
          Leaves(MakeRegionReadOnly(regions, baseAddress, mallocOk), NoValue)
    BY <1>3 DEF MemorySim_MakeRegionReadOnly
  <2>2. baseAddress \in Address /\ mallocOk \in BOOLEAN
    BY RequestAssumption
  <2> DEFINE result == MakeRegionReadOnly(regions, baseAddress, mallocOk)
  <2>3. /\ KeepsPlaces(regions, result.regions) /\ DOMAIN result.regions = DOMAIN regions
        /\ Sound(regions) /\ mallocOk => Sound(result.regions)
    BY <1>1, <2>2, LockPlaces
  <2>4. MallocSucceeds => mallocOk
    BY <2>2 DEF MallocSucceeds
  <2> HIDE DEF result
  <2> QED
    BY <2>1, <2>3, <2>4, LeavesDomainStays DEF Sane, result
<1>4. CASE MemorySim_LoadFromFlashImage
  <2>1. PICK request \in LoadRequests :
          \/ LoadGoesWild(regions, request.baseAddress, request.image) /\ GoesWild
          \/ Leaves(LoadFromFlashImage(regions, request.baseAddress, request.image), NoValue)
    BY <1>4 DEF MemorySim_LoadFromFlashImage
  <2>2. request.baseAddress \in Address /\ request.image \in Seq(Byte)
    BY RequestAssumption
  <2> DEFINE result == LoadFromFlashImage(regions, request.baseAddress, request.image)
  <2>3. /\ KeepsPlaces(regions, result.regions) /\ DOMAIN result.regions = DOMAIN regions
        /\ Sound(regions) => Sound(result.regions)
        /\ Sound(regions) => ~LoadGoesWild(regions, request.baseAddress, request.image)
    BY <1>1, <2>2, LoadPlaces
  <2> HIDE DEF result
  <2>4. CASE LoadGoesWild(regions, request.baseAddress, request.image) /\ GoesWild
    BY <2>3, <2>4, SameStays DEF GoesWild, Stays, Sane, Kept, NewOnesFit
  <2>5. CASE Leaves(result, NoValue)
    BY <2>3, <2>5, LeavesDomainStays DEF Sane
  <2> QED
    BY <2>1, <2>4, <2>5 DEF result
<1>5. CASE MemorySim_CreateRegionsFromFlashImage
  <2>1. PICK image \in FlashImages, flashOk \in MallocOutcomes, countsOk \in MallocOutcomes,
             ramOk \in MallocOutcomes :
          \/ /\ LoadGoesWild(CreateRegion(regions, FLASH_BASE_ADDRESS, Len(image.bytes),
                                          flashOk).regions,
                             FLASH_BASE_ADDRESS, image.bytes)
             /\ GoesWild
          \/ Leaves(CreateRegionsFromFlashImage(regions, image, flashOk, countsOk, ramOk),
                    NoValue)
    BY <1>5 DEF MemorySim_CreateRegionsFromFlashImage
  <2>2. /\ image \in [bytes : Seq(Byte), stack : Address] /\ Len(image.bytes) \in Address
        /\ flashOk \in BOOLEAN /\ countsOk \in BOOLEAN /\ ramOk \in BOOLEAN
    BY RequestAssumption
  <2> DEFINE result  == CreateRegionsFromFlashImage(regions, image, flashOk, countsOk, ramOk)
             created == CreateRegion(regions, FLASH_BASE_ADDRESS, Len(image.bytes), flashOk)
             Wild    == LoadGoesWild(created.regions, FLASH_BASE_ADDRESS, image.bytes)
  <2>3. /\ KeepsAliases(regions, result.regions)
        /\ result.exception # noException => DOMAIN result.regions = DOMAIN regions
        /\ Sound(regions) => ~Wild
        /\ Sound(regions) /\ countsOk => Sound(result.regions)
    BY <1>1, <2>2, FlashPlaces
  <2>4. MallocSucceeds => countsOk
    BY <2>2 DEF MallocSucceeds
  <2>5. KeepsPlaces(regions, result.regions)
    BY <2>3 DEF KeepsAliases
  <2>6. (Wild /\ GoesWild) \/ Leaves(result, NoValue)
    BY <2>1
  <2>9. \A i \in DOMAIN result.regions \ DOMAIN regions : BelowTop(result.regions[i])
    BY <1>1, <2>2, FlashBelowTop
  <2> HIDE DEF result, Wild, created
  <2>10. NewOnesFit(regions, result.regions) /\ (Kept => AliasesRequested(result.regions))
    BY <2>3, <2>9, RequestedStay DEF NewOnesFit, Fit, Within, KeepsAliases, Kept
  <2>7. CASE Wild /\ GoesWild
    BY <2>3, <2>7, SameStays DEF GoesWild, Stays, Sane, Kept, NewOnesFit
  <2>8. CASE Leaves(result, NoValue)
    BY <2>3, <2>4, <2>5, <2>8, <2>10, LeavesStays DEF Sane
  <2> QED
    BY <2>6, <2>7, <2>8
<1> QED
  BY <1>2, <1>3, <1>4, <1>5

\* The calls that ask.
LEMMA AskStays ==
  ASSUME IInv, MemorySim_GetMemoryMapXML \/ MemorySim_WasWatchpointEncountered
  PROVE  Stays
<1>1. \/ \E e, what : Fails(e, what)
      \/ \E v : Answers(v) /\ regions' = regions
  BY DEF MemorySim_GetMemoryMapXML, MemorySim_WasWatchpointEncountered
<1> QED
  BY <1>1, FailsStays, SameStays DEF Stays, Sane, Kept, NewOnesFit, Answers

\* Reads, writes and mappings.
LEMMA UseStays ==
  ASSUME IInv, \/ Read
               \/ Write
               \/ MemorySim_MapSimulatedAddressToHostAddressForWrite
               \/ MemorySim_MapSimulatedAddressToHostAddressForRead
  PROVE  Stays
<1>1. PICK address \in AccessAddresses, size \in AccessSizes, type \in AccessType,
           check \in BOOLEAN :
        \/ getDataPointerFails(address, size, type, check)
        \/ \E rs, v :
             /\ getDataPointerReturns(address, size, type, check, rs)
             /\ Answers(v)
             /\ LET found == findMatchingRegion(regions, address, size)
                IN  \/ rs = Counted(found, size, type)
                    \/ \E bytes : rs = Overwrite(regions, found, bytes)
  <2>1. CASE Read
    BY <2>1 DEF Read, AccessType
  <2>2. CASE Write
    BY <2>2 DEF Write, AccessType
  <2>3. CASE MemorySim_MapSimulatedAddressToHostAddressForWrite
    BY <2>3 DEF MemorySim_MapSimulatedAddressToHostAddressForWrite, Map, AccessType
  <2>4. CASE MemorySim_MapSimulatedAddressToHostAddressForRead
    BY <2>4 DEF MemorySim_MapSimulatedAddressToHostAddressForRead, Map, AccessType
  <2> QED
    BY <2>1, <2>2, <2>3, <2>4
<1> QED
  BY <1>1, FailsAccessStays, AccessStays

\* The calls that empty the list.
Empties == regions' = <<>> /\ exception' = noException /\ UNCHANGED wild

\* A step leaves the regions where they are, or takes all of them away.
LEMMA StepStays ==
  ASSUME IInv, [Next]_vars
  PROVE  Stays \/ Empties \/ UNCHANGED vars
<1>1. CASE MemorySim_Init \/ MemorySim_Uninit
  BY <1>1 DEF MemorySim_Init, MemorySim_Uninit, Leaves, Returns, Answers, Empties
<1>2. CASE MemorySim_CreateAlias
  BY <1>2, AliasStays
<1>3. CASE \/ MemorySim_CreateRegion
           \/ MemorySim_MakeRegionReadOnly
           \/ MemorySim_LoadFromFlashImage
           \/ MemorySim_CreateRegionsFromFlashImage
  BY <1>3, BuildStays
<1>4. CASE MemorySim_GetMemoryMapXML \/ MemorySim_WasWatchpointEncountered
  BY <1>4, AskStays
<1>5. CASE \/ MemorySim_SetHardwareBreakpoint
           \/ MemorySim_ClearHardwareBreakpoint
           \/ MemorySim_SetHardwareWatchpoint
           \/ MemorySim_ClearHardwareWatchpoint
  <2>1. \E request \in WatchRequests : SetWatchpoint(request) \/ ClearWatchpoint(request)
    BY <1>5 DEF MemorySim_SetHardwareBreakpoint, MemorySim_ClearHardwareBreakpoint,
                MemorySim_SetHardwareWatchpoint, MemorySim_ClearHardwareWatchpoint
  <2> QED
    BY <2>1, WatchStays
<1>6. CASE \/ Read
           \/ Write
           \/ MemorySim_MapSimulatedAddressToHostAddressForWrite
           \/ MemorySim_MapSimulatedAddressToHostAddressForRead
  BY <1>6, UseStays
<1>7. CASE MemorySim_GetFlashReadCount
  BY <1>7, ReadCountStays
<1> QED
  BY <1>1, <1>2, <1>3, <1>4, <1>5, <1>6, <1>7 DEF Next

\* The list is sound, its aliases were asked for, and no call has gone wild.
SaneInv ==
  /\ IInv
  /\ Sound(regions)
  /\ AliasesRequested(regions)
  /\ ~wild

\* No call uses memory outside the arrays of its region, whichever regions
\* overlap and whichever pass the top of the address space: the aliases are of
\* regions, and never of an alias, and no allocation fails.
THEOREM NoCallGoesWild ==
  ASSUME NoAliasOfAlias, MallocSucceeds
  PROVE  Spec => []NeverWild
<1>1. \A rs : rs = <<>> => Sound(rs) /\ AliasesRequested(rs)
  BY DEF Sound, AliasesRequested
<1>2. Init => SaneInv
  <2>1. Init => Sound(regions) /\ AliasesRequested(regions) /\ ~wild
    BY <1>1 DEF Init
  <2> QED
    BY <2>1, InitIInv DEF SaneInv
<1>3. SaneInv /\ [Next]_vars => SaneInv'
  <2> SUFFICES ASSUME SaneInv, [Next]_vars
               PROVE  SaneInv'
    OBVIOUS
  <2>1. IInv /\ IInv'
    BY NextIInv DEF SaneInv
  <2>2. /\ \A rs : Sound(rs)' <=> Sound(rs')
        /\ \A rs : AliasesRequested(rs)' <=> AliasesRequested(rs')
    OBVIOUS
  <2>3. CASE Stays
    BY <2>1, <2>3 DEF Stays, Sane, Kept, SaneInv, Sound, Equipped, Within, AliasesRequested
  <2>4. CASE Empties
    BY <1>1, <2>1, <2>4 DEF Empties, SaneInv, Sound, Equipped, Within, AliasesRequested
  <2>5. CASE UNCHANGED vars
    BY <2>1, <2>5 DEF vars, SaneInv, Sound, Equipped, Within, AliasesRequested
  <2> QED
    BY <2>1, <2>3, <2>4, <2>5, StepStays
<1>4. SaneInv => NeverWild
  BY DEF SaneInv, NeverWild
<1> QED
  BY <1>2, <1>3, <1>4, PTL DEF Spec

\* What an address means never changes because regions are added behind.
THEOREM NothingIsShadowed == Spec => LaterRegionsNeverShadow
<1> DEFINE Step == Len(regions') > Len(regions) =>
             \A address \in AccessAddresses, size \in AccessSizes :
               Matching(regions, address, size) # {} =>
                 findMatchingRegion(regions', address, size)
                   = findMatchingRegion(regions, address, size)
<1>1. ASSUME IInv, [Next]_vars
      PROVE  [Step]_vars
  <2>1. regions \in Seq(MemoryRegion) /\ regions' \in Seq(MemoryRegion)
    BY <1>1, NextIInv DEF IInv, GoodRegions
  <2>2. CASE Stays
    <3>1. ASSUME NEW address \in AccessAddresses, NEW size \in AccessSizes,
                 Matching(regions, address, size) # {}
          PROVE  findMatchingRegion(regions', address, size)
                   = findMatchingRegion(regions, address, size)
      BY <2>1, <2>2, <3>1, SameFinds DEF Stays
    <3> QED
      BY <3>1
  <2>3. CASE Empties
    <3>1. Len(regions) \in Nat /\ Len(regions') = 0
      BY <2>1, <2>3, LenProperties DEF Empties
    <3>2. ~(Len(regions') > Len(regions))
      BY <3>1
    <3> QED
      BY <3>2
  <2> QED
    BY <1>1, <2>2, <2>3, StepStays
<1> QED
  BY <1>1, IInvHolds, PTL DEF Spec, LaterRegionsNeverShadow

\* A call that throws leaves every region where it was and none besides,
\* whichever of its steps it failed at.
THEOREM FailuresKeepExtents == Spec => FailedCallKeepsExtents
<1> DEFINE Step == exception' # noException => Extents' = Extents
<1>1. ASSUME IInv, [Next]_vars
      PROVE  [Step]_vars
  <2>1. CASE Stays
    BY <2>1 DEF Stays, KeepsPlaces, SamePlace, Extents
  <2>2. CASE Empties
    BY <2>2 DEF Empties
  <2> QED
    BY <1>1, <2>1, <2>2, StepStays
<1> QED
  BY <1>1, IInvHolds, PTL DEF Spec, FailedCallKeepsExtents

(***************************************************************************)
(* Simulators whose regions do not overlap: what an alias stands for.      *)
(***************************************************************************)

\* An address that is held by one region alone.
LEMMA OnlyHolder ==
  ASSUME NEW rs, GoodRegions(rs), RegionsDisjoint(rs), NEW a \in Nat,
         NEW i \in DOMAIN rs, a \in Extent(rs[i])
  PROVE  Matching(rs, a, 1) = {i}
<1>1. \A j \in DOMAIN rs : rs[j].baseAddress \in Nat /\ rs[j].size \in Nat
  <2> TAKE j \in DOMAIN rs
  <2>1. rs[j] \in MemoryRegion
    BY GoodElement DEF GoodRegion
  <2>2. rs[j].baseAddress \in Address /\ rs[j].size \in Address
    BY <2>1 DEF MemoryRegion
  <2> QED
    BY <2>2, AddressLimitAssumption DEF Address
<1>2. \A j \in DOMAIN rs : Holds(rs[j], a, 1) <=> a \in Extent(rs[j])
  BY <1>1 DEF Holds, Extent
<1>3. \A j \in DOMAIN rs : a \in Extent(rs[j]) => j = i
  BY DEF RegionsDisjoint
<1> QED
  BY <1>2, <1>3 DEF Matching

LEMMA AliasFollows ==
  ASSUME NEW rs, GoodRegions(rs), RegionsDisjoint(rs), \A i \in DOMAIN rs : Fit(rs, i),
         NEW i \in DOMAIN rs, rs[i].isAlias, NEW offset \in 0 .. rs[i].size - 1
  PROVE  LET alias  == rs[i].baseAddress + offset
             target == rs[i].redirectAddress + offset
         IN  /\ Matching(rs, target, 1) # {}
             /\ findMatchingRegion(rs, alias, 1) = findMatchingRegion(rs, target, 1)
<1> DEFINE p      == rs[i].pRedirect
           alias  == rs[i].baseAddress + offset
           target == rs[i].redirectAddress + offset
<1>1. p \in DOMAIN rs /\ ~rs[p].isAlias
  <2>1. p \in 1 .. i - 1 /\ ~rs[p].isAlias
    BY DEF GoodRegions, Redirects
  <2>2. PICK n \in Nat : DOMAIN rs = 1 .. n
    BY GoodElement
  <2> HIDE DEF p
  <2> QED
    BY <2>1, <2>2
<1>2. /\ rs[i] \in MemoryRegion /\ rs[p] \in MemoryRegion
      /\ Within(rs, i) /\ BelowTop(rs[p])
  BY <1>1, GoodElement DEF GoodRegion, Fit
<1>3. PICK bi, si, ti, bp, sp \in Nat :
        /\ bi = rs[i].baseAddress /\ si = rs[i].size /\ ti = rs[i].redirectAddress
        /\ bp = rs[p].baseAddress /\ sp = rs[p].size
  <2> HIDE DEF p
  <2>1. /\ rs[i].baseAddress \in Address /\ rs[i].size \in Address
        /\ rs[i].redirectAddress \in Address
        /\ rs[p].baseAddress \in Address /\ rs[p].size \in Address
    BY <1>2 DEF MemoryRegion
  <2>2. Address \subseteq Nat
    BY AddressLimitAssumption DEF Address
  <2> QED
    BY <2>1, <2>2
<1>4. ti >= bp /\ ti + si <= bp + sp /\ bp + sp <= AddressLimit
  BY <1>2, <1>3 DEF Within, BelowTop
<1>5. PICK o \in Nat : o = offset /\ o < si
  BY <1>3
<1>6. bi + o \in Nat /\ bi + o \in bi .. bi + si - 1
  BY <1>5
<1>7. Matching(rs, alias, 1) = {i}
  BY <1>3, <1>5, <1>6, OnlyHolder DEF Extent
<1>8. ti + o \in Nat /\ ti + o \in bp .. bp + sp - 1
  BY <1>4, <1>5
<1>9. Matching(rs, target, 1) = {p}
  BY <1>1, <1>3, <1>5, <1>8, OnlyHolder DEF Extent
<1>10. ((alias - rs[i].baseAddress) + rs[i].redirectAddress) % AddressLimit = target
  <2>1. PICK x \in Int : x = ((bi + o) - bi) + ti
    OBVIOUS
  <2>2. x = ti + o /\ x >= 0 /\ x < AddressLimit
    BY <1>4, <1>5, <2>1, AddressLimitAssumption
  <2>3. x % AddressLimit = x
    BY <2>2, Wrapping
  <2> QED
    BY <1>3, <1>5, <2>1, <2>2, <2>3
<1>11. \A j \in Nat : Min({j}) = j
  <2> TAKE j \in Nat
  <2>1. Min({j}) \in {j}
    BY MinIsLeast
  <2> QED
    BY <2>1
<1>12. i \in Nat /\ p \in Nat
  BY <1>1, GoodElement
<1> HIDE DEF p, alias, target
<1>13. findMatchingRegion(rs, alias, 1) = [region |-> p, address |-> target]
  BY <1>7, <1>10, <1>11, <1>12 DEF findMatchingRegion, p
<1>14. findMatchingRegion(rs, target, 1) = [region |-> p, address |-> target]
  BY <1>1, <1>9, <1>11, <1>12 DEF findMatchingRegion
<1> QED
  BY <1>9, <1>13, <1>14 DEF alias, target

\* Regions that are kept apart, aliases that fit.
FlatInv ==
  /\ IInv
  /\ RegionsDisjoint(regions)
  /\ AliasesRequested(regions)
  /\ \A i \in DOMAIN regions : Fit(regions, i)

\* Places that are kept fit as before.
LEMMA FitKept ==
  ASSUME NEW old, GoodRegions(old), NEW new, KeepsPlaces(old, new),
         \A i \in DOMAIN old : Fit(old, i), NewOnesFit(old, new)
  PROVE  \A i \in DOMAIN new : Fit(new, i)
<1>1. ASSUME NEW i \in DOMAIN old, old[i].isAlias
      PROVE  old[i].pRedirect \in DOMAIN old
  <2>1. old[i].pRedirect \in 1 .. i - 1
    BY <1>1 DEF GoodRegions, Redirects
  <2>2. PICK n \in Nat : DOMAIN old = 1 .. n
    BY GoodElement
  <2> QED
    BY <2>1, <2>2
<1>2. ASSUME NEW i \in DOMAIN old
      PROVE  Fit(new, i)
  BY <1>1, <1>2 DEF KeepsPlaces, SamePlace, Fit, Within, BelowTop
<1> QED
  BY <1>2 DEF NewOnesFit

\* Every byte of an alias stands for the byte at the same distance from its redirect
\* address, for clients that keep their regions apart and below the top of the
\* address space, and that ask for no alias of an alias.
THEOREM AliasesFollow ==
  ASSUME NoAliasOfAlias, NoRegionPassesTop
  PROVE  DisjointSpec => []AliasesFollowRedirect
<1>1. \A rs : rs = <<>> =>
        RegionsDisjoint(rs) /\ AliasesRequested(rs) /\ \A i \in DOMAIN rs : Fit(rs, i)
  BY DEF RegionsDisjoint, AliasesRequested
<1>2. Init => FlatInv
  <2>1. Init => /\ RegionsDisjoint(regions) /\ AliasesRequested(regions)
                /\ \A i \in DOMAIN regions : Fit(regions, i)
    BY <1>1 DEF Init
  <2> QED
    BY <2>1, InitIInv DEF FlatInv
<1>3. FlatInv /\ [Next /\ RegionsDisjoint(regions')]_vars => FlatInv'
  <2> SUFFICES ASSUME FlatInv, [Next /\ RegionsDisjoint(regions')]_vars
               PROVE  FlatInv'
    OBVIOUS
  <2>1. IInv /\ IInv'
    BY NextIInv DEF FlatInv
  <2>2. CASE UNCHANGED vars
    BY <2>1, <2>2 DEF vars, FlatInv, RegionsDisjoint, Extent, AliasesRequested, Fit, Within,
                      BelowTop
  <2>3. CASE Next /\ RegionsDisjoint(regions') /\ Stays
    <3>1. AliasesRequested(regions')
      BY <2>3 DEF Stays, Kept, FlatInv
    <3>2. \A i \in DOMAIN regions' : Fit(regions', i)
      BY <2>1, <2>3, FitKept DEF Stays, Kept, FlatInv, IInv
    <3> QED
      BY <2>1, <2>3, <3>1, <3>2 DEF FlatInv, RegionsDisjoint, Extent, AliasesRequested, Fit,
                                    Within, BelowTop
  <2>4. CASE Empties
    BY <1>1, <2>1, <2>4 DEF Empties, FlatInv, RegionsDisjoint, Extent, AliasesRequested, Fit,
                            Within, BelowTop
  <2> QED
    BY <2>1, <2>2, <2>3, <2>4, StepStays
<1>4. FlatInv => AliasesFollowRedirect
  <2> SUFFICES ASSUME FlatInv
               PROVE  AliasesFollowRedirect
    OBVIOUS
  <2> QED
    BY AliasFollows DEF FlatInv, IInv, AliasesFollowRedirect
<1> QED
  BY <1>2, <1>3, <1>4, PTL DEF DisjointSpec
=============================================================================
