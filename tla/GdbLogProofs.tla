---------------------------- MODULE GdbLogProofs ----------------------------
(***************************************************************************)
(* Whatever log is loaded on top of whatever image, and whichever step     *)
(* fails: types are kept, and so is the image; every step is one that a    *)
(* dump loader may make; and the memory of a log that was loaded is what   *)
(* the log shows.                                                          *)
(*                                                                         *)
(* That the image is kept rests on the check of the second pass alone;     *)
(* types rest on the region list being good, as in MemorySimProofs.  What  *)
(* is read rests on the agreement of the two passes: there is room for     *)
(* each word, in regions made of whole words.                              *)
(***************************************************************************)
EXTENDS GdbLog, MemoryRegionsProofs

\* What the log adds to the image is RAM.
AddsRAM(rs) == \A i \in DOMAIN rs : i \notin DOMAIN image => ~rs[i].isReadOnly

LogIInv ==
  /\ log \in Logs /\ image \in Images
  /\ GdbTypeOK
  /\ GoodRegions(regions)
  /\ ImageIsKept
  /\ AddsRAM(regions)

(***************************************************************************)
(* Lines.                                                                  *)
(***************************************************************************)

\* A line read as a memory line is one.
LEMMA ReadsLine ==
  ASSUME log \in Logs, GdbTypeOK, NEW p, Reads(p, "memory")
  PROVE  pos \in 1 .. Len(log) /\ Len(log) \in Nat /\ log[pos] \in MemoryLine
<1>1. log \in Seq(MemoryLine \cup RegisterLine \cup OtherLine)
  BY LogAssumption DEF GdbTypeOK
<1>2. Len(log) \in Nat /\ pos \in 1 .. Len(log)
  BY <1>1, LenProperties DEF GdbTypeOK, Reads
<1>3. log[pos] \in MemoryLine \cup RegisterLine \cup OtherLine
  BY <1>1, <1>2, ElementOfSeq
<1> QED
  BY <1>2, <1>3 DEF Reads, RegisterLine, OtherLine

\* A memory line has up to four words, and their bytes and addresses are typed.
LEMMA ParsedType ==
  ASSUME NEW line \in MemoryLine
  PROVE  /\ Parsed(line) \in Seq(WordValue)
         /\ Len(Parsed(line)) \in 0 .. MaxValues
         /\ ByteCount(line) \in Nat
         /\ \A i \in Nat : WordAddress(line, i) \in Address
<1> DEFINE n == IF Len(line.shown) < MaxValues THEN Len(line.shown) ELSE MaxValues
           zeroes == [i \in 1 .. PhantomCount(line) |-> [b \in 1 .. WordSize |-> 0]]
<1>1. line.shown \in Seq(WordValue) /\ Len(line.shown) \in Nat /\ n \in 0 .. MaxValues
  <2>1. line.shown \in Seq(WordValue)
    BY DEF MemoryLine
  <2>2. Len(line.shown) \in Nat
    BY <2>1, LenProperties
  <2>3. n \in 0 .. MaxValues
    <3> DEFINE k == Len(line.shown)
    <3>1. k \in Nat => (IF k < 4 THEN k ELSE 4) \in 0 .. 4
      <4> HIDE DEF k
      <4> QED
        OBVIOUS
    <3> QED
      BY <2>2, <3>1 DEF MaxValues
  <2> QED
    BY <2>1, <2>2, <2>3
<1>2. Shown(line) \in Seq(WordValue) /\ Len(Shown(line)) = n
  BY <1>1 DEF Shown, MaxValues
<1>3. PhantomCount(line) \in 0 .. MaxValues - n
  <2>1. line.rest = "nothing" \/ line.rest = "white space" \/ line.rest = "text"
    BY DEF MemoryLine, Rest
  <2>2. n \in 0 .. 4 /\ MaxValues - Len(Shown(line)) = 4 - n
    BY <1>1, <1>2 DEF MaxValues
  <2> HIDE DEF n
  <2>3. CASE line.rest = "nothing"
    <3>1. PhantomCount(line) = 0
      BY <2>3 DEF PhantomCount
    <3> QED
      BY <2>2, <3>1 DEF MaxValues
  <2>4. CASE line.rest = "white space"
    <3>1. PhantomCount(line) = IF 4 - n > 0 THEN 1 ELSE 0
      BY <2>2, <2>4 DEF PhantomCount
    <3> QED
      BY <2>2, <3>1 DEF MaxValues
  <2>5. CASE line.rest = "text"
    <3>1. PhantomCount(line) = 4 - n
      BY <2>2, <2>5 DEF PhantomCount
    <3> QED
      BY <2>2, <3>1 DEF MaxValues
  <2> QED
    BY <2>1, <2>3, <2>4, <2>5
<1>4. zeroes \in Seq(WordValue) /\ Len(zeroes) = PhantomCount(line)
  <2>1. [b \in 1 .. WordSize |-> 0] \in WordValue
    BY ByteAssumption DEF WordValue
  <2>2. zeroes \in [1 .. PhantomCount(line) -> WordValue]
    BY <2>1
  <2>3. PhantomCount(line) \in Nat
    BY <1>1, <1>3 DEF MaxValues
  <2>4. zeroes \in Seq(WordValue)
    BY <2>2, <2>3, SeqDef
  <2> HIDE DEF zeroes
  <2>5. Len(zeroes) \in Nat /\ DOMAIN zeroes = 1 .. Len(zeroes)
        /\ DOMAIN zeroes = 1 .. PhantomCount(line)
    BY <2>2, <2>4, LenProperties
  <2> QED
    BY <2>3, <2>4, <2>5
<1> HIDE DEF n, zeroes
<1>5. Parsed(line) \in Seq(WordValue) /\ Len(Parsed(line)) = n + PhantomCount(line)
  <2>1. Parsed(line) = Shown(line) \o zeroes
    BY DEF Parsed, zeroes
  <2> QED
    BY <1>2, <1>4, <2>1, ConcatProperties
<1>6. Len(Parsed(line)) \in 0 .. MaxValues
  BY <1>1, <1>3, <1>5 DEF MaxValues
<1>7. ByteCount(line) \in Nat
  BY <1>6 DEF ByteCount, WordSize, MaxValues
<1>8. \A i \in Nat : WordAddress(line, i) \in Address
  BY AddressLimitAssumption DEF WordAddress, MemoryLine, Address, WordSize
<1> QED
  BY <1>5, <1>6, <1>7, <1>8

\* The scan after a memory line.
LEMMA JoinedType ==
  ASSUME GdbTypeOK, NEW line \in MemoryLine
  PROVE  Joined(line) \in [regionStart : Address, regionSize : Address,
                           nextExpectedAddress : Address]
<1>1. ByteCount(line) \in Nat
  BY ParsedType
<1>2. /\ line.address \in Address
      /\ scan.regionStart \in Address /\ scan.regionSize \in Address
  BY DEF MemoryLine, GdbTypeOK
<1>3. \A x \in Nat : x % AddressLimit \in Address
  BY AddressLimitAssumption DEF Address
<1>4. (line.address + ByteCount(line)) % AddressLimit \in Address
  BY <1>1, <1>2, <1>3 DEF Address
<1>5. \A z \in {0, scan.regionSize} : (z + ByteCount(line)) % AddressLimit \in Address
  BY <1>1, <1>2, <1>3 DEF Address
<1> HIDE DEF Address
<1> QED
  BY <1>2, <1>4, <1>5 DEF Joined

LEMMA FreshType ==
  FreshScan \in [regionStart : Address, regionSize : Address, nextExpectedAddress : Address]
  BY AddressLimitAssumption DEF FreshScan, Sentinel, Address

(***************************************************************************)
(* The invariant.                                                          *)
(***************************************************************************)

LEMMA InitLogIInv == Init => LogIInv
<1> SUFFICES ASSUME Init PROVE LogIInv
  OBVIOUS
<1>1. image \in Seq(MemoryRegion) /\ log \in Seq(MemoryLine \cup RegisterLine \cup OtherLine)
  BY LogAssumption DEF Init
<1>2. Len(log) \in Nat
  BY <1>1, LenProperties
<1>3. GoodRegions(regions)
  BY <1>1, ImageAssumption, EmptyOrdered DEF Init, GoodRegions, Redirects
<1>4. ImageIsKept
  <2>1. \A i \in DOMAIN image : image[i] = [image[i] EXCEPT !.pData = image[i].pData]
    <3> TAKE i \in DOMAIN image
    <3>1. image[i] \in MemoryRegion
      BY <1>1, ElementOfSeq, LenProperties
    <3> QED
      BY <3>1 DEF MemoryRegion
  <2> QED
    BY <2>1 DEF ImageIsKept, KeepsRegions, Init
<1>5. GdbTypeOK
  <2>1. context \in [float : BOOLEAN, R : [Register -> Value]]
    BY LogAssumption DEF Init
  <2>2. pos \in 1 .. Len(log) + 1 /\ word \in 1 .. MaxValues + 1
    BY <1>2 DEF Init, MaxValues
  <2> QED
    BY <1>1, <2>1, <2>2, FreshType DEF Init, GdbTypeOK
<1>6. AddsRAM(regions)
  BY DEF AddsRAM, Init
<1> QED
  BY <1>3, <1>4, <1>5, <1>6 DEF LogIInv, Init

\* Giving up leaves everything but the outcome as it is.
LEMMA FailKeeps ==
  ASSUME LogIInv, NEW e \in {fileException, outOfMemoryException, busErrorException}, Fail(e)
  PROVE  LogIInv'
  BY DEF LogIInv, GdbTypeOK, ImageIsKept, AddsRAM, Fail

\* A region that the scan has joined.
LEMMA CreatesGood ==
  ASSUME LogIInv, NEW mallocOk \in MallocOutcomes
  PROVE  LET created == CreatesJoined(mallocOk)
         IN  /\ GoodRegions(created.regions)
             /\ KeepsRegions(image, created.regions)
             /\ AddsRAM(created.regions)
             /\ created.exception \in {noException, outOfMemoryException}
<1>1. scan.regionStart \in Address /\ scan.regionSize \in Address /\ mallocOk \in BOOLEAN
  BY LogAssumption DEF LogIInv, GdbTypeOK
<1>2. GoodRegions(CreatesJoined(mallocOk).regions)
  BY <1>1, CreateRegionGood DEF LogIInv, CreatesJoined
<1>3. KeepsRegions(image, CreatesJoined(mallocOk).regions)
  BY CreateKeepsRegions DEF LogIInv, CreatesJoined, ImageIsKept, GoodRegions
<1>4. CreatesJoined(mallocOk).exception \in {noException, outOfMemoryException}
  BY DEF CreatesJoined, CreateRegion, Returns, Throws
<1>5. AddsRAM(CreatesJoined(mallocOk).regions)
  <2> DEFINE r == NewRegion(scan.regionStart, scan.regionSize)
             n == Len(regions)
  <2>1. ~r.isReadOnly
    BY DEF NewRegion
  <2>2. n \in Nat /\ DOMAIN regions = 1 .. n
    BY GoodElement DEF LogIInv
  <2> HIDE DEF r
  <2>3. /\ DOMAIN Append(regions, r) = 1 .. n + 1 /\ Append(regions, r)[n + 1] = r
        /\ \A i \in 1 .. n : Append(regions, r)[i] = regions[i]
    BY <2>2 DEF LogIInv, GoodRegions
  <2>4. \A i \in 1 .. n + 1 : i \in 1 .. n \/ i = n + 1
    BY <2>2
  <2>5. AddsRAM(Append(regions, r))
    BY <2>1, <2>2, <2>3, <2>4 DEF LogIInv, AddsRAM
  <2> QED
    BY <2>5 DEF LogIInv, CreatesJoined, CreateRegion, Returns, Throws, r
<1> QED
  BY <1>2, <1>3, <1>4, <1>5

LEMMA FirstPassMemoryKeeps ==
  ASSUME LogIInv, firstPassMemoryHandler
  PROVE  LogIInv'
<1>1. pos \in 1 .. Len(log) /\ Len(log) \in Nat /\ log[pos] \in MemoryLine
  BY ReadsLine DEF firstPassMemoryHandler, LogIInv
<1>2. Joined(log[pos]) \in [regionStart : Address, regionSize : Address,
                            nextExpectedAddress : Address]
  BY <1>1, JoinedType DEF LogIInv
<1>3. pos + 1 \in 1 .. Len(log) + 1
  BY <1>1
<1>4. CASE ~EndsRegion(log[pos])
  BY <1>2, <1>3, <1>4 DEF firstPassMemoryHandler, LogIInv, GdbTypeOK, ImageIsKept, AddsRAM
<1>5. ASSUME NEW mallocOk \in MallocOutcomes,
             CreatesJoined(mallocOk).exception = noException,
             regions' = CreatesJoined(mallocOk).regions,
             scan' = Joined(log[pos]), pos' = pos + 1,
             UNCHANGED <<log, image, context, pass, word, exception>>
      PROVE  LogIInv'
  <2>1. GoodRegions(regions') /\ KeepsRegions(image, regions') /\ AddsRAM(regions')
    BY <1>5, CreatesGood
  <2> QED
    BY <1>2, <1>3, <1>5, <2>1
       DEF LogIInv, GdbTypeOK, ImageIsKept, AddsRAM, GoodRegions, Redirects
<1>6. ASSUME NEW mallocOk \in MallocOutcomes,
             CreatesJoined(mallocOk).exception # noException,
             Fail(CreatesJoined(mallocOk).exception)
      PROVE  LogIInv'
  BY <1>6, CreatesGood, FailKeeps
<1> QED
  BY <1>4, <1>5, <1>6 DEF firstPassMemoryHandler

LEMMA FirstPassEndKeeps ==
  ASSUME LogIInv, firstPassEnd
  PROVE  LogIInv'
<1>1. PICK mallocOk \in MallocOutcomes :
        LET created == IF scan.regionSize = 0 THEN Returns(regions) ELSE CreatesJoined(mallocOk)
        IN  IF created.exception = noException
            THEN /\ regions' = created.regions
                 /\ scan' = FreshScan
                 /\ pass' = "rewinding"
                 /\ UNCHANGED <<log, image, context, pos, word, exception>>
            ELSE Fail(created.exception)
  BY DEF firstPassEnd
<1> DEFINE created == IF scan.regionSize = 0 THEN Returns(regions) ELSE CreatesJoined(mallocOk)
<1>2. /\ GoodRegions(created.regions)
      /\ KeepsRegions(image, created.regions)
      /\ AddsRAM(created.regions)
      /\ created.exception \in {noException, outOfMemoryException}
  BY CreatesGood DEF Returns, LogIInv, ImageIsKept
<1> HIDE DEF created
<1>3. CASE created.exception = noException
  <2>1. /\ regions' = created.regions
        /\ scan' = FreshScan
        /\ pass' = "rewinding"
        /\ UNCHANGED <<log, image, context, pos, word, exception>>
    BY <1>1, <1>3 DEF created
  <2>2. GoodRegions(regions') /\ KeepsRegions(image, regions') /\ AddsRAM(regions')
    BY <1>2, <2>1
  <2> QED
    BY <2>1, <2>2, FreshType DEF LogIInv, GdbTypeOK, ImageIsKept, AddsRAM, GoodRegions, Redirects
<1>4. CASE created.exception # noException
  BY <1>1, <1>2, <1>4, FailKeeps DEF created
<1> QED
  BY <1>3, <1>4

LEMMA SecondPassWriteKeeps ==
  ASSUME LogIInv, secondPassWrite
  PROVE  LogIInv'
<1> DEFINE address == WordAddress(log[pos], word)
           found   == findMatchingRegion(regions, address, WordSize)
           bytes   == Parsed(log[pos])[word]
<1>1. log[pos] \in MemoryLine /\ word \in Nat /\ word \in 1 .. Len(Parsed(log[pos]))
  <2>1. log[pos] \in MemoryLine
    BY ReadsLine DEF secondPassWrite, LogIInv
  <2> QED
    BY <2>1, ParsedType DEF secondPassWrite, LogIInv, GdbTypeOK, MaxValues
<1>2. address \in Address /\ bytes \in [1 .. WordSize -> Byte] /\ word + 1 \in 1 .. MaxValues + 1
  BY <1>1, ParsedType, ElementOfSeq DEF WordValue, MaxValues
<1>3. CASE ~IsPermitted(regions, address, WordSize, WRITING)
  BY <1>3, FailKeeps DEF secondPassWrite
<1>4. CASE IsPermitted(regions, address, WordSize, WRITING)
  <2>1. /\ regions' = Overwrite(regions, found, bytes)
        /\ word' = word + 1
        /\ UNCHANGED <<log, image, context, pass, pos, scan, exception>>
    BY <1>4 DEF secondPassWrite
  <2>2. /\ found.address \in Address /\ found.region \in DOMAIN regions
        /\ ~regions[found.region].isReadOnly
    BY <1>2, <1>4, FindGood DEF IsPermitted, LogIInv
  <2>3. image \in Seq(MemoryRegion)
    BY LogAssumption DEF LogIInv, GdbTypeOK
  <2> HIDE DEF address, found, bytes
  <2>4. GoodRegions(regions')
    BY <1>2, <2>1, <2>2, OverwriteGood DEF LogIInv, WordSize
  <2>5. KeepsRegions(image, regions')
    BY <2>1, <2>2, <2>3, OverwriteKeepsRegions DEF LogIInv, ImageIsKept
  <2>6. AddsRAM(regions')
    <3>1. DOMAIN regions' = DOMAIN regions
          /\ \A i \in DOMAIN regions : regions'[i].isReadOnly = regions[i].isReadOnly
      <4>1. regions' = [regions EXCEPT ![found.region].pData = regions'[found.region].pData]
            /\ DOMAIN regions' = DOMAIN regions /\ regions \in Seq(MemoryRegion)
        BY <2>1, <2>2, OverwriteStores DEF LogIInv, GoodRegions
      <4>2. \A i \in DOMAIN regions : regions[i] \in MemoryRegion
        BY <4>1, ElementOfSeq, LenProperties
      <4> QED
        BY <2>2, <4>1, <4>2 DEF MemoryRegion
    <3> QED
      BY <3>1 DEF LogIInv, AddsRAM
  <2> QED
    BY <1>2, <2>1, <2>4, <2>5, <2>6
       DEF LogIInv, GdbTypeOK, ImageIsKept, AddsRAM, GoodRegions, Redirects
<1> QED
  BY <1>3, <1>4

LEMMA NextLogIInv == LogIInv /\ [Next]_vars => LogIInv'
<1> SUFFICES ASSUME LogIInv, [Next]_vars PROVE LogIInv'
  OBVIOUS
<1> USE DEF LogIInv
<1>0. log \in Seq(MemoryLine \cup RegisterLine \cup OtherLine) /\ Len(log) \in Nat
  BY LogAssumption, LenProperties DEF GdbTypeOK
<1>1. CASE openFileAndThrowOnError
  <2>1. CASE Fail(fileException)
    BY <2>1, FailKeeps
  <2>2. ASSUME pass' = "first",
               context' = [context EXCEPT !.R[MSP] = DEFAULT_SP_VALUE, !.R[PSP] = DEFAULT_SP_VALUE],
               UNCHANGED <<log, image, regions, pos, word, scan, exception>>
        PROVE  LogIInv'
    <3>1. context' \in [float : BOOLEAN, R : [Register -> Value]]
      BY <2>2, LogAssumption DEF GdbTypeOK
    <3> QED
      BY <2>2, <3>1 DEF GdbTypeOK, ImageIsKept, AddsRAM
  <2> QED
    BY <1>1, <2>1, <2>2 DEF openFileAndThrowOnError
<1>2. CASE firstPassMemoryHandler
  BY <1>2, FirstPassMemoryKeeps
<1>3. CASE firstPassRegisterHandler
  <2>1. pos \in 1 .. Len(log) /\ log[pos].type = "register"
    BY <1>0, <1>3 DEF firstPassRegisterHandler, Reads, GdbTypeOK
  <2>2. log[pos] \in RegisterLine
    BY <1>0, <2>1, ElementOfSeq DEF MemoryLine, OtherLine
  <2>3. context' \in [float : BOOLEAN, R : [Register -> Value]]
    BY <1>3, <2>2 DEF firstPassRegisterHandler, GdbTypeOK, RegisterLine
  <2>4. pos' \in 1 .. Len(log) + 1
    BY <1>0, <1>3, <2>1 DEF firstPassRegisterHandler
  <2> QED
    BY <1>3, <2>3, <2>4 DEF firstPassRegisterHandler, GdbTypeOK, ImageIsKept, AddsRAM
<1>4. CASE firstPassOther
  BY <1>0, <1>4 DEF firstPassOther, Reads, GdbTypeOK, ImageIsKept, AddsRAM
<1>5. CASE firstPassEnd
  BY <1>5, FirstPassEndKeeps
<1>6. CASE rewindLogFileAndThrowOnError
  BY <1>0, <1>6, FailKeeps DEF rewindLogFileAndThrowOnError, GdbTypeOK, ImageIsKept, AddsRAM
<1>7. CASE secondPassWrite
  BY <1>7, SecondPassWriteKeeps
<1>8. CASE secondPassNextLine
  BY <1>0, <1>8 DEF secondPassNextLine, GdbTypeOK, ImageIsKept, AddsRAM, MaxValues
<1>9. CASE secondPassEnd
  BY <1>9 DEF secondPassEnd, GdbTypeOK, ImageIsKept, AddsRAM
<1>10. CASE UNCHANGED vars
  BY <1>10 DEF vars, GdbTypeOK, ImageIsKept, AddsRAM
<1> QED
  BY <1>1, <1>2, <1>3, <1>4, <1>5, <1>6, <1>7, <1>8, <1>9, <1>10 DEF Next

\* The inductive invariant of the log parser holds.
THEOREM LogIInvHolds == Spec => []LogIInv
<1>1. Init => LogIInv
  BY InitLogIInv
<1>2. LogIInv /\ [Next]_vars => LogIInv'
  BY NextLogIInv
<1> QED
  BY <1>1, <1>2, PTL DEF Spec

\* GdbTypeOK for all logs and images (both passes of GdbLogParse).
THEOREM LogTypeCorrect == Spec => []GdbTypeOK
<1>1. LogIInv => GdbTypeOK
  BY DEF LogIInv
<1> QED
  BY <1>1, LogIInvHolds, PTL

\* No log, whatever it shows, changes the flash that the image was loaded into, or
\* where the regions of the image are (secondPassHandler writes by IMemory_Write32).
THEOREM LogKeepsImage == Spec => []ImageIsKept
<1>1. LogIInv => ImageIsKept
  BY DEF LogIInv
<1> QED
  BY <1>1, LogIInvHolds, PTL

(***************************************************************************)
(* The parser is a dump loader.                                            *)
(***************************************************************************)

\* Giving up ends the loading.
LEMMA FailEnds ==
  ASSUME NEW e \in {fileException, outOfMemoryException, busErrorException}, Fail(e),
         pass \notin {"done", "failed"}
  PROVE  [Loader!Next]_(Loader!vars)
  BY DEF Fail, Loader!Next, Loader!End

\* A step that touches neither the memory nor the outcome is none of the loader's.
LEMMA SilentStep ==
  ASSUME UNCHANGED <<image, regions, exception>>,
         pass \notin {"done", "failed"}, pass' \notin {"done", "failed"}
  PROVE  [Loader!Next]_(Loader!vars)
  BY DEF Loader!vars

\* A region that the scan has joined is RAM.
LEMMA CreateIsAddRAM ==
  ASSUME LogIInv, NEW mallocOk \in MallocOutcomes,
         CreatesJoined(mallocOk).exception = noException,
         regions' = CreatesJoined(mallocOk).regions, UNCHANGED <<image, exception>>,
         pass \notin {"done", "failed"}, pass' \notin {"done", "failed"}
  PROVE  [Loader!Next]_(Loader!vars)
<1>1. regions \in Seq(MemoryRegion)
  BY DEF LogIInv, GdbTypeOK
<1>2. /\ Len(regions') = Len(regions) + 1
      /\ regions' = Append(regions, NewRegion(regions'[Len(regions')].baseAddress,
                                              regions'[Len(regions')].size))
  BY <1>1, CreateAppends DEF CreatesJoined
<1> QED
  BY <1>2 DEF Loader!Next, Loader!AddRAM

\* A word is stored where the memory is not read-only.
LEMMA WriteIsStore ==
  ASSUME LogIInv, secondPassWrite
  PROVE  [Loader!Next]_(Loader!vars)
<1> DEFINE address == WordAddress(log[pos], word)
           found   == findMatchingRegion(regions, address, WordSize)
           bytes   == Parsed(log[pos])[word]
<1>1. pass = "second"
  BY DEF secondPassWrite, Reads
<1>2. CASE ~IsPermitted(regions, address, WordSize, WRITING)
  BY <1>1, <1>2, FailEnds DEF secondPassWrite
<1>3. CASE IsPermitted(regions, address, WordSize, WRITING)
  <2>1. regions' = Overwrite(regions, found, bytes) /\ UNCHANGED <<image, pass, exception>>
    BY <1>3 DEF secondPassWrite
  <2>2. address \in Address
    <3>1. log[pos] \in MemoryLine /\ word \in Nat
      BY ReadsLine DEF secondPassWrite, LogIInv, GdbTypeOK
    <3> QED
      BY <3>1, ParsedType
  <2>3. found.region \in DOMAIN regions /\ ~regions[found.region].isReadOnly
    BY <1>3, <2>2, FindGood DEF IsPermitted, LogIInv
  <2> HIDE DEF address, found, bytes
  <2>4. regions \in Seq(MemoryRegion)
    BY DEF LogIInv, GdbTypeOK
  <2>5. /\ DOMAIN regions' = DOMAIN regions
        /\ Len(regions'[found.region].pData) = Len(regions[found.region].pData)
        /\ regions' = [regions EXCEPT ![found.region].pData = regions'[found.region].pData]
    BY <2>1, <2>3, <2>4, OverwriteStores
  <2> QED
    BY <1>1, <2>1, <2>3, <2>5 DEF Loader!Next, Loader!StoreIntoRAM
<1> QED
  BY <1>2, <1>3

LEMMA NextIsLoaderStep ==
  ASSUME LogIInv, [Next]_vars
  PROVE  [Loader!Next]_(Loader!vars)
<1>1. CASE openFileAndThrowOnError
  BY <1>1, FailEnds, SilentStep DEF openFileAndThrowOnError
<1>2. CASE firstPassMemoryHandler
  BY <1>2, CreatesGood, CreateIsAddRAM, FailEnds, SilentStep DEF firstPassMemoryHandler, Reads
<1>3. CASE firstPassRegisterHandler
  BY <1>3, SilentStep DEF firstPassRegisterHandler, Reads
<1>4. CASE firstPassOther
  BY <1>4, SilentStep DEF firstPassOther, Reads
<1>5. CASE firstPassEnd
  <2>1. PICK mallocOk \in MallocOutcomes :
          LET created == IF scan.regionSize = 0 THEN Returns(regions)
                         ELSE CreatesJoined(mallocOk)
          IN  IF created.exception = noException
              THEN /\ regions' = created.regions
                   /\ scan' = FreshScan
                   /\ pass' = "rewinding"
                   /\ UNCHANGED <<log, image, context, pos, word, exception>>
              ELSE Fail(created.exception)
    BY <1>5 DEF firstPassEnd
  <2>2. pass = "first"
    BY <1>5 DEF firstPassEnd
  <2>3. CASE scan.regionSize = 0
    BY <2>1, <2>2, <2>3, SilentStep DEF Returns
  <2>4. CASE scan.regionSize # 0 /\ CreatesJoined(mallocOk).exception = noException
    BY <2>1, <2>2, <2>4, CreateIsAddRAM
  <2>5. CASE scan.regionSize # 0 /\ CreatesJoined(mallocOk).exception # noException
    BY <2>1, <2>2, <2>5, CreatesGood, FailEnds
  <2> QED
    BY <2>3, <2>4, <2>5
<1>6. CASE rewindLogFileAndThrowOnError
  BY <1>6, FailEnds, SilentStep DEF rewindLogFileAndThrowOnError
<1>7. CASE secondPassWrite
  BY <1>7, WriteIsStore
<1>8. CASE secondPassNextLine
  BY <1>8, SilentStep DEF secondPassNextLine
<1>9. CASE secondPassEnd
  BY <1>9 DEF secondPassEnd, Loader!Next, Loader!End, LogIInv, GdbTypeOK
<1>10. CASE UNCHANGED vars
  BY <1>10 DEF vars, Loader!vars
<1> QED
  BY <1>1, <1>2, <1>3, <1>4, <1>5, <1>6, <1>7, <1>8, <1>9, <1>10 DEF Next

\* The log parser implements the dump loader that CrashDebugCommandLine_Init relies on:
\* memory grows by RAM only, no store reaches flash, nothing is touched after the end
\* (GdbLogParse).
THEOREM LogImplementsDumpLoader == Spec => ImplementsDumpLoader
<1>1. Init => Loader!Init
  BY DEF Init, Loader!Init
<1>2. LogIInv /\ [Next]_vars => [Loader!Next]_(Loader!vars)
  BY NextIsLoaderStep
<1> QED
  BY <1>1, <1>2, LogIInvHolds, PTL DEF Spec, Loader!Spec, ImplementsDumpLoader

(***************************************************************************)
(* What is read: memory.                                                   *)
(***************************************************************************)

\* Address a lies in word i of line l.
InWord(l, i, a) == a \in WordAddress(log[l], i) .. WordAddress(log[l], i) + WordSize - 1

\* The lines that have a word for address a, made up or not, and those of them that
\* the second pass has written.
Wording(a) == {l \in MemoryLines : \E i \in DOMAIN Parsed(log[l]) : InWord(l, i, a)}

Wrote(a) ==
  {l \in Wording(a) :
     /\ pass \in {"second", "done"}
     /\ \E i \in DOMAIN Parsed(log[l]) : InWord(l, i, a) /\ (l < pos \/ (l = pos /\ i < word))}

\* The byte that line l has for address a.
ParsedByte(l, a) ==
  LET offset == (a - log[l].address) % AddressLimit
  IN  Parsed(log[l])[offset \div WordSize + 1][(offset % WordSize) + 1]

InScan(a) == a >= scan.regionStart /\ a < scan.regionStart + scan.regionSize

\* What is in memory or will be is in the image or in a line.
MemoryIsWorded ==
  \A a \in Address :
    /\ InScan(a) => Wording(a) # {}
    /\ Matching(regions, a, ByteSize) # {} =>
         Matching(image, a, ByteSize) # {} \/ Wording(a) # {}
    /\ Matching(image, a, ByteSize) # {} => Matching(regions, a, ByteSize) # {}


\* Memory is what was written so far, and where nothing was the image.
MemoryIsWritten ==
  WordsAreWhole /\ pass # "failed" =>
    /\ \A i \in DOMAIN regions : Whole(regions[i])
    /\ scan = FreshScan \/ (scan.regionStart % WordSize = 0 /\ scan.regionSize % WordSize = 0)
    /\ \A a \in Address :
         IF Wrote(a) # {}
         THEN Matching(regions, a, ByteSize) # {} /\ ByteOf(regions, a) = ParsedByte(Max(Wrote(a)), a)
         ELSE Matching(image, a, ByteSize) # {} => ByteOf(regions, a) = ByteOf(image, a)

(***************************************************************************)
(* What is read: registers.                                                *)
(***************************************************************************)

\* The lines for register r that the first pass has read.
ReadLines(r) == {l \in RegisterLines(r) : pass = "first" => l < pos}

RegisterFollows(r) ==
  context.R[r] = IF ReadLines(r) # {} THEN log[Max(ReadLines(r))].value
                 ELSE IF r \in {MSP, PSP} THEN DEFAULT_SP_VALUE ELSE ZeroValue

RegistersFollow ==
  /\ pass = "opening" => context = [float |-> FALSE, R |-> [r \in Register |-> ZeroValue]]
  /\ pass \notin {"opening", "failed"} =>
       /\ context.float <=> \E r \in FloatRegister : ReadLines(r) # {}
       /\ \A r \in Register : RegisterFollows(r)

(***************************************************************************)
(* Room for every word.                                                    *)
(***************************************************************************)

\* Some region that the first pass made holds line l, or will.
HasRoom(l) ==
  \E i \in DOMAIN regions :
    /\ i \notin DOMAIN image
    /\ Holds(regions[i], log[l].address, ByteCount(log[l]))

WillHaveRoom(l) ==
  /\ pass = "first"
  /\ scan.regionStart <= log[l].address
  /\ log[l].address + ByteCount(log[l]) <= scan.regionStart + scan.regionSize

StaysBelowTop == \A l \in MemoryLines : ~ReachesPastTop(l)

RoomIsMade ==
  StaysBelowTop /\ pass # "failed" =>
    /\ scan.regionStart + scan.regionSize < AddressLimit
    /\ \A l \in MemoryLines :
         ByteCount(log[l]) > 0 /\ (pass \in {"opening", "first"} => l < pos) =>
           HasRoom(l) \/ WillHaveRoom(l)

(***************************************************************************)
(* The invariant.                                                          *)
(***************************************************************************)

PassesFollow ==
  /\ pass \in {"opening", "first", "rewinding"} => word = 1
  /\ pass = "opening" => pos = 1 /\ scan = FreshScan
  /\ pass \notin {"first", "failed"} => scan = FreshScan
  /\ pass = "done" => pos = Len(log) + 1
  /\ scan.nextExpectedAddress = (scan.regionStart + scan.regionSize) % AddressLimit
  /\ pass # "failed" => exception = noException

ReadIInv ==
  /\ LogIInv
  /\ Filled(regions)
  /\ PassesFollow
  /\ MemoryIsWorded
  /\ MemoryIsWritten
  /\ RegistersFollow
  /\ RoomIsMade
  /\ SecondPassFits

(***************************************************************************)
(* Words.                                                                  *)
(***************************************************************************)

\* The addresses are whole words.
LEMMA Limits ==
  /\ AddressLimit \in Nat /\ AddressLimit >= 16 /\ AddressLimit % 4 = 0
  /\ \A a \in Address : a \in Nat /\ a < AddressLimit
  /\ \A a \in Nat : a < AddressLimit => a \in Address
  BY AddressLimitAssumption, WordAssumption DEF Address, WordSize, MaxValues

\* A line is the words that it shows, then those that are made up.
LEMMA ParsedIs ==
  ASSUME NEW line \in MemoryLine
  PROVE  /\ Len(Shown(line)) \in 0 .. MaxValues /\ DOMAIN Shown(line) = 1 .. Len(Shown(line))
         /\ PhantomCount(line) \in 0 .. MaxValues
         /\ Len(Parsed(line)) = Len(Shown(line)) + PhantomCount(line)
         /\ DOMAIN Parsed(line) = 1 .. Len(Parsed(line))
         /\ \A i \in 1 .. Len(Shown(line)) : Parsed(line)[i] = line.shown[i]
<1> DEFINE k == Len(line.shown)
           n == IF k < MaxValues THEN k ELSE MaxValues
           zeroes == [i \in 1 .. PhantomCount(line) |-> [b \in 1 .. WordSize |-> 0]]
<1>1. line.shown \in Seq(WordValue) /\ k \in Nat
  <2>1. line.shown \in Seq(WordValue)
    BY DEF MemoryLine
  <2> QED
    BY <2>1, LenProperties
<1>2. n \in 0 .. MaxValues /\ n <= k
  <2> HIDE DEF k
  <2> QED
    BY <1>1 DEF MaxValues
<1>3. /\ Shown(line) \in Seq(WordValue) /\ Len(Shown(line)) = n
      /\ \A i \in 1 .. n : Shown(line)[i] = line.shown[i]
  <2> HIDE DEF n
  <2>1. Shown(line) = SubSeq(line.shown, 1, n)
    BY DEF Shown, n
  <2> HIDE DEF k
  <2>2. n \in Nat /\ n <= k /\ 1 \in Nat
    BY <1>1, <1>2 DEF MaxValues
  <2>3. \A i \in 1 .. n : SubSeq(line.shown, 1, n)[i] = line.shown[i]
    BY <1>1, <2>2 DEF k
  <2> QED
    BY <1>1, <2>1, <2>2, <2>3 DEF k
<1> HIDE DEF n, k
<1>4. PhantomCount(line) \in 0 .. MaxValues
  <2>1. MaxValues - Len(Shown(line)) \in 0 .. MaxValues
    BY <1>2, <1>3 DEF MaxValues
  <2>2. line.rest \in Rest
    BY DEF MemoryLine
  <2> DEFINE room == MaxValues - Len(Shown(line))
  <2>3. /\ line.rest = "nothing" => PhantomCount(line) = 0
        /\ line.rest = "white space" => PhantomCount(line) = IF room > 0 THEN 1 ELSE 0
        /\ line.rest = "text" => PhantomCount(line) = room
    BY DEF PhantomCount
  <2>4. room \in 0 .. 4
    BY <2>1 DEF MaxValues
  <2> HIDE DEF room
  <2>5. (IF room > 0 THEN 1 ELSE 0) \in 0 .. 4
    BY <2>4
  <2> QED
    <3>1. PhantomCount(line) \in {0, IF room > 0 THEN 1 ELSE 0, room}
      BY <2>2, <2>3 DEF Rest
    <3> QED
      BY <2>4, <2>5, <3>1 DEF MaxValues
<1>5. zeroes \in Seq(WordValue) /\ Len(zeroes) = PhantomCount(line)
  <2>1. [b \in 1 .. WordSize |-> 0] \in WordValue
    BY ByteAssumption DEF WordValue
  <2>2. zeroes \in [1 .. PhantomCount(line) -> WordValue] /\ PhantomCount(line) \in Nat
    BY <1>4, <2>1 DEF MaxValues
  <2>3. zeroes \in Seq(WordValue)
    BY <2>2, SeqDef
  <2>4. Len(zeroes) \in Nat /\ DOMAIN zeroes = 1 .. Len(zeroes)
    BY <2>3, LenProperties
  <2>5. DOMAIN zeroes = 1 .. PhantomCount(line)
    OBVIOUS
  <2> HIDE DEF zeroes
  <2> QED
    BY <2>2, <2>3, <2>4, <2>5
<1> HIDE DEF zeroes
<1>6. Parsed(line) = Shown(line) \o zeroes
  BY DEF Parsed, zeroes
<1>7. /\ Parsed(line) \in Seq(WordValue)
      /\ Len(Parsed(line)) = Len(Shown(line)) + Len(zeroes)
      /\ \A i \in 1 .. Len(Shown(line)) + Len(zeroes) :
           Parsed(line)[i] = IF i <= Len(Shown(line)) THEN Shown(line)[i]
                             ELSE zeroes[i - Len(Shown(line))]
  <2>1. /\ Shown(line) \o zeroes \in Seq(WordValue)
        /\ Len(Shown(line) \o zeroes) = Len(Shown(line)) + Len(zeroes)
        /\ \A i \in 1 .. Len(Shown(line)) + Len(zeroes) :
             (Shown(line) \o zeroes)[i] = IF i <= Len(Shown(line)) THEN Shown(line)[i]
                                          ELSE zeroes[i - Len(Shown(line))]
    BY <1>3, <1>5, ConcatProperties
  <2> QED
    BY <1>6, <2>1
<1>8. \A i \in 1 .. Len(Shown(line)) : Parsed(line)[i] = line.shown[i]
  <2> TAKE i \in 1 .. Len(Shown(line))
  <2>1. i \in 1 .. Len(Shown(line)) + Len(zeroes) /\ i <= Len(Shown(line)) /\ i \in 1 .. n
    BY <1>2, <1>3, <1>4, <1>5 DEF MaxValues
  <2> QED
    BY <1>3, <1>7, <2>1
<1> QED
  BY <1>2, <1>3, <1>4, <1>5, <1>7, <1>8, LenProperties

\* Where the words of a line are.
LEMMA WordsOfLine ==
  ASSUME NEW line \in MemoryLine, NEW i \in 1 .. MaxValues
  PROVE  LET x == line.address + 4 * (i - 1)
         IN  /\ WordAddress(line, i) \in Address
             /\ line.address \in Address
             /\ WordAddress(line, i) = IF x < AddressLimit THEN x ELSE x - AddressLimit
<1>1. line.address \in Address
  BY DEF MemoryLine
<1>2. line.address \in Nat /\ line.address < AddressLimit /\ i \in Nat /\ i >= 1 /\ i <= 4
  BY <1>1, Limits DEF MaxValues
<1>3. PICK x \in Int : x = line.address + 4 * (i - 1)
  BY <1>2
<1>4. x >= 0 /\ x < 2 * AddressLimit
  BY <1>2, <1>3, Limits
<1>5. WordAddress(line, i) = x % AddressLimit
  BY <1>3 DEF WordAddress, WordSize
<1>6. CASE x < AddressLimit
  <2>1. WordAddress(line, i) = x
    BY <1>4, <1>5, <1>6, Wrapping
  <2> QED
    BY <1>1, <1>3, <1>4, <1>6, <2>1, Limits
<1>7. CASE ~(x < AddressLimit)
  <2>1. x >= AddressLimit
    BY <1>3, <1>7, Limits
  <2>2. WordAddress(line, i) = x - AddressLimit
    BY <1>4, <1>5, <2>1, Wrapping
  <2>3. x - AddressLimit \in Nat /\ x - AddressLimit < AddressLimit
    BY <1>4, <2>1, Limits
  <2> QED
    BY <1>1, <1>3, <1>7, <2>2, <2>3, Limits
<1> QED
  BY <1>6, <1>7

\* The place of an address in a line.
LEMMA OffsetInLine ==
  ASSUME NEW line \in MemoryLine, NEW a \in Address
  PROVE  (a - line.address) % AddressLimit
           = IF a >= line.address THEN a - line.address ELSE a - line.address + AddressLimit
<1>1. a \in Nat /\ a < AddressLimit /\ line.address \in Nat /\ line.address < AddressLimit
  BY Limits DEF MemoryLine
<1>2. PICK x \in Int : x = a - line.address
  BY <1>1
<1>3. CASE a >= line.address
  <2>1. x >= 0 /\ x < AddressLimit
    BY <1>1, <1>2, <1>3, Limits
  <2>2. x % AddressLimit = x
    BY <2>1, Wrapping
  <2> QED
    BY <1>2, <1>3, <2>2
<1>4. CASE ~(a >= line.address)
  <2>1. x < 0 /\ x >= 0 - AddressLimit
    BY <1>1, <1>2, <1>4, Limits
  <2>2. x % AddressLimit = x + AddressLimit
    BY <2>1, Wrapping
  <2> QED
    BY <1>1, <1>2, <1>4, <2>2
<1> QED
  BY <1>3, <1>4

\* An address is in the word that its place says.
LEMMA WholeWords ==
  ASSUME NEW line \in MemoryLine, line.address % WordSize = 0,
         NEW i \in 1 .. MaxValues, NEW a \in Address
  PROVE  LET address == WordAddress(line, i)
             offset  == (a - line.address) % AddressLimit
         IN  /\ address % WordSize = 0
             /\ a \in address .. address + WordSize - 1 <=> offset \div WordSize + 1 = i
             /\ offset \div WordSize + 1 = i => offset % WordSize = a - address
<1> DEFINE s == line.address
           L == AddressLimit
           w == WordAddress(line, i)
           o == (a - line.address) % AddressLimit
           x == s + 4 * (i - 1)
<1>1. /\ s \in Nat /\ s < L /\ s % 4 = 0 /\ a \in Nat /\ a < L
      /\ L \in Nat /\ L >= 16 /\ L % 4 = 0 /\ i \in Nat /\ i >= 1 /\ i <= 4
  BY Limits DEF MemoryLine, WordSize, MaxValues
<1>2. w = IF x < L THEN x ELSE x - L
  BY WordsOfLine
<1>3. o = IF a >= s THEN a - s ELSE a - s + L
  BY OffsetInLine
<1> HIDE DEF s, L, w, o
<1>4. w % 4 = 0
  BY <1>1, <1>2
<1>5. a \in w .. w + 3 <=> o \div 4 + 1 = i
  BY <1>1, <1>2, <1>3
<1>6. o \div 4 + 1 = i => o % 4 = a - w
  BY <1>1, <1>2, <1>3
<1>7. w \in Nat /\ w + 4 - 1 = w + 3
  BY <1>1, <1>2
<1> QED
  BY <1>4, <1>5, <1>6, <1>7 DEF s, L, w, o, WordSize

\* The bytes of a line up to the end of the addresses are in its words.
LEMMA LineIsWorded ==
  ASSUME NEW line \in MemoryLine, NEW a \in Address,
         a >= line.address, a < line.address + ByteCount(line)
  PROVE  \E i \in DOMAIN Parsed(line) :
           a \in WordAddress(line, i) .. WordAddress(line, i) + WordSize - 1
<1> DEFINE s == line.address
           n == Len(Parsed(line))
           i == (a - s) \div 4 + 1
<1>1. s \in Nat /\ s < AddressLimit /\ a \in Nat /\ a < AddressLimit
  BY Limits DEF MemoryLine
<1>2. n \in 0 .. 4 /\ DOMAIN Parsed(line) = 1 .. n
  BY ParsedType, ParsedIs DEF MaxValues
<1>3. ByteCount(line) = 4 * n
  BY DEF ByteCount, WordSize
<1> HIDE DEF n, s
<1>4. i \in 1 .. n /\ i \in 1 .. 4
  BY <1>1, <1>2, <1>3 DEF s
<1>5. 4 * (i - 1) <= a - s /\ a - s <= 4 * (i - 1) + 3 /\ i \in Nat
  BY <1>1, <1>4 DEF s
<1> HIDE DEF i
<1>6. WordAddress(line, i) = s + 4 * (i - 1)
  <2>1. s + 4 * (i - 1) < AddressLimit
    BY <1>1, <1>5, Limits
  <2> QED
    BY <1>4, <2>1, WordsOfLine DEF s, MaxValues
<1>7. a \in WordAddress(line, i) .. WordAddress(line, i) + WordSize - 1
  BY <1>1, <1>5, <1>6 DEF WordSize
<1> QED
  BY <1>2, <1>4, <1>7

(***************************************************************************)
(* The steps.                                                              *)
(***************************************************************************)

\* The lines of a log.
LEMMA Lines ==
  ASSUME LogIInv
  PROVE  /\ Len(log) \in Nat /\ DOMAIN log = 1 .. Len(log) /\ pos \in 1 .. Len(log) + 1
         /\ word \in 1 .. 5
         /\ \A l \in MemoryLines : l \in Nat /\ l >= 1 /\ l <= Len(log) /\ log[l] \in MemoryLine
         /\ image \in Seq(MemoryRegion) /\ Len(image) \in Nat
<1>1. log \in Seq(MemoryLine \cup RegisterLine \cup OtherLine) /\ image \in Seq(MemoryRegion)
  BY LogAssumption DEF LogIInv
<1>2. Len(log) \in Nat /\ DOMAIN log = 1 .. Len(log) /\ Len(image) \in Nat
  BY <1>1, LenProperties
<1>3. ASSUME NEW l \in MemoryLines
      PROVE  l \in Nat /\ l >= 1 /\ l <= Len(log) /\ log[l] \in MemoryLine
  <2>1. l \in 1 .. Len(log) /\ log[l].type = "memory"
    BY <1>2 DEF MemoryLines
  <2>2. log[l] \in MemoryLine \cup RegisterLine \cup OtherLine
    BY <1>1, <2>1, ElementOfSeq
  <2> QED
    BY <1>2, <2>1, <2>2 DEF RegisterLine, OtherLine
<1>4. pos \in 1 .. Len(log) + 1 /\ word \in 1 .. 5
  BY DEF LogIInv, GdbTypeOK, MaxValues
<1> QED
  BY <1>1, <1>2, <1>3, <1>4

\* What depends on the log and the image alone.
LEMMA LogStays ==
  ASSUME UNCHANGED <<log, image>>
  PROVE  /\ MemoryLines' = MemoryLines /\ (WordsAreWhole' <=> WordsAreWhole)
         /\ (StaysBelowTop' <=> StaysBelowTop)
         /\ \A a : Wording(a)' = Wording(a)
         /\ \A l, a : ParsedByte(l, a)' = ParsedByte(l, a)
         /\ \A r : RegisterLines(r)' = RegisterLines(r)
         /\ \A a : /\ Matching(image, a, ByteSize)' = Matching(image, a, ByteSize)
                   /\ ByteOf(image, a)' = ByteOf(image, a)
<1>1. MemoryLines' = MemoryLines /\ \A r : RegisterLines(r)' = RegisterLines(r)
  BY DEF MemoryLines, RegisterLines
<1> QED
  BY <1>1 DEF WordsAreWhole, StaysBelowTop, ReachesPastTop, Wording, InWord, ParsedByte

\* Giving up is of no concern, unless the second pass finds no room.
LEMMA FailReads ==
  ASSUME ReadIInv, LogIInv',
         NEW e \in {fileException, outOfMemoryException, busErrorException}, Fail(e),
         e = busErrorException => SecondPassFits'
  PROVE  ReadIInv'
<1>1. /\ pass' = "failed" /\ exception' = e
      /\ UNCHANGED <<log, image, regions, context, pos, word, scan>>
  BY DEF Fail
<1>2. SecondPassFits'
  BY <1>1 DEF SecondPassFits
<1>3. Filled(regions)' /\ PassesFollow' /\ RegistersFollow' /\ MemoryIsWritten' /\ RoomIsMade'
  BY <1>1 DEF ReadIInv, PassesFollow, RegistersFollow, MemoryIsWritten, RoomIsMade
<1>4. MemoryIsWorded'
  BY <1>1, LogStays DEF ReadIInv, MemoryIsWorded, InScan
<1> QED
  BY <1>2, <1>3, <1>4 DEF ReadIInv

\* Nothing was written as long as the second pass has not begun.
LEMMA NothingWritten ==
  ASSUME LogIInv, pass \notin {"second", "done"} \/ (pos = 1 /\ word = 1)
  PROVE  \A a : Wrote(a) = {}
<1>1. SUFFICES ASSUME NEW a, NEW l \in Wrote(a)
               PROVE  FALSE
  OBVIOUS
<1>2. l \in MemoryLines /\ \E i \in DOMAIN Parsed(log[l]) : l < pos \/ (l = pos /\ i < word)
  BY DEF Wrote, Wording
<1>3. l \in Nat /\ l >= 1 /\ DOMAIN Parsed(log[l]) = 1 .. Len(Parsed(log[l]))
      /\ Len(Parsed(log[l])) \in Nat
  BY <1>2, Lines, ParsedIs, ParsedType DEF MaxValues
<1>4. pass \in {"second", "done"}
  BY DEF Wrote
<1> QED
  BY <1>2, <1>3, <1>4

\* What stays when neither the regions nor the scan change.
LEMMA MemoryStays ==
  ASSUME ReadIInv, UNCHANGED <<log, image, regions, scan>>,
         pass # "failed", pass' # "failed",
         \A a : Wrote(a)' = Wrote(a)
  PROVE  Filled(regions)' /\ MemoryIsWorded' /\ MemoryIsWritten'
<1>1. MemoryIsWorded'
  BY LogStays DEF ReadIInv, MemoryIsWorded, InScan
<1>2. MemoryIsWritten'
  <2>1. SUFFICES ASSUME WordsAreWhole
                 PROVE  /\ \A i \in DOMAIN regions' : Whole(regions'[i])
                        /\ scan' = FreshScan \/ (scan'.regionStart % WordSize = 0
                                                 /\ scan'.regionSize % WordSize = 0)
                        /\ \A a \in Address :
                             (IF Wrote(a) # {}
                              THEN /\ Matching(regions, a, ByteSize) # {}
                                   /\ ByteOf(regions, a) = ParsedByte(Max(Wrote(a)), a)
                              ELSE Matching(image, a, ByteSize) # {} =>
                                     ByteOf(regions, a) = ByteOf(image, a))'
    BY LogStays DEF MemoryIsWritten
  <2>2. ASSUME NEW a \in Address
        PROVE  (IF Wrote(a) # {}
                THEN /\ Matching(regions, a, ByteSize) # {}
                     /\ ByteOf(regions, a) = ParsedByte(Max(Wrote(a)), a)
                ELSE Matching(image, a, ByteSize) # {} => ByteOf(regions, a) = ByteOf(image, a))'
    <3>1. IF Wrote(a) # {}
          THEN Matching(regions, a, ByteSize) # {} /\ ByteOf(regions, a) = ParsedByte(Max(Wrote(a)), a)
          ELSE Matching(image, a, ByteSize) # {} => ByteOf(regions, a) = ByteOf(image, a)
      BY <2>1 DEF ReadIInv, MemoryIsWritten
    <3>2. /\ Matching(regions, a, ByteSize)' = Matching(regions, a, ByteSize)
          /\ ByteOf(regions, a)' = ByteOf(regions, a)
          /\ Wrote(a)' = Wrote(a)
          /\ ParsedByte(Max(Wrote(a)), a)' = ParsedByte(Max(Wrote(a)), a)
      BY LogStays
    <3> QED
      BY <3>1, <3>2, LogStays
  <2>3. /\ \A i \in DOMAIN regions : Whole(regions[i])
        /\ scan = FreshScan \/ (scan.regionStart % WordSize = 0 /\ scan.regionSize % WordSize = 0)
    BY <2>1 DEF ReadIInv, MemoryIsWritten
  <2> QED
    BY <2>2, <2>3
<1> QED
  BY <1>1, <1>2 DEF ReadIInv

\* The memory after the region that was joined was created.
LEMMA CreatedReads ==
  ASSUME ReadIInv, pass = "first", NEW mallocOk \in MallocOutcomes,
         CreatesJoined(mallocOk).exception = noException
  PROVE  LET new == CreatesJoined(mallocOk).regions
         IN  /\ Filled(new)
             /\ \A a \in Address :
                  /\ Matching(new, a, ByteSize) # {} =>
                       Matching(image, a, ByteSize) # {} \/ Wording(a) # {}
                  /\ Matching(image, a, ByteSize) # {} => Matching(new, a, ByteSize) # {}
             /\ WordsAreWhole /\ scan # FreshScan =>
                  /\ \A i \in DOMAIN new : Whole(new[i])
                  /\ \A a \in Address : Matching(image, a, ByteSize) # {} =>
                                          ByteOf(new, a) = ByteOf(image, a)
             /\ \A l \in MemoryLines :
                  HasRoom(l) \/ WillHaveRoom(l) =>
                    \E i \in DOMAIN new :
                      /\ i \notin DOMAIN image
                      /\ Holds(new[i], log[l].address, ByteCount(log[l]))
<1> DEFINE start == scan.regionStart
           size  == scan.regionSize
           r     == NewRegion(start, size)
           new   == Append(regions, r)
           n     == Len(regions)
<1>1. CreatesJoined(mallocOk).regions = new
  BY DEF CreatesJoined, CreateRegion, Returns, Throws, noException, outOfMemoryException
<1>2. start \in Address /\ size \in Address /\ Filled(regions)
  BY DEF ReadIInv, LogIInv, GdbTypeOK
<1> HIDE DEF start, size
<1>3. /\ Filled(new)
      /\ \A a \in Address :
           /\ Matching(regions, a, ByteSize) # {} =>
                Matching(new, a, ByteSize) # {} /\ ByteOf(new, a) = ByteOf(regions, a)
           /\ Matching(regions, a, ByteSize) = {} =>
                (Matching(new, a, ByteSize) # {} <=> a >= start /\ a < start + size)
  BY <1>2, AppendedBytes
<1>4. r.baseAddress = start /\ r.size = size
  BY DEF NewRegion
<1>5. /\ n \in Nat /\ DOMAIN regions = 1 .. n /\ regions \in Seq(MemoryRegion)
  BY <1>2, LenProperties DEF Filled
<1> HIDE DEF r
<1>6. /\ DOMAIN new = 1 .. n + 1 /\ new[n + 1] = r /\ \A i \in 1 .. n : new[i] = regions[i]
  BY <1>5
<1> HIDE DEF new
<1>7. ASSUME NEW a \in Address
      PROVE  /\ Matching(new, a, ByteSize) # {} =>
                  Matching(image, a, ByteSize) # {} \/ Wording(a) # {}
             /\ Matching(image, a, ByteSize) # {} => Matching(new, a, ByteSize) # {}
  <2>1. /\ InScan(a) => Wording(a) # {}
        /\ Matching(regions, a, ByteSize) # {} =>
             Matching(image, a, ByteSize) # {} \/ Wording(a) # {}
        /\ Matching(image, a, ByteSize) # {} => Matching(regions, a, ByteSize) # {}
    BY DEF ReadIInv, MemoryIsWorded
  <2> QED
    BY <1>3, <2>1 DEF InScan, start, size
<1>8. ASSUME WordsAreWhole, scan # FreshScan
      PROVE  /\ \A i \in DOMAIN new : Whole(new[i])
             /\ \A a \in Address : Matching(image, a, ByteSize) # {} =>
                                     ByteOf(new, a) = ByteOf(image, a)
  <2>1. start % WordSize = 0 /\ size % WordSize = 0
    BY <1>8 DEF ReadIInv, MemoryIsWritten, start, size
  <2>2. \A i \in DOMAIN regions : Whole(regions[i])
    BY <1>8 DEF ReadIInv, MemoryIsWritten
  <2>3. Whole(r)
    BY <1>4, <2>1 DEF Whole
  <2>4. \A i \in 1 .. n + 1 : i \in 1 .. n \/ i = n + 1
    BY <1>5
  <2>5. ASSUME NEW a \in Address, Matching(image, a, ByteSize) # {}
        PROVE  ByteOf(new, a) = ByteOf(image, a)
    <3>1. Wrote(a) = {}
      BY NothingWritten DEF ReadIInv
    <3>2. ByteOf(regions, a) = ByteOf(image, a)
      BY <1>8, <2>5, <3>1 DEF ReadIInv, MemoryIsWritten
    <3>3. Matching(regions, a, ByteSize) # {}
      BY <2>5 DEF ReadIInv, MemoryIsWorded
    <3> QED
      BY <1>3, <3>2, <3>3
  <2> QED
    BY <1>5, <1>6, <2>2, <2>3, <2>4, <2>5
<1>9. ASSUME NEW l \in MemoryLines, HasRoom(l) \/ WillHaveRoom(l)
      PROVE  \E i \in DOMAIN new :
               /\ i \notin DOMAIN image
               /\ Holds(new[i], log[l].address, ByteCount(log[l]))
  <2>1. CASE HasRoom(l)
    <3>1. PICK i \in DOMAIN regions :
            /\ i \notin DOMAIN image
            /\ Holds(regions[i], log[l].address, ByteCount(log[l]))
      BY <2>1 DEF HasRoom
    <3>2. i \in DOMAIN new /\ new[i] = regions[i]
      BY <1>5, <1>6
    <3> QED
      BY <3>1, <3>2
  <2>2. CASE WillHaveRoom(l)
    <3>1. DOMAIN image \subseteq 1 .. n
      BY <1>5 DEF ReadIInv, LogIInv, ImageIsKept, KeepsRegions
    <3>2. n + 1 \in DOMAIN new /\ n + 1 \notin DOMAIN image
      BY <1>5, <1>6, <3>1
    <3>3. log[l].address \in Nat /\ ByteCount(log[l]) \in Nat /\ start \in Nat /\ size \in Nat
      BY <1>2, Lines, ParsedType, Limits DEF ReadIInv, MemoryLine
    <3>4. start <= log[l].address /\ log[l].address + ByteCount(log[l]) <= start + size
      BY <2>2 DEF WillHaveRoom, start, size
    <3>5. Holds(r, log[l].address, ByteCount(log[l]))
      BY <1>4, <3>3, <3>4 DEF Holds
    <3> QED
      BY <1>4, <1>6, <3>2, <3>5
  <2> QED
    BY <1>9, <2>1, <2>2
<1> QED
  BY <1>1, <1>3, <1>7, <1>8, <1>9

LEMMA InitReadIInv == Init => ReadIInv
<1> SUFFICES ASSUME Init PROVE ReadIInv
  OBVIOUS
<1>1. LogIInv
  BY InitLogIInv
<1>2. /\ regions = image /\ pass = "opening" /\ pos = 1 /\ word = 1 /\ scan = FreshScan
      /\ exception = noException /\ image \in Images
  BY DEF Init
<1>3. scan.regionStart = Sentinel /\ scan.regionSize = 0 /\ scan.nextExpectedAddress = Sentinel
  BY <1>2 DEF FreshScan
<1>4. Filled(regions)
  BY <1>1, <1>2, ImageAssumption, Lines DEF Filled
<1>5. Sentinel \in Nat /\ Sentinel < AddressLimit /\ Sentinel >= 0 /\ Sentinel \in Int
      /\ Sentinel + 0 = Sentinel
  BY Limits DEF Sentinel
<1>6. Sentinel % AddressLimit = Sentinel
  BY <1>5, Wrapping
<1>7. PassesFollow
  BY <1>2, <1>3, <1>5, <1>6 DEF PassesFollow
<1>8. MemoryIsWorded
  <2>1. \A a \in Address : ~InScan(a)
    BY <1>3, <1>5, Limits DEF InScan
  <2> QED
    BY <1>2, <2>1 DEF MemoryIsWorded
<1>9. MemoryIsWritten
  <2>1. SUFFICES ASSUME WordsAreWhole
                 PROVE  \A i \in DOMAIN regions : Whole(regions[i])
    BY <1>1, <1>2, NothingWritten DEF MemoryIsWritten
  <2> QED
    BY <1>2, <2>1 DEF WordsAreWhole, Whole
<1>10. RoomIsMade
  <2>1. \A l \in MemoryLines : ~(l < pos)
    BY <1>1, <1>2, Lines
  <2> QED
    BY <1>2, <1>3, <1>5, <2>1 DEF RoomIsMade
<1>11. RegistersFollow
  BY <1>2 DEF Init, RegistersFollow
<1> QED
  BY <1>1, <1>2, <1>4, <1>7, <1>8, <1>9, <1>10, <1>11
     DEF ReadIInv, SecondPassFits, noException, busErrorException

LEMMA OpenReads ==
  ASSUME ReadIInv, LogIInv', openFileAndThrowOnError
  PROVE  ReadIInv'
<1>1. CASE Fail(fileException)
  BY <1>1, FailReads DEF fileException, busErrorException
<1>2. CASE ~Fail(fileException)
  <2>1. /\ pass = "opening" /\ pass' = "first"
        /\ context' = [context EXCEPT !.R[MSP] = DEFAULT_SP_VALUE, !.R[PSP] = DEFAULT_SP_VALUE]
        /\ UNCHANGED <<log, image, regions, pos, word, scan, exception>>
    BY <1>2 DEF openFileAndThrowOnError
  <2>2. pos = 1 /\ word = 1 /\ scan = FreshScan /\ exception = noException
    BY <2>1 DEF ReadIInv, PassesFollow
  <2>3. PassesFollow'
    BY <2>1, <2>2 DEF ReadIInv, PassesFollow
  <2>4. Filled(regions)' /\ MemoryIsWorded' /\ MemoryIsWritten'
    <3>1. \A a : Wrote(a)' = Wrote(a)
      BY <2>1, <2>2, NothingWritten, LogStays DEF ReadIInv, Wrote
    <3> QED
      BY <2>1, <3>1, MemoryStays
  <2>5. RegistersFollow'
    <3>1. \A r : ReadLines(r)' = {}
      <4>1. \A r : \A l \in RegisterLines(r) : ~(l < 1)
        BY Lines DEF ReadIInv, RegisterLines
      <4> QED
        BY <2>1, <2>2, <4>1, LogStays DEF ReadLines
    <3>2. context = [float |-> FALSE, R |-> [r \in Register |-> ZeroValue]]
      BY <2>1 DEF ReadIInv, RegistersFollow
    <3>3. ~context'.float
      BY <2>1, <3>2
    <3>4. ASSUME NEW r \in Register
          PROVE  context'.R[r] = IF r \in {MSP, PSP} THEN DEFAULT_SP_VALUE ELSE ZeroValue
      BY <2>1, <3>2, <3>4, LogAssumption
    <3>5. \A r \in Register : RegisterFollows(r)'
      BY <2>1, <3>1, <3>4 DEF RegisterFollows
    <3> QED
      BY <2>1, <3>1, <3>3, <3>5 DEF RegistersFollow
  <2>6. RoomIsMade'
    <3>1. \A l \in MemoryLines : ~(l < pos)
      BY <2>2, Lines DEF ReadIInv
    <3> QED
      BY <2>1, <3>1, LogStays DEF RoomIsMade, ReadIInv
  <2> QED
    BY <2>1, <2>2, <2>3, <2>4, <2>5, <2>6
       DEF ReadIInv, SecondPassFits, noException, busErrorException
<1> QED
  BY <1>1, <1>2

\* What stays for every line and register when the first pass reads a line that is
\* not about memory.
LEMMA NotMemoryReads ==
  ASSUME ReadIInv, LogIInv', pass = "first", pass' = "first", pos \in DOMAIN log,
         log[pos].type # "memory", pos' = pos + 1,
         UNCHANGED <<log, image, regions, word, scan, exception>>, RegistersFollow'
  PROVE  ReadIInv'
<1>1. PassesFollow'
  BY DEF ReadIInv, PassesFollow
<1>2. Filled(regions)' /\ MemoryIsWorded' /\ MemoryIsWritten'
  <2>1. \A a : Wrote(a)' = Wrote(a)
    <3>1. \A a : Wrote(a)' = {}
      BY DEF Wrote
    <3>2. \A a : Wrote(a) = {}
      BY DEF Wrote
    <3> QED
      BY <3>1, <3>2
  <2> QED
    BY <2>1, MemoryStays
<1>3. RoomIsMade'
  <2>1. ASSUME NEW l \in MemoryLines, l < pos + 1
        PROVE  l < pos
    <3>1. l # pos
      BY DEF MemoryLines
    <3> QED
      BY <2>1, <3>1, Lines DEF ReadIInv
  <2>2. \A l : (HasRoom(l)' <=> HasRoom(l)) /\ (WillHaveRoom(l)' <=> WillHaveRoom(l))
               /\ ByteCount(log[l])' = ByteCount(log[l])
    BY DEF HasRoom, WillHaveRoom
  <2> QED
    BY <2>1, <2>2, LogStays DEF ReadIInv, RoomIsMade
<1> QED
  BY <1>1, <1>2, <1>3 DEF ReadIInv, SecondPassFits, PassesFollow, noException, busErrorException

\* A line of the first pass that is about a register, or about nothing.
LEMMA RegisterReads ==
  ASSUME ReadIInv, LogIInv', firstPassRegisterHandler
  PROVE  ReadIInv'
<1>0. PICK q : q = log[pos].register
  OBVIOUS
<1>1. /\ pass = "first" /\ pos \in DOMAIN log /\ log[pos].type = "register"
      /\ Len(log) \in Nat /\ pos \in Nat /\ pos >= 1 /\ DOMAIN log = 1 .. Len(log)
  BY Lines DEF ReadIInv, firstPassRegisterHandler, Reads
<1>2. /\ context' = [float |-> context.float \/ q \in FloatRegister,
                     R |-> [context.R EXCEPT ![q] = log[pos].value]]
      /\ pos' = pos + 1
      /\ UNCHANGED <<log, image, regions, pass, word, scan, exception>>
  BY <1>0 DEF firstPassRegisterHandler
<1>3. q \in Register /\ context.R \in [Register -> Value]
  <2>1. log[pos] \in MemoryLine \cup RegisterLine \cup OtherLine
    BY <1>1, LogAssumption, ElementOfSeq DEF ReadIInv, LogIInv
  <2> QED
    BY <1>0, <1>1, <2>1 DEF ReadIInv, LogIInv, GdbTypeOK, MemoryLine, RegisterLine, OtherLine
<1>4. /\ ReadLines(q)' = ReadLines(q) \cup {pos} /\ ReadLines(q) \in SUBSET (1 .. pos - 1)
      /\ \A r : r # q => ReadLines(r)' = ReadLines(r)
  <2>1. \A l \in DOMAIN log : l \in Nat /\ l >= 1 /\ (l < pos + 1 <=> l < pos \/ l = pos)
    BY <1>1
  <2>2. \A r : ReadLines(r) = {l \in RegisterLines(r) : l < pos}
    BY <1>1 DEF ReadLines
  <2>3. \A r : ReadLines(r)' = {l \in RegisterLines(r) : l < pos + 1}
    BY <1>1, <1>2, LogStays DEF ReadLines
  <2>4. \A r : RegisterLines(r) \subseteq DOMAIN log /\ (pos \in RegisterLines(r) <=> r = q)
    BY <1>0, <1>1 DEF RegisterLines
  <2>5. ReadLines(q) \in SUBSET (1 .. pos - 1)
    <3>1. \A l \in ReadLines(q) : l \in Nat /\ l >= 1 /\ l < pos
      BY <2>1, <2>2, <2>4
    <3> QED
      BY <1>1, <3>1
  <2> QED
    BY <2>1, <2>2, <2>3, <2>4, <2>5
<1>5. RegistersFollow'
  <2>1. /\ context.float <=> \E r \in FloatRegister : ReadLines(r) # {}
        /\ \A r \in Register : RegisterFollows(r)
    BY <1>1 DEF ReadIInv, RegistersFollow
  <2>2. context'.float <=> \E r \in FloatRegister : ReadLines(r)' # {}
    BY <1>2, <1>4, <2>1
  <2>3. ASSUME NEW r \in Register
        PROVE  RegisterFollows(r)'
    <3>1. CASE r = q
      <4>1. ReadLines(r)' # {} /\ Max(ReadLines(r)') = pos
        BY <1>1, <1>4, <3>1, MaxOnTop
      <4>2. context'.R[r] = log[pos].value
        BY <1>2, <1>3, <3>1
      <4> QED
        BY <1>2, <4>1, <4>2 DEF RegisterFollows
    <3>2. CASE r # q
      <4>1. ReadLines(r)' = ReadLines(r) /\ context'.R[r] = context.R[r]
        BY <1>2, <1>3, <1>4, <2>3, <3>2
      <4>2. RegisterFollows(r)
        BY <2>1, <2>3
      <4> QED
        BY <1>2, <4>1, <4>2 DEF RegisterFollows
    <3> QED
      BY <3>1, <3>2
  <2> QED
    BY <1>1, <1>2, <2>2, <2>3 DEF RegistersFollow
<1> QED
  BY <1>1, <1>2, <1>5, NotMemoryReads

\* The registers after a line that is not about a register.
LEMMA SameRegisters ==
  ASSUME ReadIInv, pass = "first", pass' = "first", pos \in DOMAIN log,
         log[pos].type # "register", pos' = pos + 1, UNCHANGED <<log, image, context>>
  PROVE  RegistersFollow'
<1>1. Len(log) \in Nat /\ pos \in Nat /\ DOMAIN log = 1 .. Len(log)
  BY Lines DEF ReadIInv
<1>2. \A r : ReadLines(r)' = ReadLines(r)
  <2>1. \A r : \A l \in RegisterLines(r) : l \in DOMAIN log /\ l # pos
    BY DEF RegisterLines
  <2>2. \A l \in DOMAIN log : l # pos => (l < pos + 1 <=> l < pos)
    BY <1>1
  <2> QED
    BY <2>1, <2>2, LogStays DEF ReadLines
<1>3. \A r \in Register : RegisterFollows(r)' <=> RegisterFollows(r)
  BY <1>2 DEF RegisterFollows
<1> QED
  BY <1>2, <1>3 DEF ReadIInv, RegistersFollow

LEMMA OtherReads ==
  ASSUME ReadIInv, LogIInv', firstPassOther
  PROVE  ReadIInv'
<1>1. /\ pass = "first" /\ pos \in DOMAIN log /\ log[pos].type = "other"
      /\ Len(log) \in Nat /\ pos \in Nat /\ DOMAIN log = 1 .. Len(log)
  BY Lines DEF ReadIInv, firstPassOther, Reads
<1>2. pos' = pos + 1 /\ UNCHANGED <<log, image, regions, context, pass, word, scan, exception>>
  BY DEF firstPassOther
<1>3. RegistersFollow'
  BY <1>1, <1>2, SameRegisters
<1> QED
  BY <1>1, <1>2, <1>3, NotMemoryReads

\* The region that is joined after a memory line: it is the one before with the line,
\* or the line alone.
LEMMA JoinedReads ==
  ASSUME ReadIInv, pass = "first", pos \in MemoryLines
  PROVE  LET line == log[pos]
             next == Joined(line)
         IN  /\ next.nextExpectedAddress = (next.regionStart + next.regionSize) % AddressLimit
             /\ \A a \in Address :
                  a >= next.regionStart /\ a < next.regionStart + next.regionSize =>
                    Wording(a) # {}
             /\ WordsAreWhole => next.regionStart % WordSize = 0 /\ next.regionSize % WordSize = 0
             /\ StaysBelowTop =>
                  /\ next.regionStart + next.regionSize < AddressLimit
                  /\ next.regionStart <= line.address
                  /\ line.address + ByteCount(line) = next.regionStart + next.regionSize
                  /\ line.address = scan.nextExpectedAddress =>
                       /\ next.regionStart = scan.regionStart
                       /\ next.regionSize >= scan.regionSize
<1>1. log[pos] \in MemoryLine
  BY Lines DEF ReadIInv
<1>2. PICK s, n, x, c, d :
        /\ s = scan.regionStart /\ n = scan.regionSize /\ x = scan.nextExpectedAddress
        /\ d = log[pos].address /\ c = ByteCount(log[pos])
  OBVIOUS
<1> DEFINE L == AddressLimit
<1>3. /\ s \in Nat /\ s < L /\ n \in Nat /\ n < L /\ d \in Nat /\ d < L
      /\ s \in Address /\ n \in Address /\ d \in Address
  BY <1>1, <1>2, Limits DEF ReadIInv, LogIInv, GdbTypeOK, MemoryLine
<1>4. c \in Nat /\ c <= 16 /\ c % 4 = 0
  <2>1. Len(Parsed(log[pos])) \in 0 .. 4
    BY <1>1, ParsedType DEF MaxValues
  <2>2. PICK k \in 0 .. 4 : k = Len(Parsed(log[pos]))
    BY <2>1
  <2>3. c = 4 * k
    BY <1>2, <2>2 DEF ByteCount, WordSize
  <2> QED
    BY <2>3
<1>5. L \in Nat /\ L >= 16 /\ L % 4 = 0
  BY Limits
<1>6. x = (s + n) % L
  BY <1>2 DEF ReadIInv, PassesFollow
<1>7. Joined(log[pos]) = [regionStart |-> IF d = x THEN s ELSE d,
                          regionSize |-> ((IF d = x THEN n ELSE 0) + c) % L,
                          nextExpectedAddress |-> (d + c) % L]
  BY <1>2 DEF Joined
<1>8. StaysBelowTop => d + c < L
  <2>1. StaysBelowTop => ~(d + c >= L)
    BY <1>2 DEF StaysBelowTop, ReachesPastTop
  <2> QED
    BY <1>3, <1>4, <1>5, <2>1
<1>9. \A a \in Address : a >= d /\ a < d + c => Wording(a) # {}
  <2> TAKE a \in Address
  <2> SUFFICES ASSUME a >= d, a < d + c PROVE pos \in Wording(a)
    OBVIOUS
  <2> QED
    BY <1>1, <1>2, LineIsWorded DEF Wording, InWord
<1>10. WordsAreWhole => d % 4 = 0
  BY <1>2 DEF WordsAreWhole, WordSize
<1>11. CASE d = x
  <2>1. PICK m : m = (n + c) % L
    OBVIOUS
  <2>2. n + c < L \/ (n + c >= L /\ n + c < 2 * L)
    BY <1>3, <1>4, <1>5
  <2>3. m = IF n + c < L THEN n + c ELSE n + c - L
    <3>1. PICK z \in Int : z = n + c
      BY <1>3, <1>4
    <3> QED
      BY <1>3, <1>4, <1>5, <2>1, <2>2, <3>1, Wrapping
  <2>4. m \in Nat /\ m < L
    BY <1>3, <1>4, <1>5, <2>2, <2>3
  <2>5. (d + c) % L = (s + m) % L
    <3>1. PICK y \in Nat : y = s + n
      BY <1>3
    <3>2. (d + c) % L = (y + c) % L
      <4>1. y < 2 * L /\ c <= L
        BY <1>3, <1>4, <1>5, <3>1
      <4>2. ((y % L) + c) % L = (y + c) % L
        BY <1>4, <4>1, WrappedSum
      <4> QED
        BY <1>6, <1>11, <3>1, <4>2
    <3>3. PICK z \in Nat : z = n + c
      BY <1>3, <1>4
    <3>4. ((z % L) + s) % L = (z + s) % L
      <4>1. z < 2 * L /\ s <= L
        BY <1>3, <1>4, <1>5, <3>3
      <4> QED
        BY <1>3, <4>1, WrappedSum
    <3>5. z + s = y + c /\ (z % L) + s = s + m
      BY <1>3, <1>4, <2>1, <2>4, <3>1, <3>3
    <3> QED
      BY <3>2, <3>4, <3>5
  <2>6. d = IF s + n < L THEN s + n ELSE s + n - L
    <3>1. PICK z \in Int : z = s + n
      BY <1>3
    <3>2. z < L \/ (z >= L /\ z < 2 * L)
      BY <1>3, <1>5, <3>1
    <3> QED
      BY <1>3, <1>5, <1>6, <1>11, <3>1, <3>2, Wrapping
  <2>7. ASSUME NEW a \in Address, a >= s, a < s + m
        PROVE  Wording(a) # {}
    <3>1. a < s + n => Wording(a) # {}
      BY <1>2, <2>7 DEF ReadIInv, MemoryIsWorded, InScan
    <3>2. a \in Nat /\ a < L
      BY Limits
    <3>3. ~(a < s + n) => a >= d /\ a < d + c
      BY <1>3, <1>4, <1>5, <2>3, <2>4, <2>6, <2>7, <3>2
    <3> QED
      BY <1>9, <3>1, <3>3
  <2>8. WordsAreWhole => s % 4 = 0 /\ m % 4 = 0
    <3>1. SUFFICES ASSUME WordsAreWhole PROVE s % 4 = 0 /\ m % 4 = 0
      OBVIOUS
    <3>2. scan # FreshScan
      <4>1. SUFFICES ASSUME scan = FreshScan PROVE FALSE
        OBVIOUS
      <4>2. s = L - 1 /\ n = 0
        BY <1>2, <4>1 DEF FreshScan, Sentinel
      <4> QED
        BY <1>5, <1>10, <2>6, <3>1, <4>2
    <3>3. s % 4 = 0 /\ n % 4 = 0
      BY <1>2, <3>1, <3>2 DEF ReadIInv, MemoryIsWritten, WordSize
    <3> QED
      BY <1>3, <1>4, <1>5, <2>3, <3>3
  <2>9. StaysBelowTop => s + m < L /\ s <= d /\ d + c = s + m /\ m >= n
    <3>1. StaysBelowTop => s + n < L
      BY <1>2 DEF ReadIInv, RoomIsMade
    <3> QED
      BY <1>3, <1>4, <1>5, <1>8, <2>3, <2>6, <3>1
  <2>10. /\ Joined(log[pos]).regionStart = s /\ Joined(log[pos]).regionSize = m
         /\ Joined(log[pos]).nextExpectedAddress = (d + c) % L
    BY <1>7, <1>11, <2>1
  <2> QED
    BY <1>2, <1>11, <2>5, <2>7, <2>8, <2>9, <2>10 DEF WordSize
<1>12. CASE d # x
  <2>1. PICK m : m = (0 + c) % L
    OBVIOUS
  <2>2. m = IF c < L THEN c ELSE c - L
    <3>1. c < L \/ (c >= L /\ c < 2 * L)
      BY <1>4, <1>5
    <3>2. c \in Int /\ c >= 0 /\ 0 + c = c
      BY <1>4
    <3> QED
      BY <1>5, <2>1, <3>1, <3>2, Wrapping
  <2>3. m \in Nat /\ m <= c /\ m % 4 = 0
    BY <1>4, <1>5, <2>2
  <2>4. (d + c) % L = (d + m) % L
    <3>1. ((c % L) + d) % L = (c + d) % L
      <4>1. c < 2 * L /\ d <= L
        BY <1>3, <1>4, <1>5
      <4> QED
        BY <1>3, <1>4, <4>1, WrappedSum
    <3>2. c % L = m /\ m + d = d + m /\ c + d = d + c
      BY <1>3, <1>4, <2>1, <2>3
    <3> QED
      BY <3>1, <3>2
  <2>5. \A a \in Address : a >= d /\ a < d + m => Wording(a) # {}
    <3>1. \A a \in Address : a < d + m => a < d + c
      BY <1>3, <1>4, <2>3, Limits
    <3> QED
      BY <1>9, <3>1
  <2>6. StaysBelowTop => d + m < L /\ d + c = d + m /\ d <= d
    BY <1>3, <1>4, <1>5, <1>8, <2>2
  <2>7. /\ Joined(log[pos]).regionStart = d /\ Joined(log[pos]).regionSize = m
        /\ Joined(log[pos]).nextExpectedAddress = (d + c) % L
    BY <1>7, <1>12, <2>1
  <2> QED
    BY <1>2, <1>10, <1>12, <2>3, <2>4, <2>5, <2>6, <2>7 DEF WordSize
<1> QED
  BY <1>11, <1>12

\* A memory line of the first pass, whether the region before it was created or not.
LEMMA NextLineReads ==
  ASSUME ReadIInv, LogIInv', pass = "first", pos \in MemoryLines, pos' = pos + 1,
         scan' = Joined(log[pos]), UNCHANGED <<log, image, context, pass, word, exception>>,
         Filled(regions'),
         \A a \in Address :
           /\ Matching(regions', a, ByteSize) # {} =>
                Matching(image, a, ByteSize) # {} \/ Wording(a) # {}
           /\ Matching(image, a, ByteSize) # {} => Matching(regions', a, ByteSize) # {},
         WordsAreWhole =>
           /\ \A i \in DOMAIN regions' : Whole(regions'[i])
           /\ \A a \in Address : Matching(image, a, ByteSize) # {} =>
                                   ByteOf(regions', a) = ByteOf(image, a),
         \A l \in MemoryLines :
           StaysBelowTop /\ ByteCount(log[l]) > 0 /\ (HasRoom(l) \/ WillHaveRoom(l)) =>
             (HasRoom(l) \/ WillHaveRoom(l))'
  PROVE  ReadIInv'
<1>1. pos \in DOMAIN log /\ log[pos].type # "register"
  BY DEF MemoryLines
<1>2. RegistersFollow'
  BY <1>1, SameRegisters
<1>3. PassesFollow'
  BY JoinedReads DEF ReadIInv, PassesFollow
<1>4. MemoryIsWorded'
  <2>1. SUFFICES ASSUME NEW a \in Address
                 PROVE  InScan(a)' => Wording(a) # {}
    BY LogStays DEF MemoryIsWorded
  <2> QED
    BY JoinedReads DEF InScan
<1>5. MemoryIsWritten'
  <2>1. SUFFICES ASSUME WordsAreWhole
                 PROVE  /\ scan'.regionStart % WordSize = 0 /\ scan'.regionSize % WordSize = 0
                        /\ \A a : Wrote(a)' = {}
    BY LogStays DEF MemoryIsWritten
  <2>2. \A a : Wrote(a)' = {}
    BY DEF Wrote
  <2> QED
    BY <2>1, <2>2, JoinedReads
<1>6. RoomIsMade'
  <2>1. SUFFICES ASSUME StaysBelowTop
                 PROVE  /\ scan'.regionStart + scan'.regionSize < AddressLimit
                        /\ \A l \in MemoryLines :
                             ByteCount(log[l]) > 0 /\ l < pos + 1 =>
                               (HasRoom(l) \/ WillHaveRoom(l))'
    BY LogStays DEF RoomIsMade
  <2>2. /\ scan'.regionStart + scan'.regionSize < AddressLimit
        /\ scan'.regionStart <= log[pos].address
        /\ log[pos].address + ByteCount(log[pos]) <= scan'.regionStart + scan'.regionSize
    <3>1. scan'.regionStart \in Nat /\ scan'.regionSize \in Nat
      BY Limits DEF LogIInv, GdbTypeOK
    <3>2. /\ scan'.regionStart + scan'.regionSize < AddressLimit
          /\ scan'.regionStart <= log[pos].address
          /\ log[pos].address + ByteCount(log[pos]) = scan'.regionStart + scan'.regionSize
      BY <2>1, JoinedReads
    <3> QED
      BY <3>1, <3>2
  <2>3. ASSUME NEW l \in MemoryLines, ByteCount(log[l]) > 0, l < pos + 1
        PROVE  (HasRoom(l) \/ WillHaveRoom(l))'
    <3>1. l < pos \/ l = pos
      BY <2>3, Lines DEF ReadIInv
    <3>2. CASE l < pos
      BY <2>1, <2>3, <3>2 DEF ReadIInv, RoomIsMade
    <3>3. CASE l = pos
      BY <2>2, <3>3 DEF WillHaveRoom
    <3> QED
      BY <3>1, <3>2, <3>3
  <2> QED
    BY <2>2, <2>3
<1> QED
  BY <1>2, <1>3, <1>4, <1>5, <1>6
     DEF ReadIInv, SecondPassFits, PassesFollow, noException, busErrorException

LEMMA FirstPassMemoryReads ==
  ASSUME ReadIInv, LogIInv', firstPassMemoryHandler
  PROVE  ReadIInv'
<1>1. pass = "first" /\ pos \in MemoryLines
  <2>1. pass = "first" /\ pos <= Len(log) /\ log[pos].type = "memory"
    BY DEF firstPassMemoryHandler, Reads
  <2>2. pos \in DOMAIN log
    BY <2>1, Lines DEF ReadIInv
  <2> QED
    BY <2>1, <2>2 DEF MemoryLines
<1>2. CASE ~EndsRegion(log[pos])
  <2>1. /\ scan' = Joined(log[pos]) /\ pos' = pos + 1
        /\ UNCHANGED <<log, image, regions, context, pass, word, exception>>
    BY <1>2 DEF firstPassMemoryHandler
  <2>2. /\ Filled(regions')
        /\ \A a \in Address :
             /\ Matching(regions', a, ByteSize) # {} =>
                  Matching(image, a, ByteSize) # {} \/ Wording(a) # {}
             /\ Matching(image, a, ByteSize) # {} => Matching(regions', a, ByteSize) # {}
    BY <2>1 DEF ReadIInv, MemoryIsWorded
  <2>3. ASSUME WordsAreWhole
        PROVE  /\ \A i \in DOMAIN regions' : Whole(regions'[i])
               /\ \A a \in Address : Matching(image, a, ByteSize) # {} =>
                                       ByteOf(regions', a) = ByteOf(image, a)
    <3>1. \A a \in Address : Wrote(a) = {}
      BY <1>1 DEF Wrote
    <3>2. ASSUME NEW a \in Address, Matching(image, a, ByteSize) # {}
          PROVE  ByteOf(regions', a) = ByteOf(image, a)
      <4>1. ByteOf(regions, a) = ByteOf(image, a)
        BY <1>1, <2>3, <3>1, <3>2 DEF ReadIInv, MemoryIsWritten
      <4> QED
        BY <2>1, <4>1
    <3> QED
      BY <1>1, <2>1, <2>3, <3>2 DEF ReadIInv, MemoryIsWritten
  <2>4. ASSUME NEW l \in MemoryLines, StaysBelowTop, ByteCount(log[l]) > 0,
               HasRoom(l) \/ WillHaveRoom(l)
        PROVE  (HasRoom(l) \/ WillHaveRoom(l))'
    <3>1. CASE HasRoom(l)
      BY <2>1, <3>1 DEF HasRoom
    <3>2. CASE WillHaveRoom(l)
      <4>1. /\ scan.regionStart \in Nat /\ scan.regionSize \in Nat
            /\ log[l].address \in Nat /\ ByteCount(log[l]) \in Nat
            /\ scan'.regionStart \in Nat /\ scan'.regionSize \in Nat
            /\ scan.nextExpectedAddress \in Nat
        BY Limits, Lines, ParsedType DEF ReadIInv, LogIInv, GdbTypeOK, MemoryLine
      <4>2. scan.regionStart + scan.regionSize < AddressLimit
        BY <1>1, <2>4 DEF ReadIInv, RoomIsMade
      <4>3. CASE scan.regionStart = Sentinel
        <5>1. scan.regionStart = AddressLimit - 1
          BY <4>3 DEF Sentinel
        <5>2. scan.regionSize = 0
          BY <4>1, <4>2, <5>1, Limits
        <5> QED
          BY <2>4, <3>2, <4>1, <5>2 DEF WillHaveRoom
      <4>4. CASE scan.regionStart # Sentinel
        <5>1. log[pos].address = scan.nextExpectedAddress
          BY <1>2, <4>4 DEF EndsRegion
        <5>2. /\ scan'.regionStart = scan.regionStart
              /\ scan'.regionSize >= scan.regionSize
          BY <1>1, <2>1, <2>4, <5>1, JoinedReads
        <5>3. /\ scan.regionStart <= log[l].address
              /\ log[l].address + ByteCount(log[l]) <= scan.regionStart + scan.regionSize
          BY <3>2 DEF WillHaveRoom
        <5>4. /\ scan'.regionStart <= log[l].address
              /\ log[l].address + ByteCount(log[l]) <= scan'.regionStart + scan'.regionSize
          BY <4>1, <5>2, <5>3
        <5> QED
          BY <1>1, <2>1, <5>4 DEF WillHaveRoom
      <4> QED
        BY <4>3, <4>4
    <3> QED
      BY <2>4, <3>1, <3>2
  <2> QED
    BY <1>1, <2>1, <2>2, <2>3, <2>4, NextLineReads
<1>3. CASE EndsRegion(log[pos])
  <2>1. PICK mallocOk \in MallocOutcomes :
          LET created == CreatesJoined(mallocOk)
          IN  IF created.exception = noException
              THEN /\ regions' = created.regions
                   /\ scan' = Joined(log[pos])
                   /\ pos' = pos + 1
                   /\ UNCHANGED <<log, image, context, pass, word, exception>>
              ELSE Fail(created.exception)
    BY <1>3 DEF firstPassMemoryHandler
  <2>2. scan # FreshScan
    BY <1>3 DEF EndsRegion, FreshScan
  <2>3. CASE CreatesJoined(mallocOk).exception = noException
    <3>1. /\ regions' = CreatesJoined(mallocOk).regions
          /\ scan' = Joined(log[pos]) /\ pos' = pos + 1
          /\ UNCHANGED <<log, image, context, pass, word, exception>>
      BY <2>1, <2>3
    <3>2. \A l \in MemoryLines : HasRoom(l) \/ WillHaveRoom(l) => HasRoom(l)'
      BY <1>1, <2>3, <3>1, CreatedReads DEF HasRoom
    <3> QED
      BY <1>1, <2>2, <2>3, <3>1, <3>2, CreatedReads, NextLineReads
  <2>4. CASE CreatesJoined(mallocOk).exception # noException
    <3>1. CreatesJoined(mallocOk).exception \in {noException, outOfMemoryException}
      BY CreatesGood DEF ReadIInv
    <3> QED
      BY <2>1, <2>4, <3>1, FailReads DEF outOfMemoryException, busErrorException
  <2> QED
    BY <2>3, <2>4
<1> QED
  BY <1>2, <1>3

LEMMA FirstPassEndReads ==
  ASSUME ReadIInv, LogIInv', firstPassEnd
  PROVE  ReadIInv'
<1>1. PICK mallocOk \in MallocOutcomes :
        LET created == IF scan.regionSize = 0 THEN Returns(regions) ELSE CreatesJoined(mallocOk)
        IN  IF created.exception = noException
            THEN /\ regions' = created.regions
                 /\ scan' = FreshScan
                 /\ pass' = "rewinding"
                 /\ UNCHANGED <<log, image, context, pos, word, exception>>
            ELSE Fail(created.exception)
  BY DEF firstPassEnd
<1>2. pass = "first" /\ pos > Len(log) /\ Len(log) \in Nat /\ pos = Len(log) + 1
      /\ \A l \in DOMAIN log : l < pos
  BY Lines DEF firstPassEnd, ReadIInv
<1> DEFINE created == IF scan.regionSize = 0 THEN Returns(regions) ELSE CreatesJoined(mallocOk)
<1>3. CASE created.exception # noException
  <2>1. created.exception \in {noException, outOfMemoryException}
    BY CreatesGood DEF ReadIInv, Returns
  <2>2. Fail(created.exception)
    BY <1>1, <1>3
  <2> QED
    BY <1>3, <2>1, <2>2, FailReads DEF outOfMemoryException, busErrorException
<1>4. CASE created.exception = noException
  <2>1. /\ regions' = created.regions /\ scan' = FreshScan /\ pass' = "rewinding"
        /\ UNCHANGED <<log, image, context, pos, word, exception>>
    BY <1>1, <1>4
  <2> HIDE DEF created
  <2>2. /\ scan'.regionStart = Sentinel /\ scan'.regionSize = 0
        /\ scan'.nextExpectedAddress = Sentinel
    BY <2>1 DEF FreshScan
  <2>3. /\ Sentinel \in Nat /\ Sentinel + 0 = Sentinel /\ Sentinel < AddressLimit
        /\ Sentinel % AddressLimit = Sentinel
    <3>1. Sentinel \in Nat /\ Sentinel + 0 = Sentinel /\ Sentinel < AddressLimit
          /\ Sentinel >= 0 /\ Sentinel \in Int
      BY Limits DEF Sentinel
    <3> QED
      BY <3>1, Wrapping
  <2>4. /\ Filled(regions')
        /\ \A a \in Address :
             /\ Matching(regions', a, ByteSize) # {} =>
                  Matching(image, a, ByteSize) # {} \/ Wording(a) # {}
             /\ Matching(image, a, ByteSize) # {} => Matching(regions', a, ByteSize) # {}
        /\ WordsAreWhole =>
             /\ \A i \in DOMAIN regions' : Whole(regions'[i])
             /\ \A a \in Address : Matching(image, a, ByteSize) # {} =>
                                     ByteOf(regions', a) = ByteOf(image, a)
        /\ \A l \in MemoryLines :
             ByteCount(log[l]) > 0 /\ (HasRoom(l) \/ WillHaveRoom(l)) => HasRoom(l)'
    <3>1. CASE scan.regionSize = 0
      <4>1. regions' = regions
        BY <2>1, <3>1 DEF created, Returns
      <4>2. /\ Filled(regions')
            /\ \A a \in Address :
                 /\ Matching(regions', a, ByteSize) # {} =>
                      Matching(image, a, ByteSize) # {} \/ Wording(a) # {}
                 /\ Matching(image, a, ByteSize) # {} => Matching(regions', a, ByteSize) # {}
        BY <4>1 DEF ReadIInv, MemoryIsWorded
      <4>3. ASSUME WordsAreWhole
            PROVE  /\ \A i \in DOMAIN regions' : Whole(regions'[i])
                   /\ \A a \in Address : Matching(image, a, ByteSize) # {} =>
                                           ByteOf(regions', a) = ByteOf(image, a)
        <5>1. \A a \in Address : Wrote(a) = {}
          BY <1>2 DEF Wrote
        <5>2. ASSUME NEW a \in Address, Matching(image, a, ByteSize) # {}
              PROVE  ByteOf(regions', a) = ByteOf(image, a)
          <6>1. ByteOf(regions, a) = ByteOf(image, a)
            BY <1>2, <4>3, <5>1, <5>2 DEF ReadIInv, MemoryIsWritten
          <6> QED
            BY <4>1, <6>1
        <5> QED
          BY <1>2, <4>1, <4>3, <5>2 DEF ReadIInv, MemoryIsWritten
      <4>4. ASSUME NEW l \in MemoryLines, ByteCount(log[l]) > 0, HasRoom(l) \/ WillHaveRoom(l)
            PROVE  HasRoom(l)'
        <5>1. /\ scan.regionStart \in Nat
              /\ log[l].address \in Nat /\ ByteCount(log[l]) \in Nat
          BY Limits, Lines, ParsedType DEF ReadIInv, LogIInv, GdbTypeOK, MemoryLine
        <5>2. ~WillHaveRoom(l)
          BY <3>1, <4>4, <5>1 DEF WillHaveRoom
        <5> QED
          BY <2>1, <4>1, <4>4, <5>2 DEF HasRoom
      <4> QED
        BY <4>2, <4>3, <4>4
    <3>2. CASE scan.regionSize # 0
      <4>1. scan # FreshScan /\ created = CreatesJoined(mallocOk)
        BY <3>2 DEF FreshScan, created
      <4>2. \A l \in MemoryLines : HasRoom(l) \/ WillHaveRoom(l) => HasRoom(l)'
        BY <1>2, <1>4, <2>1, <4>1, CreatedReads DEF HasRoom
      <4> QED
        BY <1>2, <1>4, <2>1, <4>1, <4>2, CreatedReads
    <3> QED
      BY <3>1, <3>2
  <2>5. PassesFollow'
    BY <1>2, <2>1, <2>2, <2>3 DEF ReadIInv, PassesFollow
  <2>6. MemoryIsWorded'
    <3>1. \A a \in Address : ~InScan(a)'
      BY <2>2, <2>3, Limits DEF InScan
    <3> QED
      BY <2>1, <2>4, <3>1, LogStays DEF MemoryIsWorded
  <2>7. MemoryIsWritten'
    <3>1. \A a : Wrote(a)' = {}
      BY <2>1 DEF Wrote
    <3> QED
      BY <2>1, <2>4, <3>1, LogStays DEF MemoryIsWritten
  <2>8. RegistersFollow'
    <3>1. \A r : ReadLines(r)' = ReadLines(r)
      BY <1>2, <2>1 DEF ReadLines, RegisterLines
    <3>2. \A r \in Register : RegisterFollows(r)' <=> RegisterFollows(r)
      BY <2>1, <3>1 DEF RegisterFollows
    <3> QED
      BY <1>2, <2>1, <3>1, <3>2 DEF ReadIInv, RegistersFollow
  <2>9. RoomIsMade'
    <3>1. \A l \in MemoryLines : l < pos
      BY <1>2 DEF MemoryLines
    <3> QED
      BY <1>2, <2>1, <2>2, <2>3, <2>4, <3>1, LogStays DEF ReadIInv, RoomIsMade
  <2> QED
    BY <2>1, <2>4, <2>5, <2>6, <2>7, <2>8, <2>9
       DEF ReadIInv, SecondPassFits, PassesFollow, noException, busErrorException
<1> QED
  BY <1>3, <1>4

\* Between the passes nothing is read.
LEMMA RewindReads ==
  ASSUME ReadIInv, LogIInv', rewindLogFileAndThrowOnError
  PROVE  ReadIInv'
<1>1. CASE Fail(fileException)
  BY <1>1, FailReads DEF fileException, busErrorException
<1>2. CASE ~Fail(fileException)
  <2>1. /\ pass = "rewinding" /\ pass' = "second" /\ pos' = 1
        /\ UNCHANGED <<log, image, regions, context, word, scan, exception>>
    BY <1>2 DEF rewindLogFileAndThrowOnError
  <2>2. word = 1 /\ scan = FreshScan /\ exception = noException
    BY <2>1 DEF ReadIInv, PassesFollow
  <2>3. PassesFollow'
    BY <2>1, <2>2 DEF ReadIInv, PassesFollow
  <2>4. Filled(regions)' /\ MemoryIsWorded' /\ MemoryIsWritten'
    <3>1. \A a : Wrote(a) = {}
      BY <2>1 DEF Wrote
    <3>2. \A a : Wrote(a)' = {}
      <4>1. SUFFICES ASSUME NEW a, NEW l \in Wrote(a)'
                     PROVE  FALSE
        OBVIOUS
      <4>2. /\ l \in MemoryLines
            /\ \E i \in DOMAIN Parsed(log[l]) : l < 1 \/ (l = 1 /\ i < 1)
        BY <2>1, <2>2, LogStays DEF Wrote, Wording, InWord
      <4>3. l \in Nat /\ l >= 1 /\ DOMAIN Parsed(log[l]) = 1 .. Len(Parsed(log[l]))
            /\ Len(Parsed(log[l])) \in Nat
        BY <4>2, Lines, ParsedIs, ParsedType DEF MaxValues, ReadIInv
      <4> QED
        BY <4>2, <4>3
    <3> QED
      BY <2>1, <3>1, <3>2, MemoryStays
  <2>5. RegistersFollow'
    <3>1. \A r : ReadLines(r)' = ReadLines(r)
      BY <2>1 DEF ReadLines, RegisterLines
    <3>2. \A r \in Register : RegisterFollows(r)' <=> RegisterFollows(r)
      BY <2>1, <3>1 DEF RegisterFollows
    <3> QED
      BY <2>1, <3>1, <3>2 DEF ReadIInv, RegistersFollow
  <2>6. RoomIsMade'
    <3>1. \A l : HasRoom(l)' <=> HasRoom(l)
      BY <2>1 DEF HasRoom
    <3>2. \A l : ~WillHaveRoom(l)
      BY <2>1 DEF WillHaveRoom
    <3> QED
      BY <2>1, <3>1, <3>2, LogStays DEF ReadIInv, RoomIsMade
  <2> QED
    BY <2>1, <2>2, <2>3, <2>4, <2>5, <2>6
       DEF ReadIInv, SecondPassFits, noException, busErrorException
<1> QED
  BY <1>1, <1>2

\* The second pass reads on without a store.
LEMMA SecondPassStays ==
  ASSUME ReadIInv, LogIInv', pass = "second", pass' \in {"second", "done"},
         UNCHANGED <<log, image, regions, context, scan, exception>>,
         \A a : Wrote(a)' = Wrote(a), PassesFollow'
  PROVE  ReadIInv'
<1>1. Filled(regions)' /\ MemoryIsWorded' /\ MemoryIsWritten'
  BY MemoryStays
<1>2. RegistersFollow'
  <2>1. \A r : ReadLines(r)' = ReadLines(r)
    BY DEF ReadLines, RegisterLines
  <2>2. \A r \in Register : RegisterFollows(r)' <=> RegisterFollows(r)
    BY <2>1 DEF RegisterFollows
  <2> QED
    BY <2>1, <2>2 DEF ReadIInv, RegistersFollow
<1>3. RoomIsMade'
  <2>1. \A l : (HasRoom(l)' <=> HasRoom(l)) /\ ~WillHaveRoom(l)
    BY DEF HasRoom, WillHaveRoom
  <2> QED
    BY <2>1, LogStays DEF ReadIInv, RoomIsMade
<1> QED
  BY <1>1, <1>2, <1>3 DEF ReadIInv, SecondPassFits, PassesFollow, noException, busErrorException

LEMMA SecondPassNextLineReads ==
  ASSUME ReadIInv, LogIInv', secondPassNextLine
  PROVE  ReadIInv'
<1>1. /\ pass = "second" /\ pass' = "second" /\ pos <= Len(log) /\ pos' = pos + 1 /\ word' = 1
      /\ log[pos].type = "memory" => word > Len(Parsed(log[pos]))
      /\ UNCHANGED <<log, image, regions, context, scan, exception>>
  BY DEF secondPassNextLine
<1>2. PassesFollow'
  BY <1>1 DEF ReadIInv, PassesFollow
<1>3. \A a : Wrote(a)' = Wrote(a)
  <2>1. ASSUME NEW a, NEW l \in Wording(a), NEW i \in DOMAIN Parsed(log[l])
        PROVE  l < pos + 1 \/ (l = pos + 1 /\ i < 1) <=> l < pos \/ (l = pos /\ i < word)
    <3>1. /\ l \in MemoryLines /\ l \in Nat /\ log[l] \in MemoryLine /\ log[l].type = "memory"
          /\ pos \in Nat /\ word \in Nat
      BY Lines DEF ReadIInv, Wording, MemoryLines
    <3>2. i \in Nat /\ i >= 1 /\ i <= Len(Parsed(log[l])) /\ Len(Parsed(log[l])) \in Nat
      BY <3>1, ParsedIs, ParsedType DEF MaxValues
    <3>3. l = pos => i < word
      BY <1>1, <3>1, <3>2
    <3> QED
      BY <3>1, <3>2, <3>3
  <2> QED
    BY <1>1, <2>1, LogStays DEF Wrote, InWord
<1> QED
  BY <1>1, <1>2, <1>3, SecondPassStays

LEMMA SecondPassEndReads ==
  ASSUME ReadIInv, LogIInv', secondPassEnd
  PROVE  ReadIInv'
<1>1. /\ pass = "second" /\ pass' = "done" /\ pos > Len(log)
      /\ UNCHANGED <<log, image, regions, context, pos, word, scan, exception>>
  BY DEF secondPassEnd
<1>2. pos = Len(log) + 1
  BY <1>1, Lines DEF ReadIInv
<1>3. \A a : Wrote(a)' = Wrote(a)
  BY <1>1 DEF Wrote, Wording, MemoryLines, InWord
<1>4. PassesFollow'
  BY <1>1, <1>2 DEF ReadIInv, PassesFollow
<1> QED
  BY <1>1, <1>3, <1>4, SecondPassStays

\* The word that is written next.
LEMMA NextWord ==
  ASSUME ReadIInv, secondPassWrite
  PROVE  /\ pass = "second" /\ pos \in MemoryLines /\ log[pos] \in MemoryLine
         /\ word \in DOMAIN Parsed(log[pos]) /\ word \in 1 .. MaxValues
         /\ Parsed(log[pos])[word] \in WordValue
         /\ WordAddress(log[pos], word) \in Address
<1>1. pass = "second" /\ pos <= Len(log) /\ log[pos].type = "memory" /\ word <= Len(Parsed(log[pos]))
  BY DEF secondPassWrite, Reads
<1>2. pos \in MemoryLines /\ log[pos] \in MemoryLine
  <2>1. pos \in DOMAIN log
    BY <1>1, Lines DEF ReadIInv
  <2> QED
    BY <1>1, <2>1, Lines DEF MemoryLines, ReadIInv
<1>3. Len(Parsed(log[pos])) \in 0 .. 4 /\ DOMAIN Parsed(log[pos]) = 1 .. Len(Parsed(log[pos]))
      /\ word \in 1 .. 5
  BY <1>2, Lines, ParsedType, ParsedIs DEF ReadIInv, MaxValues
<1>4. word \in 1 .. Len(Parsed(log[pos])) /\ word \in 1 .. 4
  <2>1. PICK n \in 0 .. 4 : n = Len(Parsed(log[pos]))
    BY <1>3
  <2>2. word <= n
    BY <1>1, <2>1
  <2>3. word \in 1 .. n /\ word \in 1 .. 4
    BY <1>3, <2>2
  <2> QED
    BY <2>1, <2>3
<1> QED
  BY <1>1, <1>2, <1>3, <1>4, ParsedType, ElementOfSeq, WordsOfLine DEF MaxValues

\* What the second pass has written when it has written another word.
LEMMA WroteWord ==
  ASSUME ReadIInv, LogIInv', secondPassWrite, word' = word + 1,
         UNCHANGED <<log, image, pass, pos>>, NEW a \in Address
  PROVE  /\ ~InWord(pos, word, a) => Wrote(a)' = Wrote(a)
         /\ InWord(pos, word, a) => Wrote(a)' # {} /\ Max(Wrote(a)') = pos
<1>1. /\ pass = "second" /\ pos \in MemoryLines /\ word \in DOMAIN Parsed(log[pos])
      /\ pos \in Nat /\ word \in Nat
  BY NextWord, Lines DEF ReadIInv, MaxValues
<1>2. ASSUME NEW l \in Wording(a), NEW i \in DOMAIN Parsed(log[l])
      PROVE  /\ l \in Nat /\ l >= 1 /\ i \in Nat
             /\ (l < pos \/ (l = pos /\ i < word + 1)) <=>
                  (l < pos \/ (l = pos /\ i < word)) \/ (l = pos /\ i = word)
  <2>1. l \in MemoryLines /\ l \in Nat /\ log[l] \in MemoryLine /\ l >= 1
    BY Lines DEF ReadIInv, Wording
  <2>2. i \in Nat
    BY <2>1, ParsedIs, ParsedType DEF MaxValues
  <2> QED
    BY <1>1, <2>1, <2>2
<1>3. Wrote(a)' = {l \in Wording(a) : \E i \in DOMAIN Parsed(log[l]) :
                     InWord(l, i, a) /\ (l < pos \/ (l = pos /\ i < word + 1))}
  BY <1>1, LogStays DEF Wrote, InWord
<1>4. Wrote(a) = {l \in Wording(a) : \E i \in DOMAIN Parsed(log[l]) :
                    InWord(l, i, a) /\ (l < pos \/ (l = pos /\ i < word))}
  BY <1>1 DEF Wrote
<1>5. ASSUME ~InWord(pos, word, a)
      PROVE  Wrote(a)' = Wrote(a)
  BY <1>2, <1>3, <1>4, <1>5
<1>6. ASSUME InWord(pos, word, a)
      PROVE  Wrote(a)' # {} /\ Max(Wrote(a)') = pos
  <2>1. pos \in Wording(a)
    BY <1>1, <1>6 DEF Wording
  <2>2. pos \in Wrote(a)'
    <3>1. word < word + 1
      BY <1>1
    <3> QED
      BY <1>1, <1>3, <1>6, <2>1, <3>1
  <2>3. \A l \in Wrote(a)' : l \in Nat /\ l >= 1 /\ l <= pos
    <3> TAKE l \in Wrote(a)'
    <3>1. l \in Wording(a) /\ \E i \in DOMAIN Parsed(log[l]) : l < pos \/ l = pos
      BY <1>3
    <3>2. l \in Nat /\ l >= 1
      BY <3>1, Lines DEF ReadIInv, Wording
    <3> QED
      BY <1>1, <3>1, <3>2
  <2> DEFINE S == Wrote(a)' \ {pos}
  <2>4. \A l \in S : l \in 1 .. pos - 1
    BY <1>1, <2>3
  <2>5. Wrote(a)' = S \cup {pos} /\ S \in SUBSET (1 .. pos - 1)
    BY <2>2, <2>4
  <2> HIDE DEF S
  <2> QED
    BY <1>1, <2>5, MaxOnTop
<1> QED
  BY <1>5, <1>6

\* The byte that a line has for an address of one of its words.
LEMMA WordHasByte ==
  ASSUME WordsAreWhole, ReadIInv, NEW l \in MemoryLines, NEW i \in DOMAIN Parsed(log[l]),
         NEW a \in Address, InWord(l, i, a)
  PROVE  ParsedByte(l, a) = Parsed(log[l])[i][a - WordAddress(log[l], i) + 1]
<1>1. log[l] \in MemoryLine /\ log[l].address % WordSize = 0
  BY Lines DEF ReadIInv, WordsAreWhole
<1>2. i \in 1 .. MaxValues
  <2>1. Len(Parsed(log[l])) \in 0 .. 4 /\ i \in 1 .. Len(Parsed(log[l]))
    BY <1>1, ParsedIs, ParsedType DEF MaxValues
  <2> QED
    BY <2>1 DEF MaxValues
<1> DEFINE o == (a - log[l].address) % AddressLimit
<1>3. o \div WordSize + 1 = i /\ o % WordSize = a - WordAddress(log[l], i)
  BY <1>1, <1>2, WholeWords DEF InWord
<1> QED
  BY <1>3 DEF ParsedByte

\* A word is written.
LEMMA SecondPassWriteReads ==
  ASSUME ReadIInv, LogIInv', secondPassWrite,
         IsPermitted(regions, WordAddress(log[pos], word), WordSize, WRITING)
  PROVE  ReadIInv'
<1>1. PICK address, v, found :
        /\ address = WordAddress(log[pos], word) /\ v = Parsed(log[pos])[word]
        /\ found = findMatchingRegion(regions, address, WordSize)
  OBVIOUS
<1>2. /\ pass = "second" /\ pos \in MemoryLines /\ log[pos] \in MemoryLine
      /\ word \in DOMAIN Parsed(log[pos]) /\ word \in 1 .. MaxValues
      /\ v \in [1 .. WordSize -> Byte] /\ address \in Address
  BY <1>1, NextWord DEF WordValue
<1>3. /\ regions' = Overwrite(regions, found, v) /\ word' = word + 1
      /\ UNCHANGED <<log, image, context, pass, pos, scan, exception>>
  BY <1>1 DEF secondPassWrite
<1>4. Matching(regions, address, WordSize) # {}
  BY <1>1 DEF IsPermitted
<1>5. Filled(regions) /\ GoodRegions(regions)
  BY DEF ReadIInv, LogIInv
<1>6. /\ Filled(regions') /\ DOMAIN regions' = DOMAIN regions
      /\ \A i \in DOMAIN regions : /\ regions'[i].baseAddress = regions[i].baseAddress
                                   /\ regions'[i].size = regions[i].size
      /\ \A a, n : Matching(regions', a, n) = Matching(regions, a, n)
  <2>1. found.region \in DOMAIN regions /\ found.address \in Address /\ WordSize \in Nat
    BY <1>1, <1>2, <1>4, <1>5, FindGood DEF WordSize
  <2> QED
    BY <1>2, <1>3, <1>5, <2>1, OverwriteShape
<1>7. PassesFollow'
  BY <1>2, <1>3 DEF ReadIInv, PassesFollow
<1>8. MemoryIsWorded'
  BY <1>3, <1>6, LogStays DEF ReadIInv, MemoryIsWorded, InScan
<1>9. MemoryIsWritten'
  <2>1. ASSUME WordsAreWhole
        PROVE  \A i \in DOMAIN regions' : Whole(regions'[i])
    BY <1>2, <1>6, <2>1 DEF ReadIInv, MemoryIsWritten, Whole
  <2>2. ASSUME WordsAreWhole, NEW a \in Address
        PROVE  (IF Wrote(a) # {}
                THEN /\ Matching(regions, a, ByteSize) # {}
                     /\ ByteOf(regions, a) = ParsedByte(Max(Wrote(a)), a)
                ELSE Matching(image, a, ByteSize) # {} => ByteOf(regions, a) = ByteOf(image, a))'
    <3>1. address % WordSize = 0
      BY <1>1, <1>2, <2>2, WholeWords DEF WordsAreWhole
    <3>2. \A i \in DOMAIN regions : Whole(regions[i])
      BY <1>2, <2>2 DEF ReadIInv, MemoryIsWritten
    <3>3. IF a \in address .. address + WordSize - 1
          THEN Matching(regions, a, ByteSize) # {} /\ ByteOf(regions', a) = v[a - address + 1]
          ELSE Matching(regions, a, ByteSize) # {} => ByteOf(regions', a) = ByteOf(regions, a)
      BY <1>1, <1>2, <1>3, <1>4, <1>5, <3>1, <3>2, WrittenWord
    <3>4. InWord(pos, word, a) <=> a \in address .. address + WordSize - 1
      BY <1>1 DEF InWord
    <3>5. CASE InWord(pos, word, a)
      <4>1. Wrote(a)' # {} /\ Max(Wrote(a)') = pos
        BY <1>3, <3>5, WroteWord
      <4>2. ParsedByte(pos, a) = v[a - address + 1]
        BY <1>1, <1>2, <2>2, <3>5, WordHasByte
      <4>3. ParsedByte(Max(Wrote(a)), a)' = ParsedByte(pos, a)
        BY <1>3, <4>1, LogStays DEF ParsedByte
      <4> QED
        BY <1>6, <3>3, <3>4, <3>5, <4>1, <4>2, <4>3
    <3>6. CASE ~InWord(pos, word, a)
      <4>1. Wrote(a)' = Wrote(a)
        BY <1>3, <3>6, WroteWord
      <4>2. IF Wrote(a) # {}
            THEN /\ Matching(regions, a, ByteSize) # {}
                 /\ ByteOf(regions, a) = ParsedByte(Max(Wrote(a)), a)
            ELSE Matching(image, a, ByteSize) # {} => ByteOf(regions, a) = ByteOf(image, a)
        BY <1>2, <2>2 DEF ReadIInv, MemoryIsWritten
      <4>3. Matching(image, a, ByteSize) # {} => Matching(regions, a, ByteSize) # {}
        BY DEF ReadIInv, MemoryIsWorded
      <4>4. ParsedByte(Max(Wrote(a)), a)' = ParsedByte(Max(Wrote(a)), a)
        BY <1>3, <4>1 DEF ParsedByte
      <4>5. Matching(regions, a, ByteSize) # {} => ByteOf(regions', a) = ByteOf(regions, a)
        BY <3>3, <3>4, <3>6
      <4>6. /\ Matching(image, a, ByteSize)' = Matching(image, a, ByteSize)
            /\ ByteOf(image, a)' = ByteOf(image, a)
            /\ Matching(regions, a, ByteSize)' = Matching(regions, a, ByteSize)
        BY <1>3, <1>6, LogStays
      <4> QED
        BY <4>1, <4>2, <4>3, <4>4, <4>5, <4>6
    <3> QED
      BY <3>5, <3>6
  <2>3. scan' = scan /\ scan = FreshScan
    BY <1>2, <1>3 DEF ReadIInv, PassesFollow
  <2> QED
    BY <1>3, <2>1, <2>2, <2>3, LogStays DEF MemoryIsWritten
<1>10. RegistersFollow'
  <2>1. \A r : ReadLines(r)' = ReadLines(r)
    BY <1>2, <1>3 DEF ReadLines, RegisterLines
  <2>2. \A r \in Register : RegisterFollows(r)' <=> RegisterFollows(r)
    BY <1>3, <2>1 DEF RegisterFollows
  <2> QED
    BY <1>2, <1>3, <2>1, <2>2 DEF ReadIInv, RegistersFollow
<1>11. RoomIsMade'
  <2>1. \A l : (HasRoom(l)' <=> HasRoom(l)) /\ ~WillHaveRoom(l)
    BY <1>2, <1>3, <1>6 DEF HasRoom, WillHaveRoom, Holds
  <2> QED
    BY <1>2, <1>3, <2>1, LogStays DEF ReadIInv, RoomIsMade
<1> QED
  BY <1>2, <1>3, <1>6, <1>7, <1>8, <1>9, <1>10, <1>11
     DEF ReadIInv, SecondPassFits, PassesFollow, noException, busErrorException

\* A word finds no room.
LEMMA NoRoomReads ==
  ASSUME ReadIInv, LogIInv', secondPassWrite,
         ~IsPermitted(regions, WordAddress(log[pos], word), WordSize, WRITING)
  PROVE  ReadIInv'
<1>1. Fail(busErrorException)
  BY DEF secondPassWrite
<1>2. PICK address : address = WordAddress(log[pos], word)
  OBVIOUS
<1>3. /\ pass = "second" /\ pos \in MemoryLines /\ log[pos] \in MemoryLine
      /\ word \in DOMAIN Parsed(log[pos]) /\ word \in 1 .. MaxValues /\ address \in Address
  BY <1>2, NextWord
<1>4. ASSUME StaysBelowTop
      PROVE  /\ ~IsPermitted(image, address, WordSize, WRITING)
             /\ Matching(image, address, WordSize) # {}
  <2>1. PICK s, c, n : s = log[pos].address /\ c = ByteCount(log[pos]) /\ n = Len(Parsed(log[pos]))
    OBVIOUS
  <2>2. /\ n \in 0 .. 4 /\ c = 4 * n /\ word \in 1 .. n /\ word \in 1 .. 4 /\ s \in Address
        /\ DOMAIN Parsed(log[pos]) = 1 .. n
    BY <1>3, <2>1, ParsedType, ParsedIs DEF ByteCount, WordSize, MaxValues, MemoryLine
  <2>3. s \in Nat /\ s < AddressLimit /\ c \in Nat /\ c > 0
    BY <2>2, Limits
  <2>4. s + c < AddressLimit
    <3>1. ~(s + c >= AddressLimit)
      BY <1>3, <1>4, <2>1 DEF StaysBelowTop, ReachesPastTop
    <3> QED
      BY <2>3, <3>1, Limits
  <2>5. address = s + 4 * (word - 1) /\ address >= s /\ address + 4 <= s + c
    <3>1. s + 4 * (word - 1) < AddressLimit /\ s + 4 * (word - 1) >= s
          /\ s + 4 * (word - 1) + 4 <= s + c
      BY <2>2, <2>3, <2>4, Limits
    <3>2. address = s + 4 * (word - 1)
      BY <1>2, <1>3, <2>1, <3>1, WordsOfLine
    <3> QED
      BY <3>1, <3>2
  <2>6. HasRoom(pos)
    BY <1>3, <1>4, <2>1, <2>3 DEF ReadIInv, RoomIsMade, WillHaveRoom
  <2>7. PICK i \in DOMAIN regions : i \notin DOMAIN image /\ Holds(regions[i], s, c)
    BY <2>1, <2>6 DEF HasRoom
  <2>8. /\ DOMAIN regions = 1 .. Len(regions) /\ Len(regions) \in Nat
        /\ \A j \in DOMAIN regions : regions[j] \in MemoryRegion
        /\ \A j \in DOMAIN regions : ~regions[j].isAlias
    BY LenProperties, ElementOfSeq DEF ReadIInv, Filled
  <2>9. Holds(regions[i], address, WordSize)
    <3>1. regions[i].baseAddress \in Nat /\ regions[i].size \in Nat
      BY <2>8, Limits DEF MemoryRegion
    <3> QED
      BY <1>3, <2>3, <2>5, <2>7, <3>1, Limits DEF Holds, WordSize
  <2>10. Matching(regions, address, WordSize) # {}
    BY <2>9 DEF Matching
  <2> DEFINE m == Min(Matching(regions, address, WordSize))
  <2>11. /\ m \in Matching(regions, address, WordSize)
         /\ \A j \in Matching(regions, address, WordSize) : m <= j
         /\ Matching(regions, address, WordSize) \in SUBSET Nat
    <3>1. Matching(regions, address, WordSize) \in SUBSET Nat
      BY <2>8 DEF Matching
    <3> QED
      BY <2>10, <3>1, MinIsLeast
  <2>12. m \in DOMAIN regions /\ regions[m].isReadOnly
    <3>1. findMatchingRegion(regions, address, WordSize).region = m
      BY <2>8, <2>11 DEF findMatchingRegion, Matching
    <3> QED
      BY <1>2, <2>10, <2>11, <3>1 DEF IsPermitted, Matching
  <2> HIDE DEF m
  <2>13. m \in DOMAIN image
    BY <2>12 DEF ReadIInv, LogIInv, AddsRAM
  <2>14. \A j \in DOMAIN image :
           /\ j \in DOMAIN regions
           /\ image[j].baseAddress = regions[j].baseAddress /\ image[j].size = regions[j].size
           /\ image[j].isReadOnly = regions[j].isReadOnly /\ image[j].isAlias = regions[j].isAlias
    <3> TAKE j \in DOMAIN image
    <3>1. image[j] \in MemoryRegion
      BY Lines, ElementOfSeq, LenProperties DEF ReadIInv
    <3>2. j \in DOMAIN regions /\ regions[j] = [image[j] EXCEPT !.pData = regions[j].pData]
      BY DEF ReadIInv, LogIInv, ImageIsKept, KeepsRegions
    <3> QED
      BY <3>1, <3>2 DEF MemoryRegion
  <2>15. Matching(image, address, WordSize)
           = {j \in Matching(regions, address, WordSize) : j \in DOMAIN image}
    BY <2>14 DEF Matching, Holds
  <2>16. m \in Matching(image, address, WordSize)
    BY <2>11, <2>13, <2>15 DEF m
  <2> DEFINE k == Min(Matching(image, address, WordSize))
  <2>17. k \in Matching(image, address, WordSize)
         /\ \A j \in Matching(image, address, WordSize) : k <= j
    <3>1. Matching(image, address, WordSize) \in SUBSET Nat
      BY <2>11, <2>15
    <3> QED
      BY <2>16, <3>1, MinIsLeast
  <2>18. k = m
    <3> HIDE DEF k
    <3>1. k \in Nat /\ m \in Nat /\ k <= m /\ m <= k
      BY <2>11, <2>15, <2>16, <2>17 DEF m
    <3> QED
      BY <3>1
  <2>19. findMatchingRegion(image, address, WordSize).region = m
    BY <2>8, <2>12, <2>13, <2>14, <2>18 DEF findMatchingRegion
  <2> QED
    BY <2>12, <2>13, <2>14, <2>16, <2>19 DEF IsPermitted
<1>5. SecondPassFits'
  <2>1. CASE StaysBelowTop
    BY <1>1, <1>2, <1>4, <2>1 DEF SecondPassFits, Fail
  <2>2. CASE ~StaysBelowTop
    <3>1. \E l \in MemoryLines : ReachesPastTop(l)'
      BY <1>1, <2>2 DEF StaysBelowTop, ReachesPastTop, Fail
    <3> QED
      BY <1>1, <3>1, LogStays DEF SecondPassFits, Fail
  <2> QED
    BY <2>1, <2>2
<1> QED
  BY <1>1, <1>5, FailReads

LEMMA NextReadIInv == ReadIInv /\ LogIInv' /\ [Next]_vars => ReadIInv'
<1> SUFFICES ASSUME ReadIInv, LogIInv', [Next]_vars PROVE ReadIInv'
  OBVIOUS
<1>1. CASE openFileAndThrowOnError
  BY <1>1, OpenReads
<1>2. CASE firstPassMemoryHandler
  BY <1>2, FirstPassMemoryReads
<1>3. CASE firstPassRegisterHandler
  BY <1>3, RegisterReads
<1>4. CASE firstPassOther
  BY <1>4, OtherReads
<1>5. CASE firstPassEnd
  BY <1>5, FirstPassEndReads
<1>6. CASE rewindLogFileAndThrowOnError
  BY <1>6, RewindReads
<1>7. CASE secondPassWrite
  BY <1>7, SecondPassWriteReads, NoRoomReads
<1>8. CASE secondPassNextLine
  BY <1>8, SecondPassNextLineReads
<1>9. CASE secondPassEnd
  BY <1>9, SecondPassEndReads
<1>10. CASE UNCHANGED vars
  <2>1. /\ \A a : Wrote(a)' = Wrote(a)
        /\ \A r : ReadLines(r)' = ReadLines(r)
        /\ \A l : (HasRoom(l)' <=> HasRoom(l)) /\ (WillHaveRoom(l)' <=> WillHaveRoom(l))
    BY <1>10 DEF vars, Wrote, Wording, InWord, MemoryLines, ReadLines, RegisterLines,
                 HasRoom, WillHaveRoom
  <2>2. /\ Filled(regions)' /\ PassesFollow' /\ SecondPassFits'
    BY <1>10 DEF vars, ReadIInv, PassesFollow, SecondPassFits, MemoryLines, ReachesPastTop
  <2>3. MemoryIsWorded'
    BY <1>10, LogStays DEF vars, ReadIInv, MemoryIsWorded, InScan
  <2>4. MemoryIsWritten'
    <3>1. CASE pass = "failed"
      BY <1>10, <3>1 DEF vars, MemoryIsWritten
    <3>2. CASE pass # "failed"
      BY <1>10, <2>1, <3>2, MemoryStays DEF vars
    <3> QED
      BY <3>1, <3>2
  <2>5. RegistersFollow'
    <3>1. \A r \in Register : RegisterFollows(r)' <=> RegisterFollows(r)
      BY <1>10, <2>1 DEF vars, RegisterFollows
    <3> QED
      BY <1>10, <2>1, <3>1 DEF vars, ReadIInv, RegistersFollow
  <2>6. RoomIsMade'
    BY <1>10, <2>1, LogStays DEF vars, ReadIInv, RoomIsMade
  <2> QED
    BY <2>2, <2>3, <2>4, <2>5, <2>6 DEF ReadIInv
<1> QED
  BY <1>1, <1>2, <1>3, <1>4, <1>5, <1>6, <1>7, <1>8, <1>9, <1>10 DEF Next

\* The inductive invariant of what is read holds.
THEOREM ReadIInvHolds == Spec => []ReadIInv
<1>1. Init => ReadIInv
  BY InitReadIInv
<1>2. ReadIInv /\ LogIInv' /\ [Next]_vars => ReadIInv'
  BY NextReadIInv
<1> QED
  BY <1>1, <1>2, LogIInvHolds, PTL DEF Spec

\* The second pass finds no room for a word only where the image is read-only or the
\* log reaches the top of the address space (both handlers of GdbLogParser.c): the
\* first pass has made room for every other word.
THEOREM LogHasRoom == Spec => []SecondPassFits
<1>1. ReadIInv => SecondPassFits
  BY DEF ReadIInv
<1> QED
  BY <1>1, ReadIInvHolds, PTL

(***************************************************************************)
(* What a log that was loaded reads as.                                    *)
(***************************************************************************)

\* The words shown are the first ones of a line.
LEMMA ShowingWords ==
  ASSUME ReadIInv, NEW a \in Address
  PROVE  /\ Showing(a) \subseteq Wording(a)
         /\ \A l \in MemoryLines : PhantomCount(log[l]) = 0 => DOMAIN Shown(log[l]) = DOMAIN Parsed(log[l])
         /\ WordsAreWhole => \A l \in Showing(a) : ParsedByte(l, a) = ShownByte(l, a)
<1>1. ASSUME NEW l \in MemoryLines
      PROVE  /\ log[l] \in MemoryLine
             /\ DOMAIN Shown(log[l]) \subseteq DOMAIN Parsed(log[l])
             /\ PhantomCount(log[l]) = 0 => DOMAIN Shown(log[l]) = DOMAIN Parsed(log[l])
             /\ \A i \in DOMAIN Shown(log[l]) : Parsed(log[l])[i] = log[l].shown[i] /\ i \in 1 .. MaxValues
  <2>1. log[l] \in MemoryLine
    BY Lines DEF ReadIInv
  <2>2. PICK n, p, k : n = Len(Shown(log[l])) /\ p = PhantomCount(log[l]) /\ k = Len(Parsed(log[l]))
    OBVIOUS
  <2>3. /\ n \in 0 .. 4 /\ p \in 0 .. 4 /\ k = n + p
        /\ DOMAIN Shown(log[l]) = 1 .. n /\ DOMAIN Parsed(log[l]) = 1 .. k
        /\ \A i \in 1 .. n : Parsed(log[l])[i] = log[l].shown[i]
    BY <2>1, <2>2, ParsedIs DEF MaxValues
  <2>4. /\ 1 .. n \subseteq 1 .. k /\ 1 .. n \subseteq 1 .. 4
        /\ p = 0 => 1 .. n = 1 .. k
    BY <2>3
  <2> QED
    BY <2>1, <2>2, <2>3, <2>4 DEF MaxValues
<1>2. Showing(a) \subseteq Wording(a)
  BY <1>1 DEF Showing, Wording, InWord
<1>3. ASSUME WordsAreWhole, NEW l \in Showing(a)
      PROVE  ParsedByte(l, a) = ShownByte(l, a)
  <2>1. PICK i \in DOMAIN Shown(log[l]) : InWord(l, i, a)
    BY DEF Showing, InWord
  <2>2. l \in MemoryLines
    BY DEF Showing
  <2>3. Parsed(log[l])[i] = log[l].shown[i] /\ i \in 1 .. MaxValues
        /\ log[l] \in MemoryLine /\ log[l].address % WordSize = 0
    BY <1>1, <1>3, <2>2 DEF WordsAreWhole
  <2> DEFINE o == (a - log[l].address) % AddressLimit
  <2>4. o \div WordSize + 1 = i
    BY <2>1, <2>3, WholeWords DEF InWord
  <2> QED
    BY <2>3, <2>4 DEF ParsedByte, ShownByte
<1> QED
  BY <1>1, <1>2, <1>3

\* At the end every line was written.
LEMMA AllWritten ==
  ASSUME ReadIInv, pass = "done", NEW a \in Address
  PROVE  Wrote(a) = Wording(a)
<1>1. \A l \in Wording(a) : l < pos
  BY Lines DEF ReadIInv, PassesFollow, Wording
<1> QED
  BY <1>1 DEF Wrote, Wording

\* The last line that shows an address.
LEMMA LastShowing ==
  ASSUME ReadIInv, NEW a \in Address, Showing(a) # {}
  PROVE  Max(Showing(a)) \in Showing(a)
<1>1. Len(log) \in Nat
  BY Lines DEF ReadIInv
<1>2. \A l \in Showing(a) : l \in Nat /\ l >= 1 /\ l <= Len(log)
  BY Lines DEF ReadIInv, Showing
<1>3. Showing(a) \in SUBSET (0 .. Len(log))
  BY <1>1, <1>2
<1> QED
  BY <1>1, <1>3, MaxIsGreatest

\* At the end the registers are those of the log.
LEMMA RegistersRead ==
  ASSUME ReadIInv, pass = "done"
  PROVE  RegistersAreRead
<1>1. \A r : ReadLines(r) = RegisterLines(r)
  BY DEF ReadLines
<1> QED
  BY <1>1 DEF ReadIInv, RegistersFollow, RegisterFollows, RegistersAreRead

\* A log for which parseMemoryLine makes up no word has become, when it was loaded,
\* the memory and the registers it shows, the last line that shows a byte or a
\* register counting, and no address that it does not show has appeared (GdbLogParse).
THEOREM WholeLogIsLoaded == Spec => []WholeLogIsRead
<1>1. ReadIInv => WholeLogIsRead
  <2> SUFFICES ASSUME ReadIInv, WordsAreWhole, \A l \in MemoryLines : PhantomCount(log[l]) = 0,
                      pass = "done", NEW a \in Address
               PROVE  IF Showing(a) # {} THEN ReadsAsShown(a) ELSE ReadsAsBefore(a)
    BY RegistersRead DEF WholeLogIsRead, LogIsRead
  <2>1. Showing(a) = Wording(a)
    BY ShowingWords DEF Showing, Wording, InWord
  <2>2. Wrote(a) = Wording(a)
    BY AllWritten
  <2>3. IF Wrote(a) # {}
        THEN /\ Matching(regions, a, ByteSize) # {}
             /\ ByteOf(regions, a) = ParsedByte(Max(Wrote(a)), a)
        ELSE Matching(image, a, ByteSize) # {} => ByteOf(regions, a) = ByteOf(image, a)
    BY DEF ReadIInv, MemoryIsWritten
  <2>4. /\ Matching(regions, a, ByteSize) # {} =>
             Matching(image, a, ByteSize) # {} \/ Wording(a) # {}
        /\ Matching(image, a, ByteSize) # {} => Matching(regions, a, ByteSize) # {}
    BY DEF ReadIInv, MemoryIsWorded
  <2>5. CASE Showing(a) # {}
    <3>1. Max(Showing(a)) \in Showing(a)
      BY <2>5, LastShowing
    <3> QED
      BY <2>1, <2>2, <2>3, <2>5, <3>1, ShowingWords DEF ReadsAsShown
  <2>6. CASE Showing(a) = {}
    BY <2>1, <2>2, <2>3, <2>4, <2>6 DEF ReadsAsBefore
  <2> QED
    BY <2>5, <2>6
<1> QED
  BY <1>1, ReadIInvHolds, PTL

\* Where a word is that does not reach the top of the address space.
LEMMA LowWord ==
  ASSUME ReadIInv, NEW l \in MemoryLines, ~ReachesPastTop(l),
         NEW i \in DOMAIN Parsed(log[l]), NEW a \in Address, InWord(l, i, a)
  PROVE  /\ log[l].address \in Nat /\ i \in Nat
         /\ a >= log[l].address /\ a < log[l].address + WordSize * i
<1>1. PICK s, c, n : s = log[l].address /\ c = ByteCount(log[l]) /\ n = Len(Parsed(log[l]))
  OBVIOUS
<1>2. log[l] \in MemoryLine
  BY Lines DEF ReadIInv
<1>3. /\ n \in 0 .. 4 /\ c = 4 * n /\ i \in 1 .. n /\ i \in 1 .. 4 /\ s \in Address
  BY <1>1, <1>2, ParsedType, ParsedIs DEF ByteCount, WordSize, MaxValues, MemoryLine
<1>4. s \in Nat /\ s < AddressLimit /\ c \in Nat /\ a \in Nat
  BY <1>3, Limits
<1>5. s + c < AddressLimit
  <2>1. ~(s + c >= AddressLimit)
    BY <1>1 DEF ReachesPastTop
  <2> QED
    BY <1>4, <2>1, Limits
<1>6. s + 4 * (i - 1) < AddressLimit
  BY <1>3, <1>4, <1>5, Limits
<1>7. WordAddress(log[l], i) = s + 4 * (i - 1)
  BY <1>1, <1>2, <1>3, <1>6, WordsOfLine DEF MaxValues
<1>8. a >= s + 4 * (i - 1) /\ a <= s + 4 * (i - 1) + 3
  BY <1>3, <1>4, <1>7 DEF InWord, WordSize
<1> QED
  BY <1>1, <1>3, <1>4, <1>8 DEF WordSize

\* Where the lines of a log ascend, no word that parseMemoryLine makes up hides one
\* that is shown: the line below writes it later (GdbLogParse, second pass).
THEOREM AscendingLogIsLoaded == Spec => []AscendingLogIsRead
<1>1. ReadIInv => AscendingLogIsRead
  <2> SUFFICES ASSUME ReadIInv, WordsAreWhole, Ascending, pass = "done",
                      \A l \in MemoryLines : ~ReachesPastTop(l),
                      NEW a \in Address, Showing(a) # {}
               PROVE  ReadsAsShown(a)
    BY DEF AscendingLogIsRead
  <2> DEFINE s == Max(Showing(a))
             m == Max(Wording(a))
  <2>1. Showing(a) \subseteq Wording(a) /\ Wrote(a) = Wording(a)
    BY AllWritten, ShowingWords
  <2>2. /\ Matching(regions, a, ByteSize) # {}
        /\ ByteOf(regions, a) = ParsedByte(m, a)
    BY <2>1 DEF ReadIInv, MemoryIsWritten
  <2>3. s \in Showing(a)
    BY LastShowing
  <2>4. m \in Wording(a) /\ \A l \in Wording(a) : m >= l
    <3>1. Len(log) \in Nat /\ \A l \in Wording(a) : l \in Nat /\ l >= 1 /\ l <= Len(log)
      BY Lines DEF ReadIInv, Wording
    <3>2. Wording(a) \in SUBSET (0 .. Len(log)) /\ Wording(a) # {}
      BY <2>1, <3>1
    <3> QED
      BY <3>1, <3>2, MaxIsGreatest
  <2>5. s = m
    <3> HIDE DEF s, m
    <3>1. s \in MemoryLines /\ m \in MemoryLines /\ m >= s
      BY <2>1, <2>3, <2>4 DEF Wording
    <3>2. PICK i \in DOMAIN Shown(log[s]) : InWord(s, i, a)
      BY <2>3 DEF Showing, InWord
    <3>3. PICK j \in DOMAIN Parsed(log[m]) : InWord(m, j, a)
      BY <2>4 DEF Wording
    <3>4. /\ i \in DOMAIN Parsed(log[s])
          /\ Len(Shown(log[s])) \in Nat /\ i <= Len(Shown(log[s]))
      <4>1. PICK n, p, k :
              n = Len(Shown(log[s])) /\ p = PhantomCount(log[s]) /\ k = Len(Parsed(log[s]))
        OBVIOUS
      <4>2. log[s] \in MemoryLine
        BY <3>1, Lines DEF ReadIInv
      <4>3. /\ n \in 0 .. 4 /\ p \in 0 .. 4 /\ k = n + p /\ i \in 1 .. n
            /\ DOMAIN Parsed(log[s]) = 1 .. k
        BY <3>2, <4>1, <4>2, ParsedIs DEF MaxValues
      <4>4. i \in 1 .. k /\ i <= n /\ n \in Nat
        BY <4>3
      <4> QED
        BY <4>1, <4>3, <4>4
    <3>5. /\ log[s].address \in Nat /\ i \in Nat /\ a < log[s].address + WordSize * i
          /\ log[m].address \in Nat /\ a >= log[m].address
      BY <3>1, <3>2, <3>3, <3>4, LowWord
    <3>6. s < m => log[s].address + WordSize * Len(Shown(log[s])) <= log[m].address
      BY <3>1 DEF Ascending
    <3>7. PICK n \in Nat : n = Len(Shown(log[s]))
      BY <3>4
    <3>8. s \in Nat /\ m \in Nat /\ a \in Nat
      BY <3>1, Lines, Limits DEF ReadIInv
    <3>9. ~(s < m)
      BY <3>4, <3>5, <3>6, <3>7, <3>8 DEF WordSize
    <3> QED
      BY <3>1, <3>8, <3>9
  <2>6. ParsedByte(s, a) = ShownByte(s, a)
    BY <2>3, ShowingWords
  <2> QED
    BY <2>2, <2>5, <2>6 DEF ReadsAsShown
<1> QED
  BY <1>1, ReadIInvHolds, PTL
=============================================================================
