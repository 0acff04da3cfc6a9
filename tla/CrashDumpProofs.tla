--------------------------- MODULE CrashDumpProofs ---------------------------
(***************************************************************************)
(* Whatever dump is loaded on top of whatever image, wherever it is cut    *)
(* and whichever step fails: types are kept, nothing is read beyond the    *)
(* end of the file, and the image is kept; every step is one that a dump   *)
(* loader may make; and memory and registers follow the file, read by      *)
(* read, so that a loaded dump is what the file holds.                     *)
(***************************************************************************)
EXTENDS CrashDump, MemoryRegionsProofs

DumpIInv ==
  /\ dump \in Dumps /\ image \in Images
  /\ DumpTypeOK
  /\ stage = "data" => block \in DOMAIN dump.blocks
  /\ GoodRegions(regions)
  /\ ImageIsKept

(***************************************************************************)
(* Reading.                                                                *)
(***************************************************************************)

\* The types of the file.
LEMMA DumpType ==
  ASSUME dump \in Dumps
  PROVE  /\ dump \in Dump
         /\ dump.length \in Nat /\ dump.bad \in Nat
         /\ Len(dump.blocks) \in Nat /\ DOMAIN dump.blocks = 1 .. Len(dump.blocks)
         /\ \A i \in DOMAIN dump.blocks :
              /\ dump.blocks[i] \in Block
              /\ Len(dump.blocks[i].data) = BytesInRegion(dump.blocks[i])
         /\ Len(dump.R) = IntegerCount(dump)
         /\ \A i \in 1 .. IntegerCount(dump) : dump.R[i] \in Value
         /\ \A i \in 1 .. FloatCount : dump.FPR[i] \in Value
<1>1. dump \in Dump
  BY DumpAssumption
<1>2. dump.blocks \in Seq(Block) /\ dump.R \in Seq(Value) /\ dump.FPR \in Seq(Value)
  BY <1>1 DEF Dump
<1>3. dump.length \in Nat /\ dump.bad \in Nat
  BY <1>1 DEF Dump
<1>4. Len(dump.R) = IntegerCount(dump) /\ Len(dump.FPR) = FloatCount
      /\ \A i \in DOMAIN dump.blocks :
           Len(dump.blocks[i].data) = BytesInRegion(dump.blocks[i])
  BY ShapeAssumption
<1>5. Len(dump.blocks) \in Nat /\ DOMAIN dump.blocks = 1 .. Len(dump.blocks)
  BY <1>2, LenProperties
<1> QED
  BY <1>1, <1>2, <1>3, <1>4, <1>5, ElementOfSeq

\* The regions of a file follow each other.
LEMMA BlocksFollow ==
  ASSUME NEW d \in Dumps
  PROVE  /\ RegistersEnd(d) \in Nat
         /\ \A k \in 0 .. Len(d.blocks) : BlocksEnd(d, k) \in Nat
         /\ BlocksEnd(d, 0) = RegistersEnd(d)
         /\ \A k \in 1 .. Len(d.blocks) :
              BlocksEnd(d, k) = BlocksEnd(d, k - 1) + HeaderSize + Len(d.blocks[k].data)
<1> DEFINE n == Len(d.blocks)
           w == [k \in 1 .. n |-> HeaderSize + Len(d.blocks[k].data)]
           start == CHOOSE start : start = [k \in 1 .. n + 1 |->
                      IF k = 1 THEN RegistersEnd(d)
                      ELSE start[k - 1] + HeaderSize + Len(d.blocks[k - 1].data)]
<1>1. n \in Nat /\ \A k \in 1 .. n : Len(d.blocks[k].data) \in Nat
  <2>1. n \in Nat
    BY DumpAssumption, LenProperties DEF Dump
  <2>2. \A k \in 1 .. n : d.blocks[k] \in Block
    BY DumpAssumption, ElementOfSeq DEF Dump
  <2> QED
    BY <2>1, <2>2, LenProperties DEF Block
<1>2. RegistersEnd(d) \in Nat
  <2>1. IntegerCount(d) \in Nat
    <3>1. RegisterCount \in Nat /\ RegisterCount >= 2
      BY CountAssumption
    <3>2. IntegerCount(d) = RegisterCount \/ IntegerCount(d) = RegisterCount - 2
      BY DEF IntegerCount
    <3> QED
      BY <3>1, <3>2
  <2>2. (IF d.float THEN FloatCount ELSE 0) \in Nat
    BY CountAssumption
  <2> QED
    BY <2>1, <2>2 DEF RegistersEnd, WordSize
<1>3. w \in [1 .. n -> Nat]
  BY <1>1 DEF HeaderSize, WordSize
<1>4. PICK g : SumsOf(g, n, RegistersEnd(d), w)
  <2>1. n \in Nat
    BY <1>1
  <2> HIDE DEF n, w
  <2> QED
    BY <2>1, <1>2, <1>3, RunningSum
<1>4a. /\ g \in [1 .. n + 1 -> Nat]
      /\ \A k \in 1 .. n + 1 : g[k] = IF k = 1 THEN RegistersEnd(d) ELSE g[k - 1] + w[k - 1]
  BY <1>4 DEF SumsOf
<1>5. \A k \in 1 .. n + 1 :
        g[k] = IF k = 1 THEN RegistersEnd(d)
               ELSE g[k - 1] + HeaderSize + Len(d.blocks[k - 1].data)
  <2> TAKE k \in 1 .. n + 1
  <2>1. CASE k = 1
    BY <1>4a, <2>1
  <2>2. CASE k # 1
    <3>1. k - 1 \in 1 .. n
      BY <1>1, <2>2
    <3>2. g[k] = g[k - 1] + (HeaderSize + Len(d.blocks[k - 1].data))
      BY <1>4a, <2>2, <3>1
    <3>3. HeaderSize \in Nat /\ Len(d.blocks[k - 1].data) \in Nat
      BY <1>1, <3>1 DEF HeaderSize, WordSize
    <3>4. k - 1 \in 1 .. n + 1
      BY <1>1, <3>1
    <3>5. g[k - 1] \in Nat
      BY <1>4a, <3>4
    <3> HIDE DEF n, w
    <3> QED
      BY <2>2, <3>2, <3>3, <3>5
  <2> QED
    BY <2>1, <2>2
<1>6. g = [k \in 1 .. n + 1 |-> IF k = 1 THEN RegistersEnd(d)
                               ELSE g[k - 1] + HeaderSize + Len(d.blocks[k - 1].data)]
  BY <1>5, <1>4a
<1>7. start = [k \in 1 .. n + 1 |-> IF k = 1 THEN RegistersEnd(d)
                                   ELSE start[k - 1] + HeaderSize + Len(d.blocks[k - 1].data)]
  BY <1>6
<1>8. \A k : BlocksEnd(d, k) = start[k + 1]
  BY DEF BlocksEnd
<1> HIDE DEF start, w
<1>9. /\ start[1] = RegistersEnd(d)
      /\ \A k \in 1 .. n : start[k + 1] = start[k] + HeaderSize + Len(d.blocks[k].data)
  <2>1. 1 \in 1 .. n + 1 /\ \A k \in 1 .. n : k + 1 \in 1 .. n + 1 /\ k + 1 # 1
                                         /\ k + 1 - 1 = k
    BY <1>1
  <2> QED
    BY <1>7, <2>1
<1> DEFINE S == {k \in Nat : k <= n => start[k + 1] \in Nat}
<1>10. 0 \in S
  BY <1>2, <1>9
<1>11. ASSUME NEW k \in Nat, k \in S
       PROVE  k + 1 \in S
  <2>1. SUFFICES ASSUME k + 1 <= n
                 PROVE  start[k + 1 + 1] \in Nat
    OBVIOUS
  <2>2. k + 1 \in 1 .. n /\ start[k + 1] \in Nat
    BY <1>1, <1>11, <2>1
  <2>3. start[k + 1 + 1] = start[k + 1] + HeaderSize + Len(d.blocks[k + 1].data)
    BY <1>9, <2>2
  <2> QED
    BY <1>1, <2>2, <2>3 DEF HeaderSize, WordSize
<1>12. \A k \in Nat : k \in S
  BY <1>10, <1>11, SetInduction
<1>13. \A k \in 0 .. n : start[k + 1] \in Nat
  BY <1>1, <1>12
<1>14. BlocksEnd(d, 0) = RegistersEnd(d)
  BY <1>8, <1>9
<1>15. ASSUME NEW k \in 1 .. n
       PROVE  BlocksEnd(d, k) = BlocksEnd(d, k - 1) + HeaderSize + Len(d.blocks[k].data)
  <2>1. BlocksEnd(d, k - 1) = start[k]
    <3>1. k - 1 + 1 = k
      BY <1>1
    <3> QED
      BY <1>8, <3>1
  <2> QED
    BY <1>8, <1>9, <2>1
<1> QED
  BY <1>2, <1>8, <1>13, <1>14, <1>15

\* A read stores no more than it is asked for, and no more than is left.
LEMMA ReadBounds ==
  ASSUME dump \in Dumps, offset \in 0 .. dump.length, NEW n \in Nat
  PROVE  /\ Read(n) \in Nat /\ Read(n) <= n
         /\ offset + Read(n) \in 0 .. dump.length
<1>1. dump.length \in Nat /\ dump.bad \in Nat /\ offset \in Nat /\ Left \in Nat
  BY DumpType DEF Left
<1>2. Got(n) \in Nat /\ Got(n) <= n /\ Got(n) <= Left
  BY <1>1 DEF Got
<1>3. Read(n) \in Nat /\ Read(n) <= Got(n)
  BY <1>1, <1>2 DEF Read, MeetsBad
<1> QED
  BY <1>1, <1>2, <1>3 DEF Left

\* Replacing registers by those of the file keeps their type.
LEMMA ReplacedType ==
  ASSUME NEW count \in Nat, NEW old \in [1 .. count -> Value], NEW new, NEW n \in Nat,
         \A i \in 1 .. n : i <= count => new[i] \in Value
  PROVE  Replaced(old, new, n) \in [1 .. count -> Value]
  BY DEF Replaced

\* Giving up leaves everything but the outcome as it is.
LEMMA FailKeeps ==
  ASSUME DumpIInv,
         NEW e \in {fileException, fileFormatException, stackOverflowException,
                    outOfMemoryException, busErrorException},
         Fail(e), offset' \in 0 .. dump.length,
         context' \in [float : BOOLEAN, R : [1 .. RegisterCount -> Value],
                       exceptionPSR : Value, FPR : [1 .. FloatCount -> Value]]
  PROVE  DumpIInv'
  BY DEF DumpIInv, DumpTypeOK, ImageIsKept, Fail

\* Reading a part of the context.
LEMMA ReadsContextKeeps ==
  ASSUME DumpIInv, NEW n \in Nat, NEW new, NEW next, ReadsContext(n, new, next),
         new \in [float : BOOLEAN, R : [1 .. RegisterCount -> Value],
                  exceptionPSR : Value, FPR : [1 .. FloatCount -> Value]],
         next \in {"integer registers", "exception PSR", "float registers", "region"}
  PROVE  DumpIInv'
<1>1. offset + Read(n) \in 0 .. dump.length
  BY ReadBounds DEF DumpIInv, DumpTypeOK
<1>2. CASE ReadsAll(n)
  BY <1>1, <1>2 DEF ReadsContext, DumpIInv, DumpTypeOK, ImageIsKept
<1>3. CASE ~ReadsAll(n)
  BY <1>1, <1>3, FailKeeps DEF ReadsContext
<1> QED
  BY <1>2, <1>3

(***************************************************************************)
(* The invariant.                                                          *)
(***************************************************************************)

LEMMA InitDumpIInv == Init => DumpIInv
<1> SUFFICES ASSUME Init PROVE DumpIInv
  OBVIOUS
<1>1. image \in Seq(MemoryRegion)
  BY DumpAssumption DEF Init
<1>2. dump.length \in Nat /\ Len(dump.blocks) \in Nat
  BY DumpType DEF Init
<1>3. GoodRegions(regions)
  BY <1>1, ImageAssumption, EmptyOrdered DEF Init, GoodRegions, Redirects
<1>4. ImageIsKept
  <2>1. \A i \in DOMAIN image : image[i] = [image[i] EXCEPT !.pData = image[i].pData]
    <3> TAKE i \in DOMAIN image
    <3>1. image[i] \in MemoryRegion
      BY <1>1, ElementOfSeq, LenProperties
    <3> QED
      BY <3>1 DEF MemoryRegion
  <2> QED
    BY <2>1 DEF ImageIsKept, KeepsRegions, Init
<1>5. DumpTypeOK
  <2>1. context \in [float : BOOLEAN, R : [1 .. RegisterCount -> Value],
                     exceptionPSR : Value, FPR : [1 .. FloatCount -> Value]]
    BY DumpAssumption DEF Init
  <2> QED
    BY <1>1, <1>2, <2>1 DEF Init, DumpTypeOK
<1> QED
  BY <1>3, <1>4, <1>5 DEF DumpIInv, Init

LEMMA IntegerRegistersKeep ==
  ASSUME DumpIInv, readIntegerRegisters
  PROVE  DumpIInv'
<1> DEFINE n   == WordSize * IntegerCount(dump)
           R   == Replaced(StackPointers(context.R), dump.R, Read(n) \div WordSize)
           new == [context EXCEPT !.R = R]
<1>1. RegisterCount \in Nat /\ IntegerCount(dump) \in Nat /\ IntegerCount(dump) <= RegisterCount
  <2>1. RegisterCount \in Nat /\ RegisterCount >= 2
    BY CountAssumption
  <2>2. IntegerCount(dump) = RegisterCount \/ IntegerCount(dump) = RegisterCount - 2
    BY DEF IntegerCount
  <2> QED
    BY <2>1, <2>2
<1>2. n \in Nat
  BY <1>1 DEF WordSize
<1>3. Read(n) \in Nat /\ Read(n) <= n
  BY <1>2, ReadBounds DEF DumpIInv, DumpTypeOK
<1>4. Read(n) \div WordSize \in Nat /\ Read(n) \div WordSize <= IntegerCount(dump)
  BY <1>1, <1>3 DEF WordSize
<1>5. StackPointers(context.R) \in [1 .. RegisterCount -> Value]
  BY DumpAssumption DEF StackPointers, DumpIInv, DumpTypeOK
<1>6. \A i \in 1 .. Read(n) \div WordSize : dump.R[i] \in Value
  BY <1>1, <1>4, DumpType DEF DumpIInv
<1>7. R \in [1 .. RegisterCount -> Value]
  BY <1>1, <1>4, <1>5, <1>6, ReplacedType
<1> HIDE DEF R
<1>8. new \in [float : BOOLEAN, R : [1 .. RegisterCount -> Value], exceptionPSR : Value,
               FPR : [1 .. FloatCount -> Value]]
  BY <1>7 DEF DumpIInv, DumpTypeOK
<1>9. ReadsContext(n, new, "exception PSR")
  BY DEF readIntegerRegisters, R
<1> QED
  BY <1>2, <1>8, <1>9, ReadsContextKeeps

LEMMA FloatRegistersKeep ==
  ASSUME DumpIInv, readFloatingPointRegisters
  PROVE  DumpIInv'
<1> DEFINE n   == WordSize * FloatCount
           F   == Replaced(context.FPR, dump.FPR, Read(n) \div WordSize)
           new == [context EXCEPT !.FPR = F]
<1>1. CASE ~context.float
  BY <1>1 DEF readFloatingPointRegisters, DumpIInv, DumpTypeOK, ImageIsKept
<1>2. CASE context.float
  <2>1. FloatCount \in Nat /\ n \in Nat
    BY CountAssumption DEF WordSize
  <2>2. Read(n) \in Nat /\ Read(n) <= n
    BY <2>1, ReadBounds DEF DumpIInv, DumpTypeOK
  <2>3. Read(n) \div WordSize \in Nat /\ Read(n) \div WordSize <= FloatCount
    BY <2>1, <2>2 DEF WordSize
  <2>4. \A i \in 1 .. Read(n) \div WordSize : dump.FPR[i] \in Value
    BY <2>1, <2>3, DumpType DEF DumpIInv
  <2>5. F \in [1 .. FloatCount -> Value]
    BY <2>1, <2>3, <2>4, ReplacedType DEF DumpIInv, DumpTypeOK
  <2> HIDE DEF F
  <2>6. new \in [float : BOOLEAN, R : [1 .. RegisterCount -> Value], exceptionPSR : Value,
                 FPR : [1 .. FloatCount -> Value]]
    BY <2>5 DEF DumpIInv, DumpTypeOK
  <2>7. ReadsContext(n, new, "region")
    BY <1>2 DEF readFloatingPointRegisters, F
  <2> QED
    BY <2>1, <2>6, <2>7, ReadsContextKeeps
<1> QED
  BY <1>1, <1>2

LEMMA CreateRegionKeeps ==
  ASSUME DumpIInv, createMemoryRegion
  PROVE  DumpIInv'
<1> DEFINE b == dump.blocks[block]
           created(mallocOk) == CreateRegion(regions, b.startAddress, BytesInRegion(b), mallocOk)
<1>1. b \in Block /\ offset' \in 0 .. dump.length
  <2>1. b \in Block
    BY DumpType DEF createMemoryRegion, DumpIInv
  <2>2. HeaderSize \in Nat
    BY DEF HeaderSize, WordSize
  <2>3. offset' = offset + Read(HeaderSize)
    BY DEF createMemoryRegion, ReadsHeader
  <2>4. offset + Read(HeaderSize) \in 0 .. dump.length
    BY <2>2, ReadBounds DEF DumpIInv, DumpTypeOK
  <2> QED
    BY <2>1, <2>3, <2>4
<1>2. b.startAddress \in Address /\ BytesInRegion(b) \in Address
  <2>1. \A k \in Int : k % AddressLimit \in Address
    BY AddressLimitAssumption DEF Address
  <2>2. b.startAddress \in Address /\ b.endAddress - b.startAddress \in Int
    BY <1>1, AddressLimitAssumption DEF Block, Address
  <2> QED
    BY <2>1, <2>2 DEF BytesInRegion
<1>3. PICK mallocOk \in MallocOutcomes :
        \/ /\ created(mallocOk).exception = noException
           /\ regions' = created(mallocOk).regions
           /\ stage' = "data"
           /\ byte' = 1
           /\ UNCHANGED <<dump, image, block, exception>>
        \/ /\ created(mallocOk).exception # noException
           /\ Fail(created(mallocOk).exception)
  BY DEF createMemoryRegion
<1> DEFINE result == created(mallocOk)
<1>4. /\ GoodRegions(result.regions)
      /\ KeepsRegions(image, result.regions)
      /\ result.exception \in {noException, outOfMemoryException}
  <2>1. mallocOk \in BOOLEAN
    BY DumpAssumption
  <2>2. GoodRegions(result.regions)
    BY <1>2, <2>1, CreateRegionGood DEF DumpIInv
  <2>3. KeepsRegions(image, result.regions)
    BY CreateKeepsRegions DEF DumpIInv, ImageIsKept, GoodRegions
  <2>4. result.exception \in {noException, outOfMemoryException}
    BY DEF CreateRegion, Returns, Throws
  <2> QED
    BY <2>2, <2>3, <2>4
<1> HIDE DEF b, created
<1>5. CASE result.exception = noException
  <2>1. /\ regions' = result.regions /\ stage' = "data" /\ byte' = 1
        /\ UNCHANGED <<dump, image, context, block, exception>>
    BY <1>3, <1>5, <1>4 DEF createMemoryRegion, ReadsHeader
  <2>2. GoodRegions(regions') /\ KeepsRegions(image, regions')
    BY <1>4, <2>1
  <2>3. block \in DOMAIN dump.blocks
    BY DEF createMemoryRegion
  <2>4. 1 \in Nat \ {0}
    OBVIOUS
  <2> QED
    BY <1>1, <2>1, <2>2, <2>3, <2>4 DEF DumpIInv, DumpTypeOK, ImageIsKept, GoodRegions, Redirects
<1>6. CASE result.exception # noException
  <2>1. Fail(result.exception) /\ UNCHANGED context
    BY <1>3, <1>6 DEF createMemoryRegion, ReadsHeader
  <2> QED
    BY <1>1, <1>4, <1>6, <2>1, FailKeeps DEF DumpIInv, DumpTypeOK
<1> QED
  BY <1>5, <1>6

LEMMA LoadByteKeeps ==
  ASSUME DumpIInv, loadByte
  PROVE  DumpIInv'
<1> DEFINE b       == dump.blocks[block]
           address == ByteAddress(b, byte)
           found   == findMatchingRegion(regions, address, ByteSize)
           bytes   == <<b.data[byte]>>
<1>1. b \in Block /\ Len(b.data) = BytesInRegion(b)
  BY DumpType DEF loadByte, ReadsData, DumpIInv
<1>2. byte \in Nat \ {0} /\ byte <= Len(b.data)
  BY <1>1 DEF loadByte, ReadsData, DumpIInv, DumpTypeOK
<1>3. b.data[byte] \in Byte
  <2>1. b.data \in Seq(Byte)
    BY <1>1 DEF Block
  <2>2. byte \in 1 .. Len(b.data)
    BY <1>2, <2>1, LenProperties
  <2> QED
    BY <2>1, <2>2, ElementOfSeq
<1>4. address \in Address
  <2>1. \A k \in Int : k % AddressLimit \in Address
    BY AddressLimitAssumption DEF Address
  <2>2. b.startAddress + byte - 1 \in Int
    BY <1>1, <1>2, AddressLimitAssumption DEF Block, Address
  <2> QED
    BY <2>1, <2>2 DEF ByteAddress
<1>5. offset' \in 0 .. dump.length
  <2>1. Read(ByteSize) = ByteSize /\ offset' = offset + 1
    BY DEF loadByte, ReadsAll
  <2> QED
    BY <2>1, ReadBounds DEF DumpIInv, DumpTypeOK, ByteSize
<1> HIDE DEF b, address
<1>6. CASE ~IsPermitted(regions, address, ByteSize, WRITING)
  BY <1>5, <1>6, FailKeeps DEF loadByte, DumpIInv, DumpTypeOK, address, b
<1>7. CASE IsPermitted(regions, address, ByteSize, WRITING)
  <2>1. /\ regions' = Overwrite(regions, found, bytes)
        /\ byte' = byte + 1
        /\ UNCHANGED <<dump, image, context, stage, block, exception>>
    BY <1>7 DEF loadByte, address, b
  <2>2. /\ found.address \in Address /\ found.region \in DOMAIN regions
        /\ ~regions[found.region].isReadOnly
    BY <1>4, <1>7, FindGood DEF IsPermitted, DumpIInv
  <2>3. image \in Seq(MemoryRegion) /\ bytes \in [1 .. 1 -> Byte] /\ 1 \in Nat
    BY <1>3, DumpAssumption DEF DumpIInv
  <2> HIDE DEF found, bytes
  <2>4. GoodRegions(regions')
    BY <2>1, <2>2, <2>3, OverwriteGood DEF DumpIInv
  <2>5. KeepsRegions(image, regions')
    BY <2>1, <2>2, <2>3, OverwriteKeepsRegions DEF DumpIInv, ImageIsKept
  <2>6. byte' \in Nat \ {0}
    BY <1>2, <2>1
  <2> QED
    BY <1>5, <2>1, <2>4, <2>5, <2>6 DEF DumpIInv, DumpTypeOK, ImageIsKept, GoodRegions, Redirects
<1> QED
  BY <1>6, <1>7

LEMMA NextDumpIInv == DumpIInv /\ [Next]_vars => DumpIInv'
<1> SUFFICES ASSUME DumpIInv, [Next]_vars PROVE DumpIInv'
  OBVIOUS
<1> USE DEF DumpIInv
<1>a. dump.length \in Nat /\ offset \in 0 .. dump.length
  BY DumpType DEF DumpTypeOK
<1>b. WordSize \in Nat /\ HeaderSize \in Nat /\ ByteSize \in Nat
  BY DEF WordSize, HeaderSize, ByteSize
<1>c. \A n \in Nat : offset + Read(n) \in 0 .. dump.length
  BY <1>a, ReadBounds
<1>d. context \in [float : BOOLEAN, R : [1 .. RegisterCount -> Value], exceptionPSR : Value,
                   FPR : [1 .. FloatCount -> Value]]
  BY DEF DumpTypeOK
<1>1. CASE openFileAndThrowOnError
  BY <1>1, <1>a, FailKeeps DEF openFileAndThrowOnError, DumpTypeOK, ImageIsKept
<1>2. CASE validateDumpSignature
  <2>1. offset' \in 0 .. dump.length /\ UNCHANGED context
    BY <1>2, <1>b, <1>c DEF validateDumpSignature
  <2>2. CASE Fail(fileFormatException)
    BY <2>1, <2>2, <1>d, FailKeeps
  <2>3. CASE stage' = "flags" /\ UNCHANGED <<dump, image, regions, block, byte, exception>>
    BY <2>1, <2>3 DEF DumpTypeOK, ImageIsKept
  <2> QED
    BY <1>2, <2>2, <2>3 DEF validateDumpSignature
<1>3. CASE readFlags
  <2>1. dump.float \in BOOLEAN
    BY DumpType DEF Dump
  <2> DEFINE new == IF ReadsAll(WordSize) THEN [context EXCEPT !.float = dump.float] ELSE context
  <2>2. new \in [float : BOOLEAN, R : [1 .. RegisterCount -> Value], exceptionPSR : Value,
                 FPR : [1 .. FloatCount -> Value]]
    BY <1>d, <2>1
  <2>3. ReadsContext(WordSize, new, "integer registers")
    BY <1>3 DEF readFlags
  <2> HIDE DEF new
  <2> QED
    BY <1>b, <2>2, <2>3, ReadsContextKeeps
<1>4. CASE readIntegerRegisters
  BY <1>4, IntegerRegistersKeep
<1>5. CASE readExceptionPSR
  <2>1. dump.exceptionPSR \in Value
    BY DumpType DEF Dump
  <2> DEFINE new == IF ReadsAll(WordSize)
                    THEN [context EXCEPT !.exceptionPSR = dump.exceptionPSR] ELSE context
  <2>2. new \in [float : BOOLEAN, R : [1 .. RegisterCount -> Value], exceptionPSR : Value,
                 FPR : [1 .. FloatCount -> Value]]
    BY <1>d, <2>1
  <2>3. ReadsContext(WordSize, new, "float registers")
    BY <1>5 DEF readExceptionPSR
  <2> HIDE DEF new
  <2> QED
    BY <1>b, <2>2, <2>3, ReadsContextKeeps
<1>6. CASE readFloatingPointRegisters
  BY <1>6, FloatRegistersKeep
<1>7. CASE readSentinel
  BY <1>7, <1>b, <1>c, <1>d, FailKeeps DEF readSentinel, ReadsHeader
<1>8. CASE readEnd
  BY <1>8, <1>b, <1>c DEF readEnd, ReadsHeader, DumpTypeOK, ImageIsKept
<1>9. CASE readTruncatedHeader
  BY <1>9, <1>b, <1>c, <1>d, FailKeeps DEF readTruncatedHeader, ReadsHeader
<1>10. CASE createMemoryRegion
  BY <1>10, CreateRegionKeeps
<1>11. CASE loadByte
  BY <1>11, LoadByteKeeps
<1>12. CASE readTruncatedData
  BY <1>12, <1>a, <1>d, FailKeeps DEF readTruncatedData
<1>13. CASE nextMemoryRegion
  <2>1. block + 1 \in 1 .. Len(dump.blocks) + 1
    BY <1>13, DumpType DEF nextMemoryRegion
  <2> QED
    BY <1>13, <2>1 DEF nextMemoryRegion, DumpTypeOK, ImageIsKept
<1>14. CASE UNCHANGED vars
  BY <1>14 DEF vars, DumpTypeOK, ImageIsKept
<1> QED
  BY <1>1, <1>2, <1>3, <1>4, <1>5, <1>6, <1>7, <1>8, <1>9, <1>10, <1>11, <1>12, <1>13, <1>14
     DEF Next

\* The inductive invariant of the dump reader holds.
THEOREM DumpIInvHolds == Spec => []DumpIInv
<1>1. Init => DumpIInv
  BY InitDumpIInv
<1>2. DumpIInv /\ [Next]_vars => DumpIInv'
  BY NextDumpIInv
<1> QED
  BY <1>1, <1>2, PTL DEF Spec

\* DumpTypeOK for all dumps, cut anywhere: in particular no read passes the end of
\* the file (readDump and what it calls).
THEOREM DumpTypeCorrect == Spec => []DumpTypeOK
<1>1. DumpIInv => DumpTypeOK
  BY DEF DumpIInv
<1> QED
  BY <1>1, DumpIInvHolds, PTL

\* No dump, whatever its regions overlap, changes the flash that the image was loaded
\* into, or where the image's regions are (createAndLoadMemoryRegion).
THEOREM DumpKeepsImage == Spec => []ImageIsKept
<1>1. DumpIInv => ImageIsKept
  BY DEF DumpIInv
<1> QED
  BY <1>1, DumpIInvHolds, PTL

(***************************************************************************)
(* The reader is a dump loader.                                            *)
(***************************************************************************)

Failures == {fileException, fileFormatException, stackOverflowException,
             outOfMemoryException, busErrorException}

\* Giving up ends the loading.
LEMMA FailEnds ==
  ASSUME NEW e \in Failures, Fail(e), stage \notin {"done", "failed"}
  PROVE  [Loader!Next]_(Loader!vars)
  BY DEF Fail, Failures, Loader!Next, Loader!End

\* A step that touches neither the memory nor the outcome is none of the loader's.
LEMMA SilentStep ==
  ASSUME UNCHANGED <<image, regions, exception>>,
         stage \notin {"done", "failed"}, stage' \notin {"done", "failed"}
  PROVE  [Loader!Next]_(Loader!vars)
  BY DEF Loader!vars

\* Reading a part of the context goes on or gives up.
LEMMA ReadsContextIsLoaderStep ==
  ASSUME NEW n, NEW new, NEW next, ReadsContext(n, new, next),
         stage \notin {"done", "failed"}, next \notin {"done", "failed"}
  PROVE  [Loader!Next]_(Loader!vars)
<1>1. fileFormatException \in Failures
  BY DEF Failures
<1> QED
  BY <1>1, FailEnds, SilentStep DEF ReadsContext

\* A region of the dump is RAM.
LEMMA CreateIsAddRAM ==
  ASSUME DumpIInv, createMemoryRegion
  PROVE  [Loader!Next]_(Loader!vars)
<1> DEFINE b == dump.blocks[block]
           created(mallocOk) == CreateRegion(regions, b.startAddress, BytesInRegion(b), mallocOk)
<1>1. regions \in Seq(MemoryRegion) /\ stage = "region"
  BY DEF DumpIInv, DumpTypeOK, createMemoryRegion, ReadsHeader
<1>2. PICK mallocOk \in MallocOutcomes :
        \/ /\ created(mallocOk).exception = noException
           /\ regions' = created(mallocOk).regions
           /\ stage' = "data"
           /\ byte' = 1
           /\ UNCHANGED <<dump, image, block, exception>>
        \/ /\ created(mallocOk).exception # noException
           /\ Fail(created(mallocOk).exception)
  BY DEF createMemoryRegion
<1>3. created(mallocOk).exception \in {noException, outOfMemoryException}
  BY DEF CreateRegion, Returns, Throws
<1> HIDE DEF b
<1>4. CASE created(mallocOk).exception = noException
  <2>1. /\ Len(regions') = Len(regions) + 1
        /\ regions' = Append(regions, NewRegion(regions'[Len(regions')].baseAddress,
                                                regions'[Len(regions')].size))
    BY <1>1, <1>2, <1>4, CreateAppends
  <2>2. UNCHANGED <<image, exception>> /\ stage' = "data"
    BY <1>2, <1>4
  <2> QED
    BY <1>1, <2>1, <2>2 DEF Loader!Next, Loader!AddRAM
<1>5. CASE created(mallocOk).exception # noException
  BY <1>1, <1>2, <1>3, <1>5, FailEnds DEF Failures
<1> QED
  BY <1>4, <1>5

\* A byte is stored where the memory is not read-only.
LEMMA LoadByteIsStore ==
  ASSUME DumpIInv, loadByte
  PROVE  [Loader!Next]_(Loader!vars)
<1> DEFINE b       == dump.blocks[block]
           address == ByteAddress(b, byte)
           found   == findMatchingRegion(regions, address, ByteSize)
           bytes   == <<b.data[byte]>>
<1>1. stage = "data"
  BY DEF loadByte, ReadsData
<1>2. CASE ~IsPermitted(regions, address, ByteSize, WRITING)
  BY <1>1, <1>2, FailEnds DEF loadByte, Failures
<1>3. CASE IsPermitted(regions, address, ByteSize, WRITING)
  <2>1. regions' = Overwrite(regions, found, bytes) /\ UNCHANGED <<image, stage, exception>>
    BY <1>3 DEF loadByte
  <2>2. address \in Address
    <3>1. b \in Block
      BY DumpType DEF loadByte, ReadsData, DumpIInv
    <3>2. \A k \in Int : k % AddressLimit \in Address
      BY AddressLimitAssumption DEF Address
    <3>a. byte \in Nat
      BY DEF DumpIInv, DumpTypeOK
    <3>b. b.startAddress \in Address
      BY <3>1 DEF Block
    <3>3. byte \in Int /\ b.startAddress \in Int
      BY <3>a, <3>b, AddressLimitAssumption DEF Address
    <3>4. b.startAddress + byte - 1 \in Int
      BY <3>3
    <3> QED
      BY <3>2, <3>4 DEF ByteAddress
  <2>3. found.region \in DOMAIN regions /\ ~regions[found.region].isReadOnly
    BY <1>3, <2>2, FindGood DEF IsPermitted, DumpIInv
  <2> HIDE DEF b, address, found, bytes
  <2>4. regions \in Seq(MemoryRegion)
    BY DEF DumpIInv, DumpTypeOK
  <2>5. /\ DOMAIN regions' = DOMAIN regions
        /\ Len(regions'[found.region].pData) = Len(regions[found.region].pData)
        /\ regions' = [regions EXCEPT ![found.region].pData = regions'[found.region].pData]
    BY <2>1, <2>3, <2>4, OverwriteStores
  <2> QED
    BY <1>1, <2>1, <2>3, <2>5 DEF Loader!Next, Loader!StoreIntoRAM
<1> QED
  BY <1>2, <1>3

LEMMA NextIsLoaderStep ==
  ASSUME DumpIInv, [Next]_vars
  PROVE  [Loader!Next]_(Loader!vars)
<1>a. {fileException, fileFormatException, stackOverflowException} \subseteq Failures
  BY DEF Failures
<1>1. CASE openFileAndThrowOnError
  BY <1>a, <1>1, FailEnds, SilentStep DEF openFileAndThrowOnError
<1>2. CASE validateDumpSignature
  BY <1>a, <1>2, FailEnds, SilentStep DEF validateDumpSignature
<1>3. CASE readFlags
  BY <1>3, ReadsContextIsLoaderStep DEF readFlags
<1>4. CASE readIntegerRegisters
  <2> DEFINE n   == WordSize * IntegerCount(dump)
             new == [context EXCEPT !.R = Replaced(StackPointers(@), dump.R, Read(n) \div WordSize)]
  <2>1. ReadsContext(n, new, "exception PSR") /\ stage = "integer registers"
    BY <1>4 DEF readIntegerRegisters
  <2> HIDE DEF n, new
  <2> QED
    BY <2>1, ReadsContextIsLoaderStep
<1>5. CASE readExceptionPSR
  BY <1>5, ReadsContextIsLoaderStep DEF readExceptionPSR
<1>6. CASE readFloatingPointRegisters
  <2> DEFINE n   == WordSize * FloatCount
             new == [context EXCEPT !.FPR = Replaced(@, dump.FPR, Read(n) \div WordSize)]
  <2>1. CASE context.float
    <3>1. ReadsContext(n, new, "region") /\ stage = "float registers"
      BY <1>6, <2>1 DEF readFloatingPointRegisters
    <3> HIDE DEF n, new
    <3> QED
      BY <3>1, ReadsContextIsLoaderStep
  <2>2. CASE ~context.float
    BY <1>6, <2>2, SilentStep DEF readFloatingPointRegisters
  <2> QED
    BY <2>1, <2>2
<1>7. CASE readSentinel
  BY <1>a, <1>7, FailEnds DEF readSentinel, ReadsHeader
<1>8. CASE readEnd
  BY <1>8 DEF readEnd, ReadsHeader, Loader!Next, Loader!End, DumpIInv, DumpTypeOK
<1>9. CASE readTruncatedHeader
  BY <1>a, <1>9, FailEnds DEF readTruncatedHeader, ReadsHeader
<1>10. CASE createMemoryRegion
  BY <1>10, CreateIsAddRAM
<1>11. CASE loadByte
  BY <1>11, LoadByteIsStore
<1>12. CASE readTruncatedData
  BY <1>a, <1>12, FailEnds DEF readTruncatedData, ReadsData
<1>13. CASE nextMemoryRegion
  BY <1>13, SilentStep DEF nextMemoryRegion
<1>14. CASE UNCHANGED vars
  BY <1>14 DEF vars, Loader!vars
<1> QED
  BY <1>1, <1>2, <1>3, <1>4, <1>5, <1>6, <1>7, <1>8, <1>9, <1>10, <1>11, <1>12, <1>13, <1>14
     DEF Next

\* The dump reader implements the dump loader that CrashDebugCommandLine_Init relies
\* on: memory grows by RAM only, no store reaches flash, nothing is touched after the
\* end (CrashCatcherDump_ReadBinary and CrashCatcherDump_ReadHex).
THEOREM DumpImplementsDumpLoader == Spec => ImplementsDumpLoader
<1>1. Init => Loader!Init
  BY DEF Init, Loader!Init
<1>2. DumpIInv /\ [Next]_vars => [Loader!Next]_(Loader!vars)
  BY NextIsLoaderStep
<1> QED
  BY <1>1, <1>2, DumpIInvHolds, PTL DEF Spec, Loader!Spec, ImplementsDumpLoader

(***************************************************************************)
(* What is read.                                                           *)
(***************************************************************************)

\* The file is read in the order in which CrashCatcher writes it.
OffsetFollows ==
  /\ stage \in {"opening", "signature", "flags", "integer registers", "exception PSR",
               "float registers"} => block = 1
  /\ stage \in {"opening", "signature"} => offset = 0
  /\ stage = "flags" => offset = WordSize
  /\ stage = "integer registers" => offset = 2 * WordSize
  /\ stage = "exception PSR" => offset = WordSize * (2 + IntegerCount(dump))
  /\ stage = "float registers" => offset = WordSize * (3 + IntegerCount(dump))
  /\ stage = "region" => offset = BlocksEnd(dump, block - 1)
  /\ stage = "data" =>
       /\ byte <= BytesInRegion(dump.blocks[block]) + 1
       /\ offset = BlocksEnd(dump, block - 1) + HeaderSize + byte - 1

NoFloats == [i \in 1 .. FloatCount |-> ZeroValue]

ReadR == dump.R \o (IF dump.signature = "version 2"
                    THEN <<DEFAULT_SP_VALUE, DEFAULT_SP_VALUE>> ELSE <<>>)

\* The registers that were read hold what the file says, the others what they held.
RegistersFollow ==
  /\ stage \in {"opening", "signature", "flags", "integer registers", "exception PSR",
              "float registers"} =>
       context.FPR = NoFloats
  /\ stage \in {"integer registers", "exception PSR", "float registers"} =>
       context.float = dump.float
  /\ stage \in {"exception PSR", "float registers"} => context.R = ReadR
  /\ stage = "float registers" => context.exceptionPSR = dump.exceptionPSR
  /\ stage \in {"region", "data", "done"} \/ exception = stackOverflowException =>
       RegistersAreRead

\* The place in region i of the dump that address a has, if it is less than the
\* size of the region.
Place(i, a) == (a - dump.blocks[i].startAddress) % AddressLimit

\* The regions of the dump that have stored to address a.
Storing(a) ==
  Holding(a) \cup {i \in {block} : stage = "data" /\ Place(i, a) < byte - 1}

\* The region that is being read has been created, up to the end of the addresses.
JustCreated(a) ==
  /\ stage = "data"
  /\ a >= dump.blocks[block].startAddress
  /\ a < dump.blocks[block].startAddress + BytesInRegion(dump.blocks[block])

\* Memory is what was loaded so far, and where nothing was the image, and the
\* region that is being read is there as a whole.
MemoryFollows ==
  stage # "failed" \/ exception = stackOverflowException =>
    \A a \in Address :
      IF Storing(a) # {}
      THEN /\ Matching(regions, a, ByteSize) # {}
           /\ ByteOf(regions, a) = DumpedByte(Max(Storing(a)), a)
      ELSE /\ Matching(regions, a, ByteSize) # {} <=>
                Matching(image, a, ByteSize) # {} \/ JustCreated(a)
           /\ Matching(image, a, ByteSize) # {} => ByteOf(regions, a) = ByteOf(image, a)

EndIsRead ==
  /\ stage = "done" => offset = BlocksEnd(dump, block - 1) /\ dump.length = offset
  /\ exception = stackOverflowException =>
       /\ stage = "failed"
       /\ SentinelIsNoAddress => dump.length = FileSize(dump) /\ offset = dump.length
  /\ stage # "failed" => exception = noException

ReadIInv ==
  /\ DumpIInv
  /\ Filled(regions)
  /\ OffsetFollows
  /\ RegistersFollow
  /\ MemoryFollows
  /\ EndIsRead

\* When nothing of the memory changes and none of it is being read, it stays as it
\* was read.
LEMMA MemoryStays ==
  ASSUME ReadIInv, UNCHANGED <<dump, image, regions, block, byte>>,
         stage # "failed", stage # "data", stage' # "data"
  PROVE  MemoryFollows' /\ Filled(regions)'
<1>1. /\ \A a : Storing(a)' = Storing(a) /\ JustCreated(a)' = JustCreated(a)
      /\ \A i, a : DumpedByte(i, a)' = DumpedByte(i, a)
  BY DEF Storing, Holding, JustCreated, DumpedByte
<1> QED
  BY <1>1 DEF MemoryFollows, ReadIInv

\* Giving up, except because of an overflow, is of no concern.
LEMMA FailReads ==
  ASSUME ReadIInv, DumpIInv',
         NEW e \in {fileException, fileFormatException, outOfMemoryException, busErrorException},
         Fail(e)
  PROVE  ReadIInv'
<1>1. /\ stage' = "failed" /\ exception' = e /\ e # stackOverflowException
      /\ UNCHANGED <<dump, image, regions, block, byte>>
  BY DEF Fail, fileException, fileFormatException, outOfMemoryException, busErrorException,
         stackOverflowException
<1>2. Filled(regions)'
  BY <1>1 DEF ReadIInv
<1> QED
  BY <1>1, <1>2 DEF ReadIInv, OffsetFollows, RegistersFollow, MemoryFollows, EndIsRead

\* A read of a part of the context either gets all of it or the dump is refused.
LEMMA ReadsContextMoves ==
  ASSUME ReadIInv, DumpIInv', NEW n \in Nat, NEW new, NEW next, ReadsContext(n, new, next)
  PROVE  \/ ReadIInv'
         \/ /\ ReadsAll(n) /\ offset' = offset + n /\ context' = new /\ stage' = next
            /\ UNCHANGED <<dump, image, regions, block, byte, exception>>
<1>1. CASE Fail(fileFormatException)
  BY <1>1, FailReads
<1>2. CASE ReadsAll(n) /\ stage' = next /\ UNCHANGED <<dump, image, regions, block, byte, exception>>
  BY <1>2 DEF ReadsContext, ReadsAll
<1> QED
  BY <1>1, <1>2 DEF ReadsContext

\* What there is to show when a part of the context was read.
LEMMA Moves ==
  ASSUME ReadIInv, DumpIInv',
         UNCHANGED <<dump, image, regions, block, byte, exception>>,
         stage \notin {"data", "done", "failed"}, stage' \notin {"data", "done", "failed"},
         OffsetFollows', RegistersFollow'
  PROVE  ReadIInv'
<1>1. stage # "failed" /\ stage # "data" /\ stage' # "data" /\ stage' # "failed" /\ stage' # "done"
  OBVIOUS
<1>2. MemoryFollows' /\ Filled(regions)'
  BY <1>1, MemoryStays
<1>3. EndIsRead'
  BY <1>1 DEF ReadIInv, EndIsRead
<1> QED
  BY <1>2, <1>3 DEF ReadIInv

\* A part of the context is read in full: nothing is left out of the sums.
LEMMA CountType ==
  /\ RegisterCount \in Nat /\ RegisterCount >= 2 /\ FloatCount \in Nat
  /\ IntegerCount(dump) = RegisterCount \/ IntegerCount(dump) = RegisterCount - 2
  /\ IntegerCount(dump) \in Nat
<1>1. RegisterCount \in Nat /\ RegisterCount >= 2 /\ FloatCount \in Nat
  BY CountAssumption
<1>2. IntegerCount(dump) = RegisterCount \/ IntegerCount(dump) = RegisterCount - 2
  BY DEF IntegerCount
<1> QED
  BY <1>1, <1>2

LEMMA SignatureReads ==
  ASSUME ReadIInv, DumpIInv', validateDumpSignature
  PROVE  ReadIInv'
<1>1. CASE Fail(fileFormatException)
  BY <1>1, FailReads
<1>2. CASE /\ ReadsAll(WordSize) /\ stage' = "flags"
           /\ UNCHANGED <<dump, image, regions, block, byte, exception>>
  <2>1. offset' = WordSize /\ stage = "signature" /\ UNCHANGED context
    BY <1>2 DEF validateDumpSignature, ReadsAll, ReadIInv, OffsetFollows, WordSize
  <2>2. OffsetFollows'
    BY <1>2, <2>1 DEF OffsetFollows, ReadIInv
  <2>3. RegistersFollow'
    <3>1. exception # stackOverflowException
      BY <2>1 DEF ReadIInv, EndIsRead
    <3> QED
      BY <1>2, <2>1, <3>1 DEF RegistersFollow, ReadIInv
  <2> QED
    BY <1>2, <2>1, <2>2, <2>3, Moves
<1> QED
  BY <1>1, <1>2 DEF validateDumpSignature

LEMMA OpeningReads ==
  ASSUME ReadIInv, DumpIInv', openFileAndThrowOnError
  PROVE  ReadIInv'
<1>1. CASE Fail(fileException)
  BY <1>1, FailReads
<1>2. CASE /\ stage' = "signature"
           /\ UNCHANGED <<dump, image, regions, context, offset, block, byte, exception>>
  <2>1. stage = "opening" /\ exception # stackOverflowException
    BY DEF openFileAndThrowOnError, ReadIInv, EndIsRead
  <2>2. OffsetFollows' /\ RegistersFollow'
    BY <1>2, <2>1 DEF OffsetFollows, RegistersFollow, ReadIInv
  <2> QED
    BY <1>2, <2>1, <2>2, Moves
<1> QED
  BY <1>1, <1>2 DEF openFileAndThrowOnError

LEMMA FlagsRead ==
  ASSUME ReadIInv, DumpIInv', readFlags
  PROVE  ReadIInv'
<1> DEFINE new == IF ReadsAll(WordSize) THEN [context EXCEPT !.float = dump.float] ELSE context
<1>1. ReadsContext(WordSize, new, "integer registers") /\ stage = "flags" /\ WordSize \in Nat
  BY DEF readFlags, WordSize
<1> HIDE DEF new
<1>2. CASE /\ ReadsAll(WordSize) /\ offset' = offset + WordSize /\ context' = new
           /\ stage' = "integer registers"
           /\ UNCHANGED <<dump, image, regions, block, byte, exception>>
  <2>1. exception # stackOverflowException /\ offset = WordSize
    BY <1>1 DEF ReadIInv, EndIsRead, OffsetFollows
  <2>2. OffsetFollows'
    <3>1. offset' = 2 * WordSize
      <4>1. offset' = WordSize + WordSize
        BY <1>2, <2>1
      <4> QED
        BY <4>1 DEF WordSize
    <3> QED
      BY <1>1, <1>2, <3>1 DEF OffsetFollows, ReadIInv
  <2>3. context'.float = dump.float /\ context'.FPR = context.FPR
    BY <1>2 DEF new, ReadIInv, DumpIInv, DumpTypeOK
  <2>4. RegistersFollow'
    BY <1>1, <1>2, <2>1, <2>3 DEF RegistersFollow, ReadIInv, NoFloats
  <2> QED
    BY <1>1, <1>2, <2>2, <2>4, Moves
<1> QED
  BY <1>1, <1>2, ReadsContextMoves

LEMMA ExceptionPSRReads ==
  ASSUME ReadIInv, DumpIInv', readExceptionPSR
  PROVE  ReadIInv'
<1> DEFINE new == IF ReadsAll(WordSize)
                  THEN [context EXCEPT !.exceptionPSR = dump.exceptionPSR] ELSE context
<1>1. ReadsContext(WordSize, new, "float registers") /\ stage = "exception PSR" /\ WordSize \in Nat
  BY DEF readExceptionPSR, WordSize
<1> HIDE DEF new
<1>2. CASE /\ ReadsAll(WordSize) /\ offset' = offset + WordSize /\ context' = new
           /\ stage' = "float registers"
           /\ UNCHANGED <<dump, image, regions, block, byte, exception>>
  <2>1. exception # stackOverflowException /\ offset = WordSize * (2 + IntegerCount(dump))
    BY <1>1 DEF ReadIInv, EndIsRead, OffsetFollows
  <2>2. OffsetFollows'
    <3>1. offset' = WordSize * (3 + IntegerCount(dump))
      <4>1. \A c \in Nat : WordSize * (2 + c) + WordSize = WordSize * (3 + c)
        BY DEF WordSize
      <4> QED
        BY <1>2, <2>1, <4>1, CountType
    <3>2. IntegerCount(dump)' = IntegerCount(dump)
      BY <1>2 DEF IntegerCount
    <3> QED
      BY <1>1, <1>2, <3>1, <3>2 DEF OffsetFollows, ReadIInv
  <2>3. /\ context'.exceptionPSR = dump.exceptionPSR /\ context'.FPR = context.FPR
        /\ context'.float = context.float /\ context'.R = context.R
    BY <1>2 DEF new, ReadIInv, DumpIInv, DumpTypeOK
  <2>4. RegistersFollow'
    BY <1>1, <1>2, <2>1, <2>3 DEF RegistersFollow, ReadIInv, NoFloats, ReadR
  <2> QED
    BY <1>1, <1>2, <2>2, <2>4, Moves
<1> QED
  BY <1>1, <1>2, ReadsContextMoves

\* The stack pointers of a dump that has none.
LEMMA IntegerRegistersAre ==
  ASSUME DumpIInv, NEW R \in [1 .. RegisterCount -> Value]
  PROVE  Replaced(StackPointers(R), dump.R, IntegerCount(dump)) = ReadR
<1> DEFINE n   == IntegerCount(dump)
           sp  == IF dump.signature = "version 2"
                  THEN <<DEFAULT_SP_VALUE, DEFAULT_SP_VALUE>> ELSE <<>>
           all == StackPointers(R)
           got == Replaced(all, dump.R, n)
<1>1. /\ dump.R \in Seq(Value) /\ sp \in Seq(Value) /\ Len(dump.R) = n
      /\ n \in Nat /\ RegisterCount \in Nat /\ RegisterCount >= 2
  <2>1. dump.R \in Seq(Value) /\ Len(dump.R) = n
    BY DumpType DEF DumpIInv, Dump
  <2>2. sp \in Seq(Value)
    <3>1. DEFAULT_SP_VALUE \in Value
      BY DumpAssumption
    <3>2. <<DEFAULT_SP_VALUE, DEFAULT_SP_VALUE>> \in Seq(Value) /\ <<>> \in Seq(Value)
      BY <3>1
    <3> QED
      BY <3>2
  <2> QED
    BY <2>1, <2>2, CountType
<1>2. DOMAIN got = 1 .. RegisterCount
  BY DEF Replaced, StackPointers
<1>3. CASE dump.signature = "version 2"
  <2>1. n = RegisterCount - 2 /\ sp = <<DEFAULT_SP_VALUE, DEFAULT_SP_VALUE>>
    BY <1>3 DEF IntegerCount
  <2>2. Len(sp) = 2 /\ sp[1] = DEFAULT_SP_VALUE /\ sp[2] = DEFAULT_SP_VALUE
    BY <2>1
  <2>3. /\ DOMAIN all = 1 .. RegisterCount
        /\ all[RegisterCount - 1] = DEFAULT_SP_VALUE
        /\ all[RegisterCount] = DEFAULT_SP_VALUE
    <3>1. all = [R EXCEPT ![MSP] = DEFAULT_SP_VALUE, ![PSP] = DEFAULT_SP_VALUE]
      BY <1>3 DEF StackPointers
    <3>2. MSP = RegisterCount - 1 /\ PSP = RegisterCount
      BY DEF MSP, PSP
    <3>3. MSP # PSP /\ MSP \in 1 .. RegisterCount /\ PSP \in 1 .. RegisterCount
      BY <3>2, CountType
    <3> HIDE DEF all
    <3>4. all[MSP] = DEFAULT_SP_VALUE /\ all[PSP] = DEFAULT_SP_VALUE
      BY <3>1, <3>3
    <3> QED
      BY <3>1, <3>2, <3>4
  <2> HIDE DEF n, sp, all
  <2>4. \A i \in 1 .. RegisterCount : got[i] = IF i <= n THEN dump.R[i] ELSE DEFAULT_SP_VALUE
    <3> TAKE i \in 1 .. RegisterCount
    <3>1. i <= n \/ i = RegisterCount - 1 \/ i = RegisterCount
      BY <1>1, <2>1
    <3>2. got[i] = IF i <= n THEN dump.R[i] ELSE all[i]
      BY <2>3 DEF Replaced
    <3> QED
      BY <2>3, <3>1, <3>2
  <2>5. /\ Len(dump.R \o sp) = RegisterCount
        /\ DOMAIN (dump.R \o sp) = 1 .. RegisterCount
        /\ \A i \in 1 .. RegisterCount :
             (dump.R \o sp)[i] = IF i <= n THEN dump.R[i] ELSE DEFAULT_SP_VALUE
    <3>1. /\ dump.R \o sp \in Seq(Value)
          /\ Len(dump.R \o sp) = Len(dump.R) + Len(sp)
          /\ \A i \in 1 .. Len(dump.R) + Len(sp) :
               (dump.R \o sp)[i] = IF i <= Len(dump.R) THEN dump.R[i] ELSE sp[i - Len(dump.R)]
      BY <1>1, ConcatProperties
    <3>2. Len(dump.R) + Len(sp) = RegisterCount
      BY <1>1, <2>1, <2>2
    <3>3. DOMAIN (dump.R \o sp) = 1 .. Len(dump.R \o sp)
      BY <3>1, LenProperties
    <3>4. ASSUME NEW i \in 1 .. RegisterCount, ~(i <= n)
          PROVE  sp[i - n] = DEFAULT_SP_VALUE
      <4>1. i - n = 1 \/ i - n = 2
        BY <1>1, <2>1, <3>4
      <4> QED
        BY <2>2, <4>1
    <3> QED
      BY <1>1, <3>1, <3>2, <3>3, <3>4
  <2> HIDE DEF got
  <2>6. dump.R \o sp = got
    <3>1. got = [i \in 1 .. RegisterCount |-> got[i]]
      BY <1>2 DEF got, Replaced, all, StackPointers
    <3>2. dump.R \o sp = [i \in 1 .. RegisterCount |-> (dump.R \o sp)[i]]
      <4>1. dump.R \o sp \in Seq(Value)
        BY <1>1, ConcatProperties
      <4> HIDE DEF sp
      <4> QED
        BY <4>1, <2>5
    <3>3. \A i \in 1 .. RegisterCount : (dump.R \o sp)[i] = got[i]
      BY <2>4, <2>5
    <3> QED
      BY <3>1, <3>2, <3>3
  <2> QED
    BY <2>6 DEF ReadR, got, sp, n, all
<1>4. CASE dump.signature # "version 2"
  <2>1. n = RegisterCount /\ sp = <<>> /\ all = R
    BY <1>4 DEF IntegerCount, StackPointers
  <2>2. ReadR = dump.R
    BY <1>1, <2>1, ConcatEmptySeq DEF ReadR
  <2>3. dump.R = [i \in 1 .. RegisterCount |-> dump.R[i]]
    <3>1. dump.R \in [1 .. Len(dump.R) -> Value]
      BY <1>1, LenProperties
    <3> QED
      BY <1>1, <2>1, <3>1
  <2>4. got = [i \in 1 .. RegisterCount |-> dump.R[i]]
    <3>1. \A i \in 1 .. RegisterCount : i <= RegisterCount
      BY CountType
    <3>2. got = Replaced(R, dump.R, RegisterCount)
      BY <2>1
    <3> QED
      BY <3>1, <3>2 DEF Replaced
  <2> QED
    BY <2>2, <2>3, <2>4
<1> QED
  BY <1>3, <1>4

LEMMA IntegerRegistersRead ==
  ASSUME ReadIInv, DumpIInv', readIntegerRegisters
  PROVE  ReadIInv'
<1> DEFINE n   == WordSize * IntegerCount(dump)
           new == [context EXCEPT !.R = Replaced(StackPointers(@), dump.R, Read(n) \div WordSize)]
<1>1. ReadsContext(n, new, "exception PSR") /\ stage = "integer registers"
  BY DEF readIntegerRegisters
<1>2. n \in Nat
  BY CountType DEF WordSize
<1>3. CASE /\ ReadsAll(n) /\ offset' = offset + n /\ context' = new
           /\ stage' = "exception PSR"
           /\ UNCHANGED <<dump, image, regions, block, byte, exception>>
  <2>1. exception # stackOverflowException /\ offset = 2 * WordSize
    BY <1>1 DEF ReadIInv, EndIsRead, OffsetFollows
  <2>2. OffsetFollows'
    <3>1. \A c \in Nat : 2 * WordSize + WordSize * c = WordSize * (2 + c)
      BY DEF WordSize
    <3>2. offset' = WordSize * (2 + IntegerCount(dump))
      BY <1>3, <2>1, <3>1, CountType
    <3>3. IntegerCount(dump)' = IntegerCount(dump)
      BY <1>3 DEF IntegerCount
    <3> QED
      BY <1>1, <1>3, <3>2, <3>3 DEF OffsetFollows, ReadIInv
  <2>3. Read(n) \div WordSize = IntegerCount(dump)
    <3>1. \A c \in Nat : (WordSize * c) \div WordSize = c
      BY DEF WordSize
    <3>2. Read(n) = n
      BY <1>3 DEF ReadsAll
    <3> QED
      BY <3>1, <3>2, CountType
  <2>4. context.R \in [1 .. RegisterCount -> Value]
    BY DEF ReadIInv, DumpIInv, DumpTypeOK
  <2>5. Replaced(StackPointers(context.R), dump.R, IntegerCount(dump)) = ReadR
    BY <2>4, IntegerRegistersAre DEF ReadIInv
  <2>6. new = [context EXCEPT !.R = ReadR]
    BY <2>3, <2>5
  <2> HIDE DEF new
  <2>7. context'.R = ReadR /\ context'.float = context.float /\ context'.FPR = context.FPR
    BY <1>3, <2>6 DEF ReadIInv, DumpIInv, DumpTypeOK
  <2>8. RegistersFollow'
    <3>1. ReadR' = ReadR /\ NoFloats' = NoFloats
      BY <1>3 DEF ReadR, NoFloats
    <3> QED
      BY <1>1, <1>3, <2>1, <2>7, <3>1 DEF RegistersFollow, ReadIInv
  <2> QED
    BY <1>1, <1>3, <2>2, <2>8, Moves
<1> HIDE DEF n, new
<1> QED
  BY <1>1, <1>2, <1>3, ReadsContextMoves

LEMMA FloatRegistersRead ==
  ASSUME ReadIInv, DumpIInv', readFloatingPointRegisters
  PROVE  ReadIInv'
<1> DEFINE n   == WordSize * FloatCount
           new == [context EXCEPT !.FPR = Replaced(@, dump.FPR, Read(n) \div WordSize)]
<1>1. /\ stage = "float registers" /\ exception # stackOverflowException
      /\ offset = WordSize * (3 + IntegerCount(dump))
      /\ context.FPR = NoFloats /\ context.float = dump.float
      /\ context.R = ReadR /\ context.exceptionPSR = dump.exceptionPSR
  BY DEF readFloatingPointRegisters, ReadIInv, EndIsRead, OffsetFollows, RegistersFollow
<1>2. n \in Nat
  BY CountType DEF WordSize
<1>3. block = 1 /\ dump \in Dumps
  BY <1>1 DEF ReadIInv, DumpIInv, OffsetFollows
<1>4. BlocksEnd(dump, block - 1) = RegistersEnd(dump)
  <2>1. block - 1 = 0
    BY <1>3
  <2> QED
    BY <1>3, <2>1, BlocksFollow
<1>5. CASE /\ dump.float
           /\ ReadsAll(n) /\ offset' = offset + n /\ context' = new
           /\ stage' = "region"
           /\ UNCHANGED <<dump, image, regions, block, byte, exception>>
  <2>1. OffsetFollows'
    <3>1. \A c, f \in Nat :
            WordSize * (3 + c) + WordSize * f = WordSize * (3 + c + f)
      BY DEF WordSize
    <3>2. RegistersEnd(dump) = WordSize * (3 + IntegerCount(dump) + FloatCount)
      BY <1>5 DEF RegistersEnd
    <3>3. offset' = BlocksEnd(dump, block - 1)
      BY <1>1, <1>4, <1>5, <3>1, <3>2, CountType
    <3> QED
      BY <1>5, <3>3 DEF OffsetFollows
  <2>2. Read(n) \div WordSize = FloatCount
    <3>1. \A c \in Nat : (WordSize * c) \div WordSize = c
      BY DEF WordSize
    <3>2. Read(n) = n
      BY <1>5 DEF ReadsAll
    <3> QED
      BY <3>1, <3>2, CountType
  <2>3. Replaced(context.FPR, dump.FPR, FloatCount) = dump.FPR
    <3>1. dump.FPR = [i \in 1 .. FloatCount |-> dump.FPR[i]]
      <4>1. dump.FPR \in Seq(Value) /\ Len(dump.FPR) = FloatCount
        BY <1>3, DumpType, ShapeAssumption DEF Dump
      <4>2. dump.FPR \in [1 .. Len(dump.FPR) -> Value]
        BY <4>1, LenProperties
      <4> QED
        BY <4>1, <4>2
    <3>2. \A i \in 1 .. FloatCount : i <= FloatCount
      BY CountType
    <3>3. DOMAIN context.FPR = 1 .. FloatCount
      BY <1>1 DEF NoFloats
    <3> QED
      BY <3>1, <3>2, <3>3 DEF Replaced
  <2>4. new = [context EXCEPT !.FPR = dump.FPR]
    BY <2>2, <2>3
  <2> HIDE DEF new, n
  <2>5. /\ context'.FPR = dump.FPR /\ context'.float = dump.float
        /\ context'.R = ReadR /\ context'.exceptionPSR = dump.exceptionPSR
    BY <1>1, <1>5, <2>4 DEF ReadIInv, DumpIInv, DumpTypeOK
  <2>6. RegistersAreRead'
    BY <1>5, <2>5 DEF RegistersAreRead, ReadR
  <2>7. RegistersFollow'
    BY <1>5, <2>6 DEF RegistersFollow
  <2> QED
    BY <1>1, <1>5, <2>1, <2>7, Moves
<1>6. CASE /\ ~dump.float
           /\ stage' = "region"
           /\ UNCHANGED <<dump, image, regions, context, offset, block, byte, exception>>
  <2>1. OffsetFollows'
    <3>1. RegistersEnd(dump) = WordSize * (3 + IntegerCount(dump))
      <4>1. \A c \in Nat : 3 + c + 0 = 3 + c
        OBVIOUS
      <4>2. RegistersEnd(dump) = WordSize * (3 + IntegerCount(dump) + 0)
        BY <1>6 DEF RegistersEnd
      <4> QED
        BY <4>1, <4>2, CountType
    <3>2. offset' = BlocksEnd(dump, block - 1)
      BY <1>1, <1>4, <1>6, <3>1
    <3> QED
      BY <1>6, <3>2 DEF OffsetFollows
  <2>2. RegistersAreRead'
    BY <1>1, <1>6 DEF RegistersAreRead, ReadR, NoFloats
  <2>3. RegistersFollow'
    BY <1>6, <2>2 DEF RegistersFollow
  <2> QED
    BY <1>1, <1>6, <2>1, <2>3, Moves
<1>7. CASE context.float /\ ReadsContext(n, new, "region")
  <2> HIDE DEF n, new
  <2> QED
    BY <1>1, <1>2, <1>5, <1>7, ReadsContextMoves
<1> HIDE DEF n, new
<1> QED
  BY <1>1, <1>6, <1>7 DEF readFloatingPointRegisters, n, new

(***************************************************************************)
(* The ends of a file.                                                     *)
(***************************************************************************)

\* No region ends behind the last one.
LEMMA BlocksAscend ==
  ASSUME NEW d \in Dumps
  PROVE  \A k \in 0 .. Len(d.blocks) : BlocksEnd(d, k) <= BlocksEnd(d, Len(d.blocks))
<1> DEFINE n == Len(d.blocks)
           S == {j \in Nat : j <= n => BlocksEnd(d, n - j) <= BlocksEnd(d, n)}
<1>1. n \in Nat /\ \A k \in 1 .. n : Len(d.blocks[k].data) \in Nat
  <2>1. n \in Nat
    BY DumpAssumption, LenProperties DEF Dump
  <2>2. \A k \in 1 .. n : d.blocks[k] \in Block
    BY DumpAssumption, ElementOfSeq DEF Dump
  <2> QED
    BY <2>1, <2>2, LenProperties DEF Block
<1>2. /\ \A k \in 0 .. n : BlocksEnd(d, k) \in Nat
      /\ \A k \in 1 .. n : BlocksEnd(d, k) = BlocksEnd(d, k - 1) + HeaderSize + Len(d.blocks[k].data)
  BY BlocksFollow
<1>3. \A k \in 1 .. n : BlocksEnd(d, k - 1) <= BlocksEnd(d, k)
  <2> TAKE k \in 1 .. n
  <2>1. /\ BlocksEnd(d, k) = BlocksEnd(d, k - 1) + HeaderSize + Len(d.blocks[k].data)
        /\ HeaderSize \in Nat /\ Len(d.blocks[k].data) \in Nat
    BY <1>1, <1>2 DEF HeaderSize, WordSize
  <2>2. BlocksEnd(d, k - 1) \in Nat
    BY <1>1, <1>2
  <2> QED
    BY <2>1, <2>2
<1> HIDE DEF n
<1>4. 0 \in S
  BY <1>1, <1>2
<1>5. ASSUME NEW j \in Nat, j \in S
      PROVE  j + 1 \in S
  <2>1. SUFFICES ASSUME j + 1 <= n
                 PROVE  BlocksEnd(d, n - (j + 1)) <= BlocksEnd(d, n)
    OBVIOUS
  <2>2. n - j \in 1 .. n /\ n - j - 1 = n - (j + 1) /\ j <= n
    BY <1>1, <2>1
  <2>3. BlocksEnd(d, n - (j + 1)) <= BlocksEnd(d, n - j)
    BY <1>3, <2>2
  <2>4. BlocksEnd(d, n - j) <= BlocksEnd(d, n)
    BY <1>5, <2>2
  <2>5. BlocksEnd(d, n - (j + 1)) \in Nat /\ BlocksEnd(d, n - j) \in Nat /\ BlocksEnd(d, n) \in Nat
    BY <1>1, <1>2, <2>2
  <2> QED
    BY <2>3, <2>4, <2>5
<1>6. \A j \in Nat : j \in S
  BY <1>4, <1>5, SetInduction
<1>7. ASSUME NEW k \in 0 .. n
      PROVE  BlocksEnd(d, k) <= BlocksEnd(d, n)
  <2>1. n - k \in Nat /\ n - k <= n /\ n - (n - k) = k
    BY <1>1
  <2> QED
    BY <1>6, <2>1
<1> QED
  BY <1>7 DEF n

LEMMA SentinelReads ==
  ASSUME ReadIInv, DumpIInv', readSentinel
  PROVE  ReadIInv'
<1>1. /\ stage = "region" /\ offset' = offset + SentinelSize /\ UNCHANGED context
      /\ SentinelIsNoAddress => block = Len(dump.blocks) + 1 /\ dump.tail = "stack overflow"
      /\ stage' = "failed" /\ exception' = stackOverflowException
      /\ UNCHANGED <<dump, image, regions, block, byte>>
  BY DEF readSentinel, ReadsHeader, AtSentinel, SentinelIsNoAddress, Fail
<1>2. ASSUME SentinelIsNoAddress
      PROVE  offset = BlocksEnd(dump, Len(dump.blocks))
  <2>1. block - 1 = Len(dump.blocks)
    <3>1. Len(dump.blocks) \in Nat
      BY DumpType DEF ReadIInv, DumpIInv
    <3>2. \A x \in Nat : x + 1 - 1 = x
      OBVIOUS
    <3>3. block = Len(dump.blocks) + 1
      BY <1>1, <1>2
    <3> QED
      BY <3>1, <3>2, <3>3
  <2> QED
    BY <1>1, <2>1 DEF ReadIInv, OffsetFollows
<1>3. ASSUME SentinelIsNoAddress
      PROVE  dump.length = FileSize(dump) /\ offset' = dump.length
  <2>1. FileSize(dump) = offset'
    BY <1>1, <1>2, <1>3 DEF FileSize
  <2>2. dump.length <= FileSize(dump) /\ dump.length \in Nat
    BY ShapeAssumption, DumpType DEF ReadIInv, DumpIInv
  <2>3. offset' \in 0 .. dump.length
    <3>1. offset' \in 0 .. (dump.length)'
      BY DEF DumpIInv, DumpTypeOK
    <3>2. (dump.length)' = dump.length
      BY <1>1
    <3> QED
      BY <3>1, <3>2
  <2> QED
    BY <2>1, <2>2, <2>3
<1>4. EndIsRead'
  <2>1. FileSize(dump)' = FileSize(dump) /\ SentinelIsNoAddress' = SentinelIsNoAddress
    BY <1>1 DEF FileSize, SentinelIsNoAddress
  <2> QED
    BY <1>1, <1>3, <2>1 DEF EndIsRead
<1>5. RegistersFollow'
  <2>1. RegistersAreRead
    BY <1>1 DEF ReadIInv, RegistersFollow
  <2>2. RegistersAreRead'
    BY <1>1, <2>1 DEF RegistersAreRead
  <2> QED
    BY <1>1, <2>2 DEF RegistersFollow
<1>6. OffsetFollows'
  BY <1>1 DEF OffsetFollows
<1>7. MemoryFollows' /\ Filled(regions)'
  BY <1>1, MemoryStays
<1> QED
  BY <1>4, <1>5, <1>6, <1>7 DEF ReadIInv

LEMMA EndReads ==
  ASSUME ReadIInv, DumpIInv', readEnd
  PROVE  ReadIInv'
<1>1. /\ stage = "region" /\ stage' = "done"
      /\ UNCHANGED <<dump, image, regions, context, block, byte, exception>>
      /\ offset' = offset + Read(HeaderSize) /\ Read(HeaderSize) = 0 /\ ~MeetsBad(HeaderSize)
  BY DEF readEnd, ReadsHeader, AtEnd
<1>2. dump.length \in Nat /\ offset \in 0 .. dump.length
  BY DumpType DEF ReadIInv, DumpIInv, DumpTypeOK
<1>3. offset' = offset /\ dump.length = offset
  <2>1. Got(HeaderSize) = 0
    BY <1>1 DEF Read, GotAll
  <2>2. Left = 0
    BY <2>1, <1>2 DEF Got, HeaderSize, WordSize, Left
  <2> QED
    BY <1>1, <1>2, <2>2 DEF Left
<1>4. EndIsRead'
  BY <1>1, <1>3 DEF ReadIInv, EndIsRead, OffsetFollows
<1>5. RegistersFollow'
  BY <1>1 DEF ReadIInv, RegistersFollow, RegistersAreRead
<1>6. OffsetFollows'
  BY <1>1 DEF OffsetFollows
<1>7. MemoryFollows' /\ Filled(regions)'
  BY <1>1, MemoryStays
<1> QED
  BY <1>4, <1>5, <1>6, <1>7 DEF ReadIInv

(***************************************************************************)
(* The regions of the dump.                                                *)
(***************************************************************************)

\* Where the bytes of a region are in memory.
LEMMA Places ==
  ASSUME DumpIInv, block \in DOMAIN dump.blocks
  PROVE  LET b == dump.blocks[block]
         IN  /\ b.startAddress \in Address
             /\ BytesInRegion(b) \in Address
             /\ Len(b.data) = BytesInRegion(b)
             /\ b.data \in Seq(Byte)
             /\ \A a \in Address : Place(block, a) \in Address
             /\ \A k \in 1 .. BytesInRegion(b) :
                  /\ ByteAddress(b, k) \in Address
                  /\ b.data[k] \in Byte
                  /\ \A a \in Address : Place(block, a) = k - 1 <=> a = ByteAddress(b, k)
             /\ \A a \in Address :
                  a >= b.startAddress /\ a < b.startAddress + BytesInRegion(b) =>
                    Place(block, a) < BytesInRegion(b)
<1> DEFINE b == dump.blocks[block]
           s == b.startAddress
           n == BytesInRegion(b)
           L == AddressLimit
<1>1. b \in Block /\ Len(b.data) = n
  BY DumpType DEF DumpIInv
<1>2. b.data \in Seq(Byte) /\ s \in Address /\ b.endAddress \in Address
  BY <1>1 DEF Block
<1>3. L \in Nat /\ L > 0
  BY AddressLimitAssumption
<1>4. \A k \in Int : k % L \in Address
  BY <1>3 DEF Address
<1>5. n \in Address
  BY <1>2, <1>3, <1>4 DEF BytesInRegion, Address
<1> HIDE DEF b, s, n, L
<1>6. s \in 0 .. L - 1 /\ n \in 0 .. L - 1
  BY <1>2, <1>5 DEF Address, L
<1>7. \A x \in 0 .. L - 1 : x % L = x /\ (x + L) % L = x /\ (x - L) % L = x
  BY <1>3
<1>8. \A x \in Int : x >= 0 /\ x < L => x % L = x
  BY <1>3, <1>7
<1>9. \A x \in Int : x >= L /\ x < 2 * L => x % L = x - L
  <2> TAKE x \in Int
  <2> SUFFICES ASSUME x >= L, x < 2 * L PROVE x % L = x - L
    OBVIOUS
  <2>1. x - L \in 0 .. L - 1 /\ x = (x - L) + L
    BY <1>3
  <2> QED
    BY <1>7, <2>1
<1>10. \A x \in Int : x < 0 /\ x >= 0 - L => x % L = x + L
  <2> TAKE x \in Int
  <2> SUFFICES ASSUME x < 0, x >= 0 - L PROVE x % L = x + L
    OBVIOUS
  <2>1. x + L \in 0 .. L - 1 /\ x = (x + L) - L
    BY <1>3
  <2> QED
    BY <1>7, <2>1
<1>11. \A a \in Address : Place(block, a) = IF a >= s THEN a - s ELSE a - s + L
  <2> TAKE a \in Address
  <2>1. a \in 0 .. L - 1 /\ Place(block, a) = (a - s) % L
    BY DEF Address, Place, s, b, L
  <2>2. CASE a >= s
    <3>1. a - s \in Int /\ a - s >= 0 /\ a - s < L
      BY <1>3, <1>6, <2>1, <2>2
    <3> QED
      BY <1>8, <2>1, <2>2, <3>1
  <2>3. CASE ~(a >= s)
    <3>1. a - s \in Int /\ a - s < 0 /\ a - s >= 0 - L
      BY <1>3, <1>6, <2>1, <2>3
    <3> QED
      BY <1>10, <2>1, <2>3, <3>1
  <2> QED
    BY <2>2, <2>3
<1>12. \A k \in 1 .. n : ByteAddress(b, k) = IF s + k - 1 < L THEN s + k - 1 ELSE s + k - 1 - L
  <2>1. ASSUME NEW x \in Int, x >= 0, x < 2 * L
        PROVE  x % L = IF x < L THEN x ELSE x - L
    <3>1. CASE x < L
      BY <1>8, <2>1, <3>1
    <3>2. CASE ~(x < L)
      <4>1. x >= L
        BY <1>3, <2>1, <3>2
      <4>2. x % L = x - L
        BY <1>9, <2>1, <4>1
      <4> QED
        BY <3>2, <4>2
    <3> QED
      BY <3>1, <3>2
  <2> TAKE k \in 1 .. n
  <2>2. s + k - 1 \in Int
    BY <1>6
  <2>3. PICK x \in Int : x = s + k - 1
    BY <2>2
  <2>4. x >= 0 /\ x < 2 * L
    BY <1>3, <1>6, <2>3
  <2>5. ByteAddress(b, k) = x % L
    BY <2>3 DEF ByteAddress, s, L
  <2>6. ByteAddress(b, k) = IF x < L THEN x ELSE x - L
    BY <2>1, <2>4, <2>5
  <2>7. L \in Int /\ s \in Int /\ k \in Int
    BY <1>3, <1>6
  <2>8. CASE x < L
    BY <2>3, <2>6, <2>7, <2>8
  <2>9. CASE ~(x < L)
    BY <2>3, <2>6, <2>7, <2>9
  <2> QED
    BY <2>8, <2>9
<1>13. \A a \in Address : a \in 0 .. L - 1
  BY DEF Address, L
<1>14. \A a \in Address : Place(block, a) \in Address
  <2> TAKE a \in Address
  <2>1. Place(block, a) \in 0 .. L - 1
    BY <1>3, <1>6, <1>11, <1>13
  <2> QED
    BY <2>1 DEF Address, L
<1>15. ASSUME NEW k \in 1 .. n
       PROVE  /\ ByteAddress(b, k) \in Address
              /\ b.data[k] \in Byte
              /\ \A a \in Address : Place(block, a) = k - 1 <=> a = ByteAddress(b, k)
  <2>1. ByteAddress(b, k) \in 0 .. L - 1
    BY <1>3, <1>6, <1>12
  <2>2. b.data[k] \in Byte
    <3>1. k \in 1 .. Len(b.data)
      BY <1>1 DEF n
    <3> QED
      BY <1>2, <3>1, ElementOfSeq
  <2>3. ASSUME NEW a \in Address
        PROVE  Place(block, a) = k - 1 <=> a = ByteAddress(b, k)
    <3>1. a \in 0 .. L - 1
      BY <1>13
    <3> QED
      BY <1>3, <1>6, <1>11, <1>12, <3>1
  <2> QED
    BY <2>1, <2>2, <2>3 DEF Address, L
<1>16. ASSUME NEW a \in Address, a >= s, a < s + n
       PROVE  Place(block, a) < n
  <2>1. a \in 0 .. L - 1
    BY <1>13
  <2> QED
    BY <1>6, <1>11, <1>16, <2>1
<1> QED
  BY <1>1, <1>2, <1>5, <1>14, <1>15, <1>16 DEF b, s, n

\* A region that is created is seen where nothing was.
LEMMA CreateReads ==
  ASSUME ReadIInv, DumpIInv', createMemoryRegion
  PROVE  ReadIInv'
<1> DEFINE b == dump.blocks[block]
           n == BytesInRegion(b)
           new == Append(regions, NewRegion(b.startAddress, n))
<1>1. /\ stage = "region" /\ block \in DOMAIN dump.blocks
      /\ offset' = offset + Read(HeaderSize) /\ ReadsAll(HeaderSize) /\ UNCHANGED context
  BY DEF createMemoryRegion, ReadsHeader
<1>2. CASE Fail(outOfMemoryException)
  BY <1>2, FailReads
<1>3. CASE /\ regions' = new
           /\ stage' = "data"
           /\ byte' = 1
           /\ UNCHANGED <<dump, image, block, exception>>
  <2>1. /\ b.startAddress \in Address /\ n \in Address
        /\ \A a \in Address : Place(block, a) \in Address
    BY <1>1, Places DEF ReadIInv
  <2>2. Filled(regions)
    BY DEF ReadIInv
  <2> DEFINE In(a) == a >= b.startAddress /\ a < b.startAddress + n
  <2>3. /\ Filled(new)
        /\ \A a \in Address :
             /\ Matching(regions, a, ByteSize) # {} =>
                  /\ Matching(new, a, ByteSize) # {}
                  /\ ByteOf(new, a) = ByteOf(regions, a)
             /\ Matching(regions, a, ByteSize) = {} =>
                  (Matching(new, a, ByteSize) # {} <=> In(a))
    <3> HIDE DEF b, n
    <3> QED
      BY <2>1, <2>2, AppendedBytes
  <2>4. ASSUME NEW a \in Address
        PROVE  Storing(a) = Holding(a) /\ Storing(a)' = Holding(a) /\ (JustCreated(a)' <=> In(a))
    <3>1. ~(Place(block, a) < 1 - 1)
      BY <2>1, AddressLimitAssumption DEF Address
    <3>2. Holding(a)' = Holding(a) /\ Place(block, a)' = Place(block, a)
      BY <1>3 DEF Holding, Place
    <3> QED
      BY <1>1, <1>3, <3>1, <3>2 DEF Storing, JustCreated
  <2>5. MemoryFollows'
    <3>1. SUFFICES ASSUME NEW a \in Address
                   PROVE  (IF Storing(a) # {}
                           THEN /\ Matching(regions, a, ByteSize) # {}
                                /\ ByteOf(regions, a) = DumpedByte(Max(Storing(a)), a)
                           ELSE /\ Matching(regions, a, ByteSize) # {} <=>
                                     Matching(image, a, ByteSize) # {} \/ JustCreated(a)
                                /\ Matching(image, a, ByteSize) # {} =>
                                     ByteOf(regions, a) = ByteOf(image, a))'
      BY DEF MemoryFollows
    <3>2. IF Holding(a) # {}
          THEN /\ Matching(regions, a, ByteSize) # {}
               /\ ByteOf(regions, a) = DumpedByte(Max(Holding(a)), a)
          ELSE /\ Matching(regions, a, ByteSize) # {} <=> Matching(image, a, ByteSize) # {}
               /\ Matching(image, a, ByteSize) # {} => ByteOf(regions, a) = ByteOf(image, a)
      BY <1>1, <2>4 DEF ReadIInv, MemoryFollows, JustCreated
    <3>3. /\ Matching(regions, a, ByteSize)' = Matching(new, a, ByteSize)
          /\ ByteOf(regions, a)' = ByteOf(new, a)
          /\ Matching(image, a, ByteSize)' = Matching(image, a, ByteSize)
          /\ ByteOf(image, a)' = ByteOf(image, a)
      BY <1>3
    <3>4. \A i : DumpedByte(i, a)' = DumpedByte(i, a)
      BY <1>3 DEF DumpedByte
    <3>5. DumpedByte(Max(Storing(a)), a)' = DumpedByte(Max(Holding(a)), a)
      BY <2>4, <3>4
    <3> HIDE DEF new, In
    <3> QED
      BY <2>3, <2>4, <3>2, <3>3, <3>5
  <2>6. OffsetFollows'
    <3>1. offset' = BlocksEnd(dump, block - 1) + HeaderSize
      BY <1>1 DEF ReadsAll, ReadIInv, OffsetFollows
    <3>2. BlocksEnd(dump, block - 1) \in Nat /\ HeaderSize \in Nat
      <4>1. block - 1 \in 0 .. Len(dump.blocks)
        BY <1>1, DumpType DEF ReadIInv, DumpIInv
      <4> QED
        BY <4>1, BlocksFollow DEF HeaderSize, WordSize, ReadIInv, DumpIInv
    <3>3. offset' = BlocksEnd(dump, block - 1) + HeaderSize + 1 - 1
      BY <3>1, <3>2
    <3>4. 1 <= n + 1
      BY <2>1, AddressLimitAssumption DEF Address
    <3>5. BytesInRegion(dump.blocks[block])' = n
      BY <1>3
    <3> QED
      BY <1>3, <3>3, <3>4, <3>5 DEF OffsetFollows
  <2>7. RegistersFollow'
    BY <1>1, <1>3 DEF ReadIInv, RegistersFollow, RegistersAreRead
  <2>8. EndIsRead'
    BY <1>1, <1>3 DEF ReadIInv, EndIsRead
  <2>9. Filled(regions)'
    BY <1>3, <2>3
  <2> QED
    BY <2>5, <2>6, <2>7, <2>8, <2>9 DEF ReadIInv
<1>4. ASSUME NEW mallocOk, NEW created,
             created = CreateRegion(regions, b.startAddress, n, mallocOk)
      PROVE  \/ created.exception = noException /\ created.regions = new
             \/ created.exception = outOfMemoryException
  BY <1>4 DEF CreateRegion, Returns, Throws
<1>5. noException # outOfMemoryException
  BY DEF noException, outOfMemoryException
<1> HIDE DEF new
<1> QED
  BY <1>2, <1>3, <1>4, <1>5 DEF createMemoryRegion, b, n

\* A byte that is loaded is in memory from then on.
LEMMA LoadByteReads ==
  ASSUME ReadIInv, DumpIInv', loadByte
  PROVE  ReadIInv'
<1> DEFINE b       == dump.blocks[block]
           n       == BytesInRegion(b)
           address == ByteAddress(b, byte)
           v       == b.data[byte]
           new     == Overwrite(regions, findMatchingRegion(regions, address, ByteSize), <<v>>)
<1>1. /\ stage = "data" /\ byte <= n /\ offset' = offset + 1 /\ UNCHANGED context
      /\ block \in DOMAIN dump.blocks /\ byte \in Nat \ {0}
  BY DEF loadByte, ReadsData, ReadIInv, DumpIInv, DumpTypeOK
<1>2. CASE Fail(busErrorException)
  BY <1>2, FailReads
<1>3. CASE /\ IsPermitted(regions, address, ByteSize, WRITING)
           /\ regions' = new
           /\ byte' = byte + 1
           /\ UNCHANGED <<dump, image, stage, block, exception>>
  <2>1. /\ n \in Nat /\ \A a \in Address : Place(block, a) \in Nat
        /\ address \in Address /\ v \in Byte
        /\ \A a \in Address : Place(block, a) = byte - 1 <=> a = address
    <3>1. \A x \in Address : x \in Nat
      BY AddressLimitAssumption DEF Address
    <3>2. n \in Address /\ \A a \in Address : Place(block, a) \in Address
      BY <1>1, Places DEF ReadIInv
    <3>3. byte \in 1 .. n
      BY <1>1, <3>1, <3>2
    <3>4. /\ ByteAddress(b, byte) \in Address
          /\ b.data[byte] \in Byte
          /\ \A a \in Address : Place(block, a) = byte - 1 <=> a = ByteAddress(b, byte)
      BY <1>1, <3>3, Places DEF ReadIInv
    <3> QED
      BY <3>1, <3>2, <3>4
  <2>2. Filled(regions) /\ Matching(regions, address, ByteSize) # {}
    BY <1>3 DEF ReadIInv, IsPermitted
  <2>3. /\ Filled(new)
        /\ \A a \in Address :
             /\ Matching(new, a, ByteSize) = Matching(regions, a, ByteSize)
             /\ Matching(regions, a, ByteSize) # {} =>
                  ByteOf(new, a) = IF a = address THEN v ELSE ByteOf(regions, a)
    <3> HIDE DEF address, v
    <3> QED
      BY <2>1, <2>2, WrittenByte
  <2>4. \A a \in Address : Place(block, a) < byte + 1 - 1 <=> Place(block, a) < byte - 1 \/ a = address
    <3> TAKE a \in Address
    <3>1. Place(block, a) \in Nat /\ (Place(block, a) = byte - 1 <=> a = address)
      BY <2>1
    <3> HIDE DEF address
    <3> QED
      BY <1>1, <3>1
  <2>5. ASSUME NEW a \in Address
        PROVE  /\ Storing(a)' = Storing(a) \cup (IF a = address THEN {block} ELSE {})
               /\ JustCreated(a)' <=> JustCreated(a)
    <3>1. Holding(a)' = Holding(a) /\ Place(block, a)' = Place(block, a)
      BY <1>3 DEF Holding, Place
    <3>2. Storing(a) = Holding(a) \cup (IF Place(block, a) < byte - 1 THEN {block} ELSE {})
      BY <1>1 DEF Storing
    <3>3. Storing(a)' = Holding(a) \cup (IF Place(block, a) < byte + 1 - 1 THEN {block} ELSE {})
      BY <1>1, <1>3, <3>1 DEF Storing
    <3>4. JustCreated(a)' <=> JustCreated(a)
      BY <1>3 DEF JustCreated
    <3> HIDE DEF address
    <3> QED
      BY <2>4, <3>2, <3>3, <3>4
  <2>6. MemoryFollows'
    <3>1. SUFFICES ASSUME NEW a \in Address
                   PROVE  (IF Storing(a) # {}
                           THEN /\ Matching(regions, a, ByteSize) # {}
                                /\ ByteOf(regions, a) = DumpedByte(Max(Storing(a)), a)
                           ELSE /\ Matching(regions, a, ByteSize) # {} <=>
                                     Matching(image, a, ByteSize) # {} \/ JustCreated(a)
                                /\ Matching(image, a, ByteSize) # {} =>
                                     ByteOf(regions, a) = ByteOf(image, a))'
      BY DEF MemoryFollows
    <3>2. IF Storing(a) # {}
          THEN /\ Matching(regions, a, ByteSize) # {}
               /\ ByteOf(regions, a) = DumpedByte(Max(Storing(a)), a)
          ELSE /\ Matching(regions, a, ByteSize) # {} <=>
                    Matching(image, a, ByteSize) # {} \/ JustCreated(a)
               /\ Matching(image, a, ByteSize) # {} => ByteOf(regions, a) = ByteOf(image, a)
      BY <1>1 DEF ReadIInv, MemoryFollows
    <3>3. /\ Matching(regions, a, ByteSize)' = Matching(new, a, ByteSize)
          /\ ByteOf(regions, a)' = ByteOf(new, a)
          /\ Matching(image, a, ByteSize)' = Matching(image, a, ByteSize)
          /\ ByteOf(image, a)' = ByteOf(image, a)
      BY <1>3
    <3>4. \A i : DumpedByte(i, a)' = DumpedByte(i, a)
      BY <1>3 DEF DumpedByte
    <3>5. CASE a = address
      <4>1. Storing(a)' = Storing(a) \cup {block}
        BY <2>5, <3>5
      <4>2. Max(Storing(a) \cup {block}) = block
        <5>1. block \in Nat
          BY <1>1, DumpType DEF ReadIInv, DumpIInv
        <5>2. Holding(a) \in SUBSET (1 .. block - 1)
          BY DEF Holding
        <5>3. Storing(a) \cup {block} = Holding(a) \cup {block}
          BY DEF Storing
        <5> QED
          BY <5>1, <5>2, <5>3, MaxOnTop
      <4>3. DumpedByte(block, a) = v
        <5>1. Place(block, a) + 1 = byte
          BY <1>1, <2>1, <3>5
        <5> QED
          BY <5>1 DEF DumpedByte, Place
      <4>4. DumpedByte(Max(Storing(a)), a)' = v
        BY <3>4, <4>1, <4>2, <4>3
      <4>5. Storing(a)' # {}
        BY <4>1
      <4>6. Matching(new, a, ByteSize) # {} /\ ByteOf(new, a) = v
        <5> HIDE DEF address, new, v
        <5> QED
          BY <2>2, <2>3, <3>5
      <4> HIDE DEF address, new, v
      <4> QED
        BY <3>3, <4>4, <4>5, <4>6
    <3>6. CASE a # address
      <4>1. Storing(a)' = Storing(a) /\ (JustCreated(a)' <=> JustCreated(a))
        BY <2>5, <3>6
      <4>2. DumpedByte(Max(Storing(a)), a)' = DumpedByte(Max(Storing(a)), a)
        BY <3>4, <4>1
      <4>3. /\ Matching(new, a, ByteSize) = Matching(regions, a, ByteSize)
            /\ Matching(regions, a, ByteSize) # {} => ByteOf(new, a) = ByteOf(regions, a)
        <5> HIDE DEF address, new, v
        <5> QED
          BY <2>3, <3>6
      <4> HIDE DEF address, new, v
      <4> QED
        BY <3>2, <3>3, <4>1, <4>2, <4>3
    <3> QED
      BY <3>5, <3>6
  <2>7. OffsetFollows'
    <3>1. offset = BlocksEnd(dump, block - 1) + HeaderSize + byte - 1
      BY <1>1 DEF ReadIInv, OffsetFollows
    <3>2. BlocksEnd(dump, block - 1) \in Nat /\ HeaderSize \in Nat
      <4>1. block - 1 \in 0 .. Len(dump.blocks)
        BY <1>1, DumpType DEF ReadIInv, DumpIInv
      <4> QED
        BY <4>1, BlocksFollow DEF HeaderSize, WordSize, ReadIInv, DumpIInv
    <3>3. offset' = BlocksEnd(dump, block - 1) + HeaderSize + (byte + 1) - 1
      BY <1>1, <3>1, <3>2
    <3>4. byte + 1 <= n + 1
      BY <1>1, <2>1
    <3>5. BytesInRegion(dump.blocks[block])' = n
      BY <1>3
    <3> QED
      BY <1>1, <1>3, <3>3, <3>4, <3>5 DEF OffsetFollows
  <2>8. RegistersFollow'
    BY <1>1, <1>3 DEF ReadIInv, RegistersFollow, RegistersAreRead
  <2>9. EndIsRead'
    BY <1>1, <1>3 DEF ReadIInv, EndIsRead
  <2>10. Filled(regions)'
    BY <1>3, <2>3
  <2> QED
    BY <2>6, <2>7, <2>8, <2>9, <2>10 DEF ReadIInv
<1> HIDE DEF new
<1> QED
  BY <1>1, <1>2, <1>3 DEF loadByte, new, address, b, v

\* A region that was read as a whole is one of those that were read.
LEMMA NextRegionReads ==
  ASSUME ReadIInv, DumpIInv', nextMemoryRegion
  PROVE  ReadIInv'
<1> DEFINE b == dump.blocks[block]
           n == BytesInRegion(b)
<1>1. /\ stage = "data" /\ byte > n /\ stage' = "region" /\ block' = block + 1
      /\ UNCHANGED <<dump, image, regions, context, offset, byte, exception>>
      /\ block \in DOMAIN dump.blocks /\ byte \in Nat \ {0}
  BY DEF nextMemoryRegion, ReadIInv, DumpIInv, DumpTypeOK
<1>2. n \in Nat /\ block \in Nat \ {0} /\ block \in 1 .. Len(dump.blocks)
      /\ Len(dump.blocks) \in Nat
  <2>1. n \in Address
    BY <1>1, Places DEF ReadIInv
  <2> QED
    BY <1>1, <2>1, DumpType, AddressLimitAssumption DEF Address, ReadIInv, DumpIInv
<1>3. byte - 1 = n
  <2>1. byte <= n + 1
    BY <1>1 DEF ReadIInv, OffsetFollows
  <2> HIDE DEF n
  <2> QED
    BY <1>1, <1>2, <2>1
<1>4. ASSUME NEW a \in Address
      PROVE  /\ Storing(a)' = Storing(a)
             /\ ~JustCreated(a)'
             /\ Storing(a) = {} => ~JustCreated(a)
  <2>1. Storing(a) = Holding(a) \cup {i \in {block} : Place(i, a) < n}
    BY <1>1, <1>3 DEF Storing
  <2>2. Holding(a)' = Holding(a) \cup {i \in {block} : Place(i, a) < n}
    <3>1. 1 .. block + 1 - 1 = (1 .. block - 1) \cup {block}
      BY <1>2
    <3> QED
      BY <1>1, <3>1 DEF Holding, Place
  <2>3. Storing(a)' = Holding(a)' /\ ~JustCreated(a)'
    BY <1>1 DEF Storing, JustCreated
  <2>4. JustCreated(a) => Place(block, a) < n
    BY <1>1, Places DEF ReadIInv, JustCreated
  <2> QED
    BY <2>1, <2>2, <2>3, <2>4
<1>5. MemoryFollows'
  <2>1. SUFFICES ASSUME NEW a \in Address
                 PROVE  (IF Storing(a) # {}
                         THEN /\ Matching(regions, a, ByteSize) # {}
                              /\ ByteOf(regions, a) = DumpedByte(Max(Storing(a)), a)
                         ELSE /\ Matching(regions, a, ByteSize) # {} <=>
                                   Matching(image, a, ByteSize) # {} \/ JustCreated(a)
                              /\ Matching(image, a, ByteSize) # {} =>
                                   ByteOf(regions, a) = ByteOf(image, a))'
    BY DEF MemoryFollows
  <2>2. IF Storing(a) # {}
        THEN /\ Matching(regions, a, ByteSize) # {}
             /\ ByteOf(regions, a) = DumpedByte(Max(Storing(a)), a)
        ELSE /\ Matching(regions, a, ByteSize) # {} <=>
                  Matching(image, a, ByteSize) # {} \/ JustCreated(a)
             /\ Matching(image, a, ByteSize) # {} => ByteOf(regions, a) = ByteOf(image, a)
    BY <1>1 DEF ReadIInv, MemoryFollows
  <2>3. /\ Matching(regions, a, ByteSize)' = Matching(regions, a, ByteSize)
        /\ ByteOf(regions, a)' = ByteOf(regions, a)
        /\ Matching(image, a, ByteSize)' = Matching(image, a, ByteSize)
        /\ ByteOf(image, a)' = ByteOf(image, a)
    BY <1>1
  <2>4. DumpedByte(Max(Storing(a)), a)' = DumpedByte(Max(Storing(a)), a)
    BY <1>1, <1>4 DEF DumpedByte
  <2> QED
    BY <1>4, <2>2, <2>3, <2>4
<1>6. OffsetFollows'
  <2>1. offset = BlocksEnd(dump, block - 1) + HeaderSize + byte - 1
    BY <1>1 DEF ReadIInv, OffsetFollows
  <2>2. /\ BlocksEnd(dump, block - 1) \in Nat /\ HeaderSize \in Nat
        /\ BlocksEnd(dump, block) = BlocksEnd(dump, block - 1) + HeaderSize + Len(b.data)
    <3>1. block - 1 \in 0 .. Len(dump.blocks)
      BY <1>2
    <3> QED
      BY <1>2, <3>1, BlocksFollow DEF HeaderSize, WordSize, ReadIInv, DumpIInv
  <2>3. Len(b.data) = n
    BY <1>1, Places DEF ReadIInv
  <2>4. offset = BlocksEnd(dump, block)
    <3> HIDE DEF b, n
    <3> QED
      BY <1>1, <1>2, <1>3, <2>1, <2>2, <2>3
  <2>5. block' - 1 = block
    BY <1>1, <1>2
  <2> QED
    BY <1>1, <2>4, <2>5 DEF OffsetFollows
<1>7. RegistersFollow'
  BY <1>1 DEF ReadIInv, RegistersFollow, RegistersAreRead
<1>8. EndIsRead'
  BY <1>1 DEF ReadIInv, EndIsRead
<1>9. Filled(regions)'
  BY <1>1 DEF ReadIInv
<1> QED
  BY <1>5, <1>6, <1>7, <1>8, <1>9 DEF ReadIInv

LEMMA InitReads == Init => ReadIInv
<1> SUFFICES ASSUME Init PROVE ReadIInv
  OBVIOUS
<1>1. DumpIInv
  BY InitDumpIInv
<1>2. /\ stage = "opening" /\ exception = noException /\ offset = 0 /\ block = 1
      /\ regions = image /\ image \in Images /\ context.FPR = NoFloats
  BY DEF Init, NoFloats
<1>3. Filled(regions)
  BY <1>2, DumpAssumption, ImageAssumption DEF Filled
<1>4. noException # stackOverflowException
  BY DEF noException, stackOverflowException
<1>5. OffsetFollows /\ RegistersFollow /\ EndIsRead
  BY <1>2, <1>4 DEF OffsetFollows, RegistersFollow, EndIsRead
<1>6. MemoryFollows
  <2>1. \A a : Storing(a) = {} /\ ~JustCreated(a)
    BY <1>2 DEF Storing, Holding, JustCreated
  <2> QED
    BY <1>2, <2>1 DEF MemoryFollows
<1> QED
  BY <1>1, <1>3, <1>5, <1>6 DEF ReadIInv

LEMMA NextReads == ReadIInv /\ [Next]_vars => ReadIInv'
<1> SUFFICES ASSUME ReadIInv, [Next]_vars PROVE ReadIInv'
  OBVIOUS
<1>0. DumpIInv'
  BY NextDumpIInv DEF ReadIInv
<1>1. CASE openFileAndThrowOnError
  BY <1>0, <1>1, OpeningReads
<1>2. CASE validateDumpSignature
  BY <1>0, <1>2, SignatureReads
<1>3. CASE readFlags
  BY <1>0, <1>3, FlagsRead
<1>4. CASE readIntegerRegisters
  BY <1>0, <1>4, IntegerRegistersRead
<1>5. CASE readExceptionPSR
  BY <1>0, <1>5, ExceptionPSRReads
<1>6. CASE readFloatingPointRegisters
  BY <1>0, <1>6, FloatRegistersRead
<1>7. CASE readSentinel
  BY <1>0, <1>7, SentinelReads
<1>8. CASE readEnd
  BY <1>0, <1>8, EndReads
<1>9. CASE readTruncatedHeader
  BY <1>0, <1>9, FailReads DEF readTruncatedHeader
<1>10. CASE createMemoryRegion
  BY <1>0, <1>10, CreateReads
<1>11. CASE loadByte
  BY <1>0, <1>11, LoadByteReads
<1>12. CASE readTruncatedData
  BY <1>0, <1>12, FailReads DEF readTruncatedData
<1>13. CASE nextMemoryRegion
  BY <1>0, <1>13, NextRegionReads
<1>14. CASE UNCHANGED vars
  <2>1. MemoryFollows'
    <3>1. \A a : /\ Storing(a)' = Storing(a) /\ (JustCreated(a)' <=> JustCreated(a))
                 /\ \A i : DumpedByte(i, a)' = DumpedByte(i, a)
      BY <1>14 DEF vars, Storing, Holding, JustCreated, DumpedByte, Place
    <3> QED
      BY <1>14, <3>1 DEF vars, ReadIInv, MemoryFollows
  <2>2. OffsetFollows' /\ EndIsRead' /\ Filled(regions)'
    BY <1>14 DEF vars, ReadIInv, OffsetFollows, EndIsRead, SentinelIsNoAddress
  <2>3. RegistersFollow'
    BY <1>14 DEF vars, ReadIInv, RegistersFollow, RegistersAreRead, ReadR, NoFloats
  <2> QED
    BY <1>0, <2>1, <2>2, <2>3 DEF ReadIInv
<1> QED
  BY <1>1, <1>2, <1>3, <1>4, <1>5, <1>6, <1>7, <1>8, <1>9, <1>10, <1>11, <1>12, <1>13, <1>14
     DEF Next

\* What is read so far is what the file holds so far.
THEOREM ReadIInvHolds == Spec => []ReadIInv
<1>1. Init => ReadIInv
  BY InitReads
<1>2. ReadIInv /\ [Next]_vars => ReadIInv'
  BY NextReads
<1> QED
  BY <1>1, <1>2, PTL DEF Spec

\* Outside of a region, memory is what the regions before it hold.
LEMMA MemoryIs ==
  ASSUME ReadIInv, stage \in {"region", "done"} \/ exception = stackOverflowException
  PROVE  MemoryIsRead
<1>1. stage # "data" /\ (stage # "failed" \/ exception = stackOverflowException)
  BY DEF ReadIInv, EndIsRead
<1>2. \A a : Storing(a) = Holding(a) /\ ~JustCreated(a)
  BY <1>1 DEF Storing, JustCreated
<1> QED
  BY <1>1, <1>2 DEF ReadIInv, MemoryFollows, MemoryIsRead

\* A dump that was loaded, whatever its regions overlap and whatever image it is
\* loaded onto, has become the memory and the registers it holds (readDump).
THEOREM LoadedDumpIsRead == Spec => []DumpIsRead
<1>1. ReadIInv => DumpIsRead
  BY MemoryIs DEF DumpIsRead, ReadIInv, RegistersFollow
<1> QED
  BY <1>1, ReadIInvHolds, PTL

\* A dump that is cut inside of a region, or of a stack that overflowed, is never
\* loaded without complaint (readNextMemoryRegion).
THEOREM CutDumpIsRefused == Spec => []CutIsNoticed
<1>1. ReadIInv => CutIsNoticed
  <2> SUFFICES ASSUME ReadIInv, stage = "done" PROVE CutIsNoticed
    BY DEF CutIsNoticed
  <2> DEFINE n == Len(dump.blocks)
  <2>1. dump.length = BlocksEnd(dump, block - 1)
    BY DEF ReadIInv, EndIsRead
  <2>2. n \in Nat /\ block \in 1 .. n + 1 /\ dump \in Dumps
    BY DumpType DEF ReadIInv, DumpIInv, DumpTypeOK
  <2>3. block - 1 \in 0 .. n /\ n \in 0 .. n
    BY <2>2
  <2>4. /\ BlocksEnd(dump, block - 1) <= BlocksEnd(dump, n)
        /\ BlocksEnd(dump, block - 1) \in Nat /\ BlocksEnd(dump, n) \in Nat
    BY <2>2, <2>3, BlocksAscend, BlocksFollow
  <2>5. ASSUME dump.tail = "stack overflow"
        PROVE  dump.length < FileSize(dump)
    <3>1. FileSize(dump) = BlocksEnd(dump, n) + SentinelSize
      BY <2>5 DEF FileSize
    <3> HIDE DEF n
    <3> QED
      BY <2>1, <2>4, <3>1 DEF SentinelSize, WordSize
  <2> QED
    BY <2>1, <2>5 DEF CutIsNoticed
<1> QED
  BY <1>1, ReadIInvHolds, PTL

\* When no region starts at the sentinel, a stack overflow is only reported for a dump
\* that was read to its end: memory and registers are then as complete as without it
\* (readNextMemoryRegion).
THEOREM OverflowComesLast == Spec => []OverflowIsReportedLast
<1>1. ReadIInv => OverflowIsReportedLast
  BY MemoryIs DEF OverflowIsReportedLast, ReadIInv, EndIsRead, RegistersFollow
<1> QED
  BY <1>1, ReadIInvHolds, PTL
=============================================================================
