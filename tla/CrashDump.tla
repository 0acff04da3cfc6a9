------------------------------ MODULE CrashDump ------------------------------
(***************************************************************************)
(* Loading a CrashCatcher dump (libCrashDebug/src/CrashCatcherDump.c), one *)
(* read of the file at a time.                                             *)
(*                                                                         *)
(* A file is what a complete dump would hold, how many of its bytes there  *)
(* are (length) and, for a hexadecimal dump, the first byte with a         *)
(* character that is no digit (bad, 0 if there is none).  hexRead skips    *)
(* line ends and drops a single digit at the end: neither is a byte.       *)
(***************************************************************************)
EXTENDS MemoryRegions

CONSTANTS
  Dumps,            \* the files that may be loaded
  Images,           \* the region lists that --elf or --bin may have left in memory
  RegisterCount,    \* the integer registers, MSP and PSP the last two: 19
  FloatCount,       \* the float registers: 33
  Value,            \* values of registers
  ZeroValue,        \* CommandLine_Init clears the registers
  DEFAULT_SP_VALUE,
  CRASH_CATCHER_STACK_SENTINEL,   \* the word that CrashCatcher writes when its stack overflowed
  MallocOutcomes    \* {TRUE, FALSE} where memory may run out

MSP == RegisterCount - 1
PSP == RegisterCount

Block == [startAddress : Address, endAddress : Address, data : Seq(Byte)]

Dump ==
  [signature : {"version 3", "version 2", "unknown"}, float : BOOLEAN,
   R : Seq(Value), exceptionPSR : Value, FPR : Seq(Value), blocks : Seq(Block),
   tail : {"nothing", "stack overflow"}, length : Nat, bad : Nat]

\* The registers that the dump has: version 2 has no MSP and PSP.
IntegerCount(d) == IF d.signature = "version 2" THEN RegisterCount - 2 ELSE RegisterCount

BytesInRegion(b) == (b.endAddress - b.startAddress) % AddressLimit

HeaderSize   == 2 * WordSize
SentinelSize == WordSize

\* The bytes of the file up to the regions, and up to the end of the first n.
RegistersEnd(d) ==
  WordSize * (3 + IntegerCount(d) + (IF d.float THEN FloatCount ELSE 0))

BlocksEnd(d, n) ==
  LET start[k \in 1 .. Len(d.blocks) + 1] ==
        IF k = 1 THEN RegistersEnd(d)
        ELSE start[k - 1] + HeaderSize + Len(d.blocks[k - 1].data)
  IN  start[n + 1]

FileSize(d) ==
  BlocksEnd(d, Len(d.blocks)) + (IF d.tail = "stack overflow" THEN SentinelSize ELSE 0)

ASSUME CountAssumption ==
  /\ RegisterCount \in Nat \ {0, 1}
  /\ FloatCount \in Nat

ASSUME SentinelAssumption == CRASH_CATCHER_STACK_SENTINEL \in Address

ASSUME DumpAssumption ==
  /\ Dumps \subseteq Dump
  /\ Images \subseteq Seq(MemoryRegion)
  /\ {ZeroValue, DEFAULT_SP_VALUE} \subseteq Value
  /\ MallocOutcomes \subseteq BOOLEAN

ASSUME ShapeAssumption ==
  \A d \in Dumps :
    /\ Len(d.R) = IntegerCount(d)
    /\ Len(d.FPR) = FloatCount
    /\ d.length <= FileSize(d)
    /\ \A i \in DOMAIN d.blocks : Len(d.blocks[i].data) = BytesInRegion(d.blocks[i])

\* Every region has as many bytes as its size (MemorySim_CreateRegion), aliases are
\* made after the dump was loaded and watchpoints are set by GDB.
ASSUME ImageAssumption ==
  \A rs \in Images : \A i \in DOMAIN rs :
    Len(rs[i].pData) = rs[i].size /\ ~rs[i].isAlias /\ rs[i].watchpoints = <<>>

fileException          == "file"
fileFormatException    == "file format"
stackOverflowException == "stack overflow"

VARIABLES
  dump,      \* the file
  image,     \* the memory before the dump was loaded
  regions,   \* the simulated memory
  context,   \* the RegisterContext
  stage,     \* what is read next
  offset,    \* the bytes read so far
  block,     \* the region that is read next, or is being read
  byte,      \* the byte of its data that is read next
  exception  \* what the call threw

vars == <<dump, image, regions, context, stage, offset, block, byte, exception>>

(***************************************************************************)
(* Reading.                                                                *)
(***************************************************************************)

Left == dump.length - offset

\* Variant: a short read counts as a whole one.
GotAll(n) == n

\* How many of n bytes pObject->read gets.
Got(n) == IF n < Left THEN n ELSE Left

\* The read meets a character that nibbleDigitToVal throws at.
MeetsBad(n) == dump.bad \in offset + 1 .. offset + Got(n)

\* The bytes that the read stores.
Read(n) == IF MeetsBad(n) THEN dump.bad - offset - 1 ELSE Got(n)

\* All of the n bytes are there.
ReadsAll(n) == Read(n) = n

Init ==
  /\ dump \in Dumps
  /\ image \in Images
  /\ regions = image
  /\ context = [float |-> FALSE, R |-> [i \in 1 .. RegisterCount |-> ZeroValue],
                exceptionPSR |-> ZeroValue, FPR |-> [i \in 1 .. FloatCount |-> ZeroValue]]
  /\ stage = "opening"
  /\ offset = 0
  /\ block = 1
  /\ byte = 1
  /\ exception = noException

\* The catch block closes the file and throws again.
Fail(e) ==
  /\ exception' = e
  /\ stage' = "failed"
  /\ UNCHANGED <<dump, image, regions, block, byte>>

openFileAndThrowOnError ==
  /\ stage = "opening"
  /\ \/ Fail(fileException) /\ UNCHANGED <<context, offset>>
     \/ /\ stage' = "signature"
        /\ UNCHANGED <<dump, image, regions, context, offset, block, byte, exception>>

validateDumpSignature ==
  /\ stage = "signature"
  /\ offset' = offset + Read(WordSize)
  /\ UNCHANGED context
  /\ \/ /\ ReadsAll(WordSize) /\ dump.signature # "unknown"
        /\ stage' = "flags"
        /\ UNCHANGED <<dump, image, regions, block, byte, exception>>
     \/ /\ ~(ReadsAll(WordSize) /\ dump.signature # "unknown")
        /\ Fail(fileFormatException)

\* Reads n bytes of the context: it becomes new, and the next stage is next if
\* all of them were there.
ReadsContext(n, new, next) ==
  /\ offset' = offset + Read(n)
  /\ context' = new
  /\ \/ /\ ReadsAll(n)
        /\ stage' = next
        /\ UNCHANGED <<dump, image, regions, block, byte, exception>>
     \/ ~ReadsAll(n) /\ Fail(fileFormatException)

readFlags ==
  /\ stage = "flags"
  /\ ReadsContext(WordSize,
       IF ReadsAll(WordSize) THEN [context EXCEPT !.float = dump.float] ELSE context,
       "integer registers")

\* The first n registers of old replaced: a register that is read in part keeps
\* its old value here (nothing looks at the registers of a dump that failed).
Replaced(old, new, n) == [i \in DOMAIN old |-> IF i <= n THEN new[i] ELSE old[i]]

\* Variant: a version 2 dump leaves the stack pointers as they are.
StackPointersKept(R) == R

\* Version 2 dumps have no MSP and PSP.
StackPointers(R) ==
  IF dump.signature = "version 2"
  THEN [R EXCEPT ![MSP] = DEFAULT_SP_VALUE, ![PSP] = DEFAULT_SP_VALUE] ELSE R

readIntegerRegisters ==
  LET n == WordSize * IntegerCount(dump)
  IN  /\ stage = "integer registers"
      /\ ReadsContext(n,
           [context EXCEPT !.R = Replaced(StackPointers(@), dump.R, Read(n) \div WordSize)],
           "exception PSR")

readExceptionPSR ==
  /\ stage = "exception PSR"
  /\ ReadsContext(WordSize,
       IF ReadsAll(WordSize) THEN [context EXCEPT !.exceptionPSR = dump.exceptionPSR]
       ELSE context,
       "float registers")

readFloatingPointRegisters ==
  /\ stage = "float registers"
  /\ LET n == WordSize * FloatCount
     IN  \/ /\ context.float
            /\ ReadsContext(n,
                 [context EXCEPT !.FPR = Replaced(@, dump.FPR, Read(n) \div WordSize)],
                 "region")
         \/ /\ ~context.float
            /\ stage' = "region"
            /\ UNCHANGED <<dump, image, regions, context, offset, block, byte, exception>>

(***************************************************************************)
(* The memory regions: a header, or the sentinel, or the end of the file.  *)
(***************************************************************************)

\* Variant: a header that is cut short ends the dump.
AtEndWhenShort == ~ReadsAll(HeaderSize)

\* Nothing is left to read.
AtEnd == ~MeetsBad(HeaderSize) /\ Read(HeaderSize) = 0

\* Variant: the sentinel is looked for in whatever is left.
AtSentinelAnywhere ==
  /\ ~MeetsBad(HeaderSize)
  /\ Read(HeaderSize) = SentinelSize

\* What is left is one word, and it is the sentinel: the word behind the last region, or
\* the start address of a region whose header was cut.
AtSentinel ==
  /\ ~MeetsBad(HeaderSize)
  /\ Read(HeaderSize) = SentinelSize
  /\ \/ block = Len(dump.blocks) + 1 /\ dump.tail = "stack overflow"
     \/ /\ block \in DOMAIN dump.blocks
        /\ dump.blocks[block].startAddress = CRASH_CATCHER_STACK_SENTINEL

ReadsHeader == stage = "region" /\ offset' = offset + Read(HeaderSize) /\ UNCHANGED context

readSentinel ==
  /\ ReadsHeader
  /\ AtSentinel
  /\ Fail(stackOverflowException)

readEnd ==
  /\ ReadsHeader
  /\ AtEnd /\ ~AtSentinel
  /\ stage' = "done"
  /\ UNCHANGED <<dump, image, regions, block, byte, exception>>

readTruncatedHeader ==
  /\ ReadsHeader
  /\ ~AtEnd /\ ~AtSentinel /\ ~ReadsAll(HeaderSize)
  /\ Fail(fileFormatException)

createMemoryRegion ==
  /\ ReadsHeader
  /\ ReadsAll(HeaderSize)
  /\ block \in DOMAIN dump.blocks
  /\ \E mallocOk \in MallocOutcomes :
       LET b       == dump.blocks[block]
           created == CreateRegion(regions, b.startAddress, BytesInRegion(b), mallocOk)
       IN  \/ /\ created.exception = noException
              /\ regions' = created.regions
              /\ stage' = "data"
              /\ byte' = 1
              /\ UNCHANGED <<dump, image, block, exception>>
           \/ /\ created.exception # noException
              /\ Fail(created.exception)

ReadsData == stage = "data" /\ byte <= BytesInRegion(dump.blocks[block])

\* Variant: the address does not wrap.
ByteAddressUnwrapped(b, k) == b.startAddress + k - 1

\* The address of the k-th byte of a region wraps.
ByteAddress(b, k) == (b.startAddress + k - 1) % AddressLimit

\* IMemory_Write8 of the next byte.
loadByte ==
  LET address == ByteAddress(dump.blocks[block], byte)
  IN  /\ ReadsData
      /\ ReadsAll(ByteSize)
      /\ offset' = offset + 1
      /\ UNCHANGED context
      /\ \/ /\ IsPermitted(regions, address, ByteSize, WRITING)
            /\ regions' = Overwrite(regions, findMatchingRegion(regions, address, ByteSize),
                                    <<dump.blocks[block].data[byte]>>)
            /\ byte' = byte + 1
            /\ UNCHANGED <<dump, image, stage, block, exception>>
         \/ /\ ~IsPermitted(regions, address, ByteSize, WRITING)
            /\ Fail(busErrorException)

readTruncatedData ==
  /\ ReadsData
  /\ ~ReadsAll(ByteSize)
  /\ Fail(fileFormatException)
  /\ UNCHANGED <<context, offset>>

nextMemoryRegion ==
  /\ stage = "data"
  /\ byte > BytesInRegion(dump.blocks[block])
  /\ stage' = "region"
  /\ block' = block + 1
  /\ UNCHANGED <<dump, image, regions, context, offset, byte, exception>>

Next ==
  \/ openFileAndThrowOnError
  \/ validateDumpSignature
  \/ readFlags
  \/ readIntegerRegisters
  \/ readExceptionPSR
  \/ readFloatingPointRegisters
  \/ readSentinel
  \/ readEnd
  \/ readTruncatedHeader
  \/ createMemoryRegion
  \/ loadByte
  \/ readTruncatedData
  \/ nextMemoryRegion

Spec == Init /\ [][Next]_vars

(***************************************************************************)
(* Properties.                                                             *)
(***************************************************************************)

\* Every variable keeps its type, and nothing is read beyond the end of the file.
DumpTypeOK ==
  /\ regions \in Seq(MemoryRegion)
  /\ context \in [float : BOOLEAN, R : [1 .. RegisterCount -> Value], exceptionPSR : Value,
                  FPR : [1 .. FloatCount -> Value]]
  /\ stage \in {"opening", "signature", "flags", "integer registers", "exception PSR",
                "float registers", "region", "data", "done", "failed"}
  /\ offset \in 0 .. dump.length
  /\ block \in 1 .. Len(dump.blocks) + 1
  /\ byte \in Nat \ {0}
  /\ exception \in {noException, fileException, fileFormatException, stackOverflowException,
                    outOfMemoryException, busErrorException}

\* The image that was loaded before the dump stays: the dump adds regions behind it
\* and writes to its RAM, but never to its flash (createAndLoadMemoryRegion).
ImageIsKept == KeepsRegions(image, regions)

\* The regions of the dump that were read before this one and hold address a.
Holding(a) ==
  {i \in 1 .. block - 1 :
     (a - dump.blocks[i].startAddress) % AddressLimit < BytesInRegion(dump.blocks[i])}

DumpedByte(i, a) == dump.blocks[i].data[((a - dump.blocks[i].startAddress) % AddressLimit) + 1]

MemoryIsRead ==
  \A a \in Address :
    IF Holding(a) # {}
    THEN /\ Matching(regions, a, ByteSize) # {}
         /\ ByteOf(regions, a) = DumpedByte(Max(Holding(a)), a)
    ELSE /\ Matching(regions, a, ByteSize) # {} <=> Matching(image, a, ByteSize) # {}
         /\ Matching(image, a, ByteSize) # {} => ByteOf(regions, a) = ByteOf(image, a)

RegistersAreRead ==
  /\ context.float = dump.float
  /\ context.exceptionPSR = dump.exceptionPSR
  /\ context.FPR = IF dump.float THEN dump.FPR ELSE [i \in 1 .. FloatCount |-> ZeroValue]
  /\ context.R = dump.R \o (IF dump.signature = "version 2"
                            THEN <<DEFAULT_SP_VALUE, DEFAULT_SP_VALUE>> ELSE <<>>)

\* A dump that was loaded has become the memory and the registers it holds, whatever
\* its regions overlap, and no other address has appeared (readDump as a whole).
DumpIsRead == stage = "done" => MemoryIsRead /\ RegistersAreRead

\* A dump is only loaded without complaint if it ends where a region ends and is
\* not one of a stack that overflowed: cut anywhere else, or ended by the sentinel,
\* it is refused (readNextMemoryRegion tells the three ends of a file apart).
CutIsNoticed ==
  stage = "done" =>
    /\ dump.length = BlocksEnd(dump, block - 1)
    /\ dump.tail = "stack overflow" => dump.length < FileSize(dump)

SentinelIsNoAddress ==
  \A i \in DOMAIN dump.blocks : dump.blocks[i].startAddress # CRASH_CATCHER_STACK_SENTINEL

\* When a stack overflow is reported the whole dump before the sentinel was read, unless
\* a region starts at the address that is the sentinel: cut behind that address, its
\* header is taken for one (isStackOverflowSentinelInsteadOfRegionDescription).
OverflowIsReportedLast ==
  exception = stackOverflowException /\ SentinelIsNoAddress =>
    /\ dump.length = FileSize(dump) /\ offset = dump.length
    /\ MemoryIsRead /\ RegistersAreRead

Loader == INSTANCE DumpLoader WITH
  ended    <- stage \in {"done", "failed"},
  Failures <- {fileException, fileFormatException, stackOverflowException,
               outOfMemoryException, busErrorException}

\* What CrashDebugCommandLine_Init relies on (CrashCatcherDump_ReadBinary and
\* CrashCatcherDump_ReadHex): memory grows by RAM only, a store never reaches flash, and
\* nothing is touched after the end.
ImplementsDumpLoader == Loader!Spec
=============================================================================
