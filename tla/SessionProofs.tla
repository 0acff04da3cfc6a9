--------------------------- MODULE SessionProofs ---------------------------
(***************************************************************************)
(* Faults, types and the description of a fault in a session,              *)
(* for every launch, every packet and every way the console may fail.      *)
(***************************************************************************)
EXTENDS Session, MemoryRegionsProofs

\* The codes that a session throws.
LEMMA SessionCodes ==
  {noException, outOfMemoryException, busErrorException, fileException} \subseteq ToSet(Code)
<1>1. Code[1] = noException /\ Code[4] = outOfMemoryException /\ Code[5] = busErrorException
      /\ Code[7] = fileException /\ {1, 4, 5, 7} \subseteq DOMAIN Code
  BY DEF Code
<1> QED
  BY <1>1 DEF ToSet

\* Throwing sets a code and leaves the handlers alone (setExceptionCode).
LEMMA ThrownLive ==
  ASSUME NEW ex \in Exceptions, NEW e \in ToSet(Code)
  PROVE  /\ setExceptionCode(ex, e) \in Exceptions
         /\ setExceptionCode(ex, e).handlers = ex.handlers
<1>1. PICK c \in ToSet(Code) : setExceptionCode(ex, e) = [ex EXCEPT !.code = c]
  BY DEF setExceptionCode, Exceptions
<1> QED
  BY <1>1 DEF Exceptions

\* A whole try block, whether its body throws or not, leaves the handlers as they were.
LEMMA TriedLive ==
  ASSUME NEW ex \in Exceptions, NEW block \in Block, NEW e \in ToSet(Code)
  PROVE  /\ Tried(ex, block, e) \in Exceptions
         /\ Tried(ex, block, e).handlers = ex.handlers
<1> DEFINE tried  == Try(ex, block)
           thrown == setExceptionCode(tried, e)
<1>1. tried \in Exceptions /\ tried.handlers = Append(ex.handlers, block)
  BY SessionCodes DEF Try, Exceptions
<1>2. thrown \in Exceptions /\ thrown.handlers = Append(ex.handlers, block)
  BY <1>1, ThrownLive
<1>3. Front(Append(ex.handlers, block)) = ex.handlers
  <2>1. ex.handlers \in Seq(Block)
    BY DEF Exceptions
  <2> QED
    BY <2>1 DEF Front
<1>4. Tried(ex, block, e) = [thrown EXCEPT !.handlers = Front(@)]
  BY DEF Tried, Catch
<1> QED
  BY <1>2, <1>3, <1>4 DEF Exceptions

\* The catch block of main takes the last handler.
LEMMA CaughtLive ==
  ASSUME NEW ex \in Exceptions, NEW block, ex.handlers = <<block>>
  PROVE  Catch(ex) \in Exceptions /\ Catch(ex).handlers = <<>>
<1>1. Front(ex.handlers) = <<>>
  BY DEF Front
<1>2. Catch(ex) = [ex EXCEPT !.handlers = <<>>]
  BY <1>1 DEF Catch
<1>3. <<>> \in Seq(Block)
  OBVIOUS
<1>4. Catch(ex).handlers = <<>> /\ Catch(ex).code = ex.code
  BY <1>2 DEF Exceptions
<1> QED
  BY <1>2, <1>3, <1>4 DEF Exceptions

(***************************************************************************)
(* The invariant.                                                          *)
(***************************************************************************)

\* A step of the model carries whole try blocks out, so main's handler is the one that a
\* throw finds.
HandlersAreLive ==
  exceptions.handlers = IF stage = "exited" THEN <<>> ELSE <<"main">>

SessionInv ==
  /\ console \in {"up", "ended", "down"}
  /\ exceptions \in Exceptions
  /\ HandlersAreLive
  /\ FaultsAreAsked

LEMMA SessionInit == Init => SessionInv
<1> SUFFICES ASSUME Init PROVE SessionInv
  OBVIOUS
<1>1. exceptions = [handlers |-> <<"main">>, code |-> noException]
  BY DEF Init, Try
<1>2. <<"main">> \in Seq(Block)
  BY DEF Block
<1>3. exceptions \in Exceptions
  BY <1>1, <1>2, SessionCodes DEF Exceptions
<1> QED
  BY <1>1, <1>3 DEF Init, SessionInv, HandlersAreLive, FaultsAreAsked

\* A step that leaves the exceptions and the counter alone, or clears it.
LEMMA QuietStep ==
  ASSUME SessionInv, UNCHANGED <<console, exceptions>>, stage # "exited", stage' # "exited",
         \/ g_memoryFaultEncountered' = 0
         \/ stage # "accessed" /\ UNCHANGED g_memoryFaultEncountered
  PROVE  SessionInv'
BY DEF SessionInv, HandlersAreLive, FaultsAreAsked

\* A step that carries a try block out.
LEMMA TriedStep ==
  ASSUME SessionInv, UNCHANGED console, NEW block \in Block, NEW e \in ToSet(Code),
         exceptions' = Tried(exceptions, block, e),
         stage # "exited", stage' # "exited",
         \/ stage' = "accessed"
         \/ stage # "accessed" /\ UNCHANGED g_memoryFaultEncountered
  PROVE  SessionInv'
BY TriedLive DEF SessionInv, HandlersAreLive, FaultsAreAsked

\* A step that throws, to the catch block of main.
LEMMA ThrowStep ==
  ASSUME SessionInv, UNCHANGED console, NEW e \in ToSet(Code), Throw(e),
         stage \notin {"exited", "accessed"}, UNCHANGED g_memoryFaultEncountered
  PROVE  SessionInv' /\ stage' = "main"
<1>1. exceptions.handlers = <<"main">>
  BY DEF SessionInv, HandlersAreLive
<1>2. stage' = "main"
  BY <1>1 DEF Throw, Last
<1>3. exceptions' \in Exceptions /\ exceptions'.handlers = <<"main">>
  BY <1>1, ThrownLive DEF Throw, SessionInv
<1> QED
  BY <1>2, <1>3 DEF SessionInv, HandlersAreLive, FaultsAreAsked

\* The packets that are answered in one step.
LEMMA AnswersOnlyStep ==
  ASSUME SessionInv, NEW kind, NEW a, AnswersOnly(kind, a)
  PROVE  SessionInv'
<1>1. /\ UNCHANGED <<console, exceptions, g_memoryFaultEncountered>>
      /\ stage = "handling" /\ stage' = "answering"
  BY DEF AnswersOnly, Handles, Answers, world, access
<1> QED
  BY <1>1, QuietStep

\* An access of memory: it counts a fault or not, and the question is next.
LEMMA AccessStep ==
  ASSUME SessionInv, NEW type, NextAccess(type), NEW e \in {noException, busErrorException},
         TriesAccess(e)
  PROVE  SessionInv'
<1>1. UNCHANGED console /\ stage = "handling" /\ stage' = "accessed"
  BY DEF NextAccess, Handles, world
<1>2. exceptions' = Tried(exceptions, "Platform_Mem", e) /\ e \in ToSet(Code)
  BY SessionCodes DEF TriesAccess
<1> QED
  BY <1>1, <1>2, TriedStep DEF Block

\* A poll of the console.
LEMMA PollStep ==
  ASSUME SessionInv, Platform_CommIsWaitingForGdbToConnect
  PROVE  SessionInv'
<1>1. PICK result \in hasReceiveData :
        /\ exceptions' = Polled(result)
        /\ stage' \in {"stopped", "connecting"}
  BY DEF Platform_CommIsWaitingForGdbToConnect
<1>2. /\ stage = "connecting"
      /\ UNCHANGED <<console, g_memoryFaultEncountered>>
  BY DEF Platform_CommIsWaitingForGdbToConnect, world, access
<1>3. result.exception \in {noException, fileException}
  <2>1. CASE console = "up"
    BY <2>1 DEF hasReceiveData
  <2>2. CASE console = "ended"
    BY <2>2 DEF hasReceiveData
  <2>3. CASE console = "down"
    BY <2>3 DEF hasReceiveData
  <2> QED
    BY <2>1, <2>2, <2>3 DEF SessionInv
<1> DEFINE tried == Tried(exceptions, "hasReceiveData", result.exception)
<1>4. tried \in Exceptions /\ tried.handlers = exceptions.handlers
  BY <1>3, TriedLive, SessionCodes DEF SessionInv, Block
<1>5. exceptions' = [tried EXCEPT !.code = noException]
  BY <1>1 DEF Polled, clearExceptionCode
<1>6. exceptions' \in Exceptions /\ exceptions'.handlers = exceptions.handlers
  BY <1>4, <1>5, SessionCodes DEF Exceptions
<1> QED
  BY <1>1, <1>2, <1>6 DEF SessionInv, HandlersAreLive, FaultsAreAsked

\* A piece of the display, said, passed over or thrown at.
LEMMA DisplayStep ==
  ASSUME SessionInv, Platform_DisplayFaultCauseToGdbConsole
  PROVE  SessionInv'
<1>1. UNCHANGED console /\ stage = "displaying"
  BY DEF Platform_DisplayFaultCauseToGdbConsole, world
<1>2. \/ UNCHANGED <<exceptions, g_memoryFaultEncountered, stage>>
      \/ \E e \in {noException, busErrorException, fileException} :
           Looks(e) /\ UNCHANGED stage
      \/ Throw(fileException) /\ UNCHANGED g_memoryFaultEncountered
  BY DEF Platform_DisplayFaultCauseToGdbConsole
<1>3. CASE UNCHANGED <<exceptions, g_memoryFaultEncountered, stage>>
  BY <1>1, <1>3, QuietStep
<1>4. ASSUME NEW e \in {noException, busErrorException, fileException},
             Looks(e), UNCHANGED stage
      PROVE  SessionInv'
  BY <1>1, <1>4, TriedStep, SessionCodes DEF Looks, Block
<1>5. CASE Throw(fileException) /\ UNCHANGED g_memoryFaultEncountered
  BY <1>1, <1>5, ThrowStep, SessionCodes
<1> QED
  BY <1>2, <1>3, <1>4, <1>5

LEMMA SessionNext == SessionInv /\ [Next]_vars => SessionInv'
<1> SUFFICES ASSUME SessionInv, [Next]_vars PROVE SessionInv'
  OBVIOUS
<1> USE SessionCodes
<1>1. CASE Platform_CommIsWaitingForGdbToConnect
  BY <1>1, PollStep
<1>2. CASE ReceivePacket
  BY <1>2, QuietStep DEF ReceivePacket, world, access
<1>3. CASE ReceiveAtEnd
  BY <1>3, QuietStep DEF ReceiveAtEnd, world, access
<1>4. CASE ReceiveThrows
  BY <1>4, ThrowStep DEF ReceiveThrows, world, access
<1>5. CASE SendAnswer
  <2>1. UNCHANGED <<console, g_memoryFaultEncountered>> /\ stage = "answering"
    BY <1>5 DEF SendAnswer, world
  <2>2. CASE stage' = "stopped" /\ UNCHANGED exceptions
    BY <2>1, <2>2, QuietStep
  <2>3. CASE Throw(fileException)
    BY <2>1, <2>3, ThrowStep
  <2> QED
    BY <1>5, <2>2, <2>3 DEF SendAnswer
<1>6. CASE Platform_MemRead
  BY <1>6, AccessStep DEF Platform_MemRead, Accessed
<1>7. CASE Platform_MemWrite
  BY <1>7, AccessStep DEF Platform_MemWrite, Accessed
<1>8. CASE Platform_WasMemoryFaultEncountered
  <2>1. /\ UNCHANGED <<console, exceptions>>
        /\ stage = "accessed" /\ stage' \in {"handling", "answering"}
        /\ g_memoryFaultEncountered' = 0
    BY <1>8 DEF Platform_WasMemoryFaultEncountered, FaultsCleared, Answers, world
  <2> QED
    BY <2>1, QuietStep
<1>9. CASE MemoryPacketDone
  BY <1>9, QuietStep DEF MemoryPacketDone, Handles, Answers, world, access
<1>10. CASE Platform_CopyContextToBuffer
  BY <1>10, AnswersOnlyStep DEF Platform_CopyContextToBuffer
<1>11. CASE Platform_CopyContextFromBuffer
  <2>1. /\ UNCHANGED <<console, exceptions, g_memoryFaultEncountered>>
        /\ stage = "handling" /\ stage' = "answering"
    BY <1>11 DEF Platform_CopyContextFromBuffer, Handles, Answers, world, access
  <2> QED
    BY <2>1, QuietStep
<1>12. CASE Platform_GetDeviceMemoryMapXmlSize
  <2>1. UNCHANGED <<console, g_memoryFaultEncountered>> /\ stage = "handling"
    BY <1>12 DEF Platform_GetDeviceMemoryMapXmlSize, Handles, world, access
  <2>2. CASE stage' = "mapping" /\ UNCHANGED exceptions
    BY <2>1, <2>2, QuietStep
  <2>3. CASE Throw(outOfMemoryException)
    BY <2>1, <2>3, ThrowStep
  <2> QED
    BY <1>12, <2>2, <2>3 DEF Platform_GetDeviceMemoryMapXmlSize
<1>13. CASE Platform_GetDeviceMemoryMapXml
  <2>1. UNCHANGED <<console, g_memoryFaultEncountered>> /\ stage = "mapping"
    BY <1>13 DEF Platform_GetDeviceMemoryMapXml, world, access
  <2>2. CASE stage' = "answering" /\ UNCHANGED exceptions
    BY <2>1, <2>2, QuietStep
  <2>3. CASE Throw(outOfMemoryException)
    BY <2>1, <2>3, ThrowStep
  <2> QED
    BY <1>13, <2>2, <2>3 DEF Platform_GetDeviceMemoryMapXml, Answers
<1>14. CASE Platform_GetTargetXml
  BY <1>14, AnswersOnlyStep DEF Platform_GetTargetXml
<1>15. CASE Platform_SetHardwareBreakpoint
  BY <1>15, AnswersOnlyStep DEF Platform_SetHardwareBreakpoint
<1>16. CASE Platform_SetHardwareWatchpoint
  BY <1>16, AnswersOnlyStep DEF Platform_SetHardwareWatchpoint
<1>17. CASE AnswerStop
  BY <1>17, AnswersOnlyStep DEF AnswerStop
<1>18. CASE mriPlatform_Run
  BY <1>18, QuietStep DEF mriPlatform_Run, Handles, world, access
<1>19. CASE Platform_DisplayFaultCauseToGdbConsole
  BY <1>19, DisplayStep
<1>20. CASE Platform_WriteTResponseRegistersToBuffer
  BY <1>20, QuietStep DEF Platform_WriteTResponseRegistersToBuffer, Answers, world, access
<1>21. CASE main
  <2>1. /\ UNCHANGED <<console, g_memoryFaultEncountered>>
        /\ stage = "main" /\ stage' = "exited"
        /\ exceptions' = Catch(exceptions)
    BY <1>21 DEF main, world, access
  <2>2. exceptions.handlers = <<"main">>
    BY <2>1 DEF SessionInv, HandlersAreLive
  <2>3. exceptions' \in Exceptions /\ exceptions'.handlers = <<>>
    BY <2>1, <2>2, CaughtLive DEF SessionInv
  <2> QED
    BY <2>1, <2>3 DEF SessionInv, HandlersAreLive, FaultsAreAsked
<1>22. CASE ConsoleEnds
  BY <1>22 DEF ConsoleEnds, access, SessionInv, HandlersAreLive, FaultsAreAsked
<1>23. CASE UNCHANGED vars
  BY <1>23 DEF vars, SessionInv, HandlersAreLive, FaultsAreAsked
<1> QED
  BY <1>1, <1>2, <1>3, <1>4, <1>5, <1>6, <1>7, <1>8, <1>9, <1>10, <1>11, <1>12, <1>13, <1>14,
     <1>15, <1>16, <1>17, <1>18, <1>19, <1>20, <1>21, <1>22, <1>23 DEF Next, Program

(***************************************************************************)
(* What follows.                                                           *)
(***************************************************************************)

\* The inductive invariant: the exceptions are a stack of handlers and a code, a throw
\* finds main's handler, and no fault is left unasked.
THEOREM SessionInvHolds == Spec => []SessionInv
  BY SessionInit, SessionNext, PTL DEF Spec

\* A fault is counted only until mri has asked about the access that met it
\* (Platform_WasMemoryFaultEncountered); the display of a crash counts none.
THEOREM FaultsAreAlwaysAsked == Spec => []FaultsAreAsked
<1>1. SessionInv => FaultsAreAsked
  BY DEF SessionInv
<1> QED
  BY <1>1, SessionInvHolds, PTL

(***************************************************************************)
(* The types: regions stay sound whatever GDB writes to them, and so every *)
(* access that is permitted finds its bytes.                               *)
(***************************************************************************)

\* The address of the n-th access of a packet wraps at the top.
LEMMA UnitAddressType ==
  ASSUME NEW p \in MemoryPacket, NEW n \in Nat
  PROVE  UnitAddress(p, n) \in Address
<1>1. p.address \in Nat /\ AddressLimit \in Nat /\ AddressLimit > 0
  BY AddressLimitAssumption DEF MemoryPacket, Address
<1>2. p.size \in {1, 2, 4}
  BY DEF MemoryPacket, AccessSize, ByteSize, HalfWordSize, WordSize
<1>3. PICK x \in Nat : x = n * p.size
  BY <1>2
<1>4. PICK y \in Nat : y = p.address + x
  BY <1>1
<1>5. y % AddressLimit \in 0 .. AddressLimit - 1
  BY <1>1
<1> QED
  BY <1>3, <1>4, <1>5 DEF UnitAddress, Address

\* Accesses of one size, one after the other.
LEMMA Multiples ==
  ASSUME NEW n \in Nat, NEW c \in Nat, n < c, NEW k \in {1, 2, 4}
  PROVE  /\ n * k \in Nat /\ (n + 1) * k \in Nat /\ c * k \in Nat
         /\ n * k + k = (n + 1) * k /\ (n + 1) * k <= c * k
<1>1. \A x \in Nat : x * 1 = x /\ x * 2 = x + x /\ x * 4 = x + x + x + x
  OBVIOUS
<1>2. CASE k = 1
  BY <1>1, <1>2
<1>3. CASE k = 2
  BY <1>1, <1>3
<1>4. CASE k = 4
  BY <1>1, <1>4
<1> QED
  BY <1>2, <1>3, <1>4

\* The bytes of the n-th access of a packet that holds them.
LEMMA UnitType ==
  ASSUME NEW p \in MemoryPacket, NEW n \in Nat, n < p.count, Len(p.bytes) = p.count * p.size
  PROVE  Unit(p, n) \in [1 .. p.size -> Byte]
<1>1. /\ p.size \in {1, 2, 4} /\ p.count \in Nat /\ p.bytes \in Seq(Byte)
  BY DEF MemoryPacket, AccessSize, ByteSize, HalfWordSize, WordSize
<1>2. PICK first, last, length \in Nat :
        /\ first = n * p.size /\ last = (n + 1) * p.size /\ length = p.count * p.size
        /\ first + p.size = last /\ last <= length
  <2>1. n * p.size \in Nat /\ (n + 1) * p.size \in Nat /\ p.count * p.size \in Nat
    BY <1>1, Multiples
  <2>2. n * p.size + p.size = (n + 1) * p.size /\ (n + 1) * p.size <= p.count * p.size
    BY <1>1, Multiples
  <2> QED
    BY <2>1, <2>2
<1>3. \A i \in first + 1 .. last : p.bytes[i] \in Byte
  <2>1. \A i \in 1 .. Len(p.bytes) : p.bytes[i] \in Byte
    BY <1>1, ElementOfSeq
  <2> QED
    BY <1>2, <2>1
<1>4. /\ SubSeq(p.bytes, first + 1, last) \in Seq(Byte)
      /\ Len(SubSeq(p.bytes, first + 1, last))
           = IF first + 1 <= last THEN last - (first + 1) + 1 ELSE 0
  BY <1>2, <1>3, SubSeqProperties
<1>5. Len(SubSeq(p.bytes, first + 1, last)) = p.size
  <2>1. PICK m : m = Len(SubSeq(p.bytes, first + 1, last))
    OBVIOUS
  <2>2. m = IF first + 1 <= last THEN last - (first + 1) + 1 ELSE 0
    BY <1>4, <2>1
  <2>3. m = p.size
    <3>1. PICK k : k = p.size
      OBVIOUS
    <3>2. k \in {1, 2, 4} /\ first + k = last
      BY <1>1, <1>2, <3>1
    <3>3. m = k
      BY <2>2, <3>2
    <3> QED
      BY <3>1, <3>3
  <2> QED
    BY <2>1, <2>3
<1>6. SubSeq(p.bytes, first + 1, last) \in [1 .. p.size -> Byte]
  BY <1>4, <1>5, LenProperties
<1> QED
  BY <1>2, <1>6 DEF Unit

\* An access that is permitted finds its bytes in the data of its region.
LEMMA ReadBytesType ==
  ASSUME NEW rs, GoodRegions(rs), Sound(rs), NEW address \in Address, NEW size \in Nat,
         Matching(rs, address, size) # {}
  PROVE  ReadBytes(rs, address, size) \in Seq(Byte)
<1> DEFINE found == findMatchingRegion(rs, address, size)
<1>1. GoodRegion(rs[found.region])
  BY FindGood
<1>2. /\ RegionOffset(rs, found) \in Nat
      /\ RegionOffset(rs, found) + size <= Len(rs[found.region].pData)
  BY FoundInData DEF PointsIntoData
<1> HIDE DEF found
<1>3. PICK bytes : bytes = rs[found.region].pData
  OBVIOUS
<1>4. bytes \in Seq(Byte)
  BY <1>1, <1>3 DEF GoodRegion, MemoryRegion
<1>5. PICK o, n \in Nat : o = RegionOffset(rs, found) /\ n = Len(bytes)
  BY <1>2, <1>4, LenProperties
<1>6. \A i \in o + 1 .. o + size : bytes[i] \in Byte
  <2>1. \A i \in 1 .. n : bytes[i] \in Byte
    BY <1>4, <1>5, ElementOfSeq
  <2>2. o + size <= n
    BY <1>2, <1>3, <1>5
  <2> QED
    BY <1>5, <2>1, <2>2
<1>7. SubSeq(bytes, o + 1, o + size) \in Seq(Byte)
  BY <1>5, <1>6, SubSeqProperties
<1> QED
  BY <1>3, <1>5, <1>7 DEF ReadBytes, found

TypeInv ==
  /\ SessionTypeOK
  /\ GoodRegions(regions) /\ Sound(regions)
  /\ stage = "accessed" => packet.kind = "memory"
  /\ stage = "mapping" => packet.kind = "memory map"

LEMMA NoBytes == <<>> \in Seq(Byte)
  OBVIOUS

LEMMA TypeInit == Init => TypeInv
<1> SUFFICES ASSUME Init PROVE TypeInv
  OBVIOUS
<1>1. PICK launch \in Launches : regions = launch.regions /\ g_pContext = launch.context
  BY DEF Init
<1>2. /\ GoodRegions(regions) /\ Sound(regions)
      /\ regions \in Seq(MemoryRegion) /\ g_pContext \in RegisterContext
  BY <1>1, LaunchAssumption, SessionAssumption
<1>3. exceptions \in Exceptions
  BY SessionInit DEF SessionInv
<1> QED
  BY <1>2, <1>3, NoBytes DEF Init, TypeInv, SessionTypeOK

\* A step that changes neither memory nor registers nor what is read.
LEMMA TypeQuiet ==
  ASSUME TypeInv, SessionInv', UNCHANGED <<target, packet, access, hasGdbConnected>>,
         stage' \notin {"accessed", "mapping"} \/ (stage' = "mapping" /\ packet.kind = "memory map")
  PROVE  TypeInv'
BY DEF TypeInv, SessionTypeOK, SessionInv, target, access

\* The packet of an access.
LEMMA AccessPacket ==
  ASSUME TypeInv, packet.kind = "memory"
  PROVE  packet \in Packets /\ packet \in MemoryPacket
<1>1. packet \in Packets \cup {None} /\ None.kind = "none"
  BY DEF TypeInv, SessionTypeOK, None
<1>2. packet \in MemoryPacket \cup RegisterPacket \cup OtherPacket
  BY <1>1, SessionAssumption
<1> QED
  BY <1>1, <1>2 DEF RegisterPacket, OtherPacket

LEMMA TypeRead ==
  ASSUME TypeInv, SessionInv', Platform_MemRead
  PROVE  TypeInv'
<1> DEFINE address == UnitAddress(packet, done)
<1>1. /\ stage' = "accessed" /\ packet.kind = "memory"
      /\ UNCHANGED <<hasGdbConnected, g_pContext, packet, done, data, regions>>
      /\ \/ IsPermitted(regions, address, packet.size, READING)
            /\ retVal' = ReadBytes(regions, address, packet.size)
         \/ retVal' = [i \in 1 .. packet.size |-> 0]
      /\ \/ UNCHANGED g_memoryFaultEncountered
         \/ g_memoryFaultEncountered' = g_memoryFaultEncountered + 1
  BY DEF Platform_MemRead, NextAccess, Handles, TriesAccess, Accessed, noException,
         busErrorException
<1>2. packet \in MemoryPacket
  BY <1>1, AccessPacket
<1>3. done \in Nat /\ g_memoryFaultEncountered \in Nat
  BY DEF TypeInv, SessionTypeOK
<1>4. address \in Address /\ packet.size \in Nat
  BY <1>2, <1>3, UnitAddressType DEF MemoryPacket, AccessSize, ByteSize, HalfWordSize, WordSize
<1> HIDE DEF address
<1>5. retVal' \in Seq(Byte)
  <2>1. CASE IsPermitted(regions, address, packet.size, READING)
               /\ retVal' = ReadBytes(regions, address, packet.size)
    BY <1>4, <2>1, ReadBytesType DEF IsPermitted, TypeInv
  <2>2. CASE retVal' = [i \in 1 .. packet.size |-> 0]
    <3>1. retVal' \in [1 .. packet.size -> Byte]
      BY <2>2, ByteAssumption
    <3> QED
      BY <1>4, <3>1, SeqDef
  <2> QED
    BY <1>1, <2>1, <2>2
<1> QED
  BY <1>1, <1>3, <1>5 DEF TypeInv, SessionTypeOK, SessionInv

LEMMA TypeWrite ==
  ASSUME TypeInv, SessionInv', Platform_MemWrite
  PROVE  TypeInv'
<1> DEFINE address == UnitAddress(packet, done)
           found   == findMatchingRegion(regions, address, packet.size)
           new     == Overwrite(regions, found, Unit(packet, done))
<1>1. /\ stage' = "accessed" /\ packet.kind = "memory" /\ packet.type = WRITING
      /\ done < packet.count
      /\ UNCHANGED <<hasGdbConnected, g_pContext, packet, done, data, retVal>>
      /\ \/ IsPermitted(regions, address, packet.size, WRITING) /\ regions' = new
         \/ UNCHANGED regions
      /\ \/ UNCHANGED g_memoryFaultEncountered
         \/ g_memoryFaultEncountered' = g_memoryFaultEncountered + 1
  BY DEF Platform_MemWrite, NextAccess, Handles, TriesAccess, Accessed, noException,
         busErrorException
<1>2. packet \in MemoryPacket /\ packet \in Packets
  BY <1>1, AccessPacket
<1>3. done \in Nat /\ g_memoryFaultEncountered \in Nat
  BY DEF TypeInv, SessionTypeOK
<1>4. address \in Address /\ packet.size \in Nat
  BY <1>2, <1>3, UnitAddressType DEF MemoryPacket, AccessSize, ByteSize, HalfWordSize, WordSize
<1>5. Unit(packet, done) \in [1 .. packet.size -> Byte]
  BY <1>1, <1>2, <1>3, UnitType, PacketAssumption
<1> HIDE DEF address
<1>6. ASSUME IsPermitted(regions, address, packet.size, WRITING)
      PROVE  GoodRegions(new) /\ Sound(new)
  <2>1. found.region \in DOMAIN regions /\ found.address \in Address
    BY <1>4, <1>6, FindGood DEF IsPermitted, TypeInv
  <2> HIDE DEF found
  <2>2. GoodRegions(new)
    BY <1>4, <1>5, <2>1, OverwriteGood DEF TypeInv
  <2>3. Sound(new)
    BY <2>1, OverwritePlaces DEF TypeInv
  <2> QED
    BY <2>2, <2>3
<1> HIDE DEF new
<1>7. GoodRegions(regions') /\ Sound(regions')
  BY <1>1, <1>6 DEF TypeInv
<1>8. regions' \in Seq(MemoryRegion)
  BY <1>7 DEF GoodRegions
<1> QED
  BY <1>1, <1>3, <1>7, <1>8 DEF TypeInv, SessionTypeOK, SessionInv

\* mri has asked: what was read is kept, or the packet is given up.
LEMMA TypeAsked ==
  ASSUME TypeInv, SessionInv', Platform_WasMemoryFaultEncountered
  PROVE  TypeInv'
<1>1. /\ stage' \in {"handling", "answering"} /\ retVal' = <<>>
      /\ g_memoryFaultEncountered' = 0
      /\ done' \in {done, done + 1} /\ data' \in {data, data \o retVal}
      /\ UNCHANGED <<target, hasGdbConnected, packet>>
  BY DEF Platform_WasMemoryFaultEncountered, FaultsCleared, Answers
<1>2. retVal \in Seq(Byte) /\ data \in Seq(Byte) /\ data \o retVal \in Seq(Byte)
  BY ConcatProperties DEF TypeInv, SessionTypeOK
<1>3. UNCHANGED <<regions, g_pContext>>
  BY <1>1 DEF target
<1>4. done' \in Nat /\ data' \in Seq(Byte) /\ retVal' \in Seq(Byte)
  <2>1. done' \in Nat
    <3>1. done \in Nat
      BY DEF TypeInv, SessionTypeOK
    <3>2. done' = done \/ done' = done + 1
      BY <1>1
    <3> QED
      BY <3>1, <3>2
  <2>2. data' \in Seq(Byte)
    BY <1>1, <1>2
  <2>3. retVal' \in Seq(Byte)
    BY <1>1, NoBytes
  <2> QED
    BY <2>1, <2>2, <2>3
<1> QED
  BY <1>1, <1>3, <1>4 DEF TypeInv, SessionTypeOK, SessionInv

\* GDB writes the registers, all or the first ones.
LEMMA TypeRegisters ==
  ASSUME TypeInv, SessionInv', Platform_CopyContextFromBuffer
  PROVE  TypeInv'
<1>1. /\ packet.kind = "G" /\ stage' = "answering"
      /\ UNCHANGED <<regions, hasGdbConnected, packet, access>>
  BY DEF Platform_CopyContextFromBuffer, Handles, Answers
<1>2. packet \in RegisterPacket
  <2>1. packet \in MemoryPacket \cup RegisterPacket \cup OtherPacket
    BY <1>1, SessionAssumption DEF TypeInv, SessionTypeOK, None
  <2> QED
    BY <1>1, <2>1 DEF MemoryPacket, OtherPacket
<1>3. PICK rest \in {0, 1} :
        g_pContext' =
          [g_pContext EXCEPT
             !.R = [n \in Register |-> IF n < packet.length THEN packet.R[n] ELSE rest],
             !.FPR = IF hasFPURegisters(g_pContext)
                     THEN [n \in FPRegister |->
                             IF Cardinality(Register) + n < packet.length THEN packet.FPR[n]
                             ELSE rest]
                     ELSE @]
  BY DEF Platform_CopyContextFromBuffer
<1>4. g_pContext' \in RegisterContext
  <2> DEFINE R   == [n \in Register |-> IF n < packet.length THEN packet.R[n] ELSE rest]
             FPR == [n \in FPRegister |->
                       IF Cardinality(Register) + n < packet.length THEN packet.FPR[n] ELSE rest]
  <2>1. /\ g_pContext \in RegisterContext
        /\ packet.R \in [Register -> Nat] /\ packet.FPR \in [FPRegister -> Nat]
    BY <1>2 DEF RegisterPacket, TypeInv, SessionTypeOK
  <2>2. R \in [Register -> Nat] /\ FPR \in [FPRegister -> Nat]
    BY <2>1
  <2>3. \/ g_pContext' = [g_pContext EXCEPT !.R = R, !.FPR = FPR]
        \/ g_pContext' = [g_pContext EXCEPT !.R = R, !.FPR = @]
    BY <1>3
  <2> HIDE DEF R, FPR
  <2>4. /\ [g_pContext EXCEPT !.R = R, !.FPR = FPR] \in RegisterContext
        /\ [g_pContext EXCEPT !.R = R, !.FPR = @] \in RegisterContext
    BY <2>1, <2>2 DEF RegisterContext
  <2> QED
    BY <2>3, <2>4
<1> QED
  BY <1>1, <1>4 DEF TypeInv, SessionTypeOK, SessionInv, access

\* What is thrown between two calls is caught by main.
LEMMA ThrowsToMain ==
  ASSUME NEW e, Throw(e), HandlersAreLive, stage # "exited"
  PROVE  stage' = "main"
BY DEF Throw, HandlersAreLive, Last

\* The display changes nothing but what is said.
LEMMA TypeDisplay ==
  ASSUME TypeInv, SessionInv, SessionInv', Platform_DisplayFaultCauseToGdbConsole
  PROVE  TypeInv'
<1>1. /\ stage = "displaying"
      /\ UNCHANGED <<regions, g_pContext, hasGdbConnected, packet, done, retVal, data>>
      /\ \/ UNCHANGED stage
         \/ Throw(fileException)
  BY DEF Platform_DisplayFaultCauseToGdbConsole, target
<1>2. stage' \in {"displaying", "main"}
  BY <1>1, ThrowsToMain DEF SessionInv
<1>3. g_memoryFaultEncountered' = 0
  BY <1>2 DEF SessionInv, FaultsAreAsked
<1> QED
  BY <1>1, <1>2, <1>3 DEF TypeInv, SessionTypeOK, SessionInv

LEMMA TypeNext == TypeInv /\ SessionInv /\ SessionInv' /\ [Next]_vars => TypeInv'
<1> SUFFICES ASSUME TypeInv, SessionInv, SessionInv', [Next]_vars PROVE TypeInv'
  OBVIOUS
<1>0. HandlersAreLive
  BY DEF SessionInv
<1>1. ASSUME NEW kind, NEW a, AnswersOnly(kind, a)
      PROVE  TypeInv'
  BY <1>1, TypeQuiet DEF AnswersOnly, Answers
<1>2. CASE Platform_CommIsWaitingForGdbToConnect
  BY <1>2, TypeQuiet DEF Platform_CommIsWaitingForGdbToConnect
<1>3. CASE ReceivePacket
  BY <1>3 DEF ReceivePacket, TypeInv, SessionTypeOK, SessionInv, target, access
<1>4. CASE ReceiveAtEnd
  BY <1>4 DEF ReceiveAtEnd, TypeInv, SessionTypeOK, SessionInv, target, access
<1>5. CASE ReceiveThrows
  <2>1. stage = "stopped" /\ Throw(fileException)
        /\ UNCHANGED <<target, packet, access, hasGdbConnected>>
    BY <1>5 DEF ReceiveThrows
  <2> QED
    BY <1>0, <2>1, ThrowsToMain, TypeQuiet
<1>6. CASE SendAnswer
  <2>1. /\ stage = "answering" /\ packet' = None /\ done' = 0 /\ data' = <<>>
        /\ UNCHANGED <<regions, g_pContext, hasGdbConnected, g_memoryFaultEncountered, retVal>>
        /\ stage' = "stopped" \/ Throw(fileException)
    BY <1>6 DEF SendAnswer, target
  <2>2. stage' \in {"stopped", "main"}
    BY <1>0, <2>1, ThrowsToMain
  <2> QED
    BY <2>1, <2>2, NoBytes DEF TypeInv, SessionTypeOK, SessionInv
<1>7. CASE Platform_MemRead
  BY <1>7, TypeRead
<1>8. CASE Platform_MemWrite
  BY <1>8, TypeWrite
<1>9. CASE Platform_WasMemoryFaultEncountered
  BY <1>9, TypeAsked
<1>10. CASE MemoryPacketDone
  BY <1>10, TypeQuiet DEF MemoryPacketDone, Answers
<1>11. CASE Platform_CopyContextFromBuffer
  BY <1>11, TypeRegisters
<1>12. CASE Platform_GetDeviceMemoryMapXmlSize
  <2>1. /\ stage = "handling" /\ packet.kind = "memory map"
        /\ stage' = "mapping" \/ Throw(outOfMemoryException)
        /\ UNCHANGED <<target, packet, access, hasGdbConnected>>
    BY <1>12 DEF Platform_GetDeviceMemoryMapXmlSize, Handles
  <2> QED
    BY <1>0, <2>1, ThrowsToMain, TypeQuiet
<1>13. CASE Platform_GetDeviceMemoryMapXml
  <2>1. /\ stage = "mapping"
        /\ stage' = "answering" \/ Throw(outOfMemoryException)
        /\ UNCHANGED <<target, packet, access, hasGdbConnected>>
    BY <1>13 DEF Platform_GetDeviceMemoryMapXml, Answers
  <2> QED
    BY <1>0, <2>1, ThrowsToMain, TypeQuiet
<1>14. CASE mriPlatform_Run
  BY <1>14, TypeQuiet DEF mriPlatform_Run
<1>15. CASE Platform_DisplayFaultCauseToGdbConsole
  BY <1>15, TypeDisplay
<1>16. CASE Platform_WriteTResponseRegistersToBuffer
  BY <1>16, TypeQuiet DEF Platform_WriteTResponseRegistersToBuffer, Answers
<1>17. CASE main
  BY <1>17, TypeQuiet DEF main
<1>18. CASE ConsoleEnds
  BY <1>18 DEF ConsoleEnds, TypeInv, SessionTypeOK, SessionInv, target, access
<1>19. CASE UNCHANGED vars
  BY <1>19 DEF vars, TypeInv, SessionTypeOK
<1> QED
  BY <1>1, <1>2, <1>3, <1>4, <1>5, <1>6, <1>7, <1>8, <1>9, <1>10, <1>11, <1>12, <1>13, <1>14,
     <1>15, <1>16, <1>17, <1>18, <1>19
  DEF Next, Program, Platform_CopyContextToBuffer, Platform_GetTargetXml,
      Platform_SetHardwareBreakpoint, Platform_SetHardwareWatchpoint, AnswerStop

THEOREM TypeInvHolds == Spec => [](SessionInv /\ TypeInv)
<1>1. Init => SessionInv /\ TypeInv
  BY SessionInit, TypeInit
<1>2. SessionInv /\ TypeInv /\ [Next]_vars => (SessionInv /\ TypeInv)'
  BY SessionNext, TypeNext
<1> QED
  BY <1>1, <1>2, PTL DEF Spec

\* Every variable keeps its type, whatever GDB asks for: no packet reads or writes
\* beyond the data of a region (Platform_MemRead32, Platform_MemWrite32 and the others).
THEOREM SessionTypeCorrect == Spec => []SessionTypeOK
<1>1. TypeInv => SessionTypeOK
  BY DEF TypeInv
<1> QED
  BY <1>1, TypeInvHolds, PTL

(***************************************************************************)
(* What is said of a fault.                                                *)
(***************************************************************************)

Pieces ==
  [guarded : BOOLEAN, address : Address \cup {0},
   what : {"heading", "nothing", "CFSR", "HFSR"} \X (0 .. 31)]

\* A piece that says something of a bit of CFSR, when the console is up.
Tells(rs, text) ==
  text.what[1] = "CFSR" /\ (text.guarded => IsReadable(rs, text.address))

WillTell(rs, ts) == {ts[i].what : i \in {j \in DOMAIN ts : Tells(rs, ts[j])}}

BitsOfCFSR(bits) == {<<"CFSR", b>> : b \in bits}

\* One display after the other.
LEMMA TellConcat ==
  ASSUME NEW rs, NEW ts \in Seq(Pieces), NEW us \in Seq(Pieces)
  PROVE  /\ ts \o us \in Seq(Pieces)
         /\ WillTell(rs, ts \o us) = WillTell(rs, ts) \cup WillTell(rs, us)
<1>1. PICK m, n \in Nat :
        /\ m = Len(ts) /\ n = Len(us)
        /\ DOMAIN ts = 1 .. m /\ DOMAIN us = 1 .. n
  BY LenProperties
<1> DEFINE vs == ts \o us
<1>2. /\ vs \in Seq(Pieces)
      /\ Len(vs) = Len(ts) + Len(us)
      /\ \A i \in 1 .. Len(ts) + Len(us) :
           vs[i] = IF i <= Len(ts) THEN ts[i] ELSE us[i - Len(ts)]
  BY ConcatProperties
<1> HIDE DEF vs
<1>3. DOMAIN vs = 1 .. m + n /\ \A i \in 1 .. m + n : vs[i] = IF i <= m THEN ts[i] ELSE us[i - m]
  BY <1>1, <1>2, LenProperties
<1>4. \A i \in 1 .. m : i \in DOMAIN vs /\ vs[i] = ts[i]
  BY <1>3
<1>5. \A i \in 1 .. n : i + m \in DOMAIN vs /\ vs[i + m] = us[i]
  <2> TAKE i \in 1 .. n
  <2>1. i + m \in 1 .. m + n /\ ~(i + m <= m) /\ (i + m) - m = i
    BY <1>1
  <2> QED
    BY <1>3, <2>1
<1>6. \A i \in DOMAIN vs : (i \in DOMAIN ts /\ vs[i] = ts[i]) \/ (i - m \in DOMAIN us /\ vs[i] = us[i - m])
  BY <1>1, <1>3
<1>7. WillTell(rs, vs) \subseteq WillTell(rs, ts) \cup WillTell(rs, us)
  BY <1>6 DEF WillTell
<1>8. WillTell(rs, ts) \subseteq WillTell(rs, vs)
  BY <1>1, <1>4 DEF WillTell
<1>9. WillTell(rs, us) \subseteq WillTell(rs, vs)
  BY <1>1, <1>5 DEF WillTell
<1> QED
  BY <1>2, <1>7, <1>8, <1>9 DEF vs

LEMMA TellNothing == \A rs : <<>> \in Seq(Pieces) /\ WillTell(rs, <<>>) = {}
BY DEF WillTell

LEMMA TellOne ==
  ASSUME NEW rs, NEW text \in Pieces
  PROVE  /\ <<text>> \in Seq(Pieces)
         /\ WillTell(rs, <<text>>) = IF Tells(rs, text) THEN {text.what} ELSE {}
BY DEF WillTell

LEMMA PieceTypes ==
  /\ Say(Heading) \in Pieces /\ Say(Nothing) \in Pieces
  /\ \A address \in Address : Look(address, Nothing) \in Pieces
  /\ \A address \in Address, b \in 0 .. 31 : Look(address, <<"CFSR", b>>) \in Pieces
  /\ \A b \in 0 .. 31, status \in {"CFSR", "HFSR"} : Say(<<status, b>>) \in Pieces
BY DEF Say, Look, Heading, Nothing, Pieces

\* The bits that are tested one after the other.
LEMMA BitsTold ==
  ASSUME NEW rs, NEW address, NEW status \in {"CFSR", "HFSR"}, NEW order \in Seq(0 .. 31)
  PROVE  /\ SayBits(rs, address, status, order) \in Seq(Pieces)
         /\ WillTell(rs, SayBits(rs, address, status, order))
              = IF status = "CFSR"
                THEN BitsOfCFSR({b \in ToSet(order) : IsSet(rs, address, b)}) ELSE {}
<1>1. PICK n \in Nat : DOMAIN order = 1 .. n /\ \A i \in 1 .. n : order[i] \in 0 .. 31
  BY LenProperties, ElementOfSeq
<1> DEFINE what(i) == IF IsSet(rs, address, order[i]) THEN <<status, order[i]>> ELSE Nothing
           ts == SayBits(rs, address, status, order)
<1>2. DOMAIN ts = 1 .. n /\ \A i \in 1 .. n : ts[i] = Say(what(i))
  BY <1>1 DEF SayBits
<1>3. \A i \in 1 .. n : ts[i] \in Pieces
  BY <1>1, <1>2, PieceTypes
<1>4. ts \in Seq(Pieces)
  <2>1. ts = [i \in 1 .. n |-> ts[i]]
    BY <1>1 DEF SayBits
  <2>2. ts \in [1 .. n -> Pieces]
    BY <1>3, <2>1
  <2> QED
    BY <2>2, SeqDef
<1> HIDE DEF ts
<1>5. \A i \in 1 .. n : /\ ts[i].what = what(i)
                        /\ Tells(rs, ts[i]) <=> IsSet(rs, address, order[i]) /\ status = "CFSR"
  BY <1>2 DEF Say, Tells, Nothing
<1>6. WillTell(rs, ts) = {what(i) : i \in {j \in 1 .. n : IsSet(rs, address, order[j]) /\ status = "CFSR"}}
  BY <1>2, <1>5 DEF WillTell
<1>7. ToSet(order) = {order[i] : i \in 1 .. n}
  BY <1>1 DEF ToSet
<1> QED
  BY <1>4, <1>6, <1>7 DEF BitsOfCFSR, ts

\* One part of CFSR, of which one bit at most stands for an address; spoken has it
\* when the address can be read.
Stands(part, spoken) ==
  /\ spoken \in SUBSET (part \cap {7, 15})
  /\ \A b \in part \cap {7, 15}, c \in spoken : b = c

IsTold(rs, ts, bits) == ts \in Seq(Pieces) /\ WillTell(rs, ts) = BitsOfCFSR(bits)

LEMMA PartTold ==
  ASSUME NEW rs, NEW part \in SUBSET (0 .. 31), NEW order \in Seq(part), NEW at, NEW spoken,
         Stands(part, spoken), IsTold(rs, at, spoken)
  PROVE  IsTold(rs, PartOfCFSR(rs, part, at, order), Bits(rs, CFSR) \cap (spoken \cup ToSet(order)))
<1> DEFINE set   == Bits(rs, CFSR) \cap part
           look  == <<Look(CFSR, Nothing)>>
           head  == <<Say(Heading)>>
           there == IF set \cap {7, 15} = {} THEN <<>> ELSE at
           bits  == SayBits(rs, CFSR, "CFSR", order)
           text  == PartOfCFSR(rs, part, at, order)
           wanted == Bits(rs, CFSR) \cap (spoken \cup ToSet(order))
<1>a. /\ spoken \in SUBSET (part \cap {7, 15})
      /\ \A b \in part \cap {7, 15}, c \in spoken : b = c
      /\ at \in Seq(Pieces) /\ WillTell(rs, at) = BitsOfCFSR(spoken)
  BY DEF Stands, IsTold
<1>0. \A ts, us \in Seq(Pieces) :
        /\ ts \o us \in Seq(Pieces)
        /\ WillTell(rs, ts \o us) = WillTell(rs, ts) \cup WillTell(rs, us)
  BY TellConcat, Zenon
<1>1. text = look \o (IF set = {} THEN <<>> ELSE (head \o there) \o bits)
  BY DEF PartOfCFSR
<1>2. look \in Seq(Pieces) /\ WillTell(rs, look) = {}
  <2>1. Look(CFSR, Nothing) \in Pieces
    BY SessionAssumption, PieceTypes
  <2>2. ~Tells(rs, Look(CFSR, Nothing))
    BY DEF Tells, Look, Nothing
  <2> QED
    BY <2>1, <2>2, TellOne
<1>3. head \in Seq(Pieces) /\ WillTell(rs, head) = {}
  <2>1. ~Tells(rs, Say(Heading))
    BY DEF Tells, Say, Heading
  <2> QED
    BY <2>1, PieceTypes, TellOne
<1>4. ToSet(order) \subseteq part
  BY LenProperties, ElementOfSeq DEF ToSet
<1>5. \A b \in 0 .. 31 : b \in Bits(rs, CFSR) <=> IsSet(rs, CFSR, b)
  BY DEF Bits
<1>6. there \in Seq(Pieces) /\ WillTell(rs, there) = BitsOfCFSR(Bits(rs, CFSR) \cap spoken)
  <2>1. CASE set \cap {7, 15} = {}
    <3>1. there = <<>> /\ Bits(rs, CFSR) \cap spoken = {}
      BY <1>a, <2>1
    <3> QED
      BY <3>1, TellNothing DEF BitsOfCFSR
  <2>2. CASE set \cap {7, 15} # {}
    <3>1. there = at /\ Bits(rs, CFSR) \cap spoken = spoken
      BY <1>a, <2>2
    <3> QED
      BY <1>a, <3>1
  <2> QED
    BY <2>1, <2>2
<1>7. bits \in Seq(Pieces) /\ WillTell(rs, bits) = BitsOfCFSR(Bits(rs, CFSR) \cap ToSet(order))
  <2>1. order \in Seq(0 .. 31)
    <3>1. PICK n \in Nat : n = Len(order) /\ order \in [1 .. n -> part]
      BY LenProperties
    <3>2. order \in [1 .. n -> 0 .. 31]
      BY <3>1
    <3> QED
      BY <3>2, SeqDef
  <2>2. /\ bits \in Seq(Pieces)
        /\ WillTell(rs, bits) = BitsOfCFSR({b \in ToSet(order) : IsSet(rs, CFSR, b)})
    BY <2>1, BitsTold
  <2>3. {b \in ToSet(order) : IsSet(rs, CFSR, b)} = Bits(rs, CFSR) \cap ToSet(order)
    BY <1>4, <1>5
  <2> QED
    BY <2>2, <2>3
<1> HIDE DEF look, head, there, bits, text
<1>8. CASE set = {}
  <2>1. wanted = {} /\ text = look \o <<>>
    BY <1>1, <1>4, <1>8, <1>a
  <2> QED
    BY <1>2, <2>1, TellConcat, TellNothing DEF BitsOfCFSR, IsTold, text
<1>9. CASE set # {}
  <2>1. text = look \o ((head \o there) \o bits)
    BY <1>1, <1>9
  <2>2. head \o there \in Seq(Pieces) /\ WillTell(rs, head \o there) = WillTell(rs, there)
    <3>1. /\ head \o there \in Seq(Pieces)
          /\ WillTell(rs, head \o there) = WillTell(rs, head) \cup WillTell(rs, there)
      BY <1>0, <1>3, <1>6, Zenon
    <3> QED
      BY <1>3, <3>1
  <2>3. /\ (head \o there) \o bits \in Seq(Pieces)
        /\ WillTell(rs, (head \o there) \o bits) = WillTell(rs, there) \cup WillTell(rs, bits)
    BY <1>0, <1>7, <2>2, Zenon
  <2>4. /\ look \o ((head \o there) \o bits) \in Seq(Pieces)
        /\ WillTell(rs, look \o ((head \o there) \o bits))
             = WillTell(rs, there) \cup WillTell(rs, bits)
    <3> DEFINE rest == (head \o there) \o bits
    <3>1. /\ look \o rest \in Seq(Pieces)
          /\ WillTell(rs, look \o rest) = WillTell(rs, look) \cup WillTell(rs, rest)
      BY <1>0, <1>2, <2>3, Zenon
    <3> HIDE DEF rest
    <3> QED
      BY <1>2, <2>3, <3>1 DEF rest
  <2>5. BitsOfCFSR(Bits(rs, CFSR) \cap spoken) \cup BitsOfCFSR(Bits(rs, CFSR) \cap ToSet(order))
          = BitsOfCFSR(wanted)
    BY DEF BitsOfCFSR
  <2> QED
    BY <1>6, <1>7, <2>1, <2>4, <2>5 DEF IsTold, text
<1> QED
  BY <1>8, <1>9

\* The bit that stands for an address is told when the address can be read.
LEMMA AddressTold ==
  ASSUME NEW rs, NEW address \in Address, NEW b \in 0 .. 31
  PROVE  /\ <<Look(address, <<"CFSR", b>>)>> \in Seq(Pieces)
         /\ WillTell(rs, <<Look(address, <<"CFSR", b>>)>>)
              = BitsOfCFSR({c \in {b} : IsReadable(rs, address)})
<1>1. Look(address, <<"CFSR", b>>) \in Pieces
  BY PieceTypes
<1>2. /\ Tells(rs, Look(address, <<"CFSR", b>>)) <=> IsReadable(rs, address)
      /\ Look(address, <<"CFSR", b>>).what = <<"CFSR", b>>
  BY DEF Tells, Look
<1> QED
  BY <1>1, <1>2, TellOne DEF BitsOfCFSR

\* The three parts.
LEMMA MemFaultTold ==
  ASSUME NEW rs
  PROVE  /\ displayMemFaultCauseToGdbConsole(rs) \in Seq(Pieces)
         /\ WillTell(rs, displayMemFaultCauseToGdbConsole(rs))
              = BitsOfCFSR(Bits(rs, CFSR) \cap ({c \in {7} : IsReadable(rs, MMFAR)} \cup {0, 1, 3, 4, 5}))
<1> DEFINE part == 0 .. 7
           at == <<Look(MMFAR, <<"CFSR", 7>>)>>
           spoken == {c \in {7} : IsReadable(rs, MMFAR)}
           order  == <<5, 4, 3, 1, 0>>
<1>1. IsTold(rs, at, spoken)
  <2>1. MMFAR \in Address /\ 7 \in 0 .. 31
    BY SessionAssumption
  <2> QED
    BY <2>1, AddressTold DEF IsTold
<1>2. /\ order \in Seq(part) /\ ToSet(order) = {0, 1, 3, 4, 5}
      /\ Stands(part, spoken)
      /\ part \in SUBSET (0 .. 31)
  BY DEF ToSet, Stands
<1> HIDE DEF part, at, spoken, order
<1>3. IsTold(rs, PartOfCFSR(rs, part, at, order), Bits(rs, CFSR) \cap (spoken \cup ToSet(order)))
  BY <1>1, <1>2, PartTold
<1>4. displayMemFaultCauseToGdbConsole(rs) = PartOfCFSR(rs, part, at, order)
  BY DEF displayMemFaultCauseToGdbConsole, part, at, order
<1> QED
  BY <1>2, <1>3, <1>4 DEF spoken, IsTold

LEMMA BusFaultTold ==
  ASSUME NEW rs
  PROVE  /\ displayBusFaultCauseToGdbConsole(rs) \in Seq(Pieces)
         /\ WillTell(rs, displayBusFaultCauseToGdbConsole(rs))
              = BitsOfCFSR(Bits(rs, CFSR) \cap ({c \in {15} : IsReadable(rs, BFAR)} \cup 8 .. 13))
<1> DEFINE part == 8 .. 15
           at == <<Look(BFAR, <<"CFSR", 15>>)>>
           spoken == {c \in {15} : IsReadable(rs, BFAR)}
           order  == <<13, 12, 11, 10, 9, 8>>
<1>1. IsTold(rs, at, spoken)
  <2>1. BFAR \in Address /\ 15 \in 0 .. 31
    BY SessionAssumption
  <2> QED
    BY <2>1, AddressTold DEF IsTold
<1>2. /\ order \in Seq(part) /\ ToSet(order) = 8 .. 13
      /\ Stands(part, spoken)
      /\ part \in SUBSET (0 .. 31)
  BY DEF ToSet, Stands
<1> HIDE DEF part, at, spoken, order
<1>3. IsTold(rs, PartOfCFSR(rs, part, at, order), Bits(rs, CFSR) \cap (spoken \cup ToSet(order)))
  BY <1>1, <1>2, PartTold
<1>4. displayBusFaultCauseToGdbConsole(rs) = PartOfCFSR(rs, part, at, order)
  BY DEF displayBusFaultCauseToGdbConsole, part, at, order
<1> QED
  BY <1>2, <1>3, <1>4 DEF spoken, IsTold

LEMMA UsageFaultTold ==
  ASSUME NEW rs
  PROVE  /\ displayUsageFaultCauseToGdbConsole(rs) \in Seq(Pieces)
         /\ WillTell(rs, displayUsageFaultCauseToGdbConsole(rs))
              = BitsOfCFSR(Bits(rs, CFSR) \cap (16 .. 19 \cup {24, 25}))
<1> DEFINE part == 16 .. 31
           order  == <<25, 24, 19, 18, 17, 16>>
           spoken == {}
<1>1. IsTold(rs, <<>>, spoken)
  BY TellNothing DEF BitsOfCFSR, IsTold
<1>2. /\ order \in Seq(part) /\ ToSet(order) = 16 .. 19 \cup {24, 25}
      /\ Stands(part, spoken)
      /\ part \in SUBSET (0 .. 31)
      /\ spoken \cup ToSet(order) = ToSet(order)
  BY DEF ToSet, Stands
<1> HIDE DEF part, order, spoken
<1>3. IsTold(rs, PartOfCFSR(rs, part, <<>>, order), Bits(rs, CFSR) \cap (spoken \cup ToSet(order)))
  BY <1>1, <1>2, PartTold
<1>4. displayUsageFaultCauseToGdbConsole(rs) = PartOfCFSR(rs, part, <<>>, order)
  BY DEF displayUsageFaultCauseToGdbConsole, part, order
<1> QED
  BY <1>2, <1>3, <1>4 DEF IsTold

LEMMA HardFaultTold ==
  ASSUME NEW rs
  PROVE  /\ displayHardFaultCauseToGdbConsole(rs) \in Seq(Pieces)
         /\ WillTell(rs, displayHardFaultCauseToGdbConsole(rs))
              = IF IsSet(rs, HFSR, 30)
                THEN WillTell(rs, displayMemFaultCauseToGdbConsole(rs))
                       \cup WillTell(rs, displayBusFaultCauseToGdbConsole(rs))
                       \cup WillTell(rs, displayUsageFaultCauseToGdbConsole(rs))
                ELSE {}
<1> DEFINE look  == <<Say(Heading), Look(HFSR, Nothing)>>
           bits  == SayBits(rs, HFSR, "HFSR", <<31, 1, 30>>)
           mem   == displayMemFaultCauseToGdbConsole(rs)
           bus   == displayBusFaultCauseToGdbConsole(rs)
           usage == displayUsageFaultCauseToGdbConsole(rs)
           rest  == IF IsSet(rs, HFSR, 30) THEN (mem \o bus) \o usage ELSE <<>>
<1>1. displayHardFaultCauseToGdbConsole(rs) = (look \o bits) \o rest
  BY DEF displayHardFaultCauseToGdbConsole
<1>2. \A ts, us \in Seq(Pieces) :
        /\ ts \o us \in Seq(Pieces)
        /\ WillTell(rs, ts \o us) = WillTell(rs, ts) \cup WillTell(rs, us)
  BY TellConcat, Zenon
<1>3. look \in Seq(Pieces) /\ WillTell(rs, look) = {}
  <2>1. Say(Heading) \in Pieces /\ Look(HFSR, Nothing) \in Pieces
    BY SessionAssumption, PieceTypes
  <2>2. ~Tells(rs, Say(Heading)) /\ ~Tells(rs, Look(HFSR, Nothing))
    BY DEF Tells, Say, Look, Heading, Nothing
  <2> QED
    BY <2>1, <2>2 DEF WillTell
<1>4. bits \in Seq(Pieces) /\ WillTell(rs, bits) = {}
  <2>1. <<31, 1, 30>> \in Seq(0 .. 31) /\ "HFSR" \in {"CFSR", "HFSR"} /\ "HFSR" # "CFSR"
    OBVIOUS
  <2> QED
    BY <2>1, BitsTold
<1>5. /\ mem \in Seq(Pieces) /\ bus \in Seq(Pieces) /\ usage \in Seq(Pieces)
      /\ <<>> \in Seq(Pieces) /\ WillTell(rs, <<>>) = {}
  BY MemFaultTold, BusFaultTold, UsageFaultTold, TellNothing
<1> HIDE DEF look, bits, mem, bus, usage
<1>6. look \o bits \in Seq(Pieces) /\ WillTell(rs, look \o bits) = {}
  <2>1. WillTell(rs, look \o bits) = WillTell(rs, look) \cup WillTell(rs, bits)
    BY <1>2, <1>3, <1>4, Zenon
  <2>2. look \o bits \in Seq(Pieces)
    BY <1>2, <1>3, <1>4, Zenon
  <2> QED
    BY <1>3, <1>4, <2>1, <2>2
<1>7. /\ (mem \o bus) \o usage \in Seq(Pieces)
      /\ WillTell(rs, (mem \o bus) \o usage)
           = (WillTell(rs, mem) \cup WillTell(rs, bus)) \cup WillTell(rs, usage)
  <2>1. /\ mem \o bus \in Seq(Pieces)
        /\ WillTell(rs, mem \o bus) = WillTell(rs, mem) \cup WillTell(rs, bus)
    BY <1>2, <1>5, Zenon
  <2>2. /\ (mem \o bus) \o usage \in Seq(Pieces)
        /\ WillTell(rs, (mem \o bus) \o usage) = WillTell(rs, mem \o bus) \cup WillTell(rs, usage)
    BY <1>2, <1>5, <2>1, Zenon
  <2> QED
    BY <2>1, <2>2, Zenon
<1>8. /\ rest \in Seq(Pieces)
      /\ WillTell(rs, rest) = IF IsSet(rs, HFSR, 30)
                              THEN (WillTell(rs, mem) \cup WillTell(rs, bus)) \cup WillTell(rs, usage)
                              ELSE {}
  BY <1>5, <1>7
<1> HIDE DEF rest
<1>9. /\ (look \o bits) \o rest \in Seq(Pieces)
      /\ WillTell(rs, (look \o bits) \o rest) = WillTell(rs, look \o bits) \cup WillTell(rs, rest)
  BY <1>2, <1>6, <1>8, Zenon
<1>10. WillTell(rs, (look \o bits) \o rest) = WillTell(rs, rest)
  <2> DEFINE all == (look \o bits) \o rest
  <2>1. WillTell(rs, all) = {} \cup WillTell(rs, rest)
    BY <1>6, <1>9
  <2> HIDE DEF all
  <2>2. WillTell(rs, all) = WillTell(rs, rest)
    BY <2>1
  <2> QED
    BY <2>2 DEF all
<1> QED
  BY <1>1, <1>8, <1>9, <1>10 DEF mem, bus, usage

\* What will be said of a fault is its cause, and then comes a heading.
LEMMA FaultTold ==
  ASSUME NEW number
  PROVE  /\ FaultTexts(regions, number) \in Seq(Pieces)
         /\ WillTell(regions, FaultTexts(regions, number)) = BitsOfCFSR(Cause(number))
         /\ FaultTexts(regions, number) # <<>> =>
              LET ts == FaultTexts(regions, number) IN ts[Len(ts)] = Say(Heading)
<1> DEFINE mem   == displayMemFaultCauseToGdbConsole(regions)
           bus   == displayBusFaultCauseToGdbConsole(regions)
           usage == displayUsageFaultCauseToGdbConsole(regions)
           hard  == displayHardFaultCauseToGdbConsole(regions)
           Ends(ts) == ts[Len(ts)] = Say(Heading)
<1>1. ASSUME NEW ts \in Seq(Pieces)
      PROVE  /\ Append(ts, Say(Heading)) \in Seq(Pieces)
             /\ WillTell(regions, Append(ts, Say(Heading))) = WillTell(regions, ts)
             /\ Ends(Append(ts, Say(Heading)))
  <2> DEFINE us == Append(ts, Say(Heading))
  <2>1. PICK n \in Nat : n = Len(ts) /\ DOMAIN ts = 1 .. n
    BY LenProperties
  <2>2. /\ us \in Seq(Pieces) /\ Len(us) = n + 1
        /\ \A i \in 1 .. n : us[i] = ts[i]
        /\ us[n + 1] = Say(Heading)
    BY <2>1, PieceTypes, AppendProperties
  <2> HIDE DEF us
  <2>3. DOMAIN us = 1 .. n + 1
    BY <2>2, LenProperties
  <2>4. ~Tells(regions, us[n + 1])
    BY <2>2 DEF Tells, Say, Heading
  <2>5. {j \in DOMAIN us : Tells(regions, us[j])} = {j \in DOMAIN ts : Tells(regions, ts[j])}
    <3>1. 1 .. n + 1 = (1 .. n) \cup {n + 1}
      OBVIOUS
    <3> QED
      BY <2>1, <2>2, <2>3, <2>4, <3>1
  <2>6. WillTell(regions, us) = WillTell(regions, ts)
    BY <2>1, <2>2, <2>5 DEF WillTell
  <2> QED
    BY <2>2, <2>6 DEF us
<1>2. /\ mem \in Seq(Pieces) /\ bus \in Seq(Pieces) /\ usage \in Seq(Pieces)
      /\ hard \in Seq(Pieces)
  BY MemFaultTold, BusFaultTold, UsageFaultTold, HardFaultTold
<1>3. /\ Bits(regions, CFSR) \in SUBSET (0 .. 31)
      /\ 30 \in Bits(regions, HFSR) <=> IsSet(regions, HFSR, 30)
  BY DEF Bits
<1> DEFINE bits   == Bits(regions, CFSR)
           M      == IsReadable(regions, MMFAR)
           B      == IsReadable(regions, BFAR)
           told4  == bits \cap ({c \in {7} : M} \cup {0, 1, 3, 4, 5})
           told5  == bits \cap ({c \in {15} : B} \cup 8 .. 13)
           told6  == bits \cap (16 .. 19 \cup {24, 25})
           silent == {2, 6, 14} \cup 20 .. 23 \cup 26 .. 31 \cup {b \in {7} : ~M} \cup {b \in {15} : ~B}
<1>4. /\ WillTell(regions, mem) = BitsOfCFSR(told4)
      /\ WillTell(regions, bus) = BitsOfCFSR(told5)
      /\ WillTell(regions, usage) = BitsOfCFSR(told6)
      /\ WillTell(regions, hard) = BitsOfCFSR(IF 30 \in Bits(regions, HFSR)
                                              THEN told4 \cup told5 \cup told6 ELSE {})
  <2>1. BitsOfCFSR(told4) \cup BitsOfCFSR(told5) \cup BitsOfCFSR(told6)
          = BitsOfCFSR(told4 \cup told5 \cup told6)
        /\ BitsOfCFSR({}) = {}
    <3> HIDE DEF told4, told5, told6
    <3> QED
      BY DEF BitsOfCFSR
  <2> QED
    BY <1>3, <2>1, MemFaultTold, BusFaultTold, UsageFaultTold, HardFaultTold
<1>5. /\ told4 = bits \cap ((0 .. 7) \ silent)
      /\ told5 = bits \cap ((8 .. 15) \ silent)
      /\ told6 = bits \cap ((16 .. 31) \ silent)
      /\ told4 \cup told5 \cup told6 = bits \cap ((0 .. 31) \ silent)
  <2> HIDE DEF bits, M, B
  <2>1. told4 = bits \cap ((0 .. 7) \ silent)
    OBVIOUS
  <2>2. told5 = bits \cap ((8 .. 15) \ silent)
    OBVIOUS
  <2>3. told6 = bits \cap ((16 .. 31) \ silent)
    OBVIOUS
  <2>4. (0 .. 7) \cup (8 .. 15) \cup (16 .. 31) = 0 .. 31
    OBVIOUS
  <2> HIDE DEF told4, told5, told6, silent
  <2> QED
    BY <2>1, <2>2, <2>3, <2>4
<1>6. Cause(number) =
        CASE number = 3 -> bits \cap ((IF 30 \in Bits(regions, HFSR) THEN 0 .. 31 ELSE {}) \ silent)
          [] number = 4 -> bits \cap ((0 .. 7) \ silent)
          [] number = 5 -> bits \cap ((8 .. 15) \ silent)
          [] number = 6 -> bits \cap ((16 .. 31) \ silent)
          [] OTHER      -> bits \cap ({} \ silent)
  BY DEF Cause
<1> HIDE DEF bits, silent, told4, told5, told6, mem, bus, usage, hard, Ends
<1>7. CASE number = 3
  <2>1. FaultTexts(regions, number) = Append(hard, Say(Heading))
    BY <1>7 DEF FaultTexts, hard
  <2>2. WillTell(regions, hard) = BitsOfCFSR(Cause(number))
    <3>1. CASE 30 \in Bits(regions, HFSR)
      BY <1>4, <1>5, <1>6, <1>7, <3>1
    <3>2. CASE 30 \notin Bits(regions, HFSR)
      BY <1>4, <1>6, <1>7, <3>2
    <3> QED
      BY <3>1, <3>2
  <2> QED
    BY <1>1, <1>2, <2>1, <2>2 DEF Ends
<1>8. CASE number = 4
  <2>1. FaultTexts(regions, number) = Append(mem, Say(Heading))
    BY <1>8 DEF FaultTexts, mem
  <2>2. WillTell(regions, mem) = BitsOfCFSR(Cause(number))
    BY <1>4, <1>5, <1>6, <1>8
  <2> QED
    BY <1>1, <1>2, <2>1, <2>2 DEF Ends
<1>9. CASE number = 5
  <2>1. FaultTexts(regions, number) = Append(bus, Say(Heading))
    BY <1>9 DEF FaultTexts, bus
  <2>2. WillTell(regions, bus) = BitsOfCFSR(Cause(number))
    BY <1>4, <1>5, <1>6, <1>9
  <2> QED
    BY <1>1, <1>2, <2>1, <2>2 DEF Ends
<1>10. CASE number = 6
  <2>1. FaultTexts(regions, number) = Append(usage, Say(Heading))
    BY <1>10 DEF FaultTexts, usage
  <2>2. WillTell(regions, usage) = BitsOfCFSR(Cause(number))
    BY <1>4, <1>5, <1>6, <1>10
  <2> QED
    BY <1>1, <1>2, <2>1, <2>2 DEF Ends
<1>11. CASE number \notin {3, 4, 5, 6}
  <2>1. FaultTexts(regions, number) = <<>>
    BY <1>11 DEF FaultTexts
  <2>2. Cause(number) = {}
    BY <1>6, <1>11
  <2> QED
    BY <2>1, <2>2, TellNothing DEF BitsOfCFSR
<1> QED
  BY <1>7, <1>8, <1>9, <1>10, <1>11

\* What is said next, and what is left to be said.
LEMMA TailTold ==
  ASSUME NEW rs, NEW ts \in Seq(Pieces), ts # <<>>
  PROVE  /\ Tail(ts) \in Seq(Pieces)
         /\ WillTell(rs, ts) = (IF Tells(rs, Head(ts)) THEN {Head(ts).what} ELSE {})
                                  \cup WillTell(rs, Tail(ts))
         /\ IF Tail(ts) = <<>> THEN Head(ts) = ts[Len(ts)]
            ELSE Tail(ts)[Len(Tail(ts))] = ts[Len(ts)]
<1> DEFINE us == Tail(ts)
           text == Head(ts)
<1>1. us \in Seq(Pieces) /\ text = ts[1]
  BY HeadTailProperties
<1>2. PICK n \in Nat : /\ Len(us) = n /\ Len(ts) = n + 1
                       /\ \A i \in 1 .. n : us[i] = ts[i + 1]
  <2>1. PICK n \in Nat : Len(us) = n
    BY <1>1, LenProperties
  <2>2. Len(ts) \in Nat /\ Len(us) = Len(ts) - 1 /\ \A i \in 1 .. Len(us) : us[i] = ts[i + 1]
    BY HeadTailProperties, LenProperties
  <2> HIDE DEF us
  <2>3. Len(ts) = n + 1
    BY <2>1, <2>2
  <2> QED
    BY <2>1, <2>2, <2>3
<1>3. us = <<>> <=> n = 0
  BY <1>1, <1>2, EmptySeq
<1> HIDE DEF us, text
<1>4. DOMAIN us = 1 .. n /\ DOMAIN ts = 1 .. n + 1
  BY <1>1, <1>2, LenProperties
<1>5. IF us = <<>> THEN text = ts[n + 1] ELSE us[n] = ts[n + 1]
  BY <1>1, <1>2, <1>3
<1>6. WillTell(rs, ts) = (IF Tells(rs, text) THEN {text.what} ELSE {}) \cup WillTell(rs, us)
  <2>1. \A i \in DOMAIN ts : ts[i] = text \/ (i - 1 \in DOMAIN us /\ ts[i] = us[i - 1])
    BY <1>1, <1>2, <1>4
  <2>2. \A i \in DOMAIN us : i + 1 \in DOMAIN ts /\ ts[i + 1] = us[i]
    BY <1>2, <1>4
  <2>3. 1 \in DOMAIN ts /\ ts[1] = text
    BY <1>1, <1>4
  <2>4. WillTell(rs, ts) \subseteq (IF Tells(rs, text) THEN {text.what} ELSE {}) \cup WillTell(rs, us)
    BY <2>1 DEF WillTell
  <2>5. WillTell(rs, us) \subseteq WillTell(rs, ts)
    BY <2>2 DEF WillTell
  <2>6. Tells(rs, text) => text.what \in WillTell(rs, ts)
    BY <2>3 DEF WillTell
  <2> QED
    BY <2>4, <2>5, <2>6
<1> QED
  BY <1>1, <1>2, <1>5, <1>6 DEF us, text

\* What was said of CFSR, and what GDB should be told.
SaidOfCFSR == {what \in said : what[1] = "CFSR"}
Owed       == BitsOfCFSR(Cause(getCurrentlyExecutingExceptionNumber(g_pContext)))

\* While a fault is displayed, what was said of it and what will be said are its cause;
\* or a piece was lost to a console that throws: then the heading, which no try block
\* guards, is still to come, and will throw to main.
DescribeInv ==
  /\ stage = "displaying" =>
       /\ texts \in Seq(Pieces)
       /\ texts # <<>> => texts[Len(texts)] = Say(Heading)
       /\ \/ SaidOfCFSR \cup WillTell(regions, texts) = Owed
          \/ ConsoleThrows /\ texts # <<>>
  /\ FaultIsDescribed

\* A step after which nothing is displayed and no packet that resumes is answered.
LEMMA DescribeQuiet ==
  ASSUME stage' # "displaying", stage' # "answering" \/ packet'.kind # "resume"
  PROVE  DescribeInv'
BY DEF DescribeInv, FaultIsDescribed

LEMMA DescribeSame ==
  ASSUME DescribeInv, UNCHANGED <<stage, packet, texts, said, target>>,
         ConsoleThrows => ConsoleThrows'
  PROVE  DescribeInv'
<1>1. UNCHANGED <<regions, g_pContext>>
  BY DEF target
<1>2. UNCHANGED <<SaidOfCFSR, Owed, FaultIsDescribed>>
  BY <1>1 DEF SaidOfCFSR, Owed, Cause, FaultIsDescribed
<1> QED
  BY <1>1, <1>2 DEF DescribeInv

LEMMA DescribeAnswersOnly ==
  ASSUME NEW kind, NEW a, AnswersOnly(kind, a), kind # "resume"
  PROVE  DescribeInv'
BY DescribeQuiet DEF AnswersOnly, Answers, Handles

\* The display begins: nothing was said yet.
LEMMA DescribeRun ==
  ASSUME mriPlatform_Run
  PROVE  DescribeInv'
<1>1. /\ stage' = "displaying" /\ said' = {} /\ UNCHANGED <<regions, g_pContext>>
      /\ texts' = FaultTexts(regions, getCurrentlyExecutingExceptionNumber(g_pContext))
  BY DEF mriPlatform_Run, target
<1> DEFINE number == getCurrentlyExecutingExceptionNumber(g_pContext)
<1>2. /\ texts' \in Seq(Pieces)
      /\ WillTell(regions, texts') = BitsOfCFSR(Cause(number))
      /\ texts' # <<>> => texts'[Len(texts')] = Say(Heading)
  BY <1>1, FaultTold
<1>3. Owed' = BitsOfCFSR(Cause(number))
  BY <1>1 DEF Owed, Cause
<1>4. SaidOfCFSR' = {}
  BY <1>1 DEF SaidOfCFSR
<1> QED
  BY <1>1, <1>2, <1>3, <1>4 DEF DescribeInv, FaultIsDescribed

\* A piece is said, or says nothing, or is lost, or throws.
LEMMA DescribeDisplay ==
  ASSUME DescribeInv, SessionInv, Platform_DisplayFaultCauseToGdbConsole
  PROVE  DescribeInv'
<1> DEFINE text     == Head(texts)
           readable == IsReadable(regions, text.address)
           silent   == text.what = Nothing \/ (text.guarded /\ ~readable)
<1>1. /\ stage = "displaying" /\ texts # <<>>
      /\ UNCHANGED <<build, console, regions, g_pContext, packet>>
      /\ \/ /\ silent \/ console = "up"
            /\ texts' = Tail(texts) /\ UNCHANGED stage
            /\ said' = IF silent THEN said ELSE said \cup {text.what}
         \/ /\ ~silent /\ ConsoleThrows /\ text.guarded
            /\ texts' = Tail(texts) /\ UNCHANGED <<said, stage>>
         \/ Throw(fileException)
  BY DEF Platform_DisplayFaultCauseToGdbConsole, world, target
<1>2. /\ texts \in Seq(Pieces) /\ texts[Len(texts)] = Say(Heading)
      /\ \/ SaidOfCFSR \cup WillTell(regions, texts) = Owed
         \/ ConsoleThrows
  BY <1>1 DEF DescribeInv
<1>3. /\ Tail(texts) \in Seq(Pieces)
      /\ WillTell(regions, texts) = (IF Tells(regions, text) THEN {text.what} ELSE {})
                                       \cup WillTell(regions, Tail(texts))
      /\ IF Tail(texts) = <<>> THEN text = Say(Heading)
         ELSE Tail(texts)[Len(Tail(texts))] = Say(Heading)
  BY <1>1, <1>2, TailTold
<1>4. UNCHANGED <<Owed, ConsoleThrows>>
  BY <1>1 DEF Owed, Cause, ConsoleThrows
<1>5. text = Say(Heading) => ~silent /\ ~text.guarded
  BY DEF Say, Heading, Nothing
<1>6. Tells(regions, text) <=> text.what[1] = "CFSR" /\ ~silent
  BY DEF Tells, Nothing
<1>7. ~(console = "up" /\ ConsoleThrows)
  BY DEF ConsoleThrows
<1> HIDE DEF text, silent
<1>8. ASSUME texts' = Tail(texts), UNCHANGED stage,
             \/ SaidOfCFSR' \cup WillTell(regions, Tail(texts)) = Owed
             \/ ConsoleThrows /\ Tail(texts) # <<>>
      PROVE  DescribeInv'
  <2>1. stage' = "displaying" /\ regions' = regions
    BY <1>1, <1>8
  <2> QED
    BY <1>3, <1>4, <1>8, <2>1 DEF DescribeInv, FaultIsDescribed
<1>9. ASSUME silent \/ console = "up", texts' = Tail(texts), UNCHANGED stage,
             said' = IF silent THEN said ELSE said \cup {text.what}
      PROVE  DescribeInv'
  <2>1. SaidOfCFSR' = SaidOfCFSR \cup (IF Tells(regions, text) THEN {text.what} ELSE {})
    <3>1. CASE silent
      BY <1>6, <1>9, <3>1 DEF SaidOfCFSR
    <3>2. CASE ~silent
      BY <1>6, <1>9, <3>2 DEF SaidOfCFSR
    <3> QED
      BY <3>1, <3>2
  <2>2. CASE SaidOfCFSR \cup WillTell(regions, texts) = Owed
    BY <1>3, <1>8, <1>9, <2>1, <2>2
  <2>3. CASE ConsoleThrows
    <3>1. Tail(texts) # <<>>
      BY <1>3, <1>5, <1>7, <1>9, <2>3
    <3> QED
      BY <1>8, <1>9, <2>3, <3>1
  <2> QED
    BY <1>2, <2>2, <2>3
<1>10. ASSUME ConsoleThrows, text.guarded, texts' = Tail(texts), UNCHANGED stage
      PROVE  DescribeInv'
  <2>1. Tail(texts) # <<>>
    BY <1>3, <1>5, <1>10
  <2> QED
    BY <1>8, <1>10, <2>1
<1>11. CASE Throw(fileException)
  <2>1. stage' = "main"
    BY <1>1, <1>11, ThrowsToMain DEF SessionInv
  <2> QED
    BY <2>1, DescribeQuiet
<1> QED
  BY <1>1, <1>9, <1>10, <1>11

\* Everything was said when the signal follows.
LEMMA DescribeStop ==
  ASSUME DescribeInv, Platform_WriteTResponseRegistersToBuffer
  PROVE  DescribeInv'
<1>1. /\ stage = "displaying" /\ stage' = "answering" /\ texts = <<>>
      /\ UNCHANGED <<regions, g_pContext, said>>
  BY DEF Platform_WriteTResponseRegistersToBuffer, Answers, target, display
<1>2. SaidOfCFSR = Owed
  BY <1>1, TellNothing DEF DescribeInv
<1>3. UNCHANGED <<SaidOfCFSR, Owed>>
  BY <1>1 DEF SaidOfCFSR, Owed, Cause
<1>4. SaidOfCFSR' = Owed'
  BY <1>2, <1>3
<1> QED
  BY <1>1, <1>4 DEF DescribeInv, FaultIsDescribed, SaidOfCFSR, Owed, BitsOfCFSR

LEMMA DescribeNext == TypeInv /\ SessionInv /\ DescribeInv /\ [Next]_vars => DescribeInv'
<1> SUFFICES ASSUME TypeInv, SessionInv, DescribeInv, [Next]_vars PROVE DescribeInv'
  OBVIOUS
<1>0. HandlersAreLive
  BY DEF SessionInv
<1>1. CASE \/ Platform_CopyContextToBuffer \/ Platform_GetTargetXml \/ AnswerStop
           \/ Platform_SetHardwareBreakpoint \/ Platform_SetHardwareWatchpoint
  BY <1>1, DescribeAnswersOnly
  DEF Platform_CopyContextToBuffer, Platform_GetTargetXml, AnswerStop,
      Platform_SetHardwareBreakpoint, Platform_SetHardwareWatchpoint
<1>2. CASE Platform_CommIsWaitingForGdbToConnect
  BY <1>2, DescribeQuiet DEF Platform_CommIsWaitingForGdbToConnect
<1>3. CASE ReceivePacket
  BY <1>3, DescribeQuiet DEF ReceivePacket
<1>4. CASE ReceiveAtEnd
  BY <1>4, DescribeQuiet DEF ReceiveAtEnd
<1>5. CASE ReceiveThrows
  BY <1>0, <1>5, ThrowsToMain, DescribeQuiet DEF ReceiveThrows
<1>6. CASE SendAnswer
  <2>1. stage = "answering" /\ (stage' = "stopped" \/ Throw(fileException))
    BY <1>6 DEF SendAnswer
  <2>2. stage' \in {"stopped", "main"}
    BY <1>0, <2>1, ThrowsToMain
  <2> QED
    BY <2>2, DescribeQuiet
<1>7. CASE Platform_MemRead
  BY <1>7, DescribeQuiet DEF Platform_MemRead, NextAccess
<1>8. CASE Platform_MemWrite
  BY <1>8, DescribeQuiet DEF Platform_MemWrite, NextAccess
<1>9. CASE Platform_WasMemoryFaultEncountered
  <2>1. /\ stage = "accessed" /\ UNCHANGED packet
        /\ stage' = "handling" \/ stage' = "answering"
    BY <1>9 DEF Platform_WasMemoryFaultEncountered, Answers
  <2>2. packet'.kind = "memory"
    BY <2>1 DEF TypeInv
  <2> QED
    BY <2>1, <2>2, DescribeQuiet
<1>10. CASE MemoryPacketDone
  BY <1>10, DescribeQuiet DEF MemoryPacketDone, Answers, Handles
<1>11. CASE Platform_CopyContextFromBuffer
  <2>1. stage' = "answering" /\ packet'.kind = "G"
    BY <1>11 DEF Platform_CopyContextFromBuffer, Answers, Handles
  <2> QED
    BY <2>1, DescribeQuiet
<1>12. CASE Platform_GetDeviceMemoryMapXmlSize
  <2>1. stage = "handling" /\ (stage' = "mapping" \/ Throw(outOfMemoryException))
    BY <1>12 DEF Platform_GetDeviceMemoryMapXmlSize, Handles
  <2>2. stage' \in {"mapping", "main"}
    BY <1>0, <2>1, ThrowsToMain
  <2> QED
    BY <2>2, DescribeQuiet
<1>13. CASE Platform_GetDeviceMemoryMapXml
  <2>1. /\ stage = "mapping" /\ UNCHANGED packet
        /\ stage' = "answering" \/ Throw(outOfMemoryException)
    BY <1>13 DEF Platform_GetDeviceMemoryMapXml, Answers
  <2>2. stage' \in {"answering", "main"} /\ packet'.kind = "memory map"
    BY <1>0, <2>1, ThrowsToMain DEF TypeInv
  <2> QED
    BY <2>2, DescribeQuiet
<1>14. CASE mriPlatform_Run
  BY <1>14, DescribeRun
<1>15. CASE Platform_DisplayFaultCauseToGdbConsole
  BY <1>15, DescribeDisplay
<1>16. CASE Platform_WriteTResponseRegistersToBuffer
  BY <1>16, DescribeStop
<1>17. CASE main
  BY <1>17, DescribeQuiet DEF main
<1>18. CASE ConsoleEnds
  <2>1. UNCHANGED <<stage, packet, texts, said, target>> /\ ~ConsoleThrows
    BY <1>18 DEF ConsoleEnds, display, ConsoleThrows
  <2> QED
    BY <2>1, DescribeSame
<1>19. CASE UNCHANGED vars
  <2>1. UNCHANGED <<stage, packet, texts, said, target, build, console>>
    BY <1>19 DEF vars, target
  <2> QED
    BY <2>1, DescribeSame DEF ConsoleThrows
<1> QED
  BY <1>1, <1>2, <1>3, <1>4, <1>5, <1>6, <1>7, <1>8, <1>9, <1>10, <1>11, <1>12, <1>13, <1>14,
     <1>15, <1>16, <1>17, <1>18, <1>19
  DEF Next, Program

\* When GDB gets the signal of a stop it was told the cause of the fault and no more,
\* whatever was loaded and wherever the console failed
\* (Platform_DisplayFaultCauseToGdbConsole).
THEOREM FaultAlwaysDescribed == Spec => []FaultIsDescribed
<1>1. Init => DescribeInv
  BY DEF Init, DescribeInv, FaultIsDescribed
<1>2. TypeInv /\ SessionInv /\ DescribeInv /\ [Next]_vars => DescribeInv'
  BY DescribeNext
<1>3. DescribeInv => FaultIsDescribed
  BY DEF DescribeInv
<1> QED
  BY <1>1, <1>2, <1>3, TypeInvHolds, PTL DEF Spec

=============================================================================
