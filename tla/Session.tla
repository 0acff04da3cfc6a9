------------------------------ MODULE Session ------------------------------
(***************************************************************************)
(* The session with GDB: mriPlatform_Run and the Platform_ functions of    *)
(* libCrashDebug/src/mriPlatform.c, StandardIComm.c, the console of        *)
(* main/MockDefaults.c, and the catch block of main/main.c around them.    *)
(*                                                                         *)
(* Between two calls of Platform_ functions runs the mri core, which is    *)
(* not in the tree: it takes a packet, calls the functions that the packet *)
(* needs, and sends an answer.  What it does of its own is modelled from   *)
(* what mriPlatform.c and its tests expect of it.                          *)
(*                                                                         *)
(* The read counters of flash, which nothing in a session asks for, and    *)
(* break/watchpoints, which a session never sets, are left out.            *)
(***************************************************************************)
EXTENDS TryCatch

CONSTANTS
  Launches,                 \* what the loaders may leave behind: [regions, context]
  Packets,                  \* what GDB may ask for
  MallocOutcomes,           \* whether an allocation may succeed and may fail
  Builds,                   \* the builds: "WIN32", "POSIX"
  CFSR, HFSR, MMFAR, BFAR   \* 16#E000ED28#, 16#E000ED2C#, 16#E000ED34#, 16#E000ED38#

Register   == 0 .. 18       \* TOTAL_REG_COUNT
FPRegister == 0 .. 32       \* TOTAL_FPREG_COUNT

\* An element of g_pContext: flags is its CRASH_CATCHER_FLAGS_FLOATING_POINT.
RegisterContext == [exceptionPSR : Nat, R : [Register -> Nat], FPR : [FPRegister -> Nat],
                    flags : BOOLEAN]

\* A memory packet asks for count accesses of one size, one after the other.
MemoryPacket ==
  [kind : {"memory"}, type : AccessType, address : Address, size : AccessSize,
   count : Nat, bytes : Seq(Byte)]

\* A packet that writes the registers may be cut: it holds the first length ones.
RegisterPacket ==
  [kind : {"G"}, R : [Register -> Nat], FPR : [FPRegister -> Nat], length : Nat]

OtherPacket ==
  [kind : {"g", "?", "memory map", "target XML", "breakpoint", "watchpoint", "resume"}]

ASSUME SessionAssumption ==
  /\ Launches \subseteq [regions : Seq(MemoryRegion), context : RegisterContext]
  /\ Packets \subseteq MemoryPacket \cup RegisterPacket \cup OtherPacket
  /\ {CFSR, HFSR, MMFAR, BFAR} \subseteq Address

\* mri makes no access that the packet has no bytes for.
ASSUME PacketAssumption ==
  \A p \in Packets : p.kind = "memory" /\ p.type = WRITING => Len(p.bytes) = p.count * p.size

\* The loaders leave sound regions; chains of aliases, for which that is not so, are
\* the subject of MemorySim.
ASSUME LaunchAssumption ==
  \A launch \in Launches : GoodRegions(launch.regions) /\ Sound(launch.regions)

VARIABLES
  build,                     \* how the program was built
  regions,                   \* g_pMemory
  g_pContext,                \* the registers
  g_memoryFaultEncountered,
  hasGdbConnected,           \* a character of GDB was read
  console,                   \* stdin and stdout: "up", "ended" (stdin is) or "down"
  exceptions,                \* try_catch
  stage,                     \* where the program is; or the catch block that runs
  packet,                    \* the packet that is carried out
  done,                      \* how many of its accesses are
  retVal,                    \* the bytes of the access that was just read
  data,                      \* the bytes read for the packet
  texts,                     \* what is still to be said about the fault
  said,                      \* what was said about it
  answer,                    \* the answer to the packet, once it is decided
  told                       \* the error that stderr shows

vars == <<build, regions, g_pContext, g_memoryFaultEncountered, hasGdbConnected, console,
          exceptions, stage, packet, done, retVal, data, texts, said, answer, told>>

world   == <<build, console>>
target  == <<regions, g_pContext>>
access  == <<g_memoryFaultEncountered, done, retVal, data>>
display == <<texts, said>>

None == [kind |-> "none"]

Init ==
  /\ build \in Builds
  /\ \E launch \in Launches : regions = launch.regions /\ g_pContext = launch.context
  /\ g_memoryFaultEncountered = 0
  /\ hasGdbConnected = FALSE
  /\ console = "up"
  /\ exceptions = Try([handlers |-> <<>>, code |-> noException], "main")
  /\ stage = "connecting"
  /\ packet = None /\ done = 0 /\ retVal = <<>> /\ data = <<>>
  /\ texts = <<>> /\ said = {}
  /\ answer = None
  /\ told = noException

\* __throw: the innermost catch block runs next.
Throw(e) ==
  /\ exceptions' = setExceptionCode(exceptions, e)
  /\ stage' = Last(exceptions.handlers)

(***************************************************************************)
(* The console.                                                            *)
(***************************************************************************)

\* stdin or stdout may end or fail at any time.
ConsoleEnds ==
  /\ console = "up"
  /\ console' \in {"ended", "down"}
  /\ UNCHANGED <<build, target, hasGdbConnected, exceptions, stage, packet, access, display,
                 answer, told>>

\* A character read or written throws.  At the end of stdin that depends on the
\* build: read returns 0 and the caller gets a zero, ReadFile makes it throw.
ConsoleThrows == console = "down" \/ (console = "ended" /\ build = "WIN32")

\* What Console_HasStdInDataToRead may say, with what it throws caught: select fails
\* where PeekNamedPipe is not asked whether it did.
hasReceiveData ==
  CASE console = "up"    -> [data : BOOLEAN, exception : {noException}]
    [] console = "ended" -> [data : {build = "POSIX"}, exception : {noException}]
    [] console = "down"  -> [data : {FALSE},
                             exception : {IF build = "POSIX" THEN fileException
                                                             ELSE noException}]

Polled(result) ==
  clearExceptionCode(Tried(exceptions, "hasReceiveData", result.exception))

\* mri asks until GDB was heard.  It only waits on its first time around, and then
\* says nothing of the fault.
Platform_CommIsWaitingForGdbToConnect ==
  /\ stage = "connecting"
  /\ \E result \in hasReceiveData :
       /\ exceptions' = Polled(result)
       /\ stage' = IF hasGdbConnected \/ result.data THEN "stopped" ELSE "connecting"
  /\ UNCHANGED <<world, target, hasGdbConnected, packet, access, display, answer, told>>

ReceivePacket ==
  /\ stage = "stopped"
  /\ console = "up"
  /\ packet' \in Packets
  /\ hasGdbConnected' = TRUE
  /\ stage' = "handling"
  /\ UNCHANGED <<world, target, exceptions, access, display, answer, told>>

\* A packet that will not come, the end of a POSIX stdin read as zeroes.
ReceiveAtEnd ==
  /\ stage = "stopped"
  /\ console = "ended" /\ ~ConsoleThrows
  /\ hasGdbConnected' = TRUE
  /\ UNCHANGED <<world, target, exceptions, stage, packet, access, display, answer, told>>

\* Variant: a read that fails is passed over as a poll is.
ReceiveSwallows ==
  /\ stage = "stopped"
  /\ ConsoleThrows
  /\ exceptions' = Polled([data |-> {}, exception |-> fileException])
  /\ UNCHANGED <<world, target, hasGdbConnected, stage, packet, access, display, answer, told>>

ReceiveThrows ==
  /\ stage = "stopped"
  /\ ConsoleThrows
  /\ Throw(fileException)
  /\ UNCHANGED <<world, target, hasGdbConnected, packet, access, display, answer, told>>

\* The packet's answer is decided.
Answers(a) == answer' = a /\ stage' = "answering"

\* mri waits for GDB to acknowledge what it sent: for ever, when stdin has ended
\* and does not throw.
SendAnswer ==
  /\ stage = "answering"
  /\ \/ console = "up" /\ stage' = "stopped" /\ UNCHANGED exceptions
     \/ ConsoleThrows /\ Throw(fileException)
  /\ packet' = None /\ done' = 0 /\ data' = <<>> /\ answer' = None
  /\ said' = {}
  /\ UNCHANGED <<world, target, hasGdbConnected, g_memoryFaultEncountered, retVal, texts, told>>

(***************************************************************************)
(* Memory.                                                                 *)
(***************************************************************************)

Handles(kind) == stage = "handling" /\ packet.kind = kind

UnitAddress(p, n) == (p.address + n * p.size) % AddressLimit

Unit(p, n) == SubSeq(p.bytes, n * p.size + 1, (n + 1) * p.size)

\* The exception of an IMemory call.
Accessed(rs, address, size, type) ==
  IF IsPermitted(rs, address, size, type) THEN noException ELSE busErrorException

ReadBytes(rs, address, size) ==
  LET found == findMatchingRegion(rs, address, size)
  IN  SubSeq(rs[found.region].pData, RegionOffset(rs, found) + 1,
             RegionOffset(rs, found) + size)

\* __try { ... } __catch g_memoryFaultEncountered++;
TriesAccess(e) ==
  /\ exceptions' = Tried(exceptions, "Platform_Mem", e)
  /\ g_memoryFaultEncountered' =
       IF exceptions'.code = noException THEN g_memoryFaultEncountered
                                         ELSE g_memoryFaultEncountered + 1

NextAccess(type) ==
  /\ Handles("memory")
  /\ packet.type = type
  /\ done < packet.count
  /\ stage' = "accessed"
  /\ UNCHANGED <<world, hasGdbConnected, g_pContext, packet, done, data, display, answer,
                 told>>

\* Platform_MemRead32, 16 and 8
Platform_MemRead ==
  LET address == UnitAddress(packet, done)
      e       == Accessed(regions, address, packet.size, READING)
  IN  /\ NextAccess(READING)
      /\ TriesAccess(e)
      /\ retVal' = IF e = noException THEN ReadBytes(regions, address, packet.size)
                   ELSE [i \in 1 .. packet.size |-> 0]
      /\ UNCHANGED regions

\* Platform_MemWrite32, 16 and 8
Platform_MemWrite ==
  LET address == UnitAddress(packet, done)
      e       == Accessed(regions, address, packet.size, WRITING)
  IN  /\ NextAccess(WRITING)
      /\ TriesAccess(e)
      /\ regions' = IF e = noException
                    THEN Overwrite(regions, findMatchingRegion(regions, address, packet.size),
                                   Unit(packet, done))
                    ELSE regions
      /\ UNCHANGED retVal

\* Variant: the question takes one fault off the counter.
FaultsTakenOff(count) == count - 1

\* What Platform_WasMemoryFaultEncountered leaves of the counter.
FaultsCleared(count) == 0

\* mri asks after each access, and gives the packet up at the first fault.  A read
\* is then answered with what there is.
Platform_WasMemoryFaultEncountered ==
  /\ stage = "accessed"
  /\ g_memoryFaultEncountered' = FaultsCleared(g_memoryFaultEncountered)
  /\ retVal' = <<>>
  /\ \/ /\ g_memoryFaultEncountered = 0
        /\ done' = done + 1
        /\ data' = IF packet.type = READING THEN data \o retVal ELSE data
        /\ stage' = "handling"
        /\ UNCHANGED answer
     \/ /\ g_memoryFaultEncountered # 0
        /\ Answers(IF packet.type = READING /\ data # <<>>
                   THEN [kind |-> "data", bytes |-> data] ELSE [kind |-> "error"])
        /\ UNCHANGED <<done, data>>
  /\ UNCHANGED <<world, target, hasGdbConnected, exceptions, packet, display, told>>

MemoryPacketDone ==
  /\ Handles("memory")
  /\ done = packet.count
  /\ Answers(IF packet.type = READING THEN [kind |-> "data", bytes |-> data]
                                      ELSE [kind |-> "OK"])
  /\ UNCHANGED <<world, target, hasGdbConnected, exceptions, packet, access, display, told>>

(***************************************************************************)
(* Registers, and what GDB is told of the target.                          *)
(***************************************************************************)

AnswersOnly(kind, a) ==
  /\ Handles(kind)
  /\ Answers(a)
  /\ UNCHANGED <<world, target, hasGdbConnected, exceptions, packet, access, display, told>>

hasFPURegisters(context) == context.flags

\* The registers of a g or G packet: R, and FPR if there are any.
Registers(context) ==
  [R |-> context.R, FPR |-> IF hasFPURegisters(context) THEN context.FPR ELSE <<>>]

Platform_CopyContextToBuffer ==
  AnswersOnly("g", [kind |-> "registers", registers |-> Registers(g_pContext)])

RegisterCount(context) ==
  Cardinality(Register) + IF hasFPURegisters(context) THEN Cardinality(FPRegister) ELSE 0

\* What Buffer_ReadByteAsHex makes of a packet that has no more registers is up to
\* mri, which answers with an error.
Platform_CopyContextFromBuffer ==
  /\ Handles("G")
  /\ \E rest \in {0, 1} :
       LET Read(n, r) == IF n < packet.length THEN r ELSE rest
       IN  g_pContext' =
             [g_pContext EXCEPT
                !.R = [n \in Register |-> Read(n, packet.R[n])],
                !.FPR = IF hasFPURegisters(g_pContext)
                        THEN [n \in FPRegister |->
                                Read(Cardinality(Register) + n, packet.FPR[n])]
                        ELSE @]
  /\ Answers([kind |-> IF packet.length < RegisterCount(g_pContext) THEN "error" ELSE "OK"])
  /\ UNCHANGED <<world, regions, hasGdbConnected, exceptions, packet, access, display, told>>

\* The memory map is written anew for its size and for its text, into memory that is
\* allocated for it; mri does not catch.
Platform_GetDeviceMemoryMapXmlSize ==
  /\ Handles("memory map")
  /\ \E reallocOk \in MallocOutcomes :
       IF reallocOk THEN stage' = "mapping" /\ UNCHANGED exceptions
                    ELSE Throw(outOfMemoryException)
  /\ UNCHANGED <<world, target, hasGdbConnected, packet, access, display, answer, told>>

Platform_GetDeviceMemoryMapXml ==
  /\ stage = "mapping"
  /\ \E reallocOk \in MallocOutcomes :
       IF reallocOk
       THEN Answers([kind |-> "memory map", map |-> MemoryMap(regions)]) /\ UNCHANGED exceptions
       ELSE Throw(outOfMemoryException) /\ UNCHANGED answer
  /\ UNCHANGED <<world, target, hasGdbConnected, packet, access, display, told>>

\* The descriptions: how many words GDB gets for each register, by its regnum.
g_targetXML    == [n \in 0 .. 15 \cup 25 .. 27 |-> 1]
g_targetFpuXML == g_targetXML @@ [n \in 28 .. 43 |-> 2] @@ [n \in {44} |-> 1]

\* The size of the description, and then its text.
Platform_GetTargetXml ==
  AnswersOnly("target XML",
              [kind  |-> "target XML",
               words |-> IF hasFPURegisters(g_pContext) THEN g_targetFpuXML ELSE g_targetXML])

\* Ignored during post-mortem debugging.
Platform_SetHardwareBreakpoint == AnswersOnly("breakpoint", [kind |-> "OK"])
Platform_SetHardwareWatchpoint == AnswersOnly("watchpoint", [kind |-> "OK"])

(***************************************************************************)
(* Stopping: the signal, and the cause of a fault.                         *)
(***************************************************************************)

getCurrentlyExecutingExceptionNumber(context) == context.exceptionPSR % 256

Platform_DetermineCauseOfException(context) ==
  LET number == getCurrentlyExecutingExceptionNumber(context)
  IN  CASE number = 2        -> "SIGINT"
        [] number \in {3, 4} -> "SIGSEGV"
        [] number = 5        -> "SIGBUS"
        [] number = 6        -> "SIGILL"
        [] number = 12       -> "SIGTRAP"
        [] OTHER             -> "SIGSTOP"

\* The T response, with four of the registers.
Stop(context) ==
  [kind |-> "stop", signal |-> Platform_DetermineCauseOfException(context),
   R |-> [n \in 12 .. 15 |-> context.R[n]]]

AnswerStop == AnswersOnly("?", Stop(g_pContext))

\* A piece of the display: it says something about a bit, or it reads the word at
\* address in a try block and then does.  Bits of parts of CFSR have their place in
\* CFSR; wording is left out.
Heading          == <<"heading", 0>>
Nothing          == <<"nothing", 0>>
Say(what)        == [guarded |-> FALSE, address |-> 0, what |-> what]
Look(address, what) == [guarded |-> TRUE, address |-> address, what |-> what]

IsReadable(rs, address) == Matching(rs, address, WordSize) # {}

IsSet(rs, address, b) ==
  /\ IsReadable(rs, address)
  /\ (ReadBytes(rs, address, WordSize)[b \div 8 + 1] \div 2 ^ (b % 8)) % 2 = 1

\* The bits that are set in the word at address.
Bits(rs, address) == {b \in 0 .. 31 : IsSet(rs, address, b)}

\* The bits are tested one after the other, and one that is not set says nothing.
SayBits(rs, address, status, order) ==
  [i \in DOMAIN order |->
     Say(IF IsSet(rs, address, order[i]) THEN <<status, order[i]>> ELSE Nothing)]

\* One part of CFSR: nothing is said when none of its bits is set.
PartOfCFSR(rs, part, atAddress, order) ==
  LET set == Bits(rs, CFSR) \cap part
  IN  <<Look(CFSR, Nothing)>> \o
      IF set = {} THEN <<>>
      ELSE <<Say(Heading)>> \o (IF set \cap {7, 15} = {} THEN <<>> ELSE atAddress)
             \o SayBits(rs, CFSR, "CFSR", order)

displayMemFaultCauseToGdbConsole(rs) ==
  PartOfCFSR(rs, 0 .. 7, <<Look(MMFAR, <<"CFSR", 7>>)>>, <<5, 4, 3, 1, 0>>)

displayBusFaultCauseToGdbConsole(rs) ==
  PartOfCFSR(rs, 8 .. 15, <<Look(BFAR, <<"CFSR", 15>>)>>, <<13, 12, 11, 10, 9, 8>>)

\* Variant: the half of CFSR is masked as the two quarters are.
displayUsageFaultCauseMasked(rs) == PartOfCFSR(rs, 16 .. 23, <<>>, <<19, 18, 17, 16>>)

displayUsageFaultCauseToGdbConsole(rs) ==
  PartOfCFSR(rs, 16 .. 31, <<>>, <<25, 24, 19, 18, 17, 16>>)

displayHardFaultCauseToGdbConsole(rs) ==
  <<Say(Heading), Look(HFSR, Nothing)>> \o SayBits(rs, HFSR, "HFSR", <<31, 1, 30>>) \o
    IF IsSet(rs, HFSR, 30)
    THEN displayMemFaultCauseToGdbConsole(rs) \o displayBusFaultCauseToGdbConsole(rs)
           \o displayUsageFaultCauseToGdbConsole(rs)
    ELSE <<>>

FaultTexts(rs, number) ==
  CASE number = 3 -> Append(displayHardFaultCauseToGdbConsole(rs), Say(Heading))
    [] number = 4 -> Append(displayMemFaultCauseToGdbConsole(rs), Say(Heading))
    [] number = 5 -> Append(displayBusFaultCauseToGdbConsole(rs), Say(Heading))
    [] number = 6 -> Append(displayUsageFaultCauseToGdbConsole(rs), Say(Heading))
    [] OTHER      -> <<>>

\* GDB resumes, __mriDebugException returns, no one wants the run to stop, and it is
\* called again: nothing has moved.
mriPlatform_Run ==
  /\ Handles("resume")
  /\ texts' = FaultTexts(regions, getCurrentlyExecutingExceptionNumber(g_pContext))
  /\ said' = {}
  /\ stage' = "displaying"
  /\ UNCHANGED <<world, target, hasGdbConnected, exceptions, packet, access, answer, told>>

\* Variant: the display reads memory as GDB's packets do.
LooksCounted(e) == TriesAccess(e)

\* The display reads IMemory itself: what it cannot read is no fault of GDB's.
Looks(e) ==
  /\ exceptions' = Tried(exceptions, "display", e)
  /\ UNCHANGED g_memoryFaultEncountered

\* A console that fails within a try block of the display is passed over, together
\* with the rest of the block.
Platform_DisplayFaultCauseToGdbConsole ==
  LET text     == Head(texts)
      readable == IsReadable(regions, text.address)
      silent   == text.what = Nothing \/ (text.guarded /\ ~readable)
  IN  /\ stage = "displaying"
      /\ texts # <<>>
      /\ \/ /\ silent \/ console = "up"
            /\ IF text.guarded
               THEN Looks(IF readable THEN noException ELSE busErrorException)
               ELSE UNCHANGED <<exceptions, g_memoryFaultEncountered>>
            /\ texts' = Tail(texts)
            /\ said' = IF silent THEN said ELSE said \cup {text.what}
            /\ UNCHANGED stage
         \/ /\ ~silent /\ ConsoleThrows
            /\ text.guarded
            /\ Looks(fileException)
            /\ texts' = Tail(texts)
            /\ UNCHANGED <<said, stage>>
         \/ /\ ~silent /\ ConsoleThrows
            /\ ~text.guarded
            /\ Throw(fileException)
            /\ UNCHANGED <<g_memoryFaultEncountered, texts, said>>
      /\ UNCHANGED <<world, target, hasGdbConnected, packet, done, retVal, data, answer, told>>

Platform_WriteTResponseRegistersToBuffer ==
  /\ stage = "displaying"
  /\ texts = <<>>
  /\ Answers(Stop(g_pContext))
  /\ UNCHANGED <<world, target, hasGdbConnected, exceptions, packet, access, display, told>>

(***************************************************************************)
(* The end.                                                                *)
(***************************************************************************)

\* The catch block of main, which is told nothing but the code.
main ==
  /\ stage = "main"
  /\ exceptions' = Catch(exceptions)
  /\ told' = IF exceptions.code \in {fileException, elfFormatException,
                                      invalidArgumentException}
             THEN noException ELSE exceptions.code
  /\ stage' = "exited"
  /\ UNCHANGED <<world, target, hasGdbConnected, packet, access, display, answer>>

\* What the program does by itself.
Program ==
  \/ Platform_CommIsWaitingForGdbToConnect
  \/ ReceiveAtEnd
  \/ ReceiveThrows
  \/ SendAnswer
  \/ Platform_MemRead
  \/ Platform_MemWrite
  \/ Platform_WasMemoryFaultEncountered
  \/ MemoryPacketDone
  \/ Platform_CopyContextToBuffer
  \/ Platform_CopyContextFromBuffer
  \/ Platform_GetDeviceMemoryMapXmlSize
  \/ Platform_GetDeviceMemoryMapXml
  \/ Platform_GetTargetXml
  \/ Platform_SetHardwareBreakpoint
  \/ Platform_SetHardwareWatchpoint
  \/ AnswerStop
  \/ mriPlatform_Run
  \/ Platform_DisplayFaultCauseToGdbConsole
  \/ Platform_WriteTResponseRegistersToBuffer
  \/ main

Next == Program \/ ReceivePacket \/ ConsoleEnds

Spec == Init /\ [][Next]_vars /\ WF_vars(Program)

(***************************************************************************)
(* Properties.                                                             *)
(***************************************************************************)

\* Every variable keeps its type.
SessionTypeOK ==
  /\ regions \in Seq(MemoryRegion)
  /\ g_pContext \in RegisterContext
  /\ g_memoryFaultEncountered \in Nat
  /\ hasGdbConnected \in BOOLEAN
  /\ console \in {"up", "ended", "down"}
  /\ exceptions \in Exceptions
  /\ packet \in Packets \cup {None}
  /\ done \in Nat
  /\ retVal \in Seq(Byte) /\ data \in Seq(Byte)

\* The fault counter is zero whenever no answer to it is due: whatever the display of
\* a fault could not read, the first access of the next packet is not blamed for it.
FaultsAreAsked == g_memoryFaultEncountered # 0 => stage = "accessed"

\* The bits of CFSR that GDB should be told for a fault.
Cause(number) ==
  LET parts  == CASE number = 3 -> IF 30 \in Bits(regions, HFSR) THEN 0 .. 31 ELSE {}
                  [] number = 4 -> 0 .. 7
                  [] number = 5 -> 8 .. 15
                  [] number = 6 -> 16 .. 31
                  [] OTHER      -> {}
      unread == {b \in {7} : ~IsReadable(regions, MMFAR)}
                  \cup {b \in {15} : ~IsReadable(regions, BFAR)}
  IN  Bits(regions, CFSR) \cap (parts \ ({2, 6, 14} \cup 20 .. 23 \cup 26 .. 31 \cup unread))

\* When GDB gets the signal of a stop it was told every bit of CFSR that belongs to
\* the fault, by its number, and no other, although any of the registers may be
\* missing from the dump and a failing console is passed over within a try block.
FaultIsDescribed ==
  stage = "answering" /\ packet.kind = "resume" =>
    {what \in said : what[1] = "CFSR"}
      = {<<"CFSR", b>> : b \in Cause(getCurrentlyExecutingExceptionNumber(g_pContext))}

\* A console that fails ends the session, once GDB was heard: wherever the program is
\* then, also in a try block that passes over the failure.
ConsoleFailureEndsSession == (ConsoleThrows /\ hasGdbConnected) ~> stage = "exited"

\* What the catch block of main says of the exceptions that it is silent about: that a
\* message was displayed.
ExitsTellWhy == stage = "exited" => told # noException
=============================================================================
