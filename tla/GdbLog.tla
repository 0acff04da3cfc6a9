------------------------------- MODULE GdbLog -------------------------------
(***************************************************************************)
(* Loading a GDB log as a crash dump (libCrashDebug/src/GdbLogParser.c).   *)
(* The log is read twice: the first pass sets registers and creates the    *)
(* memory regions, joining lines whose addresses follow each other; the    *)
(* second pass writes the words into them.                                 *)
(*                                                                         *)
(* A log is a sequence of lines as fgets returns them.  The text of a line *)
(* is abstracted to what parseLine makes of it: a memory line is its       *)
(* address, the words it shows and what follows the last of them.          *)
(***************************************************************************)
EXTENDS MemoryRegions

CONSTANTS
  Logs,            \* the logs that may be loaded
  Images,          \* the region lists that --elf or --bin may have left in memory
  Register,        \* the registers of RegisterContext
  FloatRegister,   \* S0 to S31
  MSP, PSP,
  Value,           \* values of registers
  ZeroValue,       \* CommandLine_Init clears the registers
  DEFAULT_SP_VALUE,
  MallocOutcomes   \* {TRUE, FALSE} where memory may run out

WordValue == [1 .. WordSize -> Byte]

\* What follows the last word that a memory line shows.
Rest == {"nothing", "white space", "text"}

MemoryLine == [type : {"memory"}, address : Address, shown : Seq(WordValue), rest : Rest]

\* A register line has the value that parseRegisterLine makes of it: -1 for a
\* float register shown without its raw value.
RegisterLine == [type : {"register"}, register : Register, value : Value]

OtherLine == [type : {"other"}]

ASSUME LogAssumption ==
  /\ Logs \subseteq Seq(MemoryLine \cup RegisterLine \cup OtherLine)
  /\ Images \subseteq Seq(MemoryRegion)
  /\ FloatRegister \subseteq Register
  /\ {MSP, PSP} \subseteq Register \ FloatRegister
  /\ {ZeroValue, DEFAULT_SP_VALUE} \subseteq Value
  /\ MallocOutcomes \subseteq BOOLEAN

\* Every region has as many bytes as its size (MemorySim_CreateRegion), aliases are
\* made after the log was loaded and watchpoints are set by GDB.
ASSUME ImageAssumption ==
  \A rs \in Images : \A i \in DOMAIN rs :
    Len(rs[i].pData) = rs[i].size /\ ~rs[i].isAlias /\ rs[i].watchpoints = <<>>

fileException == "file"

VARIABLES
  log,       \* the lines of the file
  image,     \* the memory before the log was loaded
  regions,   \* the simulated memory
  context,   \* the RegisterContext: the float flag and the registers
  pass,      \* how far GdbLogParse is
  pos,       \* the line that is read next
  word,      \* the word of that line that the second pass writes next
  scan,      \* the ParseObject: the region that the first pass is joining
  exception  \* what GdbLogParse threw

vars == <<log, image, regions, context, pass, pos, word, scan, exception>>

Sentinel == AddressLimit - 1

FreshScan == [regionStart |-> Sentinel, regionSize |-> 0, nextExpectedAddress |-> Sentinel]

(***************************************************************************)
(* Parsing a line.                                                         *)
(***************************************************************************)

MaxValues == 4

\* The addresses are whole words, and a line does not reach around them: 2^32.
ASSUME WordAssumption ==
  AddressLimit % WordSize = 0 /\ AddressLimit >= WordSize * MaxValues

\* The words shown that a line has room for.
Shown(line) ==
  SubSeq(line.shown, 1, IF Len(line.shown) < MaxValues THEN Len(line.shown) ELSE MaxValues)

\* Variant: the last value that there is room for is left out.
ParsedOneShort(line) ==
  SubSeq(line.shown, 1, IF Len(line.shown) < MaxValues THEN Len(line.shown) ELSE MaxValues - 1)

\* parseMemoryLine asks for another value as long as there is another character,
\* and strtoul makes a zero of what is no number: white space after the last
\* value is one more word, text is as many words as there is room for.
PhantomCount(line) ==
  LET room == MaxValues - Len(Shown(line))
  IN  CASE line.rest = "nothing"     -> 0
        [] line.rest = "white space" -> IF room > 0 THEN 1 ELSE 0
        [] line.rest = "text"        -> room

Parsed(line) ==
  Shown(line) \o [i \in 1 .. PhantomCount(line) |-> [b \in 1 .. WordSize |-> 0]]

ByteCount(line) == WordSize * Len(Parsed(line))

WordAddress(line, i) == (line.address + WordSize * (i - 1)) % AddressLimit

(***************************************************************************)
(* Joining lines into regions.                                             *)
(***************************************************************************)

\* Variant: a line that starts a region is not counted.
JoinedOneShort(line) ==
  LET follows == line.address = scan.nextExpectedAddress
  IN  [regionStart |-> IF follows THEN scan.regionStart ELSE line.address,
       regionSize |-> IF follows THEN (scan.regionSize + ByteCount(line)) % AddressLimit ELSE 0,
       nextExpectedAddress |-> (line.address + ByteCount(line)) % AddressLimit]

\* Variant: the size is not reset for the next region.
JoinedKeepsSize(line) ==
  [regionStart |-> IF line.address = scan.nextExpectedAddress THEN scan.regionStart
                   ELSE line.address,
   regionSize |-> (scan.regionSize + ByteCount(line)) % AddressLimit,
   nextExpectedAddress |-> (line.address + ByteCount(line)) % AddressLimit]

\* Variant: the next address does not wrap.
JoinedUnwrapped(line) ==
  LET follows == line.address = scan.nextExpectedAddress
  IN  [regionStart |-> IF follows THEN scan.regionStart ELSE line.address,
       regionSize |-> ((IF follows THEN scan.regionSize ELSE 0) + ByteCount(line)) % AddressLimit,
       nextExpectedAddress |-> line.address + ByteCount(line)]

\* The scan after a memory line.
Joined(line) ==
  LET follows == line.address = scan.nextExpectedAddress
  IN  [regionStart |-> IF follows THEN scan.regionStart ELSE line.address,
       regionSize |-> ((IF follows THEN scan.regionSize ELSE 0) + ByteCount(line)) % AddressLimit,
       nextExpectedAddress |-> (line.address + ByteCount(line)) % AddressLimit]

EndsRegion(line) ==
  line.address # scan.nextExpectedAddress /\ scan.regionStart # Sentinel

(***************************************************************************)
(* GdbLogParse.                                                            *)
(***************************************************************************)

Init ==
  /\ log \in Logs
  /\ image \in Images
  /\ regions = image
  /\ context = [float |-> FALSE, R |-> [r \in Register |-> ZeroValue]]
  /\ pass = "opening"
  /\ pos = 1
  /\ word = 1
  /\ scan = FreshScan
  /\ exception = noException

\* The catch block closes the log and throws again.
Fail(e) ==
  /\ exception' = e
  /\ pass' = "failed"
  /\ UNCHANGED <<log, image, regions, context, pos, word, scan>>

openFileAndThrowOnError ==
  /\ pass = "opening"
  /\ \/ Fail(fileException)
     \/ /\ pass' = "first"
        /\ context' = [context EXCEPT !.R[MSP] = DEFAULT_SP_VALUE, !.R[PSP] = DEFAULT_SP_VALUE]
        /\ UNCHANGED <<log, image, regions, pos, word, scan, exception>>

\* A line of the given type is the next one of this pass.
Reads(p, type) == pass = p /\ pos <= Len(log) /\ log[pos].type = type

\* The region that the scan has joined, when an allocation succeeds or not.
CreatesJoined(mallocOk) ==
  CreateRegion(regions, scan.regionStart, scan.regionSize, mallocOk)

firstPassMemoryHandler ==
  /\ Reads("first", "memory")
  /\ \/ \E mallocOk \in MallocOutcomes :
          /\ EndsRegion(log[pos])
          /\ LET created == CreatesJoined(mallocOk)
             IN  IF created.exception = noException
                 THEN /\ regions' = created.regions
                      /\ scan' = Joined(log[pos])
                      /\ pos' = pos + 1
                      /\ UNCHANGED <<log, image, context, pass, word, exception>>
                 ELSE Fail(created.exception)
     \/ /\ ~EndsRegion(log[pos])
        /\ scan' = Joined(log[pos])
        /\ pos' = pos + 1
        /\ UNCHANGED <<log, image, regions, context, pass, word, exception>>

firstPassRegisterHandler ==
  /\ Reads("first", "register")
  /\ context' = [float |-> context.float \/ log[pos].register \in FloatRegister,
                 R |-> [context.R EXCEPT ![log[pos].register] = log[pos].value]]
  /\ pos' = pos + 1
  /\ UNCHANGED <<log, image, regions, pass, word, scan, exception>>

firstPassOther ==
  /\ Reads("first", "other")
  /\ pos' = pos + 1
  /\ UNCHANGED <<log, image, regions, context, pass, word, scan, exception>>

\* The end of parseLines creates the last region; the object goes with the call.
firstPassEnd ==
  /\ pass = "first"
  /\ pos > Len(log)
  /\ \E mallocOk \in MallocOutcomes :
       LET created == IF scan.regionSize = 0 THEN Returns(regions) ELSE CreatesJoined(mallocOk)
       IN  IF created.exception = noException
           THEN /\ regions' = created.regions
                /\ scan' = FreshScan
                /\ pass' = "rewinding"
                /\ UNCHANGED <<log, image, context, pos, word, exception>>
           ELSE Fail(created.exception)

rewindLogFileAndThrowOnError ==
  /\ pass = "rewinding"
  /\ \/ Fail(fileException)
     \/ /\ pass' = "second"
        /\ pos' = 1
        /\ UNCHANGED <<log, image, regions, context, word, scan, exception>>

\* IMemory_Write32 of the next word: a log's words meet no watchpoint.
secondPassWrite ==
  /\ Reads("second", "memory")
  /\ word <= Len(Parsed(log[pos]))
  /\ LET address == WordAddress(log[pos], word)
     IN  IF IsPermitted(regions, address, WordSize, WRITING)
         THEN /\ regions' = Overwrite(regions, findMatchingRegion(regions, address, WordSize),
                                      Parsed(log[pos])[word])
              /\ word' = word + 1
              /\ UNCHANGED <<log, image, context, pass, pos, scan, exception>>
         ELSE Fail(busErrorException)

secondPassNextLine ==
  /\ pass = "second"
  /\ pos <= Len(log)
  /\ log[pos].type = "memory" => word > Len(Parsed(log[pos]))
  /\ pos' = pos + 1
  /\ word' = 1
  /\ UNCHANGED <<log, image, regions, context, pass, scan, exception>>

secondPassEnd ==
  /\ pass = "second"
  /\ pos > Len(log)
  /\ pass' = "done"
  /\ UNCHANGED <<log, image, regions, context, pos, word, scan, exception>>

Next ==
  \/ openFileAndThrowOnError
  \/ firstPassMemoryHandler
  \/ firstPassRegisterHandler
  \/ firstPassOther
  \/ firstPassEnd
  \/ rewindLogFileAndThrowOnError
  \/ secondPassWrite
  \/ secondPassNextLine
  \/ secondPassEnd

Spec == Init /\ [][Next]_vars

(***************************************************************************)
(* Properties.                                                             *)
(***************************************************************************)

\* Every variable keeps its type: what the passes make of addresses stays 32 bits
\* wide (the unsigned arithmetic of firstPassMemoryHandler).
GdbTypeOK ==
  /\ regions \in Seq(MemoryRegion)
  /\ context \in [float : BOOLEAN, R : [Register -> Value]]
  /\ pass \in {"opening", "first", "rewinding", "second", "done", "failed"}
  /\ pos \in 1 .. Len(log) + 1
  /\ word \in 1 .. MaxValues + 1
  /\ scan \in [regionStart : Address, regionSize : Address, nextExpectedAddress : Address]
  /\ exception \in {noException, fileException, outOfMemoryException, busErrorException}

\* The image that was loaded before the log stays: the log adds regions behind it
\* and writes to its RAM, but never to its flash (IMemory_Write32 of the second pass).
ImageIsKept == KeepsRegions(image, regions)

MemoryLines == {l \in DOMAIN log : log[l].type = "memory"}

\* The lines that show the byte at address a.
Showing(a) ==
  {l \in MemoryLines : \E i \in DOMAIN Shown(log[l]) :
     a \in WordAddress(log[l], i) .. WordAddress(log[l], i) + WordSize - 1}

\* The byte that line l shows for address a.
ShownByte(l, a) ==
  LET offset == (a - log[l].address) % AddressLimit
  IN  log[l].shown[offset \div WordSize + 1][(offset % WordSize) + 1]

ReadsAsShown(a) ==
  /\ Matching(regions, a, ByteSize) # {}
  /\ ByteOf(regions, a) = ShownByte(Max(Showing(a)), a)

ReadsAsBefore(a) ==
  /\ Matching(regions, a, ByteSize) # {} <=> Matching(image, a, ByteSize) # {}
  /\ Matching(image, a, ByteSize) # {} => ByteOf(regions, a) = ByteOf(image, a)

RegisterLines(r) == {l \in DOMAIN log : log[l].type = "register" /\ log[l].register = r}

RegistersAreRead ==
  /\ context.float <=> \E r \in FloatRegister : RegisterLines(r) # {}
  /\ \A r \in Register :
       context.R[r] = IF RegisterLines(r) # {} THEN log[Max(RegisterLines(r))].value
                      ELSE IF r \in {MSP, PSP} THEN DEFAULT_SP_VALUE ELSE ZeroValue

\* A log that was loaded has become the memory and the registers it shows, the
\* last line that shows a byte or a register counting, and no address that it does
\* not show has appeared in memory (GdbLogParse as a whole; the regions of the first
\* pass are exactly what the second pass writes).
LogIsRead ==
  pass = "done" =>
    /\ \A a \in Address : IF Showing(a) # {} THEN ReadsAsShown(a) ELSE ReadsAsBefore(a)
    /\ RegistersAreRead

\* No word lies across the bounds of a region, or across another word: it would be
\* written to one region, and some of its bytes read from another.
WordsAreWhole ==
  /\ \A l \in MemoryLines : log[l].address % WordSize = 0
  /\ \A i \in DOMAIN image : image[i].baseAddress % WordSize = 0 /\ image[i].size % WordSize = 0

\* The same of a log for which parseMemoryLine makes up no word, whatever its lines
\* overlap and in whatever order they come.
WholeLogIsRead ==
  WordsAreWhole /\ (\A l \in MemoryLines : PhantomCount(log[l]) = 0) => LogIsRead

\* The lines of the log show ascending addresses.
Ascending ==
  \A k, l \in MemoryLines :
    k < l => log[k].address + WordSize * Len(Shown(log[k])) <= log[l].address

\* Line l reaches the top of the address space.
ReachesPastTop(l) == log[l].address + ByteCount(log[l]) >= AddressLimit

\* The words that parseMemoryLine makes up never hide a word of a log whose lines
\* ascend, as those of GDB's x command do: it is written later.  (Made up at the top
\* of the address space, they would hide the word at its bottom.)
AscendingLogIsRead ==
  pass = "done" /\ WordsAreWhole /\ Ascending /\ (\A l \in MemoryLines : ~ReachesPastTop(l)) =>
    \A a \in Address : Showing(a) # {} => ReadsAsShown(a)

\* The second pass finds no room for a word only if the word lies in memory that was
\* read-only before, or the log reaches the top of the address space: otherwise
\* the first pass made room for every word (GdbLogParser.c, both handlers).
SecondPassFits ==
  exception = busErrorException =>
    \/ \E l \in MemoryLines : ReachesPastTop(l)
    \/ ~IsPermitted(image, WordAddress(log[pos], word), WordSize, WRITING)
       /\ Matching(image, WordAddress(log[pos], word), WordSize) # {}

Loader == INSTANCE DumpLoader WITH
  ended    <- pass \in {"done", "failed"},
  Failures <- {fileException, outOfMemoryException, busErrorException}

\* What CrashDebugCommandLine_Init relies on (GdbLogParse): memory
\* grows by RAM only, a store never reaches flash, and nothing is touched after the end.
ImplementsDumpLoader == Loader!Spec
=============================================================================
