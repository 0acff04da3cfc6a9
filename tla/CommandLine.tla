----------------------------- MODULE CommandLine -----------------------------
(***************************************************************************)
(* From the command line to a session with GDB and out again               *)
(* (libCrashDebug/src/CrashDebugCommandLine.c and main/main.c): the        *)
(* options are parsed twice, and in between the image and the dump become  *)
(* the simulated memory.  Every step may fail, and a failure unwinds       *)
(* through one catch block after another.                                  *)
(*                                                                         *)
(* What the other loaders do to the memory is what ElfLoad, GdbLog and     *)
(* CrashDump let them do: an image whose read-only regions have their      *)
(* counters, and regions of RAM behind it, whole or in part when they      *)
(* throw.                                                                  *)
(***************************************************************************)
EXTENDS MemoryRegions

CONSTANTS
  ArgumentLists,   \* the command lines
  ImageFile,       \* names of image files
  DumpFile,        \* names of dump files
  NoFile,          \* NULL
  BinData,         \* the bytes of an image file
  ElfImages,       \* the lists of regions that an ELF file may become
  PartialImages,   \* the lists that one leaves behind which cannot be loaded
  DumpRegions,     \* the lists of regions that a dump may add
  FileOutcomes,    \* {TRUE, FALSE} where opening, sizing or reading a file may fail
  MallocOutcomes   \* {TRUE, FALSE} where memory may run out

OptionName == {"--bin", "--elf", "--dump", "--alias"}

\* An option with the arguments that belong to it.  There are given arguments behind
\* it: fewer than Needed only at the end of the command line.  Any other text, with
\* dashes or without, is "other".
Option ==
  [name : OptionName \cup {"other"}, given : Nat, file : ImageFile \cup DumpFile,
   baseAddress : Address, size : Address, redirectAddress : Address]

Needed ==
  [name \in OptionName |-> CASE name = "--bin" -> 2 [] name = "--alias" -> 3 [] OTHER -> 1]

ASSUME ArgumentAssumption ==
  /\ ArgumentLists \subseteq Seq(Option)
  /\ NoFile \notin ImageFile \cup DumpFile
  /\ \A list \in ArgumentLists : \A i \in DOMAIN list :
       /\ list[i].name \in {"--bin", "--elf"} => list[i].file \in ImageFile
       /\ list[i].name = "--dump" => list[i].file \in DumpFile

ASSUME FileAssumption ==
  /\ BinData \in [ImageFile -> Seq(Byte)]
  /\ \A f \in ImageFile : Len(BinData[f]) \in Address
  /\ FileOutcomes \subseteq BOOLEAN
  /\ MallocOutcomes \subseteq BOOLEAN

\* SegmentsAreLocked of ElfLoad: a region of an ELF image has its counters, unless it
\* stayed writable because an earlier segment is in its way.  ImageIsKept of GdbLog and
\* CrashDump, which write to RAM only.  Aliases are made later, and GDB sets watchpoints
\* in a session.
ASSUME LoaderAssumption ==
  /\ \A rs \in ElfImages : \A i \in DOMAIN rs :
       rs[i].isReadOnly => rs[i].pReadCounts = ZeroReadCounts(rs[i].size)
  /\ \A rs \in DumpRegions : \A i \in DOMAIN rs : ~rs[i].isReadOnly
  /\ \A rs \in ElfImages \cup PartialImages \cup DumpRegions :
       /\ rs \in Seq(MemoryRegion)
       /\ \A i \in DOMAIN rs : ~rs[i].isAlias /\ rs[i].watchpoints = <<>>

invalidArgumentException == "invalid argument"
fileException            == "file"
elfFormatException       == "ELF format"
fileFormatException      == "file format"
stackOverflowException   == "stack overflow"

VARIABLES
  arguments,      \* the command line
  argument,       \* the option that is parsed next
  pThis,          \* the file names and the base address in CrashDebugCommandLine
  pMemory,        \* "NULL" or "memory"
  regions,        \* the simulated memory
  pFile,          \* the image file: "NULL", "open" or "closed"
  pBuffer,        \* its buffer: "NULL", "allocated" or "freed"
  pData,          \* the same, in the FileData of loadImageFile: "NULL" or "pBuffer"
  releasedTwice,  \* something was freed or closed a second time
  stage,          \* what is done next
  exception       \* the exception that is thrown

vars == <<arguments, argument, pThis, pMemory, regions, pFile, pBuffer, pData,
          releasedTwice, stage, exception>>

parsing   == <<arguments, argument, pThis>>
memory    == <<pMemory, regions>>
resources == <<pFile, pBuffer, pData, releasedTwice>>

Init ==
  /\ arguments \in ArgumentLists
  /\ argument = 1
  /\ pThis = [pElfFilename |-> NoFile, pBinFilename |-> NoFile, pDumpFilename |-> NoFile,
              baseAddress |-> 0]
  /\ pMemory = "NULL" /\ regions = <<>>
  /\ pFile = "NULL" /\ pBuffer = "NULL" /\ pData = "NULL" /\ releasedTwice = FALSE
  /\ stage = "first pass"
  /\ exception = noException

Goes(next) == stage' = next /\ UNCHANGED exception

\* Throws e, which the catch block of this stage gets.
ThrowsTo(catch, e) == stage' = catch /\ exception' = e

\* One call: it returns, or throws e.
Tries(at, next, outcomes, catch, e) ==
  /\ stage = at
  /\ \E ok \in outcomes : IF ok THEN Goes(next) ELSE ThrowsTo(catch, e)

(***************************************************************************)
(* The options.                                                            *)
(***************************************************************************)

\* Variant: the arguments of an option are only counted in the second pass.
IsMalformedLate(option) ==
  option.name \in OptionName =>
    stage = "second pass" /\ option.given < Needed[option.name]

\* parseArgument throws at this option, in both passes.
IsMalformed(option) ==
  option.name \in OptionName => option.given < Needed[option.name]

\* Variant: the first file name stays.
SpecifiedKeepsFirst(this, option) ==
  CASE option.name = "--bin" ->
         [this EXCEPT !.pBinFilename = IF @ = NoFile THEN option.file ELSE @,
                      !.baseAddress = option.baseAddress]
    [] option.name = "--elf"   -> [this EXCEPT !.pElfFilename = option.file]
    [] option.name = "--dump"  -> [this EXCEPT !.pDumpFilename = option.file]
    [] option.name = "--alias" -> this

\* Variant: the name of the image file becomes the name of the dump file.
SpecifiedSwapped(this, option) ==
  CASE option.name = "--bin" ->
         [this EXCEPT !.pBinFilename = option.file, !.baseAddress = option.baseAddress]
    [] option.name = "--elf"   -> [this EXCEPT !.pDumpFilename = option.file]
    [] option.name = "--dump"  -> [this EXCEPT !.pDumpFilename = option.file]
    [] option.name = "--alias" -> this

\* What an option leaves in the first pass.
Specified(this, option) ==
  CASE option.name = "--bin" ->
         [this EXCEPT !.pBinFilename = option.file, !.baseAddress = option.baseAddress]
    [] option.name = "--elf"   -> [this EXCEPT !.pElfFilename = option.file]
    [] option.name = "--dump"  -> [this EXCEPT !.pDumpFilename = option.file]
    [] option.name = "--alias" -> this

Parses(pass) == stage = pass /\ argument \in DOMAIN arguments

parseMalformedOption ==
  /\ \E pass \in {"first pass", "second pass"} : Parses(pass)
  /\ IsMalformed(arguments[argument])
  /\ ThrowsTo("catch Init", invalidArgumentException)
  /\ UNCHANGED <<parsing, memory, resources>>

firstPassOption ==
  /\ Parses("first pass")
  /\ ~IsMalformed(arguments[argument])
  /\ pThis' = Specified(pThis, arguments[argument])
  /\ argument' = argument + 1
  /\ UNCHANGED <<arguments, memory, resources, stage, exception>>

firstPassEnd ==
  /\ stage = "first pass"
  /\ argument = Len(arguments) + 1
  /\ Goes("required")
  /\ UNCHANGED <<parsing, memory, resources>>

throwIfRequiredArgumentNotSpecified ==
  LET missing == \/ pThis.pBinFilename = NoFile /\ pThis.pElfFilename = NoFile
                 \/ pThis.pDumpFilename = NoFile
  IN  /\ stage = "required"
      /\ \/ /\ missing
            /\ ThrowsTo("catch Init", invalidArgumentException)
            /\ UNCHANGED pMemory
         \/ /\ ~missing
            /\ pMemory' = "memory"   \* MemorySim_Init
            /\ Goes("open image")
      /\ UNCHANGED <<parsing, regions, resources>>

\* Variant: the second pass stays at an option that it has nothing to do for.
secondPassOptionStays ==
  /\ Parses("second pass")
  /\ ~IsMalformed(arguments[argument])
  /\ arguments[argument].name # "--alias"
  /\ UNCHANGED <<arguments, argument, pThis, memory, resources, stage, exception>>

secondPassOption ==
  /\ Parses("second pass")
  /\ ~IsMalformed(arguments[argument])
  /\ arguments[argument].name # "--alias"
  /\ argument' = argument + 1
  /\ UNCHANGED <<arguments, pThis, memory, resources, stage, exception>>

\* Variant: an alias that cannot be made is left out.
AliasLeftOut(result) ==
  regions' = result.regions /\ argument' = argument + 1 /\ UNCHANGED <<stage, exception>>

AliasMade(result) ==
  /\ regions' = result.regions
  /\ \/ /\ result.exception = noException
        /\ argument' = argument + 1
        /\ UNCHANGED <<stage, exception>>
     \/ /\ result.exception # noException
        /\ ThrowsTo("catch Init", result.exception)
        /\ UNCHANGED argument

parseAliasOption ==
  LET option == arguments[argument]
  IN  /\ Parses("second pass")
      /\ ~IsMalformed(option)
      /\ option.name = "--alias"
      /\ \E mallocOk \in MallocOutcomes :
           AliasMade(CreateAlias(regions, option.baseAddress, option.redirectAddress,
                                 option.size, mallocOk))
      /\ UNCHANGED <<arguments, pThis, pMemory, resources>>

secondPassEnd ==
  /\ stage = "second pass"
  /\ argument = Len(arguments) + 1
  /\ Goes("running")
  /\ UNCHANGED <<parsing, memory, resources>>
(***************************************************************************)
(* The image file, read whole into a buffer.                               *)
(***************************************************************************)

openImage ==
  /\ Tries("open image", "size image", FileOutcomes, "catch file", fileException)
  /\ pFile' = IF exception' = noException THEN "open" ELSE "NULL"
  /\ UNCHANGED <<parsing, memory, pBuffer, pData, releasedTwice>>

GetFileSize ==
  /\ Tries("size image", "allocate image", FileOutcomes, "catch file", fileException)
  /\ UNCHANGED <<parsing, memory, resources>>

allocateImage ==
  /\ Tries("allocate image", "read image", MallocOutcomes, "catch file", outOfMemoryException)
  /\ pBuffer' = IF exception' = noException THEN "allocated" ELSE "NULL"
  /\ UNCHANGED <<parsing, memory, pFile, pData, releasedTwice>>

readImage ==
  /\ Tries("read image", "close image", FileOutcomes, "catch file", fileException)
  /\ UNCHANGED <<parsing, memory, resources>>

\* fclose, and loadFileData returns.
closeImage ==
  /\ stage = "close image"
  /\ pFile' = "closed"
  /\ pData' = "pBuffer"
  /\ Goes("load image")
  /\ UNCHANGED <<parsing, memory, pBuffer, releasedTwice>>

\* What loadBinFile makes of an empty memory.
BinImage(baseAddress, data, regionOk, countsOk) ==
  LET created == CreateRegion(<<>>, baseAddress, Len(data), regionOk)
      loaded  == LoadFromFlashImage(created.regions, baseAddress, data)
  IN  IF created.exception # noException THEN created
      ELSE IF loaded.exception # noException THEN loaded
      ELSE MakeRegionReadOnly(loaded.regions, baseAddress, countsOk)

\* What ElfLoad_FromMemory may make of an empty memory.
ElfImage ==
  [regions : ElfImages, exception : {noException}] \cup
  [regions : PartialImages,
   exception : {elfFormatException, outOfMemoryException, busErrorException}]

\* Variant: an image that could not be made read-only is used as it is.
LoadsImageRegardless(result) == regions' = result.regions /\ Goes("free image")

LoadsImage(result) ==
  /\ regions' = result.regions
  /\ \/ result.exception = noException /\ Goes("free image")
     \/ result.exception # noException /\ ThrowsTo("catch image", result.exception)

loadElfFile ==
  /\ stage = "load image"
  /\ pThis.pElfFilename # NoFile
  /\ \E result \in ElfImage : LoadsImage(result)
  /\ UNCHANGED <<parsing, pMemory, resources>>

loadBinFile ==
  /\ stage = "load image"
  /\ pThis.pElfFilename = NoFile
  /\ \E regionOk, countsOk \in MallocOutcomes :
       LoadsImage(BinImage(pThis.baseAddress, BinData[pThis.pBinFilename],
                           regionOk, countsOk))
  /\ UNCHANGED <<parsing, pMemory, resources>>

\* free(p) of a pointer to the buffer.
FreesBuffer ==
  /\ pBuffer' = "freed"
  /\ releasedTwice' = (releasedTwice \/ pBuffer = "freed")

freeImage ==
  /\ stage = "free image"
  /\ FreesBuffer
  /\ Goes("dump type")
  /\ UNCHANGED <<parsing, memory, pFile, pData>>

\* The catch block of loadFileData.
catchInLoadFileData ==
  /\ stage = "catch file"
  /\ pBuffer' = IF pBuffer = "NULL" THEN "NULL" ELSE "freed"
  /\ pFile' = IF pFile = "NULL" THEN "NULL" ELSE "closed"
  /\ releasedTwice' = (releasedTwice \/ pBuffer = "freed" \/ pFile = "closed")
  /\ Goes("catch image")
  /\ UNCHANGED <<parsing, memory, pData>>

\* Variant: the buffer is freed although loadFileData did not return it.
catchInLoadImageFileAlways ==
  /\ stage = "catch image"
  /\ \/ pBuffer = "NULL" /\ UNCHANGED <<pBuffer, releasedTwice>>
     \/ pBuffer # "NULL" /\ FreesBuffer
  /\ Goes("catch Init")
  /\ UNCHANGED <<parsing, memory, pFile, pData>>

\* The catch block of loadImageFile: fileData.pData is NULL until loadFileData returned.
catchInLoadImageFile ==
  /\ stage = "catch image"
  /\ \/ pData = "NULL" /\ UNCHANGED <<pBuffer, releasedTwice>>
     \/ pData # "NULL" /\ FreesBuffer
  /\ Goes("catch Init")
  /\ UNCHANGED <<parsing, memory, pFile, pData>>

(***************************************************************************)
(* The dump, the session and the end.                                      *)
(***************************************************************************)

\* Opens the dump, reads its first bytes and closes it again.
getFileType ==
  /\ Tries("dump type", "load dump", FileOutcomes, "catch Init", fileException)
  /\ UNCHANGED <<parsing, memory, resources>>

loadDumpFile ==
  /\ stage = "load dump"
  /\ \E rs \in DumpRegions : regions' = regions \o rs
  /\ \/ Goes("second pass")
     \/ \E e \in {fileException, fileFormatException, stackOverflowException,
                  outOfMemoryException, busErrorException} : ThrowsTo("catch Init", e)
  /\ argument' = 1   \* for the second pass
  /\ UNCHANGED <<arguments, pThis, pMemory, resources>>

\* MemorySim_Uninit, which returns at once when the memory is NULL.
UninitsMemory == regions' = IF pMemory = "NULL" THEN regions ELSE <<>>

catchInInit ==
  /\ stage = "catch Init"
  /\ UninitsMemory
  /\ pMemory' = "NULL"
  /\ Goes("uninit")
  /\ UNCHANGED <<parsing, resources>>

\* How a session ends, by Session: the console fails, or memory runs out, which an
\* earlier bus error hides.
mriPlatform_RunThrows ==
  /\ stage = "running"
  /\ \E e \in {fileException, outOfMemoryException, busErrorException} : ThrowsTo("uninit", e)
  /\ UNCHANGED <<parsing, memory, resources>>

CrashDebugCommandLine_Uninit ==
  /\ stage = "uninit"
  /\ UninitsMemory
  /\ Goes("exited")
  /\ UNCHANGED <<parsing, pMemory, resources>>

\* The program runs on by itself up to the session, and after it.
Launch ==
  \/ parseMalformedOption
  \/ firstPassOption
  \/ firstPassEnd
  \/ throwIfRequiredArgumentNotSpecified
  \/ openImage
  \/ GetFileSize
  \/ allocateImage
  \/ readImage
  \/ closeImage
  \/ loadElfFile
  \/ loadBinFile
  \/ freeImage
  \/ catchInLoadFileData
  \/ catchInLoadImageFile
  \/ getFileType
  \/ loadDumpFile
  \/ secondPassOption
  \/ parseAliasOption
  \/ secondPassEnd
  \/ catchInInit
  \/ CrashDebugCommandLine_Uninit

Next == Launch \/ mriPlatform_RunThrows

Spec == Init /\ [][Next]_vars /\ WF_vars(Launch)

(***************************************************************************)
(* Properties.                                                             *)
(***************************************************************************)

\* Every variable keeps its type: a file name is never taken for another kind of file.
CommandLineTypeOK ==
  /\ argument \in 1 .. Len(arguments) + 1
  /\ pThis \in [pElfFilename : ImageFile \cup {NoFile}, pBinFilename : ImageFile \cup {NoFile},
                pDumpFilename : DumpFile \cup {NoFile}, baseAddress : Address]
  /\ pMemory \in {"NULL", "memory"}
  /\ regions \in Seq(MemoryRegion)
  /\ pFile \in {"NULL", "open", "closed"}
  /\ pBuffer \in {"NULL", "allocated", "freed"}
  /\ pData \in {"NULL", "pBuffer"}
  /\ releasedTwice \in BOOLEAN

\* Whatever failed, and wherever, a program that ends has closed the image file and
\* freed its buffer and every region; and a session with GDB only keeps the regions.
\* Nothing is released twice (the catch blocks of loadFileData, loadImageFile and
\* CrashDebugCommandLine_Init, one after the other).
EverythingIsReleasedOnce ==
  /\ ~releasedTwice
  /\ stage \in {"running", "exited"} => pFile # "open" /\ pBuffer # "allocated"
  /\ stage = "exited" => regions = <<>>

\* A known option with all its arguments.
HasItsArguments(option) ==
  option.name \in OptionName /\ option.given >= Needed[option.name]

\* What a command line needs for the program to go on.
IsComplete ==
  /\ \A i \in DOMAIN arguments : HasItsArguments(arguments[i])
  /\ \E i \in DOMAIN arguments : arguments[i].name \in {"--bin", "--elf"}
  /\ \E i \in DOMAIN arguments : arguments[i].name = "--dump"

\* A command line with an unknown option, one whose arguments are missing, or without an
\* image or a dump, is refused before any file is opened and any memory made, and only
\* such a one is refused: the second pass finds nothing to complain about that the first
\* did not.  One with both --elf and --bin goes on (throwIfRequiredArgumentNotSpecified).
ArgumentsAreCheckedFirst ==
  /\ pMemory # "NULL" \/ pFile # "NULL" \/ regions # <<>> => IsComplete
  /\ exception = invalidArgumentException =>
       ~IsComplete /\ pFile = "NULL" /\ regions = <<>>

LastFile(name) ==
  LET given == {i \in DOMAIN arguments : arguments[i].name = name}
  IN  IF given = {} THEN NoFile ELSE arguments[Max(given)].file

\* When an option is repeated the last one decides, for a binary image together with
\* its own base address, and the second pass does not change that.
LastOptionDecides ==
  pMemory # "NULL" =>
    /\ pThis.pElfFilename = LastFile("--elf")
    /\ pThis.pDumpFilename = LastFile("--dump")
    /\ pThis.pBinFilename = LastFile("--bin")
    /\ \A i \in DOMAIN arguments :
         /\ arguments[i].name = "--bin"
         /\ \A j \in i + 1 .. Len(arguments) : arguments[j].name # "--bin"
         => pThis.baseAddress = arguments[i].baseAddress

AliasOptions(n) == {i \in 1 .. n : arguments[i].name = "--alias"}

\* In a session there is exactly one alias for each --alias option, behind everything
\* that was loaded and in the order of the command line, and each tells GDB's memory
\* map flash or RAM as the region does that it redirects to: it was made when the
\* image was read-only already.
AliasesAreMade ==
  stage = "running" =>
    LET loaded == Len(regions) - Cardinality(AliasOptions(Len(arguments)))
    IN  /\ \A i \in DOMAIN regions : regions[i].isAlias <=> i > loaded
        /\ \A o \in AliasOptions(Len(arguments)) :
             LET alias == regions[loaded + Cardinality(AliasOptions(o))]
             IN  /\ alias.baseAddress = arguments[o].baseAddress
                 /\ alias.redirectAddress = arguments[o].redirectAddress
                 /\ alias.isReadOnly = regions[alias.pRedirect].isReadOnly

\* The program gets to a session with GDB or exits, whatever its command line.
LaunchEnds == <>(stage \in {"running", "exited"})

\* No region gets to a session locked but without its read counters, which is how
\* MemorySim_MakeRegionReadOnly leaves it when memory runs out half way: its callers
\* give up on the exception, and no one asks for a count that is not there.
CountersBeforeSession ==
  stage = "running" =>
    \A i \in DOMAIN regions :
      regions[i].isReadOnly /\ ~regions[i].isAlias =>
        regions[i].pReadCounts = ZeroReadCounts(regions[i].size)
=============================================================================
