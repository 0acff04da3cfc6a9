-------------------------- MODULE CommandLineProofs --------------------------
(***************************************************************************)
(* Proofs about the command line: what is acquired is released once, a     *)
(* malformed command line is refused before anything is, and what gets to  *)
(* a session is what the last options of the command line asked for.       *)
(***************************************************************************)
EXTENDS CommandLine, MemoryRegionsProofs, FiniteSetTheorems

(***************************************************************************)
(* The inductive invariant: where each resource is held.                   *)
(***************************************************************************)

\* The image file is open between openImage and closeImage, or where loadFileData
\* catches.
FileInv ==
  /\ pFile \in {"NULL", "open", "closed"}
  /\ stage \in {"size image", "allocate image", "read image", "close image"} => pFile = "open"
  /\ stage = "catch file" => pFile # "closed"
  /\ pFile = "open" =>
       stage \in {"size image", "allocate image", "read image", "close image", "catch file"}
  /\ stage \in {"first pass", "required", "open image"} => pFile = "NULL"

\* The buffer belongs to loadFileData until it returns, and to loadImageFile after that.
BufferInv ==
  /\ pBuffer \in {"NULL", "allocated", "freed"}
  /\ pData \in {"NULL", "pBuffer"}
  /\ stage \in {"first pass", "required", "open image", "size image", "allocate image"} =>
       pBuffer = "NULL" /\ pData = "NULL"
  /\ stage \in {"read image", "close image"} => pBuffer = "allocated" /\ pData = "NULL"
  /\ stage = "catch file" => pBuffer # "freed" /\ pData = "NULL"
  /\ stage \in {"load image", "free image"} => pBuffer = "allocated" /\ pData = "pBuffer"
  /\ stage = "catch image" => (pData = "pBuffer" <=> pBuffer = "allocated")
  /\ pBuffer = "allocated" =>
       stage \in {"read image", "close image", "catch file", "load image", "free image",
                  "catch image"}

\* There are regions only in a memory, and only where it is freed later.
MemoryInv ==
  /\ pMemory \in {"NULL", "memory"}
  /\ pMemory = "NULL" => regions = <<>>
  /\ stage \in {"first pass", "required"} => pMemory = "NULL"
  /\ stage \in {"open image", "size image", "allocate image", "read image", "close image",
               "load image", "free image", "dump type", "load dump", "second pass"} =>
       pMemory = "memory"
  /\ stage = "exited" => regions = <<>>

\* Where the program is in the command line, and that only parsing complains about it.
ArgumentInv ==
  /\ arguments \in ArgumentLists
  /\ argument \in Nat
  /\ exception = invalidArgumentException => stage \in {"catch Init", "uninit", "exited"}
  /\ stage \in {"first pass", "required", "open image", "size image", "allocate image"} =>
       exception = noException

\* What the first pass has parsed is well formed, and all of it is when it is over: the
\* second pass, which parses the same, finds nothing malformed.
WellFormedInv ==
  /\ stage = "first pass" =>
       \A i \in DOMAIN arguments : i < argument => ~IsMalformed(arguments[i])
  /\ stage \notin {"first pass", "catch Init", "uninit", "exited"} =>
       \A i \in DOMAIN arguments : ~IsMalformed(arguments[i])

\* The command line is not refused after the first pass.
RefusedEarly ==
  exception = invalidArgumentException => pFile = "NULL" /\ regions = <<>>

LaunchInv ==
  /\ FileInv
  /\ BufferInv
  /\ MemoryInv
  /\ ArgumentInv
  /\ WellFormedInv
  /\ EverythingIsReleasedOnce
  /\ RefusedEarly

(***************************************************************************)
(* What the steps may throw.                                               *)
(***************************************************************************)

\* The text of an exception tells it from every other.
LEMMA NotInvalidArgument ==
  invalidArgumentException \notin
    {noException, fileException, elfFormatException, fileFormatException,
     stackOverflowException, outOfMemoryException, busErrorException}
  BY DEF invalidArgumentException, noException, fileException, elfFormatException,
         fileFormatException, stackOverflowException, outOfMemoryException, busErrorException

\* An alias is refused for want of memory or of a region to redirect to.
LEMMA AliasResult ==
  ASSUME NEW rs, NEW a, NEW r, NEW size, NEW mallocOk
  PROVE  \E new, e : /\ e \in {noException, outOfMemoryException, busErrorException}
                     /\ CreateAlias(rs, a, r, size, mallocOk)
                          = [regions |-> new, exception |-> e]
  BY DEF CreateAlias, Returns, Throws

LEMMA AliasStep ==
  ASSUME parseAliasOption
  PROVE  \E rs, e : /\ e \in {noException, outOfMemoryException, busErrorException}
                    /\ AliasMade([regions |-> rs, exception |-> e])
<1>1. PICK a, r, size, ok : AliasMade(CreateAlias(regions, a, r, size, ok))
  BY DEF parseAliasOption
<1>2. PICK rs, e : /\ e \in {noException, outOfMemoryException, busErrorException}
                   /\ CreateAlias(regions, a, r, size, ok) = [regions |-> rs, exception |-> e]
  BY AliasResult
<1> QED
  BY <1>1, <1>2

\* So is a binary image.
LEMMA BinExceptions ==
  ASSUME NEW baseAddress, NEW data, NEW regionOk, NEW countsOk
  PROVE  BinImage(baseAddress, data, regionOk, countsOk).exception
           \in {noException, outOfMemoryException, busErrorException}
<1>1. \A rs : MakeRegionReadOnly(rs, baseAddress, countsOk).exception
              \in {noException, outOfMemoryException, busErrorException}
  BY DEF MakeRegionReadOnly, Returns, Throws
<1>2. \A rs : LoadFromFlashImage(rs, baseAddress, data).exception
              \in {noException, outOfMemoryException, busErrorException}
  BY DEF LoadFromFlashImage, Returns, Throws
<1>3. CreateRegion(<<>>, baseAddress, Len(data), regionOk).exception
              \in {noException, outOfMemoryException, busErrorException}
  BY DEF CreateRegion, Returns, Throws
<1> QED
  BY <1>1, <1>2, <1>3 DEF BinImage

(***************************************************************************)
(* The invariant.                                                          *)
(***************************************************************************)

\* A command line is a sequence.
LEMMA ArgumentsType ==
  ASSUME arguments \in ArgumentLists
  PROVE  /\ Len(arguments) \in Nat
         /\ DOMAIN arguments = 1 .. Len(arguments)
  BY ArgumentAssumption, LenProperties

LEMMA InitLaunchInv == Init => LaunchInv
<1> SUFFICES ASSUME Init PROVE LaunchInv
  OBVIOUS
<1>1. argument = 1 /\ arguments \in ArgumentLists
  BY DEF Init
<1>2. \A i \in DOMAIN arguments : ~(i < argument)
  BY <1>1, ArgumentAssumption
<1>3. WellFormedInv
  BY <1>2 DEF WellFormedInv, Init
<1>4. ArgumentInv
  BY NotInvalidArgument DEF Init, ArgumentInv
<1> QED
  BY <1>3, <1>4, NotInvalidArgument
  DEF Init, LaunchInv, FileInv, BufferInv, MemoryInv, EverythingIsReleasedOnce,
      RefusedEarly

LEMMA StutterKeeps ==
  ASSUME LaunchInv, UNCHANGED vars
  PROVE  LaunchInv'
<1>1. FileInv' /\ BufferInv' /\ MemoryInv'
  BY DEF LaunchInv, vars, FileInv, BufferInv, MemoryInv
<1>2. ArgumentInv' /\ WellFormedInv'
  BY DEF LaunchInv, vars, ArgumentInv, WellFormedInv
<1> QED
  BY <1>1, <1>2 DEF LaunchInv, vars, EverythingIsReleasedOnce, RefusedEarly

LEMMA parseMalformedOptionKeeps ==
  ASSUME LaunchInv, parseMalformedOption
  PROVE  LaunchInv'
<1>1. FileInv' /\ BufferInv'
  BY DEF LaunchInv, FileInv, BufferInv, parseMalformedOption, ThrowsTo, resources,
         Parses
<1>2. MemoryInv'
  BY DEF LaunchInv, MemoryInv, parseMalformedOption, ThrowsTo, memory
<1>3. ArgumentInv'
  BY DEF LaunchInv, ArgumentInv, parseMalformedOption, ThrowsTo, parsing
<1>4. WellFormedInv'
  BY DEF WellFormedInv, parseMalformedOption, ThrowsTo
<1>5. EverythingIsReleasedOnce'
  BY DEF LaunchInv, EverythingIsReleasedOnce, parseMalformedOption, ThrowsTo, resources
<1>6. stage = "first pass"
  BY DEF parseMalformedOption, Parses, LaunchInv, WellFormedInv
<1>7. RefusedEarly'
  BY <1>6
  DEF LaunchInv, RefusedEarly, FileInv, MemoryInv, parseMalformedOption,
      memory, resources
<1> QED
  BY <1>1, <1>2, <1>3, <1>4, <1>5, <1>7 DEF LaunchInv

LEMMA firstPassOptionKeeps ==
  ASSUME LaunchInv, firstPassOption
  PROVE  LaunchInv'
<1>1. FileInv' /\ BufferInv'
  BY DEF LaunchInv, FileInv, BufferInv, firstPassOption, resources
<1>2. MemoryInv'
  BY DEF LaunchInv, MemoryInv, firstPassOption, memory
<1>3. ArgumentInv'
  <2>1. argument' \in Nat
    <3>1. argument \in Nat
      BY DEF LaunchInv, ArgumentInv
    <3>2. argument' = argument + 1
      BY DEF firstPassOption
    <3> QED
      BY <3>1, <3>2
  <2>2. arguments' = arguments /\ stage' = stage /\ exception' = exception
    BY DEF firstPassOption
  <2> QED
    BY <2>1, <2>2 DEF LaunchInv, ArgumentInv
<1>4. WellFormedInv'
  <2>1. argument \in 1 .. Len(arguments) /\ Len(arguments) \in Nat
        /\ DOMAIN arguments = 1 .. Len(arguments)
    BY ArgumentsType DEF firstPassOption, Parses, LaunchInv, ArgumentInv
  <2>2. argument' = argument + 1 /\ arguments' = arguments /\ stage' = stage
        /\ stage = "first pass"
    BY DEF firstPassOption, Parses
  <2>3. ASSUME NEW i \in DOMAIN arguments, i < argument + 1
        PROVE  ~IsMalformed(arguments[i])
    <3>1. i < argument \/ i = argument
      BY <2>1, <2>3
    <3> QED
      BY <2>2, <3>1 DEF firstPassOption, LaunchInv, WellFormedInv
  <2> QED
    BY <2>2, <2>3 DEF WellFormedInv
<1> QED
  BY <1>1, <1>2, <1>3, <1>4
  DEF LaunchInv, EverythingIsReleasedOnce, RefusedEarly, firstPassOption,
      memory, resources

LEMMA firstPassEndKeeps ==
  ASSUME LaunchInv, firstPassEnd
  PROVE  LaunchInv'
<1>1. FileInv' /\ BufferInv'
  BY DEF LaunchInv, FileInv, BufferInv, firstPassEnd, Goes, resources
<1>2. MemoryInv'
  BY DEF LaunchInv, MemoryInv, firstPassEnd, Goes, memory
<1>3. ArgumentInv'
  BY DEF LaunchInv, ArgumentInv, firstPassEnd, Goes, parsing
<1>4. WellFormedInv'
  <2>1. Len(arguments) \in Nat /\ DOMAIN arguments = 1 .. Len(arguments)
    BY ArgumentsType DEF LaunchInv, ArgumentInv
  <2>2. argument = Len(arguments) + 1
    BY DEF firstPassEnd
  <2>3. \A i \in DOMAIN arguments : i < argument
    BY <2>1, <2>2
  <2> QED
    BY <2>3 DEF LaunchInv, WellFormedInv, firstPassEnd, parsing
<1> QED
  BY <1>1, <1>2, <1>3, <1>4
  DEF LaunchInv, MemoryInv, EverythingIsReleasedOnce, RefusedEarly,
      firstPassEnd, Goes, resources

LEMMA throwIfRequiredArgumentNotSpecifiedKeeps ==
  ASSUME LaunchInv, throwIfRequiredArgumentNotSpecified
  PROVE  LaunchInv'
<1>1. FileInv' /\ BufferInv'
  BY DEF LaunchInv, FileInv, BufferInv, throwIfRequiredArgumentNotSpecified, Goes,
         ThrowsTo, resources
<1>2. MemoryInv'
  BY DEF LaunchInv, MemoryInv, throwIfRequiredArgumentNotSpecified, Goes, ThrowsTo
<1>3. ArgumentInv'
  BY DEF LaunchInv, ArgumentInv, throwIfRequiredArgumentNotSpecified, Goes, ThrowsTo,
         parsing
<1>4. WellFormedInv'
  BY DEF LaunchInv, WellFormedInv, throwIfRequiredArgumentNotSpecified, parsing
<1> QED
  BY <1>1, <1>2, <1>3, <1>4
  DEF LaunchInv, FileInv, BufferInv, MemoryInv, EverythingIsReleasedOnce,
      RefusedEarly, throwIfRequiredArgumentNotSpecified, resources

LEMMA openImageKeeps ==
  ASSUME LaunchInv, openImage
  PROVE  LaunchInv'
<1>1. FileInv' /\ BufferInv'
  BY DEF LaunchInv, FileInv, BufferInv, ArgumentInv, openImage, Goes, ThrowsTo, Tries
<1>2. MemoryInv'
  BY DEF LaunchInv, MemoryInv, openImage, Goes, ThrowsTo, memory, Tries
<1>3. ArgumentInv'
  BY NotInvalidArgument
  DEF LaunchInv, ArgumentInv, openImage, Goes, ThrowsTo, parsing, Tries
<1>4. WellFormedInv'
  BY DEF LaunchInv, WellFormedInv, openImage, parsing, Tries
<1> QED
  BY <1>1, <1>2, <1>3, <1>4, NotInvalidArgument
  DEF LaunchInv, FileInv, EverythingIsReleasedOnce, RefusedEarly, openImage,
      Goes, ThrowsTo, Tries

LEMMA GetFileSizeKeeps ==
  ASSUME LaunchInv, GetFileSize
  PROVE  LaunchInv'
<1>1. FileInv' /\ BufferInv'
  BY DEF LaunchInv, FileInv, BufferInv, GetFileSize, Goes, ThrowsTo, resources, Tries
<1>2. MemoryInv'
  BY DEF LaunchInv, MemoryInv, GetFileSize, Goes, ThrowsTo, memory, Tries
<1>3. ArgumentInv'
  BY NotInvalidArgument
  DEF LaunchInv, ArgumentInv, GetFileSize, Goes, ThrowsTo, parsing, Tries
<1>4. WellFormedInv'
  BY DEF LaunchInv, WellFormedInv, GetFileSize, parsing, Tries
<1> QED
  BY <1>1, <1>2, <1>3, <1>4
  DEF LaunchInv, FileInv, ArgumentInv, EverythingIsReleasedOnce,
      RefusedEarly, GetFileSize, resources, Tries

LEMMA allocateImageKeeps ==
  ASSUME LaunchInv, allocateImage
  PROVE  LaunchInv'
<1>1. FileInv' /\ BufferInv'
  BY DEF LaunchInv, FileInv, BufferInv, ArgumentInv, allocateImage, Goes, ThrowsTo,
         Tries
<1>2. MemoryInv'
  BY DEF LaunchInv, MemoryInv, allocateImage, Goes, ThrowsTo, memory, Tries
<1>3. ArgumentInv'
  BY NotInvalidArgument
  DEF LaunchInv, ArgumentInv, allocateImage, Goes, ThrowsTo, parsing, Tries
<1>4. WellFormedInv'
  BY DEF LaunchInv, WellFormedInv, allocateImage, parsing, Tries
<1> QED
  BY <1>1, <1>2, <1>3, <1>4
  DEF LaunchInv, FileInv, ArgumentInv, EverythingIsReleasedOnce,
      RefusedEarly, allocateImage, Tries

LEMMA readImageKeeps ==
  ASSUME LaunchInv, readImage
  PROVE  LaunchInv'
<1>1. FileInv' /\ BufferInv'
  BY DEF LaunchInv, FileInv, BufferInv, readImage, Goes, ThrowsTo, resources, Tries
<1>2. MemoryInv'
  BY DEF LaunchInv, MemoryInv, readImage, Goes, ThrowsTo, memory, Tries
<1>3. ArgumentInv'
  BY NotInvalidArgument
  DEF LaunchInv, ArgumentInv, readImage, Goes, ThrowsTo, parsing, Tries
<1>4. WellFormedInv'
  BY DEF LaunchInv, WellFormedInv, readImage, parsing, Tries
<1> QED
  BY <1>1, <1>2, <1>3, <1>4
  DEF LaunchInv, FileInv, ArgumentInv, EverythingIsReleasedOnce,
      RefusedEarly, readImage, resources, Tries

LEMMA closeImageKeeps ==
  ASSUME LaunchInv, closeImage
  PROVE  LaunchInv'
<1>1. FileInv' /\ BufferInv'
  BY DEF LaunchInv, FileInv, BufferInv, closeImage, Goes
<1>2. MemoryInv'
  BY DEF LaunchInv, MemoryInv, closeImage, Goes, memory
<1>3. ArgumentInv'
  BY DEF LaunchInv, ArgumentInv, closeImage, Goes, parsing
<1>4. WellFormedInv'
  BY DEF LaunchInv, WellFormedInv, closeImage, parsing
<1> QED
  BY <1>1, <1>2, <1>3, <1>4
  DEF LaunchInv, BufferInv, ArgumentInv, EverythingIsReleasedOnce,
      RefusedEarly, closeImage

LEMMA loadElfFileKeeps ==
  ASSUME LaunchInv, loadElfFile
  PROVE  LaunchInv'
<1>1. FileInv' /\ BufferInv'
  BY DEF LaunchInv, FileInv, BufferInv, loadElfFile, Goes, ThrowsTo, resources,
         LoadsImage
<1>2. MemoryInv'
  BY DEF LaunchInv, MemoryInv, loadElfFile, Goes, ThrowsTo, LoadsImage
<1>3. ArgumentInv'
  BY NotInvalidArgument
  DEF LaunchInv, ArgumentInv, loadElfFile, Goes, ThrowsTo, parsing, LoadsImage, ElfImage
<1>4. WellFormedInv'
  BY DEF LaunchInv, WellFormedInv, loadElfFile, parsing
<1> QED
  BY <1>1, <1>2, <1>3, <1>4
  DEF LaunchInv, BufferInv, ArgumentInv, EverythingIsReleasedOnce,
      RefusedEarly, loadElfFile, resources

LEMMA loadBinFileKeeps ==
  ASSUME LaunchInv, loadBinFile
  PROVE  LaunchInv'
<1>1. FileInv' /\ BufferInv'
  BY DEF LaunchInv, FileInv, BufferInv, loadBinFile, Goes, ThrowsTo, resources,
         LoadsImage
<1>2. MemoryInv'
  BY DEF LaunchInv, MemoryInv, loadBinFile, Goes, ThrowsTo, LoadsImage
<1>3. ArgumentInv'
  <2>1. PICK regionOk, countsOk :
          LoadsImage(BinImage(pThis.baseAddress, BinData[pThis.pBinFilename],
                              regionOk, countsOk))
    BY DEF loadBinFile
  <2>2. \/ stage' = "free image" /\ exception' = exception
        \/ /\ stage' = "catch image"
           /\ exception' \in {noException, outOfMemoryException, busErrorException}
    BY <2>1, BinExceptions DEF LoadsImage, Goes, ThrowsTo
  <2>3. exception # invalidArgumentException
    BY DEF loadBinFile, LaunchInv, ArgumentInv
  <2>4. arguments' = arguments /\ argument' = argument
    BY DEF loadBinFile, parsing
  <2> QED
    BY <2>2, <2>3, <2>4, NotInvalidArgument DEF LaunchInv, ArgumentInv
<1>4. WellFormedInv'
  BY DEF LaunchInv, WellFormedInv, loadBinFile, parsing
<1> QED
  BY <1>1, <1>2, <1>3, <1>4
  DEF LaunchInv, BufferInv, ArgumentInv, EverythingIsReleasedOnce,
      RefusedEarly, loadBinFile, resources

LEMMA freeImageKeeps ==
  ASSUME LaunchInv, freeImage
  PROVE  LaunchInv'
<1>1. FileInv' /\ BufferInv'
  BY DEF LaunchInv, FileInv, BufferInv, freeImage, Goes, FreesBuffer
<1>2. MemoryInv'
  BY DEF LaunchInv, MemoryInv, freeImage, Goes, memory
<1>3. ArgumentInv'
  BY DEF LaunchInv, ArgumentInv, freeImage, Goes, parsing
<1>4. WellFormedInv'
  BY DEF LaunchInv, WellFormedInv, freeImage, parsing
<1> QED
  BY <1>1, <1>2, <1>3, <1>4
  DEF LaunchInv, BufferInv, ArgumentInv, EverythingIsReleasedOnce,
      RefusedEarly, freeImage, Goes, FreesBuffer

LEMMA catchInLoadFileDataKeeps ==
  ASSUME LaunchInv, catchInLoadFileData
  PROVE  LaunchInv'
<1>1. FileInv' /\ BufferInv'
  BY DEF LaunchInv, FileInv, BufferInv, catchInLoadFileData, Goes
<1>2. MemoryInv'
  BY DEF LaunchInv, MemoryInv, catchInLoadFileData, Goes, memory
<1>3. ArgumentInv'
  BY DEF LaunchInv, ArgumentInv, catchInLoadFileData, Goes, parsing
<1>4. WellFormedInv'
  BY DEF LaunchInv, WellFormedInv, catchInLoadFileData, parsing
<1> QED
  BY <1>2, <1>3, <1>4
  DEF LaunchInv, FileInv, BufferInv, ArgumentInv, EverythingIsReleasedOnce,
      RefusedEarly, catchInLoadFileData, Goes

LEMMA catchInLoadImageFileKeeps ==
  ASSUME LaunchInv, catchInLoadImageFile
  PROVE  LaunchInv'
<1>1. FileInv' /\ BufferInv'
  BY DEF LaunchInv, FileInv, BufferInv, catchInLoadImageFile, Goes, FreesBuffer
<1>2. MemoryInv'
  BY DEF LaunchInv, MemoryInv, catchInLoadImageFile, Goes, memory
<1>3. ArgumentInv'
  BY DEF LaunchInv, ArgumentInv, catchInLoadImageFile, Goes, parsing
<1>4. WellFormedInv'
  BY DEF WellFormedInv, catchInLoadImageFile, Goes
<1>5. EverythingIsReleasedOnce'
  <2>1. pData # "NULL" => pBuffer # "freed"
    BY DEF catchInLoadImageFile, LaunchInv, BufferInv
  <2>2. stage' = "catch Init"
    BY DEF catchInLoadImageFile, Goes
  <2>3. ~releasedTwice'
    BY <2>1 DEF catchInLoadImageFile, FreesBuffer, LaunchInv, EverythingIsReleasedOnce
  <2> QED
    BY <2>2, <2>3 DEF EverythingIsReleasedOnce
<1>6. RefusedEarly'
  BY DEF LaunchInv, RefusedEarly, ArgumentInv, catchInLoadImageFile, Goes
<1> QED
  BY <1>1, <1>2, <1>3, <1>4, <1>5, <1>6 DEF LaunchInv

LEMMA getFileTypeKeeps ==
  ASSUME LaunchInv, getFileType
  PROVE  LaunchInv'
<1>1. FileInv' /\ BufferInv'
  BY DEF LaunchInv, FileInv, BufferInv, getFileType, Goes, ThrowsTo, resources, Tries
<1>2. MemoryInv'
  BY DEF LaunchInv, MemoryInv, getFileType, Goes, ThrowsTo, memory, Tries
<1>3. ArgumentInv'
  BY DEF LaunchInv, ArgumentInv, getFileType, Goes, ThrowsTo, parsing, Tries
<1>4. WellFormedInv'
  BY DEF LaunchInv, WellFormedInv, getFileType, parsing, Tries
<1> QED
  BY <1>1, <1>2, <1>3, <1>4, NotInvalidArgument
  DEF LaunchInv, ArgumentInv, EverythingIsReleasedOnce, RefusedEarly,
      getFileType, Goes, ThrowsTo, resources, Tries

LEMMA loadDumpFileKeeps ==
  ASSUME LaunchInv, loadDumpFile
  PROVE  LaunchInv'
<1>1. FileInv' /\ BufferInv'
  BY DEF LaunchInv, FileInv, BufferInv, loadDumpFile, Goes, ThrowsTo, resources
<1>2. MemoryInv'
  BY DEF LaunchInv, MemoryInv, loadDumpFile, Goes, ThrowsTo
<1>3. ArgumentInv'
  BY DEF LaunchInv, ArgumentInv, loadDumpFile, Goes, ThrowsTo
<1>4. WellFormedInv'
  BY DEF LaunchInv, WellFormedInv, loadDumpFile
<1> QED
  BY <1>1, <1>2, <1>4, NotInvalidArgument
  DEF LaunchInv, ArgumentInv, EverythingIsReleasedOnce, RefusedEarly,
      loadDumpFile, Goes, ThrowsTo, resources

LEMMA secondPassOptionKeeps ==
  ASSUME LaunchInv, secondPassOption
  PROVE  LaunchInv'
<1>1. FileInv' /\ BufferInv'
  BY DEF LaunchInv, FileInv, BufferInv, secondPassOption, resources
<1>2. MemoryInv'
  BY DEF LaunchInv, MemoryInv, secondPassOption, memory
<1>3. ArgumentInv'
  <2>1. argument' \in Nat
    <3>1. argument \in Nat
      BY DEF LaunchInv, ArgumentInv
    <3>2. argument' = argument + 1
      BY DEF secondPassOption
    <3> QED
      BY <3>1, <3>2
  <2>2. arguments' = arguments /\ stage' = stage /\ exception' = exception
    BY DEF secondPassOption
  <2> QED
    BY <2>1, <2>2 DEF LaunchInv, ArgumentInv
<1>4. WellFormedInv'
  BY DEF LaunchInv, WellFormedInv, secondPassOption, Parses
<1> QED
  BY <1>1, <1>2, <1>3, <1>4
  DEF LaunchInv, EverythingIsReleasedOnce, RefusedEarly, secondPassOption,
      memory, resources

LEMMA parseAliasOptionKeeps ==
  ASSUME LaunchInv, parseAliasOption
  PROVE  LaunchInv'
<1>0. PICK rs, e : /\ e \in {noException, outOfMemoryException, busErrorException}
                   /\ AliasMade([regions |-> rs, exception |-> e])
  BY AliasStep
<1>1. FileInv' /\ BufferInv'
  BY DEF LaunchInv, FileInv, BufferInv, parseAliasOption, ThrowsTo, resources, Parses,
         AliasMade
<1>2. MemoryInv'
  BY DEF LaunchInv, MemoryInv, parseAliasOption, ThrowsTo, Parses, AliasMade
<1>3. ArgumentInv'
  <2>1. argument' \in Nat
    <3>1. argument \in Nat
      BY DEF LaunchInv, ArgumentInv
    <3>2. argument' = argument + 1 \/ argument' = argument
      BY <1>0 DEF AliasMade
    <3> QED
      BY <3>1, <3>2
  <2>2. arguments' = arguments /\ stage = "second pass"
    BY DEF parseAliasOption, Parses
  <2>3. \/ stage' = stage /\ exception' = exception
        \/ stage' = "catch Init" /\ exception' # invalidArgumentException
    BY <1>0, NotInvalidArgument DEF AliasMade, ThrowsTo
  <2> QED
    BY <2>1, <2>2, <2>3 DEF LaunchInv, ArgumentInv
<1>4. WellFormedInv'
  BY DEF LaunchInv, WellFormedInv, parseAliasOption, Parses
<1>5. stage' \in {"second pass", "catch Init"}
  BY DEF parseAliasOption, Parses, AliasMade, ThrowsTo
<1>6. EverythingIsReleasedOnce'
  BY <1>5 DEF parseAliasOption, resources, LaunchInv, EverythingIsReleasedOnce
<1>7. RefusedEarly'
  <2>2. stage = "second pass"
    BY DEF parseAliasOption, Parses
  <2>3. exception' # invalidArgumentException
    BY <1>0, <2>2, NotInvalidArgument DEF AliasMade, ThrowsTo, LaunchInv, ArgumentInv
  <2> QED
    BY <2>3 DEF RefusedEarly
<1> QED
  BY <1>1, <1>2, <1>3, <1>4, <1>6, <1>7 DEF LaunchInv

LEMMA secondPassEndKeeps ==
  ASSUME LaunchInv, secondPassEnd
  PROVE  LaunchInv'
<1>1. FileInv' /\ BufferInv'
  BY DEF LaunchInv, FileInv, BufferInv, secondPassEnd, Goes, resources
<1>2. MemoryInv'
  BY DEF LaunchInv, MemoryInv, secondPassEnd, Goes, memory
<1>3. ArgumentInv'
  BY DEF LaunchInv, ArgumentInv, secondPassEnd, Goes, parsing
<1>4. WellFormedInv'
  BY DEF LaunchInv, WellFormedInv, secondPassEnd, parsing
<1> QED
  BY <1>2, <1>3, <1>4
  DEF LaunchInv, FileInv, BufferInv, ArgumentInv, EverythingIsReleasedOnce,
      RefusedEarly, secondPassEnd, Goes, resources

LEMMA catchInInitKeeps ==
  ASSUME LaunchInv, catchInInit
  PROVE  LaunchInv'
<1>1. FileInv' /\ BufferInv'
  BY DEF LaunchInv, FileInv, BufferInv, catchInInit, Goes, resources
<1>2. MemoryInv'
  BY DEF LaunchInv, MemoryInv, catchInInit, Goes, UninitsMemory
<1>3. ArgumentInv'
  BY DEF LaunchInv, ArgumentInv, catchInInit, Goes, parsing
<1>4. WellFormedInv'
  BY DEF WellFormedInv, catchInInit, Goes
<1> QED
  BY <1>1, <1>2, <1>3, <1>4
  DEF LaunchInv, MemoryInv, EverythingIsReleasedOnce, RefusedEarly,
      catchInInit, Goes, resources

LEMMA mriPlatform_RunThrowsKeeps ==
  ASSUME LaunchInv, mriPlatform_RunThrows
  PROVE  LaunchInv'
<1>1. FileInv' /\ BufferInv'
  BY DEF LaunchInv, FileInv, BufferInv, mriPlatform_RunThrows, ThrowsTo, resources
<1>2. MemoryInv'
  BY DEF LaunchInv, MemoryInv, mriPlatform_RunThrows, ThrowsTo, memory
<1>3. ArgumentInv'
  BY DEF LaunchInv, ArgumentInv, mriPlatform_RunThrows, ThrowsTo, parsing
<1>4. WellFormedInv'
  BY DEF WellFormedInv, mriPlatform_RunThrows, ThrowsTo
<1> QED
  BY <1>1, <1>2, <1>3, <1>4, NotInvalidArgument
  DEF LaunchInv, EverythingIsReleasedOnce, RefusedEarly,
      mriPlatform_RunThrows, ThrowsTo, resources

LEMMA CrashDebugCommandLine_UninitKeeps ==
  ASSUME LaunchInv, CrashDebugCommandLine_Uninit
  PROVE  LaunchInv'
<1>1. FileInv' /\ BufferInv'
  BY DEF LaunchInv, FileInv, BufferInv, CrashDebugCommandLine_Uninit, Goes, resources
<1>2. MemoryInv'
  BY DEF LaunchInv, MemoryInv, CrashDebugCommandLine_Uninit, Goes, UninitsMemory
<1>3. ArgumentInv'
  BY DEF LaunchInv, ArgumentInv, CrashDebugCommandLine_Uninit, Goes, parsing
<1>4. WellFormedInv'
  BY DEF WellFormedInv, CrashDebugCommandLine_Uninit, Goes
<1> QED
  BY <1>2, <1>3, <1>4
  DEF LaunchInv, FileInv, BufferInv, MemoryInv, EverythingIsReleasedOnce,
      RefusedEarly, CrashDebugCommandLine_Uninit, Goes, resources

\* One case for each action.
LEMMA NextLaunchInv == LaunchInv /\ [Next]_vars => LaunchInv'
<1> SUFFICES ASSUME LaunchInv, [Next]_vars PROVE LaunchInv'
  OBVIOUS
<1>1. CASE parseMalformedOption
  BY <1>1, parseMalformedOptionKeeps
<1>2. CASE firstPassOption
  BY <1>2, firstPassOptionKeeps
<1>3. CASE firstPassEnd
  BY <1>3, firstPassEndKeeps
<1>4. CASE throwIfRequiredArgumentNotSpecified
  BY <1>4, throwIfRequiredArgumentNotSpecifiedKeeps
<1>5. CASE openImage
  BY <1>5, openImageKeeps
<1>6. CASE GetFileSize
  BY <1>6, GetFileSizeKeeps
<1>7. CASE allocateImage
  BY <1>7, allocateImageKeeps
<1>8. CASE readImage
  BY <1>8, readImageKeeps
<1>9. CASE closeImage
  BY <1>9, closeImageKeeps
<1>10. CASE loadElfFile
  BY <1>10, loadElfFileKeeps
<1>11. CASE loadBinFile
  BY <1>11, loadBinFileKeeps
<1>12. CASE freeImage
  BY <1>12, freeImageKeeps
<1>13. CASE catchInLoadFileData
  BY <1>13, catchInLoadFileDataKeeps
<1>14. CASE catchInLoadImageFile
  BY <1>14, catchInLoadImageFileKeeps
<1>15. CASE getFileType
  BY <1>15, getFileTypeKeeps
<1>16. CASE loadDumpFile
  BY <1>16, loadDumpFileKeeps
<1>17. CASE secondPassOption
  BY <1>17, secondPassOptionKeeps
<1>18. CASE parseAliasOption
  BY <1>18, parseAliasOptionKeeps
<1>19. CASE secondPassEnd
  BY <1>19, secondPassEndKeeps
<1>20. CASE catchInInit
  BY <1>20, catchInInitKeeps
<1>21. CASE mriPlatform_RunThrows
  BY <1>21, mriPlatform_RunThrowsKeeps
<1>22. CASE CrashDebugCommandLine_Uninit
  BY <1>22, CrashDebugCommandLine_UninitKeeps
<1>23. CASE UNCHANGED vars
  BY <1>23, StutterKeeps
<1> QED
  BY <1>1, <1>2, <1>3, <1>4, <1>5, <1>6, <1>7, <1>8, <1>9, <1>10, <1>11, <1>12, <1>13,
     <1>14, <1>15, <1>16, <1>17, <1>18, <1>19, <1>20, <1>21, <1>22, <1>23
  DEF Next, Launch

(***************************************************************************)
(* The theorems.                                                           *)
(***************************************************************************)

\* The file, the buffer, the memory and the command line are where the stage has them.
THEOREM LaunchInvHolds == Spec => []LaunchInv
<1> QED
  BY InitLaunchInv, NextLaunchInv, PTL DEF Spec

\* Whichever step fails, for any command line, image and dump: the image file and its
\* buffer are released once before the session, and the regions before the end.
THEOREM ReleasedOnce == Spec => []EverythingIsReleasedOnce
<1>1. LaunchInv => EverythingIsReleasedOnce
  BY DEF LaunchInv
<1> QED
  BY <1>1, LaunchInvHolds, PTL

(***************************************************************************)
(* What the command line makes: the second inductive invariant.            *)
(***************************************************************************)

\* The options of a name that the first pass has parsed.
Seen(name) ==
  {i \in DOMAIN arguments : arguments[i].name = name /\ (stage = "first pass" => i < argument)}

LastSeen(name) == IF Seen(name) = {} THEN NoFile ELSE arguments[Max(Seen(name))].file

OptionsDecide ==
  stage \in {"first pass", "required"} \/ pMemory # "NULL" =>
    /\ pThis.pElfFilename = LastSeen("--elf")
    /\ pThis.pDumpFilename = LastSeen("--dump")
    /\ pThis.pBinFilename = LastSeen("--bin")
    /\ Seen("--bin") # {} => pThis.baseAddress = arguments[Max(Seen("--bin"))].baseAddress

\* The aliases of the first n options are made.
AliasesFollow(rs, n) ==
  LET made   == Cardinality(AliasOptions(n))
      loaded == Len(rs) - made
  IN  /\ made <= Len(rs)
      /\ \A i \in DOMAIN rs : rs[i].isAlias <=> i > loaded
      /\ \A o \in AliasOptions(n) :
           LET alias == rs[loaded + Cardinality(AliasOptions(o))]
           IN  /\ alias.baseAddress = arguments[o].baseAddress
               /\ alias.redirectAddress = arguments[o].redirectAddress
               /\ alias.isReadOnly = rs[alias.pRedirect].isReadOnly

HasNoAlias(rs) == \A i \in DOMAIN rs : ~rs[i].isAlias

\* The stages before the aliases are made, and those after the image was loaded.
Early == {"first pass", "required", "open image", "size image", "allocate image", "read image",
          "close image", "load image", "free image", "dump type", "load dump"}

Loaded == {"free image", "dump type", "load dump", "second pass", "running"}

AliasInv ==
  /\ stage \in Early => HasNoAlias(regions)
  /\ stage = "second pass" => AliasesFollow(regions, argument - 1)
  /\ stage = "running" => AliasesFollow(regions, Len(arguments))

HasCounters(rs) ==
  \A i \in DOMAIN rs :
    rs[i].isReadOnly /\ ~rs[i].isAlias => rs[i].pReadCounts = ZeroReadCounts(rs[i].size)

CountersInv == stage \in Loaded => HasCounters(regions)

\* An image file has been named before one is opened.
Opening == {"open image", "size image", "allocate image", "read image", "close image",
            "load image"}

ImageInv == stage \in Opening => pThis.pBinFilename # NoFile \/ pThis.pElfFilename # NoFile

SetUpInv ==
  /\ CommandLineTypeOK
  /\ GoodRegions(regions)
  /\ OptionsDecide
  /\ AliasInv
  /\ CountersInv
  /\ ImageInv

(***************************************************************************)
(* The region lists.                                                       *)
(***************************************************************************)

LEMMA EmptyGood == GoodRegions(<<>>) /\ HasNoAlias(<<>>) /\ HasCounters(<<>>)
  BY DEF GoodRegions, Redirects, HasNoAlias, HasCounters

\* A list of regions without an alias and without a watchpoint.
LEMMA PlainGood ==
  ASSUME NEW rs \in Seq(MemoryRegion), HasNoAlias(rs),
         \A i \in DOMAIN rs : rs[i].watchpoints = <<>>
  PROVE  GoodRegions(rs)
  BY EmptyOrdered DEF GoodRegions, Redirects, HasNoAlias

\* The memory that loadBinFile leaves.
LEMMA BinGood ==
  ASSUME NEW baseAddress \in Address, NEW data \in Seq(Byte), Len(data) \in Address,
         NEW regionOk \in BOOLEAN, NEW countsOk \in BOOLEAN
  PROVE  LET result == BinImage(baseAddress, data, regionOk, countsOk)
         IN  /\ GoodRegions(result.regions)
             /\ HasNoAlias(result.regions)
             /\ result.exception = noException => HasCounters(result.regions)
<1> DEFINE created == CreateRegion(<<>>, baseAddress, Len(data), regionOk)
           loaded  == LoadFromFlashImage(created.regions, baseAddress, data)
           locked  == MakeRegionReadOnly(loaded.regions, baseAddress, countsOk)
<1>1. GoodRegions(created.regions) /\ HasNoAlias(created.regions) /\ HasCounters(created.regions)
  <2>1. GoodRegions(created.regions)
    BY EmptyGood, CreateRegionGood
  <2> DEFINE r == NewRegion(baseAddress, Len(data))
  <2>2. ~r.isAlias /\ ~r.isReadOnly
    BY DEF NewRegion
  <2> HIDE DEF r
  <2>3. DOMAIN Append(<<>>, r) = {1} /\ Append(<<>>, r)[1] = r
    OBVIOUS
  <2>4. created.regions \in {<<>>, Append(<<>>, r)}
    BY DEF CreateRegion, Returns, Throws, r
  <2> HIDE DEF created
  <2> QED
    BY <2>1, <2>2, <2>3, <2>4 DEF HasNoAlias, HasCounters
<1> HIDE DEF created
<1>2. /\ GoodRegions(loaded.regions)
      /\ HasNoAlias(loaded.regions) /\ HasCounters(loaded.regions)
  <2>1. GoodRegions(loaded.regions)
    BY <1>1, LoadGood
  <2>2. PICK ks : loaded.regions = StoreChunks(created.regions, baseAddress, data, ks)
    BY DEF LoadFromFlashImage, Returns, Throws
  <2>3. \A i \in DOMAIN created.regions : created.regions[i] \in MemoryRegion
    BY <1>1, GoodElement DEF GoodRegion
  <2>4. /\ DOMAIN loaded.regions = DOMAIN created.regions
        /\ \A i \in DOMAIN created.regions :
             \E x : loaded.regions[i] = [created.regions[i] EXCEPT !.pData = x]
    BY <2>2 DEF StoreChunks
  <2>5. \A i \in DOMAIN created.regions :
          /\ loaded.regions[i].isAlias = created.regions[i].isAlias
          /\ loaded.regions[i].isReadOnly = created.regions[i].isReadOnly
          /\ loaded.regions[i].size = created.regions[i].size
          /\ loaded.regions[i].pReadCounts = created.regions[i].pReadCounts
    BY <2>3, <2>4 DEF MemoryRegion
  <2> QED
    BY <1>1, <2>1, <2>4, <2>5 DEF HasNoAlias, HasCounters
<1> HIDE DEF loaded
<1>3. /\ GoodRegions(locked.regions)
      /\ HasNoAlias(locked.regions)
      /\ locked.exception = noException => HasCounters(locked.regions)
  <2>1. GoodRegions(locked.regions)
    BY <1>2, MakeRegionReadOnlyGood
  <2> DEFINE rs == loaded.regions
             i  == findMatchingRegion(rs, baseAddress, 1).region
  <2>2. CASE Matching(rs, baseAddress, 1) = {}
    BY <1>2, <2>1, <2>2
       DEF MakeRegionReadOnly, Throws, noException, busErrorException
  <2>3. CASE Matching(rs, baseAddress, 1) # {}
    <3>1. i \in DOMAIN rs /\ \A j \in DOMAIN rs : rs[j] \in MemoryRegion
      BY <1>2, <2>3, FindGood, GoodElement DEF GoodRegion
    <3> DEFINE only == [rs EXCEPT ![i].isReadOnly = TRUE]
               new  == [only EXCEPT ![i].pReadCounts = ZeroReadCounts(rs[i].size)]
    <3>2. locked = IF countsOk THEN Returns(new) ELSE Throws(only, outOfMemoryException)
      BY <2>3 DEF MakeRegionReadOnly
    <3> HIDE DEF rs, i, locked
    <3>3. /\ DOMAIN only = DOMAIN rs /\ only[i] = [rs[i] EXCEPT !.isReadOnly = TRUE]
          /\ \A j \in DOMAIN rs : j # i => only[j] = rs[j]
      BY <3>1
    <3> HIDE DEF only
    <3>4. /\ DOMAIN new = DOMAIN rs
          /\ new[i] = [only[i] EXCEPT !.pReadCounts = ZeroReadCounts(rs[i].size)]
          /\ \A j \in DOMAIN rs : j # i => new[j] = rs[j]
      BY <3>1, <3>3
    <3> HIDE DEF new
    <3>5. /\ only[i].isAlias = rs[i].isAlias
          /\ new[i].isAlias = rs[i].isAlias /\ new[i].size = rs[i].size
          /\ new[i].pReadCounts = ZeroReadCounts(rs[i].size)
      BY <3>1, <3>3, <3>4 DEF MemoryRegion
    <3>6. HasNoAlias(only) /\ HasNoAlias(new)
      BY <1>2, <3>1, <3>3, <3>4, <3>5 DEF HasNoAlias, rs
    <3>7. HasCounters(new)
      BY <1>2, <3>1, <3>4, <3>5 DEF HasCounters, rs
    <3> QED
      BY <2>1, <3>2, <3>6, <3>7 DEF Returns, Throws, noException, outOfMemoryException
  <2> QED
    BY <2>2, <2>3
<1>4. BinImage(baseAddress, data, regionOk, countsOk) \in {created, loaded, locked}
      /\ (BinImage(baseAddress, data, regionOk, countsOk).exception = noException =>
            BinImage(baseAddress, data, regionOk, countsOk) = locked)
  BY DEF BinImage, created, loaded
<1> HIDE DEF locked
<1> QED
  BY <1>1, <1>2, <1>3, <1>4

\* What a dump adds to the memory.
LEMMA DumpGood ==
  ASSUME NEW rs, GoodRegions(rs), HasNoAlias(rs), HasCounters(rs), NEW added \in DumpRegions
  PROVE  GoodRegions(rs \o added) /\ HasNoAlias(rs \o added) /\ HasCounters(rs \o added)
<1>1. /\ rs \in Seq(MemoryRegion) /\ added \in Seq(MemoryRegion)
      /\ \A i \in DOMAIN added : /\ ~added[i].isAlias /\ ~added[i].isReadOnly
                                 /\ added[i].watchpoints = <<>>
  BY LoaderAssumption DEF GoodRegions
<1>2. /\ Len(rs) \in Nat /\ DOMAIN rs = 1 .. Len(rs)
      /\ Len(added) \in Nat /\ DOMAIN added = 1 .. Len(added)
  BY <1>1, LenProperties
<1> DEFINE new == rs \o added
<1>3. /\ new \in Seq(MemoryRegion) /\ Len(new) = Len(rs) + Len(added)
      /\ \A i \in 1 .. Len(rs) + Len(added) :
           new[i] = IF i <= Len(rs) THEN rs[i] ELSE added[i - Len(rs)]
  BY <1>1, ConcatProperties
<1>4. DOMAIN new = 1 .. Len(rs) + Len(added)
  BY <1>3, LenProperties
<1> HIDE DEF new
<1>5. \A i \in DOMAIN new :
        (\E j \in DOMAIN rs : new[i] = rs[j]) \/ (\E j \in DOMAIN added : new[i] = added[j])
  <2> TAKE i \in DOMAIN new
  <2>1. PICK m, n : m = Len(rs) /\ n = Len(added)
    OBVIOUS
  <2>2. m \in Nat /\ n \in Nat /\ i \in 1 .. m + n
    BY <1>2, <1>4, <2>1
  <2>3. i \in 1 .. m \/ (i - m \in 1 .. n /\ ~(i <= m))
    BY <2>2
  <2> QED
    BY <1>2, <1>3, <2>1, <2>2, <2>3
<1>6. HasNoAlias(new) /\ HasCounters(new)
  BY <1>1, <1>5 DEF HasNoAlias, HasCounters
<1>7. \A i \in DOMAIN new : Ordered(new[i].watchpoints)
  BY <1>1, <1>5, EmptyOrdered DEF GoodRegions
<1>8. GoodRegions(new)
  BY <1>3, <1>6, <1>7 DEF GoodRegions, Redirects, HasNoAlias
<1> QED
  BY <1>6, <1>8 DEF new

(***************************************************************************)
(* The steps.                                                              *)
(***************************************************************************)

\* An option of the command line.
LEMMA OptionType ==
  ASSUME arguments \in ArgumentLists, NEW i \in DOMAIN arguments
  PROVE  /\ arguments[i] \in Option
         /\ arguments[i].name \in {"--bin", "--elf"} => arguments[i].file \in ImageFile
         /\ arguments[i].name = "--dump" => arguments[i].file \in DumpFile
         /\ i \in Nat /\ i >= 1 /\ i <= Len(arguments)
<1>1. arguments \in Seq(Option)
  BY ArgumentAssumption
<1>2. i \in 1 .. Len(arguments) /\ Len(arguments) \in Nat
  BY <1>1, LenProperties
<1>3. arguments[i] \in Option
  BY <1>1, <1>2, ElementOfSeq
<1> QED
  BY <1>2, <1>3, ArgumentAssumption

LEMMA InitSetUpInv == Init => SetUpInv
<1> SUFFICES ASSUME Init PROVE SetUpInv
  OBVIOUS
<1>1. arguments \in ArgumentLists /\ Len(arguments) \in Nat
  BY ArgumentsType DEF Init
<1>2. CommandLineTypeOK
  <2>1. 1 \in 1 .. Len(arguments) + 1 /\ 0 \in Address /\ <<>> \in Seq(MemoryRegion)
    BY <1>1, AddressLimitAssumption DEF Address
  <2> QED
    BY <2>1 DEF Init, CommandLineTypeOK
<1>3. OptionsDecide
  <2>1. \A name : Seen(name) = {}
    <3>1. \A i \in DOMAIN arguments : ~(i < 1)
      BY <1>1, OptionType
    <3> QED
      BY <3>1 DEF Init, Seen
  <2> QED
    BY <2>1 DEF Init, OptionsDecide, LastSeen
<1> QED
  BY <1>2, <1>3, EmptyGood DEF Init, SetUpInv, AliasInv, CountersInv, Loaded, ImageInv, Opening

\* A step that neither parses nor touches the regions, but to free them.
LEMMA StageKeeps ==
  ASSUME SetUpInv, LaunchInv', UNCHANGED <<arguments, argument, pThis>>,
         releasedTwice' \in BOOLEAN,
         stage' # "first pass",
         stage = "first pass" => stage' # "required" /\ pMemory' = "NULL",
         pMemory' # "NULL" \/ stage' = "required" => pMemory # "NULL" \/ stage = "required",
         stage' \in Opening =>
           stage \in Opening \/ pThis.pBinFilename # NoFile \/ pThis.pElfFilename # NoFile,
         GoodRegions(regions'), AliasInv', CountersInv'
  PROVE  SetUpInv'
<1>1. CommandLineTypeOK'
  <2>1. regions' \in Seq(MemoryRegion)
    BY DEF GoodRegions
  <2> QED
    BY <2>1 DEF CommandLineTypeOK, SetUpInv, LaunchInv, FileInv, BufferInv, MemoryInv
<1>2. OptionsDecide'
  <2>1. CASE stage = "first pass"
    BY <2>1 DEF OptionsDecide
  <2>2. CASE stage # "first pass"
    <3>1. \A name : Seen(name)' = Seen(name)
      BY <2>2 DEF Seen
    <3>2. \A name : LastSeen(name)' = LastSeen(name)
      BY <3>1 DEF LastSeen
    <3> QED
      BY <2>2, <3>1, <3>2 DEF SetUpInv, OptionsDecide
  <2> QED
    BY <2>1, <2>2
<1>3. ImageInv'
  BY DEF SetUpInv, ImageInv
<1> QED
  BY <1>1, <1>2, <1>3 DEF SetUpInv

\* The regions stay.
LEMMA RegionsStay ==
  ASSUME SetUpInv, UNCHANGED regions, stage' \notin {"second pass", "running"},
         stage' \in Early => stage \in Early, stage' \in Loaded => stage \in Loaded
  PROVE  GoodRegions(regions') /\ AliasInv' /\ CountersInv'
  BY DEF SetUpInv, AliasInv, CountersInv

\* Steps that only go on, or give up.
LEMMA QuietKeeps ==
  ASSUME SetUpInv, LaunchInv, LaunchInv',
         \/ parseMalformedOption \/ throwIfRequiredArgumentNotSpecified
         \/ openImage \/ GetFileSize \/ allocateImage \/ readImage \/ closeImage
         \/ freeImage \/ catchInLoadFileData \/ catchInLoadImageFile
         \/ getFileType \/ mriPlatform_RunThrows
  PROVE  SetUpInv'
<1> USE DEF Goes, ThrowsTo, Tries, parsing, memory, resources, Early, Loaded, Opening
<1>0. releasedTwice \in BOOLEAN
  BY DEF SetUpInv, CommandLineTypeOK
<1>1. CASE parseMalformedOption
  <2>1. /\ UNCHANGED <<arguments, argument, pThis, pMemory, regions, releasedTwice>>
        /\ stage' = "catch Init" /\ stage \in {"first pass", "second pass"}
        /\ stage = "first pass" => pMemory = "NULL"
    BY <1>1 DEF parseMalformedOption, Parses, LaunchInv, MemoryInv
  <2> QED
    BY <1>0, <2>1, RegionsStay, StageKeeps
<1>2. CASE throwIfRequiredArgumentNotSpecified
  <2>1. /\ UNCHANGED <<arguments, argument, pThis, regions, releasedTwice>>
        /\ stage' \in {"catch Init", "open image"} /\ stage = "required"
        /\ stage' = "open image" => pThis.pBinFilename # NoFile \/ pThis.pElfFilename # NoFile
    BY <1>2 DEF throwIfRequiredArgumentNotSpecified
  <2> QED
    BY <1>0, <2>1, RegionsStay, StageKeeps
<1>3. CASE openImage \/ GetFileSize \/ allocateImage \/ readImage
  <2>1. /\ UNCHANGED <<arguments, argument, pThis, pMemory, regions, releasedTwice>>
        /\ stage \in {"open image", "size image", "allocate image", "read image"}
        /\ stage' \in {"size image", "allocate image", "read image", "close image", "catch file"}
    BY <1>3 DEF openImage, GetFileSize, allocateImage, readImage
  <2> QED
    BY <1>0, <2>1, RegionsStay, StageKeeps
<1>4. CASE closeImage
  <2>1. /\ UNCHANGED <<arguments, argument, pThis, pMemory, regions, releasedTwice>>
        /\ stage = "close image" /\ stage' = "load image"
    BY <1>4 DEF closeImage
  <2> QED
    BY <1>0, <2>1, RegionsStay, StageKeeps
<1>5. CASE freeImage
  <2>1. /\ UNCHANGED <<arguments, argument, pThis, pMemory, regions>>
        /\ releasedTwice' \in BOOLEAN
        /\ stage = "free image" /\ stage' = "dump type"
    BY <1>5 DEF freeImage, FreesBuffer
  <2> QED
    BY <2>1, RegionsStay, StageKeeps
<1>6. CASE catchInLoadFileData \/ catchInLoadImageFile
  <2>1. /\ UNCHANGED <<arguments, argument, pThis, pMemory, regions>>
        /\ releasedTwice' \in BOOLEAN
        /\ stage \in {"catch file", "catch image"} /\ stage' \in {"catch image", "catch Init"}
    BY <1>0, <1>6 DEF catchInLoadFileData, catchInLoadImageFile, FreesBuffer
  <2> QED
    BY <2>1, RegionsStay, StageKeeps
<1>7. CASE getFileType
  <2>1. /\ UNCHANGED <<arguments, argument, pThis, pMemory, regions, releasedTwice>>
        /\ stage = "dump type" /\ stage' \in {"load dump", "catch Init"}
    BY <1>7 DEF getFileType
  <2> QED
    BY <1>0, <2>1, RegionsStay, StageKeeps
<1>8. CASE mriPlatform_RunThrows
  <2>1. /\ UNCHANGED <<arguments, argument, pThis, pMemory, regions, releasedTwice>>
        /\ stage = "running" /\ stage' = "uninit"
    BY <1>8 DEF mriPlatform_RunThrows
  <2> QED
    BY <1>0, <2>1, RegionsStay, StageKeeps
<1> QED
  BY <1>1, <1>2, <1>3, <1>4, <1>5, <1>6, <1>7, <1>8

\* The memory is freed.
LEMMA UninitKeepsSetUp ==
  ASSUME SetUpInv, LaunchInv, LaunchInv', catchInInit \/ CrashDebugCommandLine_Uninit
  PROVE  SetUpInv'
<1>1. /\ UNCHANGED <<arguments, argument, pThis, releasedTwice>>
      /\ regions' \in {regions, <<>>}
      /\ pMemory' # "NULL" => pMemory # "NULL"
      /\ stage \in {"catch Init", "uninit"} /\ stage' \in {"uninit", "exited"}
  BY DEF catchInInit, CrashDebugCommandLine_Uninit, Goes, parsing, resources, UninitsMemory
<1>2. GoodRegions(regions') /\ AliasInv' /\ CountersInv'
  BY <1>1, EmptyGood DEF SetUpInv, AliasInv, CountersInv, Early, Loaded
<1>3. releasedTwice' \in BOOLEAN
  BY <1>1 DEF SetUpInv, CommandLineTypeOK
<1> QED
  BY <1>1, <1>2, <1>3, StageKeeps DEF Opening

\* Another option is parsed.
LEMMA FirstOptionKeepsSetUp ==
  ASSUME SetUpInv, LaunchInv, LaunchInv', firstPassOption
  PROVE  SetUpInv'
<1>1. PICK option : option = arguments[argument]
  OBVIOUS
<1>2. /\ stage = "first pass" /\ argument \in DOMAIN arguments /\ ~IsMalformed(option)
      /\ pThis' = Specified(pThis, option) /\ argument' = argument + 1
      /\ UNCHANGED <<arguments, memory, resources, stage, exception>>
  BY <1>1 DEF firstPassOption, Parses
<1>3. /\ arguments \in ArgumentLists /\ Len(arguments) \in Nat /\ argument \in Nat
      /\ DOMAIN arguments = 1 .. Len(arguments)
      /\ option \in Option
      /\ option.name \in {"--bin", "--elf"} => option.file \in ImageFile
      /\ option.name = "--dump" => option.file \in DumpFile
  BY <1>1, <1>2, ArgumentsType, OptionType DEF LaunchInv, ArgumentInv
<1>4. pThis \in [pElfFilename : ImageFile \cup {NoFile}, pBinFilename : ImageFile \cup {NoFile},
                 pDumpFilename : DumpFile \cup {NoFile}, baseAddress : Address]
  BY DEF SetUpInv, CommandLineTypeOK
<1>5. option.baseAddress \in Address
  BY <1>3 DEF Option
<1>6. /\ option.name \in OptionName
      /\ option.name = "--alias" => pThis' = pThis
      /\ option.name = "--elf" => pThis' = [pThis EXCEPT !.pElfFilename = option.file]
      /\ option.name = "--dump" => pThis' = [pThis EXCEPT !.pDumpFilename = option.file]
      /\ option.name = "--bin" => pThis' = [pThis EXCEPT !.pBinFilename = option.file,
                                                        !.baseAddress = option.baseAddress]
  BY <1>2 DEF IsMalformed, Specified
<1>7. /\ pThis' \in [pElfFilename : ImageFile \cup {NoFile},
                     pBinFilename : ImageFile \cup {NoFile},
                     pDumpFilename : DumpFile \cup {NoFile}, baseAddress : Address]
      /\ pThis'.pElfFilename = IF option.name = "--elf" THEN option.file ELSE pThis.pElfFilename
      /\ pThis'.pDumpFilename = IF option.name = "--dump" THEN option.file
                                ELSE pThis.pDumpFilename
      /\ pThis'.pBinFilename = IF option.name = "--bin" THEN option.file ELSE pThis.pBinFilename
      /\ pThis'.baseAddress = IF option.name = "--bin" THEN option.baseAddress
                              ELSE pThis.baseAddress
  BY <1>3, <1>4, <1>5, <1>6 DEF OptionName
<1>8. ASSUME NEW name
      PROVE  IF name = option.name THEN Seen(name)' # {} /\ Max(Seen(name)') = argument
             ELSE Seen(name)' = Seen(name)
  <2>1. Seen(name) = {i \in DOMAIN arguments : arguments[i].name = name /\ i < argument}
    BY <1>2 DEF Seen
  <2>2. Seen(name)' = {i \in DOMAIN arguments : arguments[i].name = name /\ i < argument + 1}
    BY <1>2 DEF Seen
  <2>3. \A i \in DOMAIN arguments : /\ i < argument + 1 <=> i < argument \/ i = argument
                                    /\ i < argument => i \in 1 .. argument - 1
    BY <1>3
  <2>4. CASE name = option.name
    <3>1. Seen(name)' = Seen(name) \cup {argument} /\ Seen(name) \in SUBSET (1 .. argument - 1)
      BY <1>1, <1>2, <2>1, <2>2, <2>3, <2>4
    <3> QED
      BY <1>3, <2>4, <3>1, MaxOnTop
  <2>5. CASE name # option.name
    BY <1>1, <2>1, <2>2, <2>3, <2>5
  <2> QED
    BY <2>4, <2>5
<1>9. ASSUME NEW name
      PROVE  LastSeen(name)' = IF name = option.name THEN option.file ELSE LastSeen(name)
  <2>1. CASE name = option.name
    <3>1. Seen(name)' # {} /\ Max(Seen(name)') = argument
      BY <1>8, <2>1
    <3>2. LastSeen(name)' = arguments'[Max(Seen(name)')].file
      BY <3>1 DEF LastSeen
    <3> QED
      BY <1>1, <1>2, <2>1, <3>1, <3>2
  <2>2. CASE name # option.name
    <3>1. Seen(name)' = Seen(name)
      BY <1>8, <2>2
    <3>2. LastSeen(name)' = IF Seen(name)' = {} THEN NoFile
                            ELSE arguments'[Max(Seen(name)')].file
      BY DEF LastSeen
    <3> QED
      BY <1>2, <2>2, <3>1, <3>2 DEF LastSeen
  <2> QED
    BY <2>1, <2>2
<1>10. OptionsDecide'
  <2>1. /\ pThis.pElfFilename = LastSeen("--elf")
        /\ pThis.pDumpFilename = LastSeen("--dump")
        /\ pThis.pBinFilename = LastSeen("--bin")
        /\ Seen("--bin") # {} => pThis.baseAddress = arguments[Max(Seen("--bin"))].baseAddress
    BY <1>2 DEF SetUpInv, OptionsDecide
  <2>2. /\ pThis'.pElfFilename = LastSeen("--elf")'
        /\ pThis'.pDumpFilename = LastSeen("--dump")'
        /\ pThis'.pBinFilename = LastSeen("--bin")'
    BY <1>7, <1>9, <2>1
  <2>3. Seen("--bin")' # {} => pThis'.baseAddress = arguments'[Max(Seen("--bin")')].baseAddress
    BY <1>1, <1>2, <1>7, <1>8, <2>1
  <2> QED
    BY <2>2, <2>3 DEF OptionsDecide
<1>11. CommandLineTypeOK'
  <2>1. argument + 1 \in 1 .. Len(arguments) + 1
    <3>1. PICK n : n = Len(arguments)
      OBVIOUS
    <3>2. n \in Nat /\ argument \in 1 .. n
      BY <1>2, <1>3, <3>1
    <3>3. argument + 1 \in 1 .. n + 1
      BY <3>2
    <3> QED
      BY <3>1, <3>3
  <2> QED
    BY <1>2, <1>7, <2>1 DEF SetUpInv, CommandLineTypeOK, memory, resources
<1> QED
  BY <1>2, <1>10, <1>11
  DEF SetUpInv, AliasInv, CountersInv, ImageInv, Opening, Early, Loaded, memory

\* The command line has been parsed.
LEMMA FirstPassEndKeepsSetUp ==
  ASSUME SetUpInv, LaunchInv, LaunchInv', firstPassEnd
  PROVE  SetUpInv'
<1>1. /\ stage = "first pass" /\ stage' = "required" /\ argument = Len(arguments) + 1
      /\ UNCHANGED <<parsing, memory, resources>>
  BY DEF firstPassEnd, Goes
<1>2. \A name : Seen(name)' = Seen(name)
  <2>1. \A i \in DOMAIN arguments : i < argument
    <3>1. PICK n : n = Len(arguments)
      OBVIOUS
    <3>2. n \in Nat /\ DOMAIN arguments = 1 .. n /\ argument = n + 1
      BY <1>1, <3>1, ArgumentsType DEF LaunchInv, ArgumentInv
    <3> QED
      BY <3>2
  <2> QED
    BY <1>1, <2>1 DEF Seen, parsing
<1>3. \A name : LastSeen(name)' = LastSeen(name)
  BY <1>1, <1>2 DEF LastSeen, parsing
<1>4. OptionsDecide'
  BY <1>1, <1>2, <1>3 DEF SetUpInv, OptionsDecide, parsing, memory
<1>5. CommandLineTypeOK'
  BY <1>1 DEF SetUpInv, CommandLineTypeOK, parsing, memory, resources
<1> QED
  BY <1>1, <1>4, <1>5
  DEF SetUpInv, AliasInv, CountersInv, ImageInv, Opening, Early, Loaded, memory

\* The image becomes the memory.
LEMMA LoadImageKeepsSetUp ==
  ASSUME SetUpInv, LaunchInv, LaunchInv', loadElfFile \/ loadBinFile
  PROVE  SetUpInv'
<1>1. /\ stage = "load image"
      /\ UNCHANGED <<parsing, pMemory, resources>>
  BY DEF loadElfFile, loadBinFile
<1>2. PICK result :
        /\ LoadsImage(result)
        /\ GoodRegions(result.regions) /\ HasNoAlias(result.regions)
        /\ result.exception = noException => HasCounters(result.regions)
  <2>1. CASE loadElfFile
    <3>1. PICK result \in ElfImage : LoadsImage(result)
      BY <2>1 DEF loadElfFile
    <3>2. /\ result.regions \in ElfImages \cup PartialImages
          /\ result.exception = noException => result.regions \in ElfImages
      BY DEF ElfImage, noException, elfFormatException, outOfMemoryException, busErrorException
    <3>3. /\ result.regions \in Seq(MemoryRegion) /\ HasNoAlias(result.regions)
          /\ \A i \in DOMAIN result.regions : result.regions[i].watchpoints = <<>>
          /\ result.exception = noException => HasCounters(result.regions)
      BY <3>2, LoaderAssumption DEF HasNoAlias, HasCounters
    <3> QED
      BY <3>1, <3>3, PlainGood
  <2>2. CASE loadBinFile
    <3>1. PICK regionOk, countsOk \in MallocOutcomes :
            LoadsImage(BinImage(pThis.baseAddress, BinData[pThis.pBinFilename],
                                regionOk, countsOk))
      BY <2>2 DEF loadBinFile
    <3>2. pThis.baseAddress \in Address /\ pThis.pBinFilename \in ImageFile
      <4>1. pThis.pElfFilename = NoFile
        BY <2>2 DEF loadBinFile
      <4>2. pThis.pBinFilename # NoFile
        BY <1>1, <4>1 DEF SetUpInv, ImageInv, Opening
      <4> QED
        BY <4>2 DEF SetUpInv, CommandLineTypeOK
    <3>3. BinData[pThis.pBinFilename] \in Seq(Byte) /\ Len(BinData[pThis.pBinFilename]) \in Address
          /\ regionOk \in BOOLEAN /\ countsOk \in BOOLEAN
      BY <3>2, FileAssumption
    <3> QED
      BY <3>1, <3>2, <3>3, BinGood
  <2> QED
    BY <2>1, <2>2
<1>3. /\ regions' = result.regions
      /\ \/ result.exception = noException /\ stage' = "free image"
         \/ stage' = "catch image"
  BY <1>2 DEF LoadsImage, Goes, ThrowsTo
<1>4. GoodRegions(regions') /\ AliasInv' /\ CountersInv'
  BY <1>2, <1>3 DEF AliasInv, CountersInv, Early, Loaded
<1>5. UNCHANGED <<arguments, argument, pThis, pMemory>> /\ releasedTwice' \in BOOLEAN
  BY <1>1 DEF parsing, resources, SetUpInv, CommandLineTypeOK
<1> QED
  BY <1>1, <1>3, <1>4, <1>5, StageKeeps DEF Opening

\* The dump adds to it.
LEMMA LoadDumpKeepsSetUp ==
  ASSUME SetUpInv, LaunchInv, LaunchInv', loadDumpFile
  PROVE  SetUpInv'
<1>1. PICK rs \in DumpRegions : regions' = regions \o rs
  BY DEF loadDumpFile
<1>2. /\ stage = "load dump" /\ stage' \in {"second pass", "catch Init"} /\ argument' = 1
      /\ UNCHANGED <<arguments, pThis, pMemory, resources>>
  BY DEF loadDumpFile, Goes, ThrowsTo
<1>3. GoodRegions(regions') /\ HasNoAlias(regions') /\ HasCounters(regions')
  BY <1>1, <1>2, DumpGood DEF SetUpInv, AliasInv, CountersInv, Early, Loaded
<1>4. AliasesFollow(regions, 0)'
  <2>1. AliasOptions(0)' = {}
    BY DEF AliasOptions
  <2>2. regions' \in Seq(MemoryRegion)
    BY <1>3 DEF GoodRegions
  <2>3. PICK n : n = Len(regions')
    OBVIOUS
  <2>4. n \in Nat /\ DOMAIN regions' = 1 .. n
    BY <2>2, <2>3, LenProperties
  <2>5. Cardinality({}) = 0
    BY FS_EmptySet
  <2>6. n - 0 = n /\ 0 <= n /\ \A i \in 1 .. n : ~(i > n)
    BY <2>4
  <2>7. 0 <= Len(regions') /\ \A i \in DOMAIN regions' :
          regions'[i].isAlias <=> i > Len(regions') - 0
    BY <1>3, <2>3, <2>4, <2>6 DEF HasNoAlias
  <2> QED
    BY <2>1, <2>5, <2>7 DEF AliasesFollow
<1>5. OptionsDecide'
  <2>1. \A name : Seen(name)' = Seen(name)
    BY <1>2 DEF Seen
  <2>2. \A name : LastSeen(name)' = LastSeen(name)
    BY <1>2, <2>1 DEF LastSeen
  <2> QED
    BY <1>2, <2>1, <2>2 DEF SetUpInv, OptionsDecide
<1>6. CommandLineTypeOK'
  <2>1. 1 \in 1 .. Len(arguments) + 1
    <3>1. PICK n : n = Len(arguments)
      OBVIOUS
    <3>2. n \in Nat
      BY <3>1, ArgumentsType DEF LaunchInv, ArgumentInv
    <3>3. 1 \in 1 .. n + 1
      BY <3>2
    <3> QED
      BY <3>1, <3>3
  <2> QED
    BY <1>2, <1>3, <2>1 DEF SetUpInv, CommandLineTypeOK, resources, GoodRegions
<1>7. AliasInv' /\ CountersInv'
  <2>1. AliasesFollow(regions, argument - 1)'
    <3>0. argument' = 1
      BY <1>2
    <3>1. argument' - 1 = 0
      BY <3>0
    <3> QED
      BY <1>4, <3>1 DEF AliasesFollow, AliasOptions
  <2> QED
    BY <1>2, <1>3, <2>1 DEF AliasInv, CountersInv, Early, Loaded
<1> QED
  BY <1>2, <1>3, <1>5, <1>6, <1>7 DEF SetUpInv, ImageInv, Opening

\* Counting the aliases.
LEMMA AliasOptionsFinite ==
  ASSUME NEW n \in Nat
  PROVE  IsFiniteSet(AliasOptions(n)) /\ Cardinality(AliasOptions(n)) \in Nat
<1>1. IsFiniteSet(1 .. n) /\ AliasOptions(n) \subseteq 1 .. n
  BY FS_Interval DEF AliasOptions
<1> QED
  BY <1>1, FS_Subset, FS_CardinalityType

LEMMA AliasOptionsCount ==
  ASSUME NEW n \in Nat, NEW o \in AliasOptions(n)
  PROVE  Cardinality(AliasOptions(o)) \in 1 .. Cardinality(AliasOptions(n))
<1>1. o \in 1 .. n
  BY DEF AliasOptions
<1>2. o \in Nat /\ o \in AliasOptions(o) /\ AliasOptions(o) \subseteq AliasOptions(n)
  BY <1>1 DEF AliasOptions
<1>3. /\ IsFiniteSet(AliasOptions(n)) /\ IsFiniteSet(AliasOptions(o))
      /\ Cardinality(AliasOptions(n)) \in Nat /\ Cardinality(AliasOptions(o)) \in Nat
  BY <1>2, AliasOptionsFinite
<1>4. Cardinality(AliasOptions(o)) <= Cardinality(AliasOptions(n))
  BY <1>2, <1>3, FS_Subset
<1>5. Cardinality(AliasOptions(o)) # 0
  BY <1>2, <1>3, FS_EmptySet
<1> QED
  BY <1>3, <1>4, <1>5

LEMMA NextOption ==
  ASSUME NEW n \in Nat
  PROVE  /\ arguments[n + 1].name # "--alias" => AliasOptions(n + 1) = AliasOptions(n)
         /\ arguments[n + 1].name = "--alias" =>
              /\ AliasOptions(n + 1) = AliasOptions(n) \cup {n + 1}
              /\ Cardinality(AliasOptions(n + 1)) = Cardinality(AliasOptions(n)) + 1
<1>1. 1 .. n + 1 = 1 .. n \cup {n + 1} /\ n + 1 \notin 1 .. n
  OBVIOUS
<1>2. n + 1 \notin AliasOptions(n)
  BY <1>1 DEF AliasOptions
<1>3. ASSUME arguments[n + 1].name = "--alias"
      PROVE  AliasOptions(n + 1) = AliasOptions(n) \cup {n + 1}
  BY <1>1, <1>3 DEF AliasOptions
<1>4. ASSUME arguments[n + 1].name # "--alias"
      PROVE  AliasOptions(n + 1) = AliasOptions(n)
  BY <1>1, <1>4 DEF AliasOptions
<1> QED
  BY <1>2, <1>3, <1>4, AliasOptionsFinite, FS_AddElement

\* One alias more.
LEMMA AliasAppended ==
  ASSUME NEW rs, GoodRegions(rs), NEW n \in Nat, AliasesFollow(rs, n),
         arguments[n + 1].name = "--alias",
         NEW alias, alias.isAlias,
         alias.baseAddress = arguments[n + 1].baseAddress,
         alias.redirectAddress = arguments[n + 1].redirectAddress,
         alias.pRedirect \in DOMAIN rs,
         alias.isReadOnly = rs[alias.pRedirect].isReadOnly
  PROVE  AliasesFollow(Append(rs, alias), n + 1)
<1> DEFINE new == Append(rs, alias)
<1>1. PICK len, made : len = Len(rs) /\ made = Cardinality(AliasOptions(n))
  OBVIOUS
<1>2. /\ len \in Nat /\ DOMAIN rs = 1 .. len
      /\ DOMAIN new = 1 .. len + 1 /\ Len(new) = len + 1
      /\ new[len + 1] = alias
      /\ \A i \in 1 .. len : new[i] = rs[i]
  <2>1. rs \in Seq(MemoryRegion) /\ Len(rs) \in Nat /\ DOMAIN rs = 1 .. Len(rs)
    BY LenProperties DEF GoodRegions
  <2>2. /\ Len(new) = Len(rs) + 1 /\ new[Len(rs) + 1] = alias
        /\ DOMAIN new = 1 .. Len(rs) + 1
        /\ \A i \in 1 .. Len(rs) : new[i] = rs[i]
    BY <2>1
  <2> HIDE DEF new
  <2> QED
    BY <1>1, <2>1, <2>2
<1> HIDE DEF new
<1>3. made \in Nat
  BY <1>1, AliasOptionsFinite
<1> DEFINE loaded == len - made
<1>4. /\ made <= len
      /\ \A i \in DOMAIN rs : rs[i].isAlias <=> i > loaded
      /\ \A o \in AliasOptions(n) :
           LET a == rs[loaded + Cardinality(AliasOptions(o))]
           IN  /\ a.baseAddress = arguments[o].baseAddress
               /\ a.redirectAddress = arguments[o].redirectAddress
               /\ a.isReadOnly = rs[a.pRedirect].isReadOnly
  BY <1>1 DEF AliasesFollow
<1>5. loaded \in 0 .. len
  BY <1>2, <1>3, <1>4
<1>6. /\ made + 1 <= len + 1 /\ (len + 1) - (made + 1) = loaded
      /\ Cardinality(AliasOptions(n + 1)) = made + 1
      /\ loaded + (made + 1) = len + 1
  BY <1>1, <1>2, <1>3, <1>4, NextOption
<1> HIDE DEF loaded
<1>7. \A i \in 1 .. len + 1 : new[i].isAlias <=> i > loaded
  <2> TAKE i \in 1 .. len + 1
  <2>1. i \in 1 .. len \/ (i = len + 1 /\ i > loaded)
    BY <1>2, <1>5
  <2> QED
    BY <1>2, <1>4, <2>1
<1>8. ASSUME NEW o \in AliasOptions(n + 1)
      PROVE  LET a == new[loaded + Cardinality(AliasOptions(o))]
             IN  /\ a.baseAddress = arguments[o].baseAddress
                 /\ a.redirectAddress = arguments[o].redirectAddress
                 /\ a.isReadOnly = new[a.pRedirect].isReadOnly
  <2>1. o \in AliasOptions(n) \/ o = n + 1
    BY NextOption
  <2>2. CASE o \in AliasOptions(n)
    <3>1. PICK c : c = Cardinality(AliasOptions(o))
      OBVIOUS
    <3>2. c \in 1 .. made
      BY <1>1, <2>2, <3>1, AliasOptionsCount
    <3>3. loaded + c \in 1 .. len /\ loaded + c > loaded
      BY <1>2, <1>3, <1>5, <1>6, <3>2
    <3>4. PICK a : a = rs[loaded + c]
      OBVIOUS
    <3>5. a.isAlias /\ new[loaded + c] = a
      BY <1>2, <1>4, <3>3, <3>4
    <3>6. a.pRedirect \in 1 .. (loaded + c) - 1
      BY <1>2, <3>3, <3>4, <3>5 DEF GoodRegions, Redirects
    <3>7. a.pRedirect \in 1 .. len
      BY <1>2, <1>5, <3>2, <3>3, <3>6
    <3>8. new[a.pRedirect] = rs[a.pRedirect]
      BY <1>2, <3>7
    <3>9. /\ a.baseAddress = arguments[o].baseAddress
          /\ a.redirectAddress = arguments[o].redirectAddress
          /\ a.isReadOnly = rs[a.pRedirect].isReadOnly
      BY <1>4, <2>2, <3>1, <3>4
    <3> QED
      BY <3>1, <3>5, <3>8, <3>9
  <2>3. CASE o = n + 1
    <3>1. new[loaded + Cardinality(AliasOptions(o))] = alias
      BY <1>2, <1>6, <2>3
    <3>2. new[alias.pRedirect] = rs[alias.pRedirect]
      BY <1>2
    <3> QED
      BY <2>3, <3>1, <3>2
  <2> QED
    BY <2>1, <2>2, <2>3
<1>9. made + 1 <= Len(new) /\ Len(new) - (made + 1) = loaded
  BY <1>2, <1>6
<1>10. AliasesFollow(new, n + 1)
  BY <1>2, <1>6, <1>7, <1>8, <1>9 DEF AliasesFollow
<1> QED
  BY <1>10 DEF new

\* The command line stays, and with it what it asks for.
LEMMA AliasesStay ==
  ASSUME UNCHANGED arguments
  PROVE  \A rs, n : AliasesFollow(rs, n)' = AliasesFollow(rs, n)
<1>1. \A n : AliasOptions(n)' = AliasOptions(n)
  BY DEF AliasOptions
<1> QED
  BY <1>1 DEF AliasesFollow

LEMMA AroundOption ==
  ASSUME NEW n \in Nat, NEW a \in 1 .. n
  PROVE  a + 1 \in 1 .. n + 1 /\ a - 1 \in Nat /\ (a - 1) + 1 = a /\ (a + 1) - 1 = a
<1>1. a \in Nat /\ a >= 1 /\ a <= n
  OBVIOUS
<1> QED
  BY <1>1

\* Where the second pass is.
LEMMA SecondPassAt ==
  ASSUME SetUpInv, LaunchInv, Parses("second pass")
  PROVE  /\ argument - 1 \in Nat /\ (argument - 1) + 1 = argument
         /\ (argument + 1) - 1 = argument
         /\ argument + 1 \in 1 .. Len(arguments) + 1
         /\ AliasesFollow(regions, argument - 1) /\ GoodRegions(regions) /\ HasCounters(regions)
<1>1. PICK a, n : a = argument /\ n = Len(arguments)
  OBVIOUS
<1>2. n \in Nat /\ a \in 1 .. n
  BY <1>1, ArgumentsType DEF LaunchInv, ArgumentInv, Parses
<1>3. a + 1 \in 1 .. n + 1 /\ a - 1 \in Nat /\ (a - 1) + 1 = a /\ (a + 1) - 1 = a
  BY <1>2, AroundOption
<1>4. argument + 1 \in 1 .. Len(arguments) + 1
  BY <1>1, <1>3
<1>5. argument - 1 \in Nat /\ (argument - 1) + 1 = argument /\ (argument + 1) - 1 = argument
  BY <1>1, <1>3
<1> QED
  BY <1>4, <1>5 DEF SetUpInv, AliasInv, CountersInv, Loaded, Parses

\* The second pass changes nothing that the first has parsed.
LEMMA SecondPassKeeps ==
  ASSUME SetUpInv, LaunchInv', stage = "second pass",
         stage' \in {"second pass", "catch Init"},
         UNCHANGED <<arguments, pThis, pMemory, pFile, pBuffer, pData, releasedTwice>>,
         argument' \in 1 .. Len(arguments) + 1,
         GoodRegions(regions'), HasCounters(regions'),
         stage' = "second pass" => AliasesFollow(regions, argument - 1)'
  PROVE  SetUpInv'
<1>1. CommandLineTypeOK'
  BY DEF SetUpInv, CommandLineTypeOK, GoodRegions
<1>2. OptionsDecide'
  <2>1. \A name : Seen(name)' = Seen(name)
    BY DEF Seen
  <2>2. \A name : LastSeen(name)' = LastSeen(name)
    BY <2>1 DEF LastSeen
  <2> QED
    BY <2>1, <2>2 DEF SetUpInv, OptionsDecide
<1>3. AliasInv' /\ CountersInv' /\ ImageInv'
  BY DEF AliasInv, CountersInv, ImageInv, Early, Loaded, Opening
<1> QED
  BY <1>1, <1>2, <1>3 DEF SetUpInv

LEMMA SecondOptionKeepsSetUp ==
  ASSUME SetUpInv, LaunchInv, LaunchInv', secondPassOption
  PROVE  SetUpInv'
<1>1. /\ Parses("second pass") /\ arguments[argument].name # "--alias"
      /\ argument' = argument + 1
      /\ UNCHANGED <<arguments, pThis, memory, resources, stage, exception>>
  BY DEF secondPassOption
<1>2. PICK n : n = argument - 1
  OBVIOUS
<1>3. n \in Nat /\ n + 1 = argument /\ argument' - 1 = argument
  BY <1>1, <1>2, SecondPassAt
<1>4. AliasesFollow(regions, n + 1)
  <2>1. AliasOptions(n + 1) = AliasOptions(n)
    BY <1>1, <1>3, NextOption
  <2> QED
    BY <1>1, <1>2, <2>1, SecondPassAt DEF AliasesFollow
<1>5. AliasesFollow(regions, argument - 1)'
  <2>1. AliasesFollow(regions, n + 1)' = AliasesFollow(regions, n + 1)
    BY <1>1, AliasesStay DEF memory
  <2> QED
    BY <1>3, <1>4, <2>1
<1> QED
  BY <1>1, <1>5, SecondPassAt, SecondPassKeeps DEF Parses, memory, resources

\* An alias is made, or it is not and the program gives up.
LEMMA AliasOptionKeepsSetUp ==
  ASSUME SetUpInv, LaunchInv, LaunchInv', parseAliasOption
  PROVE  SetUpInv'
<1>1. PICK option : option = arguments[argument]
  OBVIOUS
<1>2. PICK mallocOk \in MallocOutcomes :
        AliasMade(CreateAlias(regions, option.baseAddress, option.redirectAddress,
                              option.size, mallocOk))
  BY <1>1 DEF parseAliasOption
<1>3. /\ Parses("second pass") /\ stage = "second pass" /\ option.name = "--alias"
      /\ UNCHANGED <<arguments, pThis, pMemory, pFile, pBuffer, pData, releasedTwice>>
  BY <1>1 DEF parseAliasOption, Parses, resources
<1>4. /\ option \in Option /\ argument \in DOMAIN arguments
      /\ argument \in 1 .. Len(arguments) + 1
  BY <1>1, <1>3, OptionType DEF LaunchInv, ArgumentInv, Parses, SetUpInv, CommandLineTypeOK
<1>5. /\ option.baseAddress \in Address /\ option.redirectAddress \in Address
      /\ option.size \in Address /\ mallocOk \in BOOLEAN
  BY <1>4, FileAssumption DEF Option
<1>6. PICK result : result = CreateAlias(regions, option.baseAddress, option.redirectAddress,
                                         option.size, mallocOk)
  OBVIOUS
<1>7. GoodRegions(result.regions)
  BY <1>3, <1>5, <1>6, SecondPassAt, CreateAliasGood
<1>8. /\ regions' = result.regions
      /\ \/ /\ result.exception = noException
            /\ argument' = argument + 1 /\ stage' = "second pass"
         \/ /\ result.exception # noException
            /\ argument' = argument /\ stage' = "catch Init"
  BY <1>2, <1>3, <1>6 DEF AliasMade, ThrowsTo
<1>9. CASE result.exception # noException
  <2>1. result.regions = regions
    BY <1>6, <1>9 DEF CreateAlias, Returns, Throws
  <2> QED
    BY <1>3, <1>4, <1>7, <1>8, <1>9, <2>1, SecondPassAt, SecondPassKeeps
<1>10. CASE result.exception = noException
  <2> DEFINE alias == NewAlias(regions, option.baseAddress, option.redirectAddress, option.size)
             p == findMatchingRegion(regions, option.redirectAddress, 1).region
  <2>1. /\ Matching(regions, option.redirectAddress, 1) # {}
        /\ result.regions = Append(regions, alias)
    BY <1>6, <1>10 DEF CreateAlias, Returns, Throws, noException, outOfMemoryException,
                       busErrorException
  <2>2. p \in DOMAIN regions
    BY <1>3, <1>5, <2>1, SecondPassAt, FindGood
  <2>3. /\ alias.isAlias /\ alias.pRedirect = p
        /\ alias.baseAddress = option.baseAddress
        /\ alias.redirectAddress = option.redirectAddress
        /\ alias.isReadOnly = regions[p].isReadOnly
    BY DEF NewAlias
  <2> HIDE DEF alias, p
  <2>4. PICK n : n = argument - 1
    OBVIOUS
  <2>5. n \in Nat /\ n + 1 = argument /\ argument' - 1 = argument
    BY <1>3, <1>8, <1>10, <2>4, SecondPassAt
  <2>6. AliasesFollow(Append(regions, alias), n + 1)
    BY <1>1, <1>3, <2>2, <2>3, <2>4, <2>5, SecondPassAt, AliasAppended
  <2>7. AliasesFollow(regions, argument - 1)'
    <3>1. PICK rs : rs = Append(regions, alias)
      OBVIOUS
    <3>2. AliasesFollow(rs, n + 1)' = AliasesFollow(rs, n + 1)
      BY <1>3, AliasesStay
    <3>3. regions' = rs /\ argument' - 1 = n + 1
      BY <1>8, <2>1, <2>5, <3>1
    <3> QED
      BY <2>6, <3>1, <3>2, <3>3
  <2>8. HasCounters(Append(regions, alias))
    <3>1. PICK len : len = Len(regions)
      OBVIOUS
    <3>2. regions \in Seq(MemoryRegion) /\ len \in Nat /\ DOMAIN regions = 1 .. len
      BY <1>3, <3>1, SecondPassAt, LenProperties DEF GoodRegions
    <3>3. /\ DOMAIN Append(regions, alias) = 1 .. len + 1
          /\ Append(regions, alias)[len + 1] = alias
          /\ \A i \in 1 .. len : Append(regions, alias)[i] = regions[i]
      BY <3>1, <3>2
    <3>4. \A i \in 1 .. len + 1 : i \in 1 .. len \/ i = len + 1
      BY <3>2
    <3>5. HasCounters(regions)
      BY <1>3, SecondPassAt
    <3> QED
      BY <2>3, <3>2, <3>3, <3>4, <3>5 DEF HasCounters
  <2>9. argument' \in 1 .. Len(arguments) + 1
    BY <1>3, <1>8, <1>10, SecondPassAt
  <2> QED
    BY <1>3, <1>7, <1>8, <1>10, <2>1, <2>7, <2>8, <2>9, SecondPassKeeps
<1> QED
  BY <1>9, <1>10

\* The session begins.
LEMMA SecondPassEndKeepsSetUp ==
  ASSUME SetUpInv, LaunchInv, LaunchInv', secondPassEnd
  PROVE  SetUpInv'
<1>1. /\ stage = "second pass" /\ stage' = "running" /\ argument = Len(arguments) + 1
      /\ UNCHANGED <<arguments, argument, pThis, pMemory, regions, releasedTwice>>
  BY DEF secondPassEnd, Goes, parsing, memory, resources
<1>2. AliasesFollow(regions, Len(arguments))
  <2>1. PICK n : n = Len(arguments)
    OBVIOUS
  <2>2. n \in Nat /\ argument = n + 1
    BY <1>1, <2>1, ArgumentsType DEF LaunchInv, ArgumentInv
  <2>3. argument - 1 = n
    BY <2>2
  <2> QED
    BY <1>1, <2>1, <2>3 DEF SetUpInv, AliasInv
<1>3. AliasesFollow(regions, Len(arguments))'
  <2>1. PICK n : n = Len(arguments)
    OBVIOUS
  <2>2. AliasesFollow(regions, n)' = AliasesFollow(regions, n)
    BY <1>1, AliasesStay
  <2>3. Len(arguments)' = n
    BY <1>1, <2>1
  <2> QED
    BY <1>2, <2>1, <2>2, <2>3
<1>4. GoodRegions(regions') /\ AliasInv' /\ CountersInv'
  BY <1>1, <1>3 DEF SetUpInv, AliasInv, CountersInv, Early, Loaded
<1>5. releasedTwice' \in BOOLEAN
  BY <1>1 DEF SetUpInv, CommandLineTypeOK
<1> QED
  BY <1>1, <1>4, <1>5, StageKeeps DEF Opening

LEMMA StutterKeepsSetUp ==
  ASSUME SetUpInv, UNCHANGED vars
  PROVE  SetUpInv'
<1>1. \A name : Seen(name)' = Seen(name)
  BY DEF vars, Seen
<1>2. \A name : LastSeen(name)' = LastSeen(name)
  BY <1>1 DEF vars, LastSeen
<1>3. \A n : AliasesFollow(regions, n)' = AliasesFollow(regions, n)
  BY DEF vars, AliasesFollow, AliasOptions
<1>4. OptionsDecide'
  BY <1>1, <1>2 DEF vars, SetUpInv, OptionsDecide
<1>5. AliasInv'
  <2>1. AliasesFollow(regions, argument - 1)' = AliasesFollow(regions, argument - 1)
    BY DEF vars, AliasesFollow, AliasOptions
  <2>2. AliasesFollow(regions, Len(arguments))' = AliasesFollow(regions, Len(arguments))
    BY DEF vars, AliasesFollow, AliasOptions
  <2> QED
    BY <2>1, <2>2 DEF vars, SetUpInv, AliasInv
<1>6. CommandLineTypeOK' /\ GoodRegions(regions)' /\ CountersInv' /\ ImageInv'
  BY DEF vars, SetUpInv, CommandLineTypeOK, CountersInv, ImageInv
<1> QED
  BY <1>4, <1>5, <1>6 DEF SetUpInv

\* One case for each action.
LEMMA NextSetUpInv == SetUpInv /\ LaunchInv /\ LaunchInv' /\ [Next]_vars => SetUpInv'
<1> SUFFICES ASSUME SetUpInv, LaunchInv, LaunchInv', [Next]_vars PROVE SetUpInv'
  OBVIOUS
<1>1. CASE \/ parseMalformedOption \/ throwIfRequiredArgumentNotSpecified
           \/ openImage \/ GetFileSize \/ allocateImage \/ readImage \/ closeImage
           \/ freeImage \/ catchInLoadFileData \/ catchInLoadImageFile
           \/ getFileType \/ mriPlatform_RunThrows
  BY <1>1, QuietKeeps
<1>2. CASE firstPassOption
  BY <1>2, FirstOptionKeepsSetUp
<1>3. CASE firstPassEnd
  BY <1>3, FirstPassEndKeepsSetUp
<1>4. CASE loadElfFile \/ loadBinFile
  BY <1>4, LoadImageKeepsSetUp
<1>5. CASE loadDumpFile
  BY <1>5, LoadDumpKeepsSetUp
<1>6. CASE secondPassOption
  BY <1>6, SecondOptionKeepsSetUp
<1>7. CASE parseAliasOption
  BY <1>7, AliasOptionKeepsSetUp
<1>8. CASE secondPassEnd
  BY <1>8, SecondPassEndKeepsSetUp
<1>9. CASE catchInInit \/ CrashDebugCommandLine_Uninit
  BY <1>9, UninitKeepsSetUp
<1>10. CASE UNCHANGED vars
  BY <1>10, StutterKeepsSetUp
<1> QED
  BY <1>1, <1>2, <1>3, <1>4, <1>5, <1>6, <1>7, <1>8, <1>9, <1>10 DEF Next, Launch

\* What the options named, and what became of the regions, stage by stage.
THEOREM SetUpInvHolds == Spec => []SetUpInv
<1> QED
  BY InitSetUpInv, NextSetUpInv, LaunchInvHolds, PTL DEF Spec

\* Parsing never leaves the command line, a file name keeps its kind, and the list of
\* regions is one (parseArguments, and every loader after it).
THEOREM TypeCorrect == Spec => []CommandLineTypeOK
<1>1. SetUpInv => CommandLineTypeOK
  BY DEF SetUpInv
<1> QED
  BY <1>1, SetUpInvHolds, PTL

\* Whatever is repeated on the command line, the memory is made from the last file of
\* each kind, and from the base address that belongs to the last binary image
\* (parseBinOption, parseElfOption, parseDumpOption).
THEOREM LastOptionWins == Spec => []LastOptionDecides
<1>1. SetUpInv /\ LaunchInv => LastOptionDecides
  <2> SUFFICES ASSUME SetUpInv, LaunchInv, pMemory # "NULL"
               PROVE  /\ pThis.pElfFilename = LastFile("--elf")
                      /\ pThis.pDumpFilename = LastFile("--dump")
                      /\ pThis.pBinFilename = LastFile("--bin")
                      /\ \A i \in DOMAIN arguments :
                           /\ arguments[i].name = "--bin"
                           /\ \A j \in i + 1 .. Len(arguments) : arguments[j].name # "--bin"
                           => pThis.baseAddress = arguments[i].baseAddress
    BY DEF LastOptionDecides
  <2>1. stage # "first pass"
    BY DEF LaunchInv, MemoryInv
  <2>2. \A name : Seen(name) = {i \in DOMAIN arguments : arguments[i].name = name}
    BY <2>1 DEF Seen
  <2>3. \A name : LastSeen(name) = LastFile(name)
    BY <2>2 DEF LastSeen, LastFile
  <2>4. ASSUME NEW i \in DOMAIN arguments, arguments[i].name = "--bin",
               \A j \in i + 1 .. Len(arguments) : arguments[j].name # "--bin"
        PROVE  pThis.baseAddress = arguments[i].baseAddress
    <3>1. PICK n : n = Len(arguments)
      OBVIOUS
    <3>2. n \in Nat /\ DOMAIN arguments = 1 .. n
      BY <3>1, ArgumentsType DEF LaunchInv, ArgumentInv
    <3>3. i \in Seen("--bin") /\ Seen("--bin") \in SUBSET (0 .. n)
      BY <2>2, <2>4, <3>2
    <3>4. PICK m : m = Max(Seen("--bin"))
      OBVIOUS
    <3>5. m \in Seen("--bin") /\ m >= i
      BY <3>2, <3>3, <3>4, MaxIsGreatest
    <3>6. m \in 1 .. n /\ arguments[m].name = "--bin"
      BY <2>2, <3>2, <3>5
    <3>7. m \notin i + 1 .. n
      BY <2>4, <3>1, <3>6
    <3>8. i = m
      BY <3>2, <3>5, <3>6, <3>7
    <3> QED
      BY <3>3, <3>4, <3>8 DEF SetUpInv, OptionsDecide
  <2> QED
    BY <2>3, <2>4 DEF SetUpInv, OptionsDecide
<1> QED
  BY <1>1, SetUpInvHolds, LaunchInvHolds, PTL

(***************************************************************************)
(* Which command lines are refused: the third inductive invariant.         *)
(***************************************************************************)

\* Nothing is acquired for a command line that is not complete, and only such a one is
\* refused.
CompleteInv ==
  /\ pMemory # "NULL" \/ pFile # "NULL" => IsComplete
  /\ exception = invalidArgumentException => ~IsComplete

\* Which file names are missing, as the first pass leaves them.
LEMMA MissingFiles ==
  ASSUME SetUpInv, LaunchInv, stage = "required"
  PROVE  /\ pThis.pElfFilename = NoFile <=> ~\E i \in DOMAIN arguments : arguments[i].name = "--elf"
         /\ pThis.pBinFilename = NoFile <=> ~\E i \in DOMAIN arguments : arguments[i].name = "--bin"
         /\ pThis.pDumpFilename = NoFile
              <=> ~\E i \in DOMAIN arguments : arguments[i].name = "--dump"
<1>1. arguments \in ArgumentLists
  BY DEF LaunchInv, ArgumentInv
<1>2. \A name : Seen(name) = {i \in DOMAIN arguments : arguments[i].name = name}
  BY DEF Seen
<1>3. ASSUME NEW name \in {"--elf", "--bin", "--dump"}
      PROVE  LastSeen(name) = NoFile <=> ~\E i \in DOMAIN arguments : arguments[i].name = name
  <2>1. CASE Seen(name) = {}
    BY <1>2, <2>1 DEF LastSeen
  <2>2. CASE Seen(name) # {}
    <3>1. PICK n : n = Len(arguments)
      OBVIOUS
    <3>2. n \in Nat /\ DOMAIN arguments = 1 .. n
      BY <1>1, <3>1, ArgumentsType
    <3>3. PICK i : i \in Seen(name)
      BY <2>2
    <3>4. i \in 0 .. n /\ Seen(name) \in SUBSET (0 .. n)
      BY <1>2, <3>2, <3>3
    <3>5. PICK m : m = Max(Seen(name))
      OBVIOUS
    <3>6. m \in Seen(name)
      BY <3>2, <3>3, <3>4, <3>5, MaxIsGreatest
    <3>7. m \in DOMAIN arguments /\ arguments[m].name = name
      BY <1>2, <3>6
    <3>8. arguments[m].file \in ImageFile \cup DumpFile
      BY <1>1, <3>7, OptionType
    <3>9. LastSeen(name) # NoFile
      BY <2>2, <3>5, <3>8, ArgumentAssumption DEF LastSeen
    <3> QED
      BY <3>7, <3>9
  <2> QED
    BY <2>1, <2>2
<1>4. /\ pThis.pElfFilename = LastSeen("--elf")
      /\ pThis.pDumpFilename = LastSeen("--dump")
      /\ pThis.pBinFilename = LastSeen("--bin")
  BY DEF SetUpInv, OptionsDecide
<1> QED
  BY <1>3, <1>4

\* A step that acquires nothing for the first time and does not refuse the command line.
LEMMA CompleteStays ==
  ASSUME CompleteInv, UNCHANGED arguments,
         pMemory' # "NULL" => pMemory # "NULL",
         pFile' # "NULL" => pMemory # "NULL" \/ pFile # "NULL",
         exception' = invalidArgumentException => exception = invalidArgumentException
  PROVE  CompleteInv'
<1>1. IsComplete' = IsComplete
  BY DEF IsComplete, HasItsArguments
<1> QED
  BY <1>1 DEF CompleteInv

\* Steps of the parser that go on, and steps around the image file.
LEMMA ImageKeepsComplete ==
  ASSUME CompleteInv, LaunchInv,
         \/ firstPassOption \/ firstPassEnd \/ secondPassOption \/ secondPassEnd
         \/ openImage \/ GetFileSize \/ allocateImage \/ readImage \/ closeImage
         \/ freeImage \/ catchInLoadFileData \/ catchInLoadImageFile
  PROVE  CompleteInv'
<1>1. UNCHANGED <<arguments, pMemory>>
  BY DEF firstPassOption, firstPassEnd, secondPassOption, secondPassEnd, openImage,
         GetFileSize, allocateImage, readImage, closeImage, freeImage, catchInLoadFileData,
         catchInLoadImageFile, parsing, memory
<1>2. pFile' # "NULL" => pMemory # "NULL" \/ pFile # "NULL"
  BY DEF firstPassOption, firstPassEnd, secondPassOption, secondPassEnd, openImage, Tries,
         GetFileSize, allocateImage, readImage, closeImage, freeImage, catchInLoadFileData,
         catchInLoadImageFile, resources, LaunchInv, MemoryInv
<1>3. exception' = invalidArgumentException => exception = invalidArgumentException
  BY NotInvalidArgument
  DEF firstPassOption, firstPassEnd, secondPassOption, secondPassEnd, openImage, Tries,
      GetFileSize, allocateImage, readImage, closeImage, freeImage, catchInLoadFileData,
      catchInLoadImageFile, Goes, ThrowsTo
<1> QED
  BY <1>1, <1>2, <1>3, CompleteStays

\* Steps that make the memory or free it, and those after it is made.
LEMMA MemoryKeepsComplete ==
  ASSUME CompleteInv, LaunchInv,
         \/ loadElfFile \/ loadBinFile \/ getFileType \/ loadDumpFile \/ parseAliasOption
         \/ catchInInit \/ mriPlatform_RunThrows \/ CrashDebugCommandLine_Uninit
  PROVE  CompleteInv'
<1>1. /\ UNCHANGED <<arguments, pFile>>
      /\ pMemory' \in {pMemory, "NULL"}
  BY DEF loadElfFile, loadBinFile, getFileType, loadDumpFile, parseAliasOption, catchInInit,
         mriPlatform_RunThrows, CrashDebugCommandLine_Uninit, parsing, memory, resources
<1>2. exception' = invalidArgumentException => exception = invalidArgumentException
  <2>1. CASE loadElfFile
    <3>1. PICK result \in ElfImage : LoadsImage(result)
      BY <2>1 DEF loadElfFile
    <3>2. result.exception \in {noException, elfFormatException, outOfMemoryException,
                                busErrorException}
      BY DEF ElfImage
    <3> QED
      BY <3>1, <3>2, NotInvalidArgument DEF LoadsImage, Goes, ThrowsTo
  <2>2. CASE loadBinFile
    <3>1. PICK regionOk, countsOk \in MallocOutcomes :
            LoadsImage(BinImage(pThis.baseAddress, BinData[pThis.pBinFilename],
                                regionOk, countsOk))
      BY <2>2 DEF loadBinFile
    <3> QED
      BY <3>1, BinExceptions, NotInvalidArgument DEF LoadsImage, Goes, ThrowsTo
  <2>3. CASE parseAliasOption
    <3>1. PICK rs, e : /\ e \in {noException, outOfMemoryException, busErrorException}
                       /\ AliasMade([regions |-> rs, exception |-> e])
      BY <2>3, AliasStep
    <3> QED
      BY <3>1, NotInvalidArgument DEF AliasMade, ThrowsTo
  <2>4. CASE getFileType \/ loadDumpFile \/ catchInInit \/ mriPlatform_RunThrows
             \/ CrashDebugCommandLine_Uninit
    BY <2>4, NotInvalidArgument
    DEF getFileType, loadDumpFile, catchInInit, mriPlatform_RunThrows,
        CrashDebugCommandLine_Uninit, Tries, Goes, ThrowsTo
  <2> QED
    BY <2>1, <2>2, <2>3, <2>4
<1> QED
  BY <1>1, <1>2, CompleteStays

\* One case for each step that decides about the command line, and one for the others.
LEMMA NextCompleteInv == CompleteInv /\ LaunchInv /\ SetUpInv /\ [Next]_vars => CompleteInv'
<1> SUFFICES ASSUME CompleteInv, LaunchInv, SetUpInv, [Next]_vars PROVE CompleteInv'
  OBVIOUS
<1>1. CASE parseMalformedOption
  <2>1. /\ argument \in DOMAIN arguments /\ IsMalformed(arguments[argument])
        /\ UNCHANGED <<arguments, pMemory, pFile>>
    BY <1>1 DEF parseMalformedOption, Parses, parsing, memory, resources
  <2>2. arguments[argument].name \in OptionName =>
          arguments[argument].given \in Nat /\ Needed[arguments[argument].name] \in Nat
    BY <2>1, OptionType DEF LaunchInv, ArgumentInv, Option, Needed, OptionName
  <2>3. ~HasItsArguments(arguments[argument])
    BY <2>1, <2>2 DEF HasItsArguments, IsMalformed
  <2>4. ~IsComplete
    BY <2>1, <2>3 DEF IsComplete
  <2>5. ~IsComplete'
    BY <2>1, <2>4 DEF IsComplete, HasItsArguments
  <2> QED
    BY <2>1, <2>4, <2>5 DEF CompleteInv
<1>2. CASE throwIfRequiredArgumentNotSpecified
  <2>1. /\ stage = "required" /\ exception = noException /\ pFile' = "NULL"
        /\ UNCHANGED arguments /\ pMemory = "NULL"
    BY <1>2 DEF throwIfRequiredArgumentNotSpecified, parsing, resources, LaunchInv,
                ArgumentInv, FileInv, MemoryInv
  <2>2. \/ /\ \/ pThis.pBinFilename = NoFile /\ pThis.pElfFilename = NoFile
              \/ pThis.pDumpFilename = NoFile
           /\ exception' = invalidArgumentException /\ pMemory' = "NULL"
        \/ /\ pThis.pBinFilename # NoFile \/ pThis.pElfFilename # NoFile
           /\ pThis.pDumpFilename # NoFile
           /\ exception' = noException
    BY <1>2, <2>1 DEF throwIfRequiredArgumentNotSpecified, Goes, ThrowsTo
  <2>3. \A i \in DOMAIN arguments : HasItsArguments(arguments[i])
    <3>1. \A i \in DOMAIN arguments : ~IsMalformed(arguments[i])
      BY <2>1 DEF LaunchInv, WellFormedInv
    <3>2. \A i \in DOMAIN arguments :
            arguments[i].name \in OptionName =>
              arguments[i].given \in Nat /\ Needed[arguments[i].name] \in Nat
      BY OptionType DEF LaunchInv, ArgumentInv, Option, Needed, OptionName
    <3> QED
      BY <3>1, <3>2 DEF HasItsArguments, IsMalformed
  <2>4. IsComplete <=> /\ pThis.pBinFilename # NoFile \/ pThis.pElfFilename # NoFile
                       /\ pThis.pDumpFilename # NoFile
    BY <2>1, <2>3, MissingFiles DEF IsComplete
  <2>5. IsComplete' = IsComplete
    BY <2>1 DEF IsComplete, HasItsArguments
  <2> QED
    BY <2>1, <2>2, <2>4, <2>5, NotInvalidArgument DEF CompleteInv
<1>3. CASE \/ firstPassOption \/ firstPassEnd \/ secondPassOption \/ secondPassEnd
           \/ openImage \/ GetFileSize \/ allocateImage \/ readImage \/ closeImage
           \/ freeImage \/ catchInLoadFileData \/ catchInLoadImageFile
  BY <1>3, ImageKeepsComplete
<1>4. CASE \/ loadElfFile \/ loadBinFile \/ getFileType \/ loadDumpFile \/ parseAliasOption
           \/ catchInInit \/ mriPlatform_RunThrows \/ CrashDebugCommandLine_Uninit
  BY <1>4, MemoryKeepsComplete
<1>5. CASE UNCHANGED vars
  BY <1>5, CompleteStays DEF vars
<1> QED
  BY <1>1, <1>2, <1>3, <1>4, <1>5 DEF Next, Launch

\* Files are opened and memory is made for complete command lines alone, and those are
\* never refused: what the first pass accepts and throwIfRequiredArgumentNotSpecified
\* lets through, the second pass accepts too.
THEOREM CheckedFirst == Spec => []ArgumentsAreCheckedFirst
<1>1. Init => CompleteInv
  BY NotInvalidArgument DEF Init, CompleteInv
<1>2. CompleteInv /\ LaunchInv => ArgumentsAreCheckedFirst
  BY DEF CompleteInv, LaunchInv, MemoryInv, RefusedEarly, ArgumentsAreCheckedFirst
<1> QED
  BY <1>1, <1>2, NextCompleteInv, LaunchInvHolds, SetUpInvHolds, PTL DEF Spec

\* However many aliases are asked for, and whatever they redirect to, a session has them
\* all, behind what was loaded, in their order and with the access of their targets
\* (parseAliasOption).
THEOREM AliasesMade == Spec => []AliasesAreMade
<1>1. SetUpInv => AliasesAreMade
  BY DEF SetUpInv, AliasInv, AliasesFollow, AliasesAreMade
<1> QED
  BY <1>1, SetUpInvHolds, PTL

\* A session never has a region that is locked but not counted
\* (MemorySim_MakeRegionReadOnly, loadBinFile).
THEOREM CountersMade == Spec => []CountersBeforeSession
<1>1. SetUpInv => CountersBeforeSession
  BY DEF SetUpInv, CountersInv, HasCounters, Loaded, CountersBeforeSession
<1> QED
  BY <1>1, SetUpInvHolds, PTL
=============================================================================
