# CrashDebug in TLA+

CrashDebug lets GDB look at the crash dump of a Cortex-M device as if the device
were stopped at the crash. It builds a simulated memory out of the program's image
(`--elf` or `--bin`), a dump (a CrashCatcher dump, binary or hexadecimal, or a GDB
log) and aliases, and serves it to GDB through the mri debug monitor, over stdin and
stdout.

This directory models that program: the modules are translations of the C code,
TLC checks them on small instances, and TLAPS proves the invariants that matter
most for every value of the constants. File names below are relative to
`src/libCrashDebug/src` unless they say otherwise.

## 1. The system

| component | state it keeps | operations | why it is hard |
|---|---|---|---|
| **MemorySim** (`MemorySim.c`) | a list of regions (data, read-only flag, read counters, sorted watchpoint array, redirection); a count of watchpoints hit | create a region, an alias, the regions of a flash image; make read-only; load; set and clear break/watchpoints; read, write and map; ask for counts and for the memory map | regions overlap and the first match wins; aliases translate addresses; unsigned arithmetic wraps; a scan that ends early; calls of several allocating steps |
| **GdbLogParser** (`GdbLogParser.c`) | the region being joined, the expected next address, the registers | two passes over a text file | the second pass must fit what the first one made; a parser that makes up words |
| **CrashCatcherDump** (`CrashCatcherDump.c`) | the file, the registers | reads of a binary or hexadecimal file | three ways for a file to end; dumps cut short on a serial line; two versions |
| **ElfLoad** (`ElfLoad.c`) | a cursor in the program headers | validate, load each flash segment, lock it | bounds checked in 32 bits, in sums that wrap, and in the middle of the loading loop; segments found again by their address |
| **CrashDebugCommandLine** (`CrashDebugCommandLine.c`) | file names, the memory, an image file and its buffer | two passes over the options, loading of image and dump, catch blocks | nested catch blocks that share what they free; two passes with different effects |
| **mriPlatform** (`mriPlatform.c`) | the fault counter, the registers | the `Platform_` functions that mri calls, the run loop, the fault display | a fault counter read and cleared by the question; exceptions swallowed, those of a failing console too; fault registers that may be missing |
| **StandardIComm**, **Console** (`StandardIComm.c`, `src/main/MockDefaults.c`) | whether GDB was heard | read, write and poll stdin and stdout | what throws at the end of stdin depends on the build; polls swallow what reads let through |
| **try_catch** (`src/libcommon/src/try_catch.c`) | the exception code and the handlers | throw, catch, clear | a code that is left behind, and replaced only by a larger one |
| **common** (`src/libcommon/src/common.c`) | none | `GetFileSize` | may fail between two other steps |
| **main** (`src/main/main.c`) | none | the order of the calls | the way out after a failure |
| **mri**, **CrashCatcher** | | git submodules that are not in the tree | external |
| **libmocks** | | test doubles | not part of the program |

How they interact: `main` calls `CrashDebugCommandLine_Init`, which calls the
loaders, which call MemorySim; then `mriPlatform_Run`, whose `Platform_` functions
are called by mri for each packet of GDB and call MemorySim through `IMemory`;
then `CrashDebugCommandLine_Uninit`. There is one thread and every call is
synchronous. Errors are exceptions (`try_catch.h`): a call leaves behind a result or
an exception, and the caller's catch block runs. So nothing interleaves; what is
hard is the *sequence*: legal calls whose effects depend on each other, and failures
between two steps.

What makes each correct:

- MemorySim: with regions kept apart it is a flat memory in which an alias *is* the
  cells it redirects to; no access leaves a region's arrays; a watchpoint that covers
  an access is never missed.
- GdbLogParser, CrashCatcherDump, ElfLoad: when they return, memory and registers are
  what the file says, and what was loaded before stays; when the file is damaged, they
  do not return.
- CrashDebugCommandLine: whatever fails, everything is released once; an incomplete command
  line is refused before anything is opened, and only such a one; no half made region gets
  to a session.
- mriPlatform: GDB sees a target that stands still. Every fault is reported for the
  access that met it and no other; GDB is told the whole cause of the crash.
- StandardIComm, Console, try_catch, main: a code that a catch block left behind is never
  taken for a new exception; a console that fails ends the session, wherever the program
  is.

## 2. The modules

| module | models | extends |
|---|---|---|
| `Watchpoints` | the sorted watchpoint array of one region: search, insertion, removal, scan | |
| `MemoryRegions` | the region list and the effect of every operation on it | `Watchpoints` |
| `MemorySim` | one action per function of `MemorySim.h` and of `IMemory` | `MemoryRegions` |
| `FlatMemory` | what MemorySim promises: cells, blocks, read-only cells, a set of watches | |
| `MemorySimFlat` | the refinement mapping from `MemorySim` to `FlatMemory` | `MemorySim` |
| `GdbLog` | `GdbLogParse`: both passes, line by line and word by word | `MemoryRegions` |
| `CrashDump` | `CrashCatcherDump_ReadBinary` and `CrashCatcherDump_ReadHex`, read by read | `MemoryRegions` |
| `ElfLoad` | `ElfLoad_FromMemory`, header by header | `MemoryRegions` |
| `DumpLoader` | what the launch relies on when it loads a dump, implemented by `GdbLog` and `CrashDump` | |
| `CommandLine` | `CrashDebugCommandLine_Init` and `_Uninit`, and `main` around them | `MemoryRegions` |
| `TryCatch` | the handlers and the code of `try_catch.h` | `MemoryRegions` |
| `Session` | `mriPlatform.c`, `StandardIComm.c`, the console of `MockDefaults.c`, and the catch block of `main` around them | `TryCatch` |
| `DebugTarget` | what GDB is promised: a device that stands still and answers packets | |
| `SessionTarget` | the refinement mapping from `Session` to `DebugTarget` | `Session` |
| `MC...` | instances for TLC | the module of that name |
| `...Proofs` | theorems | the module of that name |

### How state and actions correspond to the code

**The region list.** `regions` is the linked list as a sequence; a pointer to a region
is its index (regions are only freed from the tail). `pData` is the sequence of its
bytes, `pReadCounts` the sequence of its counters with NULL as `<<>>`. The C functions
are operators of `MemoryRegions` with the same names; each returns the list and the
exception that it leaves behind, which lets the loaders call them in one step exactly
as the C code calls them. `AddressLimit` is 2^32: `findMatchingRegion` compares in 64
bits and does not wrap; everything else wraps, and the model has the `%` where the code
does. `mallocOk` and its like are chosen from `MallocOutcomes` and say whether an
allocation of the call succeeds.

**A call of MemorySim is one step**, since nothing can interrupt it. `exception` and
`value` are what it leaves to its caller. Whether a host pointer stays inside the
arrays of its region is computed (`PointsIntoData`); where it does not, the C code has
undefined behaviour, the model sets `wild`, and nothing is said from there on.

**GdbLog.** `pass` is where `GdbLogParse` is, `pos` the line, `word` the word that the
second pass writes next, `scan` the `ParseObject`. A line is what `parseLine` makes of
its text: for a memory line the address, the words it shows and what follows the last
of them, because `areMoreValuesToParseOnLine` asks for another value as long as there
is another character, and `strtoul` makes a zero of white space. That zero is
`PhantomCount`.

**CrashDump.** A file is what a complete dump would hold, how many of its bytes there
are (`length`), and the position of the first character that is no hexadecimal digit
(`bad`). One action is one `read`; `offset` is the position in the file. A read that
is short stores what it got, as `fread` does, before the code throws. A word alone is taken
for the end of a dump whose stack overflowed when its value is the sentinel, also where it is
the start address of a region whose header was cut (`AtSentinel`).

**ElfLoad.** `index` and `pgmHeaderOffset` are the loop. The identification bytes are
one flag; each of the checks in `validateElfHeaderContents` that is about a number is
modelled. `Fetches` adds offset and size with a `%`, as `fetchSizedByteArray` does in 32
bits; a sum that wraps passes, and the loader then reads behind the buffer of the file.
`Behind` is what lies there: any byte of the functions that it holds.

**CommandLine.** `stage` names what is done next, including each of the three catch
blocks; `pFile`, `pBuffer` and `pData` are the image file, its buffer and the pointer
that the caller has to the buffer. Each file operation and allocation is a step that may
throw.

**TryCatch.** `handlers` is the linked list of jump buffers, each named for its catch
block; `code` is `g_exceptionCode`. `Try` pushes and clears the code, `Catch` pops and
leaves the code, as the macros do, and `setExceptionCode` keeps the larger code.
`Tried` is a whole block whose body throws one exception or none.

**Session.** mri takes a packet (`ReceivePacket`), calls the `Platform_` functions it
needs one step each, and sends an answer. `stage` is where the program is between two
such calls, or the catch block that runs next. A memory packet asks for `count` accesses
of one size, and mri asks `Platform_WasMemoryFaultEncountered` after each. `texts` is
what is still to be displayed of a fault: a list of pieces, each of which is said at
once, or reads a fault register in a `try` block of its own first. A piece names a bit of
CFSR or HFSR; the addresses and the wording are left out. `console` is stdin and stdout:
`up`, `ended` (stdin is at its end) or `down` (every call fails); `ConsoleThrows` and
`hasReceiveData` say what the functions of the two builds make of it. The break/watchpoint
functions do nothing, so regions have no watchpoints in a session, and its read counters
are not looked at: both are left out. `g_pContext` is the registers, the exception number, and whether there is floating point.

What mri does of its own (which packets there are, that a read is answered with the
bytes up to the first fault, that it waits for an acknowledgement) is external: it is
what `mriPlatform.c` and `libCrashDebug/tests` expect of it.

### Abstract specifications

`FlatMemory` has no regions, no list, no order, no arrays: an address is mapped to a
cell or not, a cell holds a byte, a set of watches is a set. It speaks of two
variables that the simulator's caller sees, `exception` and `value`, and says of each
step what it did. `MemorySimFlat` shows that MemorySim is that, under `DisjointSpec`:
clients that keep their regions apart (the extents of regions and aliases are
disjoint). Where they overlap the meaning is "the first one wins", which is a property
of its own (`LaterRegionsNeverShadow`) checked without that restriction. A pointer that is
handed to the host shows the bytes of cells that may be accessed that way (`Point`), and the
memory map lists the blocks (`ListBlocks`). Of counts of reads `FlatMemory` says nothing.

`CommandLine` uses the loaders by what they promise rather than by their steps: an ELF
image is a list of regions of which those that are read-only have their counters, a dump
adds RAM regions behind what is there, or some of them when it throws (`LoaderAssumption`).
`SegmentsAreLocked` in `ElfLoad` and `ImageIsKept` and `ImplementsDumpLoader` in `GdbLog` and
`CrashDump` justify that assumption. A segment of an ELF file that an earlier one overlaps
stays writable, without counters: such images are among those that are tried. The model
leaves out that a dump may store into such a region.

`DumpLoader` is that contract of the two dump loaders: each step adds one zeroed RAM
region behind what is there, or stores into one region of RAM, or ends the loading; and
nothing is touched after that. It says nothing of files, lines or registers.

`DebugTarget` knows cells, registers, packets and answers; it has no exceptions, no
fault counter, no console and no run loop. Its accesses are allowed or refused by what
the addresses stand for, its answers say what the device is, and no packet but a write
changes it. `SessionTarget` maps a session to it: the access is made in the step that
makes it, before mri has asked about the fault, and `refused` is the fault that is not
yet asked about. The description of the target has as many words as the registers that
are sent, which ties the two XML tables to `Platform_CopyContextToBuffer`.

## 3. The runs

Twelve runs; `PROJECT.json` lists the properties of each, and a mutation of the code
that each property rejects.

| run | module, config | question |
|---|---|---|
| `memory` | `MCMemorySim`, `MCMemory.cfg` | with disjoint regions, aliases (one clipped), loads of every length modulo four, watches on memory that is locked later, and accesses that straddle ends: is it a flat memory with a set of watches (`ImplementsFlatMemory`), does an alias follow its redirect address (`AliasesFollowRedirect`), does nothing leave a region's arrays (`NeverWild`)? |
| `watch` | `MCMemorySim`, `MCWatch.cfg` | are the arrays ordered (`WatchpointsOrdered`), does the early end of the scan lose nothing (`ScanIsComplete`), does a call that throws half way leave the extents of the regions as they were (`FailedCallKeepsExtents`), and, with overlapping regions and aliases of aliases, do types hold (`TypeOK`) and earlier regions keep their addresses (`LaterRegionsNeverShadow`)? |
| `gdb_log` | `MCGdbLog`, `MCGdbLog.cfg` | is a log of whole lines read as it stands (`WholeLogIsRead`), does a made-up word never hide a shown one in an ascending log (`AscendingLogIsRead`), does the second pass fit the first (`SecondPassFits`), does the image stay (`ImageIsKept`), is it a dump loader (`ImplementsDumpLoader`)? |
| `dump` | `MCCrashDump`, `MCCrashDump.cfg` | is a dump read as it stands (`DumpIsRead`), is a cut noticed at every byte (`CutIsNoticed`), is a stack overflow reported only after the rest (`OverflowIsReportedLast`), does the image stay, is it a dump loader? |
| `elf` | `MCElfLoad`, `MCElf.cfg` | are exactly the well-formed files loaded, unless a sum of the checks wraps (`ElfFormatIsChecked`), as they stand (`ElfIsLoaded`), and locked with counters however segments overlap (`SegmentsAreLocked`)? |
| `command_line` | `MCCommandLine`, `MCCommandLine.cfg` | everything is released once, incomplete command lines are refused before files are opened and complete ones never (`ArgumentsAreCheckedFirst`), the last option decides, aliases are made, no read-only region without counters gets to a session (`CountersBeforeSession`), and the launch ends (`LaunchEnds`) |
| `session` | `MCSession`, `MCSession.cfg` | is it a target that stands still (`ImplementsDebugTarget`), is every fault asked about (`FaultsAreAsked`), is the cause told in full (`FaultIsDescribed`), does a failing console end the session (`ConsoleFailureEndsSession`)? |
| `alias_chain`, `top_watch`, `gdb_phantom_word`, `elf_wrapped_size`, `silent_exit` | | the disagreements below |

The load of `MemorySim_CreateRegionsFromFlashImage` is outside its `try` block, so if it
threw, the new flash region would stay. It never does: the region that was just made holds
every chunk of the image, whatever else overlaps it (`FlashFits`), which is why
`FailedCallKeepsExtents` needs no assumption about regions.

### Bounds, and why they are enough

- *Addresses.* 16 to 64 instead of 2^32. Every comparison in the code is between sums
  and differences of addresses and sizes, so what counts is that values at, just below
  and just past each end occur, and that sums wrap: the constants are chosen for that
  (regions that touch, an alias clipped by its region, an access over an end, a dump
  region over the top of the address space, a log line at the top).
- *Bytes.* 0 and 1: data is only copied, so two values tell right from wrong.
- *Regions.* Up to four: an image of flash and RAM, a region that touches it, an alias.
- *Watchpoints.* In `watch` six on one word, of all types and sizes, two at the same start address
  in either order, reached directly and by an alias; six is more than the four that
  have to be told apart by the sort and the early end. In `memory` three: two on a
  region that may be locked later, one on its alias.
- *Allocations* fail in every run but `memory` and those of a disagreement: a region that
  is locked when memory runs out has no counters, and asking for one is the wild access
  that `NeverWild` excludes (`CountersBeforeSession` shows that no session gets there).
- *MaxRegions, MaxCount* are the only bounds on counters, and both are guards of
  `MemorySim`.
- *Logs* have up to three lines; two are joined, parted or overlapping, the third one
  finds out what is left of either. Lines of four words and shorter lines are not mixed.
- *Dumps* have up to three regions (two when cut), one of which starts at the sentinel,
  three integer registers, of which a version 2 dump has one, and two float registers;
  every length and every position of a bad character is tried.
- *ELF files* have up to two headers out of twenty-one, one of them with an end that wraps,
  in files of seven lengths. What lies behind a file is all zeroes or all ones.
- *Sessions* have four regions (flash, RAM, the System Control Block, an alias that its
  region clips) in 64 addresses, ten launches (each fault, with all fault registers, with
  CFSR and HFSR only, with CFSR only, with none; with and without floating point), and
  seventeen packets: reads and writes that end inside and past a region, are clipped by
  the alias, are refused half way or wrap, a complete and a cut G packet, and every other
  kind. Sessions are not bounded: packets come for ever, since an answered packet leaves
  no more behind than the session's state. The fault status has bits in all of its parts.
- *Command lines* have up to four options out of eight, or three and an incomplete one.
  The ELF images are one region, two apart, and two of which the later one is overlapped.

`VIEW SimState` leaves `exception` and `value` out of the state of the MemorySim runs:
no call reads them, so states that differ only there have the same future, and the
properties that mention them (`ImplementsFlatMemory`, `FailedCallKeepsExtents`,
`WatchpointCoversItsBytes`) mention only their value after a step, which does not depend
on the value before. All of these are properties of single steps, or invariants.

Where a run says `CHECK_DEADLOCK FALSE` the program ends (the loaders return, the
program exits) or, in `watch`, an access that leaves its region's arrays stops the
model.

### Fairness

`CommandLine` has `WF_vars(Launch)`: a sequential program runs on while it can. Its
session (`mriPlatform_RunThrows`) is not fair: it ends when stdin or stdout fails, and
nothing in the code makes that happen. `LaunchEnds` therefore stops at the session.

`Session` has `WF_vars(Program)`, for the same reason: `Program` is what the program and
mri do by themselves. GDB (`ReceivePacket`) and the console (`ConsoleEnds`) are not fair:
GDB may say nothing for ever. `ConsoleFailureEndsSession` therefore says what happens
*if* the console fails; it starts when GDB was heard, since before that the program only
polls and swallows the failures of a poll.

### Disagreements found while modelling

- `gdb_phantom_word`: a memory line with one word that ends in a newline makes a region
  of two words (`GdbLogParser.c:255`); the test of one-word lines has no newline.
- `alias_chain`: an alias whose redirect address lies in another alias is redirected by
  an address that was not translated (`MemorySim.c:221`); the usage text says accesses
  are redirected to the region at the redirect address.
- `top_watch`: the end address of a watchpoint on the last word of the address space
  wraps to 0, and smaller accesses to it that end before the top are missed
  (`MemorySim.c:462`). One that ends at the top has an end address of 0 as well, and hits.
- `elf_wrapped_size`: a segment whose offset and size add up to a small number in 32 bits
  passes the check of its bounds (`ElfLoad.c:73`), and the file is loaded although it is
  shorter than that; the test of a `p_filesz` that is too large tries one byte too many.
- `silent_exit`: the catch block of `main` is silent about a `fileException`, since its
  comment (`src/main/main.c:40`) says that a message has been displayed; the console
  throws one too, in a session, and then nothing has been.

Seen as well, and not a run of its own: `--elf` and `--bin` are documented as mutually
exclusive (`CrashDebugCommandLine.c:42`); given both, `--bin` is ignored silently
(`CrashDebugCommandLine.c:238`, which is why `IsComplete` does not ask for one or the other only). And an
allocation that fails in the memory map is reported as a bus error when the last read was
one, as a thrown code never replaces a larger one (`src/include/try_catch.h:126`).

## 4. What is proved

All proofs hold for every address space, every set of requests or files and every
outcome of allocations. They rest on the named `ASSUME`s of the modules, which TLC
evaluates in every run, and where a theorem needs more, it says so in its statement.
The assumptions are the types of the constants and:

- `ImageAssumption` (`GdbLog`, `CrashDump`): the memory before a dump has data of its size
  in each region, no alias and no watchpoint. Aliases are made after the dump, GDB sets
  watchpoints, `MemorySim_CreateRegion` allocates the data.
- `WordAssumption` (`GdbLog`): the address space is whole words and longer than a line.
- `LoaderAssumption` (`CommandLine`): what the loaders promise; see section 2. When an ELF
  file is refused half way its regions so far are `PartialImages`, of which nothing is
  assumed but their type.
- `SizeAssumption`, `BehindAssumption` (`ElfLoad`): the two C structures have sizes, and what
  lies behind the file is bytes.
- `LaunchAssumption` (`Session`): the loaders leave lists that are `GoodRegions` and `Sound`
  (below), as every operation of `MemoryRegions` leaves them but for chains of aliases;
  `PacketAssumption`: mri writes no more bytes than the packet has.

### Break/watchpoints and the memory simulator

`WatchpointsProofs`: `SetKeepsOrder`, `ClearKeepsOrder` (insertion into and removal from a
sorted array without duplicates), `ScanLosesNothing` (on a sorted array the early end of
`checkForBreakWatchPoint` finds what a full scan would).

`MemoryRegionsProofs` has one lemma for each operator of `MemoryRegions` and each question:
does it keep a good list (`...Good`), where are the regions after it (`...Places`), what
byte does an address hold after it (`AppendedBytes`, `WrittenByte`, `WrittenWord`).

`MemorySimProofs` has three inductive invariants, each on top of the one before.

- `IInv` is `GoodRegions`: typed regions, each array in order, and every alias redirecting
  to an *earlier* region that is *no alias*. The last part is what makes it inductive: a
  watchpoint set through an alias is inserted into the array of the region that
  `findMatchingRegion` hands on, and only because that is one of the list, and stays one
  when the tail is freed, is the edited array an array of the list. From it: `TypeCorrect`,
  `OrderKept`, `ScanComplete`. From it and `StepStays` (a step keeps every region where it
  is, or empties the list) the two action properties: `NothingIsShadowed`, since the least
  index that matches stays the least when indices are only added (`SameFinds`), and
  `FailuresKeepExtents`, since a call that throws leaves no new index behind.
- `SaneInv` adds `Sound` (a region has data of its size and, once it is read-only, a
  counter for each halfword; an alias lies within its region) and `AliasesRequested` (an
  alias is no longer than it was asked to be). With these, an address that
  `findMatchingRegion` lets through has its offset in `pData` although every subtraction
  wraps (`FoundInData`), hence `NoCallGoesWild`. It has two hypotheses. `NoAliasOfAlias`:
  no alias is asked for of an address that an alias is asked for at; otherwise the alias is
  clipped by an address that is not in its region, the run `alias_chain`.
  `MallocSucceeds`: otherwise a region is read-only without counters, and asking for a
  count reads through NULL; `CountersMade` below shows that no session gets such a region.
- `FlatInv` adds that regions are apart and that every region that is no alias ends below
  the top of the address space. From it `AliasesFollow`. Its hypothesis `NoRegionPassesTop`
  is needed: at the top the translated address wraps to 0 and the redirect address plus
  the offset does not, so the two are found differently.

### The loaders

`GdbLogProofs` and `CrashDumpProofs` have two inductive invariants each.

- `LogIInv` and `DumpIInv`: the types, `GoodRegions`, and `KeepsRegions(image, regions)`:
  the image is a prefix of the list with its flash unchanged. The steps that matter are a
  store into an address that image and file share (RAM is written, flash refuses) and the
  creation of a region, which goes behind the others. From them: `LogTypeCorrect`,
  `DumpTypeCorrect`, `LogKeepsImage`, `DumpKeepsImage`, and the step simulation of the
  abstract loader, `LogImplementsDumpLoader` and `DumpImplementsDumpLoader`.
- `ReadIInv` of `CrashDump`: the offset is the sum of what was read so far, the
  registers that were read are the file's, and the memory holds for each address the byte
  that the *last* of the dump's regions there has stored (`MemoryFollows`). From it:
  `LoadedDumpIsRead`; `CutDumpIsRefused`, as a file that ends inside a region is shorter
  than the offset where that region ends; `OverflowComesLast`.
- `ReadIInv` of `GdbLog`: regions are made of whole words, memory holds the word that was
  written last (`MemoryIsWritten`), registers follow the lines, and every word that is still
  to be written lies in one region (`RoomIsMade`): in the first pass in one of the
  regions made so far or in the one being joined. That is the agreement of the two passes.
  From it: `LogHasRoom`, `WholeLogIsLoaded`, `AscendingLogIsLoaded`. The three properties
  have premises without which TLC finds counterexamples: words that are not aligned
  (`WordsAreWhole`) may straddle two regions, so that a word is written to one and read from
  another; a made-up word at the top of the address space wraps and hides the word at the
  bottom (`ReachesPastTop`).

`ElfLoadProofs`: `ElfInv` says where the cursor is (`HeaderInv`), what is known of the
entries passed (`EntriesInv`), and that the regions are the loaded segments so far
(`SegmentsInv`). From it: `TypeCorrect`; `FormatChecked`, where the file is only known to be
well formed when the loop is over, and only if no sum of the checks has wrapped
(`SumsFit`; the run `elf_wrapped_size` shows what happens otherwise); `FileLoaded`, for files
whose segments are apart (else the earlier segment is found when the later one is filled and
locked); and `SegmentsLocked`, for all files: the first byte of a segment that was filled is
not writable, because whatever region is found there is the one that is locked, and regions
behind it are neither unlocked nor in its way.

Sums of lengths and "the last one that wrote" are not computed by recursion: the sum is a
function that is *characterised* (`SumsOf`, unique by the well-ordering of the numbers
below a bound), the last one is the maximum of a set. Functions that are taken for
sequences are based at 1.

### The launch and the session

- `CommandLineProofs`: `LaunchInv` says for each stage who holds the file, the buffer and
  the memory (the buffer belongs to `loadFileData` until it returns and to `loadImageFile`
  after that, which is why a catch block of the one and of the other never free the same
  buffer), and that all options are well formed once the first pass is over. From it:
  `ReleasedOnce`. `SetUpInv` says what was made: the options parsed so far
  decide the names and the second pass changes none of them (`OptionsDecide`), the aliases
  are the last regions and as many as the options parsed in the second pass (`AliasInv`),
  read-only regions have counters from the moment the image is loaded, since every failure
  before leads to the catch block that gives up (`CountersInv`). From it: `TypeCorrect`,
  `LastOptionWins`, `AliasesMade`, `CountersMade` (of an ELF image this is what
  `LoaderAssumption` says, proved as `SegmentsLocked` of its loader). `CompleteInv` says that
  memory is made for complete command lines only and that only incomplete ones are refused:
  the file names of the first pass are missing exactly when no option names one
  (`MissingFiles`). From it: `CheckedFirst`.
- `SessionProofs`: `SessionInv`, and from it `FaultsAreAlwaysAsked`. The invariant is that
  property with the type of `exceptions` and `console`, and that a throw finds main's handler
  (which says nothing of the code: a step of the model carries whole try blocks out). The
  steps that matter are those that count a fault, and the display, which reads memory but
  counts no fault.
  `TypeInv` adds that the regions stay `GoodRegions` and `Sound`, and which packets may be in
  the middle of an access or of a memory map. A permitted access then has its offset in
  `pData`, also through an alias, so what it reads are bytes and what it writes fits
  (`ReadBytesType`). From it: `SessionTypeCorrect`.
  `DescribeInv` says of the display of a fault that what was said of CFSR so far, together
  with what the pieces still to come will say, is the cause of the fault; *or* a piece was
  lost to a console that fails, passed over by the `try` block it was in. The invariant has to
  know why that is no way to get to the signal: the heading that ends every display is in no
  `try` block, so it is still to come, and it throws to main. That the pieces say the cause
  when the display begins (`FaultTold`) is about the four `display...` functions, for every
  combination of fault registers that the regions may lack. From it: `FaultAlwaysDescribed`.

### Only model-checked

The refinements of `FlatMemory` and `DebugTarget`, and the liveness properties `LaunchEnds`
and `ConsoleFailureEndsSession`. Liveness and ENABLED are out of the prover's reach; so is
induction over data, what a definition by recursion or a fold computes for every input (the
target description of `DebugTarget` is compared with a sum over its registers). No module
declares a RECURSIVE operator: loops are actions, or functions on the index of a chunk.
`WatchpointCoversItsBytes`, `AliasesFollowRedirect` for chains of aliases, `LogIsRead`,
`OnlyWellFormedIsLoaded` and `ExitsTellWhy` do not hold (section 3).

## 5. What is not modelled

- In a session: read counters, watchpoints, the text of exceptions, the characters of
  packets (their checksums and acknowledgements are mri's), `Platform_` functions that are
  empty or return a constant, and `mriPlatform_setWaitForGdbConnect`, which only the tests
  call. A console is up, ended or down as a whole.
- Texts: how something is displayed, the XML of the memory map (its list of regions is
  modelled), the characters of a log and of a hexadecimal dump (a bad character and a
  short read are).
- Which loader a dump file is given to: its first bytes are read and the file closed
  again, the kinds themselves are separate modules.
- The file of the dump loaders is closed by one catch block at one place and is no
  variable.
- Sessions on chains of aliases, where a region need not be sound (`LaunchAssumption`); the
  runs of `MemorySim` show what an access does there.
- The mri core and CrashCatcher: not in the tree.

## 6. Plan

Done: every module of section 2, and the proofs of section 4. To come, the most
important first:

1. The step simulation of `FlatMemory` by `MemorySim`, access by access: which cells an
   operation adds, and that the number of watchpoints hit is the size of the set of watches
   that cover the access.
2. The step simulation of `DebugTarget` by `Session`, for launches whose regions are apart
   and whose aliases have the read-only flag of their region.

Left to model: which loader a dump file is given to by its first bytes, and the launch and
the session as one composition (today `Launches` is what the loaders may leave behind).
