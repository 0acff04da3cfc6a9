---------------------------- MODULE Watchpoints ----------------------------
(***************************************************************************)
(* The break/watchpoint array of one simulated memory region               *)
(* (libCrashDebug/src/MemorySim.c): an array kept sorted by start address  *)
(* that setWatchpoint and clearWatchpoint edit in place and that every     *)
(* checked access scans from the front, giving up early.                   *)
(*                                                                         *)
(* Addresses and watchpoint ends are uint32_t in the code: AddressLimit is *)
(* 2^32 there, and an end address is reduced modulo it.                    *)
(***************************************************************************)
EXTENDS Integers, SequencesExt

CONSTANT AddressLimit      \* number of addresses: 2^32 in the code

ASSUME AddressLimitAssumption == AddressLimit \in Nat \ {0}

Address == 0 .. AddressLimit - 1

\* The sizes of the IMemory accesses: sizeof(uint8_t), uint16_t and uint32_t.
ByteSize     == 1
HalfWordSize == 2
WordSize     == 4
AccessSize   == {ByteSize, HalfWordSize, WordSize}

\* A type is the set of its bits, so that the code's (a & b) is a \cap b.  The
\* breakpoint type is a read watchpoint with bit 31 set.
WATCHPOINT_READ       == {"read"}
WATCHPOINT_WRITE      == {"write"}
WATCHPOINT_READ_WRITE == {"read", "write"}
WATCHPOINT_BREAKPOINT == {"read", "bit31"}

READING    == WATCHPOINT_READ
WRITING    == WATCHPOINT_WRITE
LOADING    == WATCHPOINT_READ
AccessType == {READING, WRITING}

WatchpointType == {WATCHPOINT_READ, WATCHPOINT_WRITE,
                   WATCHPOINT_READ_WRITE, WATCHPOINT_BREAKPOINT}

Watchpoint == [type : WatchpointType, startAddress : Address, endAddress : Address]

\* endAddress = address + size, in uint32_t arithmetic.
EndAddress(address, size) == (address + size) % AddressLimit

MakeWatchpoint(type, address, size) ==
  [type |-> type, startAddress |-> address, endAddress |-> EndAddress(address, size)]

(***************************************************************************)
(* Editing the array.                                                      *)
(***************************************************************************)

\* The indices at which the search for key stops: an equal watchpoint, or one
\* that starts at a higher address.
MatchingOrHigher(wps, key) ==
  {i \in DOMAIN wps : wps[i] = key \/ key.startAddress < wps[i].startAddress}

findMatchingOrHigherWatchpoint(wps, key) ==
  IF MatchingOrHigher(wps, key) = {} THEN Len(wps) + 1
                                     ELSE Min(MatchingOrHigher(wps, key))

IsFoundAt(wps, key, i) == i \in DOMAIN wps /\ wps[i] = key

\* Variant: a new watchpoint goes to the end of the array.
setWatchpointAtEnd(wps, key) ==
  IF key \in ToSet(wps) THEN wps ELSE Append(wps, key)

setWatchpoint(wps, key) ==
  LET i == findMatchingOrHigherWatchpoint(wps, key)
  IN  IF IsFoundAt(wps, key, i) THEN wps ELSE InsertAt(wps, i, key)

clearWatchpoint(wps, key) ==
  LET i == findMatchingOrHigherWatchpoint(wps, key)
  IN  IF IsFoundAt(wps, key, i) THEN RemoveAt(wps, i) ELSE wps

(***************************************************************************)
(* Scanning the array on an access of size bytes at address.               *)
(***************************************************************************)

accessInRange(wp, address, endAddress) ==
  address >= wp.startAddress /\ endAddress <= wp.endAddress

IsBreakpoint(wp) == wp.type = WATCHPOINT_BREAKPOINT

\* The scan looks at wp at all: (type & wp.type) # 0.
IsRelevant(wp, type) == type \cap wp.type # {}

\* wp is a breakpoint that this access trips: only a halfword access, the size
\* of an instruction fetch, trips one.
Trips(wp, address, size, type) ==
  /\ IsRelevant(wp, type)
  /\ IsBreakpoint(wp)
  /\ size = HalfWordSize
  /\ accessInRange(wp, address, EndAddress(address, size))

\* wp is a watchpoint that this access counts.
Counts(wp, address, size, type) ==
  /\ IsRelevant(wp, type)
  /\ ~IsBreakpoint(wp)
  /\ accessInRange(wp, address, EndAddress(address, size))

\* Variant: the scan already ends at a watchpoint that starts where the access
\* does.
EndsScanTooEarly(wp, address, size, type) ==
  /\ IsRelevant(wp, type)
  /\ ~IsBreakpoint(wp)
  /\ ~accessInRange(wp, address, EndAddress(address, size))
  /\ wp.startAddress >= address

\* wp is a watchpoint behind which the scan gives up, as the array is sorted.
EndsScan(wp, address, size, type) ==
  /\ IsRelevant(wp, type)
  /\ ~IsBreakpoint(wp)
  /\ ~accessInRange(wp, address, EndAddress(address, size))
  /\ wp.startAddress > address

StopsScan(wp, address, size, type) ==
  Trips(wp, address, size, type) \/ EndsScan(wp, address, size, type)

\* The index at which the scan stops, or the one past the array.
ScanStop(wps, address, size, type) ==
  LET stops == {i \in DOMAIN wps : StopsScan(wps[i], address, size, type)}
  IN  IF stops = {} THEN Len(wps) + 1 ELSE Min(stops)

\* What the scan does: the watchpoints it counted before it stopped, and
\* whether it stopped by throwing hardwareBreakpointException.
checkForBreakWatchPoint(wps, address, size, type) ==
  LET stop == ScanStop(wps, address, size, type)
  IN  [counted |-> {i \in 1 .. stop - 1 : Counts(wps[i], address, size, type)},
       tripped |-> stop \in DOMAIN wps /\ Trips(wps[stop], address, size, type)]

(***************************************************************************)
(* What keeps the early end of the scan right.                             *)
(***************************************************************************)

IsSortedByStart(wps) ==
  \A i, j \in DOMAIN wps : i < j => wps[i].startAddress <= wps[j].startAddress

HasNoDuplicates(wps) ==
  \A i, j \in DOMAIN wps : wps[i] = wps[j] => i = j
=============================================================================
