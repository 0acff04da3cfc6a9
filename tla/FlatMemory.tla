----------------------------- MODULE FlatMemory -----------------------------
(***************************************************************************)
(* What the memory simulator promises its clients, with no region list, no *)
(* translation and no scan: addresses that stand for cells, an alias       *)
(* standing for the cells of what it redirects to; cells that hold bytes   *)
(* and may be read-only; a set of break/watchpoints over the cells.  An    *)
(* access that lies within one block of addresses and is allowed succeeds; *)
(* every other one is refused and changes nothing.                         *)
(*                                                                         *)
(* It speaks of simulators whose regions do not overlap.                   *)
(***************************************************************************)
EXTENDS Integers, Sequences, FiniteSetsExt, TLC

CONSTANTS
  Byte, HalfWordSize, READING, WRITING, WATCHPOINT_BREAKPOINT, noException, RAMBlock,
  \* the calls its clients make, as in MemorySim
  RegionRequests, AliasRequests, ReadOnlyRequests, LoadRequests, FlashImages,
  AccessAddresses, AccessSizes, WatchRequests

VARIABLES
  blocks,      \* sets of addresses: one for each region and each alias
  cellOf,      \* the cell of each address of a block
  store,       \* the byte of each cell
  readOnly,    \* the cells that cannot be written
  watches,     \* break/watchpoints: [type, cells]
  encountered, \* watchpoints hit and not yet asked for
  exception,   \* what the last call threw
  value        \* what the last call returned

vars == <<blocks, cellOf, store, readOnly, watches, encountered, exception, value>>

layout == <<blocks, cellOf, readOnly>>

Span(first, size) == first .. first + size - 1

InOneBlock(address, size) == \E b \in blocks : Span(address, size) \subseteq b

Cells(address, size) == {cellOf[a] : a \in Span(address, size)}

Init ==
  /\ blocks = {} /\ cellOf = <<>> /\ store = <<>> /\ readOnly = {} /\ watches = {}
  /\ encountered = 0
  /\ exception = noException
  /\ value = [kind |-> "nothing"]

\* New cells, all zero.
AddRAM(base, size) ==
  /\ Span(base, size) \cap (DOMAIN cellOf \cup DOMAIN store) = {}
  /\ blocks' = blocks \cup {Span(base, size)}
  /\ cellOf' = [a \in Span(base, size) |-> a] @@ cellOf
  /\ store' = [a \in Span(base, size) |-> 0] @@ store
  /\ UNCHANGED <<readOnly, watches, encountered>>

\* New addresses for cells of one block, as many as the block has left.
AddAlias(base, target, size) ==
  \E b \in blocks :
    LET fits == {n \in 0 .. size : Span(target, n) \subseteq b}
    IN  /\ target \in b
        /\ Span(base, Max(fits)) \cap DOMAIN cellOf = {}
        /\ blocks' = blocks \cup {Span(base, Max(fits))}
        /\ cellOf' = [a \in Span(base, Max(fits)) |-> cellOf[target + (a - base)]] @@ cellOf
        /\ UNCHANGED <<store, readOnly, watches, encountered>>

Protect(address) ==
  /\ address \in DOMAIN cellOf
  /\ \E b \in blocks : /\ cellOf[address] \in b
                       /\ readOnly' = readOnly \cup b
                       /\ UNCHANGED <<blocks, cellOf, store, watches, encountered>>

\* Loading writes a prefix of the bytes, read-only cells too: all of them unless
\* the address space gives out.
Load(base, bytes) ==
  \E n \in 0 .. Len(bytes) :
    /\ Span(base, n) \subseteq DOMAIN cellOf
    /\ n < Len(bytes) <=> exception' # noException
    /\ store' = [a \in DOMAIN store |->
                   LET hits == {i \in 1 .. n : cellOf[base + i - 1] = a}
                   IN  IF hits = {} THEN store[a] ELSE bytes[Max(hits)]]
    /\ UNCHANGED <<layout, watches, encountered>>

\* A flash image at 0 and the RAM it asks for.
AddFlashAndRAM(bytes, ramBase, ramSize) ==
  LET flash == Span(0, Len(bytes))
      ram   == Span(ramBase, ramSize)
  IN  /\ (flash \cup ram) \cap (DOMAIN cellOf \cup DOMAIN store) = {}
      /\ flash \cap ram = {}
      /\ blocks' = blocks \cup {flash, ram}
      /\ cellOf' = [a \in flash \cup ram |-> a] @@ cellOf
      /\ store' = [a \in flash |-> bytes[a + 1]] @@ [a \in ram |-> 0] @@ store
      /\ readOnly' = readOnly \cup flash
      /\ UNCHANGED <<watches, encountered>>

Forget ==
  /\ blocks' = {} /\ cellOf' = <<>> /\ store' = <<>> /\ readOnly' = {} /\ watches' = {}
  /\ encountered' \in {encountered, 0}

Watched(request) ==
  [type |-> request.type, cells |-> Cells(request.address, request.size)]

Watch(request) ==
  /\ InOneBlock(request.address, request.size)
  /\ value' = [kind |-> "set", request |-> request]
  /\ watches' = watches \cup {Watched(request)}
  /\ UNCHANGED <<layout, store, encountered>>

Unwatch(request) ==
  /\ InOneBlock(request.address, request.size)
  /\ value' = [kind |-> "cleared", request |-> request]
  /\ watches' = watches \ {Watched(request)}
  /\ UNCHANGED <<layout, store, encountered>>

AskEncountered ==
  /\ value' = [kind |-> "encountered", count |-> encountered]
  /\ encountered' = 0
  /\ UNCHANGED <<layout, store, watches>>

\* A call that threw, or asked for a count of reads, of which nothing is said here.
NoEffect ==
  /\ exception' # noException \/ value'.kind = "count"
  /\ value'.kind # "refused"
  /\ UNCHANGED <<layout, store, watches, encountered>>

Hits(cells, type) ==
  {w \in watches : /\ w.type # WATCHPOINT_BREAKPOINT
                   /\ type \cap w.type # {}
                   /\ cells \subseteq w.cells}

Breaks(cells, size, type) ==
  /\ type = READING
  /\ size = HalfWordSize
  /\ \E w \in watches : w.type = WATCHPOINT_BREAKPOINT /\ cells \subseteq w.cells

Allowed(address, size, type) ==
  /\ InOneBlock(address, size)
  /\ type = WRITING => Cells(address, size) \cap readOnly = {}

Refuse(address, size, type) ==
  /\ value' = [kind |-> "refused", address |-> address, size |-> size, type |-> type]
  /\ exception' # noException
  /\ ~Allowed(address, size, type)
  /\ UNCHANGED <<layout, store, watches, encountered>>

\* A breakpoint may cut the count of the watchpoints hit short.
Break(address, size) ==
  /\ value' = [kind |-> "refused", address |-> address, size |-> size, type |-> READING]
  /\ exception' # noException
  /\ Allowed(address, size, READING)
  /\ Breaks(Cells(address, size), size, READING)
  /\ encountered' \in encountered ..
                      encountered + Cardinality(Hits(Cells(address, size), READING))
  /\ UNCHANGED <<layout, store, watches>>

Observed(address, size, type) ==
  /\ exception' = noException
  /\ Allowed(address, size, type)
  /\ ~Breaks(Cells(address, size), size, type)
  /\ encountered' = encountered + Cardinality(Hits(Cells(address, size), type))
  /\ UNCHANGED <<layout, watches>>

Read(address, size) ==
  /\ value'.kind = "data"
  /\ Observed(address, size, READING)
  /\ value' = [kind |-> "data", address |-> address,
               bytes |-> [i \in 1 .. size |-> store[cellOf[address + i - 1]]]]
  /\ UNCHANGED store

Write(address, size) ==
  \E bytes \in [1 .. size -> Byte] :
    /\ value' = [kind |-> "written", address |-> address, bytes |-> bytes]
    /\ Observed(address, size, WRITING)
    /\ store' = [i \in Cells(address, size) |-> bytes[i - cellOf[address] + 1]] @@ store

\* The host is shown the bytes of the cells; it is watched no further.
Point(address, size, type) ==
  /\ value'.kind = "pointer"
  /\ exception' = noException
  /\ Allowed(address, size, type)
  /\ value' = [kind |-> "pointer", address |-> address, type |-> type,
               bytes |-> [i \in 1 .. size |-> store[cellOf[address + i - 1]]]]
  /\ UNCHANGED <<layout, store, watches, encountered>>

\* The list of blocks.
ListBlocks ==
  /\ value'.kind = "map"
  /\ blocks = {Span(value'.map[i].start, value'.map[i].length) : i \in DOMAIN value'.map}
  /\ UNCHANGED <<layout, store, watches, encountered>>

Access ==
  /\ value'.kind \in {"refused", "data", "written", "pointer"}
  /\ \E address \in AccessAddresses, size \in AccessSizes :
       \/ Refuse(address, size, READING)
       \/ Refuse(address, size, WRITING)
       \/ Break(address, size)
       \/ Read(address, size)
       \/ Write(address, size)
       \/ Point(address, size, READING)
       \/ Point(address, size, WRITING)

\* Building the memory and forgetting it.
Build ==
  /\ value'.kind = "nothing"
  /\ \/ \E r \in RegionRequests : AddRAM(r.baseAddress, r.size)
     \/ \E r \in AliasRequests : AddAlias(r.aliasAddress, r.redirectAddress, r.size)
     \/ \E a \in ReadOnlyRequests : Protect(a)
     \/ \E r \in LoadRequests : Load(r.baseAddress, r.image)
     \/ \E image \in FlashImages :
          AddFlashAndRAM(image.bytes, image.stack - (image.stack % RAMBlock),
                         image.stack % RAMBlock)
     \/ Forget

Next ==
  \/ Access
  \/ Build
  \/ \E r \in WatchRequests : Watch(r) \/ Unwatch(r)
  \/ AskEncountered
  \/ ListBlocks
  \/ NoEffect

Spec == Init /\ [][Next]_vars
=============================================================================
