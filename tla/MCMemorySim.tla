----------------------------- MODULE MCMemorySim -----------------------------
(***************************************************************************)
(* Small instances of the memory simulator: 16 addresses, RAM in blocks of *)
(* 8.  Each group of definitions belongs to the configurations of one      *)
(* name.                                                                   *)
(***************************************************************************)
EXTENDS MemorySimFlat

\* exception and value are what a call told its caller: no call reads them, so two
\* states that differ only there have the same steps.  (The properties that speak
\* of them speak of their values after a step.)
SimState == <<regions, watchpointEncountered, wild>>

\* Memory: an image of a word in flash, a byte of RAM, a region that touches the
\* flash, aliases of both, clipped or not.  Loads of every length modulo 4, within a
\* region, over its end and past it.  In their place, a region with break/watchpoints
\* set directly and by an alias, writable or not.
MemoryFlash == {[bytes |-> <<1, 0, 1, 1>>, stack |-> 9]}
MemoryRAM == {[baseAddress |-> 4, size |-> 2], [baseAddress |-> 3, size |-> 2]}
MemoryAliases == {[aliasAddress |-> 12, redirectAddress |-> 1, size |-> 4],
                  [aliasAddress |-> 12, redirectAddress |-> 3, size |-> 2]}
MemoryLoads == {[baseAddress |-> 2, image |-> <<1, 0, 0, 1>>],
                [baseAddress |-> 0, image |-> <<1, 0, 1, 0, 1>>],
                [baseAddress |-> 0, image |-> <<1, 0, 1, 1, 0, 1>>],
                [baseAddress |-> 3, image |-> <<0, 1, 0>>]}
MemoryWatchPoints ==
  {[address |-> 3, size |-> 2, type |-> WATCHPOINT_READ_WRITE],
   [address |-> 3, size |-> 2, type |-> WATCHPOINT_BREAKPOINT],
   [address |-> 12, size |-> 1, type |-> WATCHPOINT_WRITE]}
MemoryAccesses == {1, 3, 5, 8, 12}

\* Watch: break/watchpoints on a word of RAM, reached directly or by an alias; images
\* that need two regions and counters, while memory runs out; regions that cover each
\* other, aliases of them and of each other.
WatchRegions == {[baseAddress |-> b, size |-> 4] : b \in {2, 4}}
WatchAliases == {[aliasAddress |-> 8, redirectAddress |-> 4, size |-> 4],
                 [aliasAddress |-> 4, redirectAddress |-> 2, size |-> 4],
                 [aliasAddress |-> 10, redirectAddress |-> 7, size |-> 2]}
WatchPoints ==
  {[address |-> 4, size |-> 4, type |-> WATCHPOINT_READ_WRITE],
   [address |-> 4, size |-> 2, type |-> WATCHPOINT_READ],
   [address |-> 5, size |-> 1, type |-> WATCHPOINT_WRITE],
   [address |-> 8, size |-> 2, type |-> WATCHPOINT_BREAKPOINT],
   [address |-> 6, size |-> 2, type |-> WATCHPOINT_BREAKPOINT],
   [address |-> 10, size |-> 2, type |-> WATCHPOINT_READ]}
WatchFlash == {[bytes |-> <<0, 0, 0, 0>>, stack |-> 14], [bytes |-> <<0>>, stack |-> 14]}
WatchLoads == {[baseAddress |-> 6, image |-> <<0, 0>>]}
WatchAccesses == {4, 5, 6, 10}

\* AliasChain: an alias of an alias, as two --alias options can ask for.
ChainRegions == {[baseAddress |-> 4, size |-> 4]}
ChainAliases == {[aliasAddress |-> 12, redirectAddress |-> 4, size |-> 4],
                 [aliasAddress |-> 8, redirectAddress |-> 12, size |-> 4]}

\* TopWatch: a watchpoint on the last word of the address space.
TopRegions == {[baseAddress |-> 8, size |-> 8]}
TopWatchPoints == {[address |-> 12, size |-> 4, type |-> WATCHPOINT_READ]}
=============================================================================
