---------------------------- MODULE MemorySimFlat ----------------------------
(***************************************************************************)
(* The memory simulator implements the flat memory of FlatMemory: the      *)
(* refinement mapping.  It is stated for simulators whose regions do not   *)
(* overlap and none of whose aliases redirects to an alias; what the code  *)
(* does otherwise is checked in MemorySim.                                 *)
(***************************************************************************)
EXTENDS MemorySim

Extent(r) == r.baseAddress .. r.baseAddress + r.size - 1

RegionsDisjoint(rs) ==
  \A i, j \in DOMAIN rs : i # j => Extent(rs[i]) \cap Extent(rs[j]) = {}

\* Clients that keep their regions apart.
DisjointSpec == Init /\ [][Next /\ RegionsDisjoint(regions')]_vars

Mapped == UNION {Extent(regions[i]) : i \in DOMAIN regions}

\* The indices of the regions that have data of their own.
Backed == {i \in DOMAIN regions : ~regions[i].isAlias}

Home(cell) == CHOOSE i \in Backed : cell \in Extent(regions[i])

FlatWatch(wp) ==
  [type |-> wp.type, cells |-> wp.startAddress .. wp.endAddress - 1]

\* A pointer to the host is what it points at.
HostView(v) ==
  IF v.kind = "pointer"
  THEN [kind |-> "pointer", address |-> v.address, type |-> v.type,
        bytes |-> SubSeq(regions[v.region].pData, v.offset + 1, v.offset + v.size)]
  ELSE v

Flat == INSTANCE FlatMemory WITH
  blocks      <- {Extent(regions[i]) : i \in DOMAIN regions},
  cellOf      <- [a \in Mapped |-> findMatchingRegion(regions, a, 1).address],
  store       <- [cell \in UNION {Extent(regions[i]) : i \in Backed} |->
                    LET r == regions[Home(cell)]
                    IN  r.pData[cell - r.baseAddress + 1]],
  readOnly    <- UNION {Extent(regions[i]) : i \in {j \in Backed : regions[j].isReadOnly}},
  watches     <- {FlatWatch(wp) : wp \in UNION {ToSet(regions[i].watchpoints) : i \in Backed}},
  encountered <- watchpointEncountered,
  value       <- HostView(value)

\* With regions kept apart, region list, translation, clipping of aliases, loading
\* loops, read-only checks, sorted arrays and scan together are a flat memory.
ImplementsFlatMemory == Flat!Spec

NoRegionPassesTop == \A r \in RegionRequests : r.baseAddress + r.size <= AddressLimit

\* Every byte of an alias is the byte at the same distance from its redirect
\* address, as CrashDebug's usage text says of --alias.
AliasesFollowRedirect ==
  \A i \in DOMAIN regions : regions[i].isAlias =>
    \A offset \in 0 .. regions[i].size - 1 :
      LET alias  == regions[i].baseAddress + offset
          target == regions[i].redirectAddress + offset
      IN  /\ Matching(regions, target, 1) # {}
          /\ findMatchingRegion(regions, alias, 1) = findMatchingRegion(regions, target, 1)
=============================================================================
