---------------------------- MODULE SessionTarget ----------------------------
(***************************************************************************)
(* The session implements the target of DebugTarget: the refinement        *)
(* mapping.  An access is made in the step that makes it, before mri has   *)
(* asked whether it was a fault.                                           *)
(***************************************************************************)
EXTENDS Session

Extent(r) == r.baseAddress .. r.baseAddress + r.size - 1

Backed == {i \in DOMAIN regions : ~regions[i].isAlias}

Cell(found) == <<found.region, RegionOffset(regions, found) + 1>>

Asking == stage = "accessed"

Target == INSTANCE DebugTarget WITH
  blocks    <- {Extent(regions[i]) : i \in DOMAIN regions},
  cellOf    <- [a \in UNION {Extent(regions[i]) : i \in DOMAIN regions} |->
                  Cell(findMatchingRegion(regions, a, 1))],
  readOnly  <- UNION {{<<i, b>> : b \in DOMAIN regions[i].pData} :
                        i \in {j \in Backed : regions[j].isReadOnly}},
  store     <- [cell \in UNION {{<<i, b>> : b \in DOMAIN regions[i].pData} : i \in Backed} |->
                  regions[cell[1]].pData[cell[2]]],
  signal    <- Platform_DetermineCauseOfException(g_pContext),
  registers <- Registers(g_pContext),
  done      <- IF Asking /\ g_memoryFaultEncountered = 0 THEN done + 1 ELSE done,
  refused   <- Asking /\ g_memoryFaultEncountered # 0,
  data      <- IF Asking /\ g_memoryFaultEncountered = 0 /\ packet.type = READING
               THEN data \o retVal ELSE data

\* Exceptions that are caught or not, a counter that is asked for and cleared, calls
\* that are ignored and a run loop that goes round and round add up to a device that
\* stands still and answers every packet as it is.
ImplementsDebugTarget == Target!Spec
==============================================================================
