----------------------------- MODULE DumpLoader -----------------------------
(***************************************************************************)
(* What the launch relies on when it loads a dump, of whatever kind: the   *)
(* memory only grows, by RAM regions behind what is there; stores go into  *)
(* one region of RAM at a time; and the loading ends, with nothing or with *)
(* an exception, and touches nothing after that.                           *)
(***************************************************************************)
EXTENDS Naturals, Sequences

CONSTANTS Images, Failures, noException, NewRegion(_, _)

VARIABLES image, regions, ended, exception

vars == <<image, regions, ended, exception>>

Init ==
  /\ image \in Images
  /\ regions = image
  /\ ended = FALSE
  /\ exception = noException

AddRAM ==
  /\ Len(regions') = Len(regions) + 1
  /\ LET new == regions'[Len(regions')]
     IN  regions' = Append(regions, NewRegion(new.baseAddress, new.size))
  /\ UNCHANGED <<ended, exception>>

StoreIntoRAM ==
  /\ \E i \in DOMAIN regions :
       /\ ~regions[i].isReadOnly
       /\ DOMAIN regions' = DOMAIN regions
       /\ Len(regions'[i].pData) = Len(regions[i].pData)
       /\ regions' = [regions EXCEPT ![i].pData = regions'[i].pData]
  /\ UNCHANGED <<ended, exception>>

End ==
  /\ ended' = TRUE
  /\ exception' \in Failures \cup {noException}
  /\ UNCHANGED regions

Next == ~ended /\ UNCHANGED image /\ (AddRAM \/ StoreIntoRAM \/ End)

Spec == Init /\ [][Next]_vars
=============================================================================
