----------------------------- MODULE MCCrashDump -----------------------------
(***************************************************************************)
(* Small instances of the dump reader: 16 addresses, three registers and   *)
(* two float registers.  The empty region starts at the sentinel.          *)
(***************************************************************************)
EXTENDS CrashDump

CONSTANTS V   \* a register value that a dump holds

Blocks ==
  {[startAddress |-> 4, endAddress |-> 7, data |-> <<1, 0, 1>>],
   [startAddress |-> 6, endAddress |-> 8, data |-> <<0, 1>>],
   [startAddress |-> 12, endAddress |-> 2, data |-> <<1, 1, 0, 1, 1, 0>>],
   [startAddress |-> 9, endAddress |-> 9, data |-> <<>>]}

UpTo(n, S) == UNION {[1 .. k -> S] : k \in 0 .. n}

\* Complete: every shape of a dump, nothing missing.
Shapes(blocks) ==
  {d \in [signature : {"version 3", "version 2", "unknown"}, float : BOOLEAN,
          R : {<<V>>, <<V, V, V>>}, exceptionPSR : {V}, FPR : {<<V, V>>},
          blocks : UpTo(blocks, Blocks), tail : {"nothing", "stack overflow"},
          length : {0}, bad : {0}] : Len(d.R) = IntegerCount(d)}

Complete == {[d EXCEPT !.length = FileSize(d)] : d \in Shapes(3)}

\* Cut: the same cut short, or with a wrong character, anywhere.
Cut ==
  UNION {{[d EXCEPT !.length = n] : n \in 0 .. FileSize(d)}
           \cup {[d EXCEPT !.length = FileSize(d), !.bad = n] : n \in 1 .. FileSize(d)} :
         d \in {s \in Shapes(2) : s.signature # "unknown"}}

CompleteAndCut == Complete \cup Cut

EmptyOrImage ==
  {<<>>, <<NewRegion(0, 2)>>,
   <<[NewRegion(6, 2) EXCEPT !.isReadOnly = TRUE, !.pReadCounts = <<0>>]>>}
=============================================================================
