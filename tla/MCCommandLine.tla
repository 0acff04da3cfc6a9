--------------------------- MODULE MCCommandLine ---------------------------
(***************************************************************************)
(* Small instances of the command line: up to four options, 32 addresses.  *)
(***************************************************************************)
EXTENDS CommandLine

CONSTANTS f, g, d   \* an image file of five bytes, an empty one, a dump

Given(name, file, baseAddress, size, redirectAddress) ==
  [name |-> name, given |-> 9, file |-> file, baseAddress |-> baseAddress, size |-> size,
   redirectAddress |-> redirectAddress]

Cut(name, given) == [Given(name, f, 0, 0, 0) EXCEPT !.given = given,
                                                    !.file = IF name = "--dump" THEN d ELSE f]

Options ==
  {Given("--bin", f, 2, 0, 0), Given("--bin", g, 0, 0, 0), Given("--bin", f, 30, 0, 0),
   Given("--elf", f, 0, 0, 0), Given("--dump", d, 0, 0, 0),
   Given("--alias", d, 20, 8, 3), Given("--alias", d, 24, 2, 12), Given("other", d, 0, 0, 0)}

CutOptions == {Cut("--bin", 1), Cut("--elf", 0), Cut("--dump", 0), Cut("--alias", 2)}

UpTo(n, S) == UNION {[1 .. k -> S] : k \in 0 .. n}

CommandLines == UpTo(4, Options) \cup {Append(s, o) : s \in UpTo(3, Options), o \in CutOptions}

Bytes == (f :> <<1, 0, 1, 1, 0>>) @@ (g :> <<>>)

\* Flash at the bottom, and RAM above it.
Flash(baseAddress, size) ==
  [NewRegion(baseAddress, size) EXCEPT !.isReadOnly = TRUE,
                                       !.pReadCounts = ZeroReadCounts(size)]

\* In the last one an earlier segment is in the way of the lock of a later one.
FlashImages ==
  {<<Flash(0, 6)>>, <<Flash(0, 2), Flash(4, 2)>>, <<Flash(0, 6), NewRegion(4, 4)>>}

\* A region that is not locked yet, or locked without its counters.
Unfinished ==
  {<<>>, <<NewRegion(0, 6)>>,
   <<Flash(0, 2), [NewRegion(4, 2) EXCEPT !.isReadOnly = TRUE]>>}

RAM == {<<>>, <<NewRegion(12, 2)>>, <<NewRegion(3, 2), NewRegion(12, 2)>>}
=============================================================================
