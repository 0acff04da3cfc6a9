------------------------------ MODULE TryCatch ------------------------------
(***************************************************************************)
(* The exceptions of include/try_catch.h: a stack of handlers, and one     *)
(* global code that __throw sets, __catch only tests, and the next __try   *)
(* clears.  A handler is named for its catch block.                        *)
(*                                                                         *)
(* A thrown code never replaces a larger one: what a catch block left      *)
(* behind is reported instead of a smaller exception thrown after it.      *)
(***************************************************************************)
EXTENDS MemoryRegions

invalidArgumentException == "invalid argument"
fileException            == "file"
elfFormatException       == "ELF format"
fileFormatException      == "file format"
stackOverflowException   == "stack overflow"

\* The codes that are thrown, in their order; those of mri come first.
Code ==
  <<noException, invalidArgumentException, bufferOverrunException, outOfMemoryException,
    busErrorException, hardwareBreakpointException, fileException, elfFormatException,
    fileFormatException, stackOverflowException>>

Severity(e) == CHOOSE n \in DOMAIN Code : Code[n] = e

\* The try blocks of a session.
Block == {"main", "hasReceiveData", "Platform_Mem", "display"}

Exceptions == [handlers : Seq(Block), code : ToSet(Code)]

\* Variant: the code of an earlier exception stays.
TryUncleared(ex, block) == [ex EXCEPT !.handlers = Append(@, block)]

\* __try
Try(ex, block) == [handlers |-> Append(ex.handlers, block), code |-> noException]

setExceptionCode(ex, e) ==
  [ex EXCEPT !.code = IF Severity(e) > Severity(@) THEN e ELSE @]

\* __catch: the handler goes, whether its body threw or not; the code stays.
Catch(ex) == [ex EXCEPT !.handlers = Front(@)]

clearExceptionCode(ex) == [ex EXCEPT !.code = noException]

\* __try a body that throws e, or nothing, up to the test of the code in __catch.
Tried(ex, block, e) == Catch(setExceptionCode(Try(ex, block), e))
=============================================================================
