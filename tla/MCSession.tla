----------------------------- MODULE MCSession -----------------------------
(***************************************************************************)
(* A small session: flash, RAM, an alias that its region clips, and a part *)
(* of the System Control Block, in 64 addresses.                           *)
(***************************************************************************)
EXTENDS SessionTarget

Holding(baseAddress, bytes) ==
  [NewRegion(baseAddress, Len(bytes)) EXCEPT !.pData = bytes]

Flash == [Holding(0, <<1, 0, 1>>) EXCEPT !.isReadOnly = TRUE, !.pReadCounts = <<0>>]
RAM   == Holding(8, <<0, 1, 0, 1>>)

\* CFSR: each part with an address, and two usage faults; HFSR: forced, and a vector
\* table read.
FaultStatus == <<130, 129, 1, 2, 2, 0, 0, 64>>
Addresses   == [i \in 1 .. 8 |-> 1]

Layout(faults) ==
  LET rs == <<Flash, RAM>> \o faults
  IN  Append(rs, NewAlias(rs, 16, 10, 4))

File(n, psr) == [r \in Register |-> IF r = 16 THEN psr ELSE IF r \in {0, 13} THEN n ELSE 0]
FPFile(n)    == [r \in FPRegister |-> IF r = 32 THEN n ELSE 0]

Launch(number, faults, fpu) ==
  [regions |-> Layout(faults),
   context |-> [exceptionPSR |-> number, R |-> File(1, number), FPR |-> FPFile(1), flags |-> fpu]]

AllFaults  == <<Holding(40, FaultStatus), Holding(52, Addresses)>>
NoAddress  == <<Holding(40, FaultStatus)>>
StatusOnly == <<Holding(40, <<0, 2, 0, 0>>)>>

SmallLaunches ==
  {Launch(number, AllFaults, FALSE) : number \in {256 + 3, 4, 6}}
  \cup {Launch(number, NoAddress, FALSE) : number \in {3, 5}}
  \cup {Launch(number, StatusOnly, TRUE) : number \in {3, 5}}
  \cup {Launch(number, <<>>, TRUE) : number \in {0, 3, 6}}

Memory(type, address, size, count, bytes) ==
  [kind |-> "memory", type |-> type, address |-> address, size |-> size, count |-> count,
   bytes |-> bytes]

SmallPackets ==
  {Memory(READING, 10, 1, 3, <<>>), Memory(READING, 8, 4, 1, <<>>), Memory(READING, 1, 4, 1, <<>>),
   Memory(READING, 63, 1, 2, <<>>), Memory(READING, 16, 2, 2, <<>>),
   Memory(WRITING, 16, 1, 3, <<1, 0, 1>>), Memory(WRITING, 2, 1, 1, <<0>>),
   Memory(WRITING, 40, 2, 1, <<0, 0>>),
   [kind |-> "G", R |-> File(0, 4), FPR |-> FPFile(0), length |-> 52],
   [kind |-> "G", R |-> File(0, 4), FPR |-> FPFile(0), length |-> 18]}
  \cup OtherPacket
=============================================================================
