---------------------------- MODULE DebugTarget ----------------------------
(***************************************************************************)
(* What GDB is promised of the crashed device: a target that stands still. *)
(* Cells hold bytes, and addresses stand for cells; the registers can be   *)
(* written, and it always stops for the same reason.  A packet is taken,   *)
(* carried out access by access, and answered; or given up, when the       *)
(* session ends.  There are no exceptions, no console and no fault counter. *)
(***************************************************************************)
EXTENDS Integers, Sequences, FiniteSets, Functions

CONSTANTS Packets, AddressLimit, READING, WRITING

VARIABLES
  blocks,     \* sets of addresses: an access lies in one
  cellOf,     \* the cell of each of their addresses
  readOnly,   \* the cells that cannot be written
  store,      \* the byte of each cell
  signal,     \* why the device stopped
  registers,  \* [R, FPR]: no floating point registers is <<>>
  packet,     \* the packet that is carried out
  done,       \* how many of its accesses were allowed
  refused,    \* the next one was not
  data,       \* the bytes that were read for it
  answer      \* the answer to it, once there is one

vars == <<blocks, cellOf, readOnly, store, signal, registers, packet, done, refused, data, answer>>

device == <<blocks, cellOf, readOnly, signal>>

Idle ==
  packet.kind = "none" /\ done = 0 /\ ~refused /\ data = <<>> /\ answer.kind = "none"

Init == Idle

Take ==
  /\ packet.kind = "none"
  /\ packet' \in Packets
  /\ UNCHANGED <<device, store, registers, done, refused, data, answer>>

Serves(kinds) == packet.kind \in kinds /\ answer.kind = "none"

First(p, n) == (p.address + n * p.size) % AddressLimit

IsAllowed(p, addresses) ==
  /\ \E b \in blocks : addresses \subseteq b
  /\ p.type = WRITING => \A a \in addresses : cellOf[a] \notin readOnly

\* The next access is allowed and made, or refused and changes nothing.
Access ==
  LET first     == First(packet, done)
      addresses == first .. first + packet.size - 1
  IN  /\ Serves({"memory"}) /\ ~refused /\ done < packet.count
      /\ refused' = ~IsAllowed(packet, addresses)
      /\ done' = IF refused' THEN done ELSE done + 1
      /\ IF refused' \/ packet.type = READING THEN store' = store
         ELSE /\ DOMAIN store' = DOMAIN store
              /\ \A c \in DOMAIN store :
                   IF \E a \in addresses : cellOf[a] = c
                   THEN \E a \in addresses :
                          /\ cellOf[a] = c
                          /\ store'[c] = packet.bytes[done * packet.size + a - first + 1]
                   ELSE store'[c] = store[c]
      /\ data' = IF refused' \/ packet.type = WRITING THEN data
                 ELSE data \o [i \in 1 .. packet.size |-> store[cellOf[first + i - 1]]]
      /\ UNCHANGED <<device, registers, packet, answer>>

\* A read is answered with the bytes up to the first that was refused, if there are
\* any; a write is done in full, or answered with an error.
AnswerMemory ==
  /\ Serves({"memory"})
  /\ refused \/ done = packet.count
  /\ answer' = CASE packet.type = READING /\ (data # <<>> \/ ~refused) ->
                      [kind |-> "data", bytes |-> data]
                 [] packet.type = WRITING /\ ~refused -> [kind |-> "OK"]
                 [] OTHER -> [kind |-> "error"]
  /\ ~refused' /\ UNCHANGED <<device, store, registers, packet, done, data>>

\* The registers that are in the packet are written; it is accepted if all are.
WriteRegisters ==
  LET R   == DOMAIN registers.R
      FPR == DOMAIN registers.FPR
  IN  /\ Serves({"G"})
      /\ DOMAIN registers'.R = R /\ DOMAIN registers'.FPR = FPR
      /\ \A n \in R : n < packet.length => registers'.R[n] = packet.R[n]
      /\ \A n \in FPR : Cardinality(R) + n < packet.length => registers'.FPR[n] = packet.FPR[n]
      /\ answer' = [kind |-> IF Cardinality(R) + Cardinality(FPR) <= packet.length THEN "OK" ELSE "error"]
      /\ UNCHANGED <<device, store, packet, done, refused, data>>

\* Nothing but the answer: no packet moves the device.  The description of the target
\* has as many words as the registers that are sent.
Tell ==
  /\ \/ Serves({"g"}) /\ answer' = [kind |-> "registers", registers |-> registers]
     \/ Serves({"?", "resume"})
        /\ answer' = [kind |-> "stop", signal |-> signal,
                      R |-> [n \in 12 .. 15 |-> registers.R[n]]]
     \/ Serves({"target XML"}) /\ answer'.kind = "target XML"
        /\ FoldFunction(+, 0, answer'.words)
             = Cardinality(DOMAIN registers.R) + Cardinality(DOMAIN registers.FPR)
     \/ Serves({"memory map"}) /\ answer'.kind = "memory map"
        /\ {answer'.map[i].start .. answer'.map[i].start + answer'.map[i].length - 1 :
              i \in DOMAIN answer'.map} = blocks
        /\ \A i \in DOMAIN answer'.map, a \in DOMAIN cellOf :
             a \in answer'.map[i].start .. answer'.map[i].start + answer'.map[i].length - 1
             => (answer'.map[i].type = "flash" <=> cellOf[a] \in readOnly)
     \/ Serves({"breakpoint", "watchpoint"}) /\ answer' = [kind |-> "OK"]
  /\ UNCHANGED <<device, store, registers, packet, done, refused, data>>

\* The answer is sent.
Send ==
  /\ answer.kind # "none"
  /\ Idle'
  /\ UNCHANGED <<device, store, registers>>

Next == Take \/ Access \/ AnswerMemory \/ WriteRegisters \/ Tell \/ Send

Spec == Init /\ [][Next]_vars
=============================================================================
