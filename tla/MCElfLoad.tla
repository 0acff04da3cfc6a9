----------------------------- MODULE MCElfLoad -----------------------------
(***************************************************************************)
(* Small instances of the ELF loader: headers of two and one bytes, 32     *)
(* addresses.                                                              *)
(***************************************************************************)
EXTENDS ElfLoad

Header(load, p_offset, p_filesz, p_memsz, p_paddr) ==
  [load |-> load, p_offset |-> p_offset, p_filesz |-> p_filesz, p_memsz |-> p_memsz,
   p_paddr |-> p_paddr]

\* Segments apart and overlapping, at the end of the address space, of no bytes, too
\* long for their memory, up to and past the end of the file, and of an end that wraps.
Headers ==
  {Header(TRUE, o, n, n, a) : o \in {2, 6}, n \in {1, 5}, a \in {0, 6, 27, 29}}
    \cup {Header(TRUE, 2, 2, 1, 8), Header(TRUE, 2, 0, 4, 8), Header(FALSE, 2, 2, 2, 8),
          Header(TRUE, 2, 9, 9, 10), Header(TRUE, 6, 28, 28, 0)}

Blob == [i \in 1 .. 12 |-> IF i % 3 = 0 THEN 1 ELSE 0]

SmallElfs ==
  {[blob |-> SubSeq(Blob, 1, n), isExecutable |-> x, e_phoff |-> o, e_phentsize |-> s,
    headers |-> h] :
     n \in {0, 1, 2, 7, 10, 11, 12}, x \in BOOLEAN, o \in {0, 2, 9}, s \in {0, 1, 3},
     h \in UNION {[1 .. k -> Headers] : k \in 0 .. 2}}

\* All that may lie behind the file is zero, or all of it one.
SameBehind == {[a \in Address |-> b] : b \in Byte}

\* Well formed, or malformed only by the end of a segment.
WrapElfs ==
  {[blob |-> SubSeq(Blob, 1, n), isExecutable |-> TRUE, e_phoff |-> 2, e_phentsize |-> 3,
    headers |-> <<Header(TRUE, o, s, s, a)>>] :
     n \in {10, 12}, o \in {2, 6}, s \in {1, 6, 26, 28}, a \in {0, 6}}
=============================================================================
