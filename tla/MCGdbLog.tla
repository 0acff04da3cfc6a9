------------------------------ MODULE MCGdbLog ------------------------------
(***************************************************************************)
(* Small instances of the log parser: 64 addresses, logs of up to three    *)
(* lines.                                                                  *)
(***************************************************************************)
EXTENDS GdbLog

CONSTANTS R0, S0, FPSCR   \* registers

\* Two words that differ in every byte.
Zeroes == <<0, 0, 0, 0>>
Ones   == <<1, 1, 1, 1>>

Line(address, shown, rest) ==
  [type |-> "memory", address |-> address, shown |-> shown, rest |-> rest]

RegisterLines_ ==
  {[type |-> "register", register |-> r, value |-> v] :
     r \in {MSP, S0, FPSCR}, v \in {ZeroValue, DEFAULT_SP_VALUE}}

UpTo(n, lines) == UNION {[1 .. k -> lines] : k \in 0 .. n}

\* Memory before the log: nothing, RAM or flash in the way of some lines.
EmptyOrImage ==
  {<<>>, <<NewRegion(8, 8)>>,
   <<[NewRegion(8, 4) EXCEPT !.isReadOnly = TRUE, !.pReadCounts = <<0, 0>>]>>}

\* Full: lines of four words, the last line of a log shorter and without a newline.
FullLines ==
  {Line(a, <<w, Zeroes, Ones, w>>, "white space") : a \in {0, 16, 32, 48}, w \in {Zeroes, Ones}}
    \cup {Line(24, <<Ones, Ones, Ones, Ones>>, "nothing"), [type |-> "other"]}
    \cup RegisterLines_

LastLines == {Line(a, <<Ones>>, "nothing") : a \in {16, 28}}

FullLogs == UpTo(3, FullLines) \cup {Append(s, l) : s \in UpTo(2, FullLines), l \in LastLines}

\* Short: lines that show fewer than four words and end in a newline or in a message.
ShortLines ==
  {Line(a, s, r) : a \in {4, 8, 12, 20, 52}, s \in {<<>>, <<Ones>>, <<Ones, Ones>>},
                   r \in {"white space", "text"}}
    \cup {Line(8, <<Ones, Zeroes, Ones, Ones, Ones>>, "white space")}

ShortLogs == UpTo(3, ShortLines)

\* Full and short lines are not mixed: either kind is enough to join, part and overlap.
FullAndShortLogs == FullLogs \cup ShortLogs

\* OneLine: the log of one memory line with one word and a newline.
OneLineLogs == {<<Line(16, <<Ones>>, "white space")>>}
=============================================================================
