------------------------------ MODULE LogLine ------------------------------
(***************************************************************************)
(* One line of the log in base64: encode64 when a session writes it,       *)
(* decode64 when search or head prints it (encoder.c, fts.c).              *)
(*                                                                         *)
(* A byte is 0 .. 255; a character of the dictionary is its index 0 .. 63, *)
(* since strchr(dict,c)-dict finds it again.                               *)
(***************************************************************************)
EXTENDS Integers, SequencesExt

CONSTANTS
  Strings,   \* what is encoded: sequences of bytes, none empty, none with a NUL
  Pad        \* '=', which is not in the dictionary

ASSUME LogLineAssumption == Strings \subseteq Seq(0 .. 255) \ {<<>>} /\ Pad \notin 0 .. 63

Newline == 10

VARIABLES
  string, linePc,
  line,      \* what encode64 gives, without its '\n'
  dlen,      \* bytes decode64 allocates
  plain      \* bytes it writes

lineVars == <<string, linePc, line, dlen, plain>>

LineInit == string \in Strings /\ linePc = "encode" /\ line = <<>> /\ dlen = 0 /\ plain = <<>>

\* Byte i of the string, 0 when the group is not full: what << leaves there.
At(i) == IF i <= Len(string) THEN string[i] ELSE 0

\* The four characters for the bytes from p + 1 on.
Group(p) ==
  LET a == At(p + 1)
      b == At(p + 2)
      c == At(p + 3)
  IN <<a \div 4, (a % 4) * 16 + b \div 16,
       IF p + 2 > Len(string) THEN Pad ELSE (b % 16) * 4 + c \div 64,
       IF p + 3 > Len(string) THEN Pad ELSE c % 64>>

\* for (plain = 0;plain < len;plain+=3)
Encode ==
  /\ linePc = "encode"
  /\ line' = line \o Group((Len(line) \div 4) * 3)
  /\ linePc' = IF (Len(line) \div 4 + 1) * 3 >= Len(string) THEN "written" ELSE "encode"
  /\ UNCHANGED <<string, dlen, plain>>

\* Wrong form: every line counts as padded.
RoomAlwaysLess == Len(line) - 2
\* Wrong form: room for the bytes and not for what ends them.
RoomExact == IF Last(line) = Pad THEN Len(line) - 2 ELSE (Len(line) \div 4) * 3

\* string[len-1] is a pad; string[len] is the terminating NUL and never one, so that
\* one pad counts as two.
Room == IF Last(line) = Pad THEN Len(line) - 2 ELSE Len(line)

\* The line is read, and its '\n' cut off.
Allocate ==
  /\ linePc = "written"
  /\ dlen' = Room
  /\ linePc' = "decode"
  /\ UNCHANGED <<string, line, plain>>

\* for (enc = 0;enc < len;enc += 4): one byte of the last group when dlen says that it
\* was padded twice, else three.
Decode ==
  LET enc == (Len(plain) \div 3) * 4
      g == SubSeq(line, enc + 1, enc + 4)
      first == g[1] * 4 + g[2] \div 16
  IN
  /\ linePc = "decode"
  /\ IF dlen = Len(line) - 2 /\ enc + 4 = Len(line)
       THEN plain' = Append(plain, first)
       ELSE plain' = plain \o <<first, (g[2] % 16) * 16 + g[3] \div 4, (g[3] % 4) * 64 + g[4]>>
  /\ linePc' = IF enc + 4 = Len(line) THEN "printed" ELSE "decode"
  /\ UNCHANGED <<string, line, dlen>>

Printed == linePc = "printed" /\ UNCHANGED lineVars

LineNext == Encode \/ Allocate \/ Decode \/ Printed

LineSpec == LineInit /\ [][LineNext]_lineVars

-----------------------------------------------------------------------------

\* A log entry, which ends with a newline, is printed whole up to that newline: the
\* byte that decode64 loses when there is one pad is never another one.
EntryShown ==
  (linePc = "printed" /\ Last(string) = Newline) => IsPrefix(Front(string), plain)

\* The decoded bytes are inside what was allocated, and a zero of calloc ends them:
\* printf and strstr take them for a string.
RoomEnough == linePc = "printed" => Len(plain) < dlen
=============================================================================
