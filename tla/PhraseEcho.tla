----------------------------- MODULE PhraseEcho -----------------------------
(***************************************************************************)
(* What the options of a pattern do to a byte, in encoder.c and in         *)
(* encoder.py, and the exchange that depends on it: the FTS encodes the    *)
(* passphrase for the FSS (scrapeMessage), the FSS decodes it, encodes the *)
(* result again, compares, and sends it back, and the FTS checks it        *)
(* (unpackResponse).                                                       *)
(*                                                                         *)
(* One byte of the phrase, under the option each end has for its place:    *)
(* EncodeLoop has the choice of the option.  A decoded byte from 128 on is *)
(* not text by itself; beside others it may be part of a longer character. *)
(***************************************************************************)
EXTENDS Integers

CONSTANTS
  Bytes,    \* bytes of the passphrase: printable ASCII
  Alone,    \* the passphrase is this one byte
  Error     \* an exception, or None

ASSUME PhraseEchoAssumption == Bytes \subseteq 0 .. 255 /\ Error \notin 0 .. 255

\* parsed->ops and parsed->vals, which parsing takes % 8; encoder.py takes % 8 when
\* it rotates or masks.
Option == [op : {"~"}, val : {0}] \cup [op : {"^", "r", "l"}, val : 0 .. 7]

VARIABLES
  co,      \* the option of the C2's pattern, which the FTS uses
  fo,      \* the option of the pattern the FSS was started with
  phrase,  \* the byte as C2 has it
  echoPc,  \* where the exchange is
  wire,    \* the byte in the 0x01
  text,    \* the byte as the FSS decoded it
  echo     \* the byte in the 0x02

echoVars == <<co, fo, phrase, echoPc, wire, text, echo>>

-----------------------------------------------------------------------------
(* encoder.c: unsigned char, shifts masked with 0xFF. *)

\* v ^ k, where k has three bits.
Bit(n, unit) == (n \div unit) % 2
Xor(v, k) ==
  8 * (v \div 8) + 4 * ((Bit(v, 4) + Bit(k, 4)) % 2)
                 + 2 * ((Bit(v, 2) + Bit(k, 2)) % 2) + ((Bit(v, 1) + Bit(k, 1)) % 2)

Ror(v, s) == (v \div 2 ^ s) + ((v * 2 ^ (8 - s)) % 256)
Rol(v, s) == ((v * 2 ^ s) % 256) + v \div 2 ^ (8 - s)

CEncode(o, b) ==
  CASE o.op = "^" -> Xor(b, o.val)
    [] o.op = "r" -> Ror(b, o.val)
    [] o.op = "l" -> Rol(b, o.val)
    [] o.op = "~" -> 255 - b

\* Wrong form: rol is undone by rol.
CDecodeSame(o, b) == CEncode(o, b)

CDecode(o, b) ==
  CASE o.op = "^" -> Xor(b, o.val)
    [] o.op = "r" -> Rol(b, o.val)
    [] o.op = "l" -> Ror(b, o.val)
    [] o.op = "~" -> 255 - b

-----------------------------------------------------------------------------
(* encoder.py: rotations of the string of binary digits that bin() gives,  *)
(* which has no leading zeros.                                             *)

\* len(bin(b)[2:])
Digits(b) == CHOOSE w \in 1 .. 8 : b < 2 ^ w /\ (w > 1 => 2 ^ (w - 1) <= b)

\* byte[r:] + byte[:r] of a string of w digits; slices past an end are cut there.
DigitsLeft(v, w, r) ==
  IF r >= w THEN v ELSE (v % (2 ^ (w - r))) * 2 ^ r + v \div 2 ^ (w - r)
DigitsRight(v, w, r) ==
  IF r >= w THEN v ELSE (v % (2 ^ r)) * 2 ^ (w - r) + v \div 2 ^ r

\* '0' + bin(b)[2:]; a result past 255 raises ValueError in bytes([...]).
PyEncode(o, b) ==
  LET w == Digits(b) + 1
      e == CASE o.op = "~" -> 255 - b
             [] o.op = "r" -> DigitsRight(b, w, o.val)
             [] o.op = "l" -> DigitsLeft(b, w, o.val)
             [] o.op = "^" -> Xor(b, o.val)
  IN IF e > 255 THEN Error ELSE e

\* Wrong form: no digit is added.
PyDecodeBare(o, b) ==
  CASE o.op = "~" -> 255 - b
    [] o.op = "r" -> DigitsLeft(b, Digits(b), o.val)
    [] o.op = "l" -> DigitsRight(b, Digits(b), o.val)
    [] o.op = "^" -> Xor(b, o.val)

\* bin(b)[2:], with one '0' in front when it has fewer than eight digits.
PyDecode(o, b) ==
  LET w == IF Digits(b) < 8 THEN Digits(b) + 1 ELSE 8
  IN CASE o.op = "~" -> 255 - b
       [] o.op = "r" -> DigitsLeft(b, w, o.val)
       [] o.op = "l" -> DigitsRight(b, w, o.val)
       [] o.op = "^" -> Xor(b, o.val)

\* self.plainBytes.decode()
AsText(b) == IF b < 128 THEN {b} ELSE IF Alone THEN {Error} ELSE {b, Error}

-----------------------------------------------------------------------------

EchoInit ==
  /\ co \in Option /\ fo \in Option /\ phrase \in Bytes
  /\ echoPc = "request" /\ wire = Error /\ text = Error /\ echo = Error

\* scrapeMessage: the 0x01.
EncodePhrase ==
  /\ echoPc = "request"
  /\ wire' = CEncode(co, phrase)
  /\ echoPc' = "init"
  /\ UNCHANGED <<co, fo, phrase, text, echo>>

\* decoded = encoder.decode(message); None ends the FSS.
DecodePhrase ==
  /\ echoPc = "init"
  /\ text' \in AsText(PyDecode(fo, wire))
  /\ echoPc' = IF text' = Error THEN "fss ended" ELSE "decoded"
  /\ UNCHANGED <<co, fo, phrase, wire, echo>>

\* recoded = encoder.encode(decoded); an exception, or another result than what was
\* received, ends the FSS; else the 0x02 has recoded.
Recode ==
  LET recoded == PyEncode(fo, text) IN
  /\ echoPc = "decoded"
  /\ IF recoded = wire
       THEN echoPc' = "response" /\ echo' = recoded
       ELSE echoPc' = "fss ended" /\ UNCHANGED echo
  /\ UNCHANGED <<co, fo, phrase, wire, text>>

\* unpackResponse: memcmp(decoded,message,len)
Unpack ==
  /\ echoPc = "response"
  /\ echoPc' = IF CDecode(co, echo) = phrase THEN "valid" ELSE "refused"
  /\ UNCHANGED <<co, fo, phrase, wire, text, echo>>

EchoEnded == echoPc \in {"fss ended", "valid", "refused"} /\ UNCHANGED echoVars

EchoNext == EncodePhrase \/ DecodePhrase \/ Recode \/ Unpack \/ EchoEnded

EchoSpec == EchoInit /\ [][EchoNext]_echoVars

-----------------------------------------------------------------------------

\* The FTS never refuses the answer of an FSS that answers: encoder.c undoes what it
\* does, for every option and every byte.
NoEchoRefused == echoPc # "refused"

\* Where both ends have the same option, the FSS reads what C2 wrote if the option
\* does not rotate or the received byte has its bit 6 or 7 set: the digit that
\* encoder.py puts in front is then all that bin() left out.
ReadRight ==
  (echoPc \in {"decoded", "response", "valid"} /\ co = fo /\ (fo.op \in {"~", "^"} \/ wire >= 64))
    => text = phrase

\* "Catch any errors in the decode/recode process" (FSS.py:154): after the check the
\* decoded phrase is right.
ErrorsCaught == (echoPc \in {"response", "valid"} /\ co = fo) => text = phrase
=============================================================================
