---------------------------- MODULE PatternParse ----------------------------
(***************************************************************************)
(* The encoding pattern of a request on its way through the program: C2    *)
(* validates it (patternValidate in encoder.py), a session of the FTS      *)
(* parses it (scrapePattern and patternValidate in encoder.c), and, if the *)
(* session goes on, C2 builds its Encoder from it (TCPHandler).            *)
(*                                                                         *)
(* A pattern is a sequence of the separators and of texts: operators such  *)
(* as ^3, numbers that an int holds, what begins with one (3x), what only  *)
(* atoi takes for a number (-3), and other text, in ASCII; two texts do    *)
(* not touch.  strtok keeps its place in one pointer for the  *)
(* process, which the sessions share.  A call of strtok is one step, and a *)
(* freed buffer keeps what it held: one of the outcomes of the race.       *)
(***************************************************************************)
EXTENDS Integers, FiniteSets, Sequences

CONSTANTS
  Session,
  Operators,   \* texts that are an operator: ~, ^n, rorn, roln
  PatternsSent \* what the C2s of the sessions send: functions from sessions to sequences
               \* of Texts, ";" and ":"

Number == "num"     \* \d+
Trailing == "3x"    \* digits and more: \d+ matches, which is not anchored at its end
AtoiOnly == "neg"   \* a number for atoi, not for \d+
Other == "bad"
Nul == "NUL"

DigitTexts == {Number, Trailing}
Numeric == DigitTexts \cup {AtoiOnly}
Texts == Operators \cup Numeric \cup {Other}
Semicolon == ";"
Colon == ":"
Separators == {Semicolon, Colon}

ASSUME PatternParseAssumption ==
  /\ Operators \cap (Numeric \cup {Other, Nul} \cup Separators) = {}
  /\ PatternsSent \subseteq [Session -> Seq(Texts \cup Separators)]
  /\ \A f \in PatternsSent, s \in Session : \A i \in 1 .. Len(f[s]) - 1 :
       f[s][i] \in Separators \/ f[s][i + 1] \in Separators

VARIABLES
  pattern,  \* what C2 sent
  parsePc,
  mem,      \* mem[<<s, b>>]: buffer b of session s, "pattern" or "dup" (duppedOpts)
  saved,    \* the pointer of strtok: buffer and place
  opts,     \* parsed->opts: pointers
  op,       \* opVal, NULL or a pointer
  parsed,   \* parsed->ops and lens as far as they are set
  alone     \* auxiliary: no other session called strtok since this one started

parseVars == <<pattern, parsePc, mem, saved, opts, op, parsed, alone>>

Nowhere == [buf |-> <<>>, at |-> 0]
Pointer(b, i) == [buf |-> b, at |-> i]

-----------------------------------------------------------------------------
(* The library. *)

LeastOf(S) == CHOOSE i \in S : \A j \in S : i <= j

\* A call of strtok in memory m with the start or the saved place p: the token, or
\* Nowhere for NULL; where the next call goes on; and the memory, with the delimiter
\* overwritten.
Strtok(m, p, d) ==
  LET c == m[p.buf]
      from == LeastOf({i \in p.at .. Len(c) : c[i] # d})
      end == LeastOf({i \in from .. Len(c) : c[i] \in {d, Nul}})
  IN IF c[from] = Nul
       THEN [tok |-> Nowhere, save |-> Pointer(p.buf, from), mem |-> m]
       ELSE [tok |-> Pointer(p.buf, from),
             save |-> Pointer(p.buf, IF c[end] = Nul THEN end ELSE end + 1),
             mem |-> [m EXCEPT ![p.buf] = [c EXCEPT ![end] = Nul]]]

\* The string at a pointer.
Text(p, m) ==
  LET c == m[p.buf]
      end == LeastOf({i \in p.at .. Len(c) : c[i] = Nul})
  IN SubSeq(c, p.at, end - 1)

\* atoi: the number a text begins with.
Atoi(t) == IF t = Trailing THEN Number ELSE t

-----------------------------------------------------------------------------

\* "connected" and "ended": C2 has built its Encoder, or ended when that raised.
Finished == {"accepted", "rejected", "connected", "ended", "crashed"}

ParseInit ==
  /\ pattern \in PatternsSent
  /\ parsePc = [s \in Session |-> "start"]
  /\ mem = [b \in Session \X {"pattern", "dup"} |->
              IF b[2] = "pattern" THEN Append(pattern[b[1]], Nul) ELSE <<Nul>>]
  /\ saved = Nowhere
  /\ opts = [s \in Session |-> <<>>]
  /\ op = [s \in Session |-> Nowhere]
  /\ parsed = [s \in Session |-> <<>>]
  /\ alone = [s \in Session |-> TRUE]

\* Session s calls strtok: whoever else is parsing is not alone, and is not left alone.
Calls(s) ==
  LET busy == {t \in Session \ {s} : parsePc[t] \notin {"start"} \cup Finished}
  IN alone' = [t \in Session |-> alone[t] /\ t \notin busy /\ (t = s => busy = {})]

\* strtok(pattern,";"), then strtok(NULL,";") until it gives NULL: two options are
\* the least.
SplitOptions(s) ==
  /\ parsePc[s] \in {"start", "split"}
  /\ LET p == IF parsePc[s] = "start" THEN Pointer(<<s, "pattern">>, 1) ELSE saved
         r == Strtok(mem, p, Semicolon) IN
     /\ saved' = r.save /\ mem' = r.mem
     /\ IF r.tok # Nowhere
          THEN /\ opts' = [opts EXCEPT ![s] = Append(@, r.tok)]
               /\ parsePc' = [parsePc EXCEPT ![s] = "split"]
          ELSE /\ parsePc' =
                    [parsePc EXCEPT ![s] = IF Len(opts[s]) < 2 THEN "rejected" ELSE "option"]
               /\ UNCHANGED opts
  /\ Calls(s)
  /\ UNCHANGED <<pattern, op, parsed>>

\* duppedOpts = strdup(parsed->opts[i]); opVal = strtok(duppedOpts,":")
TakeOperator(s) ==
  LET b == <<s, "dup">>
      dup == Append(Text(opts[s][Len(parsed[s]) + 1], mem), Nul)
      r == Strtok([mem EXCEPT ![b] = dup], Pointer(b, 1), Colon)
  IN
  /\ parsePc[s] = "option"
  /\ op' = [op EXCEPT ![s] = r.tok]
  /\ saved' = r.save /\ mem' = r.mem
  /\ parsePc' = [parsePc EXCEPT ![s] = "length"]
  /\ Calls(s)
  /\ UNCHANGED <<pattern, opts, parsed>>

\* len = strtok(NULL,":"); atoi must find a number.
TakeLength(s) ==
  LET r == Strtok(mem, saved, Colon) IN
  /\ parsePc[s] = "length"
  /\ saved' = r.save /\ mem' = r.mem
  /\ IF r.tok # Nowhere /\ Text(r.tok, r.mem)[1] \in Numeric
       THEN /\ parsed' = [parsed EXCEPT ![s] = Append(@, <<Other, Atoi(Text(r.tok, r.mem)[1])>>)]
            /\ parsePc' = [parsePc EXCEPT ![s] = "end"]
       ELSE parsePc' = [parsePc EXCEPT ![s] = "rejected"] /\ UNCHANGED parsed
  /\ Calls(s)
  /\ UNCHANGED <<pattern, opts, op>>

\* Wrong form: more fields are not looked for.
GoodOptionAnyFields(s, tok) == Text(op[s], mem) \in {<<o>> : o \in Operators}

\* strtok(NULL,":") gives NULL, and the operator is one of the four.
GoodOption(s, tok) == tok = Nowhere /\ Text(op[s], mem) \in {<<o>> : o \in Operators}

\* Wrong form: the first option is the last to be looked at.
LastOptionFirst(s) == Len(parsed[s]) >= 1

LastOption(s) == Len(parsed[s]) = Len(opts[s])

CheckOption(s) ==
  LET r == Strtok(mem, saved, Colon)
      i == Len(parsed[s])
  IN
  /\ parsePc[s] = "end"
  /\ r.tok # Nowhere \/ op[s] # Nowhere
  /\ saved' = r.save /\ mem' = r.mem
  /\ IF GoodOption(s, r.tok)
       THEN /\ parsed' = [parsed EXCEPT ![s] =
                           [@ EXCEPT ![i] = <<Text(op[s], mem)[1], parsed[s][i][2]>>]]
            /\ parsePc' = [parsePc EXCEPT ![s] = IF LastOption(s) THEN "accepted" ELSE "option"]
       ELSE parsePc' = [parsePc EXCEPT ![s] = "rejected"] /\ UNCHANGED parsed
  /\ Calls(s)
  /\ UNCHANGED <<pattern, opts, op>>

\* strncmp(opVal,"^",1) of NULL ends the process, with all its sessions.
NullOperator(s) ==
  /\ parsePc[s] = "end" /\ op[s] = Nowhere /\ Strtok(mem, saved, Colon).tok = Nowhere
  /\ parsePc' = [t \in Session |-> "crashed"]
  /\ UNCHANGED <<pattern, mem, saved, opts, op, parsed, alone>>

-----------------------------------------------------------------------------
(* encoder.py. *)

\* The k-th place of a set, the end of the piece that starts at i, and the pieces of str
\* that start at the places of a set.
Nth(S, k) == CHOOSE i \in S : Cardinality({j \in S : j <= i}) = k
EndOf(str, d, i) == LeastOf({j \in i .. Len(str) + 1 : j = Len(str) + 1 \/ str[j] = d})
Pieces(str, d, S) ==
  [k \in 1 .. Cardinality(S) |-> SubSeq(str, Nth(S, k), EndOf(str, d, Nth(S, k)) - 1)]

\* str.split(d): every separator separates.
Places(str, d) == {i \in 1 .. Len(str) + 1 : i > 1 => str[i - 1] = d}
Split(str, d) == Pieces(str, d, Places(str, d))

PyOptions(str) == [i \in DOMAIN Split(str, Semicolon) |-> Split(Split(str, Semicolon)[i], Colon)]

\* patternValidate: two options or more, each of which begins with operator:digits.
PyValid(str) ==
  LET o == PyOptions(str) IN
  /\ Len(o) >= 2
  /\ \A i \in DOMAIN o : Len(o[i]) >= 2 /\ o[i][1] \in {<<x>> : x \in Operators}
                                        /\ o[i][2] \in {<<t>> : t \in DigitTexts}

\* Encoder.__init__ does not raise: two options, of two fields each.
PyEncoder(str) ==
  LET o == PyOptions(str) IN Len(o) = 2 /\ \A i \in DOMAIN o : Len(o[i]) = 2

\* The FTS has answered: TCPHandler(ftsAddr,tcpPort,pattern,verbose) in C2.py, whose
\* pattern passed patternValidate when it was entered.
Connect(s) ==
  /\ parsePc[s] = "accepted" /\ PyValid(pattern[s])
  /\ parsePc' = [parsePc EXCEPT ![s] = IF PyEncoder(pattern[s]) THEN "connected" ELSE "ended"]
  /\ UNCHANGED <<pattern, mem, saved, opts, op, parsed, alone>>

AllFinished == (\A s \in Session : parsePc[s] \in Finished) /\ UNCHANGED parseVars

ParseNext ==
  \/ \E s \in Session :
       SplitOptions(s) \/ TakeOperator(s) \/ TakeLength(s) \/ CheckOption(s)
       \/ NullOperator(s) \/ Connect(s)
  \/ AllFinished

ParseSpec == ParseInit /\ [][ParseNext]_parseVars

-----------------------------------------------------------------------------

\* What the separators mean to the FTS: empty options and fields do not count.
Starts(str, d) == {i \in Places(str, d) \cap DOMAIN str : str[i] # d}
Fields(str, d) == Pieces(str, d, Starts(str, d))
CMeaning(str) ==
  LET o == Fields(str, Semicolon) IN [i \in DOMAIN o |-> Fields(o[i], Colon)]
CValid(str) ==
  LET o == CMeaning(str) IN
  /\ Len(o) >= 2
  /\ \A i \in DOMAIN o : /\ Len(o[i]) = 2
                         /\ o[i][1] \in {<<x>> : x \in Operators}
                         /\ o[i][2] \in {<<t>> : t \in Numeric}
CParsed(str) ==
  [i \in DOMAIN CMeaning(str) |-> <<CMeaning(str)[i][1][1], Atoi(CMeaning(str)[i][2][1])>>]

Parsed(s) == parsePc[s] \in Finished \ {"rejected", "crashed"}

\* A session that parses by itself gets exactly the options of its pattern, whatever
\* place strtok was left at by the sessions before; and as long as all do, no pattern
\* gets as far as the comparison of an operator that is not there.
RightAlone ==
  /\ \A s \in Session : alone[s] =>
       /\ Parsed(s) => CValid(pattern[s]) /\ parsed[s] = CParsed(pattern[s])
       /\ parsePc[s] = "rejected" => ~CValid(pattern[s])
  /\ (\E s \in Session : parsePc[s] = "crashed") => \E s \in Session : ~alone[s]

\* The two parsers agree: a pattern that C2 and its Encoder take is taken by the FTS,
\* as the same operators and with the digits that \d+ matched for lengths.  (What the
\* Encoder keeps of 3x is 3x, at which int() would raise: C2 never encodes.)
AgreesWithPython ==
  \A s \in Session :
    (/\ alone[s] /\ parsePc[s] \in Finished \ {"crashed"}
     /\ PyValid(pattern[s]) /\ PyEncoder(pattern[s]))
      => /\ Parsed(s)
         /\ parsed[s] = [i \in 1 .. 2 |-> <<PyOptions(pattern[s])[i][1][1],
                                            Atoi(PyOptions(pattern[s])[i][2][1])>>]
=============================================================================
