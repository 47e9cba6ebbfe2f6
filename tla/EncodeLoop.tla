----------------------------- MODULE EncodeLoop -----------------------------
(***************************************************************************)
(* Which option of the pattern codes which byte: the loop of encode and of *)
(* decode in encoder.c and in encoder.py, for one string.                  *)
(*                                                                         *)
(* A pattern is given by the cumulated lengths of its options: option j    *)
(* codes the bytes start[j] .. start[j + 1] - 1 of every round.  What an   *)
(* option does to a byte is in PhraseEcho.  The two functions of one file  *)
(* differ in nothing else, so one model stands for both.                   *)
(***************************************************************************)
EXTENDS Integers, Sequences

CONSTANTS
  Options,   \* numbers of options a pattern may have
  Lengths,   \* values of a cumulated length
  Sizes      \* lengths of the string: strlen(data), len(self.plainBytes)

ASSUME EncodeLoopAssumption ==
  /\ Options \subseteq Nat \ {0}
  /\ Lengths \subseteq Nat
  /\ Sizes \subseteq Nat

VARIABLES
  lang,      \* whose loop: "C" or "Python"
  n,         \* parsed->numOpts, len(self.ops)
  start,     \* the pattern
  size,      \* length of the string
  pc, opt, count,
  out,       \* out[i]: the option that coded byte i - 1; its length is done, or index
  nul        \* the result was terminated by encoded[size] = '\0'

given == <<lang, n, start, size>>
vars == <<given, pc, opt, count, out, nul>>

\* Parsing leaves lens[numOpts] = 0 and ops[numOpts] = 0: the loop of the C code
\* passes through an option of length 0 that is not in the pattern.
Len0(j) == IF j < n THEN start[j + 1] - start[j] ELSE 0

\* One round of the pattern.
Total == start[n]

Done == Len(out)

Patterns(k) ==
  {s \in [0 .. k -> Lengths] : s[0] = 0 /\ \A i, j \in 0 .. k : i <= j => s[i] <= s[j]}

Init ==
  /\ lang \in {"C", "Python"}
  /\ n \in Options
  /\ lang = "Python" => n = 2
  /\ start \in Patterns(n)
  /\ size \in Sizes
  /\ pc = "outer" /\ opt = 0 /\ count = 0 /\ out = <<>> /\ nul = FALSE

\* while (done < size) ... encoded[size] = '\0'; return encoded
\* Python starts each round at option 0.
Outer ==
  /\ pc = "outer"
  /\ count' = 0
  /\ IF Done < size
       THEN /\ pc' = "inner"
            /\ opt' = IF lang = "C" THEN opt ELSE 0
            /\ UNCHANGED nul
       ELSE pc' = "returned" /\ nul' = TRUE /\ UNCHANGED opt
  /\ UNCHANGED <<given, out>>

\* Wrong form: the byte after the last counts as the last.
PastEndEarly == IF lang = "C" THEN Done + 1 >= size ELSE Done = size
\* Wrong form: no test.
PastEndNever == Done < 0

\* Nothing is left to code inside an option: if (done > size), after the NUL itself
\* was coded; in Python, self.plainBytes[index] raises IndexError.
PastEnd == IF lang = "C" THEN Done > size ELSE Done = size

\* One byte: encoded[done] = ...; done += 1
Byte ==
  /\ pc = "inner" /\ count < Len0(opt) /\ ~PastEnd
  /\ out' = Append(out, opt)
  /\ count' = count + 1
  /\ UNCHANGED <<given, pc, opt, nul>>

\* The early return of the C code; Python breaks out of the round.
Stop ==
  /\ pc = "inner" /\ count < Len0(opt) /\ PastEnd
  /\ pc' = IF lang = "C" THEN "returned" ELSE "outer"
  /\ UNCHANGED <<given, opt, count, out, nul>>

\* Wrong form: the wrap forgets to go back.
NextOptStuck == IF opt < n THEN opt + 1 ELSE opt
\* Wrong form: the wrap goes back to option 1.
NextOptSkips == IF opt >= n THEN 1 ELSE opt + 1

\* currOpt += 1; if (currOpt > parsed->numOpts) currOpt = 0
NextOpt == IF opt + 1 > n THEN 0 ELSE opt + 1

\* The option is used up.  for i in (0,1) ends the round after the last one.
OptionEnds ==
  /\ pc = "inner" /\ count >= Len0(opt)
  /\ count' = 0
  /\ IF lang = "C" \/ opt + 1 = n
       THEN pc' = "outer" /\ opt' = NextOpt
       ELSE pc' = "inner" /\ opt' = opt + 1
  /\ UNCHANGED <<given, out, nul>>

Returned == pc = "returned" /\ UNCHANGED vars

Next == Outer \/ Byte \/ Stop \/ OptionEnds \/ Returned

Spec == Init /\ [][Next]_vars

\* Sequential code: the loop goes on as long as it can.
FairSpec == Spec /\ WF_vars(Next)

-----------------------------------------------------------------------------

\* Types.  encoded and data have size + 1 bytes, ops and vals room for option n:
\* the overrun of the C loop stays inside them.
TypeOK ==
  /\ lang \in {"C", "Python"} /\ n \in Nat \ {0} /\ size \in Nat
  /\ start \in [0 .. n -> Nat]
  /\ pc \in {"outer", "inner", "returned"}
  /\ opt \in 0 .. n
  /\ count \in Nat
  /\ out \in Seq(0 .. n - 1)
  /\ Done <= (IF lang = "C" THEN size + 1 ELSE size)
  /\ nul \in BOOLEAN

\* The pattern says that option j codes byte i.
Codes(j, i) ==
  \E k \in 0 .. i : k * Total + start[j] <= i /\ i < k * Total + start[j + 1]

\* Both languages use, for each byte, the option the pattern gives for its place,
\* though one passes through an option that does not exist and the other does not:
\* what one end encodes the other decodes with the same operation.
Scheduled == \A i \in 1 .. Done : Codes(out[i], i - 1)

\* A loop that returns has coded every byte; and what it returns ends with a NUL,
\* unless the loop went on to code the NUL of the string with the rest of its option,
\* and returned from there (encoder.c:205 asks for more than size).
Complete == pc = "returned" => (Done >= size /\ (nul \/ Done > size))

\* "Returns encoded string if successful": it does, for a pattern that codes something.
Returns == (Total > 0) => <>(pc = "returned")
=============================================================================
