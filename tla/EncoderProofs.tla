--------------------------- MODULE EncoderProofs ---------------------------
(***************************************************************************)
(* Theorems about the coding functions of encoder.c and encoder.py.        *)
(*                                                                         *)
(* EncodeLoop, for every pattern and every length of the string: the loop  *)
(* stays inside its arrays, uses the option the pattern gives, and returns *)
(* only when every byte is coded.  PhraseEcho, for every byte and every    *)
(* option of either end: what is echoed is accepted, and what is read.     *)
(* LogLine, for any strings of bytes: decode64 prints the entry that       *)
(* encode64 wrote, inside what it allocates.                               *)
(***************************************************************************)
EXTENDS EncodeLoop, PhraseEcho, LogLine, SequenceTheorems, TLAPS

(* EncodeLoop: what the pattern is, and where the loop stands in it. *)
PatternOK ==
  /\ start[0] = 0
  /\ \A i, j \in 0 .. n : i <= j => start[i] <= start[j]

\* k whole rounds and m bytes of the next one are behind.
Reached(m) == \E k \in Nat : k * Total + m = Done

Place ==
  /\ pc = "inner" => Reached(start[opt] + count) /\ count <= Len0(opt)
  /\ pc = "inner" /\ lang = "Python" => opt < n
  /\ pc = "outer" => Done >= size \/ Reached(start[opt])
  /\ pc = "outer" /\ lang = "Python" => Done >= size \/ opt \in {0, n}

(* The two halves of TypeOK: numbers, and Booleans. *)
Numbers ==
  /\ lang \in {"C", "Python"} /\ n \in Nat \ {0} /\ size \in Nat
  /\ start \in [0 .. n -> Nat]
  /\ pc \in {"outer", "inner", "returned"}
  /\ opt \in 0 .. n
  /\ count \in Nat
  /\ out \in Seq(0 .. n - 1)
  /\ Done <= (IF lang = "C" THEN size + 1 ELSE size)

Flags == nul \in BOOLEAN

IInv == TypeOK /\ PatternOK /\ Place /\ Scheduled /\ Complete

-----------------------------------------------------------------------------
(* EncodeLoop: rounds. *)

\* A later round starts at least one length of the pattern later.
LEMMA LaterRound ==
  ASSUME NEW k \in Nat, NEW l \in Nat, NEW t \in Nat, k < l
  PROVE  k * t + t <= l * t
<1>1. PICK d \in Nat : l = k + 1 + d
  <2>1. l - k - 1 \in Nat /\ l = k + 1 + (l - k - 1)
    BY SMT
  <2> QED BY <2>1
<1>2. (k + 1 + d) * t = k * t + t + d * t
  BY SMT
<1>3. d * t \in Nat
  BY SMT
<1>4. k * t \in Nat
  BY SMT
<1> QED BY <1>1, <1>2, <1>3, <1>4, SMT

\* The number of rounds done is at most the number of bytes done.
LEMMA RoundsBound ==
  ASSUME NEW k \in Nat, NEW t \in Nat, t >= 1
  PROVE  k <= k * t
<1>1. PICK d \in Nat : t = d + 1
  <2>1. t - 1 \in Nat /\ t = (t - 1) + 1
    BY SMT
  <2> QED BY <2>1
<1>2. k * (d + 1) = k * d + k
  BY SMT
<1>3. k * d \in Nat
  BY SMT
<1> QED BY <1>1, <1>2, <1>3, SMT

\* The pattern gives one option for each byte: encode and decode, in C and in Python,
\* which all are Scheduled, use the same one.
THEOREM OneOption ==
  ASSUME TypeOK, PatternOK, NEW i \in Nat,
         NEW j \in 0 .. n - 1, NEW l \in 0 .. n - 1, Codes(j, i), Codes(l, i)
  PROVE  j = l
<1> DEFINE t == Total
<1>1. /\ n \in Nat \ {0} /\ t \in Nat
      /\ start[j] \in Nat /\ start[j + 1] \in Nat /\ start[l] \in Nat /\ start[l + 1] \in Nat
  BY DEF TypeOK, Total
<1>2. start[j + 1] <= t /\ start[l + 1] <= t
  BY <1>1 DEF PatternOK, Total
<1>3. PICK p \in 0 .. i : p * t + start[j] <= i /\ i < p * t + start[j + 1]
  BY DEF Codes
<1>4. PICK q \in 0 .. i : q * t + start[l] <= i /\ i < q * t + start[l + 1]
  BY DEF Codes
<1>5. p * t \in Nat /\ q * t \in Nat
  BY <1>1, SMT
<1> HIDE DEF t
<1>6. p = q
  <2>1. p \in Nat /\ q \in Nat
    OBVIOUS
  <2>2. CASE p < q
    <3>1. p * t + t <= q * t
      BY <2>1, <2>2, <1>1, LaterRound
    <3> QED BY <3>1, <1>1, <1>2, <1>3, <1>4, <1>5, SMT
  <2>3. CASE q < p
    <3>1. q * t + t <= p * t
      BY <2>1, <2>3, <1>1, LaterRound
    <3> QED BY <3>1, <1>1, <1>2, <1>3, <1>4, <1>5, SMT
  <2> QED BY <2>1, <2>2, <2>3, SMT
<1>7. CASE j < l
  <2>1. start[j + 1] <= start[l]
    BY <1>7, <1>1 DEF PatternOK
  <2> QED BY <2>1, <1>1, <1>3, <1>4, <1>5, <1>6, SMT
<1>8. CASE l < j
  <2>1. start[l + 1] <= start[j]
    BY <1>8, <1>1 DEF PatternOK
  <2> QED BY <2>1, <1>1, <1>3, <1>4, <1>5, <1>6, SMT
<1> QED BY <1>1, <1>7, <1>8, SMT

-----------------------------------------------------------------------------
(* EncodeLoop: the invariant. *)

\* TypeOK is its numbers and its flags.
LEMMA Halves == TypeOK <=> Numbers /\ Flags
BY Zenon DEF TypeOK, Numbers, Flags

\* No step takes a flag out of BOOLEAN.
LEMMA FlagsStay == Flags /\ Next => Flags'
BY Zenon DEF Flags, Next, Outer, Byte, Stop, OptionEnds, Returned, given, vars

\* The invariant holds when encode() has set its locals.
LEMMA InitIInv == Init => IInv
<1> SUFFICES ASSUME Init PROVE IInv
  OBVIOUS
<1>1. TypeOK
  <2>1. Numbers
    BY EncodeLoopAssumption DEF Init, Numbers, Patterns, Done
  <2>2. Flags
    BY Zenon DEF Init, Flags
  <2> QED BY <2>1, <2>2, Halves
<1>2. PatternOK
  BY DEF Init, PatternOK, Patterns
<1>3. Reached(start[opt])
  <2>1. 0 * Total + start[opt] = Done
    BY <1>1, <1>2 DEF Init, TypeOK, PatternOK, Total, Done
  <2> QED BY <2>1 DEF Reached
<1>4. Place /\ Scheduled /\ Complete
  BY <1>3 DEF Init, Place, Scheduled, Complete, Done
<1> QED BY <1>1, <1>2, <1>4 DEF IInv

\* Nothing that is given changes, so neither does what is said of it alone.
LEMMA GivenStays ==
  ASSUME PatternOK, Scheduled, UNCHANGED given, UNCHANGED out
  PROVE  PatternOK' /\ Scheduled'
BY DEF PatternOK, Scheduled, Codes, Total, Done, given

\* The head of the outer loop keeps the invariant.
LEMMA OuterIInv == IInv /\ Outer => IInv'
<1> SUFFICES ASSUME IInv, Outer PROVE IInv'
  OBVIOUS
<1>1. TypeOK' /\ PatternOK' /\ Scheduled' /\ Complete'
  <2>1. TypeOK'
    <3>1. Numbers /\ Flags
      BY Halves DEF IInv
    <3>2. Numbers'
      BY <3>1 DEF Outer, Numbers, Done, given
    <3>3. Flags'
      BY <3>1, FlagsStay, Zenon DEF Next
    <3> QED BY <3>2, <3>3, Zenon DEF TypeOK, Numbers, Flags
  <2>2. PatternOK' /\ Scheduled'
    BY GivenStays DEF IInv, Outer
  <2>3. Complete'
    <3>1. CASE Done < size
      BY <3>1 DEF Outer, Complete
    <3>2. CASE ~(Done < size)
      <4>1. nul'
        BY <3>2, Zenon DEF Outer
      <4>2. (Done >= size)'
        BY <3>2 DEF IInv, TypeOK, Outer, Done, given
      <4> QED BY <4>1, <4>2, Zenon DEF Complete
    <3> QED BY <3>1, <3>2
  <2> QED BY <2>1, <2>2, <2>3
<1>2. Place'
  <2>1. CASE Done < size
    <3>1. PICK k \in Nat : k * Total + start[opt] = Done
      BY <2>1 DEF IInv, Place, Outer, Reached, TypeOK, Done
    <3>2. start[opt] \in Nat /\ Total \in Nat /\ opt \in 0 .. n /\ n \in Nat \ {0}
      BY DEF IInv, TypeOK, Total
    <3>3. Len0(opt') >= 0 /\ count' = 0 /\ pc' = "inner"
      BY <2>1, <3>2 DEF IInv, TypeOK, PatternOK, Outer, Len0
    <3>4. \E l \in Nat : l * Total + start[opt'] = Done
      <4>1. CASE lang = "C"
        BY <4>1, <2>1, <3>1 DEF Outer
      <4>2. CASE lang # "C" /\ opt = 0
        BY <4>2, <2>1, <3>1 DEF Outer
      <4>3. CASE lang # "C" /\ opt = n
        <5>1. (k + 1) * Total = k * Total + Total
          BY <3>2, SMT
        <5>2. (k + 1) * Total + start[opt'] = Done
          BY <4>3, <5>1, <2>1, <3>1, <3>2 DEF Outer, IInv, PatternOK, Total
        <5> QED BY <5>2
      <4> QED BY <4>1, <4>2, <4>3, <2>1 DEF IInv, TypeOK, Place, Outer, Done
    <3>5. Reached(start[opt] + count)'
      <4>1. start[opt'] \in Nat
        BY <3>2, <2>1 DEF IInv, TypeOK, Outer
      <4>2. (start[opt] + count)' = start[opt']
        BY <4>1, <3>3 DEF Outer, given
      <4>3. Total' = Total /\ Done' = Done
        BY DEF Outer, Total, Done, given
      <4> QED BY <3>4, <4>2, <4>3 DEF Reached
    <3>6. (lang = "Python" => opt < n)'
      BY <2>1, <3>2 DEF Outer, given
    <3>7. (Len0(opt))' = Len0(opt')
      BY DEF Len0, Outer, given
    <3> QED BY <3>3, <3>5, <3>6, <3>7 DEF Place
  <2>2. CASE ~(Done < size)
    BY <2>2 DEF Outer, Place
  <2> QED BY <2>1, <2>2
<1> QED BY <1>1, <1>2 DEF IInv

\* A byte that is encoded keeps the invariant.
LEMMA ByteIInv == IInv /\ Byte => IInv'
<1> SUFFICES ASSUME IInv, Byte PROVE IInv'
  OBVIOUS
<1>1. /\ n \in Nat \ {0} /\ opt \in 0 .. n - 1 /\ count \in Nat /\ Done \in Nat
      /\ start[opt] \in Nat /\ start[opt + 1] \in Nat /\ Total \in Nat
      /\ start[opt] + count < start[opt + 1] /\ start[opt + 1] <= Total
  BY DEF IInv, TypeOK, PatternOK, Byte, Len0, Total, Done
<1>2. /\ out \in Seq(0 .. n - 1) /\ out' \in Seq(0 .. n - 1) /\ Done' = Done + 1
      /\ out'[Done + 1] = opt
      /\ \A i \in 1 .. Done : out'[i] = out[i]
  BY <1>1 DEF IInv, TypeOK, Byte, Done
<1>3. TypeOK'
  <2>1. Numbers /\ Flags
    BY Halves DEF IInv
  <2>2. Numbers'
    <3>1. Done + 1 <= (IF lang = "C" THEN size + 1 ELSE size)
      BY <2>1, <1>1 DEF Numbers, Byte, PastEnd
    <3>2. opt' = opt /\ opt \in 0 .. n /\ count' \in Nat
      BY <2>1, <1>1 DEF Numbers, Byte
    <3> QED BY <2>1, <3>1, <3>2, <1>2, Zenon DEF Numbers, Byte, given
  <2>3. Flags'
    BY <2>1, FlagsStay, Zenon DEF Next
  <2> QED BY <2>2, <2>3, Zenon DEF TypeOK, Numbers, Flags
<1>4. PICK k \in Nat : k * Total + (start[opt] + count) = Done
  BY DEF IInv, Place, Byte, Reached
<1>5. k * Total \in Nat /\ k <= k * Total
  BY <1>1, RoundsBound, SMT
<1>6. k \in 0 .. Done /\ k * Total + start[opt] <= Done /\ Done < k * Total + start[opt + 1]
  BY <1>1, <1>4, <1>5, SMT
<1>7. Codes(opt, Done)
  BY <1>6 DEF Codes
<1>8. PatternOK'
  BY DEF IInv, PatternOK, Byte, given
<1>9. Scheduled'
  <2>1. \A j, i : Codes(j, i)' = Codes(j, i)
    BY DEF Codes, Total, Byte, given
  <2>2. SUFFICES ASSUME NEW i \in 1 .. Done + 1 PROVE Codes(out'[i], i - 1)
    BY <1>2, <2>1 DEF Scheduled
  <2>3. CASE i = Done + 1
    BY <2>3, <1>1, <1>2, <1>7
  <2>4. CASE i \in 1 .. Done
    BY <2>4, <1>2 DEF IInv, Scheduled
  <2> QED BY <2>3, <2>4, <1>1
<1>10. Place'
  <2>1. k * Total + (start[opt] + (count + 1)) = Done + 1
    BY <1>1, <1>4, <1>5, SMT
  <2>2. Reached(start[opt] + count)'
    BY <2>1, <1>2 DEF Reached, Total, Byte, given
  <2>3. (count <= Len0(opt))'
    BY <1>1 DEF Byte, Len0, given, IInv, TypeOK
  <2> QED BY <2>2, <2>3, <1>1 DEF Place, Byte, given
<1>11. Complete'
  BY DEF Complete, Byte
<1> QED BY <1>3, <1>8, <1>9, <1>10, <1>11 DEF IInv

\* A byte that ends an option keeps the invariant.
LEMMA StopIInv == IInv /\ Stop => IInv'
<1> SUFFICES ASSUME IInv, Stop PROVE IInv'
  OBVIOUS
<1>1. TypeOK'
  <2>1. Numbers /\ Flags
    BY Halves DEF IInv
  <2>2. Numbers'
    BY <2>1 DEF Numbers, Stop, Done, given
  <2>3. Flags'
    BY <2>1, FlagsStay, Zenon DEF Next
  <2> QED BY <2>2, <2>3, Zenon DEF TypeOK, Numbers, Flags
<1>2. PatternOK' /\ Scheduled'
  BY GivenStays DEF IInv, Stop
<1>3. Done >= size /\ Done' = Done /\ size' = size
  BY DEF IInv, TypeOK, Stop, PastEnd, Done, given
<1>4. /\ pc' \in {"returned", "outer"} /\ (Done >= size)'
      /\ pc' = "returned" => (Done > size)'
  <2>1. pc' = "returned" => Done > size
    BY DEF Stop, PastEnd
  <2> QED BY <2>1, <1>3 DEF Stop
<1>5. Place'
  BY <1>4 DEF Place
<1>6. Complete'
  BY <1>4, Zenon DEF Complete
<1> QED BY <1>1, <1>2, <1>5, <1>6 DEF IInv

\* The end of the last option keeps the invariant.
LEMMA OptionEndsIInv == IInv /\ OptionEnds => IInv'
<1> SUFFICES ASSUME IInv, OptionEnds PROVE IInv'
  OBVIOUS
<1>1. /\ n \in Nat \ {0} /\ opt \in 0 .. n /\ count \in Nat /\ Done \in Nat
      /\ start[opt] \in Nat /\ Total \in Nat /\ Total = start[n]
      /\ count = Len0(opt) /\ start[0] = 0
      /\ opt < n => start[opt + 1] \in Nat
  <2>1. /\ n \in Nat \ {0} /\ opt \in 0 .. n /\ count \in Nat /\ Done \in Nat
        /\ start \in [0 .. n -> Nat] /\ start[0] = 0
    BY DEF IInv, TypeOK, PatternOK, Done
  <2>2. count <= Len0(opt) /\ count >= Len0(opt)
    BY DEF IInv, Place, OptionEnds
  <2>3. Len0(opt) \in Int
    BY <2>1 DEF Len0
  <2> QED BY <2>1, <2>2, <2>3 DEF Total
<1>2. PICK k \in Nat : k * Total + (start[opt] + count) = Done
  BY DEF IInv, Place, OptionEnds, Reached
<1>3. k * Total \in Nat /\ (k + 1) * Total = k * Total + Total
  BY <1>1, SMT
<1>4. opt' \in 0 .. n /\ count' = 0 /\ Done' = Done /\ Total' = Total
  <2>1. lang = "Python" => opt < n
    BY DEF IInv, Place, OptionEnds
  <2>2. lang \in {"C", "Python"}
    BY DEF IInv, TypeOK
  <2>3. opt' \in 0 .. n
    BY <2>1, <2>2, <1>1 DEF OptionEnds, NextOpt
  <2> QED BY <2>3 DEF OptionEnds, Done, Total, given
<1>5. \E l \in Nat : l * Total + start[opt'] = Done
  <2>1. CASE opt < n
    <3>1. opt' = opt + 1
      BY <1>1, <2>1 DEF OptionEnds, NextOpt
    <3>2. start[opt] + count = start[opt + 1]
      BY <1>1, <2>1 DEF Len0
    <3> QED BY <3>1, <3>2, <1>2
  <2>2. CASE opt = n
    <3>1. lang = "C" /\ opt' = 0
      BY <1>1, <2>2 DEF IInv, TypeOK, Place, OptionEnds, NextOpt
    <3>2. count = 0
      BY <1>1, <2>2 DEF Len0
    <3>3. (k + 1) * Total + start[opt'] = Done
      BY <1>1, <1>2, <1>3, <2>2, <3>1, <3>2, SMT
    <3> QED BY <3>3
  <2> QED BY <1>1, <2>1, <2>2
<1>6. TypeOK'
  <2>1. Numbers /\ Flags
    BY Halves DEF IInv
  <2>2. Numbers'
    BY <2>1, <1>4 DEF Numbers, OptionEnds, Done, given
  <2>3. Flags'
    BY <2>1, FlagsStay, Zenon DEF Next
  <2> QED BY <2>2, <2>3, Zenon DEF TypeOK, Numbers, Flags
<1>7. PatternOK' /\ Scheduled'
  BY GivenStays DEF IInv, OptionEnds
<1>8. Reached(start[opt])' /\ Reached(start[opt] + count)'
  <2>1. start' = start /\ start[opt'] \in Nat
    BY <1>4 DEF OptionEnds, given, IInv, TypeOK
  <2>2. (start[opt] + count)' = start[opt'] /\ (start[opt])' = start[opt']
    BY <1>4, <2>1
  <2> QED BY <1>4, <1>5, <2>2 DEF Reached
<1>9. (count <= Len0(opt))'
  <2>1. \A j \in 0 .. n : 0 <= Len0(j)
    BY <1>1 DEF IInv, TypeOK, PatternOK, Len0
  <2>2. (Len0(opt))' = Len0(opt')
    BY DEF Len0, OptionEnds, given
  <2> QED BY <1>4, <2>1, <2>2
<1>10. Place'
  <2>1. (pc = "inner" /\ lang = "Python" => opt < n)'
    BY <1>1, <1>4 DEF IInv, Place, TypeOK, OptionEnds, given
  <2>2. (pc = "outer" /\ lang = "Python" => Done >= size \/ opt \in {0, n})'
    BY <1>1, <1>4 DEF IInv, Place, TypeOK, OptionEnds, NextOpt, given
  <2> QED BY <1>8, <1>9, <2>1, <2>2 DEF Place
<1>11. Complete'
  BY DEF Complete, OptionEnds
<1> QED BY <1>6, <1>7, <1>10, <1>11 DEF IInv

\* A stutter keeps the invariant.
LEMMA StutterIInv == IInv /\ UNCHANGED vars => IInv'
BY DEF IInv, TypeOK, PatternOK, Place, Reached, Scheduled, Codes, Complete, Total, Done, Len0,
       vars, given

\* The invariant of encode() holds in every reachable state, for every pattern and length.
THEOREM Invariance == Spec => []IInv
<1>1. IInv /\ [Next]_vars => IInv'
  BY OuterIInv, ByteIInv, StopIInv, OptionEndsIInv, StutterIInv DEF Next, Returned
<1> QED BY InitIInv, <1>1, PTL DEF Spec

-----------------------------------------------------------------------------
(* EncodeLoop: the results. *)

\* encode and decode write inside what they allocated, whatever the pattern's lengths
\* and the size of the string.
THEOREM InBounds == Spec => []TypeOK
BY Invariance, PTL DEF IInv

\* Every byte is coded by the option the pattern gives for its place.
THEOREM SchedulePrescribed == Spec => []Scheduled
BY Invariance, PTL DEF IInv

\* No return, early or not, leaves a byte uncoded, or a result without an end other than
\* the coded NUL.
THEOREM NothingLeft == Spec => []Complete
BY Invariance, PTL DEF IInv

-----------------------------------------------------------------------------
(* EncodeLoop: why the loop ends.                                          *)

\* The options the loop goes through before the next byte: those up to the end of the
\* round, and when all that are left have no byte to code, those of a second round.
Passed == start[opt] + (IF pc = "inner" THEN count ELSE 0)
Ahead == (n - opt) + (IF Passed = Total THEN n + 1 ELSE 0)

\* The steps before the next byte, or the return.
Rank ==
  IF pc = "returned" THEN 0
  ELSE IF pc = "inner" THEN 2 * Ahead
  ELSE IF Done >= size THEN 1 ELSE 2 * Ahead + 1

\* A step codes a byte, or comes closer to the next one.
Advances == (Total > 0 /\ pc # "returned") => (Done' > Done \/ (Done' = Done /\ Rank' < Rank))

\* The types of what the rank is made of.
LEMMA RankFacts ==
  ASSUME IInv
  PROVE  /\ n \in Nat \ {0} /\ opt \in 0 .. n /\ Total \in Nat /\ Done \in Nat /\ size \in Nat
         /\ Passed \in Nat /\ Ahead \in 0 .. 2 * n + 1 /\ Rank \in 0 .. 4 * n + 3
         /\ opt = n => Passed >= Total
         /\ pc = "inner" => Ahead >= 1
<1>1. /\ n \in Nat \ {0} /\ opt \in 0 .. n /\ Total \in Nat /\ Done \in Nat /\ size \in Nat
      /\ start[opt] \in Nat /\ count \in Nat
  BY DEF IInv, TypeOK, Total, Done
<1>2. Passed \in Nat /\ (opt = n => Passed >= Total)
  BY <1>1 DEF Passed, Total
<1>3. Ahead \in 0 .. 2 * n + 1
  BY <1>1, <1>2 DEF Ahead
<1>4. Rank \in 0 .. 4 * n + 3
  BY <1>1, <1>3 DEF Rank
<1>5. ASSUME pc = "inner" PROVE Ahead >= 1
  <2>1. CASE opt < n
    BY <1>1, <2>1 DEF Ahead
  <2>2. CASE opt = n
    <3>1. count = 0
      BY <1>1, <1>5, <2>2 DEF IInv, Place, Len0
    <3>2. Passed = Total
      BY <1>1, <1>5, <2>2, <3>1 DEF Passed, Total
    <3> QED
      BY <1>1, <2>2, <3>2 DEF Ahead
  <2> QED
    BY <1>1, <2>1, <2>2
<1> QED
  BY <1>1, <1>2, <1>3, <1>4, <1>5

\* The head of the outer loop comes closer.
LEMMA OuterAdvances == ASSUME IInv, Total > 0, Outer PROVE Advances
<1>1. pc = "outer" /\ Done' = Done /\ n' = n /\ size' = size /\ start' = start /\ Total' = Total
  BY DEF Outer, given, Done, Total
<1>2. CASE ~(Done < size)
  <2>1. Rank = 1 /\ Rank' = 0
    BY <1>1, <1>2, RankFacts DEF Outer, Rank
  <2> QED
    BY <1>1, <2>1 DEF Advances
<1>3. CASE Done < size
  <2>1. pc' = "inner" /\ count' = 0 /\ opt' = (IF lang = "C" THEN opt ELSE 0)
    BY <1>3 DEF Outer
  <2>2. Passed = start[opt] /\ start[0] = 0 /\ opt' \in 0 .. n /\ start[opt'] \in Nat
    BY <1>1, <2>1, RankFacts DEF Passed, IInv, PatternOK, TypeOK
  <2>3. Passed' = start[opt']
    BY <1>1, <2>1, <2>2 DEF Passed
  <2>4. Rank = 2 * Ahead + 1 /\ Rank' = 2 * Ahead'
    BY <1>1, <1>3, <2>1, RankFacts DEF Rank
  <2>5. Ahead' <= Ahead
    <3>1. CASE opt' = opt
      BY <1>1, <2>2, <2>3, <3>1, RankFacts DEF Ahead
    <3>2. CASE opt' # opt
      <4>1. opt = n /\ opt' = 0
        BY <1>1, <1>3, <2>1, <3>2, RankFacts DEF IInv, TypeOK, Place
      <4>2. Passed = Total /\ Passed' = 0
        BY <2>2, <2>3, <4>1 DEF Total
      <4> QED
        BY <1>1, <4>1, <4>2, RankFacts DEF Ahead
    <3> QED
      BY <3>1, <3>2
  <2>6. Ahead \in Int /\ Ahead' \in Int
    <3>1. opt' \in Int /\ n \in Int
      BY <2>2, RankFacts
    <3> QED
      BY <1>1, <3>1, RankFacts DEF Ahead
  <2>7. Rank' < Rank
    <3>1. \A a, b \in Int : b <= a => 2 * b < 2 * a + 1
      OBVIOUS
    <3>2. 2 * Ahead' < 2 * Ahead + 1
      BY <2>5, <2>6, <3>1, Zenon
    <3> QED
      BY <2>4, <3>2, Zenon
  <2> QED
    BY <1>1, <2>7, Zenon DEF Advances
<1> QED
  BY <1>2, <1>3

\* So does the end of an option.
LEMMA OptionEndsAdvances == ASSUME IInv, Total > 0, OptionEnds PROVE Advances
<1>1. pc = "inner" /\ Done' = Done /\ n' = n /\ size' = size /\ start' = start /\ Total' = Total
  BY DEF OptionEnds, given, Done, Total
<1>2. /\ n \in Nat \ {0} /\ opt \in 0 .. n /\ start[opt] \in Nat /\ count \in Nat
      /\ start[0] = 0 /\ start[n] = Total /\ (opt < n => start[opt + 1] \in Nat)
  BY DEF IInv, TypeOK, PatternOK, Total
<1>3. count = Len0(opt) /\ count' = 0 /\ pc' \in {"inner", "outer"}
  <2>1. Len0(opt) \in Int
    BY <1>2 DEF Len0
  <2>2. count <= Len0(opt) /\ count >= Len0(opt)
    BY <1>1 DEF IInv, Place, OptionEnds
  <2> QED
    BY <1>2, <2>1, <2>2 DEF OptionEnds
<1>4. Passed = start[opt] + count
  BY <1>1 DEF Passed
<1>5. ASSUME opt' \in 0 .. n PROVE Passed' = start[opt']
  <2>1. start[opt'] \in Nat
    BY <1>5 DEF IInv, TypeOK
  <2> QED
    BY <1>1, <1>3, <2>1 DEF Passed
<1>6. Ahead' < Ahead /\ Ahead' \in Nat
  <2>1. CASE opt < n
    <3>1. opt' = opt + 1
      BY <1>2, <2>1 DEF OptionEnds, NextOpt
    <3>2. Passed' = Passed
      BY <1>2, <1>3, <1>4, <1>5, <2>1, <3>1 DEF Len0
    <3> QED
      BY <1>1, <1>2, <2>1, <3>1, <3>2 DEF Ahead
  <2>2. CASE opt = n
    <3>1. lang = "C" /\ opt' = 0
      BY <1>1, <1>2, <2>2 DEF IInv, TypeOK, Place, OptionEnds, NextOpt
    <3>2. Passed = Total /\ Passed' = 0
      BY <1>2, <1>3, <1>4, <1>5, <2>2, <3>1 DEF Len0
    <3> QED
      BY <1>1, <1>2, <2>2, <3>1, <3>2 DEF Ahead
  <2> QED
    BY <1>2, <2>1, <2>2
<1>7. Rank = 2 * Ahead
  BY <1>1 DEF Rank
<1>8. Rank' \in {1, 2 * Ahead', 2 * Ahead' + 1}
  BY <1>3 DEF Rank
<1>9. Ahead \in Nat /\ Ahead >= 1
  BY <1>1, RankFacts
<1>10. Rank' < Rank
  <2>1. \A a, b \in Nat : a >= 1 /\ b < a => \A r \in {1, 2 * b, 2 * b + 1} : r < 2 * a
    OBVIOUS
  <2>2. Rank' < 2 * Ahead
    BY <1>6, <1>8, <1>9, <2>1, Zenon
  <2> QED
    BY <1>7, <2>2, Zenon
<1> QED
  BY <1>1, <1>10, Zenon DEF Advances

\* A byte is one more; the early return and the break go to the end.
LEMMA ByteOrStopAdvances == ASSUME IInv, Total > 0, Byte \/ Stop PROVE Advances
<1>1. CASE Byte
  <2>1. Done' = Done + 1
    BY <1>1 DEF IInv, TypeOK, Byte, Done
  <2> QED
    BY <2>1, RankFacts DEF Advances
<1>2. CASE Stop
  <2>1. pc = "inner" /\ Done' = Done /\ size' = size /\ pc' \in {"returned", "outer"}
    BY <1>2 DEF Stop, given, Done
  <2>2. Done >= size
    BY <1>2 DEF Stop, PastEnd, IInv, TypeOK, Done
  <2>3. Rank' \in {0, 1}
    BY <2>1, <2>2 DEF Rank
  <2>4. Rank = 2 * Ahead /\ Ahead >= 1
    BY <2>1, RankFacts DEF Rank
  <2> QED
    BY <2>1, <2>3, <2>4, RankFacts DEF Advances
<1> QED
  BY <1>1, <1>2

\* The rank of a state is bounded by the number of options alone, and the bytes coded by
\* the size of the string.
THEOREM RankBounded == Spec => [](Rank \in 0 .. 4 * n + 3 /\ Done <= size + 1)
<1>1. IInv => Rank \in 0 .. 4 * n + 3 /\ Done <= size + 1
  <2>1. IInv => Done <= size + 1
    BY DEF IInv, TypeOK, Done
  <2> QED
    BY <2>1, RankFacts
<1> QED
  BY <1>1, Invariance, PTL

\* Every step of encode and decode codes a byte or comes closer to the next one, through
\* options of length 0 and the wrap too: with RankBounded, neither can go on without end
\* for a pattern that codes something, however long the string and the pattern.
THEOREM LoopAdvances == Spec => [][Advances]_vars
<1>1. IInv /\ [Next]_vars => [Advances]_vars
  <2> SUFFICES ASSUME IInv, Next, Total > 0, pc # "returned" PROVE Advances
    BY DEF Advances
  <2> QED
    BY OuterAdvances, ByteOrStopAdvances, OptionEndsAdvances DEF Next, Returned
<1> QED
  BY <1>1, Invariance, PTL DEF Spec

-----------------------------------------------------------------------------
(* PhraseEcho: what the options do to a byte. *)

\* A byte rotated right is a byte, and rotated left again the one it was.
LEMMA RorBack ==
  ASSUME NEW v \in Nat, v <= 255, NEW s \in 0 .. 7
  PROVE  Ror(v, s) \in Nat /\ Ror(v, s) <= 255 /\ Rol(Ror(v, s), s) = v
<1>1. CASE s = 0
  BY <1>1 DEF Ror, Rol
<1>2. CASE s = 1
  BY <1>2 DEF Ror, Rol
<1>3. CASE s = 2
  BY <1>3 DEF Ror, Rol
<1>4. CASE s = 3
  BY <1>4 DEF Ror, Rol
<1>5. CASE s = 4
  BY <1>5 DEF Ror, Rol
<1>6. CASE s = 5
  BY <1>6 DEF Ror, Rol
<1>7. CASE s = 6
  BY <1>7 DEF Ror, Rol
<1>8. CASE s = 7
  BY <1>8 DEF Ror, Rol
<1> QED
  BY <1>1, <1>2, <1>3, <1>4, <1>5, <1>6, <1>7, <1>8

\* A byte rotated left is a byte, and rotated right again the one it was.
LEMMA RolBack ==
  ASSUME NEW v \in Nat, v <= 255, NEW s \in 0 .. 7
  PROVE  Rol(v, s) \in Nat /\ Rol(v, s) <= 255 /\ Ror(Rol(v, s), s) = v
<1>1. CASE s = 0
  BY <1>1 DEF Ror, Rol
<1>2. CASE s = 1
  BY <1>2 DEF Ror, Rol
<1>3. CASE s = 2
  BY <1>3 DEF Ror, Rol
<1>4. CASE s = 3
  BY <1>4 DEF Ror, Rol
<1>5. CASE s = 4
  BY <1>5 DEF Ror, Rol
<1>6. CASE s = 5
  BY <1>6 DEF Ror, Rol
<1>7. CASE s = 6
  BY <1>7 DEF Ror, Rol
<1>8. CASE s = 7
  BY <1>8 DEF Ror, Rol
<1> QED
  BY <1>1, <1>2, <1>3, <1>4, <1>5, <1>6, <1>7, <1>8

\* Xor with three bits undoes itself.
LEMMA XorBack ==
  ASSUME NEW v \in Nat, v <= 255, NEW k \in Nat
  PROVE  Xor(v, k) \in Nat /\ Xor(v, k) <= 255 /\ Xor(Xor(v, k), k) = v
<1>1. Xor(v, k) \in Nat /\ Xor(v, k) <= 255
  BY DEF Xor, Bit
<1>2. Xor(Xor(v, k), k) = v
  BY SMTT(20) DEF Xor, Bit
<1> QED
  BY <1>1, <1>2

\* An option has one of four operators, and a rotation or mask of three bits.
LEMMA OptionFacts ==
  ASSUME NEW o \in Option
  PROVE  o.op \in {"~", "^", "r", "l"} /\ o.val \in Nat /\ o.val \in 0 .. 7
BY DEF Option

\* encoder.c undoes what it does, with every option and to every byte.
LEMMA DecodesEncoded ==
  ASSUME NEW o \in Option, NEW b \in Nat, b <= 255
  PROVE  CEncode(o, b) \in Nat /\ CEncode(o, b) <= 255 /\ CDecode(o, CEncode(o, b)) = b
<1>1. o.op \in {"~", "^", "r", "l"} /\ o.val \in Nat /\ o.val \in 0 .. 7
  BY OptionFacts
<1>2. CASE o.op = "~"
  <2>1. CEncode(o, b) = 255 - b /\ CDecode(o, 255 - b) = 255 - (255 - b)
    BY <1>2 DEF CEncode, CDecode
  <2> QED
    BY <2>1
<1>3. CASE o.op = "^"
  <2>1. CEncode(o, b) = Xor(b, o.val) /\ CDecode(o, Xor(b, o.val)) = Xor(Xor(b, o.val), o.val)
    BY <1>3 DEF CEncode, CDecode
  <2>2. Xor(b, o.val) \in Nat /\ Xor(b, o.val) <= 255 /\ Xor(Xor(b, o.val), o.val) = b
    BY <1>1, XorBack
  <2> QED
    BY <2>1, <2>2
<1>4. CASE o.op = "r"
  <2>1. CEncode(o, b) = Ror(b, o.val) /\ CDecode(o, Ror(b, o.val)) = Rol(Ror(b, o.val), o.val)
    BY <1>4 DEF CEncode, CDecode
  <2>2. Ror(b, o.val) \in Nat /\ Ror(b, o.val) <= 255 /\ Rol(Ror(b, o.val), o.val) = b
    BY <1>1, RorBack
  <2> QED
    BY <2>1, <2>2
<1>5. CASE o.op = "l"
  <2>1. CEncode(o, b) = Rol(b, o.val) /\ CDecode(o, Rol(b, o.val)) = Ror(Rol(b, o.val), o.val)
    BY <1>5 DEF CEncode, CDecode
  <2>2. Rol(b, o.val) \in Nat /\ Rol(b, o.val) <= 255 /\ Ror(Rol(b, o.val), o.val) = b
    BY <1>1, RolBack
  <2> QED
    BY <2>1, <2>2
<1> QED
  BY <1>1, <1>2, <1>3, <1>4, <1>5

\* A byte with its bit 6 or 7 set has seven or eight binary digits.
LEMMA DigitsOfLarge ==
  ASSUME NEW b \in Nat, b <= 255, b >= 64
  PROVE  Digits(b) \in {7, 8}
<1> DEFINE Has(w) == b < 2 ^ w /\ (w > 1 => 2 ^ (w - 1) <= b)
<1>1. \E w \in 1 .. 8 : Has(w)
  <2>1. CASE b < 128
    <3>1. Has(7)
      BY <2>1
    <3> QED
      BY <3>1
  <2>2. CASE b >= 128
    <3>1. Has(8)
      BY <2>2
    <3> QED
      BY <3>1
  <2> QED
    BY <2>1, <2>2
<1>2. ASSUME NEW w \in 1 .. 8, Has(w)
      PROVE  w \in {7, 8}
  <2>1. ~Has(1) /\ ~Has(2) /\ ~Has(3) /\ ~Has(4) /\ ~Has(5) /\ ~Has(6)
    OBVIOUS
  <2> HIDE DEF Has
  <2> QED
    BY <1>2, <2>1
<1> HIDE DEF Has
<1>3. Digits(b) = CHOOSE w \in 1 .. 8 : Has(w)
  BY DEF Digits, Has
<1> QED
  BY <1>1, <1>2, <1>3

\* Eight digits are rotated as a byte is.
LEMMA EightDigits ==
  ASSUME NEW v \in Nat, v <= 255, NEW s \in 0 .. 7
  PROVE  DigitsLeft(v, 8, s) = Rol(v, s) /\ DigitsRight(v, 8, s) = Ror(v, s)
<1>1. CASE s = 0
  BY <1>1 DEF Ror, Rol, DigitsLeft, DigitsRight
<1>2. CASE s = 1
  BY <1>2 DEF Ror, Rol, DigitsLeft, DigitsRight
<1>3. CASE s = 2
  BY <1>3 DEF Ror, Rol, DigitsLeft, DigitsRight
<1>4. CASE s = 3
  BY <1>4 DEF Ror, Rol, DigitsLeft, DigitsRight
<1>5. CASE s = 4
  BY <1>5 DEF Ror, Rol, DigitsLeft, DigitsRight
<1>6. CASE s = 5
  BY <1>6 DEF Ror, Rol, DigitsLeft, DigitsRight
<1>7. CASE s = 6
  BY <1>7 DEF Ror, Rol, DigitsLeft, DigitsRight
<1>8. CASE s = 7
  BY <1>8 DEF Ror, Rol, DigitsLeft, DigitsRight
<1> QED
  BY <1>1, <1>2, <1>3, <1>4, <1>5, <1>6, <1>7, <1>8

\* encoder.py undoes what encoder.c did, if the option does not rotate or the encoded byte
\* has eight digits with the one that is put in front.
LEMMA ReadsEncoded ==
  ASSUME NEW o \in Option, NEW b \in Nat, b <= 255,
         o.op \in {"~", "^"} \/ CEncode(o, b) >= 64
  PROVE  PyDecode(o, CEncode(o, b)) = b
<1> DEFINE e == CEncode(o, b)
<1>1. o.op \in {"~", "^", "r", "l"} /\ o.val \in Nat /\ o.val \in 0 .. 7
  BY OptionFacts
<1>2. e \in Nat /\ e <= 255 /\ CDecode(o, e) = b
  BY DecodesEncoded
<1> HIDE DEF e
<1>3. CASE o.op \in {"~", "^"}
  <2>1. PyDecode(o, e) = CDecode(o, e)
    BY <1>3 DEF PyDecode, CDecode
  <2> QED
    BY <1>2, <2>1 DEF e
<1>4. CASE o.op \in {"r", "l"}
  <2>1. Digits(e) \in {7, 8}
    BY <1>2, <1>4, DigitsOfLarge DEF e
  <2>2. (IF Digits(e) < 8 THEN Digits(e) + 1 ELSE 8) = 8
    BY <2>1
  <2>3. /\ o.op = "r" => PyDecode(o, e) = DigitsLeft(e, 8, o.val) /\ CDecode(o, e) = Rol(e, o.val)
        /\ o.op = "l" => PyDecode(o, e) = DigitsRight(e, 8, o.val) /\ CDecode(o, e) = Ror(e, o.val)
    BY <2>2 DEF PyDecode, CDecode
  <2>4. DigitsLeft(e, 8, o.val) = Rol(e, o.val) /\ DigitsRight(e, 8, o.val) = Ror(e, o.val)
    BY <1>1, <1>2, EightDigits
  <2> QED
    BY <1>2, <1>4, <2>3, <2>4 DEF e
<1> QED
  BY <1>1, <1>3, <1>4

-----------------------------------------------------------------------------
(* PhraseEcho: the exchange. *)

\* A byte of the phrase is a number.
LEMMA PhraseBytes == \A b \in Bytes : b \in Nat /\ b <= 255
<1>1. Bytes \subseteq 0 .. 255
  BY PhraseEchoAssumption, Zenon
<1>2. \A b \in 0 .. 255 : b \in Nat /\ b <= 255
  OBVIOUS
<1> QED
  BY <1>1, <1>2, Zenon

\* The byte on each of its ways is what the one before makes of it.
EchoInv ==
  /\ co \in Option /\ fo \in Option /\ phrase \in Bytes
  /\ echoPc \in {"request", "init", "decoded", "response", "valid", "fss ended"}
  /\ echoPc # "request" => wire = CEncode(co, phrase)
  /\ echoPc \in {"decoded", "response", "valid"} => text = PyDecode(fo, wire)
  /\ echoPc \in {"response", "valid"} => echo = wire

\* The invariant holds before the request.
LEMMA EchoInvInit == EchoInit => EchoInv
BY DEF EchoInit, EchoInv

\* Every step of the exchange keeps the invariant.
LEMMA EchoInvStep == EchoInv /\ [EchoNext]_echoVars => EchoInv'
<1> SUFFICES ASSUME EchoInv, [EchoNext]_echoVars PROVE EchoInv'
  OBVIOUS
<1>1. CASE EncodePhrase
  BY <1>1 DEF EncodePhrase, EchoInv
<1>2. CASE DecodePhrase
  <2>1. text' # Error => text' = PyDecode(fo, wire)
    BY <1>2 DEF DecodePhrase, AsText
  <2> QED
    BY <1>2, <2>1 DEF DecodePhrase, EchoInv
<1>3. CASE Recode
  <2>1. CASE PyEncode(fo, text) = wire
    BY <1>3, <2>1 DEF Recode, EchoInv
  <2>2. CASE PyEncode(fo, text) # wire
    BY <1>3, <2>2 DEF Recode, EchoInv
  <2> QED
    BY <2>1, <2>2
<1>4. CASE Unpack
  <2>1. phrase \in Nat /\ phrase <= 255 /\ co \in Option
    BY PhraseBytes DEF EchoInv
  <2>2. CDecode(co, CEncode(co, phrase)) = phrase
    BY <2>1, DecodesEncoded
  <2>3. CDecode(co, echo) = phrase
    BY <1>4, <2>2 DEF Unpack, EchoInv
  <2> QED
    BY <1>4, <2>3 DEF Unpack, EchoInv
<1>5. CASE UNCHANGED echoVars
  BY <1>5 DEF echoVars, EchoInv
<1> QED
  BY <1>1, <1>2, <1>3, <1>4, <1>5 DEF EchoNext, EchoEnded

\* The invariant holds in every reachable state, for any bytes of a phrase.
LEMMA EchoInvAlways == EchoSpec => []EchoInv
BY EchoInvInit, EchoInvStep, PTL DEF EchoSpec

\* An FSS that answers is not refused: with its own pattern or another one, it sends back
\* what it was sent, and the FTS decodes that to its phrase (udpHandler.c:127-154).
THEOREM EchoAccepted == EchoSpec => []NoEchoRefused
<1>1. EchoInv => NoEchoRefused
  BY DEF EchoInv, NoEchoRefused
<1> QED
  BY <1>1, EchoInvAlways, PTL

\* An FSS with the pattern of C2 reads what C2 wrote, where the option does not rotate or
\* the byte it received has its bit 6 or 7 set (encoder.py:76-120).
THEOREM PhraseRead == EchoSpec => []ReadRight
<1>1. EchoInv => ReadRight
  <2> SUFFICES ASSUME EchoInv, echoPc \in {"decoded", "response", "valid"}, co = fo,
                      fo.op \in {"~", "^"} \/ wire >= 64
               PROVE  text = phrase
    BY DEF ReadRight
  <2>1. phrase \in Nat /\ phrase <= 255 /\ co \in Option
    BY PhraseBytes DEF EchoInv
  <2>2. wire = CEncode(co, phrase) /\ text = PyDecode(co, wire)
    BY DEF EchoInv
  <2> QED
    BY <2>1, <2>2, ReadsEncoded
<1> QED
  BY <1>1, EchoInvAlways, PTL

-----------------------------------------------------------------------------
(* LogLine: characters and bytes. *)

\* What a line is made of.
Char == (0 .. 63) \cup {Pad}

\* Groups of four characters in the line, and groups of three bytes decoded.
Groups == Len(line) \div 4
Decoded == Len(plain) \div 3

-----------------------------------------------------------------------------
(* Arithmetic of bytes, and sequences.                                     *)

\* The characters of three bytes are places of the dictionary.
LEMMA CharsOfBytes ==
  /\ \A a \in 0 .. 255 : a \div 4 \in 0 .. 63 /\ a % 64 \in 0 .. 63
  /\ \A a, b \in 0 .. 255 : (a % 4) * 16 + b \div 16 \in 0 .. 63
  /\ \A b, c \in 0 .. 255 : (b % 16) * 4 + c \div 64 \in 0 .. 63
<1>1. \A a \in 0 .. 255 : a \div 4 \in 0 .. 63 /\ a % 64 \in 0 .. 63
  OBVIOUS
<1>2. ASSUME NEW a \in 0 .. 255, NEW b \in 0 .. 255
      PROVE  (a % 4) * 16 + b \div 16 \in 0 .. 63
  <2>1. a % 4 \in 0 .. 3 /\ b \div 16 \in 0 .. 15
    OBVIOUS
  <2> QED
    BY <2>1
<1>3. ASSUME NEW b \in 0 .. 255, NEW c \in 0 .. 255
      PROVE  (b % 16) * 4 + c \div 64 \in 0 .. 63
  <2>1. b % 16 \in 0 .. 15 /\ c \div 64 \in 0 .. 3
    OBVIOUS
  <2> QED
    BY <2>1
<1> QED
  BY <1>1, <1>2, <1>3

\* The shifts of decode64 undo those of encode64: the first byte of a group,
LEMMA FirstByte ==
  \A a, b \in 0 .. 255 : (a \div 4) * 4 + ((a % 4) * 16 + b \div 16) \div 16 = a
<1> TAKE a, b \in 0 .. 255
<1>1. a \div 4 \in Nat /\ a % 4 \in 0 .. 3 /\ (a \div 4) * 4 + (a % 4) = a
  OBVIOUS
<1>2. b \div 16 \in 0 .. 15
  OBVIOUS
<1>3. \A x \in 0 .. 3, y \in 0 .. 15 : (x * 16 + y) \div 16 = x
  OBVIOUS
<1>4. ((a % 4) * 16 + b \div 16) \div 16 = a % 4
  BY <1>1, <1>2, <1>3
<1> QED
  BY <1>1, <1>4

\* the second,
Second(a, b, c) ==
  (((a % 4) * 16 + b \div 16) % 16) * 16 + ((b % 16) * 4 + c \div 64) \div 4

\* which does not depend on the others,
LEMMA SecondByte == \A a, b, c \in 0 .. 255 : Second(a, b, c) = b
<1> TAKE a, b, c \in 0 .. 255
<1>1. /\ a % 4 \in 0 .. 3 /\ c \div 64 \in 0 .. 3
      /\ b \div 16 \in 0 .. 15 /\ b % 16 \in 0 .. 15 /\ (b \div 16) * 16 + (b % 16) = b
  OBVIOUS
<1>2. \A x \in 0 .. 3, y \in 0 .. 15 : (x * 16 + y) % 16 = y
  OBVIOUS
<1>3. \A x \in 0 .. 15, y \in 0 .. 3 : (x * 4 + y) \div 4 = x
  OBVIOUS
<1>4. ((a % 4) * 16 + b \div 16) % 16 = b \div 16
  BY <1>1, <1>2
<1>5. ((b % 16) * 4 + c \div 64) \div 4 = b % 16
  BY <1>1, <1>3
<1> QED
  BY <1>1, <1>4, <1>5 DEF Second

\* and the third.
LEMMA ThirdByte ==
  \A b, c \in 0 .. 255 : (((b % 16) * 4 + c \div 64) % 4) * 64 + (c % 64) = c
<1> TAKE b, c \in 0 .. 255
<1>1. b % 16 \in 0 .. 15 /\ c \div 64 \in 0 .. 3 /\ (c \div 64) * 64 + (c % 64) = c
  OBVIOUS
<1>2. \A x \in 0 .. 15, y \in 0 .. 3 : (x * 4 + y) % 4 = y
  OBVIOUS
<1>3. ((b % 16) * 4 + c \div 64) % 4 = c \div 64
  BY <1>1, <1>2
<1> QED
  BY <1>1, <1>3

\* Group k of n elements, and the places in it.
LEMMA Quotients ==
  /\ \A k \in Nat : (4 * k) \div 4 = k /\ (4 * k + 4) \div 4 = k + 1
  /\ \A k \in Nat : (3 * k) \div 3 = k /\ (3 * k + 3) \div 3 = k + 1
OBVIOUS

\* A place among four times k comes from one of k groups.
LEMMA PlaceInGroup ==
  ASSUME NEW k \in Nat, NEW i \in 1 .. 4 * k
  PROVE  \E j \in 0 .. k - 1 : \E r \in 1 .. 4 : i = 4 * j + r
<1>1. (i - 1) \div 4 \in 0 .. k - 1 /\ (i - 1) % 4 \in 0 .. 3
      /\ i - 1 = 4 * ((i - 1) \div 4) + ((i - 1) % 4)
  OBVIOUS
<1> QED
  BY <1>1

\* The beginning of a sequence.
LEMMA BeginFacts ==
  ASSUME NEW S, NEW s \in Seq(S), NEW len \in Nat, len <= Len(s)
  PROVE  /\ SubSeq(s, 1, len) \in Seq(S) /\ Len(SubSeq(s, 1, len)) = len
         /\ \A i \in 1 .. len : SubSeq(s, 1, len)[i] = s[i]
<1>1. 1 \in Int /\ len \in Int /\ \A i \in 1 .. len : s[i] \in S
  OBVIOUS
<1> DEFINE p == SubSeq(s, 1, len)
<1>2. /\ p \in Seq(S) /\ Len(p) = IF 1 <= len THEN len - 1 + 1 ELSE 0
      /\ \A i \in 1 .. len - 1 + 1 : p[i] = s[1 + i - 1]
  BY <1>1, SubSeqProperties
<1> HIDE DEF p
<1>3. len - 1 + 1 = len /\ \A i \in 1 .. len : 1 + i - 1 = i
  OBVIOUS
<1>4. p \in Seq(S) /\ Len(p) = len /\ \A i \in 1 .. len : p[i] = s[i]
  BY <1>2, <1>3
<1> USE DEF p
<1> QED
  BY <1>4

\* A sequence that follows another.
LEMMA ConcatFacts ==
  ASSUME NEW S, NEW s \in Seq(S), NEW t \in Seq(S)
  PROVE  /\ s \o t \in Seq(S) /\ Len(s \o t) = Len(s) + Len(t)
         /\ \A i \in 1 .. Len(s) : (s \o t)[i] = s[i]
         /\ \A i \in 1 .. Len(t) : (s \o t)[Len(s) + i] = t[i]
<1>1. s \o t \in Seq(S) /\ Len(s \o t) = Len(s) + Len(t)
  BY ConcatProperties
<1>2. \A i \in 1 .. Len(s) + Len(t) : (s \o t)[i] = IF i <= Len(s) THEN s[i] ELSE t[i - Len(s)]
  BY ConcatProperties
<1>3. Len(s) \in Nat /\ Len(t) \in Nat
  OBVIOUS
<1>4. \A i \in 1 .. Len(s) : (s \o t)[i] = s[i]
  BY <1>2, <1>3
<1>5. ASSUME NEW i \in 1 .. Len(t)
      PROVE  (s \o t)[Len(s) + i] = t[i]
  <2>1. Len(s) + i \in 1 .. Len(s) + Len(t) /\ ~(Len(s) + i <= Len(s)) /\ Len(s) + i - Len(s) = i
    BY <1>3
  <2> QED
    BY <1>2, <2>1
<1> QED
  BY <1>1, <1>4, <1>5

-----------------------------------------------------------------------------
(* The inductive invariant.                                                *)

LineTypeOK ==
  /\ string \in Strings /\ linePc \in {"encode", "written", "decode", "printed"}
  /\ line \in Seq(Char) /\ plain \in Seq(Int)

\* The line consists of the groups of the string from its beginning on: of some of them
\* while it is encoded, of all afterwards.
Encoded ==
  /\ Len(line) = 4 * Groups
  /\ \A j \in 0 .. Groups - 1 : \A i \in 1 .. 4 : line[4 * j + i] = Group(3 * j)[i]
  /\ IF linePc = "encode" THEN 3 * Groups < Len(string)
                          ELSE 3 * Groups - 3 < Len(string) /\ Len(string) <= 3 * Groups

\* What was decoded is the beginning of the string; a last group with a pad gives one
\* byte.
DecodedRight ==
  /\ \A i \in 1 .. Len(plain) : i <= Len(string) /\ plain[i] = string[i]
  /\ linePc \in {"encode", "written"} => plain = <<>>
  /\ linePc \in {"decode", "printed"} =>
       dlen = (IF Len(string) = 3 * Groups THEN Len(line) ELSE Len(line) - 2)
  /\ linePc = "decode" => Len(plain) = 3 * Decoded /\ Decoded < Groups
  /\ linePc = "printed" =>
       Len(plain) = (IF Len(string) = 3 * Groups THEN Len(string) ELSE 3 * Groups - 2)

LineInv == LineTypeOK /\ Encoded /\ DecodedRight

-----------------------------------------------------------------------------
(* The string and its groups.                                              *)

\* A string that is logged is some bytes, and At reads a byte in it and behind its end.
LEMMA StringFacts ==
  ASSUME string \in Strings
  PROVE  /\ string \in Seq(0 .. 255) /\ Len(string) \in Nat /\ Len(string) >= 1
         /\ \A i \in Nat \ {0} : At(i) \in 0 .. 255
         /\ \A i \in 1 .. Len(string) : At(i) = string[i]
<1>1. string \in Seq(0 .. 255) /\ string # <<>>
  BY LogLineAssumption
<1>2. Len(string) \in Nat /\ Len(string) >= 1
  BY <1>1
<1>3. \A i \in 1 .. Len(string) : string[i] \in 0 .. 255
  BY <1>1, ElementOfSeq
<1>4. ASSUME NEW i \in Nat \ {0} PROVE At(i) \in 0 .. 255
  BY <1>2, <1>3 DEF At
<1> QED
  BY <1>1, <1>2, <1>4 DEF At

\* What encode64 makes of the bytes from p + 1 on.
LEMMA GroupFacts ==
  ASSUME string \in Strings, NEW p \in Nat
  PROVE  /\ Group(p) \in Seq(Char) /\ Len(Group(p)) = 4
         /\ \A i \in 1 .. 4 : Group(p)[i] \in Char
         /\ Group(p)[1] = At(p + 1) \div 4
         /\ Group(p)[2] = (At(p + 1) % 4) * 16 + At(p + 2) \div 16
         /\ p + 2 <= Len(string) => Group(p)[3] = (At(p + 2) % 16) * 4 + At(p + 3) \div 64
         /\ p + 3 <= Len(string) => Group(p)[4] = At(p + 3) % 64
         /\ Group(p)[4] = Pad <=> p + 3 > Len(string)
<1> DEFINE a == At(p + 1)
           b == At(p + 2)
           c == At(p + 3)
           w == a \div 4
           x == (a % 4) * 16 + b \div 16
           y == (b % 16) * 4 + c \div 64
           z == c % 64
           u == IF p + 2 > Len(string) THEN Pad ELSE y
           v == IF p + 3 > Len(string) THEN Pad ELSE z
<1>1. Group(p) = <<w, x, u, v>>
  BY DEF Group
<1>2. w \in 0 .. 63 /\ x \in 0 .. 63 /\ y \in 0 .. 63 /\ z \in 0 .. 63
  <2>1. p + 1 \in Nat \ {0} /\ p + 2 \in Nat \ {0} /\ p + 3 \in Nat \ {0}
    OBVIOUS
  <2>2. a \in 0 .. 255 /\ b \in 0 .. 255 /\ c \in 0 .. 255
    BY <2>1, StringFacts
  <2> HIDE DEF a, b, c
  <2>3. a \div 4 \in 0 .. 63
    BY <2>2, CharsOfBytes, Zenon
  <2>4. (a % 4) * 16 + b \div 16 \in 0 .. 63
    BY <2>2, CharsOfBytes, Zenon
  <2>5. (b % 16) * 4 + c \div 64 \in 0 .. 63
    BY <2>2, CharsOfBytes, Zenon
  <2>6. c % 64 \in 0 .. 63
    BY <2>2, CharsOfBytes, Zenon
  <2> QED
    BY <2>3, <2>4, <2>5, <2>6, Zenon
<1> HIDE DEF w, x, y, z
<1>3. Len(string) \in Nat
  BY StringFacts
<1>4. /\ w \in Char /\ x \in Char /\ u \in Char /\ v \in Char
      /\ v = Pad <=> p + 3 > Len(string)
      /\ p + 2 <= Len(string) => u = y
      /\ p + 3 <= Len(string) => v = z
  <2>1. Pad \notin 0 .. 63
    BY LogLineAssumption
  <2>2. y # Pad /\ z # Pad
    BY <1>2, <2>1
  <2>3. w \in Char /\ x \in Char /\ y \in Char /\ z \in Char /\ Pad \in Char
    BY <1>2 DEF Char
  <2>4. p + 2 > Len(string) <=> ~(p + 2 <= Len(string))
    BY <1>3
  <2>5. p + 3 > Len(string) <=> ~(p + 3 <= Len(string))
    BY <1>3
  <2> HIDE DEF Char
  <2> QED
    BY <2>2, <2>3, <2>4, <2>5, Zenon
<1> HIDE DEF u, v, Char
<1>5. <<w, x, u, v>> \in Seq(Char) /\ Len(<<w, x, u, v>>) = 4
  BY <1>4
<1>6. \A i \in 1 .. 4 : <<w, x, u, v>>[i] \in Char
  BY <1>4
<1> QED
  BY <1>1, <1>4, <1>5, <1>6 DEF w, x, y, z

-----------------------------------------------------------------------------
(* The steps.                                                              *)

\* One more group in the line.
LEMMA EncodeStep == ASSUME LineInv, Encode PROVE LineInv'
<1> DEFINE k == Groups
           g == Group(3 * k)
<1>1. /\ string \in Strings /\ line \in Seq(Char) /\ linePc = "encode" /\ plain = <<>>
      /\ k \in Nat /\ Len(line) = 4 * k /\ 3 * k < Len(string) /\ Len(string) \in Nat
  <2>1. string \in Strings /\ line \in Seq(Char) /\ linePc = "encode" /\ plain = <<>>
    BY DEF LineInv, LineTypeOK, DecodedRight, Encode
  <2>2. Len(line) = 4 * k /\ 3 * k < Len(string)
    BY <2>1 DEF LineInv, Encoded
  <2>3. Len(line) \in Nat /\ Len(string) \in Nat
    BY <2>1, StringFacts
  <2>4. k \in Nat
    BY <2>3 DEF Groups
  <2> QED
    BY <2>1, <2>2, <2>3, <2>4
<1>2. /\ line' = line \o g /\ UNCHANGED <<string, dlen, plain>>
      /\ linePc' = IF (k + 1) * 3 >= Len(string) THEN "written" ELSE "encode"
  <2>1. (Len(line) \div 4) * 3 = 3 * k
    BY <1>1 DEF Groups
  <2> QED
    BY <2>1 DEF Encode, Groups
<1>3. \A j \in 0 .. k - 1 : \A i \in 1 .. 4 : line[4 * j + i] = Group(3 * j)[i]
  BY DEF LineInv, Encoded
<1> HIDE DEF k
<1>4. g \in Seq(Char) /\ Len(g) = 4
  BY <1>1, GroupFacts
<1> HIDE DEF g
<1>5. /\ line' \in Seq(Char) /\ Len(line') = Len(line) + Len(g)
      /\ \A i \in 1 .. Len(line) : line'[i] = line[i]
      /\ \A i \in 1 .. Len(g) : line'[Len(line) + i] = g[i]
  <2> DEFINE l == line \o g
  <2>1. \A u, v \in Seq(Char) :
          /\ u \o v \in Seq(Char) /\ Len(u \o v) = Len(u) + Len(v)
          /\ \A i \in 1 .. Len(u) : (u \o v)[i] = u[i]
          /\ \A i \in 1 .. Len(v) : (u \o v)[Len(u) + i] = v[i]
    BY ConcatFacts
  <2>2. /\ l \in Seq(Char) /\ Len(l) = Len(line) + Len(g)
        /\ \A i \in 1 .. Len(line) : l[i] = line[i]
        /\ \A i \in 1 .. Len(g) : l[Len(line) + i] = g[i]
    BY <1>1, <1>4, <2>1, Zenon
  <2>3. line' = l
    BY <1>2
  <2> HIDE DEF l
  <2> QED
    BY <2>2, <2>3
<1>6. Len(line') = 4 * (k + 1) /\ Groups' = k + 1
  <2>1. Len(line') = 4 * k + 4
    BY <1>1, <1>4, <1>5
  <2> QED
    BY <1>1, <2>1, Quotients DEF Groups
<1>7. \A p : Group(p)' = Group(p)
  BY <1>2 DEF Group, At
<1>8. LineTypeOK'
  BY <1>1, <1>2, <1>5 DEF LineInv, LineTypeOK
<1>9. Encoded'
  <2>1. ASSUME NEW j \in 0 .. k, NEW i \in 1 .. 4
        PROVE  line'[4 * j + i] = Group(3 * j)[i]
    <3>1. CASE j = k
      <4>1. line'[Len(line) + i] = g[i]
        BY <1>4, <1>5
      <4> QED
        BY <1>1, <3>1, <4>1 DEF g
    <3>2. CASE j # k
      <4>1. j \in 0 .. k - 1 /\ 4 * j + i \in 1 .. 4 * k
        BY <1>1, <3>2
      <4>2. line'[4 * j + i] = line[4 * j + i]
        BY <1>1, <1>5, <4>1
      <4> QED
        BY <1>3, <4>1, <4>2
    <3> QED
      BY <3>1, <3>2
  <2>2. IF linePc' = "encode" THEN 3 * (k + 1) < Len(string)
                              ELSE 3 * (k + 1) - 3 < Len(string) /\ Len(string) <= 3 * (k + 1)
    BY <1>1, <1>2
  <2>3. \A j \in 0 .. (k + 1) - 1 : \A i \in 1 .. 4 : line'[4 * j + i] = Group(3 * j)'[i]
    <3>1. (k + 1) - 1 = k
      BY <1>1
    <3> QED
      BY <1>7, <2>1, <3>1
  <2> QED
    BY <1>2, <1>6, <2>2, <2>3 DEF Encoded
<1>10. DecodedRight'
  <2>1. linePc' \in {"encode", "written"}
    BY <1>2
  <2>2. plain' = <<>> /\ \A i \in 1 .. Len(plain) : i <= Len(string) /\ plain[i] = string[i]
    BY <1>1, <1>2 DEF LineInv, DecodedRight
  <2> QED
    BY <1>2, <2>1, <2>2 DEF DecodedRight
<1> QED
  BY <1>8, <1>9, <1>10 DEF LineInv

\* The last character is a pad when the last group is not full.
LEMMA AllocateStep == ASSUME LineInv, Allocate PROVE LineInv'
<1> DEFINE k == Groups
<1>1. /\ string \in Strings /\ line \in Seq(Char) /\ plain = <<>>
      /\ k \in Nat /\ Len(line) = 4 * k /\ 3 * k - 3 < Len(string) /\ Len(string) <= 3 * k
      /\ Len(string) \in Nat /\ k >= 1
  <2>1. string \in Strings /\ line \in Seq(Char) /\ linePc = "written" /\ plain = <<>>
    BY DEF LineInv, LineTypeOK, DecodedRight, Allocate
  <2>2. Len(line) = 4 * k /\ 3 * k - 3 < Len(string) /\ Len(string) <= 3 * k
    BY <2>1 DEF LineInv, Encoded
  <2>3. Len(line) \in Nat /\ Len(string) \in Nat /\ Len(string) >= 1
    BY <2>1, StringFacts
  <2>4. k \in Nat
    BY <2>3 DEF Groups
  <2> QED
    BY <2>1, <2>2, <2>3, <2>4
<1>2. dlen' = Room /\ linePc' = "decode" /\ UNCHANGED <<string, line, plain>>
  BY DEF Allocate
<1>3. Last(line) = Pad <=> Len(string) # 3 * k
  <2>1. \A j \in 0 .. k - 1 : \A i \in 1 .. 4 : line[4 * j + i] = Group(3 * j)[i]
    BY DEF LineInv, Encoded
  <2> HIDE DEF k
  <2>2. k - 1 \in 0 .. k - 1 /\ 4 \in 1 .. 4 /\ 4 * (k - 1) + 4 = 4 * k /\ 3 * (k - 1) \in Nat
    BY <1>1
  <2>3. line[4 * k] = Group(3 * (k - 1))[4]
    BY <2>1, <2>2
  <2>4. Last(line) = line[4 * k]
    BY <1>1 DEF Last
  <2>5. Group(3 * (k - 1))[4] = Pad <=> 3 * (k - 1) + 3 > Len(string)
    BY <1>1, <2>2, GroupFacts
  <2> QED
    BY <1>1, <2>3, <2>4, <2>5
<1>4. dlen' = IF Len(string) = 3 * k THEN Len(line) ELSE Len(line) - 2
  BY <1>2, <1>3 DEF Room
<1>5. Len(plain) = 0 /\ Decoded = 0 /\ Decoded < k
  BY <1>1 DEF Decoded
<1>6. LineTypeOK'
  BY <1>2 DEF LineInv, LineTypeOK
<1>7. Encoded'
  <2>1. Groups' = Groups /\ \A p : Group(p)' = Group(p)
    BY <1>2 DEF Groups, Group, At
  <2> QED
    BY <1>1, <1>2, <2>1 DEF LineInv, Encoded, Allocate
<1>8. DecodedRight'
  <2>1. Groups' = Groups /\ Decoded' = Decoded
    BY <1>2 DEF Groups, Decoded
  <2>2. \A i \in 1 .. Len(plain) : i <= Len(string) /\ plain[i] = string[i]
    BY DEF LineInv, DecodedRight
  <2>3. Len(plain) = 3 * Decoded
    BY <1>5
  <2> QED
    BY <1>2, <1>4, <1>5, <2>1, <2>2, <2>3 DEF DecodedRight
<1> QED
  BY <1>6, <1>7, <1>8 DEF LineInv

\* Three bytes of a full group, one of a padded one.
LEMMA DecodeStep == ASSUME LineInv, Decode PROVE LineInv'
<1> DEFINE k == Groups
           m == Decoded
           g == SubSeq(line, 4 * m + 1, 4 * m + 4)
           x == g[1] * 4 + g[2] \div 16
           y == (g[2] % 16) * 16 + g[3] \div 4
           z == (g[3] % 4) * 64 + g[4]
           last == dlen = Len(line) - 2 /\ 4 * m + 4 = Len(line)
<1>1. /\ string \in Strings /\ line \in Seq(Char) /\ plain \in Seq(Int)
      /\ k \in Nat /\ m \in Nat /\ Len(line) = 4 * k /\ m < k
      /\ 3 * k - 3 < Len(string) /\ Len(string) <= 3 * k
      /\ Len(string) \in Nat /\ Len(plain) = 3 * m
  <2>1. string \in Strings /\ line \in Seq(Char) /\ plain \in Seq(Int) /\ linePc = "decode"
    BY DEF LineInv, LineTypeOK, Decode
  <2>2. Len(line) = 4 * k /\ 3 * k - 3 < Len(string) /\ Len(string) <= 3 * k
    BY <2>1 DEF LineInv, Encoded
  <2>3. Len(line) \in Nat /\ Len(string) \in Nat /\ Len(plain) \in Nat
    BY <2>1, StringFacts
  <2>4. k \in Nat /\ m \in Nat
    BY <2>3 DEF Groups, Decoded
  <2>5. Len(plain) = 3 * m /\ m < k
    BY <2>1 DEF LineInv, DecodedRight
  <2> QED
    BY <2>1, <2>2, <2>3, <2>4, <2>5
<1>2. /\ dlen = IF Len(string) = 3 * k THEN Len(line) ELSE Len(line) - 2
      /\ \A i \in 1 .. Len(plain) : i <= Len(string) /\ plain[i] = string[i]
  BY DEF LineInv, DecodedRight, Decode
<1>3. /\ plain' = IF last THEN Append(plain, x) ELSE plain \o <<x, y, z>>
      /\ linePc' = IF 4 * m + 4 = Len(line) THEN "printed" ELSE "decode"
      /\ UNCHANGED <<string, line, dlen>>
  <2>1. (Len(plain) \div 3) * 4 = 4 * m
    BY <1>1 DEF Decoded
  <2> QED
    BY <2>1 DEF Decode
<1>k. \A j \in 0 .. k - 1 : \A i \in 1 .. 4 : line[4 * j + i] = Group(3 * j)[i]
  BY DEF LineInv, Encoded
<1> HIDE DEF k, m
<1>n. /\ k \in Nat /\ m \in Nat /\ Len(line) = 4 * k /\ m < k /\ Len(plain) = 3 * m
      /\ Len(string) \in Nat /\ 3 * k - 3 < Len(string) /\ Len(string) <= 3 * k
  BY <1>1
<1>4. last <=> m + 1 = k /\ Len(string) # 3 * k
  BY <1>2, <1>n
<1>5. \A i \in 1 .. 4 : g[i] = Group(3 * m)[i]
  <2>1. \A i \in 1 .. 4 : 4 * m + 1 + i - 1 = 4 * m + i /\ 4 * m + i \in 1 .. Len(line)
    BY <1>n
  <2>2. /\ 4 * m + 1 \in Int /\ 4 * m + 4 \in Int /\ (4 * m + 4) - (4 * m + 1) + 1 = 4
        /\ \A i \in 4 * m + 1 .. 4 * m + 4 : line[i] \in Char
    BY <1>1, <1>n
  <2>3. \A i \in 1 .. (4 * m + 4) - (4 * m + 1) + 1 : g[i] = line[4 * m + 1 + i - 1]
    BY <2>2, SubSeqProperties
  <2>4. m \in 0 .. k - 1
    BY <1>n
  <2>5. ASSUME NEW i \in 1 .. 4 PROVE g[i] = Group(3 * m)[i]
    <3>1. g[i] = line[4 * m + 1 + i - 1] /\ 4 * m + 1 + i - 1 = 4 * m + i
      BY <2>1, <2>2, <2>3
    <3> QED
      BY <1>k, <2>4, <3>1
  <2> QED
    BY <2>5
<1> HIDE DEF g
<1> DEFINE a == At(3 * m + 1)
           b == At(3 * m + 2)
           c == At(3 * m + 3)
<1>6. /\ a \in 0 .. 255 /\ b \in 0 .. 255 /\ c \in 0 .. 255 /\ a = string[3 * m + 1]
      /\ 3 * m + 2 <= Len(string) => b = string[3 * m + 2]
      /\ 3 * m + 3 <= Len(string) => c = string[3 * m + 3]
  <2>1. /\ 3 * m + 1 \in Nat \ {0} /\ 3 * m + 2 \in Nat \ {0} /\ 3 * m + 3 \in Nat \ {0}
        /\ 3 * m + 1 \in 1 .. Len(string)
        /\ 3 * m + 2 <= Len(string) => 3 * m + 2 \in 1 .. Len(string)
        /\ 3 * m + 3 <= Len(string) => 3 * m + 3 \in 1 .. Len(string)
    BY <1>n
  <2> QED
    BY <1>1, <2>1, StringFacts
<1>7. /\ g[1] = a \div 4 /\ g[2] = (a % 4) * 16 + b \div 16
      /\ 3 * m + 2 <= Len(string) => g[3] = (b % 16) * 4 + c \div 64
      /\ 3 * m + 3 <= Len(string) => g[4] = c % 64
  <2>1. 3 * m \in Nat
    BY <1>n
  <2>2. /\ Group(3 * m)[1] = a \div 4 /\ Group(3 * m)[2] = (a % 4) * 16 + b \div 16
        /\ 3 * m + 2 <= Len(string) => Group(3 * m)[3] = (b % 16) * 4 + c \div 64
        /\ 3 * m + 3 <= Len(string) => Group(3 * m)[4] = c % 64
    BY <1>1, <2>1, GroupFacts
  <2> HIDE DEF a, b, c
  <2>3. /\ g[1] = Group(3 * m)[1] /\ g[2] = Group(3 * m)[2]
        /\ g[3] = Group(3 * m)[3] /\ g[4] = Group(3 * m)[4]
    BY <1>5
  <2> QED
    BY <2>2, <2>3
<1> HIDE DEF a, b, c
<1>8. x = a
  <2>1. x = (a \div 4) * 4 + ((a % 4) * 16 + b \div 16) \div 16
    BY <1>7, Zenon
  <2>2. a \in 0 .. 255 /\ b \in 0 .. 255 /\ c \in 0 .. 255
    BY <1>6
  <2>3. (a \div 4) * 4 + ((a % 4) * 16 + b \div 16) \div 16 = a
    BY <2>2, FirstByte, Zenon
  <2> HIDE DEF x
  <2> QED
    BY <2>1, <2>3, Zenon
<1>9. ~last => x = a /\ y = b /\ z = c /\ 3 * m + 3 <= Len(string)
  <2> SUFFICES ASSUME ~last PROVE y = b /\ z = c /\ 3 * m + 3 <= Len(string)
    BY <1>8
  <2>1. 3 * m + 3 <= Len(string) /\ 3 * m + 2 <= Len(string)
    BY <1>4, <1>n
  <2>2. g[2] = (a % 4) * 16 + b \div 16 /\ g[3] = (b % 16) * 4 + c \div 64 /\ g[4] = c % 64
    BY <1>7, <2>1
  <2>3. y = Second(a, b, c) /\ z = (((b % 16) * 4 + c \div 64) % 4) * 64 + (c % 64)
    BY <2>2, Zenon DEF Second
  <2>4. a \in 0 .. 255 /\ b \in 0 .. 255 /\ c \in 0 .. 255
    BY <1>6
  <2>5. Second(a, b, c) = b
    BY <2>4, SecondByte, Zenon
  <2>6. (((b % 16) * 4 + c \div 64) % 4) * 64 + (c % 64) = c
    BY <2>4, ThirdByte, Zenon
  <2> HIDE DEF y, z
  <2> QED
    BY <2>1, <2>3, <2>5, <2>6, Zenon
<1> HIDE DEF x, y, z, last
\* What is added to the bytes decoded so far, as one sequence.
<1> DEFINE d == IF last THEN <<a>> ELSE <<a, b, c>>
<1>10. plain' = plain \o d
  <2>1. Append(plain, x) = plain \o <<x>>
    BY <1>1, AppendIsConcat
  <2> QED
    BY <1>3, <1>8, <1>9, <2>1
<1>11. /\ d \in Seq(Int) /\ Len(d) = (IF last THEN 1 ELSE 3)
       /\ \A i \in 1 .. Len(d) : 3 * m + i <= Len(string) /\ d[i] = string[3 * m + i]
  <2>1. CASE last
    <3>1. d = <<a>> /\ a \in Int /\ 3 * m + 1 <= Len(string)
      BY <1>6, <1>n, <2>1
    <3> QED
      BY <1>6, <2>1, <3>1
  <2>2. CASE ~last
    <3>1. d = <<a, b, c>> /\ a \in Int /\ b \in Int /\ c \in Int /\ 3 * m + 3 <= Len(string)
      BY <1>6, <1>9, <2>2
    <3>2. a = string[3 * m + 1] /\ b = string[3 * m + 2] /\ c = string[3 * m + 3]
      BY <1>6, <1>n, <3>1
    <3>3. \A i \in 1 .. 3 : 3 * m + i <= Len(string) /\ (i = 1 \/ i = 2 \/ i = 3)
      BY <1>n, <3>1
    <3> HIDE DEF d
    <3>4. d \in Seq(Int) /\ Len(d) = 3 /\ d[1] = a /\ d[2] = b /\ d[3] = c
      BY <3>1
    <3>5. \A i \in 1 .. 3 : d[i] = string[3 * m + i]
      BY <3>2, <3>3, <3>4
    <3> QED
      BY <2>2, <3>3, <3>4, <3>5
  <2> QED
    BY <2>1, <2>2
<1> HIDE DEF d
<1>12. /\ plain' \in Seq(Int) /\ Len(plain') = Len(plain) + Len(d)
       /\ \A i \in 1 .. Len(plain) : plain'[i] = plain[i]
       /\ \A i \in 1 .. Len(d) : plain'[Len(plain) + i] = d[i]
  <2> DEFINE l == plain \o d
  <2>1. \A u, v \in Seq(Int) :
          /\ u \o v \in Seq(Int) /\ Len(u \o v) = Len(u) + Len(v)
          /\ \A i \in 1 .. Len(u) : (u \o v)[i] = u[i]
          /\ \A i \in 1 .. Len(v) : (u \o v)[Len(u) + i] = v[i]
    BY ConcatFacts
  <2>2. /\ l \in Seq(Int) /\ Len(l) = Len(plain) + Len(d)
        /\ \A i \in 1 .. Len(plain) : l[i] = plain[i]
        /\ \A i \in 1 .. Len(d) : l[Len(plain) + i] = d[i]
    BY <1>1, <1>11, <2>1, Zenon
  <2> HIDE DEF l
  <2> QED
    BY <1>10, <2>2 DEF l
<1>13. LineTypeOK'
  BY <1>3, <1>12 DEF LineInv, LineTypeOK
<1>14. Groups' = Groups /\ \A p : Group(p)' = Group(p)
  BY <1>3 DEF Groups, Group, At
<1>15. Encoded'
  BY <1>3, <1>14 DEF LineInv, Encoded, Decode
<1>16. DecodedRight'
  <2>1. ASSUME NEW i \in 1 .. Len(plain')
        PROVE  i <= Len(string) /\ plain'[i] = string[i]
    <3>1. /\ Len(plain) \in Nat /\ Len(d) \in Nat /\ Len(plain) = 3 * m
          /\ i \in 1 .. Len(plain) + Len(d)
      BY <1>11, <1>12, <1>n
    <3>2. CASE i <= Len(plain)
      BY <1>2, <1>12, <3>1, <3>2
    <3>3. CASE ~(i <= Len(plain))
      <4>1. i - Len(plain) \in 1 .. Len(d) /\ Len(plain) + (i - Len(plain)) = i
            /\ 3 * m + (i - Len(plain)) = i
        BY <3>1, <3>3
      <4>2. plain'[Len(plain) + (i - Len(plain))] = d[i - Len(plain)]
        BY <1>12, <4>1
      <4>3. 3 * m + (i - Len(plain)) <= Len(string)
            /\ d[i - Len(plain)] = string[3 * m + (i - Len(plain))]
        BY <1>11, <4>1
      <4> QED
        BY <4>1, <4>2, <4>3
    <3> QED
      BY <3>2, <3>3
  <2>2. Len(plain') = IF last THEN 3 * m + 1 ELSE 3 * m + 3
    BY <1>11, <1>12, <1>n
  <2>3. linePc' = "decode" => Len(plain') = 3 * Decoded' /\ Decoded' < k
    <3> SUFFICES ASSUME linePc' = "decode" PROVE Len(plain') = 3 * Decoded' /\ Decoded' < k
      OBVIOUS
    <3>1. m + 1 < k
      BY <1>3, <1>n
    <3>2. Len(plain') = 3 * m + 3
      BY <1>4, <1>n, <2>2, <3>1
    <3>3. Decoded' = m + 1
      BY <1>n, <3>2, Quotients DEF Decoded
    <3> QED
      BY <1>n, <3>1, <3>2, <3>3
  <2>4. linePc' = "printed" =>
          Len(plain') = (IF Len(string) = 3 * k THEN Len(string) ELSE 3 * k - 2)
    <3> SUFFICES ASSUME linePc' = "printed"
                 PROVE  Len(plain') = (IF Len(string) = 3 * k THEN Len(string) ELSE 3 * k - 2)
      OBVIOUS
    <3>1. m + 1 = k
      BY <1>3, <1>n
    <3> QED
      BY <1>4, <1>n, <2>2, <3>1
  <2>5. linePc' \notin {"encode", "written"}
    BY <1>3
  <2> QED
    BY <1>2, <1>3, <1>14, <2>1, <2>3, <2>4, <2>5 DEF DecodedRight, k
<1> QED
  BY <1>13, <1>15, <1>16 DEF LineInv

-----------------------------------------------------------------------------

\* Nothing is encoded yet.
LEMMA LineInvInit == LineInit => LineInv
<1> SUFFICES ASSUME LineInit PROVE LineInv
  OBVIOUS
<1>1. string \in Strings /\ linePc = "encode" /\ line = <<>> /\ plain = <<>>
  BY DEF LineInit
<1>2. Len(line) = 0 /\ Groups = 0 /\ Len(plain) = 0
  BY <1>1 DEF Groups
<1>3. Len(string) \in Nat /\ Len(string) >= 1
  BY <1>1, StringFacts
<1>4. LineTypeOK
  BY <1>1 DEF LineTypeOK
<1>5. Encoded
  <2>1. 0 .. Groups - 1 = {}
    BY <1>2
  <2> QED
    BY <1>1, <1>2, <1>3, <2>1 DEF Encoded
<1>6. DecodedRight
  <2>1. 1 .. Len(plain) = {}
    BY <1>2
  <2> QED
    BY <1>1, <2>1 DEF DecodedRight
<1> QED
  BY <1>4, <1>5, <1>6 DEF LineInv

\* The invariant holds in every step.
LEMMA LineInvStep == LineInv /\ [LineNext]_lineVars => LineInv'
<1> SUFFICES ASSUME LineInv, [LineNext]_lineVars PROVE LineInv'
  OBVIOUS
<1>1. CASE Printed \/ UNCHANGED lineVars
  <2>1. UNCHANGED <<string, linePc, line, dlen, plain>>
    BY <1>1 DEF Printed, lineVars
  <2>2. Groups' = Groups /\ Decoded' = Decoded /\ \A p : Group(p)' = Group(p)
    BY <2>1 DEF Groups, Decoded, Group, At
  <2> QED
    BY <2>1, <2>2 DEF LineInv, LineTypeOK, Encoded, DecodedRight
<1> QED
  BY <1>1, EncodeStep, AllocateStep, DecodeStep DEF LineNext

\* The invariant of every behaviour.
LEMMA LineInvAlways == LineSpec => []LineInv
BY LineInvInit, LineInvStep, PTL DEF LineSpec

\* What is printed is short of the string by its last byte at most, which is the newline
\* of an entry (encoder.c, decode64; fts.c, search and head).
THEOREM EntryPrinted == LineSpec => []EntryShown
<1>1. LineInv => EntryShown
  <2> SUFFICES ASSUME LineInv, linePc = "printed" PROVE IsPrefix(Front(string), plain)
    BY DEF EntryShown
  <2> DEFINE len == Len(string) - 1
             p == Front(string)
             q == SubSeq(plain, 1, len)
  <2>1. string \in Seq(0 .. 255) /\ Len(string) \in Nat /\ Len(string) >= 1
    BY StringFacts DEF LineInv, LineTypeOK
  <2>2. /\ plain \in Seq(Int) /\ Len(plain) \in Nat
        /\ \A i \in 1 .. Len(plain) : plain[i] = string[i]
    BY DEF LineInv, LineTypeOK, DecodedRight
  <2>3. len \in Nat /\ len <= Len(plain)
    <3>1. Len(line) \in Nat
      BY DEF LineInv, LineTypeOK
    <3>2. Groups \in Nat
      BY <3>1 DEF Groups
    <3>3. Len(string) <= 3 * Groups
          /\ Len(plain) = (IF Len(string) = 3 * Groups THEN Len(string) ELSE 3 * Groups - 2)
      BY DEF LineInv, Encoded, DecodedRight
    <3> QED
      BY <2>1, <3>2, <3>3
  <2> HIDE DEF len
  <2>4. p \in Seq(Int) /\ Len(p) = len /\ \A i \in 1 .. len : p[i] = string[i]
    <3>1. string \in Seq(Int)
      <4>1. \A i \in 1 .. Len(string) : string[i] \in 0 .. 255
        BY <2>1, ElementOfSeq
      <4>2. string = [i \in 1 .. Len(string) |-> string[i]]
        BY <2>1
      <4>3. ASSUME NEW i \in 1 .. Len(string) PROVE string[i] \in Int
        <5>1. string[i] \in 0 .. 255
          BY <4>1
        <5>2. \A b \in 0 .. 255 : b \in Int
          OBVIOUS
        <5> QED
          BY <5>1, <5>2, Zenon
      <4> QED
        BY <2>1, <4>2, <4>3
    <3>2. len <= Len(string)
      BY <2>1 DEF len
    <3>3. p = SubSeq(string, 1, len)
      BY DEF Front, len
    <3> HIDE DEF p
    <3>4. /\ SubSeq(string, 1, len) \in Seq(Int) /\ Len(SubSeq(string, 1, len)) = len
          /\ \A i \in 1 .. len : SubSeq(string, 1, len)[i] = string[i]
      BY <2>3, <3>1, <3>2, BeginFacts
    <3> QED
      BY <3>3, <3>4
  <2>5. q \in Seq(Int) /\ Len(q) = len /\ \A i \in 1 .. len : q[i] = plain[i]
    BY <2>2, <2>3, BeginFacts
  <2> HIDE DEF p, q
  <2>6. \A i \in 1 .. len : p[i] = q[i]
    <3>1. \A i \in 1 .. len : i \in 1 .. Len(plain)
      BY <2>2, <2>3
    <3> QED
      BY <2>2, <2>4, <2>5, <3>1, Zenon
  <2>7. p = q
    BY <2>4, <2>5, <2>6, SeqEqual
  <2> QED
    BY <2>2, <2>3, <2>4, <2>7 DEF IsPrefix, p, q
<1> QED
  BY <1>1, LineInvAlways, PTL

\* The bytes decode64 writes are followed by a zero of what it allocated
\* (encoder.c, decode64).
THEOREM RoomSafe == LineSpec => []RoomEnough
<1>1. LineInv => RoomEnough
  <2> SUFFICES ASSUME LineInv, linePc = "printed" PROVE Len(plain) < dlen
    BY DEF RoomEnough
  <2>1. Len(line) \in Nat /\ Len(string) \in Nat /\ Len(string) >= 1
    BY StringFacts DEF LineInv, LineTypeOK
  <2>2. Groups \in Nat
    BY <2>1 DEF Groups
  <2>3. /\ Len(line) = 4 * Groups /\ Len(string) <= 3 * Groups
        /\ dlen = (IF Len(string) = 3 * Groups THEN Len(line) ELSE Len(line) - 2)
        /\ Len(plain) = (IF Len(string) = 3 * Groups THEN Len(string) ELSE 3 * Groups - 2)
    BY DEF LineInv, Encoded, DecodedRight
  <2> QED
    BY <2>1, <2>2, <2>3
<1> QED
  BY <1>1, LineInvAlways, PTL
=============================================================================
