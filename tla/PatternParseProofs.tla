------------------------- MODULE PatternParseProofs -------------------------
(***************************************************************************)
(* Theorems about PatternParse, for any number of sessions, operators and  *)
(* patterns.                                                               *)
(***************************************************************************)
EXTENDS PatternParse, FiniteSetTheorems, SequenceTheorems, WellFoundedInduction, TLAPS

Symbols == Texts \cup Separators

-----------------------------------------------------------------------------
(* The helpers.                                                            *)

\* A set of numbers has a least element.
LEMMA LeastOfFacts ==
  ASSUME NEW S \in SUBSET Nat, S # {}
  PROVE  LeastOf(S) \in S /\ \A j \in S : LeastOf(S) <= j
<1> DEFINE R == OpToRel(<, Nat)
<1>1. IsWellFoundedOn(R, Nat)
  BY NatLessThanWellFounded
<1>2. \A k, m \in Nat : k < m => <<k, m>> \in R
  BY DEF OpToRel
<1> HIDE DEF R
<1>3. PICK m \in S : \A k \in S : <<k, m>> \notin R
  BY <1>1, WFMin
<1>4. \A k \in S : ~(k < m) /\ k \in Nat /\ m \in Nat
  BY <1>2, <1>3
<1>5. \E i \in S : \A j \in S : i <= j
  BY <1>4
<1> QED
  BY <1>5 DEF LeastOf

\* The k-th place of a set.
LEMMA NthOf ==
  ASSUME NEW S \in SUBSET Nat, IsFiniteSet(S), NEW i \in S
  PROVE  Nth(S, Cardinality({j \in S : j <= i})) = i
<1> DEFINE To(k) == {j \in S : j <= k}
<1>1. ASSUME NEW a \in S, NEW b \in S, a < b
      PROVE  Cardinality(To(a)) # Cardinality(To(b))
  <2>0. \A k \in S : k \in Nat
    OBVIOUS
  <2>1. To(b) \in SUBSET S /\ To(a) \in SUBSET To(b)
    <3>1. \A k \in S : k <= a => k <= b
      BY <1>1, <2>0
    <3> QED
      BY <3>1
  <2>2. b \in To(b) /\ b \notin To(a)
    BY <1>1
  <2> HIDE DEF To
  <2>3. IsFiniteSet(To(b))
    BY <2>1, FS_Subset
  <2>4. Cardinality(To(b)) = Cardinality(To(a)) => To(b) = To(a)
    BY <2>1, <2>3, FS_Subset
  <2> QED
    BY <2>2, <2>4
<1>2. \A a \in S : Cardinality(To(a)) = Cardinality(To(i)) => a = i
  BY <1>1
<1>3. Nth(S, Cardinality(To(i))) = CHOOSE a \in S : Cardinality(To(a)) = Cardinality(To(i))
  BY DEF Nth
<1> HIDE DEF To
<1>4. Nth(S, Cardinality(To(i))) = i
  BY <1>2, <1>3
<1> QED
  BY <1>4 DEF To

\* Where a piece ends: at the first delimiter, or after the string.
LEMMA EndOfFacts ==
  ASSUME NEW T, NEW str \in Seq(T), NEW d, NEW i \in 1 .. Len(str) + 1
  PROVE  /\ EndOf(str, d, i) \in i .. Len(str) + 1
         /\ EndOf(str, d, i) = Len(str) + 1 \/ str[EndOf(str, d, i)] = d
         /\ \A j \in i .. EndOf(str, d, i) - 1 : j \in 1 .. Len(str) /\ str[j] # d
<1> DEFINE E == {j \in i .. Len(str) + 1 : j = Len(str) + 1 \/ str[j] = d}
<1>1. Len(str) \in Nat
  OBVIOUS
<1>2. E \in SUBSET Nat /\ Len(str) + 1 \in E
  BY <1>1
<1>3. EndOf(str, d, i) = LeastOf(E)
  BY DEF EndOf
<1>4. LeastOf(E) \in E /\ \A j \in E : LeastOf(E) <= j
  <2> HIDE DEF E
  <2> QED
    BY <1>2, LeastOfFacts
<1>5. \A j \in i .. LeastOf(E) - 1 : j \in i .. Len(str) + 1 /\ j \notin E /\ j < LeastOf(E)
  <2>1. LeastOf(E) \in i .. Len(str) + 1
    BY <1>4
  <2>2. \A j \in E : LeastOf(E) <= j
    BY <1>4
  <2> HIDE DEF E
  <2> QED
    BY <1>1, <2>1, <2>2
<1>6. \A j \in i .. LeastOf(E) - 1 : j \in 1 .. Len(str) /\ str[j] # d
  BY <1>1, <1>5
<1> QED
  BY <1>3, <1>4, <1>6

\* A part of a sequence.
LEMMA PartFacts ==
  ASSUME NEW T, NEW s \in Seq(T), NEW m \in 1 .. Len(s) + 1, NEW n \in m .. Len(s) + 1
  PROVE  /\ SubSeq(s, m, n - 1) \in Seq(T) /\ Len(SubSeq(s, m, n - 1)) = n - m
         /\ \A i \in 1 .. n - m : SubSeq(s, m, n - 1)[i] = s[m + i - 1]
<1>1. \A i \in m .. n - 1 : s[i] \in T
  OBVIOUS
<1>2. /\ m \in Int /\ n - 1 \in Int
      /\ m <= n - 1 => (n - 1) - m + 1 = n - m
      /\ ~(m <= n - 1) => n - m = 0
  OBVIOUS
<1>3. /\ SubSeq(s, m, n - 1) \in Seq(T)
      /\ Len(SubSeq(s, m, n - 1)) = IF m <= n - 1 THEN (n - 1) - m + 1 ELSE 0
      /\ \A i \in 1 .. (n - 1) - m + 1 : SubSeq(s, m, n - 1)[i] = s[m + i - 1]
  BY <1>1, <1>2, SubSeqProperties
<1> QED
  BY <1>2, <1>3

\* The starts of the pieces that are not empty.
LEMMA StartsFacts ==
  ASSUME NEW T, NEW str \in Seq(T), NEW d
  PROVE  /\ IsFiniteSet(Starts(str, d)) /\ Starts(str, d) \in SUBSET (1 .. Len(str))
         /\ Starts(str, d) \in SUBSET Nat
         /\ \A i \in 1 .. Len(str) :
              i \in Starts(str, d) <=> str[i] # d /\ (i = 1 \/ str[i - 1] = d)
         /\ IsFiniteSet(Places(str, d)) /\ Places(str, d) \in SUBSET (1 .. Len(str) + 1)
<1>1. Len(str) \in Nat /\ DOMAIN str = 1 .. Len(str)
  OBVIOUS
<1>2. Starts(str, d) \in SUBSET (1 .. Len(str)) /\ Starts(str, d) \in SUBSET Nat
  BY <1>1 DEF Starts
<1>3. IsFiniteSet(1 .. Len(str)) /\ IsFiniteSet(1 .. Len(str) + 1)
  <2>1. 1 \in Int /\ Len(str) \in Int /\ Len(str) + 1 \in Int
    BY <1>1
  <2> QED
    BY <2>1, FS_Interval
<1>4. IsFiniteSet(Starts(str, d))
  BY <1>2, <1>3, FS_Subset
<1>5. Places(str, d) \in SUBSET (1 .. Len(str) + 1)
  BY DEF Places
<1>6. IsFiniteSet(Places(str, d))
  BY <1>3, <1>5, FS_Subset
<1>7. \A i \in 1 .. Len(str) : i \in Starts(str, d) <=> str[i] # d /\ (i = 1 \/ str[i - 1] = d)
  BY <1>1 DEF Starts, Places
<1> QED
  BY <1>2, <1>4, <1>5, <1>6, <1>7

-----------------------------------------------------------------------------
(* A buffer on the way of strtok.                                          *)

Before(str, d, at) == {i \in Starts(str, d) : i < at}

\* Buffer c, which held str, after calls of strtok with delimiter d that gave k tokens
\* and left at as the place to go on.
Walked(c, str, d, at, k) ==
  /\ c \in Seq(Symbols \cup {Nul}) /\ Len(c) = Len(str) + 1 /\ c[Len(str) + 1] = Nul
  /\ \A i \in 1 .. Len(str) : str[i] # d \/ i >= at => c[i] = str[i]
  /\ at \in 1 .. Len(str) + 1 /\ (at = 1 \/ at = Len(str) + 1 \/ str[at - 1] = d)
  /\ k \in Nat /\ Cardinality(Before(str, d, at)) = k
  /\ \A i \in Before(str, d, at) : c[EndOf(str, d, i)] = Nul
  /\ \A j \in 1 .. k : Nth(Starts(str, d), j) \in Before(str, d, at)

\* The symbols differ from the end of a string.
LEMMA SymbolFacts == Nul \notin Symbols /\ Separators \in SUBSET Symbols
<1>1. Nul \notin Operators /\ Nul \notin Numeric \cup {Other} \cup Separators
  <2>1. Nul \notin Operators
    BY PatternParseAssumption
  <2>2. Nul \notin Numeric /\ Nul # Other
    BY DEF Nul, Numeric, DigitTexts, Number, Trailing, AtoiOnly, Other
  <2>3. Nul # Semicolon /\ Nul # Colon
    BY Zenon DEF Nul, Semicolon, Colon
  <2> QED
    BY <2>1, <2>2, <2>3 DEF Separators
<1>2. Separators \in SUBSET Symbols
  BY DEF Symbols
<1>3. Nul \notin Symbols
  BY <1>1 DEF Symbols, Texts
<1> QED
  BY <1>2, <1>3

\* What atoi reads is a symbol of the model too.
LEMMA AtoiSymbol == \A t \in Symbols : Atoi(t) \in Symbols
BY DEF Atoi, Symbols, Texts, Numeric, DigitTexts

\* Where a call of strtok finds its token.
FromOf(c, at, d) == LeastOf({i \in at .. Len(c) : c[i] # d})

\* It is the start of a token, or the end of the string when there is none.
LEMMA FromFacts ==
  ASSUME NEW str \in Seq(Symbols), NEW d \in Separators, NEW c, NEW at, NEW k,
         Walked(c, str, d, at, k)
  PROVE  /\ c[FromOf(c, at, d)] = Nul =>
              /\ FromOf(c, at, d) = Len(str) + 1 /\ k = Cardinality(Starts(str, d))
              /\ Walked(c, str, d, Len(str) + 1, k)
         /\ c[FromOf(c, at, d)] # Nul =>
              /\ FromOf(c, at, d) \in Starts(str, d) /\ FromOf(c, at, d) >= at
              /\ \A i \in Starts(str, d) : i < FromOf(c, at, d) => i < at
<1> DEFINE N == Len(str)
           F == {i \in at .. Len(c) : c[i] # d}
           from == FromOf(c, at, d)
           S == Starts(str, d)
<1>1. N \in Nat /\ at \in 1 .. N + 1 /\ Len(c) = N + 1 /\ c[N + 1] = Nul
  BY DEF Walked
<1>2. Nul # d /\ \A i \in 1 .. N : str[i] # Nul
  BY SymbolFacts
<1>3. F \in SUBSET Nat /\ N + 1 \in F
  BY <1>1, <1>2
<1>4. from \in F /\ \A i \in F : from <= i
  <2>1. from = LeastOf(F)
    BY DEF FromOf
  <2> HIDE DEF F
  <2> QED
    BY <1>3, <2>1, LeastOfFacts
<1>5. from \in at .. N + 1 /\ from \in Nat /\ c[from] # d
  BY <1>1, <1>4
<1>6. \A i \in at .. N + 1 : i < from => c[i] = d
  <2>1. \A i \in at .. N + 1 : i < from => i \notin F
    BY <1>1, <1>4, <1>5
  <2> QED
    BY <1>1, <2>1
<1>7. \A i \in 1 .. N : i >= at => c[i] = str[i]
  BY DEF Walked
<1>8. /\ S \in SUBSET (1 .. N)
      /\ \A i \in 1 .. N : i \in S <=> str[i] # d /\ (i = 1 \/ str[i - 1] = d)
  BY StartsFacts
<1>9. \A i \in S : i < from => i < at
  <2> SUFFICES ASSUME NEW i \in S, i < from, i >= at PROVE FALSE
    BY <1>1, <1>5, <1>8
  <2>1. i \in 1 .. N /\ i \in at .. N + 1
    BY <1>1, <1>8
  <2>2. c[i] = d /\ c[i] = str[i]
    BY <1>6, <1>7, <2>1
  <2> QED
    BY <1>8, <2>1, <2>2
<1> HIDE DEF F, from
<1>10. ASSUME c[from] = Nul
       PROVE  /\ from = N + 1 /\ k = Cardinality(S)
              /\ Walked(c, str, d, N + 1, k)
  <2>1. from = N + 1
    <3> SUFFICES ASSUME from \in 1 .. N PROVE FALSE
      BY <1>1, <1>5
    <3> QED
      BY <1>2, <1>5, <1>7, <1>10
  <2>2. Before(str, d, at) = S /\ Before(str, d, N + 1) = S
    <3>1. \A i \in S : i < N + 1 /\ i < at
      BY <1>1, <1>8, <1>9, <2>1
    <3> QED
      BY <3>1 DEF Before
  <2>3. N + 1 \in 1 .. N + 1
    BY <1>1
  <2>4. \A i \in 1 .. N : i >= N + 1 => i >= at
    BY <1>1
  <2> QED
    BY <2>1, <2>2, <2>3, <2>4 DEF Walked
<1>11. ASSUME c[from] # Nul
       PROVE  from \in S /\ from >= at
  <2>1. from \in 1 .. N /\ from >= at
    BY <1>1, <1>5, <1>11
  <2>2. str[from] # d
    BY <1>5, <1>7, <2>1
  <2>3. from = 1 \/ str[from - 1] = d
    <3>1. CASE from = at
      BY <1>1, <2>1, <3>1 DEF Walked
    <3>2. CASE from > at
      <4>1. from - 1 \in at .. N + 1 /\ from - 1 \in 1 .. N /\ from - 1 < from
        BY <1>1, <2>1, <3>2
      <4> QED
        BY <1>6, <1>7, <4>1
    <3> QED
      BY <1>1, <2>1, <3>1, <3>2
  <2> QED
    BY <1>8, <2>1, <2>2, <2>3
<1> QED
  BY <1>9, <1>10, <1>11 DEF from

\* The token's end, in the buffer and in the string.
LEMMA TokenEnd ==
  ASSUME NEW str \in Seq(Symbols), NEW d \in Separators, NEW c, NEW at, NEW k,
         Walked(c, str, d, at, k), NEW i \in at .. Len(str)
  PROVE  LeastOf({j \in i .. Len(c) : c[j] \in {d, Nul}}) = EndOf(str, d, i)
<1>1. Len(str) \in Nat /\ at \in 1 .. Len(str) + 1 /\ Len(c) = Len(str) + 1
  BY DEF Walked
<1>2. \A j \in i .. Len(str) : j \in 1 .. Len(str) /\ c[j] = str[j] /\ str[j] # Nul
  <2>1. \A j \in i .. Len(str) : j \in 1 .. Len(str) /\ j >= at
    BY <1>1
  <2>2. \A j \in 1 .. Len(str) : str[j] # Nul
    BY SymbolFacts
  <2> QED
    BY <2>1, <2>2 DEF Walked
<1>3. c[Len(str) + 1] = Nul
  BY DEF Walked
<1>4. \A j \in i .. Len(str) + 1 :
        c[j] \in {d, Nul} <=> j = Len(str) + 1 \/ str[j] = d
  <2>1. \A j \in i .. Len(str) + 1 : j = Len(str) + 1 \/ j \in i .. Len(str)
    BY <1>1
  <2>2. Len(str) + 1 \notin i .. Len(str)
    BY <1>1
  <2> QED
    BY <1>2, <1>3, <2>1, <2>2
<1>5. {j \in i .. Len(c) : c[j] \in {d, Nul}}
        = {j \in i .. Len(str) + 1 : j = Len(str) + 1 \/ str[j] = d}
  BY <1>1, <1>4
<1> QED
  BY <1>5 DEF EndOf

\* The piece of str that starts at i.
Piece(str, d, i) == SubSeq(str, i, EndOf(str, d, i) - 1)

\* The text at a token that strtok has given.
LEMMA TextFacts ==
  ASSUME NEW str \in Seq(Symbols), NEW d \in Separators, NEW c, NEW at, NEW k,
         Walked(c, str, d, at, k), NEW m, NEW b, m[b] = c, NEW i \in Before(str, d, at)
  PROVE  Text(Pointer(b, i), m) = Piece(str, d, i)
<1> DEFINE e == EndOf(str, d, i)
<1>1. Len(str) \in Nat /\ Len(c) = Len(str) + 1 /\ c \in Seq(Symbols \cup {Nul})
  BY DEF Walked
<1>2. i \in 1 .. Len(str)
  BY StartsFacts DEF Before
<1>3. i \in 1 .. Len(str) + 1
  BY <1>1, <1>2
<1>4. e \in i .. Len(str) + 1 /\ \A j \in i .. e - 1 : j \in 1 .. Len(str) /\ str[j] # d
  BY <1>3, EndOfFacts
<1>5. c[e] = Nul
  BY DEF Walked
<1> HIDE DEF e
<1>6. \A j \in i .. e - 1 : c[j] = str[j] /\ c[j] # Nul
  <2>1. \A j \in 1 .. Len(str) : str[j] # Nul
    BY SymbolFacts
  <2> QED
    BY <1>4, <2>1 DEF Walked
<1>7. LeastOf({j \in i .. Len(c) : c[j] = Nul}) = e
  <2> DEFINE Z == {j \in i .. Len(c) : c[j] = Nul}
  <2>1. e \in Z /\ Z \in SUBSET Nat
    BY <1>1, <1>2, <1>4, <1>5
  <2>2. \A j \in Z : e <= j
    BY <1>1, <1>2, <1>4, <1>6
  <2>3. LeastOf(Z) \in Z /\ LeastOf(Z) <= e
    <3> HIDE DEF Z
    <3> QED
      BY <2>1, LeastOfFacts
  <2>4. e <= LeastOf(Z) /\ e \in Nat /\ LeastOf(Z) \in Nat
    <3> HIDE DEF Z
    <3> QED
      BY <2>1, <2>2, <2>3
  <2> HIDE DEF Z
  <2>5. LeastOf(Z) = e
    BY <2>3, <2>4
  <2> QED
    BY <2>5 DEF Z
<1>8. Text(Pointer(b, i), m) = SubSeq(c, i, e - 1)
  <2>1. Pointer(b, i).buf = b /\ Pointer(b, i).at = i
    BY DEF Pointer
  <2>2. Text(Pointer(b, i), m)
          = SubSeq(c, i, LeastOf({j \in i .. Len(c) : c[j] = Nul}) - 1)
    BY <2>1, Zenon DEF Text
  <2> QED
    BY <1>7, <2>2, Zenon
<1>9. SubSeq(c, i, e - 1) = SubSeq(str, i, e - 1)
  <2>1. /\ SubSeq(c, i, e - 1) \in Seq(Symbols \cup {Nul}) /\ Len(SubSeq(c, i, e - 1)) = e - i
        /\ \A j \in 1 .. e - i : SubSeq(c, i, e - 1)[j] = c[i + j - 1]
    <3>1. i \in 1 .. Len(c) + 1 /\ e \in i .. Len(c) + 1
      BY <1>1, <1>3, <1>4
    <3> QED
      BY <1>1, <3>1, PartFacts
  <2>2. /\ SubSeq(str, i, e - 1) \in Seq(Symbols) /\ Len(SubSeq(str, i, e - 1)) = e - i
        /\ \A j \in 1 .. e - i : SubSeq(str, i, e - 1)[j] = str[i + j - 1]
    BY <1>3, <1>4, PartFacts
  <2>3. \A j \in 1 .. e - i : i + j - 1 \in i .. e - 1
    BY <1>2, <1>4
  <2>4. \A j \in 1 .. e - i : SubSeq(c, i, e - 1)[j] = SubSeq(str, i, e - 1)[j]
    BY <1>6, <2>1, <2>2, <2>3
  <2> QED
    BY <2>1, <2>2, <2>4
<1> QED
  BY <1>8, <1>9 DEF e, Piece

\* One more token.
LEMMA WalkedOn ==
  ASSUME NEW str \in Seq(Symbols), NEW d \in Separators, NEW c, NEW at, NEW k,
         Walked(c, str, d, at, k), NEW from \in Starts(str, d), from >= at,
         \A i \in Starts(str, d) : i < from => i < at
  PROVE  LET end == EndOf(str, d, from) IN
         /\ Nth(Starts(str, d), k + 1) = from /\ k + 1 <= Cardinality(Starts(str, d))
         /\ Walked([c EXCEPT ![end] = Nul], str, d,
                   IF c[end] = Nul THEN end ELSE end + 1, k + 1)
<1> DEFINE N == Len(str)
           S == Starts(str, d)
           end == EndOf(str, d, from)
           on == IF c[end] = Nul THEN end ELSE end + 1
           new == [c EXCEPT ![end] = Nul]
<1>1. /\ N \in Nat /\ at \in 1 .. N + 1 /\ Len(c) = N + 1 /\ c[N + 1] = Nul /\ k \in Nat
      /\ c \in Seq(Symbols \cup {Nul})
  BY DEF Walked
<1>2. /\ S \in SUBSET (1 .. N) /\ IsFiniteSet(S) /\ S \in SUBSET Nat
      /\ \A i \in 1 .. N : i \in S <=> str[i] # d /\ (i = 1 \/ str[i - 1] = d)
  BY StartsFacts
<1>3. from \in 1 .. N /\ from \in 1 .. N + 1
  BY <1>1, <1>2
<1>4. /\ end \in from .. N + 1 /\ (end = N + 1 \/ str[end] = d)
      /\ \A j \in from .. end - 1 : j \in 1 .. N /\ str[j] # d
  BY <1>3, EndOfFacts
<1>5. d # Nul /\ \A i \in 1 .. N : str[i] # Nul
  BY SymbolFacts
<1>6. \A i \in 1 .. N : str[i] # d \/ i >= at => c[i] = str[i]
  BY DEF Walked
<1>7. str[from] # d
  BY <1>2, <1>3
<1> HIDE DEF end
<1>8. end > from
  <2> SUFFICES ASSUME end = from PROVE FALSE
    BY <1>3, <1>4
  <2> QED
    BY <1>1, <1>3, <1>4, <1>7
<1>9. /\ on \in 1 .. N + 1 /\ on >= end /\ on <= end + 1
      /\ on = N + 1 \/ (on = end + 1 /\ str[on - 1] = d)
  <2>1. CASE end = N + 1
    BY <1>1, <2>1
  <2>2. CASE end # N + 1
    <3>1. end \in 1 .. N /\ end >= at /\ str[end] = d
      BY <1>1, <1>3, <1>4, <2>2
    <3>2. c[end] # Nul
      BY <1>5, <1>6, <3>1
    <3>3. on = end + 1
      BY <3>2
    <3>4. end + 1 - 1 = end /\ end + 1 \in 1 .. N + 1
      BY <1>1, <3>1
    <3> QED
      BY <3>1, <3>3, <3>4
  <2> QED
    BY <2>1, <2>2
<1> HIDE DEF on
<1>10. Before(str, d, on) = Before(str, d, at) \cup {from}
  <2>1. ASSUME NEW i \in S, i < on PROVE i < at \/ i = from
    <3> SUFFICES ASSUME i > from PROVE FALSE
      BY <1>1, <1>2, <1>3
    <3>1. i \in 1 .. N /\ i <= end
      BY <1>1, <1>2, <1>4, <1>9, <2>1
    <3>2. str[i] # d /\ str[i - 1] = d
      <4>1. i # 1
        BY <1>3, <3>1
      <4> QED
        BY <1>2, <3>1, <4>1
    <3>3. i - 1 \in from .. end - 1
      BY <1>3, <1>4, <3>1
    <3> QED
      BY <1>4, <3>2, <3>3
  <2>2. \A i \in S : i < at => i < on
    BY <1>1, <1>2, <1>3, <1>4, <1>9
  <2>3. from < on
    BY <1>3, <1>4, <1>8, <1>9
  <2> QED
    BY <2>1, <2>2, <2>3 DEF Before
<1>11. IsFiniteSet(Before(str, d, at)) /\ from \notin Before(str, d, at)
  <2>1. Before(str, d, at) \in SUBSET S
    BY DEF Before
  <2>2. ~(from < at)
    BY <1>1, <1>3
  <2> QED
    BY <1>2, <2>1, <2>2, FS_Subset DEF Before
<1>12. Cardinality(Before(str, d, on)) = k + 1
  <2>1. Cardinality(Before(str, d, at)) = k
    BY DEF Walked
  <2> QED
    BY <1>10, <1>11, <2>1, FS_AddElement
<1>13. Before(str, d, on) = {j \in S : j <= from}
  <2>1. \A j \in S : j <= from <=> j < at \/ j = from
    BY <1>1, <1>2, <1>3
  <2>2. \A j : j \in Before(str, d, on) <=> j \in Before(str, d, at) \/ j = from
    BY <1>10
  <2> QED
    BY <2>1, <2>2 DEF Before
<1>14. Nth(S, k + 1) = from
  <2>1. Nth(S, Cardinality({j \in S : j <= from})) = from
    BY <1>2, NthOf
  <2> QED
    BY <1>12, <1>13, <2>1
<1>15. k + 1 <= Cardinality(S)
  <2>1. Before(str, d, on) \in SUBSET S
    BY DEF Before
  <2>2. Cardinality(Before(str, d, on)) <= Cardinality(S)
    BY <1>2, <2>1, FS_Subset
  <2> QED
    BY <1>12, <2>2
<1>16. /\ new \in Seq(Symbols \cup {Nul}) /\ Len(new) = N + 1
       /\ \A i \in 1 .. N + 1 : new[i] = IF i = end THEN Nul ELSE c[i]
  <2>1. end \in 1 .. Len(c) /\ Nul \in Symbols \cup {Nul}
    BY <1>1, <1>3, <1>4
  <2> QED
    BY <1>1, <2>1
<1> HIDE DEF new
<1>17. new[N + 1] = Nul
  <2>1. N + 1 \in 1 .. N + 1
    BY <1>1
  <2> QED
    BY <1>1, <1>16, <2>1
<1>18. \A i \in 1 .. N : str[i] # d \/ i >= on => new[i] = str[i]
  <2> SUFFICES ASSUME NEW i \in 1 .. N, str[i] # d \/ i >= on PROVE new[i] = str[i]
    OBVIOUS
  <2>1. i # end
    <3>1. CASE str[i] # d
      BY <1>1, <1>4, <3>1
    <3>2. CASE i >= on
      BY <1>1, <1>3, <1>4, <1>9, <3>2
    <3> QED
      BY <3>1, <3>2
  <2>2. c[i] = str[i]
    <3>1. i >= on => i >= at
      BY <1>1, <1>3, <1>4, <1>9
    <3> QED
      BY <1>6, <3>1
  <2>3. i \in 1 .. N + 1
    BY <1>1
  <2> QED
    BY <1>16, <2>1, <2>2, <2>3
<1>19. \A i \in Before(str, d, on) : new[EndOf(str, d, i)] = Nul
  <2> SUFFICES ASSUME NEW i \in Before(str, d, on) PROVE new[EndOf(str, d, i)] = Nul
    OBVIOUS
  <2>1. i \in 1 .. N + 1 /\ i \in S
    BY <1>1, <1>2 DEF Before
  <2>2. EndOf(str, d, i) \in 1 .. N + 1
    <3>1. EndOf(str, d, i) \in i .. N + 1
      BY <2>1, EndOfFacts
    <3> QED
      BY <1>1, <2>1, <3>1
  <2>3. CASE i = from
    <3>1. EndOf(str, d, i) = end
      BY <2>3 DEF end
    <3> QED
      BY <1>16, <2>2, <3>1
  <2>4. CASE i \in Before(str, d, at)
    <3>1. c[EndOf(str, d, i)] = Nul
      BY <2>4 DEF Walked
    <3> QED
      BY <1>16, <2>2, <3>1
  <2> QED
    BY <1>10, <2>3, <2>4
<1>20. \A j \in 1 .. k + 1 : Nth(S, j) \in Before(str, d, on)
  <2>1. \A j \in 1 .. k : Nth(S, j) \in Before(str, d, at)
    BY DEF Walked
  <2>2. \A j \in 1 .. k + 1 : j \in 1 .. k \/ j = k + 1
    BY <1>1
  <2> QED
    BY <1>10, <1>14, <2>1, <2>2
<1>21. Walked(new, str, d, on, k + 1)
  <2>1. k + 1 \in Nat
    BY <1>1
  <2> QED
    BY <1>9, <1>12, <1>16, <1>17, <1>18, <1>19, <1>20, <2>1 DEF Walked
<1> QED
  BY <1>14, <1>15, <1>21 DEF end, on, new

\* What a call of strtok gives after k tokens of str: the next, or NULL if there is none.
Gives(r, m, b, str, d, k) ==
  \/ /\ r.tok = Nowhere /\ r.save = Pointer(b, Len(str) + 1) /\ r.mem = m
     /\ Walked(m[b], str, d, Len(str) + 1, k) /\ k = Cardinality(Starts(str, d))
  \/ /\ r.tok = Pointer(b, Nth(Starts(str, d), k + 1)) /\ r.tok # Nowhere
     /\ k + 1 <= Cardinality(Starts(str, d))
     /\ \E c, at : /\ r.save = Pointer(b, at) /\ r.mem = [m EXCEPT ![b] = c]
                   /\ Walked(c, str, d, at, k + 1)

\* A call of strtok gives that.
LEMMA StrtokFacts ==
  ASSUME NEW str \in Seq(Symbols), NEW d \in Separators, NEW m, NEW p, NEW k,
         Walked(m[p.buf], str, d, p.at, k)
  PROVE  Gives(Strtok(m, p, d), m, p.buf, str, d, k)
<1> DEFINE c == m[p.buf]
           from == FromOf(c, p.at, d)
           end == LeastOf({i \in from .. Len(c) : c[i] \in {d, Nul}})
           e == EndOf(str, d, from)
           on == IF c[e] = Nul THEN e ELSE e + 1
           r == Strtok(m, p, d)
<1>1. /\ c[from] = Nul => /\ from = Len(str) + 1 /\ k = Cardinality(Starts(str, d))
                          /\ Walked(c, str, d, Len(str) + 1, k)
      /\ c[from] # Nul => /\ from \in Starts(str, d) /\ from >= p.at
                          /\ \A i \in Starts(str, d) : i < from => i < p.at
  <2> HIDE DEF c
  <2>1. Walked(c, str, d, p.at, k)
    BY DEF c
  <2> QED
    BY <2>1, FromFacts
<1>2. r = IF c[from] = Nul
            THEN [tok |-> Nowhere, save |-> Pointer(p.buf, from), mem |-> m]
            ELSE [tok |-> Pointer(p.buf, from),
                  save |-> Pointer(p.buf, IF c[end] = Nul THEN end ELSE end + 1),
                  mem |-> [m EXCEPT ![p.buf] = [c EXCEPT ![end] = Nul]]]
  BY Zenon DEF Strtok, FromOf
<1>3. ASSUME c[from] # Nul PROVE end = e
  <2>1. from \in p.at .. Len(str)
    <3>1. from \in 1 .. Len(str) /\ from >= p.at
      BY <1>1, <1>3, StartsFacts
    <3>2. p.at \in 1 .. Len(str) + 1
      BY DEF Walked
    <3> HIDE DEF from
    <3> QED
      BY <3>1, <3>2
  <2> HIDE DEF c, from
  <2>2. Walked(c, str, d, p.at, k)
    BY DEF c
  <2> QED
    BY <2>1, <2>2, TokenEnd
<1> HIDE DEF from, end, r
<1>4. CASE c[from] = Nul
  BY <1>1, <1>2, <1>4 DEF r, Gives
<1>5. CASE c[from] # Nul
  <2>1. /\ Nth(Starts(str, d), k + 1) = from /\ k + 1 <= Cardinality(Starts(str, d))
        /\ Walked([c EXCEPT ![e] = Nul], str, d, on, k + 1)
    BY <1>1, <1>5, WalkedOn
  <2>2. r = [tok |-> Pointer(p.buf, from), save |-> Pointer(p.buf, on),
             mem |-> [m EXCEPT ![p.buf] = [c EXCEPT ![e] = Nul]]]
    BY <1>2, <1>3, <1>5
  <2>3. Pointer(p.buf, from) # Nowhere
    <3>1. from \in 1 .. Len(str)
      BY <1>1, <1>5, StartsFacts
    <3> QED
      BY <3>1 DEF Pointer, Nowhere
  <2>4. \E c0, at : /\ r.save = Pointer(p.buf, at) /\ r.mem = [m EXCEPT ![p.buf] = c0]
                    /\ Walked(c0, str, d, at, k + 1)
    <3>1. /\ r.save = Pointer(p.buf, on) /\ r.mem = [m EXCEPT ![p.buf] = [c EXCEPT ![e] = Nul]]
      BY <2>2
    <3> HIDE DEF on, c, e
    <3> QED
      BY <2>1, <3>1
  <2>5. r.tok = Pointer(p.buf, from)
    BY <2>2
  <2> QED
    BY <2>1, <2>3, <2>4, <2>5 DEF r, Gives
<1> QED
  BY <1>4, <1>5

-----------------------------------------------------------------------------
(* The inductive invariant.                                                *)

ParseTypeOK ==
  /\ pattern \in PatternsSent
  /\ parsePc \in [Session -> {"start", "split", "option", "length", "end"} \cup Finished]
  /\ alone \in [Session -> BOOLEAN]
  /\ DOMAIN mem = Session \X {"pattern", "dup"}
  /\ DOMAIN opts = Session /\ DOMAIN op = Session /\ DOMAIN parsed = Session

\* The i-th option of a pattern, and whether the FTS is to take it.
Option(s, i) == Fields(pattern[s], Semicolon)[i]
RightOption(o) ==
  /\ Len(Fields(o, Colon)) = 2 /\ Fields(o, Colon)[1] \in {<<x>> : x \in Operators}
  /\ Fields(o, Colon)[2] \in {<<t>> : t \in Numeric}
Meaning(o) == <<Fields(o, Colon)[1][1], Atoi(Fields(o, Colon)[2][1])>>

\* A session that has not begun: nobody else's place is in its pattern.
Fresh(s) ==
  /\ mem[<<s, "pattern">>] = Append(pattern[s], Nul) /\ saved.buf # <<s, "pattern">>
  /\ opts[s] = <<>> /\ parsed[s] = <<>>

\* Its options are the first tokens of its pattern.
OptionsUpTo(s, at) ==
  /\ Walked(mem[<<s, "pattern">>], pattern[s], Semicolon, at, Len(opts[s]))
  /\ opts[s] \in Seq([buf : {<<s, "pattern">>}, at : Nat])
  /\ \A j \in 1 .. Len(opts[s]) :
       opts[s][j] = Pointer(<<s, "pattern">>, Nth(Starts(pattern[s], Semicolon), j))

\* All of them have been found, and the first n have been taken.
TakenUpTo(s, n) ==
  /\ OptionsUpTo(s, Len(pattern[s]) + 1)
  /\ Len(opts[s]) = Cardinality(Starts(pattern[s], Semicolon)) /\ Len(opts[s]) >= 2
  /\ n \in Nat /\ n < Len(opts[s]) /\ parsed[s] \in Seq(Symbols \X Symbols)
  /\ \A j \in 1 .. n : RightOption(Option(s, j)) /\ parsed[s][j] = Meaning(Option(s, j))

\* strtok has given k fields of the i-th option's copy.
FieldsUpTo(s, i, k) ==
  /\ saved.buf = <<s, "dup">>
  /\ Walked(mem[<<s, "dup">>], Option(s, i), Colon, saved.at, k)
  /\ op[s] = IF k = 0 THEN Nowhere
                      ELSE Pointer(<<s, "dup">>, Nth(Starts(Option(s, i), Colon), 1))

RightSplit(s) ==
  saved.buf = <<s, "pattern">> /\ OptionsUpTo(s, saved.at) /\ parsed[s] = <<>>

RightLength(s) ==
  LET i == Len(parsed[s]) + 1 IN
  /\ TakenUpTo(s, Len(parsed[s]))
  /\ \/ FieldsUpTo(s, i, 0) /\ Cardinality(Starts(Option(s, i), Colon)) = 0
     \/ FieldsUpTo(s, i, 1)

RightEnd(s) ==
  LET i == Len(parsed[s]) IN
  /\ i >= 1 /\ TakenUpTo(s, i - 1) /\ FieldsUpTo(s, i, 2)
  /\ parsed[s][i][2] = Meaning(Option(s, i))[2] /\ Fields(Option(s, i), Colon)[2][1] \in Numeric

RightParsed(s) == CValid(pattern[s]) /\ parsed[s] = CParsed(pattern[s])

\* A session that no other has disturbed.
RightNow(s) ==
  /\ parsePc[s] = "split" => RightSplit(s)
  /\ parsePc[s] = "option" => TakenUpTo(s, Len(parsed[s]))
  /\ parsePc[s] = "length" => RightLength(s)
  /\ parsePc[s] = "end" => RightEnd(s)
  /\ Parsed(s) => RightParsed(s)
  /\ parsePc[s] = "rejected" => ~CValid(pattern[s])

Right(s) == (parsePc[s] = "start" => Fresh(s)) /\ (alone[s] => RightNow(s))

CrashNotAlone == (\E s \in Session : parsePc[s] = "crashed") => \E s \in Session : ~alone[s]

ParseInv == ParseTypeOK /\ (\A s \in Session : Right(s)) /\ CrashNotAlone

-----------------------------------------------------------------------------
(* Options and fields.                                                     *)

\* Two texts do not touch.
Spaced(str) == \A i \in 1 .. Len(str) - 1 : str[i] \in Separators \/ str[i + 1] \in Separators

\* What C2 sends.
LEMMA PatternFacts ==
  ASSUME ParseTypeOK, NEW s \in Session
  PROVE  pattern[s] \in Seq(Symbols) /\ Spaced(pattern[s])
<1>1. pattern \in PatternsSent
  BY DEF ParseTypeOK
<1>2. pattern \in [Session -> Seq(Texts \cup Separators)]
  BY <1>1, PatternParseAssumption, Zenon
<1>3. pattern[s] \in Seq(Symbols)
  BY <1>2 DEF Symbols
<1>4. \A i \in 1 .. Len(pattern[s]) - 1 :
        pattern[s][i] \in Separators \/ pattern[s][i + 1] \in Separators
  BY <1>1, PatternParseAssumption, Zenon
<1> QED
  BY <1>3, <1>4 DEF Spaced

\* As many fields as starts.
LEMMA FieldsFacts ==
  ASSUME NEW str \in Seq(Symbols), NEW d
  PROVE  /\ Cardinality(Starts(str, d)) \in Nat
         /\ Len(Fields(str, d)) = Cardinality(Starts(str, d))
         /\ DOMAIN Fields(str, d) = 1 .. Cardinality(Starts(str, d))
         /\ \A k \in 1 .. Cardinality(Starts(str, d)) :
              Fields(str, d)[k] = Piece(str, d, Nth(Starts(str, d), k))
<1> DEFINE S == Starts(str, d)
           K == Cardinality(S)
           G(k) == Piece(str, d, Nth(S, k))
<1>1. K \in Nat
  <2>1. IsFiniteSet(S)
    BY StartsFacts
  <2> QED
    BY <2>1, FS_CardinalityType
<1>2. Fields(str, d) = [k \in 1 .. K |-> G(k)]
  BY DEF Fields, Pieces, Piece
<1> HIDE DEF K, G
<1>3. Len([k \in 1 .. K |-> G(k)]) = K
  BY <1>1
<1>4. /\ K \in Nat /\ Len(Fields(str, d)) = K /\ DOMAIN Fields(str, d) = 1 .. K
      /\ \A k \in 1 .. K : Fields(str, d)[k] = G(k)
  BY <1>1, <1>2, <1>3
<1> QED
  BY <1>4 DEF K, G

\* The field that starts at i: it has no delimiter.
LEMMA FieldAt ==
  ASSUME NEW str \in Seq(Symbols), NEW d \in Separators, NEW i \in Starts(str, d)
  PROVE  /\ Piece(str, d, i) \in Seq(Symbols)
         /\ Len(Piece(str, d, i)) = EndOf(str, d, i) - i /\ Len(Piece(str, d, i)) >= 1
         /\ \A j \in 1 .. Len(Piece(str, d, i)) :
              /\ Piece(str, d, i)[j] # d /\ i + j - 1 \in 1 .. Len(str)
              /\ Piece(str, d, i)[j] = str[i + j - 1]
<1> DEFINE e == EndOf(str, d, i)
           f == SubSeq(str, i, e - 1)
<1>1. Len(str) \in Nat /\ i \in 1 .. Len(str) /\ str[i] # d
  BY StartsFacts
<1>2. i \in 1 .. Len(str) + 1
  BY <1>1
<1>3. /\ e \in i .. Len(str) + 1 /\ (e = Len(str) + 1 \/ str[e] = d)
      /\ \A j \in i .. e - 1 : j \in 1 .. Len(str) /\ str[j] # d
  BY <1>2, EndOfFacts
<1> HIDE DEF e
<1>4. e # i
  <2> SUFFICES ASSUME e = i PROVE FALSE
    OBVIOUS
  <2>1. i # Len(str) + 1
    BY <1>1
  <2> QED
    BY <1>1, <1>3, <2>1
<1>5. /\ f \in Seq(Symbols) /\ Len(f) = e - i
      /\ \A j \in 1 .. e - i : f[j] = str[i + j - 1]
  BY <1>2, <1>3, PartFacts
<1>6. e - i >= 1 /\ \A j \in 1 .. e - i : i + j - 1 \in i .. e - 1
  BY <1>1, <1>3, <1>4
<1> HIDE DEF f
<1>7. \A j \in 1 .. Len(f) : f[j] # d /\ i + j - 1 \in 1 .. Len(str) /\ f[j] = str[i + j - 1]
  BY <1>3, <1>5, <1>6
<1> QED
  BY <1>5, <1>6, <1>7 DEF f, e, Piece

\* A sequence of one element.
LEMMA OneElement ==
  ASSUME NEW T, NEW f \in Seq(T), Len(f) >= 1, ~(Len(f) >= 2)
  PROVE  f[1] \in T /\ f = <<f[1]>>
<1>1. Len(f) = 1
  <2> DEFINE n == Len(f)
  <2>1. n \in Nat /\ n >= 1 /\ ~(n >= 2)
    OBVIOUS
  <2> HIDE DEF n
  <2>2. n = 1
    BY <2>1
  <2> QED
    BY <2>2 DEF n
<1>2. f[1] \in T
  BY <1>1
<1>3. <<f[1]>> \in Seq(T) /\ Len(<<f[1]>>) = 1 /\ <<f[1]>>[1] = f[1]
  BY <1>2
<1> DEFINE g == <<f[1]>>
<1>4. g \in Seq(T) /\ Len(f) = Len(g) /\ \A i \in 1 .. Len(f) : f[i] = g[i]
  BY <1>1, <1>3
<1> HIDE DEF g
<1>5. f = g
  BY <1>4, SeqEqual
<1> QED
  BY <1>2, <1>5 DEF g

\* A field of an option is one text.
LEMMA FieldIsText ==
  ASSUME NEW str \in Seq(Symbols), Spaced(str), NEW a \in Starts(str, Semicolon),
         NEW i \in Starts(Piece(str, Semicolon, a), Colon)
  PROVE  LET f == Piece(Piece(str, Semicolon, a), Colon, i) IN f[1] \in Symbols /\ f = <<f[1]>>
<1> DEFINE o == Piece(str, Semicolon, a)
           f == Piece(o, Colon, i)
<1>0. Semicolon \in Separators /\ Colon \in Separators
  BY DEF Separators
<1> HIDE DEF f
<1>1. /\ o \in Seq(Symbols)
      /\ \A j \in 1 .. Len(o) :
           o[j] # Semicolon /\ a + j - 1 \in 1 .. Len(str) /\ o[j] = str[a + j - 1]
  BY <1>0, FieldAt
<1>1i. i \in Starts(o, Colon)
  OBVIOUS
<1> HIDE DEF o
<1>2. /\ f \in Seq(Symbols) /\ Len(f) >= 1
      /\ \A j \in 1 .. Len(f) : f[j] # Colon /\ i + j - 1 \in 1 .. Len(o) /\ f[j] = o[i + j - 1]
  BY <1>0, <1>1, <1>1i, FieldAt DEF f
<1>3. Len(str) \in Nat /\ Len(o) \in Nat /\ a \in 1 .. Len(str) /\ i \in 1 .. Len(o)
  BY <1>1, <1>1i, StartsFacts
<1>4. ~(Len(f) >= 2)
  <2> SUFFICES ASSUME Len(f) >= 2 PROVE FALSE
    OBVIOUS
  <2>1. 1 \in 1 .. Len(f) /\ 2 \in 1 .. Len(f)
    BY <1>2
  <2>2. /\ i \in 1 .. Len(o) /\ o[i] # Colon /\ i + 1 \in 1 .. Len(o) /\ o[i + 1] # Colon
    <3>1. i + 1 - 1 = i /\ i + 2 - 1 = i + 1
      BY <1>3
    <3>2. i + 1 - 1 \in 1 .. Len(o) /\ f[1] # Colon /\ f[1] = o[i + 1 - 1]
      BY <1>2, <2>1
    <3>3. i + 2 - 1 \in 1 .. Len(o) /\ f[2] # Colon /\ f[2] = o[i + 2 - 1]
      BY <1>2, <2>1
    <3> QED
      BY <3>1, <3>2, <3>3
  <2>3. o[i] # Semicolon /\ o[i + 1] # Semicolon
    BY <1>1, <2>2
  <2>4. DEFINE q == a + i - 1
  <2>5. q \in 1 .. Len(str) /\ o[i] = str[q] /\ q + 1 \in 1 .. Len(str) /\ o[i + 1] = str[q + 1]
    <3>1. a + (i + 1) - 1 = q + 1
      BY <1>3
    <3>2. a + (i + 1) - 1 \in 1 .. Len(str) /\ o[i + 1] = str[a + (i + 1) - 1]
      BY <1>1, <2>2
    <3>3. a + i - 1 \in 1 .. Len(str) /\ o[i] = str[a + i - 1]
      BY <1>1, <2>2
    <3> QED
      BY <3>1, <3>2, <3>3
  <2> HIDE DEF q
  <2>6. q \in 1 .. Len(str) - 1
    BY <1>3, <2>5
  <2>7. str[q] \in Separators \/ str[q + 1] \in Separators
    BY <2>6 DEF Spaced
  <2>8. str[q] \notin Separators /\ str[q + 1] \notin Separators
    BY <2>2, <2>3, <2>5 DEF Separators
  <2> QED
    BY <2>7, <2>8
<1>5. f \in Seq(Symbols) /\ Len(f) >= 1
  BY <1>2
<1>6. f[1] \in Symbols /\ f = <<f[1]>>
  BY <1>4, <1>5, OneElement, Zenon
<1> QED
  BY <1>6 DEF f, o

\* What the FTS takes, option by option.
LEMMA CValidIs ==
  ASSUME ParseTypeOK, NEW s \in Session
  PROVE  LET K == Cardinality(Starts(pattern[s], Semicolon)) IN
         /\ CValid(pattern[s]) <=> K >= 2 /\ \A i \in 1 .. K : RightOption(Option(s, i))
         /\ CParsed(pattern[s]) = [i \in 1 .. K |-> Meaning(Option(s, i))]
<1> DEFINE str == pattern[s]
           K == Cardinality(Starts(str, Semicolon))
           o == CMeaning(str)
<1>1. str \in Seq(Symbols)
  BY PatternFacts
<1>2. K \in Nat /\ Len(Fields(str, Semicolon)) = K /\ DOMAIN Fields(str, Semicolon) = 1 .. K
  BY <1>1, FieldsFacts
<1> HIDE DEF K
<1>3. o = [i \in 1 .. K |-> Fields(Option(s, i), Colon)]
  BY <1>2 DEF CMeaning, Option
<1>3c. /\ CValid(str) <=> /\ Len(o) >= 2
                          /\ \A i \in DOMAIN o : /\ Len(o[i]) = 2
                                                 /\ o[i][1] \in {<<x>> : x \in Operators}
                                                 /\ o[i][2] \in {<<t>> : t \in Numeric}
      /\ CParsed(str) = [i \in DOMAIN o |-> <<o[i][1][1], Atoi(o[i][2][1])>>]
  BY DEF CValid, CParsed
<1> HIDE DEF o
<1>4. Len(o) = K /\ DOMAIN o = 1 .. K /\ \A i \in 1 .. K : o[i] = Fields(Option(s, i), Colon)
  BY <1>2, <1>3
<1>6. \A i \in 1 .. K : RightOption(Option(s, i)) <=>
        /\ Len(o[i]) = 2 /\ o[i][1] \in {<<x>> : x \in Operators}
        /\ o[i][2] \in {<<t>> : t \in Numeric}
  BY <1>4 DEF RightOption
<1>7. CValid(str) <=> K >= 2 /\ \A i \in 1 .. K : RightOption(Option(s, i))
  BY <1>4, <1>3c, <1>6, Zenon
<1>9. \A i \in 1 .. K : <<o[i][1][1], Atoi(o[i][2][1])>> = Meaning(Option(s, i))
  BY <1>4, Zenon DEF Meaning
<1>10. CParsed(str) = [i \in 1 .. K |-> Meaning(Option(s, i))]
  BY <1>4, <1>3c, <1>9
<1> QED
  BY <1>7, <1>10 DEF K

-----------------------------------------------------------------------------
(* The steps.                                                              *)

\* A call of strtok touches one buffer, and goes on in it.
LEMMA StrtokFrame ==
  ASSUME NEW m, NEW p, NEW d
  PROVE  /\ Strtok(m, p, d).save.buf = p.buf /\ DOMAIN Strtok(m, p, d).mem = DOMAIN m
         /\ \A b \in DOMAIN m : b # p.buf => Strtok(m, p, d).mem[b] = m[b]
<1> DEFINE r == Strtok(m, p, d)
<1>1. \E i, c : r.save = Pointer(p.buf, i) /\ (r.mem = m \/ r.mem = [m EXCEPT ![p.buf] = c])
  <2> DEFINE c == m[p.buf]
             from == LeastOf({i \in p.at .. Len(c) : c[i] # d})
             end == LeastOf({i \in from .. Len(c) : c[i] \in {d, Nul}})
             on == IF c[end] = Nul THEN end ELSE end + 1
             new == [c EXCEPT ![end] = Nul]
  <2>1. r = IF c[from] = Nul
              THEN [tok |-> Nowhere, save |-> Pointer(p.buf, from), mem |-> m]
              ELSE [tok |-> Pointer(p.buf, from), save |-> Pointer(p.buf, on),
                    mem |-> [m EXCEPT ![p.buf] = new]]
    BY Zenon DEF Strtok
  <2> HIDE DEF from, end, on, new, r
  <2>2. CASE c[from] = Nul
    <3>1. r.save = Pointer(p.buf, from) /\ r.mem = m
      BY <2>1, <2>2
    <3> QED
      BY <3>1
  <2>3. CASE c[from] # Nul
    <3>1. r.save = Pointer(p.buf, on) /\ r.mem = [m EXCEPT ![p.buf] = new]
      BY <2>1, <2>3
    <3> QED
      BY <3>1
  <2> QED
    BY <2>2, <2>3
<1> HIDE DEF r
<1>2. PICK i, c : r.save = Pointer(p.buf, i) /\ (r.mem = m \/ r.mem = [m EXCEPT ![p.buf] = c])
  BY <1>1
<1>3. r.save.buf = p.buf
  BY <1>2 DEF Pointer
<1>4. DOMAIN r.mem = DOMAIN m /\ \A b \in DOMAIN m : b # p.buf => r.mem[b] = m[b]
  BY <1>2
<1> QED
  BY <1>3, <1>4 DEF r

\* A buffer before the first call.
LEMMA FreshWalked ==
  ASSUME NEW str \in Seq(Symbols), NEW d \in Separators
  PROVE  Walked(Append(str, Nul), str, d, 1, 0)
<1> DEFINE c == Append(str, Nul)
<1>1. Len(str) \in Nat
  OBVIOUS
<1>2. /\ c \in Seq(Symbols \cup {Nul}) /\ Len(c) = Len(str) + 1 /\ c[Len(str) + 1] = Nul
      /\ \A i \in 1 .. Len(str) : c[i] = str[i]
  <2>1. str \in Seq(Symbols \cup {Nul}) /\ Nul \in Symbols \cup {Nul}
    OBVIOUS
  <2> QED
    BY <2>1, AppendProperties
<1> HIDE DEF c
<1>3. Before(str, d, 1) = {}
  <2>1. \A i \in Starts(str, d) : i \in 1 .. Len(str)
    BY StartsFacts
  <2>2. \A i \in Starts(str, d) : ~(i < 1)
    BY <1>1, <2>1
  <2> QED
    BY <2>2 DEF Before
<1>4. Cardinality(Before(str, d, 1)) = 0
  BY <1>3, FS_EmptySet
<1>5. 1 \in 1 .. Len(str) + 1 /\ 0 \in Nat /\ \A j \in 1 .. 0 : FALSE
  BY <1>1
<1>6. Walked(c, str, d, 1, 0)
  BY <1>2, <1>3, <1>4, <1>5 DEF Walked
<1> QED
  BY <1>6 DEF c

\* An option of a pattern.
IsOption(str, o) == \E a \in Starts(str, Semicolon) : o = Piece(str, Semicolon, a)

\* The options that have been found.
LEMMA OptionFacts ==
  ASSUME ParseTypeOK, NEW s \in Session, NEW n, TakenUpTo(s, n), NEW i \in 1 .. Len(opts[s])
  PROVE  /\ Option(s, i) \in Seq(Symbols) /\ Text(opts[s][i], mem) = Option(s, i)
         /\ IsOption(pattern[s], Option(s, i))
<1> DEFINE str == pattern[s]
           b == <<s, "pattern">>
           S == Starts(str, Semicolon)
           a == Nth(S, i)
           K == Cardinality(S)
<1>1. str \in Seq(Symbols) /\ Semicolon \in Separators
  BY PatternFacts DEF Separators
<1>2. /\ Walked(mem[b], str, Semicolon, Len(str) + 1, Len(opts[s])) /\ Len(opts[s]) = K
      /\ opts[s][i] = Pointer(b, a)
  BY DEF TakenUpTo, OptionsUpTo
<1>3. a \in Before(str, Semicolon, Len(str) + 1)
  BY <1>2 DEF Walked
<1>4. a \in S
  BY <1>3 DEF Before
<1>5. Text(Pointer(b, a), mem) = Piece(str, Semicolon, a)
  <2> DEFINE c == mem[b]
             at == Len(str) + 1
             k == Len(opts[s])
  <2>1. Walked(c, str, Semicolon, at, k) /\ a \in Before(str, Semicolon, at) /\ mem[b] = c
    BY <1>2, <1>3
  <2> HIDE DEF a, b, c, at, k, str
  <2>2. str \in Seq(Symbols) /\ Semicolon \in Separators
    BY <1>1
  <2> QED
    BY <2>1, <2>2, TextFacts
<1>6. Option(s, i) = Piece(str, Semicolon, a)
  <2>1. i \in 1 .. K
    BY <1>2
  <2> QED
    BY <1>1, <2>1, FieldsFacts DEF Option
<1>7. Piece(str, Semicolon, a) \in Seq(Symbols)
  BY <1>1, <1>4, FieldAt
<1> QED
  BY <1>2, <1>4, <1>5, <1>6, <1>7 DEF IsOption

\* The fields that have been found.
LEMMA FieldFacts ==
  ASSUME NEW str \in Seq(Symbols), Spaced(str), NEW o, IsOption(str, o),
         NEW c, NEW at, NEW k, Walked(c, o, Colon, at, k), NEW j \in 1 .. k,
         NEW m, NEW b, m[b] = c
  PROVE  LET f == Fields(o, Colon)[j] IN
         /\ f[1] \in Symbols /\ f = <<f[1]>>
         /\ Text(Pointer(b, Nth(Starts(o, Colon), j)), m) = f
         /\ k <= Cardinality(Starts(o, Colon))
<1> DEFINE S == Starts(o, Colon)
           K == Cardinality(S)
           i == Nth(S, j)
<1>1. PICK a \in Starts(str, Semicolon) : o = Piece(str, Semicolon, a)
  BY DEF IsOption
<1>2. Semicolon \in Separators /\ Colon \in Separators
  BY DEF Separators
<1>3. o \in Seq(Symbols)
  BY <1>1, <1>2, FieldAt
<1>4. i \in Before(o, Colon, at)
  BY DEF Walked
<1>5. i \in S
  BY <1>4 DEF Before
<1>6. Text(Pointer(b, i), m) = Piece(o, Colon, i)
  <2> HIDE DEF i
  <2> QED
    BY <1>2, <1>3, <1>4, TextFacts
<1>7. k \in Nat /\ k <= K /\ K \in Nat
  <2>1. Before(o, Colon, at) \in SUBSET S /\ IsFiniteSet(S)
    BY <1>3, StartsFacts DEF Before
  <2>2. Cardinality(Before(o, Colon, at)) <= K
    BY <2>1, FS_Subset
  <2>3. k \in Nat /\ Cardinality(Before(o, Colon, at)) = k
    BY DEF Walked
  <2> QED
    BY <1>3, <2>2, <2>3, FieldsFacts
<1>8. Fields(o, Colon)[j] = Piece(o, Colon, i)
  <2>1. j \in 1 .. K
    <3> HIDE DEF K
    <3> QED
      BY <1>7
  <2> QED
    BY <1>3, <2>1, FieldsFacts
<1>9. Piece(o, Colon, i)[1] \in Symbols /\ Piece(o, Colon, i) = <<Piece(o, Colon, i)[1]>>
  <2> HIDE DEF i
  <2>1. i \in Starts(Piece(str, Semicolon, a), Colon)
    BY <1>1, <1>5
  <2> QED
    BY <1>1, <2>1, FieldIsText
<1> QED
  BY <1>6, <1>7, <1>8, <1>9

\* One option that is not right is enough for a pattern not to be taken.
LEMMA NotTaken ==
  ASSUME ParseTypeOK, NEW s \in Session, NEW i \in 1 .. Cardinality(Starts(pattern[s], Semicolon)),
         ~RightOption(Option(s, i))
  PROVE  ~CValid(pattern[s])
BY CValidIs

\* A call of strtok by session s leaves the others right that were: those that parse are
\* no longer alone, and of those that do not, strtok touches no buffer that counts.
LEMMA CallKeeps ==
  ASSUME ParseInv, NEW s \in Session, Calls(s), pattern' = pattern,
         NEW x \in {"split", "option", "length", "end", "accepted", "rejected"},
         parsePc' = [parsePc EXCEPT ![s] = x],
         saved'.buf \in {saved.buf, <<s, "pattern">>, <<s, "dup">>}, DOMAIN mem' = DOMAIN mem,
         DOMAIN opts' = Session, DOMAIN op' = Session, DOMAIN parsed' = Session,
         \A t \in Session \ {s} : opts'[t] = opts[t] /\ parsed'[t] = parsed[t],
         \A t \in Session \ {s} : saved.buf # <<t, "pattern">> =>
           mem'[<<t, "pattern">>] = mem[<<t, "pattern">>],
         alone[s] => RightNow(s)'
  PROVE  ParseInv'
<1> USE DEF ParseInv
<1> DEFINE busy == {t \in Session \ {s} : parsePc[t] \notin {"start"} \cup Finished}
<1>1. /\ alone' \in [Session -> BOOLEAN] /\ \A t \in Session : alone'[t] => alone[t]
      /\ \A t \in Session \ {s} : alone'[t] => parsePc[t] \in {"start"} \cup Finished
  <2>1. alone' = [t \in Session |-> alone[t] /\ t \notin busy /\ (t = s => busy = {})]
    BY DEF Calls
  <2>2. alone \in [Session -> BOOLEAN]
    BY DEF ParseTypeOK
  <2>3. \A t \in Session : alone'[t] <=> alone[t] /\ t \notin busy /\ (t = s => busy = {})
    BY <2>1, Zenon
  <2>4. alone' \in [Session -> BOOLEAN]
    BY <2>1, Zenon
  <2>5. \A t \in Session \ {s} : t \notin busy => parsePc[t] \in {"start"} \cup Finished
    OBVIOUS
  <2> HIDE DEF busy
  <2> QED
    BY <2>3, <2>4, <2>5
<1>2. \A t \in Session \ {s} : parsePc'[t] = parsePc[t]
  BY DEF ParseTypeOK
<1>3. parsePc'[s] = x
  BY DEF ParseTypeOK
<1>4. ParseTypeOK'
  <2>1. parsePc' \in [Session -> {"start", "split", "option", "length", "end"} \cup Finished]
    BY DEF ParseTypeOK, Finished
  <2> QED
    BY <1>1, <2>1 DEF ParseTypeOK
<1>5. ASSUME NEW t \in Session \ {s} PROVE Right(t)'
  <2>1. Right(t)
    OBVIOUS
  <2>2. parsePc[t] = "start" => Fresh(t)'
    <3>1. parsePc[t] = "start" => Fresh(t)
      BY <2>1 DEF Right
    <3>2. <<t, "pattern">> # <<s, "pattern">> /\ <<t, "pattern">> # <<s, "dup">>
      OBVIOUS
    <3> QED
      BY <3>1, <3>2 DEF Fresh
  <2>3. ASSUME alone'[t] PROVE RightNow(t)'
    <3>1. RightNow(t) /\ parsePc[t] \in {"start"} \cup Finished
      BY <1>1, <2>1, <2>3 DEF Right
    <3>2. parsePc'[t] \notin {"split", "option", "length", "end"}
      BY <1>2, <3>1 DEF Finished
    <3>3. Parsed(t)' => RightParsed(t)'
      <4>1. Parsed(t)' => Parsed(t)
        BY <1>2 DEF Parsed
      <4>2. RightParsed(t) => RightParsed(t)'
        BY DEF RightParsed
      <4> QED
        BY <3>1, <4>1, <4>2 DEF RightNow
    <3>4. parsePc'[t] = "rejected" => ~CValid(pattern'[t])
      BY <1>2, <3>1 DEF RightNow
    <3> QED
      BY <3>2, <3>3, <3>4 DEF RightNow
  <2> QED
    BY <1>2, <2>2, <2>3 DEF Right
<1>6. Right(s)'
  BY <1>1, <1>3 DEF Right
<1>7. CrashNotAlone'
  <2>1. \A t \in Session : parsePc'[t] = "crashed" => parsePc[t] = "crashed"
    BY <1>2, <1>3
  <2> QED
    BY <1>1, <2>1 DEF CrashNotAlone
<1> QED
  BY <1>4, <1>5, <1>6, <1>7

\* The options are counted and split.
LEMMA SplitOptionsKeeps ==
  ASSUME ParseInv, NEW s \in Session, SplitOptions(s)
  PROVE  ParseInv'
<1> DEFINE b == <<s, "pattern">>
           str == pattern[s]
           S == Starts(str, Semicolon)
           k == Len(opts[s])
           p == IF parsePc[s] = "start" THEN Pointer(b, 1) ELSE saved
           r == Strtok(mem, p, Semicolon)
<1>1. /\ ParseTypeOK /\ Right(s) /\ parsePc[s] \in {"start", "split"}
      /\ saved' = r.save /\ mem' = r.mem /\ Calls(s)
      /\ pattern' = pattern /\ op' = op /\ parsed' = parsed
  BY DEF ParseInv, SplitOptions
<1>2. /\ r.tok # Nowhere => /\ opts' = [opts EXCEPT ![s] = Append(@, r.tok)]
                            /\ parsePc' = [parsePc EXCEPT ![s] = "split"]
      /\ r.tok = Nowhere =>
           /\ parsePc' = [parsePc EXCEPT ![s] = IF k < 2 THEN "rejected" ELSE "option"]
           /\ opts' = opts
  BY DEF SplitOptions
<1>3. /\ r.save.buf = p.buf /\ DOMAIN r.mem = DOMAIN mem
      /\ \A a \in DOMAIN mem : a # p.buf => r.mem[a] = mem[a]
  BY StrtokFrame
<1>4. p.buf = b \/ p = saved
  BY DEF Pointer
<1>5. str \in Seq(Symbols) /\ Semicolon \in Separators
  BY <1>1, PatternFacts DEF Separators
<1>6. /\ parsePc \in [Session -> {"start", "split", "option", "length", "end"} \cup Finished]
      /\ DOMAIN opts = Session /\ DOMAIN mem = Session \X {"pattern", "dup"}
      /\ DOMAIN op = Session /\ DOMAIN parsed = Session
  BY <1>1 DEF ParseTypeOK
<1>7. ASSUME alone[s] PROVE RightNow(s)'
  <2>1. p.buf = b /\ OptionsUpTo(s, p.at) /\ parsed[s] = <<>>
    <3>1. CASE parsePc[s] = "start"
      <4>1. Fresh(s) /\ p = Pointer(b, 1)
        BY <1>1, <3>1 DEF Right
      <4>2. Walked(mem[b], str, Semicolon, 1, 0)
        BY <1>5, <4>1, FreshWalked DEF Fresh
      <4>3. OptionsUpTo(s, 1) /\ parsed[s] = <<>>
        BY <4>1, <4>2 DEF OptionsUpTo, Fresh
      <4> QED
        BY <4>1, <4>3 DEF Pointer
    <3>2. CASE parsePc[s] = "split"
      BY <1>1, <1>7, <3>2 DEF Right, RightNow, RightSplit
    <3> QED
      BY <1>1, <3>1, <3>2
  <2>2. /\ Walked(mem[b], str, Semicolon, p.at, k)
        /\ opts[s] \in Seq([buf : {b}, at : Nat])
        /\ \A j \in 1 .. k : opts[s][j] = Pointer(b, Nth(S, j))
    BY <2>1 DEF OptionsUpTo
  <2>3. Gives(r, mem, b, str, Semicolon, k)
    <3>1. Walked(mem[p.buf], str, Semicolon, p.at, k)
      BY <2>1, <2>2
    <3>2. Gives(r, mem, p.buf, str, Semicolon, k)
      <4> HIDE DEF p, k, str
      <4> QED
        BY <1>5, <3>1, StrtokFacts
    <3> QED
      BY <2>1, <3>2
  <2> HIDE DEF p, r
  <2>4. CASE r.tok # Nowhere
    <3>1. PICK c, at : /\ r.save = Pointer(b, at) /\ r.mem = [mem EXCEPT ![b] = c]
                       /\ Walked(c, str, Semicolon, at, k + 1)
      BY <2>3, <2>4 DEF Gives
    <3>2. mem'[b] = c /\ saved'.buf = b /\ saved'.at = at /\ pattern'[s] = str
      <4>1. b \in DOMAIN mem
        BY <1>6
      <4>2. r.mem[b] = c
        BY <3>1, <4>1
      <4> QED
        BY <1>1, <3>1, <4>2 DEF Pointer
    <3>3. opts'[s] = Append(opts[s], r.tok)
      BY <1>2, <1>6, <2>4
    <3>4. r.tok = Pointer(b, Nth(S, k + 1)) /\ Nth(S, k + 1) \in Nat
      <4>1. k \in Nat /\ k + 1 \in 1 .. k + 1
        BY <2>2
      <4>2. Nth(S, k + 1) \in Before(str, Semicolon, at)
        BY <3>1, <4>1 DEF Walked
      <4>3. Nth(S, k + 1) \in Nat
        BY <1>5, <4>2, StartsFacts DEF Before
      <4> QED
        BY <2>3, <2>4, <4>3 DEF Gives
    <3>5. r.tok \in [buf : {b}, at : Nat]
      BY <3>4 DEF Pointer
    <3>6. /\ opts'[s] \in Seq([buf : {b}, at : Nat]) /\ Len(opts'[s]) = k + 1
          /\ \A j \in 1 .. k : opts'[s][j] = opts[s][j]
          /\ opts'[s][k + 1] = r.tok
      BY <2>2, <3>3, <3>5, AppendProperties
    <3>7. \A j \in 1 .. k + 1 : opts'[s][j] = Pointer(b, Nth(S, j))
      <4>1. \A j \in 1 .. k + 1 : j \in 1 .. k \/ j = k + 1
        BY <2>2
      <4> QED
        BY <2>2, <3>4, <3>6, <4>1
    <3>8. OptionsUpTo(s, saved.at)'
      BY <3>1, <3>2, <3>6, <3>7 DEF OptionsUpTo
    <3>9. parsePc'[s] = "split" /\ parsed'[s] = <<>>
      BY <1>1, <1>2, <1>6, <2>1, <2>4
    <3> QED
      BY <3>2, <3>8, <3>9 DEF RightNow, RightSplit, Parsed, Finished
  <2>5. CASE r.tok = Nowhere
    <3>1. Walked(mem[b], str, Semicolon, Len(str) + 1, k) /\ k = Cardinality(S) /\ mem' = mem
      BY <1>1, <2>3, <2>5 DEF Gives
    <3>2. opts' = opts /\ parsePc'[s] = IF k < 2 THEN "rejected" ELSE "option"
      BY <1>2, <1>6, <2>5
    <3>3. CASE k < 2
      <4>1. ~CValid(str)
        <5>1. CValid(str) => Cardinality(S) >= 2
          BY <1>1, CValidIs
        <5>2. k \in Nat
          BY <2>2
        <5> QED
          BY <3>1, <3>3, <5>1, <5>2
      <4>2. parsePc'[s] = "rejected"
        BY <3>2, <3>3
      <4> QED
        BY <1>1, <4>1, <4>2 DEF RightNow, Parsed, Finished
    <3>4. CASE ~(k < 2)
      <4>1. k \in Nat /\ k >= 2 /\ 0 < k
        BY <2>2, <3>4
      <4>2. OptionsUpTo(s, Len(pattern[s]) + 1)'
        BY <1>1, <2>2, <3>1, <3>2 DEF OptionsUpTo
      <4>3. parsed'[s] = <<>> /\ parsed'[s] \in Seq(Symbols \X Symbols) /\ Len(parsed'[s]) = 0
        BY <1>1, <2>1
      <4>4. TakenUpTo(s, Len(parsed[s]))'
        BY <1>1, <3>1, <3>2, <4>1, <4>2, <4>3 DEF TakenUpTo
      <4>5. parsePc'[s] = "option"
        BY <3>2, <3>4
      <4> QED
        BY <4>4, <4>5 DEF RightNow, Parsed, Finished
    <3> QED
      BY <3>3, <3>4
  <2> QED
    BY <2>4, <2>5
<1>8. saved'.buf \in {saved.buf, <<s, "pattern">>, <<s, "dup">>} /\ DOMAIN mem' = DOMAIN mem
  BY <1>1, <1>3, <1>4
<1>9. \A t \in Session \ {s} : saved.buf # <<t, "pattern">> =>
        mem'[<<t, "pattern">>] = mem[<<t, "pattern">>]
  <2> SUFFICES ASSUME NEW t \in Session \ {s}, saved.buf # <<t, "pattern">>
               PROVE  mem'[<<t, "pattern">>] = mem[<<t, "pattern">>]
    OBVIOUS
  <2>1. <<t, "pattern">> \in DOMAIN mem /\ <<t, "pattern">> # b
    BY <1>6
  <2> HIDE DEF p, r
  <2> QED
    BY <1>1, <1>3, <1>4, <2>1
<1> HIDE DEF p, r, k
<1>10. PICK x \in {"split", "option", "rejected"} : parsePc' = [parsePc EXCEPT ![s] = x]
  BY <1>2
<1>11. DOMAIN opts' = Session /\ \A t \in Session \ {s} : opts'[t] = opts[t]
  BY <1>2, <1>6
<1>12. x \in {"split", "option", "length", "end", "accepted", "rejected"}
  OBVIOUS
<1> QED
  BY <1>1, <1>6, <1>7, <1>8, <1>9, <1>10, <1>11, <1>12, CallKeeps

\* The buffers of the sessions are apart.
LEMMA BuffersApart ==
  ASSUME NEW s, NEW t
  PROVE  /\ <<s, "pattern">> # <<t, "dup">>
         /\ s # t => <<s, "pattern">> # <<t, "pattern">> /\ <<s, "dup">> # <<t, "dup">>
OBVIOUS

\* The operator of an option is taken from a duplicate of the option.
LEMMA TakeOperatorKeeps ==
  ASSUME ParseInv, NEW s \in Session, TakeOperator(s)
  PROVE  ParseInv'
<1> DEFINE b == <<s, "dup">>
           n == Len(parsed[s])
           o == Option(s, n + 1)
           dup == Append(Text(opts[s][n + 1], mem), Nul)
           m == [mem EXCEPT ![b] = dup]
           p == Pointer(b, 1)
           r == Strtok(m, p, Colon)
<1>1. /\ ParseTypeOK /\ Right(s) /\ parsePc[s] = "option" /\ Calls(s)
      /\ parsePc' = [parsePc EXCEPT ![s] = "length"] /\ op' = [op EXCEPT ![s] = r.tok]
      /\ saved' = r.save /\ mem' = r.mem
      /\ pattern' = pattern /\ opts' = opts /\ parsed' = parsed
  BY DEF ParseInv, TakeOperator
<1>2. /\ parsePc \in [Session -> {"start", "split", "option", "length", "end"} \cup Finished]
      /\ DOMAIN opts = Session /\ DOMAIN mem = Session \X {"pattern", "dup"}
      /\ DOMAIN op = Session /\ DOMAIN parsed = Session
  BY <1>1 DEF ParseTypeOK
<1>3. p.buf = b /\ p.at = 1
  BY DEF Pointer
<1>4. /\ r.save.buf = b /\ DOMAIN r.mem = DOMAIN mem
      /\ \A a \in DOMAIN mem : a # b => r.mem[a] = mem[a]
  <2>1. DOMAIN m = DOMAIN mem /\ \A a \in DOMAIN mem : a # b => m[a] = mem[a]
    OBVIOUS
  <2> HIDE DEF m, p
  <2>2. /\ r.save.buf = p.buf /\ DOMAIN r.mem = DOMAIN m
        /\ \A a \in DOMAIN m : a # p.buf => r.mem[a] = m[a]
    BY StrtokFrame
  <2> QED
    BY <1>3, <2>1, <2>2
<1>5. \A t \in Session : mem'[<<t, "pattern">>] = mem[<<t, "pattern">>]
  <2>1. \A t \in Session : <<t, "pattern">> \in DOMAIN mem /\ <<t, "pattern">> # b
    BY <1>2, BuffersApart
  <2> HIDE DEF r, b
  <2> QED
    BY <1>1, <1>4, <2>1
<1>6. ASSUME alone[s] PROVE RightNow(s)'
  <2>1. TakenUpTo(s, n)
    BY <1>1, <1>6 DEF Right, RightNow
  <2>2. n \in Nat /\ n + 1 \in 1 .. Len(opts[s])
    BY <2>1 DEF TakenUpTo, OptionsUpTo
  <2>3. o \in Seq(Symbols) /\ Text(opts[s][n + 1], mem) = o
    <3> HIDE DEF n
    <3> QED
      BY <1>1, <2>1, <2>2, OptionFacts
  <2>4. Colon \in Separators
    BY DEF Separators
  <2>5. b \in DOMAIN mem
    BY <1>2
  <2>6. m[b] = Append(o, Nul)
    BY <2>3, <2>5
  <2>7. Gives(r, m, b, o, Colon, 0)
    <3>1. Walked(m[p.buf], o, Colon, p.at, 0)
      BY <1>3, <2>3, <2>4, <2>6, FreshWalked
    <3>2. Gives(r, m, p.buf, o, Colon, 0)
      <4> HIDE DEF m, p, o
      <4> QED
        BY <2>3, <2>4, <3>1, StrtokFacts
    <3> QED
      BY <1>3, <3>2
  <2> HIDE DEF r
  <2>8. TakenUpTo(s, Len(parsed[s]))'
    <3>1. mem'[<<s, "pattern">>] = mem[<<s, "pattern">>]
      BY <1>5
    <3> QED
      BY <1>1, <2>1, <3>1 DEF TakenUpTo, OptionsUpTo, Option
  <2>9. o = Option(s, Len(parsed[s]) + 1)' /\ op'[s] = r.tok
    BY <1>1, <1>2 DEF Option
  <2>10. DOMAIN m = DOMAIN mem
    OBVIOUS
  <2> HIDE DEF m, o
  <2>11. CASE r.tok = Nowhere
    <3>1. /\ r.save = Pointer(b, Len(o) + 1) /\ r.mem = m
          /\ Walked(m[b], o, Colon, Len(o) + 1, 0) /\ Cardinality(Starts(o, Colon)) = 0
      BY <2>7, <2>11 DEF Gives
    <3>2. FieldsUpTo(s, Len(parsed[s]) + 1, 0)'
      BY <1>1, <2>9, <2>11, <3>1 DEF FieldsUpTo, Pointer
    <3>3. RightLength(s)'
      BY <2>8, <2>9, <3>1, <3>2 DEF RightLength
    <3> QED
      BY <1>1, <1>2, <3>3 DEF RightNow, Parsed, Finished
  <2>12. CASE r.tok # Nowhere
    <3>1. PICK c, at : /\ r.tok = Pointer(b, Nth(Starts(o, Colon), 0 + 1))
                       /\ r.save = Pointer(b, at) /\ r.mem = [m EXCEPT ![b] = c]
                       /\ Walked(c, o, Colon, at, 0 + 1)
      BY <2>7, <2>12 DEF Gives
    <3>2. r.mem[b] = c
      BY <2>5, <2>10, <3>1
    <3>3. FieldsUpTo(s, Len(parsed[s]) + 1, 1)'
      BY <1>1, <2>9, <3>1, <3>2 DEF FieldsUpTo, Pointer
    <3>4. RightLength(s)'
      BY <2>8, <3>3 DEF RightLength
    <3> QED
      BY <1>1, <1>2, <3>4 DEF RightNow, Parsed, Finished
  <2> QED
    BY <2>11, <2>12
<1> HIDE DEF r
<1>7. DOMAIN op' = Session /\ DOMAIN mem' = DOMAIN mem
  BY <1>1, <1>2, <1>4
<1>8. saved'.buf \in {saved.buf, <<s, "pattern">>, <<s, "dup">>}
  BY <1>1, <1>4
<1> QED
  BY <1>1, <1>2, <1>5, <1>6, <1>7, <1>8, CallKeeps

\* A later call of a session that is alone goes on in the copy of its option.
LEMMA NextField ==
  ASSUME ParseTypeOK, NEW s \in Session, NEW n, TakenUpTo(s, n),
         NEW i \in 1 .. Len(opts[s]), NEW k, FieldsUpTo(s, i, k)
  PROVE  /\ Gives(Strtok(mem, saved, Colon), mem, <<s, "dup">>, Option(s, i), Colon, k)
         /\ k \in Nat /\ Walked(mem[<<s, "dup">>], Option(s, i), Colon, saved.at, k)
         /\ IsOption(pattern[s], Option(s, i)) /\ Option(s, i) \in Seq(Symbols)
         /\ pattern[s] \in Seq(Symbols) /\ Spaced(pattern[s])
         /\ i \in 1 .. Cardinality(Starts(pattern[s], Semicolon))
<1> DEFINE o == Option(s, i)
           b == <<s, "dup">>
<1>1. o \in Seq(Symbols) /\ IsOption(pattern[s], o)
  BY OptionFacts
<1>2. Colon \in Separators
  BY DEF Separators
<1>3. saved.buf = b /\ Walked(mem[b], o, Colon, saved.at, k)
  BY DEF FieldsUpTo
<1>4. pattern[s] \in Seq(Symbols) /\ Spaced(pattern[s])
  BY PatternFacts
<1>5. Gives(Strtok(mem, saved, Colon), mem, saved.buf, o, Colon, k)
  <2>1. Walked(mem[saved.buf], o, Colon, saved.at, k)
    BY <1>3
  <2> HIDE DEF o
  <2> QED
    BY <1>1, <1>2, <2>1, StrtokFacts
<1>6. k \in Nat
  BY <1>3 DEF Walked
<1>7. i \in 1 .. Cardinality(Starts(pattern[s], Semicolon))
  BY DEF TakenUpTo
<1> QED
  BY <1>1, <1>3, <1>4, <1>5, <1>6, <1>7

\* Its length.
LEMMA TakeLengthKeeps ==
  ASSUME ParseInv, NEW s \in Session, TakeLength(s)
  PROVE  ParseInv'
<1> DEFINE b == <<s, "dup">>
           r == Strtok(mem, saved, Colon)
           len == Text(r.tok, r.mem)[1]
           good == r.tok # Nowhere /\ len \in Numeric
<1>0. PICK n, i, o : n = Len(parsed[s]) /\ i = n + 1 /\ o = Option(s, i)
  OBVIOUS
<1>1. /\ ParseTypeOK /\ Right(s) /\ parsePc[s] = "length" /\ Calls(s)
      /\ saved' = r.save /\ mem' = r.mem
      /\ pattern' = pattern /\ opts' = opts /\ op' = op
  BY DEF ParseInv, TakeLength
<1>2. /\ good => /\ parsed' = [parsed EXCEPT ![s] = Append(@, <<Other, Atoi(len)>>)]
                 /\ parsePc' = [parsePc EXCEPT ![s] = "end"]
      /\ ~good => parsePc' = [parsePc EXCEPT ![s] = "rejected"] /\ parsed' = parsed
  BY DEF TakeLength
<1>3. /\ parsePc \in [Session -> {"start", "split", "option", "length", "end"} \cup Finished]
      /\ DOMAIN opts = Session /\ DOMAIN mem = Session \X {"pattern", "dup"}
      /\ DOMAIN op = Session /\ DOMAIN parsed = Session
  BY <1>1 DEF ParseTypeOK
<1>4. /\ r.save.buf = saved.buf /\ DOMAIN r.mem = DOMAIN mem
      /\ \A a \in DOMAIN mem : a # saved.buf => r.mem[a] = mem[a]
  BY StrtokFrame
<1>5. ASSUME alone[s] PROVE RightNow(s)'
  <2>1. /\ TakenUpTo(s, n) /\ n \in Nat /\ i \in 1 .. Len(opts[s])
        /\ \/ FieldsUpTo(s, i, 0) /\ Cardinality(Starts(o, Colon)) = 0
           \/ FieldsUpTo(s, i, 1)
    <3>1. RightLength(s)
      BY <1>1, <1>5 DEF Right, RightNow
    <3>2. /\ TakenUpTo(s, n)
          /\ \/ FieldsUpTo(s, i, 0) /\ Cardinality(Starts(o, Colon)) = 0
             \/ FieldsUpTo(s, i, 1)
      BY <1>0, <3>1 DEF RightLength
    <3>3. n \in Nat /\ n < Len(opts[s]) /\ opts[s] \in Seq([buf : {<<s, "pattern">>}, at : Nat])
      BY <3>2 DEF TakenUpTo, OptionsUpTo
    <3>4. i \in 1 .. Len(opts[s])
      BY <1>0, <3>3
    <3> QED
      BY <3>2, <3>3, <3>4
  <2>2. PICK k \in {0, 1} : FieldsUpTo(s, i, k) /\ (k = 0 => Cardinality(Starts(o, Colon)) = 0)
    BY <2>1
  <2>3. /\ Gives(r, mem, b, o, Colon, k)
        /\ k \in Nat /\ IsOption(pattern[s], o) /\ o \in Seq(Symbols)
        /\ pattern[s] \in Seq(Symbols) /\ Spaced(pattern[s])
        /\ i \in 1 .. Cardinality(Starts(pattern[s], Semicolon))
    BY <1>0, <1>1, <2>1, <2>2, NextField
  <2>4. Len(Fields(o, Colon)) = Cardinality(Starts(o, Colon))
    BY <2>3, FieldsFacts
  <2> HIDE DEF r, len, good
  <2>5. CASE r.tok = Nowhere
    <3>1. Cardinality(Starts(o, Colon)) # 2
      BY <2>3, <2>5 DEF Gives
    <3>2. ~RightOption(o)
      BY <2>4, <3>1 DEF RightOption
    <3>3. ~CValid(pattern[s])
      BY <1>0, <1>1, <2>3, <3>2, NotTaken
    <3>4. parsePc'[s] = "rejected"
      BY <1>2, <1>3, <2>5 DEF good
    <3> QED
      BY <1>1, <3>3, <3>4 DEF RightNow, Parsed, Finished
  <2>6. CASE r.tok # Nowhere
    <3>1. PICK c, at : /\ r.tok = Pointer(b, Nth(Starts(o, Colon), k + 1))
                       /\ k + 1 <= Cardinality(Starts(o, Colon))
                       /\ r.save = Pointer(b, at) /\ r.mem = [mem EXCEPT ![b] = c]
                       /\ Walked(c, o, Colon, at, k + 1)
      BY <2>3, <2>6 DEF Gives
    <3>2. k = 1
      BY <2>2, <3>1
    <3>3. r.mem[b] = c
      BY <1>3, <3>1
    <3>4. /\ Fields(o, Colon)[2][1] \in Symbols
          /\ Fields(o, Colon)[2] = <<Fields(o, Colon)[2][1]>>
          /\ Text(r.tok, r.mem) = Fields(o, Colon)[2]
      <4> DEFINE mm == r.mem
      <4>1. /\ Walked(c, o, Colon, at, 2) /\ 2 \in 1 .. 2 /\ mm[b] = c
            /\ r.tok = Pointer(b, Nth(Starts(o, Colon), 2))
        BY <3>1, <3>2, <3>3
      <4>2. pattern[s] \in Seq(Symbols) /\ Spaced(pattern[s]) /\ IsOption(pattern[s], o)
        BY <2>3
      <4> HIDE DEF mm, b
      <4>3. /\ Fields(o, Colon)[2][1] \in Symbols
            /\ Fields(o, Colon)[2] = <<Fields(o, Colon)[2][1]>>
            /\ Text(Pointer(b, Nth(Starts(o, Colon), 2)), mm) = Fields(o, Colon)[2]
        BY <4>1, <4>2, FieldFacts
      <4> QED
        BY <4>1, <4>3 DEF mm
    <3>5. len = Fields(o, Colon)[2][1]
      BY <3>4 DEF len
    <3>6. CASE good
      <4>1. parsed'[s] = Append(parsed[s], <<Other, Atoi(len)>>) /\ parsePc'[s] = "end"
        BY <1>2, <1>3, <3>6
      <4>2. parsed[s] \in Seq(Symbols \X Symbols) /\ n = Len(parsed[s]) /\ i = n + 1
        BY <1>0, <2>1 DEF TakenUpTo
      <4>3. <<Other, Atoi(len)>> \in Symbols \X Symbols
        BY <3>4, <3>5, AtoiSymbol DEF Symbols, Texts
      <4>4. /\ parsed'[s] \in Seq(Symbols \X Symbols) /\ Len(parsed'[s]) = n + 1
            /\ \A j \in 1 .. n : parsed'[s][j] = parsed[s][j]
            /\ parsed'[s][n + 1] = <<Other, Atoi(len)>>
        <5> DEFINE q == parsed[s]
                   e == <<Other, Atoi(len)>>
                   T == Symbols \X Symbols
        <5>1. q \in Seq(T) /\ e \in T /\ n = Len(q) /\ parsed'[s] = Append(q, e)
          BY <4>1, <4>2, <4>3
        <5> HIDE DEF q, e, T
        <5>2. /\ parsed'[s] \in Seq(T) /\ Len(parsed'[s]) = n + 1
              /\ \A j \in 1 .. n : parsed'[s][j] = q[j]
              /\ parsed'[s][n + 1] = e
          BY <5>1, AppendProperties
        <5> QED
          BY <5>2 DEF q, e, T
      <4>5. n + 1 - 1 = n /\ n + 1 >= 1 /\ Len(parsed'[s]) = i
        BY <2>1, <4>2, <4>4
      <4>6. mem'[<<s, "pattern">>] = mem[<<s, "pattern">>]
        <5>1. <<s, "pattern">> \in DOMAIN mem /\ <<s, "pattern">> # b
          BY <1>3, BuffersApart
        <5> QED
          BY <1>1, <3>1, <5>1
      <4>7. TakenUpTo(s, n)'
        <5>1. OptionsUpTo(s, Len(pattern[s]) + 1)'
          BY <1>1, <2>1, <4>6 DEF TakenUpTo, OptionsUpTo
        <5>2. /\ Len(opts'[s]) = Cardinality(Starts(pattern'[s], Semicolon)) /\ Len(opts'[s]) >= 2
              /\ n \in Nat /\ n < Len(opts'[s])
          BY <1>1, <2>1 DEF TakenUpTo
        <5>3. \A j \in 1 .. n :
                RightOption(Option(s, j)') /\ parsed'[s][j] = Meaning(Option(s, j)')
          BY <1>1, <2>1, <4>4 DEF TakenUpTo, Option
        <5> QED
          BY <4>4, <5>1, <5>2, <5>3 DEF TakenUpTo
      <4>8. FieldsUpTo(s, i, 2)'
        <5>1. o = Option(s, i)'
          BY <1>0, <1>1 DEF Option
        <5>2. op'[s] = Pointer(b, Nth(Starts(o, Colon), 1))
          BY <1>0, <1>1, <2>2, <3>2 DEF FieldsUpTo
        <5>3. saved'.buf = b /\ saved'.at = at /\ mem'[b] = c
          BY <1>1, <3>1, <3>3 DEF Pointer
        <5> QED
          BY <3>1, <3>2, <5>1, <5>2, <5>3 DEF FieldsUpTo
      <4>9. /\ parsed'[s][i][2] = Meaning(Option(s, i)')[2]
            /\ Fields(Option(s, i)', Colon)[2][1] \in Numeric
        <5>1. o = Option(s, i)' /\ Meaning(o)[2] = Atoi(Fields(o, Colon)[2][1])
          BY <1>0, <1>1 DEF Option, Meaning
        <5>2. parsed'[s][i][2] = Atoi(len) /\ len \in Numeric
          BY <3>6, <4>2, <4>4 DEF good
        <5> QED
          BY <3>5, <5>1, <5>2
      <4>10. RightEnd(s)'
        <5>1. Len(parsed'[s]) = i /\ i >= 1 /\ i - 1 = n
          BY <4>2, <4>5
        <5>2. TakenUpTo(s, Len(parsed[s]) - 1)' /\ FieldsUpTo(s, Len(parsed[s]), 2)'
          BY <4>7, <4>8, <5>1
        <5> QED
          BY <4>9, <5>1, <5>2 DEF RightEnd
      <4> QED
        BY <4>1, <4>10 DEF RightNow, Parsed, Finished
    <3>7. CASE ~good
      <4>1. Fields(o, Colon)[2][1] \notin Numeric
        BY <2>6, <3>5, <3>7 DEF good
      <4>2. ~RightOption(o)
        <5>1. \A x : <<x>>[1] = x
          OBVIOUS
        <5>2. Fields(o, Colon)[2] \notin {<<t>> : t \in Numeric}
          BY <4>1, <5>1
        <5> QED
          BY <5>2 DEF RightOption
      <4>3. ~CValid(pattern[s])
        BY <1>0, <1>1, <2>3, <4>2, NotTaken
      <4>4. parsePc'[s] = "rejected"
        BY <1>2, <1>3, <3>7
      <4> QED
        BY <1>1, <4>3, <4>4 DEF RightNow, Parsed, Finished
    <3> QED
      BY <3>6, <3>7
  <2> QED
    BY <2>5, <2>6
<1> HIDE DEF r, len, good
<1>6. \A t \in Session \ {s} : saved.buf # <<t, "pattern">> =>
        mem'[<<t, "pattern">>] = mem[<<t, "pattern">>]
  BY <1>1, <1>3, <1>4
<1>7. saved'.buf \in {saved.buf, <<s, "pattern">>, <<s, "dup">>} /\ DOMAIN mem' = DOMAIN mem
  BY <1>1, <1>4
<1>8. PICK x \in {"end", "rejected"} : parsePc' = [parsePc EXCEPT ![s] = x]
  BY <1>2
<1>9. DOMAIN parsed' = Session /\ \A t \in Session \ {s} : parsed'[t] = parsed[t]
  BY <1>2, <1>3
<1>10. x \in {"split", "option", "length", "end", "accepted", "rejected"}
  OBVIOUS
<1> QED
  BY <1>1, <1>3, <1>5, <1>6, <1>7, <1>8, <1>9, <1>10, CallKeeps

\* The third call of strtok, and what the option is found to be.
LEMMA CheckOptionKeeps ==
  ASSUME ParseInv, NEW s \in Session, CheckOption(s)
  PROVE  ParseInv'
<1> DEFINE b == <<s, "dup">>
           r == Strtok(mem, saved, Colon)
           text == Text(op[s], mem)
           good == r.tok = Nowhere /\ text \in {<<x>> : x \in Operators}
<1>0. PICK n, i, o : i = Len(parsed[s]) /\ n = i - 1 /\ o = Option(s, i)
  OBVIOUS
<1>1. /\ ParseTypeOK /\ Right(s) /\ parsePc[s] = "end" /\ Calls(s)
      /\ saved' = r.save /\ mem' = r.mem
      /\ pattern' = pattern /\ opts' = opts /\ op' = op
  BY DEF ParseInv, CheckOption
<1>2. /\ good => /\ parsed' = [parsed EXCEPT ![s] = [@ EXCEPT ![i] = <<text[1], parsed[s][i][2]>>]]
                 /\ parsePc' = [parsePc EXCEPT ![s] =
                                  IF Len(parsed[s]) = Len(opts[s]) THEN "accepted" ELSE "option"]
      /\ ~good => parsePc' = [parsePc EXCEPT ![s] = "rejected"] /\ parsed' = parsed
  BY <1>0 DEF CheckOption, GoodOption, LastOption
<1>3. /\ parsePc \in [Session -> {"start", "split", "option", "length", "end"} \cup Finished]
      /\ DOMAIN opts = Session /\ DOMAIN mem = Session \X {"pattern", "dup"}
      /\ DOMAIN op = Session /\ DOMAIN parsed = Session
  BY <1>1 DEF ParseTypeOK
<1>4. /\ r.save.buf = saved.buf /\ DOMAIN r.mem = DOMAIN mem
      /\ \A a \in DOMAIN mem : a # saved.buf => r.mem[a] = mem[a]
  BY StrtokFrame
<1>5. ASSUME alone[s] PROVE RightNow(s)'
  <2>1. /\ TakenUpTo(s, n) /\ n \in Nat /\ i \in 1 .. Len(opts[s]) /\ FieldsUpTo(s, i, 2)
        /\ parsed[s][i][2] = Meaning(o)[2] /\ i = n + 1
    <3>1. RightEnd(s)
      BY <1>1, <1>5 DEF Right, RightNow
    <3>2. /\ i >= 1 /\ TakenUpTo(s, n) /\ FieldsUpTo(s, i, 2) /\ parsed[s][i][2] = Meaning(o)[2]
      BY <1>0, <3>1 DEF RightEnd
    <3>3. /\ n \in Nat /\ n < Len(opts[s]) /\ parsed[s] \in Seq(Symbols \X Symbols)
          /\ opts[s] \in Seq([buf : {<<s, "pattern">>}, at : Nat])
      BY <3>2 DEF TakenUpTo, OptionsUpTo
    <3>4. i \in Nat /\ Len(opts[s]) \in Nat
      BY <1>0, <3>3
    <3>5. i \in 1 .. Len(opts[s]) /\ i = n + 1
      BY <1>0, <3>2, <3>3, <3>4
    <3> QED
      BY <3>2, <3>3, <3>5
  <2>2. /\ Gives(r, mem, b, o, Colon, 2)
        /\ IsOption(pattern[s], o) /\ o \in Seq(Symbols)
        /\ pattern[s] \in Seq(Symbols) /\ Spaced(pattern[s])
        /\ Walked(mem[b], o, Colon, saved.at, 2)
        /\ i \in 1 .. Cardinality(Starts(pattern[s], Semicolon))
    BY <1>0, <1>1, <2>1, NextField
  <2>3. Len(Fields(o, Colon)) = Cardinality(Starts(o, Colon))
    BY <2>2, FieldsFacts
  <2>4. /\ Fields(o, Colon)[1][1] \in Symbols /\ text = Fields(o, Colon)[1]
        /\ Fields(o, Colon)[2][1] \in Symbols
        /\ Fields(o, Colon)[2] = <<Fields(o, Colon)[2][1]>>
    <3> DEFINE c == mem[b]
               at == saved.at
    <3>1. /\ Walked(c, o, Colon, at, 2) /\ 1 \in 1 .. 2 /\ 2 \in 1 .. 2 /\ mem[b] = c
          /\ op[s] = Pointer(b, Nth(Starts(o, Colon), 1))
      BY <1>0, <2>1, <2>2 DEF FieldsUpTo
    <3>2. pattern[s] \in Seq(Symbols) /\ Spaced(pattern[s]) /\ IsOption(pattern[s], o)
      BY <2>2
    <3> HIDE DEF b, c, at
    <3>3. /\ Fields(o, Colon)[1][1] \in Symbols
          /\ Text(Pointer(b, Nth(Starts(o, Colon), 1)), mem) = Fields(o, Colon)[1]
      BY <3>1, <3>2, FieldFacts
    <3>4. /\ Fields(o, Colon)[2][1] \in Symbols
          /\ Fields(o, Colon)[2] = <<Fields(o, Colon)[2][1]>>
      BY <3>1, <3>2, FieldFacts
    <3> QED
      BY <3>1, <3>3, <3>4
  <2>5. /\ parsed[s] \in Seq(Symbols \X Symbols) /\ Len(parsed[s]) = i
        /\ \A j \in 1 .. n : RightOption(Option(s, j)) /\ parsed[s][j] = Meaning(Option(s, j))
    BY <1>0, <2>1 DEF TakenUpTo
  <2> HIDE DEF r, text, good
  <2>6. CASE good
    <3>1. r.tok = Nowhere /\ text \in {<<x>> : x \in Operators}
      BY <2>6 DEF good
    <3>2. Len(Fields(o, Colon)) = 2
      BY <2>2, <2>3, <3>1 DEF Gives
    <3>3. mem' = mem
      BY <1>1, <2>2, <3>1 DEF Gives
    <3>4. RightOption(o)
      <4>1. Fields(o, Colon)[2][1] \in Numeric
        <5>1. RightEnd(s)
          BY <1>1, <1>5 DEF Right, RightNow
        <5> QED
          BY <1>0, <5>1 DEF RightEnd
      <4>2. Fields(o, Colon)[2] \in {<<t>> : t \in Numeric}
        BY <2>4, <4>1
      <4> QED
        BY <2>4, <3>1, <3>2, <4>2 DEF RightOption
    <3>5. /\ parsed'[s] \in Seq(Symbols \X Symbols) /\ Len(parsed'[s]) = i
          /\ \A j \in 1 .. i : RightOption(Option(s, j)) /\ parsed'[s][j] = Meaning(Option(s, j))
      <4> DEFINE q == parsed[s]
                 e == <<text[1], q[i][2]>>
                 T == Symbols \X Symbols
      <4>1. parsed'[s] = [q EXCEPT ![i] = e]
        BY <1>2, <1>3, <2>6
      <4>2. e = Meaning(o) /\ e \in T
        BY <2>1, <2>4, AtoiSymbol DEF Meaning
      <4>3. q \in Seq(T) /\ Len(q) = i /\ i \in 1 .. Len(q)
        BY <2>1, <2>5
      <4> HIDE DEF q, e, T
      <4>4. /\ parsed'[s] \in Seq(T) /\ Len(parsed'[s]) = i
            /\ \A j \in 1 .. i : parsed'[s][j] = IF j = i THEN e ELSE q[j]
        BY <4>1, <4>2, <4>3
      <4>5. \A j \in 1 .. i : RightOption(Option(s, j)) /\ parsed'[s][j] = Meaning(Option(s, j))
        <5> SUFFICES ASSUME NEW j \in 1 .. i
                     PROVE  RightOption(Option(s, j)) /\ parsed'[s][j] = Meaning(Option(s, j))
          OBVIOUS
        <5>1. CASE j = i
          BY <1>0, <3>4, <4>2, <4>4, <5>1
        <5>2. CASE j # i
          <6>1. j \in 1 .. n
            BY <2>1, <5>2
          <6>2. parsed'[s][j] = q[j]
            BY <4>4, <5>2
          <6> QED
            BY <2>5, <6>1, <6>2 DEF q
        <5> QED
          BY <5>1, <5>2
      <4> QED
        BY <4>4, <4>5 DEF T
    <3>6. CASE i = Len(opts[s])
      <4>1. Len(opts[s]) = Cardinality(Starts(pattern[s], Semicolon)) /\ Len(opts[s]) >= 2
        BY <2>1 DEF TakenUpTo
      <4>2. CValid(pattern[s])
        BY <1>1, <3>5, <3>6, <4>1, CValidIs
      <4>3. CParsed(pattern[s]) = [j \in 1 .. i |-> Meaning(Option(s, j))]
        BY <1>1, <3>6, <4>1, CValidIs
      <4>4. parsed'[s] = CParsed(pattern[s])
        BY <3>5, <4>3
      <4>5. parsePc'[s] = "accepted"
        BY <1>0, <1>2, <1>3, <2>6, <3>6
      <4> QED
        BY <1>1, <4>2, <4>4, <4>5 DEF RightNow, RightParsed
    <3>7. CASE i # Len(opts[s])
      <4>1. i \in Nat /\ i < Len(opts[s])
        <5>1. Len(opts[s]) \in Nat
          BY <2>1 DEF TakenUpTo, OptionsUpTo
        <5> QED
          BY <2>1, <3>7, <5>1
      <4>2. OptionsUpTo(s, Len(pattern[s]) + 1)'
        BY <1>1, <2>1, <3>3 DEF TakenUpTo, OptionsUpTo
      <4>3. Len(opts'[s]) = Cardinality(Starts(pattern'[s], Semicolon)) /\ Len(opts'[s]) >= 2
        BY <1>1, <2>1 DEF TakenUpTo
      <4>4. \A j \in 1 .. i : RightOption(Option(s, j)') /\ parsed'[s][j] = Meaning(Option(s, j)')
        BY <1>1, <3>5 DEF Option
      <4>5. TakenUpTo(s, Len(parsed[s]))'
        BY <1>1, <3>5, <4>1, <4>2, <4>3, <4>4 DEF TakenUpTo
      <4>6. parsePc'[s] = "option"
        BY <1>0, <1>2, <1>3, <2>6, <3>7
      <4> QED
        BY <4>5, <4>6 DEF RightNow, Parsed, Finished
    <3> QED
      BY <3>6, <3>7
  <2>7. CASE ~good
    <3>1. ~RightOption(o)
      <4>1. CASE r.tok # Nowhere
        <5>1. 2 + 1 <= Cardinality(Starts(o, Colon))
          BY <2>2, <4>1 DEF Gives
        <5>2. Len(Fields(o, Colon)) # 2
          BY <2>3, <5>1
        <5> QED
          BY <5>2 DEF RightOption
      <4>2. CASE text \notin {<<x>> : x \in Operators}
        BY <2>4, <4>2 DEF RightOption
      <4> QED
        BY <2>7, <4>1, <4>2 DEF good
    <3>2. ~CValid(pattern[s])
      BY <1>0, <1>1, <2>2, <3>1, NotTaken
    <3>3. parsePc'[s] = "rejected"
      BY <1>2, <1>3, <2>7
    <3> QED
      BY <1>1, <3>2, <3>3 DEF RightNow, Parsed, Finished
  <2> QED
    BY <2>6, <2>7
<1> HIDE DEF r, text, good
<1>6. \A t \in Session \ {s} : saved.buf # <<t, "pattern">> =>
        mem'[<<t, "pattern">>] = mem[<<t, "pattern">>]
  BY <1>1, <1>3, <1>4
<1>7. saved'.buf \in {saved.buf, <<s, "pattern">>, <<s, "dup">>} /\ DOMAIN mem' = DOMAIN mem
  BY <1>1, <1>4
<1>8. PICK x \in {"accepted", "option", "rejected"} : parsePc' = [parsePc EXCEPT ![s] = x]
  BY <1>2
<1>9. DOMAIN parsed' = Session /\ \A t \in Session \ {s} : parsed'[t] = parsed[t]
  BY <1>2, <1>3
<1>10. x \in {"split", "option", "length", "end", "accepted", "rejected"}
  OBVIOUS
<1> QED
  BY <1>1, <1>3, <1>5, <1>6, <1>7, <1>8, <1>9, <1>10, CallKeeps

\* As long as it is alone, no session gets as far as the comparison of an operator that
\* is not there.
LEMMA NullOperatorKeeps ==
  ASSUME ParseInv, NEW s \in Session, NullOperator(s)
  PROVE  ParseInv'
<1>1. /\ ParseTypeOK /\ Right(s) /\ parsePc[s] = "end" /\ op[s] = Nowhere
      /\ parsePc' = [t \in Session |-> "crashed"]
      /\ pattern' = pattern /\ mem' = mem /\ saved' = saved /\ opts' = opts /\ op' = op
      /\ parsed' = parsed /\ alone' = alone
  BY DEF ParseInv, NullOperator
<1>2. ~alone[s]
  <2> SUFFICES ASSUME alone[s] PROVE FALSE
    OBVIOUS
  <2>1. FieldsUpTo(s, Len(parsed[s]), 2)
    BY <1>1 DEF Right, RightNow, RightEnd
  <2>2. PICK o : /\ o = Option(s, Len(parsed[s]))
                 /\ Walked(mem[<<s, "dup">>], o, Colon, saved.at, 2)
                 /\ op[s] = Pointer(<<s, "dup">>, Nth(Starts(o, Colon), 1))
    BY <2>1 DEF FieldsUpTo
  <2>3. TakenUpTo(s, Len(parsed[s]) - 1)
    BY <1>1 DEF Right, RightNow, RightEnd
  <2>4. o \in Seq(Symbols)
    <3>1. Len(parsed[s]) \in 1 .. Len(opts[s])
      <4>1. /\ Len(parsed[s]) - 1 \in Nat /\ Len(parsed[s]) - 1 < Len(opts[s])
            /\ parsed[s] \in Seq(Symbols \X Symbols)
            /\ opts[s] \in Seq([buf : {<<s, "pattern">>}, at : Nat])
        BY <2>3 DEF TakenUpTo, OptionsUpTo
      <4>2. Len(parsed[s]) \in Nat /\ Len(opts[s]) \in Nat
        BY <4>1
      <4> QED
        BY <4>1, <4>2
    <3> QED
      BY <1>1, <2>2, <2>3, <3>1, OptionFacts
  <2>5. Nth(Starts(o, Colon), 1) \in Before(o, Colon, saved.at)
    BY <2>2 DEF Walked
  <2>6. Nth(Starts(o, Colon), 1) \in 1 .. Len(o)
    BY <2>4, <2>5, StartsFacts DEF Before
  <2>7. op[s].at # 0
    BY <2>2, <2>6 DEF Pointer
  <2> QED
    BY <1>1, <2>7 DEF Nowhere
<1>3. \A t \in Session : parsePc'[t] = "crashed"
  BY <1>1
<1>4. ParseTypeOK'
  BY <1>1 DEF ParseTypeOK, Finished
<1>5. \A t \in Session : Right(t)'
  BY <1>3 DEF Right, RightNow, Parsed, Finished
<1>6. CrashNotAlone'
  BY <1>1, <1>2 DEF CrashNotAlone
<1> QED
  BY <1>4, <1>5, <1>6 DEF ParseInv

\* A step that leaves a session and its memory alone leaves it right.
LEMMA UntouchedKeeps ==
  ASSUME pattern' = pattern, mem' = mem, saved' = saved, opts' = opts, op' = op,
         parsed' = parsed, alone' = alone, NEW t \in Session, parsePc'[t] = parsePc[t], Right(t)
  PROVE  Right(t)'
<1>1. Fresh(t) => Fresh(t)'
  BY DEF Fresh
<1>2. Parsed(t)' <=> Parsed(t)
  BY DEF Parsed
<1>3. /\ RightSplit(t) => RightSplit(t)'
      /\ TakenUpTo(t, Len(parsed[t])) => TakenUpTo(t, Len(parsed[t]))'
  BY DEF RightSplit, OptionsUpTo, TakenUpTo, Option
<1>4. RightLength(t) => RightLength(t)'
  BY DEF RightLength, OptionsUpTo, TakenUpTo, FieldsUpTo, Option
<1>5. RightEnd(t) => RightEnd(t)'
  BY DEF RightEnd, OptionsUpTo, TakenUpTo, FieldsUpTo, Option
<1>6. RightParsed(t) => RightParsed(t)'
  BY DEF RightParsed
<1>7. RightNow(t) => RightNow(t)'
  BY <1>2, <1>3, <1>4, <1>5, <1>6 DEF RightNow
<1> QED
  BY <1>1, <1>7 DEF Right

\* C2 builds its Encoder from an accepted pattern.
LEMMA ConnectKeeps ==
  ASSUME ParseInv, NEW s \in Session, Connect(s)
  PROVE  ParseInv'
<1>1. /\ ParseTypeOK /\ parsePc[s] = "accepted"
      /\ parsePc' = [parsePc EXCEPT ![s] = IF PyEncoder(pattern[s]) THEN "connected" ELSE "ended"]
      /\ pattern' = pattern /\ mem' = mem /\ saved' = saved /\ opts' = opts /\ op' = op
      /\ parsed' = parsed /\ alone' = alone
  BY DEF ParseInv, Connect
<1>2. PICK x \in {"connected", "ended"} : parsePc' = [parsePc EXCEPT ![s] = x]
  BY <1>1
<1>3. ParseTypeOK'
  BY <1>1, <1>2 DEF ParseTypeOK, Finished
<1>4. \A t \in Session : parsePc'[t] = IF t = s THEN x ELSE parsePc[t]
  BY <1>1, <1>2 DEF ParseTypeOK
<1>5. ASSUME NEW t \in Session PROVE Right(t)'
  <2>1. Right(t)
    BY DEF ParseInv
  <2>2. RightParsed(t) => RightParsed(t)'
    BY <1>1 DEF RightParsed
  <2>3. CASE t = s
    <3>1. Parsed(t) /\ parsePc'[t] = x
      BY <1>1, <1>4, <2>3 DEF Parsed, Finished
    <3>2. alone'[t] => RightParsed(t)'
      BY <1>1, <2>1, <2>2, <3>1 DEF Right, RightNow
    <3> QED
      BY <3>1, <3>2 DEF Right, RightNow
  <2>4. CASE t # s
    <3>1. parsePc'[t] = parsePc[t]
      BY <1>4, <2>4
    <3> QED
      BY <1>1, <2>1, <3>1, UntouchedKeeps
  <2> QED
    BY <2>3, <2>4
<1>6. CrashNotAlone'
  BY <1>1, <1>4 DEF CrashNotAlone, ParseInv
<1> QED
  BY <1>3, <1>5, <1>6 DEF ParseInv

\* The invariant holds at first.
LEMMA ParseInvInit == ParseInit => ParseInv
<1> SUFFICES ASSUME ParseInit PROVE ParseInv
  OBVIOUS
<1> USE DEF ParseInit
<1>1. ParseTypeOK
  BY DEF ParseTypeOK
<1>2. ASSUME NEW s \in Session PROVE Right(s)
  <2>1. mem[<<s, "pattern">>] = Append(pattern[s], Nul)
    <3> DEFINE b == <<s, "pattern">>
    <3>1. b \in Session \X {"pattern", "dup"} /\ b[1] = s /\ b[2] = "pattern"
      OBVIOUS
    <3> HIDE DEF b
    <3>2. mem[b] = Append(pattern[s], Nul)
      BY <3>1
    <3> QED
      BY <3>2 DEF b
  <2>2. saved.buf # <<s, "pattern">>
    <3>1. saved.buf = <<>>
      BY DEF Nowhere
    <3>2. Len(<<>>) = 0 /\ Len(<<s, "pattern">>) = 2
      OBVIOUS
    <3> QED
      BY <3>1, <3>2
  <2>3. opts[s] = <<>> /\ parsed[s] = <<>> /\ parsePc[s] = "start"
    OBVIOUS
  <2> QED
    BY <2>1, <2>2, <2>3 DEF Right, RightNow, Fresh, Parsed, Finished
<1>3. CrashNotAlone
  BY DEF CrashNotAlone
<1> QED
  BY <1>1, <1>2, <1>3 DEF ParseInv

\* Every step keeps it.
LEMMA ParseInvStep == ParseInv /\ [ParseNext]_parseVars => ParseInv'
<1> SUFFICES ASSUME ParseInv, [ParseNext]_parseVars PROVE ParseInv'
  OBVIOUS
<1>1. CASE \E s \in Session :
        SplitOptions(s) \/ TakeOperator(s) \/ TakeLength(s) \/ CheckOption(s)
        \/ NullOperator(s) \/ Connect(s)
  BY <1>1, SplitOptionsKeeps, TakeOperatorKeeps, TakeLengthKeeps, CheckOptionKeeps,
     NullOperatorKeeps, ConnectKeeps
<1>2. CASE UNCHANGED parseVars
  <2>1. /\ pattern' = pattern /\ parsePc' = parsePc /\ mem' = mem /\ saved' = saved
        /\ opts' = opts /\ op' = op /\ parsed' = parsed /\ alone' = alone
    BY <1>2 DEF parseVars
  <2>2. ParseTypeOK'
    BY <2>1 DEF ParseInv, ParseTypeOK
  <2>3. \A s \in Session : Right(s)'
    BY <2>1, UntouchedKeeps DEF ParseInv
  <2>4. CrashNotAlone'
    BY <2>1 DEF ParseInv, CrashNotAlone
  <2> QED
    BY <2>2, <2>3, <2>4 DEF ParseInv
<1> QED
  BY <1>1, <1>2 DEF ParseNext, AllFinished

\* The inductive invariant of PatternParse: a session that has not begun has its pattern
\* untouched, one that parses alone has found the options and fields so far where they
\* are in the pattern, and one that has finished alone was right.
THEOREM ParseInvariant == ParseSpec => []ParseInv
<1>1. ParseInit => ParseInv
  BY ParseInvInit
<1>2. ParseInv /\ [ParseNext]_parseVars => ParseInv'
  BY ParseInvStep
<1> QED
  BY <1>1, <1>2, PTL DEF ParseSpec

\* A session that parses by itself gets exactly the options of its pattern, and as long
\* as all do the process does not end at an operator that is not there (scrapePattern and
\* patternValidate in encoder.c).
THEOREM ParsesAlone == ParseSpec => []RightAlone
<1>1. ParseInv => RightAlone
  BY DEF ParseInv, Right, RightNow, RightParsed, CrashNotAlone, RightAlone
<1> QED
  BY <1>1, ParseInvariant, PTL

-----------------------------------------------------------------------------
(* The two parsers.                                                        *)

\* There is a k-th place for every k up to the number of places.
LEMMA NthIn ==
  ASSUME NEW S \in SUBSET Nat, IsFiniteSet(S), NEW k \in 1 .. Cardinality(S)
  PROVE  Nth(S, k) \in S
<1> DEFINE n == Cardinality(S)
           To(i) == {j \in S : j <= i}
           rank == [i \in S |-> Cardinality(To(i))]
<1>1. n \in Nat
  BY FS_CardinalityType
<1>2. ASSUME NEW i \in S
      PROVE  rank[i] \in 1 .. n
  <2>1. To(i) \in SUBSET S /\ i \in To(i) /\ rank[i] = Cardinality(To(i))
    OBVIOUS
  <2> HIDE DEF To, rank
  <2>2. IsFiniteSet(To(i)) /\ Cardinality(To(i)) <= n
    BY <2>1, FS_Subset
  <2>3. Cardinality(To(i)) \in Nat /\ Cardinality(To(i)) # 0
    BY <2>1, <2>2, FS_CardinalityType, FS_EmptySet
  <2> HIDE DEF n
  <2> QED
    BY <1>1, <2>1, <2>2, <2>3
<1>3. \A i \in S : Nth(S, rank[i]) = i
  BY NthOf
<1>4. DOMAIN rank = S
  OBVIOUS
<1> HIDE DEF rank, n
<1>5. \A a, b \in S : rank[a] = rank[b] => a = b
  BY <1>3
<1>6. rank \in [S -> 1 .. n]
  BY <1>2 DEF rank
<1>7. rank \in Injection(S, 1 .. n)
  BY <1>4, <1>5, <1>6 DEF Injection, IsInjective
<1>8. IsFiniteSet(1 .. n) /\ Cardinality(1 .. n) = n
  <2>1. 1 \in Int /\ n \in Int
    BY <1>1
  <2>2. IsFiniteSet(1 .. n) /\ Cardinality(1 .. n) = IF 1 > n THEN 0 ELSE n - 1 + 1
    BY <2>1, FS_Interval
  <2> QED
    BY <1>1, <2>2
<1>9. rank \in Surjection(S, 1 .. n)
  <2>1. Cardinality(S) = Cardinality(1 .. n)
    BY <1>8 DEF n
  <2> QED
    BY <1>7, <1>8, <2>1, FS_Injection
<1>10. PICK i \in S : rank[i] = k
  BY <1>9 DEF Surjection, n
<1> QED
  BY <1>3, <1>10

\* Where no piece is empty, str.split and the skipping of separators come to the same.
LEMMA NonePiecesEmpty ==
  ASSUME NEW str \in Seq(Symbols), NEW d \in Separators,
         \A k \in 1 .. Cardinality(Places(str, d)) : Split(str, d)[k] # <<>>
  PROVE  Split(str, d) = Fields(str, d)
<1> DEFINE P == Places(str, d)
           S == Starts(str, d)
           n == Cardinality(P)
<1>1. /\ IsFiniteSet(P) /\ P \in SUBSET (1 .. Len(str) + 1) /\ P \in SUBSET Nat /\ n \in Nat
      /\ Len(str) \in Nat
  <2>1. IsFiniteSet(P) /\ P \in SUBSET (1 .. Len(str) + 1)
    BY StartsFacts
  <2> HIDE DEF P
  <2> QED
    BY <2>1, FS_CardinalityType DEF n
<1>2. ASSUME NEW p \in P
      PROVE  p \in S
  <2> DEFINE To == {q \in P : q <= p}
             k == Cardinality(To)
             e == EndOf(str, d, p)
  <2>1. To \in SUBSET P /\ p \in To
    BY <1>1
  <2>2. k \in 1 .. n
    <3> HIDE DEF To, P
    <3>1. IsFiniteSet(To) /\ Cardinality(To) <= n
      BY <1>1, <2>1, FS_Subset DEF n
    <3>2. Cardinality(To) \in Nat /\ Cardinality(To) # 0
      BY <2>1, <3>1, FS_CardinalityType, FS_EmptySet
    <3> HIDE DEF n
    <3> QED
      BY <1>1, <3>1, <3>2 DEF k
  <2>3. Nth(P, k) = p
    <3> HIDE DEF P
    <3> QED
      BY <1>1, NthOf
  <2> HIDE DEF k
  <2>4. Split(str, d)[k] = SubSeq(str, p, e - 1)
    <3>1. Split(str, d)[k] = SubSeq(str, Nth(P, k), EndOf(str, d, Nth(P, k)) - 1)
      BY <2>2, Zenon DEF Split, Pieces
    <3> QED
      BY <2>3, <3>1
  <2>5. p \in 1 .. Len(str) + 1
    BY <1>1
  <2>6. e \in p .. Len(str) + 1 /\ \A j \in p .. e - 1 : j \in 1 .. Len(str) /\ str[j] # d
    BY <2>5, EndOfFacts
  <2> HIDE DEF e
  <2>7. e # p
    <3> SUFFICES ASSUME e = p PROVE FALSE
      OBVIOUS
    <3>1. Len(SubSeq(str, p, e - 1)) = e - p /\ SubSeq(str, p, e - 1) \in Seq(Symbols)
      BY <2>5, <2>6, PartFacts
    <3>2. e - p = 0
      BY <2>5
    <3>3. SubSeq(str, p, e - 1) = <<>>
      BY <3>1, <3>2, EmptySeq
    <3> QED
      BY <2>2, <2>4, <3>3
  <2>8. p \in p .. e - 1
    BY <2>5, <2>6, <2>7
  <2>9. p \in 1 .. Len(str) /\ str[p] # d
    BY <2>6, <2>8
  <2> QED
    BY <2>9 DEF Starts
<1>3. S \in SUBSET P
  BY DEF Starts
<1>4. P = S
  BY <1>2, <1>3
<1> QED
  BY <1>4 DEF Split, Fields

\* A pattern that C2 and its Encoder take: what it means to them is what it means to the
\* FTS, which takes it.
LEMMA PyMeaning ==
  ASSUME ParseTypeOK, NEW s \in Session, PyValid(pattern[s]), PyEncoder(pattern[s])
  PROVE  /\ CValid(pattern[s])
         /\ CParsed(pattern[s]) = [i \in 1 .. 2 |-> <<PyOptions(pattern[s])[i][1][1],
                                                      Atoi(PyOptions(pattern[s])[i][2][1])>>]
<1> DEFINE str == pattern[s]
           P == Places(str, Semicolon)
           opt(i) == Split(str, Semicolon)[i]
           o == PyOptions(str)
<1>1. str \in Seq(Symbols) /\ Semicolon \in Separators /\ Colon \in Separators
  BY PatternFacts DEF Separators
<1>2. /\ Len(o) = 2
      /\ \A i \in DOMAIN o : /\ Len(o[i]) = 2 /\ o[i][1] \in {<<x>> : x \in Operators}
                             /\ o[i][2] \in {<<t>> : t \in DigitTexts}
  BY DEF PyValid, PyEncoder
<1>3. Cardinality(P) \in Nat /\ DOMAIN Split(str, Semicolon) = 1 .. Cardinality(P)
  <2>1. IsFiniteSet(P)
    BY <1>1, StartsFacts
  <2>2. Cardinality(P) \in Nat
    BY <2>1, FS_CardinalityType
  <2>3. DOMAIN Split(str, Semicolon) = 1 .. Cardinality(P)
    BY Zenon DEF Split, Pieces
  <2> QED
    BY <2>2, <2>3
<1>4. Cardinality(P) = 2 /\ DOMAIN o = 1 .. 2 /\ \A i \in 1 .. 2 : o[i] = Split(opt(i), Colon)
  <2> DEFINE n == Cardinality(P)
             g(i) == Split(opt(i), Colon)
  <2>1. o = [i \in 1 .. n |-> g(i)]
    BY <1>3 DEF PyOptions
  <2> HIDE DEF g, n
  <2>2. n \in Nat /\ Len([i \in 1 .. n |-> g(i)]) = 2
    BY <1>2, <1>3, <2>1 DEF n
  <2>3. n = 2
    BY <2>2
  <2>4. DOMAIN o = 1 .. 2 /\ \A i \in 1 .. 2 : o[i] = g(i)
    BY <2>1, <2>3
  <2> QED
    BY <2>3, <2>4 DEF n, g
<1> HIDE DEF o, P
<1>5. ASSUME NEW i \in 1 .. 2
      PROVE  opt(i) # <<>>
  <2> SUFFICES ASSUME opt(i) = <<>> PROVE FALSE
    OBVIOUS
  <2>1. o[i] = Split(<<>>, Colon) /\ Len(o[i]) = 2
    BY <1>2, <1>4
  <2>2. Places(<<>>, Colon) = {1}
    <3>1. Len(<<>>) = 0 /\ 1 .. 0 + 1 = {1}
      OBVIOUS
    <3> QED
      BY <3>1 DEF Places
  <2>3. Cardinality(Places(<<>>, Colon)) = 1
    BY <2>2, FS_Singleton
  <2>4. Len(Split(<<>>, Colon)) = 1
    <3> DEFINE n == Cardinality(Places(<<>>, Colon))
               g(k) == SubSeq(<<>>, Nth(Places(<<>>, Colon), k),
                              EndOf(<<>>, Colon, Nth(Places(<<>>, Colon), k)) - 1)
    <3>1. Split(<<>>, Colon) = [k \in 1 .. n |-> g(k)]
      BY DEF Split, Pieces
    <3> HIDE DEF g, n
    <3>2. n = 1
      BY <2>3 DEF n
    <3>3. Len([k \in 1 .. n |-> g(k)]) = 1
      BY <3>2
    <3> QED
      BY <3>1, <3>3
  <2> QED
    BY <2>1, <2>4
<1>6. Split(str, Semicolon) = Fields(str, Semicolon)
  <2>1. \A k \in 1 .. Cardinality(Places(str, Semicolon)) : Split(str, Semicolon)[k] # <<>>
    BY <1>4, <1>5 DEF P
  <2> QED
    BY <1>1, <2>1, NonePiecesEmpty
<1>7. Cardinality(Starts(str, Semicolon)) = 2
  <2>1. DOMAIN Fields(str, Semicolon) = 1 .. 2
    BY <1>3, <1>4, <1>6
  <2>2. /\ Cardinality(Starts(str, Semicolon)) \in Nat
        /\ Len(Fields(str, Semicolon)) = Cardinality(Starts(str, Semicolon))
        /\ DOMAIN Fields(str, Semicolon) = 1 .. Cardinality(Starts(str, Semicolon))
    BY <1>1, FieldsFacts
  <2> DEFINE n == Cardinality(Starts(str, Semicolon))
  <2>3. n \in Nat /\ 1 .. n = 1 .. 2
    BY <2>1, <2>2
  <2> HIDE DEF n
  <2>4. n = 2
    <3>1. 2 \in 1 .. n /\ 3 \notin 1 .. n
      BY <2>3
    <3> QED
      BY <2>3, <3>1
  <2> QED
    BY <2>4 DEF n
<1>8. ASSUME NEW i \in 1 .. 2
      PROVE  /\ Option(s, i) \in Seq(Symbols) /\ o[i] = Fields(Option(s, i), Colon)
             /\ RightOption(Option(s, i))
  <2>1. Option(s, i) = opt(i)
    BY <1>6 DEF Option
  <2>2. Option(s, i) \in Seq(Symbols)
    <3> DEFINE S == Starts(str, Semicolon)
               a == Nth(S, i)
    <3>1. S \in SUBSET Nat /\ IsFiniteSet(S) /\ i \in 1 .. Cardinality(S)
      BY <1>1, <1>7, StartsFacts
    <3>2. a \in S
      <4> HIDE DEF S
      <4> QED
        BY <3>1, NthIn
    <3>3. Option(s, i) = Piece(str, Semicolon, a)
      BY <1>1, <3>1, FieldsFacts DEF Option
    <3>4. Piece(str, Semicolon, a) \in Seq(Symbols)
      <4> HIDE DEF a
      <4> QED
        BY <1>1, <3>2, FieldAt
    <3> QED
      BY <3>3, <3>4
  <2> DEFINE q == Option(s, i)
  <2>3. /\ o[i] = Split(q, Colon) /\ Len(o[i]) = 2
        /\ o[i][1] \in {<<x>> : x \in Operators} /\ o[i][2] \in {<<t>> : t \in DigitTexts}
    BY <1>2, <1>4, <2>1
  <2>4. q \in Seq(Symbols)
    BY <2>2
  <2> HIDE DEF q
  <2>5. Cardinality(Places(q, Colon)) = 2
    <3> DEFINE n == Cardinality(Places(q, Colon))
               g(k) == SubSeq(q, Nth(Places(q, Colon), k),
                              EndOf(q, Colon, Nth(Places(q, Colon), k)) - 1)
    <3>1. Split(q, Colon) = [k \in 1 .. n |-> g(k)]
      BY DEF Split, Pieces
    <3>2. n \in Nat
      <4>1. IsFiniteSet(Places(q, Colon))
        BY <2>4, StartsFacts
      <4> QED
        BY <4>1, FS_CardinalityType
    <3> HIDE DEF g, n
    <3>3. Len([k \in 1 .. n |-> g(k)]) = 2
      BY <2>3, <3>1
    <3>4. n = 2
      BY <3>2, <3>3
    <3> QED
      BY <3>4 DEF n
  <2>6. \A k \in 1 .. Cardinality(Places(q, Colon)) : Split(q, Colon)[k] # <<>>
    <3>1. \A x : <<x>> # <<>>
      OBVIOUS
    <3>2. Split(q, Colon)[1] # <<>> /\ Split(q, Colon)[2] # <<>>
      BY <2>3, <3>1
    <3>3. \A k \in 1 .. 2 : k = 1 \/ k = 2
      OBVIOUS
    <3> QED
      BY <2>5, <3>2, <3>3
  <2>7. Split(q, Colon) = Fields(q, Colon)
    BY <1>1, <2>4, <2>6, NonePiecesEmpty
  <2>8. RightOption(q)
    BY <2>3, <2>7 DEF RightOption, Numeric
  <2> QED
    BY <2>2, <2>3, <2>7, <2>8 DEF q
<1>9. CValid(str) /\ CParsed(str) = [i \in 1 .. 2 |-> Meaning(Option(s, i))]
  <2>1. \A i \in 1 .. Cardinality(Starts(str, Semicolon)) : RightOption(Option(s, i))
    BY <1>7, <1>8
  <2> DEFINE K == Cardinality(Starts(str, Semicolon))
  <2>2. /\ CValid(str) <=> K >= 2 /\ \A i \in 1 .. K : RightOption(Option(s, i))
        /\ CParsed(str) = [i \in 1 .. K |-> Meaning(Option(s, i))]
    BY CValidIs, Zenon
  <2>3. K = 2 /\ \A i \in 1 .. K : RightOption(Option(s, i))
    BY <1>7, <2>1
  <2> HIDE DEF K
  <2>4. K >= 2
    BY <2>3
  <2> QED
    BY <2>2, <2>3, <2>4
<1>10. \A i \in 1 .. 2 : Meaning(Option(s, i)) = <<o[i][1][1], Atoi(o[i][2][1])>>
  BY <1>8 DEF Meaning
<1>11. CParsed(str) = [i \in 1 .. 2 |-> <<o[i][1][1], Atoi(o[i][2][1])>>]
  BY <1>9, <1>10
<1> QED
  BY <1>9, <1>11 DEF o

\* The parsers of encoder.py and encoder.c agree: a pattern that C2 and its Encoder take,
\* a session that parses alone takes too, as the same operators and with the digits that
\* C2 matched for lengths.
THEOREM ParsersAgree == ParseSpec => []AgreesWithPython
<1>1. ASSUME ParseInv PROVE AgreesWithPython
  <2> SUFFICES ASSUME NEW s \in Session, alone[s], parsePc[s] \in Finished \ {"crashed"},
                      PyValid(pattern[s]), PyEncoder(pattern[s])
               PROVE  /\ Parsed(s)
                      /\ parsed[s] = [i \in 1 .. 2 |-> <<PyOptions(pattern[s])[i][1][1],
                                                         Atoi(PyOptions(pattern[s])[i][2][1])>>]
    BY DEF AgreesWithPython
  <2>1. RightNow(s) /\ ParseTypeOK
    BY <1>1 DEF ParseInv, Right
  <2>2. CValid(pattern[s])
        /\ CParsed(pattern[s]) = [i \in 1 .. 2 |-> <<PyOptions(pattern[s])[i][1][1],
                                                     Atoi(PyOptions(pattern[s])[i][2][1])>>]
    BY <2>1, PyMeaning
  <2>3. parsePc[s] # "rejected"
    BY <2>1, <2>2 DEF RightNow
  <2>4. Parsed(s)
    BY <2>3 DEF Parsed
  <2>5. parsed[s] = CParsed(pattern[s])
    BY <2>1, <2>4 DEF RightNow, RightParsed
  <2> QED
    BY <2>2, <2>4, <2>5
<1> QED
  BY <1>1, ParseInvariant, PTL
=============================================================================
