--------------------------- MODULE DataPathProofs ---------------------------
(***************************************************************************)
(* Theorems about DataPath, for any files, lengths of a read and options.  *)
(***************************************************************************)
EXTENDS DataPath, SequenceTheorems, WellFoundedInduction, TLAPS

\* The least element of a set of numbers.
LEMMA LeastOf ==
  ASSUME NEW T \in SUBSET Nat, T # {}
  PROVE  \E m \in T : \A k \in T : m <= k
<1> DEFINE R == OpToRel(<, Nat)
<1>1. IsWellFoundedOn(R, Nat)
  BY NatLessThanWellFounded
<1>2. \A k, m \in Nat : k < m => <<k, m>> \in R
  BY DEF OpToRel
<1> HIDE DEF R
<1>3. PICK m \in T : \A k \in T : <<k, m>> \notin R
  BY <1>1, WFMin
<1>4. \A k \in T : ~(k < m) /\ k \in Nat /\ m \in Nat
  BY <1>2, <1>3
<1> QED
  BY <1>4

\* A sequence of a function's values.
LEMMA SubSeqFacts ==
  ASSUME NEW S, NEW s \in Seq(S), NEW m \in Nat, NEW n \in Nat, 1 <= m, m <= n + 1, n <= Len(s)
  PROVE  /\ SubSeq(s, m, n) \in Seq(S) /\ Len(SubSeq(s, m, n)) = n - m + 1
         /\ \A i \in 1 .. n - m + 1 : SubSeq(s, m, n)[i] = s[m + i - 1]
<1>1. \A i \in m .. n : s[i] \in S
  OBVIOUS
<1>2. m \in Int /\ n \in Int
  OBVIOUS
<1>3. /\ SubSeq(s, m, n) \in Seq(S) /\ Len(SubSeq(s, m, n)) = IF m <= n THEN n - m + 1 ELSE 0
      /\ \A i \in 1 .. n - m + 1 : SubSeq(s, m, n)[i] = s[m + i - 1]
  BY <1>1, <1>2, SubSeqProperties
<1> QED
  BY <1>3

\* A sequence that follows another.
LEMMA ConcatFacts ==
  ASSUME NEW S, NEW s \in Seq(S), NEW t \in Seq(S)
  PROVE  /\ s \o t \in Seq(S) /\ Len(s \o t) = Len(s) + Len(t)
         /\ \A i \in 1 .. Len(s) : (s \o t)[i] = s[i]
         /\ \A i \in 1 .. Len(t) : (s \o t)[Len(s) + i] = t[i]
<1>1. s \o t \in Seq(S) /\ Len(s \o t) = Len(s) + Len(t)
  BY ConcatProperties
<1>2. \A i \in 1 .. Len(s) + Len(t) : (s \o t)[i] = IF i <= Len(s) THEN s[i] ELSE t[i - Len(s)]
  BY ConcatProperties
<1>3. Len(s) \in Nat /\ Len(t) \in Nat
  OBVIOUS
<1>4. \A i \in 1 .. Len(s) : (s \o t)[i] = s[i]
  BY <1>2, <1>3
<1>5. ASSUME NEW i \in 1 .. Len(t)
      PROVE  (s \o t)[Len(s) + i] = t[i]
  <2>1. Len(s) + i \in 1 .. Len(s) + Len(t) /\ ~(Len(s) + i <= Len(s)) /\ Len(s) + i - Len(s) = i
    BY <1>3
  <2> QED
    BY <1>2, <2>1
<1> QED
  BY <1>1, <1>4, <1>5

\* What is in front of the first NUL of the buffer.
LEMMA StrLenFacts ==
  ASSUME NEW d \in Seq(Nat)
  PROVE  /\ StrLen(d) \in 0 .. Len(d)
         /\ \A i \in 1 .. StrLen(d) : ~IsNul(d[i])
         /\ StrLen(d) < Len(d) => IsNul(d[StrLen(d) + 1])
<1> DEFINE Good(k) == (\A i \in 1 .. k : ~IsNul(d[i])) /\ (k < Len(d) => IsNul(d[k + 1]))
           N == {i \in 1 .. Len(d) : IsNul(d[i])}
<1>1. \E k \in 0 .. Len(d) : Good(k)
  <2>1. CASE N = {}
    <3>1. Len(d) \in 0 .. Len(d) /\ Good(Len(d))
      BY <2>1
    <3> QED
      BY <3>1
  <2>2. CASE N # {}
    <3>0. N \in SUBSET Nat
      OBVIOUS
    <3> HIDE DEF N
    <3>1. PICK m \in N : \A k \in N : m <= k
      BY <2>2, <3>0, LeastOf
    <3> USE DEF N
    <3>2. m - 1 \in 0 .. Len(d) /\ m - 1 + 1 = m /\ m \in 1 .. Len(d) /\ IsNul(d[m])
      BY <3>1
    <3>3. \A i \in 1 .. m - 1 : ~IsNul(d[i])
      BY <3>1, <3>2
    <3>4. Good(m - 1)
      BY <3>2, <3>3
    <3> QED
      BY <3>2, <3>4
  <2> QED
    BY <2>1, <2>2
<1> HIDE DEF Good
<1>2. StrLen(d) = CHOOSE k \in 0 .. Len(d) : Good(k)
  BY DEF StrLen, Good
<1>3. StrLen(d) \in 0 .. Len(d) /\ Good(StrLen(d))
  BY <1>1, <1>2
<1> QED
  BY <1>3 DEF Good

-----------------------------------------------------------------------------
(* The inductive invariant.                                                *)

TypeOK ==
  /\ file \in Files /\ pc \in {"read", "send", "closed"} /\ read \in 0 .. Len(file)
  /\ data \in [1 .. MaxSize -> Nat] /\ temp \in Seq(Nat) /\ sent \in 0 .. Len(temp)
  /\ wire \in Seq(Nat \X Nat) /\ fss \in {"recv", "done", "ended"} /\ stored \in Seq(Int)

\* The bytes that stay in the buffer were read, and none of them is in the temporary
\* file yet, nor twice in the buffer.
Unwritten ==
  \A i \in 1 .. MaxSize : data[i] # 0 =>
    /\ data[i] <= read
    /\ \A j \in 1 .. MaxSize : j # i => data[j] # data[i]
    /\ \A j \in 1 .. Len(temp) : temp[j] # data[i]

Written ==
  /\ \A i \in 1 .. Len(temp) : temp[i] # 0 /\ temp[i] <= read
  /\ \A i, j \in 1 .. Len(temp) : i # j => temp[i] # temp[j]

\* Without NUL nothing stays in the buffer.
Clean == NulFree => temp = FirstBytes(read) /\ \A i \in 1 .. MaxSize : data[i] = 0

\* The connection holds the last of the bytes that were sent.
OnWire ==
  /\ pc = "read" => sent = 0
  /\ Len(wire) <= sent
  /\ \A i \in 1 .. Len(wire) : wire[i][1] = temp[sent - Len(wire) + i]

\* As long as the FSS receives, it has stored the others.
StoredSoFar ==
  aligned => /\ Len(stored) <= Len(temp)
             /\ \A i \in 1 .. Len(stored) : stored[i] = temp[i]
             /\ fss = "recv" => Len(stored) = sent - Len(wire)

IInv == TypeOK /\ Unwritten /\ Written /\ Clean /\ OnWire /\ StoredSoFar
-----------------------------------------------------------------------------
(* The steps of the session.                                               *)

\* The numbers and sequences of a typed state, as the arithmetic of the steps needs them.
LEMMA FileIsSeq ==
  ASSUME TypeOK
  PROVE  /\ file \in Seq({"text", "nul", "lead", "tail"}) /\ Len(file) \in Nat /\ read \in Nat
         /\ read <= Len(file) /\ Len(temp) \in Nat /\ sent \in Nat /\ Len(wire) \in Nat
         /\ MaxSize \in Nat /\ MaxSize >= 1
BY DataPathAssumption DEF TypeOK

\* What a read leaves in the buffer, d, and adds to the temporary file, the n bytes in
\* front of the first NUL.
LEMMA ReadFacts ==
  ASSUME TypeOK, Read
  PROVE  \E k \in 1 .. MaxSize, n \in 0 .. MaxSize, d \in [1 .. MaxSize -> Nat] :
           /\ read' = read + k /\ read + k <= Len(file)
           /\ \A i \in 1 .. k : d[i] = read + i
           /\ \A i \in k + 1 .. MaxSize : d[i] = data[i]
           /\ \A i \in 1 .. n : ~IsNul(d[i]) /\ d[i] # 0
           /\ n < MaxSize => IsNul(d[n + 1])
           /\ temp' \in Seq(Nat) /\ Len(temp') = Len(temp) + n
           /\ \A i \in 1 .. Len(temp) : temp'[i] = temp[i]
           /\ \A i \in 1 .. n : temp'[Len(temp) + i] = d[i]
           /\ data' \in [1 .. MaxSize -> Nat]
           /\ \A i \in 1 .. n : data'[i] = 0
           /\ \A i \in n + 1 .. MaxSize : data'[i] = d[i]
<1>0. read \in Nat /\ MaxSize \in Nat /\ data \in [1 .. MaxSize -> Nat] /\ temp \in Seq(Nat)
  BY FileIsSeq DEF TypeOK
<1>1. PICK k \in 1 .. MaxSize :
        LET d == [i \in DOMAIN data |-> IF i <= k THEN read + i ELSE data[i]] IN
        /\ read + k <= Len(file) /\ read' = read + k
        /\ temp' = temp \o SubSeq(d, 1, StrLen(d)) /\ data' = Zero(d)
  BY DEF Read
<1> DEFINE d == [i \in DOMAIN data |-> IF i <= k THEN read + i ELSE data[i]]
           n == StrLen(d)
           x == SubSeq(d, 1, n)
<1>2. /\ d \in [1 .. MaxSize -> Nat]
      /\ \A i \in 1 .. k : d[i] = read + i
      /\ \A i \in k + 1 .. MaxSize : d[i] = data[i]
  BY <1>0
<1>3. d \in Seq(Nat) /\ Len(d) = MaxSize
  BY <1>0, <1>2
<1>4. temp' = temp \o x /\ data' = Zero(d) /\ read' = read + k /\ read + k <= Len(file)
  BY <1>1
<1> HIDE DEF d
<1>5. n \in 0 .. MaxSize /\ (\A i \in 1 .. n : ~IsNul(d[i])) /\ (n < MaxSize => IsNul(d[n + 1]))
  BY <1>3, StrLenFacts
<1>6. \A i \in 1 .. n : d[i] # 0
  BY <1>5 DEF IsNul
<1>7. data' = [i \in 1 .. MaxSize |-> IF i <= n THEN 0 ELSE d[i]]
  BY <1>2, <1>4 DEF Zero
<1> HIDE DEF n
<1>8. x \in Seq(Nat) /\ Len(x) = n /\ \A i \in 1 .. n : x[i] = d[i]
  <2>1. n \in Nat /\ 1 \in Nat /\ 1 <= n + 1 /\ n <= Len(d) /\ n - 1 + 1 = n
    BY <1>0, <1>3, <1>5
  <2>2. /\ SubSeq(d, 1, n) \in Seq(Nat) /\ Len(SubSeq(d, 1, n)) = n - 1 + 1
        /\ \A i \in 1 .. n - 1 + 1 : SubSeq(d, 1, n)[i] = d[1 + i - 1]
    BY <1>3, <2>1, SubSeqFacts
  <2>3. \A i \in 1 .. n : 1 + i - 1 = i
    BY <2>1
  <2> QED
    BY <2>1, <2>2, <2>3
<1> HIDE DEF x
<1>9. /\ temp' \in Seq(Nat) /\ Len(temp') = Len(temp) + n
      /\ \A i \in 1 .. Len(temp) : temp'[i] = temp[i]
      /\ \A i \in 1 .. n : temp'[Len(temp) + i] = d[i]
  BY <1>0, <1>4, <1>8, ConcatFacts
<1>11. /\ data' \in [1 .. MaxSize -> Nat]
       /\ \A i \in 1 .. n : data'[i] = 0
       /\ \A i \in n + 1 .. MaxSize : data'[i] = d[i]
  BY <1>0, <1>2, <1>5, <1>7
<1>12. /\ \A i \in 1 .. n : ~IsNul(d[i]) /\ d[i] # 0
       /\ n < MaxSize => IsNul(d[n + 1])
  BY <1>5, <1>6
<1> QED
  BY <1>2, <1>4, <1>5, <1>9, <1>11, <1>12

\* One turn of the read loop keeps the invariant: the chunk is where the code put it.
LEMMA ReadStep == ASSUME IInv, Read PROVE IInv'
<1>0. TypeOK
  BY DEF IInv
<1>p. PICK k \in 1 .. MaxSize, n \in 0 .. MaxSize, d \in [1 .. MaxSize -> Nat] :
        /\ read' = read + k /\ read + k <= Len(file)
        /\ \A i \in 1 .. k : d[i] = read + i
        /\ \A i \in k + 1 .. MaxSize : d[i] = data[i]
        /\ \A i \in 1 .. n : ~IsNul(d[i]) /\ d[i] # 0
        /\ n < MaxSize => IsNul(d[n + 1])
        /\ temp' \in Seq(Nat) /\ Len(temp') = Len(temp) + n
        /\ \A i \in 1 .. Len(temp) : temp'[i] = temp[i]
        /\ \A i \in 1 .. n : temp'[Len(temp) + i] = d[i]
        /\ data' \in [1 .. MaxSize -> Nat]
        /\ \A i \in 1 .. n : data'[i] = 0
        /\ \A i \in n + 1 .. MaxSize : data'[i] = d[i]
  BY <1>0, ReadFacts
\* The numbers; the buffer; its first n bytes; the temporary file; the buffer zeroed.
<1>m. /\ read \in Nat /\ Len(temp) \in Nat /\ MaxSize \in Nat /\ k \in Nat /\ n \in Nat
      /\ k <= MaxSize /\ 1 <= k /\ n <= MaxSize /\ read' = read + k /\ read + k <= Len(file)
      /\ Len(file) \in Nat /\ Len(temp') = Len(temp) + n /\ sent \in Nat /\ Len(wire) \in Nat
  BY <1>0, <1>p, FileIsSeq
<1>b. /\ \A i \in 1 .. k : d[i] = read + i
      /\ \A i \in k + 1 .. MaxSize : d[i] = data[i]
  BY <1>p
<1>s. /\ \A i \in 1 .. n : ~IsNul(d[i]) /\ d[i] # 0
      /\ n < MaxSize => IsNul(d[n + 1])
  BY <1>p
<1>t. /\ temp' \in Seq(Nat)
      /\ \A i \in 1 .. Len(temp) : temp'[i] = temp[i]
      /\ \A i \in 1 .. n : temp'[Len(temp) + i] = d[i]
  BY <1>p
<1>z. /\ data' \in [1 .. MaxSize -> Nat]
      /\ \A i \in 1 .. n : data'[i] = 0
      /\ \A i \in n + 1 .. MaxSize : data'[i] = d[i]
  BY <1>p
<1>u. pc = "read" /\ UNCHANGED <<file, pc, sent, wire, fss, stored, aligned>>
  BY DEF Read
<1>4. TypeOK'
  <2>1. read' \in 0 .. Len(file) /\ sent \in 0 .. Len(temp')
    BY <1>m, <1>0 DEF TypeOK
  <2> QED
    BY <1>0, <1>t, <1>z, <1>u, <2>1 DEF TypeOK
<1>o. \A i \in 1 .. MaxSize : data[i] # 0 =>
        /\ data[i] <= read /\ data[i] \in Nat
        /\ \A j \in 1 .. MaxSize : j # i => data[j] # data[i]
        /\ \A j \in 1 .. Len(temp) : temp[j] # data[i]
  BY <1>0 DEF IInv, Unwritten, TypeOK
<1>w. \A i \in 1 .. Len(temp) : temp[i] \in Nat /\ temp[i] # 0 /\ temp[i] <= read
  BY <1>0 DEF IInv, Written, TypeOK
\* Place i of the buffer has a new byte, an old one that was not written, or none.
<1>1. ASSUME NEW i \in 1 .. MaxSize
      PROVE  \/ i <= k /\ d[i] = read + i
             \/ d[i] = data[i] /\ data[i] # 0 /\ i > k
             \/ d[i] = 0
  BY <1>m, <1>b
\* The bytes of the buffer before any is zeroed.
<1>5. ASSUME NEW i \in 1 .. MaxSize, d[i] # 0
      PROVE  /\ d[i] <= read + k
             /\ \A j \in 1 .. MaxSize : j # i => d[j] # d[i]
             /\ \A j \in 1 .. Len(temp) : temp[j] # d[i]
  <2>1. CASE i <= k /\ d[i] = read + i
    <3>1. ASSUME NEW j \in 1 .. MaxSize, j # i
          PROVE  d[j] # d[i]
      <4>1. CASE d[j] = data[j] /\ data[j] # 0
        <5>1. data[j] <= read /\ data[j] \in Nat
          BY <4>1, <1>o
        <5> QED
          BY <5>1, <4>1, <2>1, <1>m
      <4>2. CASE d[j] = read + j
        BY <4>2, <3>1, <2>1, <1>m
      <4> QED
        BY <1>5, <4>1, <4>2, <1>1
    <3>2. ASSUME NEW j \in 1 .. Len(temp)
          PROVE  temp[j] # d[i]
      <4>1. temp[j] \in Nat /\ temp[j] <= read
        BY <1>w
      <4> QED
        BY <4>1, <2>1, <1>m
    <3>3. d[i] <= read + k
      BY <1>m, <2>1
    <3> QED
      BY <3>1, <3>2, <3>3
  <2>2. CASE d[i] = data[i] /\ data[i] # 0 /\ i > k
    <3>1. /\ data[i] <= read /\ data[i] \in Nat
          /\ \A j \in 1 .. MaxSize : j # i => data[j] # data[i]
          /\ \A j \in 1 .. Len(temp) : temp[j] # data[i]
      BY <2>2, <1>o
    <3>2. ASSUME NEW j \in 1 .. MaxSize, j # i
          PROVE  d[j] # d[i]
      <4>1. CASE d[j] = data[j]
        BY <4>1, <3>1, <3>2, <2>2
      <4>2. CASE d[j] = read + j
        BY <4>2, <3>1, <2>2, <1>m
      <4> QED
        BY <1>5, <4>1, <4>2, <1>1
    <3>3. d[i] <= read + k
      BY <1>m, <2>2, <3>1
    <3> QED
      BY <2>2, <3>1, <3>2, <3>3
  <2> QED
    BY <1>1, <1>5, <2>1, <2>2
<1>6. Unwritten'
  <2> SUFFICES ASSUME NEW i \in 1 .. MaxSize, data'[i] # 0
               PROVE  /\ data'[i] <= read'
                      /\ \A j \in 1 .. MaxSize : j # i => data'[j] # data'[i]
                      /\ \A j \in 1 .. Len(temp') : temp'[j] # data'[i]
    BY DEF Unwritten
  <2>0. \A j \in 1 .. MaxSize : j \in 1 .. n \/ j \in n + 1 .. MaxSize
    BY <1>m
  <2>1. data'[i] = d[i] /\ d[i] # 0 /\ i \in n + 1 .. MaxSize
    BY <1>z, <2>0
  <2>2. /\ d[i] <= read + k
        /\ \A j \in 1 .. MaxSize : j # i => d[j] # d[i]
        /\ \A j \in 1 .. Len(temp) : temp[j] # d[i]
    BY <1>5, <2>1
  <2>3. \A j \in 1 .. MaxSize : j # i => data'[j] # data'[i]
    BY <1>z, <2>0, <2>1, <2>2
  <2>4. ASSUME NEW j \in 1 .. Len(temp')
        PROVE  temp'[j] # data'[i]
    <3>1. CASE j \in 1 .. Len(temp)
      BY <1>t, <2>1, <2>2, <3>1
    <3>2. ASSUME NEW l \in 1 .. n, j = Len(temp) + l
          PROVE  temp'[j] # data'[i]
      <4>1. l # i /\ l \in 1 .. MaxSize
        BY <1>m, <2>1
      <4> QED
        BY <1>t, <2>1, <2>2, <3>2, <4>1
    <3>3. j \in 1 .. Len(temp) \/ \E l \in 1 .. n : j = Len(temp) + l
      <4>1. CASE ~(j <= Len(temp))
        <5>1. j - Len(temp) \in 1 .. n /\ j = Len(temp) + (j - Len(temp))
          BY <1>m, <4>1
        <5> QED
          BY <5>1
      <4> QED
        BY <4>1, <1>m
    <3> QED
      BY <3>1, <3>2, <3>3
  <2>5. data'[i] <= read'
    BY <1>m, <2>1, <2>2
  <2> QED
    BY <2>3, <2>4, <2>5
<1>7. Written'
  <2>1. ASSUME NEW i \in 1 .. Len(temp')
        PROVE  \/ i \in 1 .. Len(temp) /\ temp'[i] = temp[i]
               \/ \E l \in 1 .. n : i = Len(temp) + l /\ temp'[i] = d[l]
    <3>1. CASE i <= Len(temp)
      BY <1>m, <1>t, <3>1
    <3>2. CASE ~(i <= Len(temp))
      <4>1. i - Len(temp) \in 1 .. n /\ i = Len(temp) + (i - Len(temp))
        BY <1>m, <3>2
      <4> QED
        BY <1>t, <4>1
    <3> QED
      BY <3>1, <3>2
  <2>2. ASSUME NEW l \in 1 .. n
        PROVE  /\ d[l] # 0 /\ d[l] <= read + k /\ l \in 1 .. MaxSize
               /\ \A j \in 1 .. n : j # l => d[j] # d[l]
               /\ \A j \in 1 .. Len(temp) : temp[j] # d[l]
    <3>1. l \in 1 .. MaxSize /\ \A j \in 1 .. n : j \in 1 .. MaxSize
      BY <1>m
    <3>2. d[l] # 0
      BY <1>s
    <3> QED
      BY <3>1, <3>2, <1>5
  <2>3. ASSUME NEW i \in 1 .. Len(temp')
        PROVE  temp'[i] # 0 /\ temp'[i] <= read'
    <3>1. CASE i \in 1 .. Len(temp) /\ temp'[i] = temp[i]
      BY <1>m, <1>w, <3>1
    <3>2. CASE \E l \in 1 .. n : i = Len(temp) + l /\ temp'[i] = d[l]
      BY <1>m, <2>2, <3>2
    <3> QED
      BY <2>1, <3>1, <3>2
  <2>4. ASSUME NEW i \in 1 .. Len(temp'), NEW j \in 1 .. Len(temp'), i # j
        PROVE  temp'[i] # temp'[j]
    <3>1. CASE i \in 1 .. Len(temp) /\ temp'[i] = temp[i] /\ j \in 1 .. Len(temp) /\ temp'[j] = temp[j]
      BY <2>4, <3>1 DEF IInv, Written
    <3>2. CASE /\ i \in 1 .. Len(temp) /\ temp'[i] = temp[i]
               /\ \E l \in 1 .. n : j = Len(temp) + l /\ temp'[j] = d[l]
      BY <2>2, <3>2
    <3>3. CASE /\ j \in 1 .. Len(temp) /\ temp'[j] = temp[j]
               /\ \E l \in 1 .. n : i = Len(temp) + l /\ temp'[i] = d[l]
      BY <2>2, <3>3
    <3>4. CASE /\ \E l \in 1 .. n : i = Len(temp) + l /\ temp'[i] = d[l]
               /\ \E l \in 1 .. n : j = Len(temp) + l /\ temp'[j] = d[l]
      BY <2>2, <2>4, <3>4
    <3> QED
      BY <2>1, <3>1, <3>2, <3>3, <3>4
  <2> QED
    BY <2>3, <2>4 DEF Written
<1>8. Clean'
  <2> SUFFICES ASSUME NulFree
               PROVE  temp' = FirstBytes(read') /\ \A i \in 1 .. MaxSize : data'[i] = 0
    BY <1>u DEF Clean, NulFree
  <2>1. temp = FirstBytes(read) /\ \A i \in 1 .. MaxSize : data[i] = 0
    BY DEF IInv, Clean
  <2>2. \A i \in 1 .. k : d[i] = read + i /\ ~IsNul(d[i])
    <3>1. \A i \in 1 .. k : d[i] = read + i /\ read + i \in 1 .. Len(file) /\ read + i # 0
      BY <1>m, <1>b
    <3>2. DOMAIN file = 1 .. Len(file)
      BY <1>0, FileIsSeq
    <3> QED
      BY <3>1, <3>2 DEF IsNul, NulFree
  <2>3. \A i \in k + 1 .. MaxSize : d[i] = 0
    <3>1. \A i \in k + 1 .. MaxSize : i \in 1 .. MaxSize
      BY <1>m
    <3> QED
      BY <1>b, <2>1, <3>1
  <2>4. n = k
    <3>1. CASE n < k
      <4>1. n + 1 \in 1 .. k /\ n < MaxSize
        BY <1>m, <3>1
      <4> QED
        BY <1>s, <2>2, <4>1
    <3>2. CASE n > k
      <4>1. k + 1 \in 1 .. n /\ k + 1 \in k + 1 .. MaxSize
        BY <1>m, <3>2
      <4> QED
        BY <1>s, <2>3, <4>1
    <3> QED
      BY <1>m, <3>1, <3>2
  <2>5. \A i \in 1 .. MaxSize : data'[i] = 0
    <3>1. \A i \in 1 .. MaxSize : i \in 1 .. n \/ i \in n + 1 .. MaxSize
      BY <1>m
    <3> QED
      BY <1>z, <2>3, <2>4, <3>1
  <2>6. Len(temp) = read /\ \A i \in 1 .. read : temp[i] = i
    BY <1>m, <2>1 DEF FirstBytes
  <2>7. \A i \in 1 .. read + k : temp'[i] = i
    <3>1. ASSUME NEW i \in 1 .. read + k, i > read
          PROVE  temp'[i] = i
      <4>1. i - read \in 1 .. k /\ read + (i - read) = i
        BY <1>m, <3>1
      <4>2. temp'[read + (i - read)] = d[i - read] /\ d[i - read] = read + (i - read)
        BY <1>t, <2>2, <2>4, <2>6, <4>1
      <4> QED
        BY <4>1, <4>2
    <3>2. \A i \in 1 .. read : temp'[i] = i
      BY <1>t, <2>6
    <3> QED
      BY <1>m, <3>1, <3>2
  <2>8. temp' = FirstBytes(read + k)
    <3>1. temp' = [i \in 1 .. Len(temp') |-> temp'[i]] /\ Len(temp') = read + k
      BY <1>m, <1>t, <2>4, <2>6
    <3> QED
      BY <2>7, <3>1 DEF FirstBytes
  <2> QED
    BY <1>m, <2>5, <2>8
<1>9. OnWire'
  <2>1. sent = 0 /\ Len(wire) = 0
    BY <1>m, <1>u DEF IInv, OnWire
  <2> QED
    BY <1>u, <2>1 DEF OnWire
<1>10. StoredSoFar'
  <2> SUFFICES ASSUME aligned
               PROVE  /\ Len(stored) <= Len(temp')
                      /\ \A i \in 1 .. Len(stored) : stored[i] = temp'[i]
                      /\ fss = "recv" => Len(stored) = sent - Len(wire)
    BY <1>u DEF StoredSoFar
  <2>1. /\ Len(stored) <= Len(temp) /\ Len(stored) \in Nat
        /\ \A i \in 1 .. Len(stored) : stored[i] = temp[i]
        /\ fss = "recv" => Len(stored) = sent - Len(wire)
    BY <1>0 DEF IInv, StoredSoFar, TypeOK
  <2>2. Len(stored) <= Len(temp') /\ \A i \in 1 .. Len(stored) : i \in 1 .. Len(temp)
    BY <1>m, <2>1
  <2> QED
    BY <1>t, <2>1, <2>2
<1> QED
  BY <1>4, <1>6, <1>7, <1>8, <1>9, <1>10 DEF IInv

\* What leaves the file and its buffer alone.
LEMMA BufferKept ==
  ASSUME IInv, UNCHANGED <<file, read, data, temp>>
  PROVE  Unwritten' /\ Written' /\ Clean'
BY DEF IInv, Unwritten, Written, Clean, NulFree

\* The bytes sent next follow those on the connection.
LEMMA SendStep == ASSUME IInv, Send PROVE IInv'
<1>0. TypeOK
  BY DEF IInv
<1>1. /\ temp \in Seq(Nat) /\ Len(temp) \in Nat /\ sent \in Nat /\ sent <= Len(temp)
      /\ wire \in Seq(Nat \X Nat) /\ Len(wire) \in Nat /\ Len(wire) <= sent /\ MaxSize \in Nat
  BY <1>0, FileIsSeq DEF TypeOK, IInv, OnWire
<1> DEFINE e == IF sent + MaxSize < Len(temp) THEN sent + MaxSize ELSE Len(temp)
           c == Chunk
           w == Coded(c)
<1>2. e \in Nat /\ sent <= e /\ e <= Len(temp)
  BY <1>1
<1>3. c = SubSeq(temp, sent + 1, e)
  BY DEF Chunk
<1> HIDE DEF e, c
<1>4. /\ c \in Seq(Nat) /\ Len(c) = e - sent /\ Len(c) \in Nat
      /\ \A i \in 1 .. e - sent : c[i] = temp[sent + i]
  <2>1. sent + 1 \in Nat /\ 1 <= sent + 1 /\ sent + 1 <= e + 1
    BY <1>1, <1>2
  <2>2. /\ SubSeq(temp, sent + 1, e) \in Seq(Nat)
        /\ Len(SubSeq(temp, sent + 1, e)) = e - (sent + 1) + 1
        /\ \A i \in 1 .. e - (sent + 1) + 1 : SubSeq(temp, sent + 1, e)[i] = temp[sent + 1 + i - 1]
    BY <1>1, <1>2, <2>1, SubSeqFacts
  <2>3. e - (sent + 1) + 1 = e - sent /\ e - sent \in Nat
    BY <1>1, <1>2
  <2>4. \A i \in 1 .. e - sent : sent + 1 + i - 1 = sent + i
    BY <1>1, <1>2
  <2> QED
    BY <1>3, <2>2, <2>3, <2>4
<1>5. w \in Seq(Nat \X Nat) /\ Len(w) = Len(c) /\ \A i \in 1 .. Len(c) : w[i] = <<c[i], i - 1>>
  <2>1. w = [i \in 1 .. Len(c) |-> <<c[i], i - 1>>]
    BY <1>4 DEF Coded
  <2>2. \A i \in 1 .. Len(c) : c[i] \in Nat /\ i - 1 \in Nat
    BY <1>4
  <2> QED
    BY <1>4, <2>1, <2>2
<1>6. /\ wire' = wire \o w /\ sent' = sent + Len(c) /\ pc = "send"
      /\ UNCHANGED <<file, pc, read, data, temp, fss, stored, aligned>>
  BY DEF Send, SentAfter, c
<1> HIDE DEF w
<1>7. /\ wire' \in Seq(Nat \X Nat) /\ Len(wire') = Len(wire) + Len(c)
      /\ \A i \in 1 .. Len(wire) : wire'[i] = wire[i]
      /\ \A i \in 1 .. Len(c) : wire'[Len(wire) + i] = w[i]
  <2> DEFINE P == Nat \X Nat
  <2>1. wire \in Seq(P) /\ w \in Seq(P)
    BY <1>1, <1>5
  <2> HIDE DEF P
  <2>2. /\ wire \o w \in Seq(P) /\ Len(wire \o w) = Len(wire) + Len(w)
        /\ \A i \in 1 .. Len(wire) : (wire \o w)[i] = wire[i]
        /\ \A i \in 1 .. Len(w) : (wire \o w)[Len(wire) + i] = w[i]
    BY <2>1, ConcatFacts
  <2>3. Len(w) = Len(c) /\ wire' = wire \o w
    BY <1>5, <1>6
  <2> QED
    BY <2>2, <2>3 DEF P
<1>8. sent' \in 0 .. Len(temp) /\ sent' \in Nat /\ sent' - Len(wire') = sent - Len(wire)
  BY <1>1, <1>2, <1>4, <1>6, <1>7
<1>9. TypeOK'
  BY <1>0, <1>6, <1>7, <1>8 DEF TypeOK
<1>10. OnWire'
  <2>0. \A i \in 1 .. Len(wire) : wire[i][1] = temp[sent - Len(wire) + i]
    BY DEF IInv, OnWire
  <2>1. ASSUME NEW i \in 1 .. Len(wire')
        PROVE  wire'[i][1] = temp[sent' - Len(wire') + i]
    <3>1. CASE i <= Len(wire)
      <4>0. i \in 1 .. Len(wire)
        BY <1>1, <1>4, <1>7, <3>1
      <4>1. wire'[i] = wire[i] /\ wire[i][1] = temp[sent - Len(wire) + i]
        BY <1>7, <2>0, <4>0
      <4> QED
        BY <1>8, <4>1
    <3>2. CASE ~(i <= Len(wire))
      <4> DEFINE j == i - Len(wire)
      <4>0. j \in 1 .. Len(c) /\ i = Len(wire) + j /\ sent - Len(wire) + i = sent + j
        BY <1>1, <1>4, <1>7, <3>2
      <4>1. j \in 1 .. Len(c) /\ wire'[i] = w[j] /\ sent - Len(wire) + i = sent + j
        BY <1>7, <4>0
      <4> HIDE DEF j
      <4>2. w[j] = <<c[j], j - 1>> /\ c[j] = temp[sent + j]
        BY <1>4, <1>5, <4>1
      <4>3. w[j][1] = c[j]
        BY <4>2
      <4> QED
        BY <1>8, <4>1, <4>2, <4>3
    <3> QED
      BY <3>1, <3>2
  <2>2. Len(wire') <= sent'
    BY <1>1, <1>4, <1>6, <1>7
  <2> QED
    BY <1>6, <2>1, <2>2 DEF OnWire
<1>11. StoredSoFar'
  BY <1>6, <1>8 DEF IInv, StoredSoFar
<1> QED
  BY <1>6, <1>9, <1>10, <1>11, BufferKept DEF IInv
-----------------------------------------------------------------------------
(* The steps of the FSS.                                                   *)

\* What was received is the beginning of what was on the connection.
LEMMA SplitFacts ==
  ASSUME NEW S, NEW s \in Seq(S), NEW k \in 1 .. Len(s)
  PROVE  /\ SubSeq(s, 1, k) \in Seq(S) /\ DOMAIN SubSeq(s, 1, k) = 1 .. k
         /\ \A i \in 1 .. k : SubSeq(s, 1, k)[i] = s[i]
         /\ SubSeq(s, k + 1, Len(s)) \in Seq(S) /\ Len(SubSeq(s, k + 1, Len(s))) = Len(s) - k
         /\ \A i \in 1 .. Len(s) - k : SubSeq(s, k + 1, Len(s))[i] = s[k + i]
<1>1. Len(s) \in Nat /\ k \in Nat /\ k <= Len(s) /\ 1 <= k
  OBVIOUS
<1>2. /\ SubSeq(s, 1, k) \in Seq(S) /\ Len(SubSeq(s, 1, k)) = k - 1 + 1
      /\ \A i \in 1 .. k - 1 + 1 : SubSeq(s, 1, k)[i] = s[1 + i - 1]
  <2>1. 1 \in Nat /\ 1 <= 1 /\ 1 <= k + 1
    BY <1>1
  <2> QED
    BY <1>1, <2>1, SubSeqFacts
<1>3. /\ SubSeq(s, k + 1, Len(s)) \in Seq(S)
      /\ Len(SubSeq(s, k + 1, Len(s))) = Len(s) - (k + 1) + 1
      /\ \A i \in 1 .. Len(s) - (k + 1) + 1 : SubSeq(s, k + 1, Len(s))[i] = s[k + 1 + i - 1]
  <2>1. k + 1 \in Nat /\ 1 <= k + 1 /\ k + 1 <= Len(s) + 1
    BY <1>1
  <2> QED
    BY <1>1, <2>1, SubSeqFacts
<1>4. k - 1 + 1 = k /\ Len(s) - (k + 1) + 1 = Len(s) - k
  BY <1>1
<1>5. (\A i \in 1 .. k : 1 + i - 1 = i) /\ \A i \in 1 .. Len(s) - k : k + 1 + i - 1 = k + i
  BY <1>1
<1> DEFINE a == SubSeq(s, 1, k)
           b == SubSeq(s, k + 1, Len(s))
<1>6. a \in Seq(S) /\ Len(a) = k /\ \A i \in 1 .. k : a[i] = s[i]
  <2> HIDE DEF a
  <2> QED
    BY <1>2, <1>4, <1>5 DEF a
<1>7. b \in Seq(S) /\ Len(b) = Len(s) - k /\ \A i \in 1 .. Len(s) - k : b[i] = s[k + i]
  BY <1>3, <1>4, <1>5
<1> HIDE DEF a, b
<1>8. DOMAIN a = 1 .. k
  BY <1>6
<1> USE DEF a, b
<1> QED
  BY <1>6, <1>7, <1>8

\* What recv returns comes after the bytes that were stored.
LEMMA ReceiveStep == ASSUME IInv, Receive PROVE IInv'
<1>0. TypeOK
  BY DEF IInv
<1>1. /\ temp \in Seq(Nat) /\ Len(temp) \in Nat /\ sent \in Nat /\ sent <= Len(temp)
      /\ Len(wire) \in Nat /\ Len(wire) <= sent /\ MaxSize \in Nat
  BY <1>0, FileIsSeq DEF TypeOK, IInv, OnWire
<1> DEFINE P == Nat \X Nat
           seg(k) == SubSeq(wire, 1, k)
           bytes(k) == Decoded(seg(k))
<1>2. PICK k \in 1 .. MaxSize :
        /\ k <= Len(wire)
        /\ wire' = SubSeq(wire, k + 1, Len(wire))
        /\ aligned' = (aligned /\ \A i \in 1 .. k : seg(k)[i][2] = i - 1)
        /\ \/ stored' = stored \o bytes(k) /\ UNCHANGED fss
           \/ fss' = "ended" /\ UNCHANGED stored
  BY DEF Receive
<1>3. fss = "recv" /\ UNCHANGED <<file, ftsVars>>
  BY DEF Receive
<1>4. wire \in Seq(P) /\ \A i \in 1 .. Len(wire) : wire[i][1] \in Nat
  BY <1>0 DEF TypeOK
<1>5. k \in 1 .. Len(wire) /\ k \in Nat
  BY <1>1, <1>2
<1> HIDE DEF P
<1>6. /\ seg(k) \in Seq(P) /\ DOMAIN seg(k) = 1 .. k
      /\ \A i \in 1 .. k : seg(k)[i] = wire[i]
      /\ wire' \in Seq(P) /\ Len(wire') = Len(wire) - k
      /\ \A i \in 1 .. Len(wire) - k : wire'[i] = wire[k + i]
  BY <1>2, <1>4, <1>5, SplitFacts
<1> HIDE DEF seg
<1>7. /\ bytes(k) \in Seq(Int) /\ Len(bytes(k)) = k
      /\ \A i \in 1 .. k : seg(k)[i][2] = i - 1 => bytes(k)[i] = wire[i][1]
  <2>1. bytes(k) = [i \in 1 .. k |-> IF OptionAt(seg(k)[i][2]) = OptionAt(i - 1)
                                     THEN seg(k)[i][1] ELSE Wrong]
    BY <1>6 DEF Decoded
  <2>2. \A i \in 1 .. k : seg(k)[i][1] \in Nat /\ seg(k)[i][1] = wire[i][1]
    BY <1>4, <1>5, <1>6
  <2>3. Wrong \in Int
    BY DEF Wrong
  <2> HIDE DEF bytes
  <2>4. bytes(k) \in [1 .. k -> Int]
    BY <2>1, <2>2, <2>3
  <2>5. bytes(k) \in Seq(Int) /\ Len(bytes(k)) = k
    BY <1>5, <2>4
  <2> QED
    BY <2>1, <2>2, <2>5
<1> HIDE DEF bytes
<1>8. TypeOK'
  <2>1. stored' \in Seq(Int)
    <3>1. stored \in Seq(Int) /\ bytes(k) \in Seq(Int)
      BY <1>0, <1>7 DEF TypeOK
    <3>2. stored \o bytes(k) \in Seq(Int)
      BY <3>1, ConcatFacts
    <3> QED
      BY <1>2, <3>1, <3>2
  <2>2. wire' \in Seq(Nat \X Nat)
    BY <1>6 DEF P
  <2> QED
    BY <1>0, <1>2, <1>3, <2>1, <2>2 DEF TypeOK, ftsVars
<1>o. \A i \in 1 .. Len(wire) : wire[i][1] = temp[sent - Len(wire) + i]
  BY DEF IInv, OnWire
<1>m. /\ Len(temp) \in Nat /\ sent \in Nat /\ sent <= Len(temp)
      /\ Len(wire) \in Nat /\ Len(wire) <= sent /\ k \in 1 .. Len(wire)
  BY <1>1, <1>5
<1>l. Len(wire') = Len(wire) - k
  BY <1>6
<1>9. OnWire'
  <2>1. ASSUME NEW i \in 1 .. Len(wire')
        PROVE  wire'[i][1] = temp[sent - Len(wire') + i]
    <3>1. /\ i \in 1 .. Len(wire) - k /\ k + i \in 1 .. Len(wire)
          /\ sent - Len(wire') + i = sent - Len(wire) + (k + i)
      BY <1>m, <1>l
    <3> QED
      BY <1>6, <1>o, <3>1
  <2>2. Len(wire') <= sent
    BY <1>m, <1>l
  <2>3. pc = "read" => sent = 0
    BY DEF IInv, OnWire
  <2> QED
    BY <1>3, <2>1, <2>2, <2>3 DEF OnWire, ftsVars
<1>10. StoredSoFar'
  <2> SUFFICES ASSUME aligned'
               PROVE  /\ Len(stored') <= Len(temp)
                      /\ \A i \in 1 .. Len(stored') : stored'[i] = temp[i]
                      /\ fss' = "recv" => Len(stored') = sent - Len(wire')
    BY <1>3 DEF StoredSoFar, ftsVars
  <2>1. aligned /\ \A i \in 1 .. k : seg(k)[i][2] = i - 1
    BY <1>2
  <2>2. /\ Len(stored) <= Len(temp) /\ stored \in Seq(Int) /\ Len(stored) \in Nat
        /\ \A i \in 1 .. Len(stored) : stored[i] = temp[i]
        /\ Len(stored) = sent - Len(wire)
    BY <1>0, <1>3, <2>1 DEF IInv, StoredSoFar, TypeOK
  <2>3. CASE stored' = stored \o bytes(k)
    <3>1. /\ Len(stored') = Len(stored) + k
          /\ \A i \in 1 .. Len(stored) : stored'[i] = stored[i]
          /\ \A i \in 1 .. k : stored'[Len(stored) + i] = bytes(k)[i]
      <4> DEFINE c == bytes(k)
                 t == stored \o c
      <4>1. stored \in Seq(Int) /\ c \in Seq(Int) /\ Len(c) = k
        BY <1>7, <2>2
      <4> HIDE DEF c
      <4>2. /\ Len(t) = Len(stored) + Len(c)
            /\ \A i \in 1 .. Len(stored) : t[i] = stored[i]
            /\ \A i \in 1 .. Len(c) : t[Len(stored) + i] = c[i]
        <5>1. \A u, v \in Seq(Int) :
                 /\ Len(u \o v) = Len(u) + Len(v)
                 /\ \A i \in 1 .. Len(u) : (u \o v)[i] = u[i]
                 /\ \A i \in 1 .. Len(v) : (u \o v)[Len(u) + i] = v[i]
          BY ConcatFacts
        <5> QED
          BY <4>1, <5>1, Zenon
      <4>3. stored' = t
        BY <2>3 DEF c
      <4> HIDE DEF t
      <4> QED
        BY <4>1, <4>2, <4>3 DEF c
    <3>2. Len(stored') = sent - Len(wire') /\ Len(stored') <= Len(temp)
      <4>1. Len(stored') = Len(stored) + k /\ Len(stored) = sent - Len(wire)
        BY <2>2, <3>1
      <4> QED
        BY <1>m, <1>l, <4>1
    <3>3. \A i \in 1 .. k : bytes(k)[i] = temp[Len(stored) + i]
      <4>1. \A i \in 1 .. k : i \in 1 .. Len(wire)
        BY <1>1, <1>5
      <4> QED
        BY <1>7, <1>o, <2>1, <2>2, <4>1
    <3>4. ASSUME NEW i \in 1 .. Len(stored')
          PROVE  stored'[i] = temp[i]
      <4>1. CASE i <= Len(stored)
        BY <2>2, <3>1, <4>1
      <4>2. CASE ~(i <= Len(stored))
        <5>1. i - Len(stored) \in 1 .. k /\ Len(stored) + (i - Len(stored)) = i
          BY <1>5, <2>2, <3>1, <4>2
        <5>2. stored'[Len(stored) + (i - Len(stored))] = temp[Len(stored) + (i - Len(stored))]
          BY <3>1, <3>3, <5>1
        <5> QED
          BY <5>1, <5>2
      <4> QED
        BY <4>1, <4>2
    <3> QED
      BY <3>2, <3>4
  <2>4. CASE fss' = "ended" /\ stored' = stored
    BY <2>2, <2>4
  <2> QED
    BY <1>2, <2>3, <2>4
<1>11. Unwritten' /\ Written' /\ Clean'
  BY <1>3, BufferKept DEF ftsVars
<1> QED
  BY <1>8, <1>9, <1>10, <1>11 DEF IInv

-----------------------------------------------------------------------------

\* The invariant holds before the first read.
LEMMA InvInit == Init => IInv
<1> SUFFICES ASSUME Init PROVE IInv
  OBVIOUS
<1>1. /\ file \in Seq({"text", "nul", "lead", "tail"}) /\ Len(file) \in Nat
      /\ MaxSize \in Nat
  BY DataPathAssumption DEF Init
<1>2. TypeOK
  BY <1>1 DEF Init, TypeOK
<1>3. Unwritten /\ Written
  BY DEF Init, Unwritten, Written
<1>4. Clean
  <2>1. FirstBytes(0) = <<>>
    <3>1. FirstBytes(0) \in Seq(Nat) /\ Len(FirstBytes(0)) = 0
      BY DEF FirstBytes
    <3> QED
      BY <3>1
  <2> QED
    BY <2>1 DEF Init, Clean
<1>5. OnWire /\ StoredSoFar
  <2>1. sent = 0 /\ Len(wire) = 0 /\ Len(stored) = 0 /\ Len(temp) = 0
    BY DEF Init
  <2>2. /\ \A i \in 1 .. Len(wire) : wire[i][1] = temp[sent - Len(wire) + i]
        /\ \A i \in 1 .. Len(stored) : stored[i] = temp[i]
    <3>1. 1 .. Len(wire) = {} /\ 1 .. Len(stored) = {}
      <4> HIDE DEF Init
      <4>1. Len(wire) = 0 /\ Len(stored) = 0
        BY <2>1
      <4> QED
        BY <4>1
    <3> QED
      BY <3>1, Zenon
  <2>3. Len(wire) <= sent /\ Len(stored) <= Len(temp) /\ Len(stored) = sent - Len(wire)
    BY <2>1
  <2> QED
    BY <2>1, <2>2, <2>3, Zenon DEF OnWire, StoredSoFar
<1> QED
  BY <1>2, <1>3, <1>4, <1>5 DEF IInv

\* Every step of the transfer keeps the invariant, and so does a stutter.
LEMMA InvStep == IInv /\ [Next]_vars => IInv'
<1> SUFFICES ASSUME IInv, [Next]_vars PROVE IInv'
  OBVIOUS
<1>1. CASE UNCHANGED <<file, read, data, temp, sent, wire, stored, aligned>>
           /\ pc' \in {pc, "send", "closed"} /\ fss' \in {fss, "done"}
  <2>1. TypeOK'
    BY <1>1 DEF IInv, TypeOK
  <2>2. OnWire'
    BY <1>1 DEF IInv, OnWire
  <2>3. StoredSoFar'
    BY <1>1 DEF IInv, StoredSoFar
  <2> QED
    BY <1>1, <2>1, <2>2, <2>3, BufferKept DEF IInv
<1>2. CASE ReadEnds \/ SendEnds \/ ReceiveEnds \/ Stopped \/ UNCHANGED vars
  BY <1>1, <1>2 DEF ReadEnds, SendEnds, ReceiveEnds, Stopped, vars, ftsVars
<1> QED
  BY <1>2, ReadStep, SendStep, ReceiveStep DEF Next

\* The invariant holds in every reachable state.
LEMMA InvAlways == Spec => []IInv
BY InvInit, InvStep, PTL DEF Spec

\* A file without NUL is in the temporary file as it was read, however read cuts it up:
\* the memset of strlen(data) bytes leaves nothing behind (fts.c:634-663).
THEOREM TempSafe == Spec => []TempIsRead
<1>1. IInv => TempIsRead
  BY DEF IInv, Clean, TempIsRead
<1> QED
  BY <1>1, InvAlways, PTL

\* No byte is written to the temporary file twice, though bytes behind a NUL stay in the
\* buffer for the next fputs (fts.c:661-662).
THEOREM WrittenSafe == Spec => []WrittenOnce
<1>1. IInv => WrittenOnce
  <2> SUFFICES ASSUME TypeOK, Written PROVE WrittenOnce
    BY DEF IInv
  <2>1. DOMAIN temp = 1 .. Len(temp)
    BY DEF TypeOK
  <2> QED
    BY <2>1 DEF Written, WrittenOnce
<1> QED
  BY <1>1, InvAlways, PTL

\* What the FSS stores is the beginning of the temporary file, while each recv takes
\* bytes of one send from its first on: only then do both ends start the pattern
\* together (fts.c:718-749, tcpHandler.py:53-65).
THEOREM StoredSafe == Spec => []StoredIfAligned
<1>1. IInv => StoredIfAligned
  <2> SUFFICES ASSUME IInv, aligned PROVE IsPrefix(stored, temp)
    BY DEF StoredIfAligned
  <2>1. /\ stored \in Seq(Int) /\ temp \in Seq(Nat) /\ Len(stored) \in Nat /\ Len(temp) \in Nat
        /\ Len(stored) <= Len(temp) /\ \A i \in 1 .. Len(stored) : stored[i] = temp[i]
    BY DEF IInv, TypeOK, StoredSoFar
  <2> DEFINE a == SubSeq(stored, 1, Len(stored))
             b == SubSeq(temp, 1, Len(stored))
             n == Len(stored)
  <2>2. /\ n \in Nat /\ 1 \in Nat /\ 1 <= n + 1 /\ n <= Len(temp) /\ n - 1 + 1 = n
        /\ \A i \in 1 .. n : 1 + i - 1 = i
    BY <2>1
  <2>3. /\ a \in Seq(Int) /\ Len(a) = n - 1 + 1 /\ \A i \in 1 .. n - 1 + 1 : a[i] = stored[1 + i - 1]
    BY <2>1, <2>2, SubSeqFacts
  <2>4. /\ b \in Seq(Nat) /\ Len(b) = n - 1 + 1 /\ \A i \in 1 .. n - 1 + 1 : b[i] = temp[1 + i - 1]
    BY <2>1, <2>2, SubSeqFacts
  <2> HIDE DEF a, b
  <2>5. b \in Seq(Int) /\ Len(a) = Len(b) /\ \A i \in 1 .. Len(a) : a[i] = b[i]
    <3>1. Len(a) = n /\ Len(b) = n
      BY <2>2, <2>3, <2>4
    <3>2. \A i \in 1 .. n : a[i] = stored[i] /\ b[i] = temp[i]
      BY <2>2, <2>3, <2>4
    <3>3. b \in Seq(Int)
      BY <2>4
    <3> QED
      BY <2>1, <3>1, <3>2, <3>3
  <2>6. a = b
    BY <2>3, <2>5, SeqEqual
  <2> QED
    BY <2>1, <2>6 DEF IsPrefix, a, b
<1> QED
  BY <1>1, InvAlways, PTL

-----------------------------------------------------------------------------
(* Why the session's loops end.                                            *)

\* The bytes to read and send, and the two ends.
SessionRank ==
  IF pc = "read" THEN 2 * Len(file) - read + 2
  ELSE IF pc = "send" THEN Len(file) - sent + 1 ELSE 0

\* Reading and sending come closer to the close of the connection.
SessionGoesOn == NulFree /\ ftsVars' # ftsVars => SessionRank' < SessionRank

\* While the send loop goes on, it finds something to send.
FindsChunk == NulFree /\ pc = "send" /\ sent < read => Len(Chunk) > 0

\* The numbers of a transfer.
Numbers ==
  /\ Len(file) \in Nat /\ read \in 0 .. Len(file) /\ sent \in 0 .. read
  /\ Len(temp) = read /\ SessionRank \in 0 .. 2 * Len(file) + 2

\* They are so when there is no NUL.
LEMMA RankNumbers == IInv /\ NulFree => Numbers
<1> SUFFICES ASSUME IInv, NulFree PROVE Numbers
  OBVIOUS
<1>1. Len(file) \in Nat /\ read \in 0 .. Len(file) /\ sent \in 0 .. Len(temp)
  BY FileIsSeq DEF IInv, TypeOK
<1>2. Len(temp) = read
  <2>1. temp = [i \in 1 .. read |-> i]
    BY DEF IInv, Clean, FirstBytes
  <2> QED
    BY <1>1, <2>1
<1>3. SessionRank \in 0 .. 2 * Len(file) + 2
  BY <1>1, <1>2 DEF SessionRank
<1> QED
  BY <1>1, <1>2, <1>3 DEF Numbers

\* The next chunk has the rest of the temporary file, or MAX_SIZE bytes of it.
LEMMA ChunkFound ==
  ASSUME IInv, NulFree, pc = "send", sent < read
  PROVE  Len(Chunk) \in Nat \ {0}
<1> DEFINE last == IF sent + MaxSize < Len(temp) THEN sent + MaxSize ELSE Len(temp)
<1>1. /\ temp \in Seq(Nat) /\ MaxSize \in Nat \ {0}
      /\ sent \in Nat /\ Len(temp) \in Nat /\ sent < Len(temp)
  BY DataPathAssumption, RankNumbers DEF IInv, TypeOK, Numbers
<1>2. last \in Nat /\ sent < last /\ last <= Len(temp)
  BY <1>1
<1> HIDE DEF last
<1>3. sent + 1 \in Nat /\ 1 <= sent + 1 /\ sent + 1 <= last + 1
  BY <1>1, <1>2
<1>4. Len(SubSeq(temp, sent + 1, last)) = last - (sent + 1) + 1
  BY <1>1, <1>2, <1>3, SubSeqFacts
<1>5. Chunk = SubSeq(temp, sent + 1, last)
  BY DEF Chunk, last
<1> QED
  BY <1>1, <1>2, <1>4, <1>5

\* The steps of the session, which does not go back.
LEMMA SessionFalls ==
  ASSUME IInv, IInv', NulFree, Next, ftsVars' # ftsVars
  PROVE  SessionRank' < SessionRank
<1>1. file' = file
  BY DEF Next, Read, ReadEnds, Send, SendEnds, Receive, ReceiveEnds, Stopped, vars
<1>2. NulFree'
  BY <1>1 DEF NulFree
<1>3. /\ Len(file) \in Nat /\ read \in 0 .. Len(file) /\ sent \in 0 .. read /\ Len(temp) = read
      /\ read' \in 0 .. Len(file) /\ sent' \in 0 .. read' /\ Len(temp') = read'
  <2>1. Numbers /\ Numbers'
    BY <1>2, RankNumbers, PTL
  <2> QED
    BY <1>1, <2>1 DEF Numbers
<1>4. CASE Read
  <2>1. PICK k \in 1 .. MaxSize : read' = read + k
    BY <1>4 DEF Read
  <2>2. read' > read
    BY <1>3, <2>1, DataPathAssumption
  <2>3. pc = "read" /\ pc' = "read"
    BY <1>4 DEF Read
  <2> QED
    BY <1>1, <1>3, <2>2, <2>3 DEF SessionRank
<1>5. CASE ReadEnds
  BY <1>1, <1>3, <1>5 DEF ReadEnds, SessionRank
<1>6. CASE Send
  <2>1. pc = "send" /\ pc' = "send" /\ sent < read /\ sent' = sent + Len(Chunk)
    BY <1>6 DEF Send, SentAfter
  <2>2. Len(Chunk) \in Nat \ {0}
    BY <2>1, ChunkFound
  <2>3. sent' > sent
    BY <1>3, <2>1, <2>2
  <2> QED
    BY <1>1, <1>3, <2>1, <2>3 DEF SessionRank
<1>7. CASE SendEnds
  BY <1>1, <1>3, <1>7 DEF SendEnds, SessionRank
<1>8. CASE Receive \/ ReceiveEnds \/ Stopped
  BY <1>8 DEF Receive, ReceiveEnds, Stopped, vars
<1> QED
  BY <1>4, <1>5, <1>6, <1>7, <1>8 DEF Next

\* For a file without NUL, the two loops of the session (fts.c:634-664, 721-757) end: each
\* pass reads or sends something of what is left, and what was counted when reading is found
\* when sending.
THEOREM LoopsEnd ==
  Spec => /\ [](NulFree => SessionRank \in 0 .. 2 * Len(file) + 2)
          /\ []FindsChunk
          /\ [][SessionGoesOn]_vars
<1>1. IInv => (NulFree => SessionRank \in 0 .. 2 * Len(file) + 2)
  BY RankNumbers DEF Numbers
<1>2. IInv => FindsChunk
  BY ChunkFound DEF FindsChunk
<1>3. ASSUME IInv, IInv', [Next]_vars PROVE [SessionGoesOn]_vars
  BY <1>3, SessionFalls DEF SessionGoesOn
<1> QED
  BY <1>1, <1>2, <1>3, InvAlways, PTL DEF Spec
=============================================================================
