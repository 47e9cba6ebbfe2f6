--------------------------- MODULE PacketsProofs ---------------------------
(***************************************************************************)
(* Theorems about Packets, for any requests whose lengths fit in two bytes *)
(* and any size of a read that takes in the pattern.                       *)
(***************************************************************************)
EXTENDS Packets, SequenceTheorems, TLAPS

\* The 0x00 for a request.
Crafted(r) ==
  <<0>> \o r.addr \o Two(r.port) \o Two(Len(r.pattern)) \o r.pattern
    \o Two(Len(r.phrase)) \o r.phrase \o r.name

-----------------------------------------------------------------------------
(* Sequences of numbers.                                                   *)

\* What two bytes hold.
LEMMA WordFacts == \A n \in Word : n \in Nat /\ n <= 65535
BY DEF Word

\* A port fits in two bytes.
LEMMA PortFacts == \A n \in Port : n \in Nat /\ n <= 65535
BY DEF Port

\* Bytes are numbers.
LEMMA BytesAreInts ==
  \A s \in Seq(Byte) : s \in Seq(Int) /\ Len(s) \in Nat
<1> TAKE s \in Seq(Byte)
<1>1. s = [i \in 1 .. Len(s) |-> s[i]] /\ Len(s) \in Nat
  OBVIOUS
<1>2. \A i \in 1 .. Len(s) : s[i] \in Byte
  BY ElementOfSeq
<1>3. ASSUME NEW i \in 1 .. Len(s) PROVE s[i] \in Int
  <2>1. s[i] \in Byte
    BY <1>2
  <2>2. \A b \in Byte : b \in Int
    BY DEF Byte
  <2> QED
    BY <2>1, <2>2, Zenon
<1> QED
  BY <1>1, <1>3

\* A sequence that follows another.
LEMMA ConcatFacts ==
  \A s, t \in Seq(Int) :
    /\ s \o t \in Seq(Int) /\ Len(s \o t) = Len(s) + Len(t)
    /\ \A i \in 1 .. Len(s) : (s \o t)[i] = s[i]
    /\ \A i \in 1 .. Len(t) : (s \o t)[Len(s) + i] = t[i]
<1> SUFFICES ASSUME NEW s \in Seq(Int), NEW t \in Seq(Int)
             PROVE  /\ s \o t \in Seq(Int) /\ Len(s \o t) = Len(s) + Len(t)
                    /\ \A i \in 1 .. Len(s) : (s \o t)[i] = s[i]
                    /\ \A i \in 1 .. Len(t) : (s \o t)[Len(s) + i] = t[i]
  OBVIOUS
<1>1. s \o t \in Seq(Int) /\ Len(s \o t) = Len(s) + Len(t)
  BY ConcatProperties
<1>2. \A i \in 1 .. Len(s) + Len(t) : (s \o t)[i] = IF i <= Len(s) THEN s[i] ELSE t[i - Len(s)]
  BY ConcatProperties
<1>3. Len(s) \in Nat /\ Len(t) \in Nat
  OBVIOUS
<1>4. \A i \in 1 .. Len(s) : (s \o t)[i] = s[i]
  BY <1>2, <1>3
<1>5. ASSUME NEW i \in 1 .. Len(t)
      PROVE  (s \o t)[Len(s) + i] = t[i]
  <2>1. Len(s) + i \in 1 .. Len(s) + Len(t) /\ ~(Len(s) + i <= Len(s)) /\ Len(s) + i - Len(s) = i
    BY <1>3
  <2> QED
    BY <1>2, <2>1
<1> QED
  BY <1>1, <1>4, <1>5

\* What is cut out of a sequence.
LEMMA SliceFacts ==
  ASSUME NEW p \in Seq(Int), NEW m \in Nat, NEW n \in Nat, 1 <= m, m <= n + 1, n <= Len(p)
  PROVE  /\ SubSeq(p, m, n) \in Seq(Int) /\ Len(SubSeq(p, m, n)) = n - m + 1
         /\ \A i \in 1 .. n - m + 1 : SubSeq(p, m, n)[i] = p[m + i - 1]
<1>1. m \in Int /\ n \in Int /\ \A i \in m .. n : p[i] \in Int
  OBVIOUS
<1>2. /\ SubSeq(p, m, n) \in Seq(Int) /\ Len(SubSeq(p, m, n)) = IF m <= n THEN n - m + 1 ELSE 0
      /\ \A i \in 1 .. n - m + 1 : SubSeq(p, m, n)[i] = p[m + i - 1]
  BY <1>1, SubSeqProperties
<1> QED
  BY <1>2

\* A slice is the sequence whose elements are there.
LEMMA SliceIs ==
  ASSUME NEW p \in Seq(Int), NEW s \in Seq(Int), NEW m \in Nat \ {0}, NEW n \in Nat,
         n = m - 1 + Len(s), n <= Len(p), \A i \in 1 .. Len(s) : p[m - 1 + i] = s[i]
  PROVE  SubSeq(p, m, n) = s
<1> DEFINE q == SubSeq(p, m, n)
<1>1. Len(s) \in Nat /\ 1 <= m /\ m <= n + 1 /\ n - m + 1 = Len(s) /\ m \in Nat
  OBVIOUS
<1>2. /\ q \in Seq(Int) /\ Len(q) = n - m + 1 /\ \A i \in 1 .. n - m + 1 : q[i] = p[m + i - 1]
  BY <1>1, SliceFacts
<1> HIDE DEF q
<1>3. \A i \in 1 .. Len(s) : m + i - 1 = m - 1 + i
  BY <1>1
<1>4. \A i \in 1 .. Len(s) : q[i] = s[i]
  BY <1>1, <1>2, <1>3
<1>5. q = s
  BY <1>1, <1>2, <1>4, SeqEqual
<1> QED
  BY <1>5 DEF q

\* Two bytes hold a length or a port.
LEMMA TwoFacts ==
  ASSUME NEW n \in Nat, n <= 65535
  PROVE  Two(n) \in Seq(Int) /\ Len(Two(n)) = 2 /\ 256 * Two(n)[1] + Two(n)[2] = n
<1> DEFINE a == (n \div 256) % 256
           b == n % 256
<1>1. a \in Int /\ b \in Int /\ 256 * a + b = n
  <2>1. n \in Nat /\ n <= 65535
    OBVIOUS
  <2>2. n \div 256 \in Nat /\ n \div 256 <= 255
    BY <2>1
  <2>3. a = n \div 256
    BY <2>2
  <2>4. 256 * (n \div 256) + b = n /\ b \in Nat
    BY <2>1
  <2> HIDE DEF a, b
  <2> QED
    BY <2>2, <2>3, <2>4
<1>2. Two(n) = <<a, b>>
  BY DEF Two
<1> HIDE DEF a, b
<1> QED
  BY <1>1, <1>2

\* Inverting keeps the length.
LEMMA InvertedFacts ==
  ASSUME NEW s \in Seq(Int)
  PROVE  /\ Inverted(s) \in Seq(Int) /\ Len(Inverted(s)) = Len(s)
         /\ \A i \in 1 .. Len(s) : Inverted(s)[i] = 255 - s[i]
<1>1. Len(s) \in Nat /\ DOMAIN s = 1 .. Len(s) /\ \A i \in 1 .. Len(s) : s[i] \in Int
  OBVIOUS
<1>2. Inverted(s) = [i \in 1 .. Len(s) |-> 255 - s[i]]
  BY <1>1 DEF Inverted
<1>3. Inverted(s) \in [1 .. Len(s) -> Int]
  BY <1>1, <1>2
<1>4. Inverted(s) \in Seq(Int) /\ Len(Inverted(s)) = Len(s)
  BY <1>1, <1>3
<1> QED
  BY <1>2, <1>4

-----------------------------------------------------------------------------
(* The inductive invariant.                                                *)

TypeOK ==
  /\ req \in Request /\ ftsPort \in FtsPort
  /\ fts \in [addr : Seq(Int), port : Int, pattern : Seq(Int), phrase : Seq(Int), tcp : Int]
  /\ packetPc \in {"start", "asked", "refused", "address", "pattern", "overrun", "init", "ignored",
                   "taken", "responded", "unpacked", "failed", "validated", "answered",
                   "passed", "connects"}

\* The FTS has what recvfrom gave it of the request.
AskedRight ==
  /\ packetPc # "start" => whole = Len(Crafted(req))
  /\ packetPc \in {"asked", "address", "pattern"} => pkt = Received(Crafted(req))

\* What the FTS took out of it is what C2 put in, one field after the other.
ScrapedRight ==
  /\ packetPc \notin {"start", "asked", "refused"} => fts.addr = req.addr
  /\ packetPc \notin {"start", "asked", "refused", "address"} =>
       fts.port = req.port /\ fts.pattern = req.pattern
  /\ packetPc \notin {"start", "asked", "refused", "address", "pattern", "overrun"} =>
       fts.phrase = req.phrase
  /\ packetPc = "overrun" => ~Fits

\* The 0x01 has the whole phrase, inverted, and the whole name if the request fitted.
InitRight ==
  packetPc = "init" =>
    /\ pkt \in Seq(Int) /\ Len(pkt) = room.init /\ Len(req.phrase) < room.message
    /\ 3 + Len(req.phrase) <= Len(pkt)
    /\ Number(pkt, 2) = Len(req.phrase)
    /\ \A i \in 1 .. Len(req.phrase) : pkt[3 + i] = 255 - req.phrase[i]
    /\ Fits => /\ Len(pkt) = 3 + Len(req.phrase) + Len(req.name)
               /\ \A i \in 1 .. Len(req.name) : pkt[3 + Len(req.phrase) + i] = req.name[i]

TakenRight ==
  (packetPc = "taken" /\ Fits) => taken.name = req.name /\ Inverted(taken.phrase) = req.phrase

\* The 0x03 is what C2 waits for.
ValidRight ==
  packetPc \in {"validated", "answered", "connects"} =>
    /\ pkt[1] = 3 /\ Number(pkt, 2) = TcpPort /\ TcpPort \in Port
    /\ SubSeq(pkt, 4, Len(pkt)) = req.phrase

IInv == TypeOK /\ AskedRight /\ ScrapedRight /\ InitRight /\ TakenRight /\ ValidRight

-----------------------------------------------------------------------------
(* The layout of the 0x00.                                                 *)

\* The fields of a request.
LEMMA RequestFields ==
  ASSUME NEW r \in Request
  PROVE  /\ r.addr \in Seq(Int) /\ Len(r.addr) = 4 /\ r.port \in Word
         /\ r.pattern \in Seq(Int) /\ r.phrase \in Seq(Int) /\ r.name \in Seq(Int)
         /\ Len(r.pattern) \in Word /\ Len(r.phrase) \in Word
         /\ Len(r.pattern) \in Nat /\ Len(r.phrase) \in Nat /\ Len(r.name) \in Nat
         /\ 11 + Len(r.pattern) <= PacketSize /\ PacketSize \in Nat
<1>1. /\ r.addr \in Seq(Byte) /\ Len(r.addr) = 4 /\ r.port \in Word
      /\ r.pattern \in Seq(Byte) /\ r.phrase \in Seq(Byte) /\ r.name \in Seq(Byte)
      /\ Len(r.pattern) \in Word /\ Len(r.phrase) \in Word
      /\ 11 + Len(r.pattern) <= PacketSize /\ PacketSize \in Nat
  BY PacketsAssumption
<1>2. /\ r.addr \in Seq(Int) /\ r.pattern \in Seq(Int) /\ r.phrase \in Seq(Int)
      /\ r.name \in Seq(Int)
      /\ Len(r.pattern) \in Nat /\ Len(r.phrase) \in Nat /\ Len(r.name) \in Nat
  BY <1>1, BytesAreInts
<1> QED
  BY <1>1, <1>2

\* Where the fields are in the packet.
LEMMA CraftedFacts ==
  ASSUME NEW r \in Request
  PROVE  /\ Crafted(r) \in Seq(Int)
         /\ Len(Crafted(r)) = 11 + Len(r.pattern) + Len(r.phrase) + Len(r.name)
         /\ \A i \in 1 .. 4 : Crafted(r)[1 + i] = r.addr[i]
         /\ Number(Crafted(r), 6) = r.port
         /\ Number(Crafted(r), 8) = Len(r.pattern)
         /\ \A i \in 1 .. Len(r.pattern) : Crafted(r)[9 + i] = r.pattern[i]
         /\ Number(Crafted(r), 10 + Len(r.pattern)) = Len(r.phrase)
         /\ \A i \in 1 .. Len(r.phrase) : Crafted(r)[11 + Len(r.pattern) + i] = r.phrase[i]
         /\ \A i \in 1 .. Len(r.name) :
              Crafted(r)[11 + Len(r.pattern) + Len(r.phrase) + i] = r.name[i]
<1> DEFINE lp == Len(r.pattern)
           lm == Len(r.phrase)
           ln == Len(r.name)
           wp == Two(r.port)
           wl == Two(lp)
           wm == Two(lm)
           q0 == <<0>>
           q1 == q0 \o r.addr
           q2 == q1 \o wp
           q3 == q2 \o wl
           q4 == q3 \o r.pattern
           q5 == q4 \o wm
           q6 == q5 \o r.phrase
           q7 == q6 \o r.name
<1>1. /\ r.addr \in Seq(Int) /\ Len(r.addr) = 4
      /\ r.pattern \in Seq(Int) /\ r.phrase \in Seq(Int) /\ r.name \in Seq(Int)
  BY RequestFields
<1>2. lp \in Nat /\ lm \in Nat /\ ln \in Nat
  BY RequestFields
<1>3. /\ wp \in Seq(Int) /\ Len(wp) = 2 /\ 256 * wp[1] + wp[2] = r.port
      /\ wl \in Seq(Int) /\ Len(wl) = 2 /\ 256 * wl[1] + wl[2] = lp
      /\ wm \in Seq(Int) /\ Len(wm) = 2 /\ 256 * wm[1] + wm[2] = lm
  <2>1. r.port \in Word /\ lp \in Word /\ lm \in Word
    BY RequestFields
  <2>2. \A n \in Word : /\ Two(n) \in Seq(Int) /\ Len(Two(n)) = 2
                       /\ 256 * Two(n)[1] + Two(n)[2] = n
    <3> TAKE n \in Word
    <3>1. n \in Nat /\ n <= 65535
      BY WordFacts
    <3> QED
      BY <3>1, TwoFacts
  <2> QED
    BY <2>1, <2>2, Zenon
<1>4. Crafted(r) = q7
  BY DEF Crafted
<1> HIDE DEF wp, wl, wm
<1>5. q0 \in Seq(Int) /\ Len(q0) = 1
  OBVIOUS
<1> HIDE DEF q0
<1>6. /\ q1 \in Seq(Int) /\ Len(q1) = Len(q0) + Len(r.addr)
      /\ \A i \in 1 .. Len(q0) : q1[i] = q0[i]
      /\ \A i \in 1 .. Len(r.addr) : q1[Len(q0) + i] = r.addr[i]
  BY <1>1, <1>5, ConcatFacts, Zenon
<1> HIDE DEF q1
<1>7. /\ q2 \in Seq(Int) /\ Len(q2) = Len(q1) + Len(wp)
      /\ \A i \in 1 .. Len(q1) : q2[i] = q1[i]
      /\ \A i \in 1 .. Len(wp) : q2[Len(q1) + i] = wp[i]
  BY <1>3, <1>6, ConcatFacts, Zenon
<1> HIDE DEF q2
<1>8. /\ q3 \in Seq(Int) /\ Len(q3) = Len(q2) + Len(wl)
      /\ \A i \in 1 .. Len(q2) : q3[i] = q2[i]
      /\ \A i \in 1 .. Len(wl) : q3[Len(q2) + i] = wl[i]
  BY <1>3, <1>7, ConcatFacts, Zenon
<1> HIDE DEF q3
<1>9. /\ q4 \in Seq(Int) /\ Len(q4) = Len(q3) + Len(r.pattern)
      /\ \A i \in 1 .. Len(q3) : q4[i] = q3[i]
      /\ \A i \in 1 .. Len(r.pattern) : q4[Len(q3) + i] = r.pattern[i]
  BY <1>1, <1>8, ConcatFacts, Zenon
<1> HIDE DEF q4
<1>10. /\ q5 \in Seq(Int) /\ Len(q5) = Len(q4) + Len(wm)
       /\ \A i \in 1 .. Len(q4) : q5[i] = q4[i]
       /\ \A i \in 1 .. Len(wm) : q5[Len(q4) + i] = wm[i]
  BY <1>3, <1>9, ConcatFacts, Zenon
<1> HIDE DEF q5
<1>11. /\ q6 \in Seq(Int) /\ Len(q6) = Len(q5) + Len(r.phrase)
       /\ \A i \in 1 .. Len(q5) : q6[i] = q5[i]
       /\ \A i \in 1 .. Len(r.phrase) : q6[Len(q5) + i] = r.phrase[i]
  BY <1>1, <1>10, ConcatFacts, Zenon
<1> HIDE DEF q6
<1>12. /\ q7 \in Seq(Int) /\ Len(q7) = Len(q6) + Len(r.name)
       /\ \A i \in 1 .. Len(q6) : q7[i] = q6[i]
       /\ \A i \in 1 .. Len(r.name) : q7[Len(q6) + i] = r.name[i]
  BY <1>1, <1>11, ConcatFacts, Zenon
<1> HIDE DEF q7
<1>13. /\ Len(q0) = 1 /\ Len(q1) = 5 /\ Len(q2) = 7 /\ Len(q3) = 9 /\ Len(q4) = 9 + lp
       /\ Len(q5) = 11 + lp /\ Len(q6) = 11 + lp + lm /\ Len(q7) = 11 + lp + lm + ln
  <2>1. Len(q1) = 5 /\ Len(q2) = 7 /\ Len(q3) = 9
    BY <1>1, <1>3, <1>5, <1>6, <1>7, <1>8
  <2>2. Len(q4) = 9 + lp
    BY <1>9, <2>1
  <2>3. Len(q5) = 11 + lp
    BY <1>2, <1>3, <1>10, <2>2
  <2>4. Len(q6) = 11 + lp + lm
    BY <1>11, <2>3
  <2>5. Len(q7) = 11 + lp + lm + ln
    BY <1>12, <2>4
  <2> QED
    BY <1>5, <2>1, <2>2, <2>3, <2>4, <2>5
<1> HIDE DEF lp, lm, ln
<1>14. \A i \in 1 .. 11 + lp + lm : q7[i] = q6[i]
  BY <1>12, <1>13
<1>15. \A i \in 1 .. 11 + lp : q7[i] = q5[i]
  <2>1. \A i \in 1 .. 11 + lp : i \in 1 .. 11 + lp + lm
    BY <1>2
  <2> QED
    BY <1>11, <1>13, <1>14, <2>1
<1>16. \A i \in 1 .. 9 + lp : q7[i] = q4[i]
  <2>1. \A i \in 1 .. 9 + lp : i \in 1 .. 11 + lp
    BY <1>2
  <2> QED
    BY <1>10, <1>13, <1>15, <2>1
<1>17. \A i \in 1 .. 9 : q7[i] = q3[i]
  <2>1. \A i \in 1 .. 9 : i \in 1 .. 9 + lp
    BY <1>2
  <2> QED
    BY <1>9, <1>13, <1>16, <2>1
<1>18. \A i \in 1 .. 7 : q7[i] = q2[i]
  <2>1. \A i \in 1 .. 7 : i \in 1 .. 9
    OBVIOUS
  <2> QED
    BY <1>8, <1>13, <1>17, <2>1
<1>19. \A i \in 1 .. 5 : q7[i] = q1[i]
  <2>1. \A i \in 1 .. 5 : i \in 1 .. 7
    OBVIOUS
  <2> QED
    BY <1>7, <1>13, <1>18, <2>1
<1>20. \A i \in 1 .. 4 : q7[1 + i] = r.addr[i]
  <2>1. \A i \in 1 .. 4 : 1 + i \in 1 .. 5
    OBVIOUS
  <2>2. \A i \in 1 .. 4 : q1[1 + i] = r.addr[i]
    BY <1>1, <1>6, <1>13
  <2> QED
    BY <1>19, <2>1, <2>2
<1>21. Number(q7, 6) = r.port
  <2>1. q2[5 + 1] = wp[1] /\ q2[5 + 2] = wp[2]
    BY <1>3, <1>7, <1>13
  <2>2. q7[6] = q2[6] /\ q7[7] = q2[7]
    BY <1>18
  <2> QED
    BY <1>3, <2>1, <2>2 DEF Number
<1>22. Number(q7, 8) = lp
  <2>1. q3[7 + 1] = wl[1] /\ q3[7 + 2] = wl[2]
    BY <1>3, <1>8, <1>13
  <2>2. q7[8] = q3[8] /\ q7[9] = q3[9]
    BY <1>17
  <2> QED
    BY <1>3, <2>1, <2>2 DEF Number
<1>23. \A i \in 1 .. lp : q7[9 + i] = r.pattern[i]
  <2>1. \A i \in 1 .. lp : 9 + i \in 1 .. 9 + lp
    BY <1>2
  <2>2. \A i \in 1 .. lp : q4[9 + i] = r.pattern[i]
    BY <1>9, <1>13 DEF lp
  <2> QED
    BY <1>16, <2>1, <2>2
<1>24. Number(q7, 10 + lp) = lm
  <2>1. q5[9 + lp + 1] = wm[1] /\ q5[9 + lp + 2] = wm[2]
    BY <1>3, <1>10, <1>13
  <2>2. /\ 9 + lp + 1 = 10 + lp /\ 9 + lp + 2 = 10 + lp + 1
        /\ 10 + lp \in 1 .. 11 + lp /\ 10 + lp + 1 \in 1 .. 11 + lp
    BY <1>2
  <2>3. q7[10 + lp] = wm[1] /\ q7[10 + lp + 1] = wm[2]
    BY <1>15, <2>1, <2>2
  <2> QED
    BY <1>3, <2>3 DEF Number
<1>25. \A i \in 1 .. lm : q7[11 + lp + i] = r.phrase[i]
  <2>1. \A i \in 1 .. lm : 11 + lp + i \in 1 .. 11 + lp + lm
    BY <1>2
  <2>2. \A i \in 1 .. lm : q6[11 + lp + i] = r.phrase[i]
    BY <1>11, <1>13 DEF lm
  <2> QED
    BY <1>14, <2>1, <2>2
<1>26. \A i \in 1 .. ln : q7[11 + lp + lm + i] = r.name[i]
  BY <1>12, <1>13 DEF ln
<1>27. q7 \in Seq(Int) /\ Len(q7) = 11 + lp + lm + ln
  BY <1>12, <1>13
<1> HIDE DEF Crafted
<1> QED
  BY <1>4, <1>20, <1>21, <1>22, <1>23, <1>24, <1>25, <1>26, <1>27 DEF lp, lm, ln

\* What recvfrom returns of it has everything up to the length of the phrase.
LEMMA ReceivedFacts ==
  ASSUME NEW r \in Request, NEW p, p = Received(Crafted(r))
  PROVE  /\ p \in Seq(Int) /\ Len(p) \in Nat /\ 11 + Len(r.pattern) <= Len(p)
         /\ SubSeq(p, 2, 5) = r.addr
         /\ Number(p, 6) = r.port
         /\ Number(p, 8) = Len(r.pattern)
         /\ SubSeq(p, 10, 9 + Len(r.pattern)) = r.pattern
         /\ Number(p, 10 + Len(r.pattern)) = Len(r.phrase)
         /\ \A i \in 1 .. Len(r.phrase) :
              11 + Len(r.pattern) + i <= Len(p) => p[11 + Len(r.pattern) + i] = r.phrase[i]
         /\ Len(Crafted(r)) <= PacketSize =>
              /\ Len(p) = 11 + Len(r.pattern) + Len(r.phrase) + Len(r.name)
              /\ \A i \in 1 .. Len(r.name) :
                   p[11 + Len(r.pattern) + Len(r.phrase) + i] = r.name[i]
<1> DEFINE c == Crafted(r)
           lp == Len(r.pattern)
           lm == Len(r.phrase)
           ln == Len(r.name)
           n == IF Len(c) <= PacketSize THEN Len(c) ELSE PacketSize
<1>1. /\ r.addr \in Seq(Int) /\ Len(r.addr) = 4 /\ r.pattern \in Seq(Int)
      /\ lp \in Nat /\ lm \in Nat /\ ln \in Nat /\ 11 + lp <= PacketSize /\ PacketSize \in Nat
  BY RequestFields
<1>2. /\ c \in Seq(Int) /\ Len(c) = 11 + lp + lm + ln
      /\ \A i \in 1 .. 4 : c[1 + i] = r.addr[i]
      /\ Number(c, 6) = r.port /\ Number(c, 8) = lp
      /\ \A i \in 1 .. lp : c[9 + i] = r.pattern[i]
      /\ Number(c, 10 + lp) = lm
      /\ \A i \in 1 .. lm : c[11 + lp + i] = r.phrase[i]
      /\ \A i \in 1 .. ln : c[11 + lp + lm + i] = r.name[i]
  BY CraftedFacts
<1>3. p = SubSeq(c, 1, n)
  BY DEF Received
<1> HIDE DEF c, lp, lm, ln
<1>4. n \in Nat /\ 11 + lp <= n /\ n <= Len(c) /\ (Len(c) <= PacketSize => n = Len(c))
  <2>1. /\ Len(c) = 11 + lp + lm + ln /\ lp \in Nat /\ lm \in Nat /\ ln \in Nat
        /\ 11 + lp <= PacketSize /\ PacketSize \in Nat
    BY <1>1, <1>2
  <2>2. Len(c) \in Nat /\ 11 + lp <= Len(c)
    BY <2>1
  <2>3. CASE Len(c) <= PacketSize
    BY <2>1, <2>2, <2>3
  <2>4. CASE ~(Len(c) <= PacketSize)
    BY <2>1, <2>2, <2>4
  <2> QED
    BY <2>3, <2>4
<1> HIDE DEF n
<1>5. p \in Seq(Int) /\ Len(p) = n /\ \A i \in 1 .. n : p[i] = c[i]
  <2>1. 1 \in Nat /\ 1 <= 1 /\ 1 <= n + 1 /\ n - 1 + 1 = n
    BY <1>4
  <2>2. /\ SubSeq(c, 1, n) \in Seq(Int) /\ Len(SubSeq(c, 1, n)) = n - 1 + 1
        /\ \A i \in 1 .. n - 1 + 1 : SubSeq(c, 1, n)[i] = c[1 + i - 1]
    BY <1>2, <1>4, <2>1, SliceFacts
  <2>3. \A i \in 1 .. n : 1 + i - 1 = i
    BY <1>4
  <2>4. /\ p \in Seq(Int) /\ Len(p) = n /\ \A i \in 1 .. n : p[i] = c[1 + i - 1]
    BY <1>3, <2>1, <2>2
  <2> QED
    BY <2>3, <2>4
<1>6. SubSeq(p, 2, 5) = r.addr
  <2>1. \A i \in 1 .. 4 : 1 + i \in 1 .. n
    BY <1>1, <1>4
  <2>2. \A i \in 1 .. Len(r.addr) : p[2 - 1 + i] = r.addr[i]
    <3>1. \A i \in 1 .. 4 : p[1 + i] = c[1 + i] /\ 2 - 1 + i = 1 + i
      BY <1>5, <2>1
    <3>2. \A i \in 1 .. 4 : c[1 + i] = r.addr[i]
      BY <1>2
    <3>3. \A i \in 1 .. 4 : p[2 - 1 + i] = r.addr[i]
      BY <3>1, <3>2
    <3> QED
      BY <1>1, <3>3
  <2>3. 5 = 2 - 1 + Len(r.addr) /\ 5 <= Len(p) /\ 2 \in Nat \ {0} /\ 5 \in Nat
    BY <1>1, <1>4, <1>5
  <2> QED
    BY <1>1, <1>5, <2>2, <2>3, SliceIs
<1>7. Number(p, 6) = r.port /\ Number(p, 8) = lp /\ Number(p, 10 + lp) = lm
  <2>1. /\ 6 \in 1 .. n /\ 6 + 1 \in 1 .. n /\ 8 \in 1 .. n /\ 8 + 1 \in 1 .. n
        /\ 10 + lp \in 1 .. n /\ 10 + lp + 1 \in 1 .. n
    BY <1>1, <1>4
  <2>2. /\ p[6] = c[6] /\ p[6 + 1] = c[6 + 1] /\ p[8] = c[8] /\ p[8 + 1] = c[8 + 1]
        /\ p[10 + lp] = c[10 + lp] /\ p[10 + lp + 1] = c[10 + lp + 1]
    BY <1>5, <2>1
  <2>3. Number(p, 6) = Number(c, 6) /\ Number(p, 8) = Number(c, 8)
        /\ Number(p, 10 + lp) = Number(c, 10 + lp)
    BY <2>2 DEF Number
  <2> QED
    BY <1>2, <2>3
<1>8. SubSeq(p, 10, 9 + lp) = r.pattern
  <2>1. \A i \in 1 .. lp : 9 + i \in 1 .. n /\ 10 - 1 + i = 9 + i
    BY <1>1, <1>4
  <2>2. \A i \in 1 .. Len(r.pattern) : p[10 - 1 + i] = r.pattern[i]
    BY <1>2, <1>5, <2>1 DEF lp
  <2>3. 9 + lp = 10 - 1 + lp /\ 9 + lp <= Len(p) /\ 10 \in Nat \ {0} /\ 9 + lp \in Nat
    BY <1>1, <1>4, <1>5
  <2>4. 9 + lp = 10 - 1 + Len(r.pattern)
    BY <2>3 DEF lp
  <2> QED
    BY <1>1, <1>5, <2>2, <2>3, <2>4, SliceIs
<1>9. \A i \in 1 .. lm : 11 + lp + i <= Len(p) => p[11 + lp + i] = r.phrase[i]
  <2> SUFFICES ASSUME NEW i \in 1 .. lm, 11 + lp + i <= Len(p)
               PROVE  p[11 + lp + i] = r.phrase[i]
    OBVIOUS
  <2>1. 11 + lp + i \in 1 .. n
    BY <1>1, <1>4, <1>5
  <2> QED
    BY <1>2, <1>5, <2>1
<1>10. ASSUME Len(c) <= PacketSize
       PROVE  /\ Len(p) = 11 + lp + lm + ln
              /\ \A i \in 1 .. ln : p[11 + lp + lm + i] = r.name[i]
  <2>1. n = 11 + lp + lm + ln
    BY <1>2, <1>4, <1>10
  <2>2. \A i \in 1 .. ln : 11 + lp + lm + i \in 1 .. n
    BY <1>1, <2>1
  <2> QED
    BY <1>2, <1>5, <2>1, <2>2
<1>11. p \in Seq(Int) /\ Len(p) \in Nat /\ 11 + lp <= Len(p)
  BY <1>4, <1>5
<1> QED
  BY <1>6, <1>7, <1>8, <1>9, <1>10, <1>11 DEF c, lp, lm, ln

-----------------------------------------------------------------------------
(* The steps.                                                              *)

\* The FTS receives the 0x00.
LEMMA CraftRequestStep == ASSUME IInv, CraftRequest PROVE IInv'
<1>1. /\ packetPc = "start" /\ packetPc' = "asked" /\ UNCHANGED <<req, ftsPort, fts>>
      /\ pkt' = Received(Crafted(req)) /\ whole' = Len(Crafted(req))
      /\ Crafted(req)' = Crafted(req)
  BY DEF CraftRequest, in, Crafted
<1>2. TypeOK'
  BY <1>1 DEF IInv, TypeOK
<1>3. AskedRight'
  <2>1. Received(Crafted(req))' = Received(Crafted(req))
    BY <1>1 DEF Received
  <2> QED
    BY <1>1, <2>1 DEF AskedRight
<1> QED
  BY <1>1, <1>2, <1>3 DEF IInv, ScrapedRight, InitRight, TakenRight, ValidRight

\* The FTS takes the address.
LEMMA ScrapeAddrStep == ASSUME IInv, ScrapeAddr PROVE IInv'
<1>1. /\ packetPc = "asked" /\ UNCHANGED <<req, ftsPort, pkt, whole>>
      /\ \/ packetPc' = "refused" /\ UNCHANGED fts
         \/ packetPc' = "address" /\ fts' = [fts EXCEPT !.addr = SubSeq(pkt, 2, 5)]
      /\ Received(Crafted(req))' = Received(Crafted(req)) /\ Crafted(req)' = Crafted(req)
  BY DEF ScrapeAddr, in, Crafted, Received
<1>2. req \in Request /\ pkt = Received(Crafted(req))
  BY <1>1 DEF IInv, TypeOK, AskedRight
<1>3. SubSeq(pkt, 2, 5) = req.addr /\ req.addr \in Seq(Int)
  BY <1>2, ReceivedFacts, RequestFields
<1>4. AskedRight'
  BY <1>1 DEF IInv, AskedRight
<1>5. packetPc' = "address" => fts'.addr = req.addr
  BY <1>1, <1>3 DEF IInv, TypeOK
<1>6. TypeOK'
  BY <1>1, <1>3 DEF IInv, TypeOK
<1>7. ScrapedRight'
  BY <1>1, <1>5 DEF ScrapedRight
<1> QED
  BY <1>1, <1>4, <1>6, <1>7 DEF IInv, InitRight, TakenRight, ValidRight

\* The FTS takes the port and the pattern.
LEMMA ScrapePatternStep == ASSUME IInv, ScrapePattern PROVE IInv'
<1> DEFINE n == Number(pkt, 6)
           q == SubSeq(pkt, 10, 9 + Number(pkt, 8))
<1>1. /\ packetPc = "address" /\ packetPc' = "pattern" /\ UNCHANGED <<req, ftsPort, pkt, whole>>
      /\ fts' = [fts EXCEPT !.port = n, !.pattern = q]
      /\ Received(Crafted(req))' = Received(Crafted(req)) /\ Crafted(req)' = Crafted(req)
  BY DEF ScrapePattern, in, Crafted, Received
<1>2. req \in Request /\ pkt = Received(Crafted(req)) /\ fts.addr = req.addr
  BY <1>1 DEF IInv, TypeOK, AskedRight, ScrapedRight
<1>3. n = req.port /\ Number(pkt, 8) = Len(req.pattern)
      /\ SubSeq(pkt, 10, 9 + Len(req.pattern)) = req.pattern
  BY <1>2, ReceivedFacts
<1>4. q = req.pattern
  BY <1>3
<1>5. req.pattern \in Seq(Int) /\ req.port \in Int
  BY <1>2, RequestFields, WordFacts
<1> HIDE DEF n, q
<1>6. /\ fts'.addr = req.addr /\ fts'.port = req.port /\ fts'.pattern = req.pattern
      /\ fts' \in [addr : Seq(Int), port : Int, pattern : Seq(Int), phrase : Seq(Int), tcp : Int]
  BY <1>1, <1>2, <1>3, <1>4, <1>5 DEF IInv, TypeOK
<1>7. AskedRight' /\ ScrapedRight'
  BY <1>1, <1>6 DEF IInv, AskedRight, ScrapedRight
<1>8. TypeOK'
  BY <1>1, <1>6 DEF IInv, TypeOK
<1> QED
  BY <1>1, <1>7, <1>8 DEF IInv, InitRight, TakenRight, ValidRight

\* The 0x01: either the lengths pass the end of what was received, or it has the phrase and
\* what there is of the name.
LEMMA ScrapeMessageStep == ASSUME IInv, ScrapeMessage PROVE IInv'
<1> DEFINE lp == Len(req.pattern)
           lm == Len(req.phrase)
           ln == Len(req.name)
           phrase == SubSeq(pkt, lp + 12, lp + 11 + lm)
           rest == SubSeq(pkt, lp + 12 + lm, Len(pkt))
<1>1. /\ packetPc = "pattern" /\ UNCHANGED <<req, ftsPort, whole, taken>>
      /\ Received(Crafted(req))' = Received(Crafted(req)) /\ Crafted(req)' = Crafted(req)
  BY DEF ScrapeMessage, in, Crafted, Received
<1>2. /\ req \in Request /\ pkt = Received(Crafted(req)) /\ whole = Len(Crafted(req))
      /\ fts.addr = req.addr /\ fts.port = req.port /\ fts.pattern = req.pattern
  BY <1>1 DEF IInv, TypeOK, AskedRight, ScrapedRight
<1>3. lp \in Nat /\ lm \in Nat /\ ln \in Nat /\ req.phrase \in Seq(Int) /\ req.name \in Seq(Int)
  BY <1>2, RequestFields
<1>4. /\ pkt \in Seq(Int) /\ Len(pkt) \in Nat /\ 11 + lp <= Len(pkt)
      /\ Number(pkt, 10 + lp) = lm
      /\ \A i \in 1 .. lm : 11 + lp + i <= Len(pkt) => pkt[11 + lp + i] = req.phrase[i]
      /\ Fits => /\ Len(pkt) = 11 + lp + lm + ln
                 /\ \A i \in 1 .. ln : pkt[11 + lp + lm + i] = req.name[i]
  BY <1>2, ReceivedFacts DEF Fits
<1>n. /\ lp \in Nat /\ lm \in Nat /\ ln \in Nat /\ Len(pkt) \in Nat
      /\ Fits => Len(pkt) = 11 + lp + lm + ln
  BY <1>3, <1>4
<1>5. /\ room' = [message |-> Len(pkt) - (lp + 8), init |-> 1 + (Len(pkt) - (lp + 9))]
      /\ IF lp + 11 + lm > Len(pkt)
           THEN packetPc' = "overrun" /\ UNCHANGED <<pkt, fts>>
           ELSE /\ fts' = [fts EXCEPT !.phrase = phrase]
                /\ pkt' = <<1>> \o Two(lm) \o Inverted(phrase) \o rest
                /\ packetPc' = "init"
  <2> HIDE DEF lp, lm, phrase, rest
  <2>1. MessageStart = lp + 9
    BY <1>2 DEF MessageStart, lp
  <2>2. Number(pkt, MessageStart + 1) = lm
    <3>1. MessageStart + 1 = 10 + lp
      BY <1>3, <2>1
    <3> QED
      BY <1>4, <3>1
  <2>3. /\ MessageStart + 2 + lm = lp + 11 + lm
        /\ MessageStart + 3 = lp + 12 /\ MessageStart + 3 + lm = lp + 12 + lm
        /\ MessageStart + 2 = lp + 11
    BY <1>3, <2>1
  <2>4. phrase = SubSeq(pkt, MessageStart + 3, MessageStart + 2 + lm)
        /\ rest = SubSeq(pkt, MessageStart + 3 + lm, Len(pkt))
    BY <2>3 DEF phrase, rest
  <2>5. /\ InitRoom = 1 + (Len(pkt) - (lp + 9))
        /\ Len(pkt) - (Len(fts.pattern) + 8) = Len(pkt) - (lp + 8)
    BY <1>2 DEF InitRoom, lp
  <2>6. /\ room' = [message |-> Len(pkt) - (Len(fts.pattern) + 8), init |-> InitRoom]
        /\ IF MessageStart + 2 + lm > Len(pkt)
             THEN packetPc' = "overrun" /\ UNCHANGED <<pkt, fts>>
             ELSE /\ fts' = [fts EXCEPT !.phrase = SubSeq(pkt, MessageStart + 3, MessageStart + 2 + lm)]
                  /\ pkt' = <<1>> \o Two(lm)
                              \o Inverted(SubSeq(pkt, MessageStart + 3, MessageStart + 2 + lm))
                              \o SubSeq(pkt, MessageStart + 3 + lm, Len(pkt))
                  /\ packetPc' = "init"
    BY <2>2 DEF ScrapeMessage
  <2> QED
    BY <2>3, <2>4, <2>5, <2>6
<1>6. CASE lp + 11 + lm > Len(pkt)
  <2>1. packetPc' = "overrun" /\ UNCHANGED <<pkt, fts>>
    BY <1>5, <1>6
  <2>2. ~Fits
    <3> HIDE DEF lp, lm, ln
    <3> QED
      BY <1>n, <1>6
  <2>3. ~Fits'
    BY <1>1, <2>2 DEF Fits
  <2>4. TypeOK' /\ AskedRight' /\ ScrapedRight'
    BY <1>1, <1>2, <2>1, <2>3 DEF IInv, TypeOK, AskedRight, ScrapedRight
  <2> QED
    BY <2>1, <2>4 DEF IInv, InitRight, TakenRight, ValidRight
<1>7. CASE ~(lp + 11 + lm > Len(pkt))
  <2>0. lp + 11 + lm <= Len(pkt)
    <3> HIDE DEF lp, lm, ln
    <3> QED
      BY <1>n, <1>7
  <2>1. /\ fts' = [fts EXCEPT !.phrase = phrase] /\ packetPc' = "init"
        /\ pkt' = <<1>> \o Two(lm) \o Inverted(phrase) \o rest
    BY <1>5, <1>7
  <2>2. phrase = req.phrase
    <3> HIDE DEF lp, lm, ln
    <3>1. \A i \in 1 .. lm : 11 + lp + i <= Len(pkt) /\ (lp + 12) - 1 + i = 11 + lp + i
      BY <1>n, <2>0
    <3>2. \A i \in 1 .. lm : pkt[(lp + 12) - 1 + i] = req.phrase[i]
      BY <1>4, <3>1
    <3>3. /\ lp + 12 \in Nat \ {0} /\ lp + 11 + lm \in Nat
          /\ lp + 11 + lm = (lp + 12) - 1 + lm
      BY <1>3
    <3> DEFINE m == lp + 12
               k == lp + 11 + lm
    <3>4. m \in Nat \ {0} /\ k \in Nat /\ k = m - 1 + lm /\ k <= Len(pkt)
      BY <1>n, <2>0, <3>3
    <3>5. \A i \in 1 .. lm : pkt[m - 1 + i] = req.phrase[i]
      BY <3>2
    <3>6. phrase = SubSeq(pkt, m, k)
      OBVIOUS
    <3> HIDE DEF m, k, phrase
    <3>7. k = m - 1 + Len(req.phrase) /\ \A i \in 1 .. Len(req.phrase) : pkt[m - 1 + i] = req.phrase[i]
      BY <3>4, <3>5 DEF lm
    <3>8. pkt \in Seq(Int) /\ req.phrase \in Seq(Int)
      BY <1>3, <1>4
    <3>9. SubSeq(pkt, m, k) = req.phrase
      BY <3>4, <3>7, <3>8, SliceIs
    <3> QED
      BY <3>6, <3>9
  <2>3. /\ rest \in Seq(Int) /\ Len(rest) = Len(pkt) - (lp + 11 + lm)
        /\ \A i \in 1 .. Len(pkt) - (lp + 11 + lm) : rest[i] = pkt[lp + 11 + lm + i]
    <3> HIDE DEF lp, lm, ln
    <3>1. /\ lp + 12 + lm \in Nat /\ 1 <= lp + 12 + lm /\ lp + 12 + lm <= Len(pkt) + 1
          /\ Len(pkt) <= Len(pkt) /\ Len(pkt) - (lp + 12 + lm) + 1 = Len(pkt) - (lp + 11 + lm)
          /\ \A i \in 1 .. Len(pkt) - (lp + 11 + lm) : lp + 12 + lm + i - 1 = lp + 11 + lm + i
      BY <1>3, <1>4, <2>0
    <3>2. /\ rest \in Seq(Int) /\ Len(rest) = Len(pkt) - (lp + 12 + lm) + 1
          /\ \A i \in 1 .. Len(pkt) - (lp + 12 + lm) + 1 : rest[i] = pkt[lp + 12 + lm + i - 1]
      BY <1>4, <3>1, SliceFacts
    <3> HIDE DEF rest
    <3> QED
      BY <3>1, <3>2
  <2> HIDE DEF phrase, rest
  <2> DEFINE w == Two(lm)
             v == Inverted(req.phrase)
             q0 == <<1>>
             q1 == q0 \o w
             q2 == q1 \o v
             q3 == q2 \o rest
  <2>4. w \in Seq(Int) /\ Len(w) = 2 /\ 256 * w[1] + w[2] = lm
    <3>1. lm \in Word
      BY <1>2, RequestFields
    <3> HIDE DEF lm
    <3>2. lm \in Nat /\ lm <= 65535
      BY <3>1, WordFacts
    <3> QED
      BY <3>2, TwoFacts
  <2>5. v \in Seq(Int) /\ Len(v) = lm /\ \A i \in 1 .. lm : v[i] = 255 - req.phrase[i]
    BY <1>3, InvertedFacts
  <2>6. pkt' = q3
    BY <2>1, <2>2
  <2> HIDE DEF w, v
  <2>7. q0 \in Seq(Int) /\ Len(q0) = 1
    OBVIOUS
  <2> HIDE DEF q0
  <2>8. /\ q1 \in Seq(Int) /\ Len(q1) = Len(q0) + Len(w)
        /\ \A i \in 1 .. Len(q0) : q1[i] = q0[i]
        /\ \A i \in 1 .. Len(w) : q1[Len(q0) + i] = w[i]
    BY <2>4, <2>7, ConcatFacts, Zenon
  <2> HIDE DEF q1
  <2>9. /\ q2 \in Seq(Int) /\ Len(q2) = Len(q1) + Len(v)
        /\ \A i \in 1 .. Len(q1) : q2[i] = q1[i]
        /\ \A i \in 1 .. Len(v) : q2[Len(q1) + i] = v[i]
    BY <2>5, <2>8, ConcatFacts, Zenon
  <2> HIDE DEF q2
  <2>10. /\ q3 \in Seq(Int) /\ Len(q3) = Len(q2) + Len(rest)
         /\ \A i \in 1 .. Len(q2) : q3[i] = q2[i]
         /\ \A i \in 1 .. Len(rest) : q3[Len(q2) + i] = rest[i]
    BY <2>3, <2>9, ConcatFacts, Zenon
  <2> HIDE DEF q3
  <2>11. /\ Len(q1) = 3 /\ Len(q2) = 3 + lm /\ Len(q3) = 1 + (Len(pkt) - (lp + 9))
         /\ 3 + lm <= Len(q3)
    <3>1. Len(q1) = 3
      BY <2>4, <2>7, <2>8
    <3>2. Len(q2) = 3 + lm
      BY <2>5, <2>9, <3>1
    <3>3. Len(q3) = 3 + lm + (Len(pkt) - (lp + 11 + lm))
      BY <2>3, <2>10, <3>2
    <3> HIDE DEF lp, lm
    <3> QED
      BY <1>3, <1>4, <2>0, <3>1, <3>2, <3>3
  <2>12. Number(q3, 2) = lm
    <3> HIDE DEF lp, lm
    <3>1. q1[1 + 1] = w[1] /\ q1[1 + 2] = w[2]
      BY <2>4, <2>7, <2>8
    <3>2. q2[2] = q1[2] /\ q2[3] = q1[3]
      BY <2>9, <2>11
    <3>3. 2 \in 1 .. 3 + lm /\ 3 \in 1 .. 3 + lm
      BY <1>3
    <3>4. q3[2] = q2[2] /\ q3[3] = q2[3]
      BY <2>10, <2>11, <3>3
    <3> QED
      BY <2>4, <3>1, <3>2, <3>4 DEF Number
  <2>13. \A i \in 1 .. lm : q3[3 + i] = 255 - req.phrase[i]
    <3> HIDE DEF lp, lm
    <3>1. \A i \in 1 .. lm : q2[3 + i] = v[i] /\ 3 + i \in 1 .. 3 + lm
      BY <1>3, <2>5, <2>9, <2>11
    <3>2. \A i \in 1 .. 3 + lm : q3[i] = q2[i]
      BY <2>10, <2>11
    <3>3. \A i \in 1 .. lm : v[i] = 255 - req.phrase[i]
      BY <2>5
    <3> QED
      BY <3>1, <3>2, <3>3, Zenon
  <2>14. Fits => /\ Len(q3) = 3 + lm + ln
                 /\ \A i \in 1 .. ln : q3[3 + lm + i] = req.name[i]
    <3> SUFFICES ASSUME Fits
                 PROVE  /\ Len(q3) = 3 + lm + ln
                        /\ \A i \in 1 .. ln : q3[3 + lm + i] = req.name[i]
      OBVIOUS
    <3> HIDE DEF lp, lm, ln
    <3>1. Len(pkt) = 11 + lp + lm + ln /\ \A i \in 1 .. ln : pkt[11 + lp + lm + i] = req.name[i]
      BY <1>4
    <3>2. Len(pkt) - (lp + 11 + lm) = ln /\ Len(q3) = 3 + lm + ln
      BY <1>3, <2>11, <3>1
    <3>3. \A i \in 1 .. ln : lp + 11 + lm + i = 11 + lp + lm + i
      BY <1>3
    <3>4. \A i \in 1 .. ln : rest[i] = req.name[i]
      BY <2>3, <3>1, <3>2, <3>3
    <3>5. \A i \in 1 .. ln : q3[3 + lm + i] = rest[i]
      BY <2>3, <2>10, <2>11, <3>2
    <3> QED
      BY <3>2, <3>4, <3>5
  <2>15. InitRight'
    <3>1. Fits' = Fits
      BY <1>1 DEF Fits
    <3>2. Len(pkt') = room'.init
      BY <1>5, <2>6, <2>11
    <3>3. lm < room'.message
      <4>1. room'.message = Len(pkt) - (lp + 8)
        BY <1>5
      <4> HIDE DEF lp, lm
      <4> QED
        BY <1>3, <1>4, <2>0, <4>1
    <3> QED
      BY <1>1, <2>6, <2>10, <2>11, <2>12, <2>13, <2>14, <3>1, <3>2, <3>3
      DEF InitRight, Number
  <2>16. /\ fts'.addr = req.addr /\ fts'.port = req.port /\ fts'.pattern = req.pattern
         /\ fts'.phrase = req.phrase
         /\ fts' \in [addr : Seq(Int), port : Int, pattern : Seq(Int), phrase : Seq(Int), tcp : Int]
    <3>1. fts' = [fts EXCEPT !.phrase = req.phrase] /\ req.phrase \in Seq(Int)
      BY <1>3, <2>1, <2>2
    <3> QED
      BY <1>2, <3>1 DEF IInv, TypeOK
  <2>17. TypeOK' /\ AskedRight' /\ ScrapedRight'
    BY <1>1, <1>2, <2>1, <2>16 DEF IInv, TypeOK, AskedRight, ScrapedRight
  <2> QED
    BY <2>1, <2>15, <2>17 DEF IInv, TakenRight, ValidRight
<1> QED
  BY <1>6, <1>7

\* The FSS takes the phrase and the name out of the 0x01.
LEMMA UnpackInitStep == ASSUME IInv, UnpackInit PROVE IInv'
<1> DEFINE lm == Len(req.phrase)
           ln == Len(req.name)
           q == SubSeq(pkt, 4, 3 + lm)
           name == SubSeq(pkt, 4 + lm, Len(pkt))
<1>1. /\ packetPc = "init" /\ packetPc' \in {"ignored", "taken"}
      /\ UNCHANGED <<req, ftsPort, whole, fts>> /\ Crafted(req)' = Crafted(req)
      /\ packetPc' = "taken" =>
           taken' = [phrase |-> SubSeq(pkt, 4, 3 + Number(pkt, 2)),
                     name |-> SubSeq(pkt, NameStart(pkt), Len(pkt))]
  BY DEF UnpackInit, in, Crafted
<1>2. /\ req \in Request /\ pkt \in Seq(Int) /\ 3 + lm <= Len(pkt) /\ Number(pkt, 2) = lm
      /\ \A i \in 1 .. lm : pkt[3 + i] = 255 - req.phrase[i]
      /\ Fits => /\ Len(pkt) = 3 + lm + ln
                 /\ \A i \in 1 .. ln : pkt[3 + lm + i] = req.name[i]
  BY <1>1 DEF IInv, TypeOK, InitRight
<1>3. /\ lm \in Nat /\ ln \in Nat /\ Len(pkt) \in Nat
      /\ req.phrase \in Seq(Int) /\ req.name \in Seq(Int)
  BY <1>2, RequestFields
<1>4. packetPc' = "taken" => taken' = [phrase |-> q, name |-> name]
  BY <1>1, <1>2 DEF NameStart
<1>5. Inverted(q) = req.phrase
  <2>1. /\ q \in Seq(Int) /\ Len(q) = lm /\ \A i \in 1 .. lm : q[i] = pkt[3 + i]
    <3> HIDE DEF lm
    <3>1. /\ 4 \in Nat /\ 3 + lm \in Nat /\ 1 <= 4 /\ 4 <= (3 + lm) + 1
          /\ (3 + lm) - 4 + 1 = lm /\ \A i \in 1 .. lm : 4 + i - 1 = 3 + i
      BY <1>3
    <3>2. /\ q \in Seq(Int) /\ Len(q) = (3 + lm) - 4 + 1
          /\ \A i \in 1 .. (3 + lm) - 4 + 1 : q[i] = pkt[4 + i - 1]
      BY <1>2, <3>1, SliceFacts
    <3> HIDE DEF q
    <3> QED
      BY <3>1, <3>2
  <2> HIDE DEF q
  <2>2. /\ Inverted(q) \in Seq(Int) /\ Len(Inverted(q)) = lm
        /\ \A i \in 1 .. lm : Inverted(q)[i] = 255 - q[i]
    BY <2>1, InvertedFacts
  <2>3. ASSUME NEW i \in 1 .. lm PROVE Inverted(q)[i] = req.phrase[i]
    <3>1. Inverted(q)[i] = 255 - q[i] /\ q[i] = pkt[3 + i] /\ pkt[3 + i] = 255 - req.phrase[i]
      BY <1>2, <2>1, <2>2
    <3>2. req.phrase[i] \in Int
      BY <1>3, ElementOfSeq
    <3> QED
      BY <3>1, <3>2
  <2> QED
    BY <1>3, <2>2, <2>3, SeqEqual
<1>6. Fits => name = req.name
  <2> SUFFICES ASSUME Fits PROVE name = req.name
    OBVIOUS
  <2> HIDE DEF lm, ln
  <2> DEFINE m == 4 + lm
  <2>1. Len(pkt) = 3 + lm + ln /\ \A i \in 1 .. ln : pkt[3 + lm + i] = req.name[i]
    BY <1>2
  <2>2. /\ m \in Nat \ {0} /\ Len(pkt) = m - 1 + ln
        /\ \A i \in 1 .. ln : m - 1 + i = 3 + lm + i
    BY <1>3, <2>1
  <2>3. name = SubSeq(pkt, m, Len(pkt))
    OBVIOUS
  <2> HIDE DEF m, name
  <2>4. \A i \in 1 .. ln : pkt[m - 1 + i] = req.name[i]
    BY <2>1, <2>2
  <2>5. Len(pkt) = m - 1 + Len(req.name) /\ \A i \in 1 .. Len(req.name) : pkt[m - 1 + i] = req.name[i]
    BY <2>2, <2>4 DEF ln
  <2>6. Len(pkt) \in Nat /\ Len(pkt) <= Len(pkt)
    BY <1>3
  <2>7. SubSeq(pkt, m, Len(pkt)) = req.name
    BY <1>2, <1>3, <2>2, <2>5, <2>6, SliceIs
  <2> QED
    BY <2>3, <2>7
<1> HIDE DEF q, name
<1>7. TakenRight'
  <2> SUFFICES ASSUME packetPc' = "taken", Fits'
               PROVE  taken'.name = req.name /\ Inverted(taken'.phrase) = req.phrase
    BY <1>1 DEF TakenRight, Inverted
  <2>1. Fits
    BY <1>1 DEF Fits
  <2>2. taken'.name = name /\ taken'.phrase = q
    BY <1>4
  <2> QED
    BY <1>5, <1>6, <2>1, <2>2
<1>8. TypeOK' /\ AskedRight' /\ ScrapedRight'
  BY <1>1 DEF IInv, TypeOK, AskedRight, ScrapedRight
<1> QED
  BY <1>1, <1>7, <1>8 DEF IInv, InitRight, ValidRight

\* Whatever comes back, the FTS has the phrase of the request.
LEMMA RespondStep == ASSUME IInv, Respond PROVE IInv'
<1>1. /\ packetPc = "taken" /\ packetPc' = "responded"
      /\ UNCHANGED <<req, ftsPort, whole, fts>> /\ Crafted(req)' = Crafted(req)
  BY DEF Respond, in, Crafted
<1>2. TypeOK' /\ AskedRight' /\ ScrapedRight'
  BY <1>1 DEF IInv, TypeOK, AskedRight, ScrapedRight
<1> QED
  BY <1>1, <1>2 DEF IInv, InitRight, TakenRight, ValidRight

\* The FTS takes the port out of the 0x02, or gives up.
LEMMA UnpackResponseStep == ASSUME IInv, UnpackResponse PROVE IInv'
<1>1. /\ packetPc = "responded" /\ UNCHANGED <<req, ftsPort, whole>> /\ Crafted(req)' = Crafted(req)
      /\ \/ /\ packetPc' = "unpacked" /\ Number(pkt, 2) \in Port
            /\ fts' = [fts EXCEPT !.tcp = Number(pkt, 2)]
         \/ packetPc' = "failed" /\ UNCHANGED fts
  BY DEF UnpackResponse, in, Crafted
<1>2. \A n \in Port : n \in Int
  BY DEF Port
<1>3. /\ fts'.addr = fts.addr /\ fts'.port = fts.port /\ fts'.pattern = fts.pattern
      /\ fts'.phrase = fts.phrase
      /\ fts' \in [addr : Seq(Int), port : Int, pattern : Seq(Int), phrase : Seq(Int), tcp : Int]
  <2>1. fts \in [addr : Seq(Int), port : Int, pattern : Seq(Int), phrase : Seq(Int), tcp : Int]
    BY DEF IInv, TypeOK
  <2>2. CASE UNCHANGED fts
    BY <2>1, <2>2
  <2>3. CASE Number(pkt, 2) \in Port /\ fts' = [fts EXCEPT !.tcp = Number(pkt, 2)]
    <3> DEFINE n == Number(pkt, 2)
    <3>1. n \in Int /\ fts' = [fts EXCEPT !.tcp = n]
      BY <1>2, <2>3
    <3> HIDE DEF n
    <3> QED
      BY <2>1, <3>1
  <2> QED
    BY <1>1, <2>2, <2>3
<1>4. TypeOK' /\ AskedRight'
  BY <1>1, <1>3 DEF IInv, TypeOK, AskedRight
<1>5. ScrapedRight'
  BY <1>1, <1>3 DEF IInv, ScrapedRight
<1> QED
  BY <1>1, <1>4, <1>5 DEF IInv, InitRight, TakenRight, ValidRight

\* The 0x03 carries the port where the session listens, and the phrase without its NUL.
LEMMA CraftValidationStep == ASSUME IInv, CraftValidation PROVE IInv'
<1> DEFINE lm == Len(req.phrase)
           w == Two(TcpPort)
           q0 == <<3>>
           q1 == q0 \o w
           q2 == q1 \o req.phrase
           q3 == q2 \o <<0>>
           p == SubSeq(q3, 1, 3 + lm)
<1>1. /\ packetPc = "unpacked" /\ UNCHANGED <<req, ftsPort, whole, fts>>
      /\ Crafted(req)' = Crafted(req) /\ TcpPort' = TcpPort
  BY DEF CraftValidation, in, Crafted, TcpPort
<1>2. req \in Request /\ ftsPort \in FtsPort /\ fts.phrase = req.phrase
  BY <1>1 DEF IInv, TypeOK, ScrapedRight
<1>3. \/ packetPc' = "failed"
      \/ packetPc' = "validated" /\ TcpPort \in Port /\ pkt' = p
  <2>1. PICK made \in MakeTCPSocket :
          IF made THEN /\ pkt' = SubSeq(<<3>> \o Two(TcpPort) \o fts.phrase \o <<0>>, 1, ValidationSize)
                       /\ packetPc' = "validated"
                  ELSE packetPc' = "failed" /\ UNCHANGED pkt
    BY DEF CraftValidation
  <2>2. made => TcpPort \in Port
    BY DEF MakeTCPSocket
  <2>3. <<3>> \o Two(TcpPort) \o fts.phrase \o <<0>> = q3 /\ ValidationSize = 3 + lm
    BY <1>2 DEF ValidationSize
  <2> HIDE DEF q3, lm
  <2> QED
    BY <2>1, <2>2, <2>3
<1>4. TypeOK' /\ AskedRight' /\ ScrapedRight'
  BY <1>1, <1>3 DEF IInv, TypeOK, AskedRight, ScrapedRight
<1>5. ASSUME packetPc' = "validated"
      PROVE  ValidRight'
  <2>1. TcpPort \in Port /\ pkt' = p
    BY <1>3, <1>5
  <2>2. req.phrase \in Seq(Int) /\ lm \in Nat
    BY <1>2, RequestFields
  <2>3. w \in Seq(Int) /\ Len(w) = 2 /\ 256 * w[1] + w[2] = TcpPort
    <3>1. TcpPort \in Nat /\ TcpPort <= 65535
      BY <2>1, PortFacts
    <3> QED
      BY <3>1, TwoFacts
  <2> HIDE DEF w
  <2>4. q0 \in Seq(Int) /\ Len(q0) = 1 /\ q0[1] = 3
    OBVIOUS
  <2> HIDE DEF q0
  <2>5. /\ q1 \in Seq(Int) /\ Len(q1) = Len(q0) + Len(w)
        /\ \A i \in 1 .. Len(q0) : q1[i] = q0[i]
        /\ \A i \in 1 .. Len(w) : q1[Len(q0) + i] = w[i]
    BY <2>3, <2>4, ConcatFacts, Zenon
  <2> HIDE DEF q1
  <2>6. /\ q2 \in Seq(Int) /\ Len(q2) = Len(q1) + Len(req.phrase)
        /\ \A i \in 1 .. Len(q1) : q2[i] = q1[i]
        /\ \A i \in 1 .. Len(req.phrase) : q2[Len(q1) + i] = req.phrase[i]
    BY <2>2, <2>5, ConcatFacts, Zenon
  <2> HIDE DEF q2
  <2> DEFINE z == <<0>>
  <2>7. z \in Seq(Int) /\ Len(z) = 1
    OBVIOUS
  <2>8. q3 = q2 \o z
    OBVIOUS
  <2> HIDE DEF z, q3
  <2>9. /\ q2 \o z \in Seq(Int) /\ Len(q2 \o z) = Len(q2) + Len(z)
        /\ \A i \in 1 .. Len(q2) : (q2 \o z)[i] = q2[i]
    BY <2>6, <2>7, ConcatFacts, Zenon
  <2>10. Len(q1) = 3 /\ Len(q2) = 3 + lm /\ Len(q3) = 4 + lm /\ q3 \in Seq(Int)
    <3>1. Len(q1) = 3
      BY <2>3, <2>4, <2>5
    <3>2. Len(q2) = 3 + lm
      BY <2>6, <3>1
    <3> HIDE DEF lm
    <3>3. Len(q3) = 4 + lm /\ q3 \in Seq(Int)
      BY <2>2, <2>7, <2>8, <2>9, <3>2
    <3> QED
      BY <3>1, <3>2, <3>3
  <2>11. /\ q2[1] = 3 /\ q2[2] = w[1] /\ q2[3] = w[2]
         /\ \A i \in 1 .. lm : q2[3 + i] = req.phrase[i]
    <3>1. q1[1] = 3 /\ q1[1 + 1] = w[1] /\ q1[1 + 2] = w[2]
      BY <2>3, <2>4, <2>5
    <3>2. q2[1] = q1[1] /\ q2[2] = q1[2] /\ q2[3] = q1[3]
      BY <2>6, <2>10
    <3>3. \A i \in 1 .. lm : q2[3 + i] = req.phrase[i]
      BY <2>6, <2>10
    <3> QED
      BY <3>1, <3>2, <3>3
  <2>p. lm = Len(req.phrase)
    OBVIOUS
  <2> HIDE DEF lm
  <2>12. \A i \in 1 .. 3 + lm : q3[i] = q2[i]
    BY <2>8, <2>9, <2>10
  <2>13. p \in Seq(Int) /\ Len(p) = 3 + lm /\ \A i \in 1 .. 3 + lm : p[i] = q2[i]
    <3>1. /\ 1 \in Nat /\ 3 + lm \in Nat /\ 1 <= 1 /\ 1 <= (3 + lm) + 1 /\ 3 + lm <= Len(q3)
          /\ (3 + lm) - 1 + 1 = 3 + lm /\ \A i \in 1 .. 3 + lm : 1 + i - 1 = i
      BY <2>2, <2>10
    <3>2. /\ p \in Seq(Int) /\ Len(p) = (3 + lm) - 1 + 1
          /\ \A i \in 1 .. (3 + lm) - 1 + 1 : p[i] = q3[1 + i - 1]
      BY <2>10, <3>1, SliceFacts
    <3> HIDE DEF p
    <3> QED
      BY <2>12, <3>1, <3>2
  <2> HIDE DEF p
  <2>14. p[1] = 3 /\ Number(p, 2) = TcpPort
    <3>1. 1 \in 1 .. 3 + lm /\ 2 \in 1 .. 3 + lm /\ 3 \in 1 .. 3 + lm
      BY <2>2
    <3>2. p[1] = q2[1] /\ p[2] = q2[2] /\ p[3] = q2[3]
      BY <2>13, <3>1
    <3> QED
      BY <2>3, <2>11, <3>2 DEF Number
  <2>15. SubSeq(p, 4, Len(p)) = req.phrase
    <3>1. \A i \in 1 .. lm : 4 - 1 + i = 3 + i /\ 3 + i \in 1 .. 3 + lm
      BY <2>2
    <3>2. \A i \in 1 .. Len(req.phrase) : p[4 - 1 + i] = req.phrase[i]
      <4>1. \A i \in 1 .. lm : p[3 + i] = req.phrase[i]
        BY <2>11, <2>13, <3>1
      <4> QED
        BY <2>p, <3>1, <4>1
    <3>3. /\ Len(p) = 4 - 1 + Len(req.phrase) /\ Len(p) <= Len(p) /\ Len(p) \in Nat
          /\ 4 \in Nat \ {0}
      BY <2>2, <2>13, <2>p
    <3> QED
      BY <2>2, <2>13, <3>2, <3>3, SliceIs
  <2> QED
    BY <1>1, <2>1, <2>14, <2>15 DEF ValidRight, Number
<1>6. ValidRight'
  BY <1>3, <1>5 DEF ValidRight
<1>7. packetPc' \in {"failed", "validated"}
  BY <1>3
<1> QED
  BY <1>4, <1>6, <1>7 DEF IInv, InitRight, TakenRight

\* The 0x03 comes in time or late, and stays what it is.
LEMMA RequestTransferStep == ASSUME IInv, RequestTransfer PROVE IInv'
<1>1. /\ packetPc = "validated" /\ packetPc' \in {"passed", "answered"}
      /\ UNCHANGED <<req, ftsPort, pkt, whole, fts>>
      /\ Crafted(req)' = Crafted(req) /\ TcpPort' = TcpPort
  BY DEF RequestTransfer, in, Crafted, TcpPort
<1>2. TypeOK' /\ AskedRight' /\ ScrapedRight'
  BY <1>1 DEF IInv, TypeOK, AskedRight, ScrapedRight
<1>3. ValidRight'
  BY <1>1 DEF IInv, ValidRight, Number
<1> QED
  BY <1>1, <1>2, <1>3 DEF IInv, InitRight, TakenRight

\* C2 takes the 0x03.
LEMMA UnpackValidationStep == ASSUME IInv, UnpackValidation PROVE IInv'
<1>1. packetPc = "answered" /\ UNCHANGED <<req, ftsPort, pkt, whole, fts>>
      /\ Crafted(req)' = Crafted(req) /\ TcpPort' = TcpPort
  BY DEF UnpackValidation, in, Crafted, TcpPort
<1>2. /\ pkt[1] = 3 /\ Number(pkt, 2) = TcpPort /\ TcpPort \in Port
      /\ SubSeq(pkt, 4, Len(pkt)) = req.phrase
  BY <1>1 DEF IInv, ValidRight
<1>3. packetPc' = "connects"
  BY <1>2 DEF UnpackValidation
<1>4. TypeOK' /\ AskedRight' /\ ScrapedRight'
  BY <1>1, <1>3 DEF IInv, TypeOK, AskedRight, ScrapedRight
<1>5. ValidRight'
  BY <1>1, <1>2 DEF ValidRight, Number
<1> QED
  BY <1>3, <1>4, <1>5 DEF IInv, InitRight, TakenRight

-----------------------------------------------------------------------------

\* Nothing has been sent.
LEMMA InvInit == PacketInit => IInv
<1> SUFFICES ASSUME PacketInit PROVE IInv
  OBVIOUS
<1>1. packetPc = "start" /\ req \in Request /\ ftsPort \in FtsPort
  BY DEF PacketInit
<1>2. fts \in [addr : Seq(Int), port : Int, pattern : Seq(Int), phrase : Seq(Int), tcp : Int]
  <2> DEFINE e == <<>>
  <2>1. e \in Seq(Int)
    OBVIOUS
  <2>2. fts = [addr |-> e, port |-> 0, pattern |-> e, phrase |-> e, tcp |-> 0]
    BY DEF PacketInit, Unset
  <2> HIDE DEF e
  <2> QED
    BY <2>1, <2>2
<1>3. TypeOK
  BY <1>1, <1>2 DEF TypeOK
<1> QED
  BY <1>1, <1>3 DEF IInv, AskedRight, ScrapedRight, InitRight, TakenRight, ValidRight

\* The invariant holds in every step.
LEMMA InvStep == IInv /\ [PacketNext]_packetVars => IInv'
<1> SUFFICES ASSUME IInv, [PacketNext]_packetVars PROVE IInv'
  OBVIOUS
<1>1. CASE Over \/ UNCHANGED packetVars
  <2>1. UNCHANGED <<req, ftsPort, packetPc, pkt, whole, fts, room, taken, from>>
    BY <1>1 DEF Over, packetVars, in
  <2>2. /\ Crafted(req)' = Crafted(req) /\ Received(Crafted(req))' = Received(Crafted(req))
        /\ Number(pkt, 2)' = Number(pkt, 2) /\ TcpPort' = TcpPort /\ Fits' = Fits
        /\ Inverted(taken.phrase)' = Inverted(taken.phrase)
    BY <2>1 DEF Crafted, Received, Number, TcpPort, Fits, Inverted
  <2>3. TypeOK' /\ AskedRight'
    BY <2>1, <2>2 DEF IInv, TypeOK, AskedRight
  <2>4. ScrapedRight' /\ TakenRight'
    BY <2>1, <2>2 DEF IInv, ScrapedRight, TakenRight
  <2>5. InitRight' /\ ValidRight'
    BY <2>1, <2>2 DEF IInv, InitRight, ValidRight
  <2> QED
    BY <2>3, <2>4, <2>5 DEF IInv
<1> QED
  BY <1>1, CraftRequestStep, ScrapeAddrStep, ScrapePatternStep, ScrapeMessageStep,
     UnpackInitStep, RespondStep, UnpackResponseStep, CraftValidationStep, RequestTransferStep,
     UnpackValidationStep
  DEF PacketNext

\* The invariant of every behaviour.
LEMMA InvAlways == PacketSpec => []IInv
BY InvInit, InvStep, PTL DEF PacketSpec

\* A request that fits in one read arrives whole (udpHandler.py, requestTransfer;
\* udpHandler.c:64-109; tcpHandler.c; FSS.py).
THEOREM ArrivesWhole == PacketSpec => []Arrives
<1>1. IInv => Arrives
  BY DEF IInv, TakenRight, ScrapedRight, Arrives
<1> QED
  BY <1>1, InvAlways, PTL

\* Lengths that pass the end of the packet come from a packet that was cut
\* (udpHandler.c:102-107).
THEOREM OverrunSafe == PacketSpec => []OverrunOnlyIfCut
<1>1. IInv => OverrunOnlyIfCut
  BY DEF IInv, ScrapedRight, OverrunOnlyIfCut
<1> QED
  BY <1>1, InvAlways, PTL

\* The buffers for the message and the 0x01 are large enough (fts.c:414-415).
THEOREM RoomSafe == PacketSpec => []RoomEnough
<1>1. IInv => RoomEnough
  BY DEF IInv, ScrapedRight, InitRight, RoomEnough
<1> QED
  BY <1>1, InvAlways, PTL

\* For requests of any size: C2 rejects no 0x03 of its session that comes while it waits at
\* the session's port, and connects where the session listens; a late one is thrown away
\* before it is looked at (udpHandler.py:142-149; fts.c:563-598).
THEOREM ValidationTaken == PacketSpec => []InTimeTaken
<1>1. IInv => InTimeTaken
  BY DEF IInv, TypeOK, ValidRight, InTimeTaken
<1> QED
  BY <1>1, InvAlways, PTL

=============================================================================
