------------------------------ MODULE Packets ------------------------------
(***************************************************************************)
(* One request through its four packets: 0x00 from C2 to FTS, 0x01 to the  *)
(* FSS, 0x02 back, 0x03 back to C2 (udpHandler.py, udpHandler.c,           *)
(* tcpHandler.c, fts.c).                                                   *)
(*                                                                         *)
(* A packet is a sequence of bytes; texts are bytes, and a phrase and a    *)
(* name are as long as they are, of one letter.  The pattern, whatever its *)
(* text, inverts every byte: other patterns are in PhraseEcho.             *)
(***************************************************************************)
EXTENDS Integers, SequencesExt

CONSTANTS
  Request,    \* what C2 asks: addr, port, pattern, phrase (never empty), name
  FtsPort,    \* UDP ports of the FTS, from 16000 to 17000
  FssTcp,     \* TCP ports the FSS gets
  PacketSize  \* MAX_SIZE, and the 1450 of recvfrom in FSS.py

Byte == 0 .. 255
Word == 0 .. 65535      \* what to_bytes takes for two bytes
Port == 1 .. 65535

\* Each length is written in two bytes, and a pattern that leaves room for the length of the
\* phrase: the FTS reads both of its lengths without asking whether they were received.
ASSUME PacketsAssumption ==
  /\ \A r \in Request :
       /\ r.addr \in Seq(Byte) /\ Len(r.addr) = 4 /\ r.port \in Word
       /\ r.pattern \in Seq(Byte) /\ r.phrase \in Seq(Byte) /\ r.name \in Seq(Byte)
       /\ Len(r.pattern) \in Word /\ Len(r.phrase) \in Word
       /\ 11 + Len(r.pattern) <= PacketSize
  /\ FtsPort \subseteq Nat
  /\ PacketSize \in Nat

VARIABLES
  req, ftsPort,  \* what C2 asks, and which port of the FTS
  packetPc,
  pkt,           \* the packet on its way
  whole,         \* length of the 0x00 that C2 sent
  fts,           \* what the FTS took out of the 0x00 and 0x02
  room,          \* bytes allocated for message and init
  taken,         \* what the FSS took out of the 0x01
  from           \* where a 0x02 came from

in == <<req, ftsPort>>
packetVars == <<in, packetPc, pkt, whole, fts, room, taken, from>>

Unset == [addr |-> <<>>, port |-> 0, pattern |-> <<>>, phrase |-> <<>>, tcp |-> 0]

PacketInit ==
  /\ req \in Request /\ ftsPort \in FtsPort
  /\ packetPc = "start" /\ pkt = <<>> /\ whole = 0
  /\ fts = Unset
  /\ room = [message |-> 0, init |-> 0]
  /\ taken = [phrase |-> <<>>, name |-> <<>>]
  /\ from = [addr |-> "fss", port |-> "fss"]

\* to_bytes(2,byteorder='big'); >> 8 and & 0xff
Two(n) == <<(n \div 256) % 256, n % 256>>

\* p[i] << 8 | p[i+1]
Number(p, i) == 256 * p[i] + p[i + 1]

\* The pattern ~:n;~:n, on each byte.
Inverted(s) == [i \in DOMAIN s |-> 255 - s[i]]

\* recvfrom(...,1450)
Received(p) == SubSeq(p, 1, IF Len(p) <= PacketSize THEN Len(p) ELSE PacketSize)

-----------------------------------------------------------------------------
(* 0x00                                                                    *)

CraftRequest ==
  LET p == <<0>> \o req.addr \o Two(req.port) \o Two(Len(req.pattern)) \o req.pattern
             \o Two(Len(req.phrase)) \o req.phrase \o req.name
  IN
  /\ packetPc = "start"
  /\ pkt' = Received(p) /\ whole' = Len(p)
  /\ packetPc' = "asked"
  /\ UNCHANGED <<in, fts, room, taken, from>>

Digits(n) ==
  LET d == <<48 + (n \div 100), 48 + ((n \div 10) % 10), 48 + (n % 10)>> IN
  SubSeq(d, IF n < 10 THEN 3 ELSE IF n < 100 THEN 2 ELSE 1, 3)

\* sprintf(addr,"%d.%d.%d.%d",...)
Text(a) == Digits(a[1]) \o <<46>> \o Digits(a[2]) \o <<46>> \o Digits(a[3]) \o <<46>> \o Digits(a[4])

\* strncmp(addr,other,strlen(addr)) == 0
Begins(a, other) == IsPrefix(Text(a), Text(other))

ScrapeAddr ==
  LET a == SubSeq(pkt, 2, 5) IN
  /\ packetPc = "asked"
  /\ IF Begins(a, <<0, 0, 0, 0>>) \/ Begins(a, <<255, 255, 255, 255>>)
       THEN packetPc' = "refused" /\ UNCHANGED fts
       ELSE packetPc' = "address" /\ fts' = [fts EXCEPT !.addr = a]
  /\ UNCHANGED <<in, pkt, whole, room, taken, from>>

\* scrapePort, and scrapePattern of a pattern that is valid.
ScrapePattern ==
  /\ packetPc = "address"
  /\ fts' = [fts EXCEPT !.port = Number(pkt, 6), !.pattern = SubSeq(pkt, 10, 9 + Number(pkt, 8))]
  /\ packetPc' = "pattern"
  /\ UNCHANGED <<in, pkt, whole, room, taken, from>>

-----------------------------------------------------------------------------
(* 0x01                                                                    *)

\* Wrong form: the type byte is forgotten.
MessageStartEarly == Len(fts.pattern) + 8
\* patternLen+9
MessageStart == Len(fts.pattern) + 9

\* Wrong form: the type byte of init is forgotten.
InitRoomShort == Len(pkt) - (Len(fts.pattern) + 9)
\* calloc(1+(size-(patternLen+9)))
InitRoom == 1 + (Len(pkt) - (Len(fts.pattern) + 9))

\* scrapeMessage: fnameLen = size-len-start-2; when the lengths pass the end of what was
\* received, it is negative and the copies leave every buffer.
ScrapeMessage ==
  LET start == MessageStart
      len == Number(pkt, start + 1)
      phrase == SubSeq(pkt, start + 3, start + 2 + len)
  IN
  /\ packetPc = "pattern"
  /\ room' = [message |-> Len(pkt) - (Len(fts.pattern) + 8), init |-> InitRoom]
  /\ IF start + 2 + len > Len(pkt)
       THEN packetPc' = "overrun" /\ UNCHANGED <<pkt, fts>>
       ELSE /\ fts' = [fts EXCEPT !.phrase = phrase]
            /\ pkt' = <<1>> \o Two(len) \o Inverted(phrase) \o SubSeq(pkt, start + 3 + len, Len(pkt))
            /\ packetPc' = "init"
  /\ UNCHANGED <<in, whole, taken, from>>

\* messageLen+3 >= len(pkt)
Nameless(p) == Number(p, 2) + 3 >= Len(p)

\* Wrong form: the last byte of the phrase counts.
NameStartEarly(p) == 3 + Number(p, 2)
\* 3+messageLen, counted from 1
NameStart(p) == 4 + Number(p, 2)

\* unpackInit; a packet without a name is passed over.
UnpackInit ==
  LET len == Number(pkt, 2) IN
  /\ packetPc = "init"
  /\ IF pkt[1] # 1 \/ Nameless(pkt)
       THEN packetPc' = "ignored" /\ UNCHANGED taken
       ELSE /\ taken' = [phrase |-> SubSeq(pkt, 4, 3 + len), name |-> SubSeq(pkt, NameStart(pkt), Len(pkt))]
            /\ packetPc' = "taken"
  /\ UNCHANGED <<in, pkt, whole, fts, room, from>>

-----------------------------------------------------------------------------
(* 0x02 and 0x03                                                           *)

\* b'\x02'+tcpPort.to_bytes(2,byteorder='big')+recoded; it, or one that looks like it,
\* comes to the FTS from the FSS's address or another, and its port or another.
Respond ==
  /\ packetPc = "taken"
  /\ \E tcp \in FssTcp : pkt' = <<2>> \o Two(tcp) \o taken.phrase
  /\ from' \in [addr : {"fss", "other"}, port : {"fss", "other"}]
  /\ packetPc' = "responded"
  /\ UNCHANGED <<in, whole, fts, room, taken>>

\* The two addresses are compared as pointers to the one buffer of inet_ntoa.
FromFss == from.port = "fss"

\* unpackResponse: the port, and as many bytes of the phrase as were sent.
UnpackResponse ==
  LET n == Len(fts.phrase)
      decoded == Inverted(SubSeq(pkt, 4, 3 + n))
  IN
  /\ packetPc = "responded"
  /\ IF FromFss /\ pkt[1] = 2 /\ Number(pkt, 2) \in Port /\ decoded = fts.phrase
       THEN fts' = [fts EXCEPT !.tcp = Number(pkt, 2)] /\ packetPc' = "unpacked"
       ELSE packetPc' = "failed" /\ UNCHANGED fts
  /\ UNCHANGED <<in, pkt, whole, room, taken, from>>

\* ftsPort+TOTAL_SOCKETS-1
TcpPort == ftsPort + 1001 - 1

\* makeTCPSocket fails on a port out of range, or as the system decides.
MakeTCPSocket == {FALSE} \cup {TcpPort \in Port}

\* Wrong form: the terminator is sent too.
ValidationSizeNul == 4 + Len(fts.phrase)
\* 3+messageLen
ValidationSize == 3 + Len(fts.phrase)

\* craftValidation, the listening socket, and the 0x03; calloc cleared what is not set.
CraftValidation ==
  LET v == <<3>> \o Two(TcpPort) \o fts.phrase \o <<0>> IN
  /\ packetPc = "unpacked"
  /\ \E made \in MakeTCPSocket :
       IF made THEN pkt' = SubSeq(v, 1, ValidationSize) /\ packetPc' = "validated"
               ELSE packetPc' = "failed" /\ UNCHANGED pkt
  /\ UNCHANGED <<in, whole, fts, room, taken, from>>

\* By how many ports C2 has gone on when the 0x03 comes: more than one is as one.
LateBy == 0 .. 1

\* requestTransfer: 0.2 s after it asked a port C2 asks the next, and throws away what then
\* comes from another port than that; after the last it has closed its socket.
RequestTransfer ==
  /\ packetPc = "validated"
  /\ \E n \in LateBy :
       LET asked == ftsPort + n IN packetPc' = IF ftsPort # asked THEN "passed" ELSE "answered"
  /\ UNCHANGED <<in, pkt, whole, fts, room, taken, from>>

\* unpackValidation
UnpackValidation ==
  /\ packetPc = "answered"
  /\ packetPc' = IF /\ pkt[1] = 3 /\ Number(pkt, 2) \in Port
              /\ SubSeq(pkt, 4, Len(pkt)) = req.phrase
             THEN "connects" ELSE "rejected"
  /\ UNCHANGED <<in, pkt, whole, fts, room, taken, from>>

Over ==
  /\ packetPc \in {"refused", "overrun", "ignored", "failed", "passed", "connects", "rejected"}
  /\ UNCHANGED packetVars

PacketNext ==
  \/ CraftRequest \/ ScrapeAddr \/ ScrapePattern \/ ScrapeMessage \/ UnpackInit
  \/ Respond \/ UnpackResponse \/ CraftValidation \/ RequestTransfer \/ UnpackValidation
  \/ Over

PacketSpec == PacketInit /\ [][PacketNext]_packetVars

-----------------------------------------------------------------------------

Fits == whole <= PacketSize

\* Three programs lay out and cut up these packets by their own arithmetic on lengths of
\* one and two bytes: a request that fits in one read reaches the FSS with the phrase,
\* the name, the address and the port that C2 was given.
Arrives ==
  (packetPc = "taken" /\ Fits) =>
    /\ taken.name = req.name /\ Inverted(taken.phrase) = req.phrase
    /\ fts.addr = req.addr /\ fts.port = req.port /\ fts.pattern = req.pattern

\* Only a request that recvfrom cut short makes scrapeMessage pass its end
\* (udpHandler.c:102-107); none of a phrase and name that fit does.
OverrunOnlyIfCut == packetPc = "overrun" => ~Fits

\* init is filled to its last byte and no further, and message has a zero after the
\* phrase, which encode takes for a string (fts.c:414-415).
RoomEnough ==
  packetPc = "init" => Len(pkt) = room.init /\ Len(fts.phrase) < room.message

\* Of the 0x03s of a session that took the 0x02 for its own, C2 throws away the ones that come
\* too late (udpHandler.py:142-149), and no other: that packet's size, port and phrase pass
\* unpackValidation, and C2 connects where the FTS listens.  One that is not taken leaves the
\* session in accept() for good (fts.c:598).
InTimeTaken ==
  /\ packetPc # "rejected"
  /\ packetPc = "connects" => Number(pkt, 2) = TcpPort
=============================================================================
