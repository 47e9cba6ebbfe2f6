------------------------------ MODULE DataPath ------------------------------
(***************************************************************************)
(* The bytes of a file from C2's connection through the temporary file of  *)
(* the session (fts.c) to the FSS's file (recvFile in tcpHandler.py).      *)
(*                                                                         *)
(* TCP keeps bytes in order and may cut them anywhere: a read or recv      *)
(* returns some of what is there.  A byte is its place in the file, 0 for  *)
(* a zero the program put there and Wrong for what another option than the *)
(* encoder's makes of it.  Names, time-outs and failing calls are in       *)
(* Transfer, what an option does to a byte in PhraseEcho.                  *)
(***************************************************************************)
EXTENDS Integers, SequencesExt

CONSTANTS
  Files,     \* files C2 may send: sequences of "text", "nul", "lead" and "tail"
  MaxSize,   \* MAX_SIZE and the size given to recv, 1450 in the code
  Lens       \* lengths of the two options of the pattern

\* "lead" and "tail" are the bytes of a character of two bytes.
ASSUME DataPathAssumption ==
  /\ Files \subseteq Seq({"text", "nul", "lead", "tail"})
  /\ MaxSize \in Nat \ {0}
  /\ Lens \in Seq(Nat \ {0}) /\ Len(Lens) = 2

Wrong == -1

VARIABLES
  file,
  pc,        \* the session: "read", "send", "closed"
  read,      \* bytes read from C2: totalrcvd
  data,      \* the receive buffer, without its last byte, which is always 0
  temp,      \* /tmp/<port>
  sent,      \* bytes of it encoded and sent
  wire,      \* the connection to the FSS: byte, and its place in its chunk
  fss,       \* recvFile: "recv", "done", "ended"
  stored,    \* what it wrote
  aligned    \* auxiliary: each recv began at the first byte of a chunk and ended in it

ftsVars == <<pc, read, data, temp, sent>>
vars == <<file, ftsVars, wire, fss, stored, aligned>>

IsNul(b) == b = 0 \/ file[b] = "nul"

\* strlen(data), of a buffer that is followed by a 0.
StrLen(d) == CHOOSE k \in 0 .. Len(d) :
  (\A i \in 1 .. k : ~IsNul(d[i])) /\ (k < Len(d) => IsNul(d[k + 1]))

\* The option for place j of a string that is encoded or decoded by itself.
OptionAt(j) == j % (Lens[1] + Lens[2]) < Lens[1]

Init ==
  /\ file \in Files
  /\ pc = "read" /\ read = 0 /\ temp = <<>> /\ sent = 0
  /\ data = [i \in 1 .. MaxSize |-> 0]
  /\ wire = <<>> /\ fss = "recv" /\ stored = <<>> /\ aligned = TRUE

-----------------------------------------------------------------------------
(* transferSession.                                                        *)

\* Wrong form: nothing is zeroed.
ZeroNothing(d) == d

\* memset(&data[0],0,strlen(data)): up to the first NUL.
Zero(d) == [i \in DOMAIN d |-> IF i <= StrLen(d) THEN 0 ELSE d[i]]

\* rcvd = read(ctwoSock,data,MAX_SIZE); fputs(data,temp); the memset.
Read ==
  /\ pc = "read"
  /\ \E k \in 1 .. MaxSize :
       LET d == [i \in DOMAIN data |-> IF i <= k THEN read + i ELSE data[i]] IN
       /\ read + k <= Len(file)
       /\ read' = read + k
       /\ temp' = temp \o SubSeq(d, 1, StrLen(d))
       /\ data' = Zero(d)
  /\ UNCHANGED <<file, pc, sent, wire, fss, stored, aligned>>

\* read gives 0: C2 has closed the connection.
ReadEnds ==
  /\ pc = "read" /\ read = Len(file)
  /\ pc' = "send"
  /\ UNCHANGED <<file, read, data, temp, sent, wire, fss, stored, aligned>>

\* Wrong form: fread of one element of MAX_SIZE bytes, which a short rest is not.
ChunkWhole ==
  IF sent + MaxSize <= Len(temp) THEN SubSeq(temp, sent + 1, sent + MaxSize) ELSE <<>>

\* fread(raw,sizeof(unsigned char),MAX_SIZE,tmp)
Chunk == SubSeq(temp, sent + 1, IF sent + MaxSize < Len(temp) THEN sent + MaxSize ELSE Len(temp))

\* encode(raw,parsed): the pattern starts again with each chunk.
Coded(c) == [i \in DOMAIN c |-> <<c[i], i - 1>>]

\* sent += pktSize; nothing when the file has no more.
SentAfter(c) == sent + Len(c)

Send ==
  /\ pc = "send" /\ sent < read
  /\ wire' = wire \o Coded(Chunk)
  /\ sent' = SentAfter(Chunk)
  /\ UNCHANGED <<file, pc, read, data, temp, fss, stored, aligned>>

SendEnds ==
  /\ pc = "send" /\ sent >= read
  /\ pc' = "closed"
  /\ UNCHANGED <<file, read, data, temp, sent, wire, fss, stored, aligned>>

-----------------------------------------------------------------------------
(* recvFile.                                                               *)

\* Wrong form: the decoder counts from one.
DecodedFromOne(seg) ==
  [i \in DOMAIN seg |-> IF OptionAt(seg[i][2]) = OptionAt(i) THEN seg[i][1] ELSE Wrong]

\* self.enc.decode(pkt): the pattern starts again with each packet.
Decoded(seg) ==
  [i \in DOMAIN seg |-> IF OptionAt(seg[i][2]) = OptionAt(i - 1) THEN seg[i][1] ELSE Wrong]

\* plainBytes.decode() for what was decoded right: whole characters.
Whole(bytes) == file[bytes[1]] # "tail" /\ file[Last(bytes)] # "lead"

\* f.write(self.enc.decode(pkt)); None, when it is no text, ends recvFile with -1,
\* and the FSS.  Wrong bytes may be text or not.
Receive ==
  /\ fss = "recv"
  /\ \E k \in 1 .. MaxSize :
       LET seg == SubSeq(wire, 1, k)
           bytes == Decoded(seg)
           good == \A i \in DOMAIN bytes : bytes[i] # Wrong
       IN
       /\ k <= Len(wire)
       /\ wire' = SubSeq(wire, k + 1, Len(wire))
       /\ aligned' = (aligned /\ \A i \in 1 .. k : seg[i][2] = i - 1)
       /\ \/ /\ good => Whole(bytes)
             /\ stored' = stored \o bytes /\ UNCHANGED fss
          \/ /\ good => ~Whole(bytes)
             /\ fss' = "ended" /\ UNCHANGED stored
  /\ UNCHANGED <<file, ftsVars>>

\* The connection was closed, or two seconds passed without a byte.
ReceiveEnds ==
  /\ fss = "recv" /\ wire = <<>> /\ (pc = "closed" \/ stored # <<>>)
  /\ fss' = "done"
  /\ UNCHANGED <<file, ftsVars, wire, stored, aligned>>

Stopped == pc = "closed" /\ fss # "recv" /\ UNCHANGED vars

Next == Read \/ ReadEnds \/ Send \/ SendEnds \/ Receive \/ ReceiveEnds \/ Stopped

Spec == Init /\ [][Next]_vars

\* C2 sends its whole file, and the session's thread runs.
FairSpec == Spec /\ WF_vars(Read \/ ReadEnds) /\ WF_vars(Send \/ SendEnds)

-----------------------------------------------------------------------------

NulFree == \A i \in DOMAIN file : file[i] # "nul"

\* The first n bytes of the file.
FirstBytes(n) == [i \in 1 .. n |-> i]

\* However the data arrives, a file without NUL is in the temporary file as it was
\* read: no byte is left in the buffer to be written twice.
TempIsRead == NulFree => temp = FirstBytes(read)

\* The FSS stores the beginning of what is in the temporary file, as long as each recv
\* gets the bytes of one send, from its first: encoder and decoder then start the
\* pattern together.
StoredIfAligned == aligned => IsPrefix(stored, temp)

\* The send loop ends: what was counted when reading is what it finds in the file.
SendLoopEnds == NulFree => <>(pc = "closed")

\* No byte is written to the temporary file twice, though a byte behind a NUL stays in
\* the buffer: it has not been written yet, and is zeroed once it is.
WrittenOnce == \A i, j \in DOMAIN temp : i # j => temp[i] # temp[j]

\* "Prepares to receive the file and saves it to the designated path"
\* (tcpHandler.py:54): of a file of plain text nothing else than its bytes is saved.
SavesTheFile == (\A i \in DOMAIN file : file[i] = "text") => IsPrefix(stored, FirstBytes(Len(file)))
=============================================================================
