--------------------------- MODULE TransferProofs ---------------------------
(***************************************************************************)
(* Theorems about Transfer, for any clients, names, ports, phrases and     *)
(* file sizes: who owns a port and answers a client, whose data the FSS    *)
(* stores and how much of it, and which phrase guards a connection.        *)
(***************************************************************************)
EXTENDS Transfer, SequenceTheorems, TLAPS

\* What the assumption on the constants says of ports and of the initial records.
LEMMA ConstantFacts ==
  /\ NumPorts \in Nat /\ NumPorts >= 1
  /\ NoPort = NumPorts /\ Port = 0 .. NumPorts - 1
  /\ 0 \in Port /\ 0 \in 0 .. NumPorts
  /\ AnyName \in Name
  /\ FreeSession \in SessionState
  /\ FreeSession.pc = "free"
  /\ \A n \in Nat : IdleFss(n) \in FssState
  /\ None \notin Client
  /\ Kept \in [Client -> Nat] /\ Size \in [Client -> Nat]
<1>1. AnyName \in Name
  BY TransferAssumption DEF AnyName
<1> QED
  BY <1>1, TransferAssumption
     DEF NoPort, Port, FreeSession, SessionState, SessionPcs, IdleFss, FssState, FssPcs

\* A queue stays a queue when a message is added, lost or taken.
LEMMA QueueFacts ==
  ASSUME NEW M, NEW q \in Seq(M)
  PROVE  /\ \A m \in M : \A up : \A r \in Send(q, m, up) : r \in Seq(M)
         /\ q # <<>> => Head(q) \in M /\ Tail(q) \in Seq(M)
<1>1. \A m \in M : Append(q, m) \in Seq(M)
  BY AppendProperties
<1>2. \A m \in M : \A up : Send(q, m, up) \subseteq {q, Append(q, m)}
  BY DEF Send
<1> QED
  BY <1>1, <1>2, HeadTailProperties

\* Each part of TypeOK is kept by a step that leaves its variables alone.
LEMMA C2Unchanged == C2TypeOK /\ UNCHANGED c2Vars => C2TypeOK'
BY DEF C2TypeOK, c2Vars

\* The same for the FTS.
LEMMA FtsUnchanged == FtsTypeOK /\ UNCHANGED ftsVars => FtsTypeOK'
BY DEF FtsTypeOK, ftsVars

\* The same for the FSS.
LEMMA FssUnchanged == FssTypeOK /\ UNCHANGED fssVars => FssTypeOK'
BY DEF FssTypeOK, fssVars

\* A client that has not given up is at a port.
LEMMA AtPort ==
  ASSUME C2TypeOK, NEW c \in Client, c2[c].pc # "failed"
  PROVE  c2[c] \in C2State /\ c2[c].port \in Port /\ c2[c].port # NoPort
<1>1. c2[c] \in C2State /\ c2[c].port # NoPort
  BY DEF C2TypeOK
<1>2. c2[c].port \in 0 .. NumPorts
  BY <1>1 DEF C2State
<1> QED
  BY <1>1, <1>2, ConstantFacts

\* The port after the last is only reached by giving up.
LEMMA NextPortType ==
  ASSUME C2TypeOK, NEW c \in Client, c2[c].pc = "wait"
  PROVE  /\ NextPort(c) \in C2State
         /\ NextPort(c).port = NoPort => NextPort(c).pc = "failed"
         /\ \A n \in Name : [NextPort(c) EXCEPT !.name = n] \in C2State
         /\ \A a \in AfterExists(c) :
              a \in C2State /\ (a.port = NoPort => a.pc = "failed")
<1> USE ConstantFacts
<1>1. c2[c] \in C2State /\ c2[c].port # NoPort
  BY DEF C2TypeOK
<1>2. c2[c].port + 1 \in 0 .. NumPorts
  BY <1>1 DEF C2State
<1>3. NextPort(c) \in C2State
  BY <1>1, <1>2 DEF NextPort, C2State, C2Pcs
<1>4. NextPort(c).port = NoPort => NextPort(c).pc = "failed"
  BY <1>1, <1>2 DEF NextPort, C2State
<1>5. \A n \in Name : LET a == [NextPort(c) EXCEPT !.name = n] IN
        a \in C2State /\ (a.port = NoPort => a.pc = "failed")
  BY <1>3, <1>4 DEF C2State
<1>6. LET a == [c2[c] EXCEPT !.pc = "failed"] IN
        a \in C2State /\ (a.port = NoPort => a.pc = "failed")
  BY <1>1 DEF C2State, C2Pcs
<1> QED
  BY <1>3, <1>4, <1>5, <1>6 DEF AfterExists

\* A client that is at a port may go on to any point.
LEMMA C2Move ==
  ASSUME C2TypeOK, NEW c \in Client, c2[c].port # NoPort, NEW v \in C2Pcs,
         c2' = [c2 EXCEPT ![c].pc = v], UNCHANGED c2In
  PROVE  C2TypeOK'
<1>1. [c2[c] EXCEPT !.pc = v] \in C2State
  BY DEF C2TypeOK, C2State
<1>2. c2' \in [Client -> C2State]
  BY <1>1 DEF C2TypeOK
<1>3. \A d \in Client : c2'[d].port = NoPort => c2'[d].pc = "failed"
  BY DEF C2TypeOK, C2State
<1> QED
  BY <1>2, <1>3 DEF C2TypeOK

\* What a session of the FTS may become.
SessionOK(r) == r \in SessionState /\ (r.pc \in {"forward", "wait"} => r.client # None)

\* A session may become any other, and the queues stay queues of answers.
LEMMA SessionMove ==
  ASSUME FtsTypeOK, NEW p \in Port, NEW r, SessionOK(r), ses' = [ses EXCEPT ![p] = r],
         ftsIn' \in [Port -> Seq(Answer)], UNCHANGED ftsUp
  PROVE  FtsTypeOK'
BY DEF FtsTypeOK, SessionOK

\* sendFile, but for the passes of its loop in which nothing happens.
Sends(c) == SendFile(c) \/ SendBreaks(c)

\* What sendFile does to its client and to the session that reads the connection.
LEMMA SendsOnly ==
  ASSUME C2TypeOK, FtsTypeOK, NEW c \in Client, Sends(c)
  PROVE  /\ c2[c].pc \in {"stream", "resend"} /\ c2[c].port \in Port
         /\ UNCHANGED <<c2In, ftsIn, ftsUp, fssVars>>
         /\ \E v \in {"resend", "done", "failed"} :
              c2' = [c2 EXCEPT ![c].pc = v] /\ (c2[c].pc = "resend" => v = "failed")
         /\ \/ UNCHANGED ses
            \/ /\ Reads(c)
               /\ \E k \in Nat, b \in BOOLEAN :
                    ses' = [ses EXCEPT ![c2[c].port] = [@ EXCEPT !.spool = k, !.closed = b]]
<1> USE ConstantFacts
<1>1. c2[c].pc \in {"stream", "resend"} /\ UNCHANGED <<c2In, ftsIn, ftsUp, fssVars>>
  BY DEF Sends, SendFile, SendBreaks
<1>2. c2[c].port \in Port
  BY <1>1, AtPort
<1>3. \E v \in {"resend", "done", "failed"} :
        c2' = [c2 EXCEPT ![c].pc = v] /\ (c2[c].pc = "resend" => v = "failed")
  BY DEF Sends, SendFile, SendBreaks
<1>4. \E k \in Nat, b \in BOOLEAN : ses' = Delivered(c, k, b)
  <2>1. ses[c2[c].port].spool \in Nat
    BY <1>2 DEF FtsTypeOK, SessionState
  <2>2. Size[c] \in Nat /\ \A k \in 1 .. Size[c] - 1 : k \in Nat
    OBVIOUS
  <2>3. CASE SendFile(c)
    BY <2>2, <2>3 DEF SendFile
  <2>4. CASE SendBreaks(c)
    BY <2>1, <2>4 DEF SendBreaks
  <2> QED
    BY <2>3, <2>4 DEF Sends
<1> QED
  BY <1>1, <1>2, <1>3, <1>4 DEF Delivered

\* The steps of C2 keep TypeOK.
LEMMA C2Type ==
  ASSUME C2TypeOK, FtsTypeOK, FssTypeOK, NEW c \in Client, C2(c)
  PROVE  TypeOK'
<1> USE ConstantFacts
<1>1. CASE Request(c)
  <2>1. c2[c] \in C2State /\ c2[c].port \in Port /\ c2[c].port # NoPort
    BY <1>1, AtPort DEF Request
  <2>2. C2TypeOK'
    BY <1>1, <2>1, C2Move DEF Request, C2Pcs
  <2>3. FtsTypeOK'
    <3> DEFINE m == [type |-> "request", client |-> c, name |-> c2[c].name, conn |-> 0]
    <3>1. m \in Answer
      BY <2>1 DEF Answer, C2State
    <3>2. ftsIn' \in [Port -> Seq(Answer)]
      <4>1. PICK q \in Send(ftsIn[c2[c].port], m, ftsUp) :
              ftsIn' = [ftsIn EXCEPT ![c2[c].port] = q]
        BY <1>1 DEF Request
      <4>2. ftsIn[c2[c].port] \in Seq(Answer)
        BY <2>1 DEF FtsTypeOK
      <4>3. q \in Seq(Answer)
        BY <3>1, <4>1, <4>2, QueueFacts
      <4> QED
        BY <2>1, <4>1, <4>3 DEF FtsTypeOK
    <3> QED
      BY <1>1, <3>2 DEF Request, FtsTypeOK
  <2> QED
    BY <1>1, <2>2, <2>3, FssUnchanged DEF Request, TypeOK
<1>2. CASE RequestTimeout(c)
  <2>1. C2TypeOK'
    BY <1>2, NextPortType DEF RequestTimeout, C2TypeOK
  <2> QED
    BY <1>2, <2>1, FtsUnchanged, FssUnchanged DEF RequestTimeout, TypeOK
<1>3. CASE Response(c)
  <2>1. c2In' \in [Client -> Seq(AskC2)]
    BY <1>3, QueueFacts DEF Response, C2TypeOK
  <2>2. /\ c2' \in [Client -> C2State]
        /\ \A d \in Client : c2'[d].port = NoPort => c2'[d].pc = "failed"
    <3>1. c2[c].pc = "wait" /\ c2[c] \in C2State /\ c2[c].port # NoPort
      BY <1>3 DEF Response, C2TypeOK
    <3>2. CASE c2' = [c2 EXCEPT ![c] = NextPort(c)]
      BY <3>1, <3>2, NextPortType DEF C2TypeOK
    <3>3. CASE \E a \in AfterExists(c) : c2' = [c2 EXCEPT ![c] = a]
      BY <3>1, <3>3, NextPortType DEF C2TypeOK
    <3>4. ASSUME NEW v \in {"connect", "failed"}, c2' = [c2 EXCEPT ![c].pc = v]
          PROVE  /\ c2' \in [Client -> C2State]
                 /\ \A d \in Client : c2'[d].port = NoPort => c2'[d].pc = "failed"
      BY <3>1, <3>4 DEF C2TypeOK, C2State, C2Pcs
    <3> QED
      BY <1>3, <3>2, <3>3, <3>4 DEF Response
  <2> QED
    BY <1>3, <2>1, <2>2, FtsUnchanged, FssUnchanged DEF Response, C2TypeOK, TypeOK
<1>4. CASE Handshake(c)
  <2>1. c2[c].port \in Port /\ c2[c].port # NoPort
    BY <1>4, AtPort DEF Handshake
  <2>2. C2TypeOK'
    BY <1>4, <2>1, C2Move DEF Handshake, C2Pcs
  <2>3. FtsTypeOK'
    <3> DEFINE r == [ses[c2[c].port] EXCEPT !.from = c]
    <3>1. ses[c2[c].port].pc = "accept" => SessionOK(r)
      BY <2>1 DEF FtsTypeOK, SessionState, SessionOK
    <3>2. CASE UNCHANGED ses
      BY <1>4, <3>2, FtsUnchanged DEF Handshake, ftsVars
    <3>3. CASE ses[c2[c].port].pc = "accept" /\ ses' = [ses EXCEPT ![c2[c].port] = r]
      BY <1>4, <2>1, <3>1, <3>3, SessionMove DEF Handshake, FtsTypeOK
    <3> QED
      BY <1>4, <3>2, <3>3 DEF Handshake
  <2> QED
    BY <1>4, <2>2, <2>3, FssUnchanged DEF Handshake, TypeOK
<1>5. CASE Sends(c)
  <2>0. UNCHANGED <<c2In, ftsIn, ftsUp, fssVars>>
    BY <1>5, SendsOnly
  <2>1. c2[c].port \in Port /\ c2[c].port # NoPort
    <3>1. c2[c].port \in Port
      BY <1>5, SendsOnly
    <3> QED
      BY <3>1
  <2>2. C2TypeOK'
    <3>1. PICK v \in {"resend", "done", "failed"} :
            c2' = [c2 EXCEPT ![c].pc = v] /\ (c2[c].pc = "resend" => v = "failed")
      BY <1>5, SendsOnly
    <3>2. v \in C2Pcs /\ UNCHANGED c2In /\ c2' = [c2 EXCEPT ![c].pc = v]
      BY <2>0, <3>1 DEF C2Pcs
    <3> QED
      BY <2>1, <3>2, C2Move
  <2>3. FtsTypeOK'
    <3>1. CASE UNCHANGED ses
      BY <2>0, <3>1, FtsUnchanged DEF ftsVars
    <3>2. ASSUME NEW k \in Nat, NEW b \in BOOLEAN, Reads(c),
                 ses' = [ses EXCEPT ![c2[c].port] = [@ EXCEPT !.spool = k, !.closed = b]]
          PROVE  FtsTypeOK'
      <4> DEFINE r == [ses[c2[c].port] EXCEPT !.spool = k, !.closed = b]
      <4>1. SessionOK(r)
        BY <2>1, <3>2 DEF FtsTypeOK, SessionState, SessionOK, Reads
      <4>2. ses' = [ses EXCEPT ![c2[c].port] = r]
        BY <3>2
      <4> QED
        BY <2>0, <2>1, <4>1, <4>2, SessionMove DEF FtsTypeOK
    <3>3. \/ UNCHANGED ses
          \/ /\ Reads(c)
             /\ \E k \in Nat, b \in BOOLEAN :
                  ses' = [ses EXCEPT ![c2[c].port] = [@ EXCEPT !.spool = k, !.closed = b]]
      BY <1>5, SendsOnly
    <3> QED
      BY <3>1, <3>2, <3>3
  <2> QED
    BY <2>0, <2>2, <2>3, FssUnchanged DEF TypeOK
<1>6. CASE SendNothing(c)
  BY <1>6, C2Unchanged, FtsUnchanged, FssUnchanged DEF SendNothing, vars, TypeOK
<1> QED
  BY <1>1, <1>2, <1>3, <1>4, <1>5, <1>6 DEF C2, C2Goes, Sends

\* The steps of the FTS keep TypeOK.
LEMMA FtsType ==
  ASSUME C2TypeOK, FtsTypeOK, FssTypeOK, NEW p \in Port, Fts(p)
  PROVE  TypeOK'
<1> USE ConstantFacts
<1>1. ses[p] \in SessionState /\ ftsIn[p] \in Seq(Answer)
  BY DEF FtsTypeOK
<1>2. SessionOK(FreeSession)
  BY DEF SessionOK
<1>3. ftsIn[p] # <<>> =>
        /\ Head(ftsIn[p]) \in Answer
        /\ [ftsIn EXCEPT ![p] = Tail(@)] \in [Port -> Seq(Answer)]
  BY <1>1, QueueFacts DEF FtsTypeOK
<1>4. CASE Dispatch(p)
  <2> DEFINE m == Head(ftsIn[p])
             r == [ses[p] EXCEPT !.pc = "forward", !.client = m.client, !.name = m.name]
  <2>1. m \in Answer
    BY <1>3, <1>4 DEF Dispatch
  <2>2. m.client \in Client /\ m.name \in Name
    BY <2>1 DEF Answer
  <2>3. SessionOK(r)
    BY <1>1, <2>2 DEF SessionOK, SessionState, SessionPcs
  <2>4. ftsIn' \in [Port -> Seq(Answer)]
    BY <1>3, <1>4 DEF Dispatch
  <2>5. FtsTypeOK'
    <3>1. CASE ses' = [ses EXCEPT ![p] = r]
      BY <1>4, <2>3, <2>4, <3>1, SessionMove DEF Dispatch
    <3>2. CASE UNCHANGED ses
      BY <1>4, <2>4, <3>2 DEF Dispatch, FtsTypeOK
    <3> QED
      BY <1>4, <3>1, <3>2 DEF Dispatch
  <2> QED
    BY <1>4, <2>5, C2Unchanged, FssUnchanged DEF Dispatch, TypeOK
<1>5. CASE Forward(p)
  <2> DEFINE m == [port |-> p, client |-> ses[p].client, name |-> ses[p].name]
  <2>1. ses[p].client \in Client /\ ses[p].name \in Name
    BY <1>1, <1>5 DEF Forward, FtsTypeOK, SessionState
  <2>2. m \in AskFss
    BY <2>1 DEF AskFss
  <2>3. FssTypeOK'
    BY <1>5, <2>2, QueueFacts DEF Forward, FssTypeOK
  <2>4. SessionOK([ses[p] EXCEPT !.pc = "wait"])
    BY <1>1, <2>1 DEF SessionOK, SessionState, SessionPcs
  <2>5. FtsTypeOK'
    BY <1>5, <2>4, SessionMove DEF Forward, FtsTypeOK
  <2> QED
    BY <1>5, <2>3, <2>5, C2Unchanged DEF Forward, TypeOK
<1>6. ses[p].pc = "wait" => SessionOK(Fail(p))
  <2> SUFFICES ASSUME ses[p].pc = "wait" PROVE SessionOK(Fail(p))
    OBVIOUS
  <2>1. ses[p].fails \in 0 .. 2 /\ ses[p].client # None
    BY <1>1 DEF FtsTypeOK, SessionState
  <2>2. CASE ses[p].fails + 1 = 3
    BY <1>2, <2>2 DEF Fail
  <2>3. CASE ses[p].fails + 1 # 3
    <3>1. ses[p].fails + 1 \in 0 .. 2
      BY <2>1, <2>3
    <3>2. [ses[p] EXCEPT !.fails = @ + 1] \in SessionState
      BY <1>1, <3>1 DEF SessionState
    <3> QED
      BY <1>1, <2>1, <2>3, <3>2 DEF Fail, SessionOK, SessionState
  <2> QED
    BY <2>2, <2>3
<1>7. CASE Silence(p)
  <2>1. FtsTypeOK'
    BY <1>6, <1>7, SessionMove DEF Silence, FtsTypeOK
  <2> QED
    BY <1>7, <2>1, C2Unchanged, FssUnchanged DEF Silence, TypeOK
<1>8. CASE Hear(p)
  <2> DEFINE m == Head(ftsIn[p])
             c == ses[p].client
             r == [ses[p] EXCEPT !.pc = "accept", !.conn = m.conn]
  <2>1. ses[p].pc = "wait" /\ m \in Answer /\ ftsIn' \in [Port -> Seq(Answer)]
    BY <1>3, <1>8 DEF Hear
  <2>2. c \in Client /\ m.client \in Client /\ m.conn \in Nat
    BY <1>1, <2>1 DEF FtsTypeOK, SessionState, Answer
  <2>3. SessionOK(r)
    BY <1>1, <2>2 DEF SessionOK, SessionState, SessionPcs
  <2>4. FtsTypeOK'
    <3>1. CASE ses' = [ses EXCEPT ![p] = FreeSession]
      BY <1>2, <1>8, <2>1, <3>1, SessionMove DEF Hear
    <3>2. CASE ses' = [ses EXCEPT ![p] = r]
      BY <1>8, <2>1, <2>3, <3>2, SessionMove DEF Hear
    <3>3. CASE ses' = [ses EXCEPT ![p] = Fail(p)]
      BY <1>6, <1>8, <2>1, <3>3, SessionMove DEF Hear
    <3> QED
      BY <1>8, <3>1, <3>2, <3>3 DEF Hear
  <2>5. C2TypeOK'
    <3>1. ASSUME NEW k \in AskC2, \E q \in Send(c2In[c], k, Asking(c)) :
                                    c2In' = [c2In EXCEPT ![c] = q]
          PROVE  c2In' \in [Client -> Seq(AskC2)]
      BY <2>2, <3>1, QueueFacts DEF C2TypeOK
    <3>2. \A v \in {"exists", "validation"}, d \in Client :
            [type |-> v, port |-> p, phrase |-> Phrase[d]] \in AskC2
      BY DEF AskC2
    <3>3. c2In' \in [Client -> Seq(AskC2)]
      <4>1. CASE UNCHANGED c2In
        BY <4>1 DEF C2TypeOK
      <4>2. CASE \E q \in Send(c2In[c], [type |-> "exists", port |-> p, phrase |-> Phrase[c]],
                               Asking(c)) : c2In' = [c2In EXCEPT ![c] = q]
        BY <2>2, <3>1, <3>2, <4>2
      <4>3. CASE \E q \in Send(c2In[c], [type |-> "validation", port |-> p,
                                         phrase |-> Decoded(p, m)],
                               Asking(c)) : c2In' = [c2In EXCEPT ![c] = q]
        <5>1. \E d \in Client : Decoded(p, m) = Phrase[d]
          BY <2>1, <2>2 DEF Decoded
        <5> QED
          BY <2>2, <3>1, <3>2, <4>3, <5>1
      <4> QED
        BY <1>8, <4>1, <4>2, <4>3 DEF Hear
    <3> QED
      BY <1>8, <3>3 DEF Hear, C2TypeOK
  <2> QED
    BY <1>8, <2>4, <2>5, FssUnchanged DEF Hear, TypeOK
<1>9. CASE Dial(p)
  <2>1. SessionOK([ses[p] EXCEPT !.pc = "relay"])
    BY <1>1 DEF SessionOK, SessionState, SessionPcs
  <2>2. FtsTypeOK'
    BY <1>2, <1>9, <2>1, SessionMove DEF Dial, FtsTypeOK
  <2>3. ses[p].from \in Client \cup {None}
    BY <1>1 DEF SessionState
  <2>4. [fss EXCEPT !.from = ses[p].from] \in FssState
    BY <2>3 DEF FssTypeOK, FssState
  <2>5. FssTypeOK'
    BY <1>9, <2>4 DEF Dial, FssTypeOK
  <2> QED
    BY <1>9, <2>2, <2>5, C2Unchanged DEF Dial, TypeOK
<1>13. CASE SpoolFails(p)
  <2>1. FtsTypeOK'
    BY <1>2, <1>13, SessionMove DEF SpoolFails, FtsTypeOK
  <2> QED
    BY <1>13, <2>1, C2Unchanged, FssUnchanged DEF SpoolFails, TypeOK
<1>10. /\ [fss EXCEPT !.pipe = @ + 1] \in FssState
       /\ \A b \in BOOLEAN : [fss EXCEPT !.closed = b] \in FssState
  <2>0. fss \in FssState
    BY DEF FssTypeOK
  <2>a. fss.pipe \in Nat
    BY <2>0 DEF FssState
  <2>1. fss \in FssState /\ fss.pipe + 1 \in Nat
    BY <2>0, <2>a
  <2>2. [fss EXCEPT !.pipe = @ + 1] \in FssState
    BY <2>1 DEF FssState
  <2>3. \A b \in BOOLEAN : [fss EXCEPT !.closed = b] \in FssState
    BY <2>1 DEF FssState
  <2> QED
    BY <2>2, <2>3
<1>11. CASE Relay(p)
  <2> DEFINE r == [ses[p] EXCEPT !.sent = @ + 1]
  <2>1. SessionOK(r)
    <3>1. ses[p].sent + 1 \in Nat /\ ses[p].pc = "relay"
      BY <1>1, <1>11 DEF Relay, SessionState
    <3>2. r \in SessionState /\ r.pc = "relay"
      BY <1>1, <3>1 DEF SessionState
    <3> QED
      BY <3>2 DEF SessionOK
  <2>2. FtsTypeOK'
    <3>1. CASE ses' = [ses EXCEPT ![p] = r] /\ UNCHANGED <<ftsIn, ftsUp>>
      BY <2>1, <3>1, SessionMove DEF FtsTypeOK
    <3>2. CASE ses' = [q \in Port |-> FreeSession] /\ ftsIn' = [q \in Port |-> <<>>]
               /\ ftsUp' = FALSE
      <4>1. <<>> \in Seq(Answer)
        BY EmptySeq
      <4>2. ftsIn' \in [Port -> Seq(Answer)] /\ ftsUp' \in BOOLEAN
        BY <3>2, <4>1
      <4>3. ses' \in [Port -> SessionState] /\ \A q \in Port : ses'[q].pc = "free"
        BY <1>2, <3>2 DEF SessionOK
      <4> QED
        BY <4>2, <4>3 DEF FtsTypeOK
    <3>3. CASE ses' = [ses EXCEPT ![p] = FreeSession] /\ UNCHANGED <<ftsIn, ftsUp>>
      BY <1>2, <3>3, SessionMove DEF FtsTypeOK
    <3> QED
      BY <1>11, <3>1, <3>2, <3>3 DEF Relay, Advance
  <2>3. fss' \in FssState
    BY <1>10, <1>11 DEF Relay, FssTypeOK
  <2>4. FssTypeOK'
    BY <1>11, <2>3 DEF Relay, FssTypeOK
  <2> QED
    BY <1>11, <2>2, <2>4, C2Unchanged DEF Relay, TypeOK
<1>12. CASE RelayEnds(p)
  <2>1. FtsTypeOK'
    BY <1>2, <1>12, SessionMove DEF RelayEnds, FtsTypeOK
  <2>2. FssTypeOK'
    BY <1>10, <1>12 DEF RelayEnds, FssTypeOK
  <2> QED
    BY <1>12, <2>1, <2>2, C2Unchanged DEF RelayEnds, TypeOK
<1> QED
  BY <1>4, <1>5, <1>7, <1>8, <1>9, <1>11, <1>12, <1>13 DEF Fts

\* The steps of the FSS keep TypeOK.
LEMMA FssType ==
  ASSUME C2TypeOK, FtsTypeOK, FssTypeOK, Fss
  PROVE  TypeOK'
<1> USE ConstantFacts
<1>1. fss \in FssState /\ fssIn \in Seq(AskFss)
  BY DEF FssTypeOK
<1>2. fss.name \in Name /\ fss.conn \in Nat /\ fss.pipe \in Nat /\ fss.rcvd \in Nat
      /\ fss.from \in Client \cup {None} /\ fss.by \in Client \cup {None}
  BY <1>1 DEF FssState
<1>3. /\ [IdleFss(fss.conn) EXCEPT !.pc = "exited"] \in FssState
      /\ IdleFss(fss.conn) \in FssState
      /\ <<>> \in Seq(AskFss)
  <2>1. IdleFss(fss.conn) \in FssState
    BY <1>2
  <2>2. [IdleFss(fss.conn) EXCEPT !.pc = "exited"] \in FssState
    BY <2>1 DEF FssState, FssPcs
  <2> QED
    BY <2>1, <2>2, EmptySeq
<1>4. Exit => fss' \in FssState /\ fssIn' \in Seq(AskFss)
  BY <1>3 DEF Exit
<1>5. CASE Serve
  <2> DEFINE m == Head(fssIn)
             r == [fss EXCEPT !.pc = "listen", !.name = m.name, !.by = m.client, !.conn = @ + 1]
             no == [type |-> "exists", client |-> m.client, name |-> m.name, conn |-> 0]
             yes == [type |-> "accept", client |-> m.client, name |-> m.name,
                     conn |-> fss.conn + 1]
  <2>1. m \in AskFss /\ Tail(fssIn) \in Seq(AskFss)
    BY <1>1, <1>5, QueueFacts DEF Serve
  <2>2. m.port \in Port /\ m.client \in Client /\ m.name \in Name
    BY <2>1 DEF AskFss
  <2>a. fss.conn + 1 \in Nat
    BY <1>2
  <2>3. r \in FssState
    BY <1>1, <2>2, <2>a DEF FssState, FssPcs
  <2>4. no \in Answer /\ yes \in Answer
    BY <1>2, <2>2 DEF Answer
  <2>5. fss' \in FssState /\ fssIn' \in Seq(AskFss)
    BY <1>1, <1>4, <1>5, <2>1, <2>3 DEF Serve
  <2>6. ftsIn' \in [Port -> Seq(Answer)]
    <3>1. ASSUME NEW a \in Answer, \E q \in Send(ftsIn[m.port], a, ftsUp) :
                                     ftsIn' = [ftsIn EXCEPT ![m.port] = q]
          PROVE  ftsIn' \in [Port -> Seq(Answer)]
      BY <2>2, <3>1, QueueFacts DEF FtsTypeOK
    <3>2. CASE UNCHANGED ftsIn
      BY <3>2 DEF FtsTypeOK
    <3> QED
      BY <1>5, <2>4, <3>1, <3>2 DEF Serve
  <2>7. FtsTypeOK' /\ FssTypeOK'
    BY <1>5, <2>5, <2>6 DEF Serve, FtsTypeOK, FssTypeOK
  <2> QED
    BY <1>5, <2>7, C2Unchanged DEF Serve, TypeOK
<1>6. CASE Accept
  <2>1. [fss EXCEPT !.pc = "receive"] \in FssState
    BY <1>1 DEF FssState, FssPcs
  <2>2. FssTypeOK'
    BY <1>2, <1>6, <2>1 DEF Accept, FssTypeOK
  <2> QED
    BY <1>6, <2>2, C2Unchanged, FtsUnchanged DEF Accept, TypeOK
<1>7. CASE AcceptTimeout
  <2>1. FssTypeOK'
    BY <1>4, <1>7 DEF AcceptTimeout, FssTypeOK
  <2> QED
    BY <1>7, <2>1, C2Unchanged, FtsUnchanged DEF AcceptTimeout, TypeOK
<1>8. CASE ReceiveUnit
  <2>1. fss.pipe - 1 \in Nat /\ fss.rcvd + 1 \in Nat
    BY <1>2, <1>8 DEF ReceiveUnit
  <2>2. [fss EXCEPT !.pipe = @ - 1, !.rcvd = @ + 1] \in FssState
    BY <1>1, <2>1 DEF FssState
  <2>3. fss' \in FssState /\ fssIn' \in Seq(AskFss)
    BY <1>1, <1>4, <1>8, <2>2 DEF ReceiveUnit
  <2>4. got[fss.name] + 1 \in Nat
    BY <1>2 DEF FssTypeOK
  <2>5. got' \in [Name -> Nat]
    BY <1>2, <1>8, <2>4 DEF ReceiveUnit, FssTypeOK
  <2>6. FssTypeOK'
    BY <1>8, <2>3, <2>5 DEF ReceiveUnit, FssTypeOK
  <2> QED
    BY <1>8, <2>6, C2Unchanged, FtsUnchanged DEF ReceiveUnit, TypeOK
<1>9. CASE ReceiveEnds
  <2>1. fss' \in FssState /\ fssIn' \in Seq(AskFss)
    BY <1>1, <1>3, <1>4, <1>9 DEF ReceiveEnds
  <2>2. FssTypeOK'
    BY <1>9, <2>1 DEF ReceiveEnds, FssTypeOK
  <2> QED
    BY <1>9, <2>2, C2Unchanged, FtsUnchanged DEF ReceiveEnds, TypeOK
<1> QED
  BY <1>5, <1>6, <1>7, <1>8, <1>9 DEF Fss

\* The programs start with every variable in its type.
LEMMA TypeInit == Init => TypeOK
<1> SUFFICES ASSUME Init PROVE TypeOK
  OBVIOUS
<1> USE ConstantFacts
<1>1. <<>> \in Seq(AskC2) /\ <<>> \in Seq(Answer) /\ <<>> \in Seq(AskFss)
  BY EmptySeq
<1>2. C2TypeOK
  <2>1. c2 \in [Client -> C2State] /\ \A c \in Client : c2[c].port # NoPort
    BY DEF Init, C2State, C2Pcs
  <2> QED
    BY <1>1, <2>1 DEF Init, C2TypeOK
<1>3. FtsTypeOK
  BY <1>1 DEF Init, FtsTypeOK
<1>4. FssTypeOK
  BY <1>1 DEF Init, FssTypeOK
<1> QED
  BY <1>2, <1>3, <1>4 DEF TypeOK

\* Every step of C2, FTS or FSS keeps TypeOK.
LEMMA TypeStep == TypeOK /\ [Next]_vars => TypeOK'
<1> SUFFICES ASSUME C2TypeOK, FtsTypeOK, FssTypeOK, [Next]_vars PROVE TypeOK'
  BY DEF TypeOK
<1>1. CASE UNCHANGED vars
  BY <1>1, C2Unchanged, FtsUnchanged, FssUnchanged DEF vars, TypeOK
<1> QED
  BY <1>1, C2Type, FtsType, FssType DEF Next

\* Types hold for any number of clients and ports: in particular C2 asks only for
\* ports of the range (udpHandler.py:135) and no session speaks to the FSS without a
\* client to answer (fts.c:491-503).
THEOREM TransferTypeCorrect == Spec => []TypeOK
<1> QED
  BY TypeInit, TypeStep, PTL DEF Spec

-----------------------------------------------------------------------------
\* The initial state has no file.
LEMMA StoreInit == Init => StoreInv /\ Store!Init
<1> SUFFICES ASSUME Init PROVE StoreInv /\ Store!Init
  OBVIOUS
<1>1. fss.pc = "idle"
  BY DEF Init, IdleFss
<1> QED
  BY <1>1 DEF Init, StoreInv, Store!Init

\* A step that leaves the directory alone, and the FSS neither in the middle of a
\* file nor about to open one, is no step of the abstract store, or closes its file.
LEMMA Aside ==
  ASSUME StoreInv, UNCHANGED <<owner, got>>,
         \/ fss'.pc = fss.pc /\ fss'.name = fss.name
         \/ fss'.pc \in {"idle", "exited"}
         \/ fss.pc = "idle" /\ fss'.pc = "listen" /\ owner[fss'.name] = None
  PROVE  StoreInv' /\ [Store!Next]_(Store!vars)
<1>1. StoreInv'
  BY DEF StoreInv
<1> DEFINE open == IF fss.pc = "receive" THEN {fss.name} ELSE {}
           openp == IF fss'.pc = "receive" THEN {fss'.name} ELSE {}
<1>2. CASE fss'.pc = fss.pc /\ fss'.name = fss.name
  <2>1. openp = open
    BY <1>2
  <2> QED
    BY <1>1, <2>1 DEF Store!vars
<1>3. CASE fss'.pc \in {"idle", "exited"} /\ fss.pc = "receive"
  <2>1. open # {} /\ openp = {}
    BY <1>3
  <2>2. Store!Close
    BY <2>1 DEF Store!Close
  <2> QED
    BY <1>1, <2>2 DEF Store!Next
<1>4. CASE fss'.pc # "receive" /\ fss.pc # "receive"
  <2>1. open = {} /\ openp = {}
    BY <1>4
  <2> QED
    BY <1>1, <2>1 DEF Store!vars
<1> QED
  BY <1>1, <1>2, <1>3, <1>4

\* Every step of the protocol is a step of the write-once store or leaves it alone.
LEMMA StoreStep ==
  TypeOK /\ StoreInv /\ [Next]_vars => StoreInv' /\ [Store!Next]_(Store!vars)
<1> SUFFICES ASSUME TypeOK, StoreInv, [Next]_vars
             PROVE  StoreInv' /\ [Store!Next]_(Store!vars)
  OBVIOUS
<1> USE ConstantFacts
<1>0. fss \in FssState /\ owner \in [Name -> Client \cup {None}] /\ got \in [Name -> Nat]
  BY DEF TypeOK, FssTypeOK
<1>1. fss.name \in Name /\ fss.from \in Client \cup {None}
  BY <1>0 DEF FssState
<1>2. CASE UNCHANGED vars
  BY <1>2, Aside DEF vars, fssVars
<1>3. ASSUME NEW c \in Client, C2(c) PROVE StoreInv' /\ [Store!Next]_(Store!vars)
  <2>1. UNCHANGED fssVars
    BY <1>3 DEF C2, C2Goes, Request, RequestTimeout, Response, Handshake, SendFile, SendBreaks,
                SendNothing, vars
  <2> QED
    BY <2>1, Aside DEF fssVars
<1>4. ASSUME NEW p \in Port, Fts(p) PROVE StoreInv' /\ [Store!Next]_(Store!vars)
  <2>1. UNCHANGED <<owner, got>>
    BY <1>4 DEF Fts, Dispatch, Forward, Silence, Hear, SpoolFails, Dial, Relay, RelayEnds,
                fssVars
  <2>2. fss'.pc = fss.pc /\ fss'.name = fss.name
    <3>1. CASE UNCHANGED fss
      BY <3>1
    <3>2. ASSUME NEW b, fss' = [fss EXCEPT !.closed = b] \/ fss' = [fss EXCEPT !.from = b]
                        \/ fss' = [fss EXCEPT !.pipe = b]
          PROVE  fss'.pc = fss.pc /\ fss'.name = fss.name
      BY <1>0, <3>2 DEF FssState
    <3>3. CASE Dispatch(p) \/ Forward(p) \/ Silence(p) \/ Hear(p) \/ SpoolFails(p)
      BY <3>1, <3>3 DEF Dispatch, Forward, Silence, Hear, SpoolFails, fssVars
    <3>4. CASE Dial(p) \/ Relay(p) \/ RelayEnds(p)
      BY <3>1, <3>2, <3>4 DEF Dial, Relay, RelayEnds
    <3> QED
      BY <1>4, <3>3, <3>4 DEF Fts
  <2> QED
    BY <2>1, <2>2, Aside
<1>5. Exit => fss'.pc = "exited"
  BY DEF Exit, IdleFss
<1>6. CASE Serve
  <2>1. Head(fssIn).name \in Name
    <3>1. Head(fssIn) \in AskFss
      BY <1>6, QueueFacts DEF Serve, TypeOK, FssTypeOK
    <3> QED
      BY <3>1 DEF AskFss
  <2>2. CASE UNCHANGED fss
    BY <1>6, <2>2, Aside DEF Serve
  <2>3. CASE Exit
    BY <1>5, <1>6, <2>3, Aside DEF Serve
  <2>4. CASE ~Taken(Head(fssIn).name)
             /\ fss' = [fss EXCEPT !.pc = "listen", !.name = Head(fssIn).name,
                                   !.by = Head(fssIn).client, !.conn = @ + 1]
    <3>1. fss'.pc = "listen" /\ owner[fss'.name] = None
      BY <1>0, <2>1, <2>4 DEF Taken, FssState
    <3> QED
      BY <1>6, <3>1, Aside DEF Serve
  <2> QED
    BY <1>6, <2>2, <2>3, <2>4 DEF Serve
<1>7. CASE Accept
  <2>1. /\ fss.pc = "listen" /\ fss'.pc = "receive" /\ fss'.name = fss.name
        /\ owner[fss.name] = None /\ got[fss.name] = 0 /\ fss.from \in Client
    BY <1>0, <1>1, <1>7 DEF Accept, StoreInv, FssState
  <2>2. owner' = [owner EXCEPT ![fss.name] = fss.from] /\ got' = got
    BY <1>0, <1>1, <1>7, <2>1 DEF Accept
  <2>3. StoreInv'
    BY <1>0, <1>1, <2>1, <2>2 DEF StoreInv
  <2>4. Store!Create(fss.name, fss.from)
    BY <2>1, <2>2 DEF Store!Create
  <2> QED
    BY <1>1, <2>1, <2>3, <2>4 DEF Store!Next
<1>8. CASE AcceptTimeout
  BY <1>5, <1>8, Aside DEF AcceptTimeout
<1>9. CASE ReceiveUnit
  <2>1. CASE Exit /\ UNCHANGED got
    BY <1>5, <1>9, <2>1, Aside DEF ReceiveUnit
  <2>2. CASE /\ fss' = [fss EXCEPT !.pipe = @ - 1, !.rcvd = @ + 1]
             /\ got' = [got EXCEPT ![fss.name] = @ + 1]
    <3>1. fss.pc = "receive" /\ fss'.pc = "receive" /\ fss'.name = fss.name /\ owner' = owner
      BY <1>0, <1>9, <2>2 DEF ReceiveUnit, FssState
    <3>2. StoreInv'
      BY <1>0, <1>1, <2>2, <3>1 DEF StoreInv
    <3>3. Store!Extend(fss.name)
      BY <2>2, <3>1 DEF Store!Extend
    <3> QED
      BY <1>1, <3>2, <3>3 DEF Store!Next
  <2> QED
    BY <1>9, <2>1, <2>2 DEF ReceiveUnit
<1>10. CASE ReceiveEnds
  <2>1. fss'.pc \in {"idle", "exited"}
    BY <1>5, <1>10 DEF ReceiveEnds, IdleFss
  <2> QED
    BY <1>10, <2>1, Aside DEF ReceiveEnds
<1> QED
  BY <1>2, <1>3, <1>4, <1>6, <1>7, <1>8, <1>9, <1>10 DEF Next, Fss

\* The FSS keeps its directory write-once whatever C2s, sessions and network do: the
\* protocol implements WriteOnceStore (FSS.py:132, tcpHandler.py:57).
THEOREM StoreImplemented == Spec => WriteOnce
<1> QED
  BY StoreInit, StoreStep, TransferTypeCorrect, PTL DEF Spec, WriteOnce, Store!Spec

-----------------------------------------------------------------------------
(* Whose data the FSS stores, and how much.                               *)

-----------------------------------------------------------------------------
(* What PhraseGuards and InStep need to be inductive.                      *)

\* Place i of the queue of port p is a 0x02.
Pending(p, i) == i \in 1 .. Len(ftsIn[p]) /\ ftsIn[p][i].type = "accept"

\* The session of port p has taken a 0x02.
Answered(p) == ses[p].pc \in {"accept", "relay"}

Listening == fss.pc \in {"listen", "receive"}

\* A 0x02 under way names a listener the FSS has made; when it is the one there is now,
\* nobody has connected to it, and it is for the client recorded.
PendingKnown ==
  \A p \in Port, i \in Nat : Pending(p, i) =>
    LET m == ftsIn[p][i] IN
    /\ m.conn <= fss.conn
    /\ m.conn = fss.conn => fss.from = None /\ (Listening => m.client = fss.by)

\* So does one that a session has taken, but that the phrase stands for the client.
AnsweredKnown ==
  \A p \in Port : Answered(p) =>
    /\ ses[p].conn <= fss.conn
    /\ ses[p].conn = fss.conn =>
         /\ ses[p].pc = "accept" => fss.from = None
         /\ Listening => Begins(Phrase[ses[p].client], Phrase[fss.by])

\* No two of them name the same listener.
PendingOnce ==
  \A p, q \in Port, i, j \in Nat :
    Pending(p, i) /\ Pending(q, j) /\ ftsIn[p][i].conn = ftsIn[q][j].conn => p = q /\ i = j
PendingUntaken ==
  \A p, q \in Port, i \in Nat :
    Pending(p, i) /\ Answered(q) => ftsIn[p][i].conn # ses[q].conn
AnsweredOnce ==
  \A p, q \in Port : Answered(p) /\ Answered(q) /\ ses[p].conn = ses[q].conn => p = q

AnswerInv ==
  PendingKnown /\ AnsweredKnown /\ PendingOnce /\ PendingUntaken /\ AnsweredOnce

\* Only a session that relays has sent anything.
SentByRelay == \A p \in Port : ses[p].pc # "relay" => ses[p].sent = 0

\* What the FSS wrote and has yet to read is of one client, and never more than fputs kept.
ConnectionState ==
  /\ ~Listening => fss.from = None
  /\ fss.from = None => fss.pipe = 0 /\ fss.rcvd = 0
  /\ fss.pc = "listen" => fss.rcvd = 0
  /\ fss.from # None => fss.rcvd + fss.pipe <= Kept[fss.from]
  /\ fss.pc = "receive" => /\ fss.from # None /\ owner[fss.name] = fss.from
                           /\ got[fss.name] = fss.rcvd

SentIsReceived ==
  \A p \in Port : Connected(p) => fss.from = ses[p].from /\ fss.rcvd + fss.pipe = ses[p].sent

FilesKept == \A n \in Name : owner[n] # None => got[n] <= Kept[owner[n]]

StreamInv == SentByRelay /\ ConnectionState /\ SentIsReceived /\ FilesKept

\* The session of port p has read some of a file, or all there is of one.
HasData(p) == ses[p].closed \/ ses[p].spool > 0

\* The session of port p waits for client c and nobody else.
HeldFor(p, c) ==
  ftsUp => ses[p].pc = "accept" /\ ses[p].client = c /\ ses[p].from = None /\ ~HasData(p)

\* Client c has been at port p and asked there.
AskedAt(c, p) == p < c2[c].port \/ (p = c2[c].port /\ c2[c].pc # "scan")

\* Place i of the queue of port p is a request of client c; of its own queue, a 0x03 of p.
Requested(c, p, i) ==
  i \in 1 .. Len(ftsIn[p]) /\ ftsIn[p][i].type = "request" /\ ftsIn[p][i].client = c
Validated(c, i, p) ==
  i \in 1 .. Len(c2In[c]) /\ c2In[c][i].type = "validation" /\ c2In[c][i].port = p

\* A session has a connection only from the client whose request it serves.
Serves(p) ==
  /\ ses[p].pc = "free" => ses[p].client = None
  /\ ses[p].pc \in {"free", "forward", "wait"} => ses[p].from = None
  /\ HasData(p) => ses[p].from # None
  /\ ses[p].from \in {None, ses[p].client}
ServesClient == \A p \in Port : Serves(p)

\* C2 asks each port once, so that a port has at most one request or session of a client.
AskedOnce ==
  \A c \in Client, p \in Port :
    /\ ses[p].client = c => AskedAt(c, p)
    /\ \A i \in Nat : Requested(c, p, i) =>
         /\ AskedAt(c, p) /\ ses[p].client # c
         /\ \A j \in Nat : Requested(c, p, j) => i = j

\* Hence the 0x03 a client waits for is of the session that waits for the client.
AnswerHeld ==
  \A c \in Client, p \in Port, i \in Nat : Validated(c, i, p) =>
    AskedAt(c, p) /\ (c2[c].pc = "wait" /\ c2[c].port = p => HeldFor(p, c))

\* And it is that session which takes its connection and its data.
ClientHeld ==
  \A c \in Client, p \in Port : c2[c].port = p =>
    /\ c2[c].pc = "connect" => HeldFor(p, c)
    /\ c2[c].pc = "stream" /\ ftsUp =>
         ses[p].pc = "accept" /\ ses[p].from = c /\ ~HasData(p)

AskInv == ServesClient /\ AskedOnce /\ AnswerHeld /\ ClientHeld

\* The phrase of the client whose data come begins that of the client that asked.
PhraseInv ==
  /\ Listening /\ fss.from # None => Begins(Phrase[fss.from], Phrase[fss.by])
  /\ \A n \in Name : owner[n] # None => Begins(Phrase[owner[n]], Phrase[askedBy[n]])

-----------------------------------------------------------------------------
(* Queues and records.                                                     *)

\* The fields of the records and the elements of the queues.
LEMMA Fields ==
  ASSUME TypeOK
  PROVE  /\ \A p \in Port : /\ ses[p] \in SessionState /\ ftsIn[p] \in Seq(Answer)
                            /\ ses[p].conn \in Nat /\ ses[p].sent \in Nat
                            /\ ses[p].spool \in Nat
         /\ fss \in FssState /\ fss.conn \in Nat /\ fss.rcvd \in Nat /\ fss.pipe \in Nat
         /\ fss.name \in Name /\ fss.from \in Client \cup {None}
BY DEF TypeOK, FtsTypeOK, FssTypeOK, SessionState, FssState

\* A message that is no 0x02 leaves the 0x02s of every queue where they are.
LEMMA PendingAppend ==
  ASSUME TypeOK, NEW p \in Port, NEW m \in Answer, m.type # "accept", NEW up,
         \E q \in Send(ftsIn[p], m, up) : ftsIn' = [ftsIn EXCEPT ![p] = q]
  PROVE  \A r \in Port : \A i \in Nat :
           Pending(r, i)' => Pending(r, i) /\ ftsIn'[r][i] = ftsIn[r][i]
<1>1. ftsIn \in [Port -> Seq(Answer)]
  BY DEF TypeOK, FtsTypeOK
<1>2. ftsIn' = ftsIn \/ ftsIn' = [ftsIn EXCEPT ![p] = Append(ftsIn[p], m)]
  BY <1>1 DEF Send
<1>3. CASE ftsIn' = ftsIn
  BY <1>3 DEF Pending
<1>4. CASE ftsIn' = [ftsIn EXCEPT ![p] = Append(ftsIn[p], m)]
  <2>1. \A r \in Port : ftsIn'[r] = IF r = p THEN Append(ftsIn[p], m) ELSE ftsIn[r]
    BY <1>1, <1>4
  <2>2. /\ Len(Append(ftsIn[p], m)) = Len(ftsIn[p]) + 1
        /\ \A i \in 1 .. Len(ftsIn[p]) : Append(ftsIn[p], m)[i] = ftsIn[p][i]
        /\ Append(ftsIn[p], m)[Len(ftsIn[p]) + 1] = m
        /\ Len(ftsIn[p]) \in Nat
    BY <1>1, AppendProperties
  <2>3. \A i \in Nat : i \in 1 .. Len(ftsIn[p]) + 1 =>
          i \in 1 .. Len(ftsIn[p]) \/ i = Len(ftsIn[p]) + 1
    BY <2>2
  <2> QED
    BY <2>1, <2>2, <2>3 DEF Pending
<1> QED
  BY <1>2, <1>3, <1>4

\* Taking the first message of a queue moves the others up by one.
LEMMA PendingTail ==
  ASSUME TypeOK, NEW p \in Port, ftsIn[p] # <<>>, ftsIn' = [ftsIn EXCEPT ![p] = Tail(@)]
  PROVE  \A r \in Port : \A i \in Nat :
           LET k == IF r = p THEN i + 1 ELSE i
           IN  Pending(r, i)' => i > 0 /\ Pending(r, k) /\ ftsIn'[r][i] = ftsIn[r][k]
<1>1. ftsIn \in [Port -> Seq(Answer)]
  BY DEF TypeOK, FtsTypeOK
<1>2. \A r \in Port : ftsIn'[r] = IF r = p THEN Tail(ftsIn[p]) ELSE ftsIn[r]
  BY <1>1
<1>3. /\ Len(Tail(ftsIn[p])) = Len(ftsIn[p]) - 1
      /\ \A i \in 1 .. Len(Tail(ftsIn[p])) : Tail(ftsIn[p])[i] = ftsIn[p][i + 1]
      /\ Len(ftsIn[p]) \in Nat
  BY <1>1, HeadTailProperties
<1> QED
  BY <1>1, <1>2, <1>3 DEF Pending

-----------------------------------------------------------------------------
(* What the steps do to the fields of the sessions.                        *)

\* The session of port p, and no other, after a step of it.
LEMMA SessionOnly ==
  ASSUME TypeOK, NEW p \in Port, NEW r, ses' = [ses EXCEPT ![p] = r]
  PROVE  \A q \in Port : ses'[q] = IF q = p THEN r ELSE ses[q]
BY DEF TypeOK, FtsTypeOK

\* Every step of C2 is one of a client at a port, and leaves the FSS alone.
LEMMA C2Place ==
  ASSUME TypeOK, NEW c \in Client, C2(c)
  PROVE  c2[c].port \in Port /\ c2[c] \in C2State /\ UNCHANGED <<fssVars, ftsUp>>
<1>1. c2[c].pc # "failed"
  <2>1. CASE Request(c)
    BY <2>1 DEF Request
  <2>2. CASE RequestTimeout(c)
    BY <2>2 DEF RequestTimeout
  <2>3. CASE Response(c)
    BY <2>3 DEF Response
  <2>4. CASE Handshake(c)
    BY <2>4 DEF Handshake
  <2>5. CASE Sends(c)
    BY <2>5 DEF Sends, SendFile, SendBreaks
  <2>6. CASE SendNothing(c)
    BY <2>6 DEF SendNothing
  <2> QED
    BY <2>1, <2>2, <2>3, <2>4, <2>5, <2>6 DEF C2, C2Goes, Sends
<1>2. UNCHANGED <<fssVars, ftsUp>>
  <2>1. CASE Request(c) \/ RequestTimeout(c) \/ Response(c) \/ Handshake(c)
    BY <2>1 DEF Request, RequestTimeout, Response, Handshake, ftsVars
  <2>2. CASE Sends(c)
    BY <2>2, SendsOnly DEF TypeOK
  <2>3. CASE SendNothing(c)
    BY <2>3 DEF SendNothing, vars, ftsVars
  <2> QED
    BY <2>1, <2>2, <2>3 DEF C2, C2Goes, Sends
<1> QED
  BY <1>1, <1>2, AtPort DEF TypeOK

\* C2 marks a session with what it connected and sent; the rest of it stays.
LEMMA C2Marks ==
  ASSUME TypeOK, NEW c \in Client, C2(c)
  PROVE  LET p == c2[c].port IN
         /\ \A q \in Port : /\ ses'[q].pc = ses[q].pc /\ ses'[q].conn = ses[q].conn
                            /\ ses'[q].client = ses[q].client /\ ses'[q].sent = ses[q].sent
                            /\ q # p => ses'[q] = ses[q]
         /\ \/ UNCHANGED ses
            \/ /\ Handshake(c) /\ ftsUp /\ ses[p].pc = "accept" /\ ses[p].from = None
               /\ ses'[p].from = c /\ ses'[p].closed = ses[p].closed
             /\ ses'[p].spool = ses[p].spool
            \/ Sends(c) /\ Reads(c) /\ ses'[p].from = c
<1> DEFINE p == c2[c].port
<1>1. p \in Port /\ ses[p] \in SessionState
  BY C2Place, Fields
<1>2. CASE UNCHANGED ses
  BY <1>2
<1>3. CASE Handshake(c) /\ ~UNCHANGED ses
  <2> DEFINE r == [ses[p] EXCEPT !.from = c]
  <2>1. /\ ses' = [ses EXCEPT ![p] = r]
        /\ ftsUp /\ ses[p].pc = "accept" /\ ses[p].from = None
    BY <1>3, <1>1 DEF Handshake
  <2>2. /\ r.pc = ses[p].pc /\ r.conn = ses[p].conn /\ r.client = ses[p].client
        /\ r.sent = ses[p].sent /\ r.from = c /\ r.closed = ses[p].closed
        /\ r.spool = ses[p].spool
    BY <1>1 DEF SessionState
  <2>3. \A q \in Port : ses'[q] = IF q = p THEN r ELSE ses[q]
    BY <1>1, <2>1, SessionOnly
  <2> QED
    BY <1>1, <1>3, <2>1, <2>2, <2>3
<1>4. CASE Sends(c) /\ ~UNCHANGED ses
  <2>1. ASSUME NEW k, NEW b, ses' = [ses EXCEPT ![p] = [@ EXCEPT !.spool = k, !.closed = b]]
        PROVE  /\ \A q \in Port : /\ ses'[q].pc = ses[q].pc /\ ses'[q].conn = ses[q].conn
                                  /\ ses'[q].client = ses[q].client /\ ses'[q].sent = ses[q].sent
                                  /\ q # p => ses'[q] = ses[q]
               /\ ses'[p].from = ses[p].from
    <3> DEFINE r == [ses[p] EXCEPT !.spool = k, !.closed = b]
    <3>1. ses' = [ses EXCEPT ![p] = r]
      BY <2>1
    <3>2. /\ r.pc = ses[p].pc /\ r.conn = ses[p].conn /\ r.client = ses[p].client
          /\ r.sent = ses[p].sent /\ r.from = ses[p].from
      BY <1>1 DEF SessionState
    <3>3. \A q \in Port : ses'[q] = IF q = p THEN r ELSE ses[q]
      BY <1>1, <3>1, SessionOnly
    <3> QED
      BY <1>1, <3>2, <3>3
  <2>2. Reads(c) /\ \E k \in Nat, b \in BOOLEAN :
          ses' = [ses EXCEPT ![p] = [@ EXCEPT !.spool = k, !.closed = b]]
    BY <1>4, SendsOnly DEF TypeOK
  <2>3. /\ \A q \in Port : /\ ses'[q].pc = ses[q].pc /\ ses'[q].conn = ses[q].conn
                           /\ ses'[q].client = ses[q].client /\ ses'[q].sent = ses[q].sent
                           /\ q # p => ses'[q] = ses[q]
        /\ ses'[p].from = ses[p].from
    BY <2>1, <2>2
  <2>4. ses[p].from = c
    BY <2>2 DEF Reads
  <2> QED
    BY <1>4, <2>2, <2>3, <2>4
<1>5. CASE Request(c) \/ RequestTimeout(c) \/ Response(c) \/ SendNothing(c)
  BY <1>2, <1>5 DEF Request, RequestTimeout, Response, SendNothing, vars, ftsVars
<1> QED
  BY <1>2, <1>3, <1>4, <1>5 DEF C2, C2Goes, Sends

\* C2 puts nothing into the queue of a port but a request.
LEMMA C2Asks ==
  ASSUME TypeOK, NEW c \in Client, C2(c)
  PROVE  \/ UNCHANGED ftsIn
         \/ /\ Request(c)
            /\ LET m == [type |-> "request", client |-> c, name |-> c2[c].name, conn |-> 0] IN
               /\ m \in Answer
               /\ \E q \in Send(ftsIn[c2[c].port], m, ftsUp) :
                    ftsIn' = [ftsIn EXCEPT ![c2[c].port] = q]
<1>1. CASE Request(c)
  <2>1. c2[c].name \in Name
    BY C2Place DEF C2State
  <2>2. [type |-> "request", client |-> c, name |-> c2[c].name, conn |-> 0] \in Answer
    BY <2>1 DEF Answer
  <2> QED
    BY <1>1, <2>2 DEF Request
<1>2. CASE RequestTimeout(c) \/ Response(c) \/ Handshake(c) \/ SendNothing(c)
  BY <1>2 DEF RequestTimeout, Response, Handshake, SendNothing, vars, ftsVars
<1>3. CASE Sends(c)
  BY <1>3, SendsOnly DEF TypeOK
<1> QED
  BY <1>1, <1>2, <1>3 DEF C2, C2Goes, Sends

-----------------------------------------------------------------------------
(* AnswerInv.                                                              *)

\* A step that makes no 0x02, and gives none to a session, keeps AnswerInv.
LEMMA AnswerKept ==
  ASSUME TypeOK, AnswerInv, NEW p \in Port, NEW d \in Nat,
         \A r \in Port : \A i \in Nat :
           LET k == IF r = p THEN i + d ELSE i
           IN  Pending(r, i)' => Pending(r, k) /\ ftsIn'[r][i] = ftsIn[r][k],
         \A q \in Port : Answered(q)' =>
           /\ Answered(q) /\ ses'[q].conn = ses[q].conn /\ ses'[q].client = ses[q].client
           /\ ses'[q].pc = "accept" => ses[q].pc = "accept",
         fss'.conn = fss.conn, fss'.from \in {fss.from, None},
         Listening' => Listening /\ fss'.by = fss.by
  PROVE  AnswerInv'
<1> DEFINE K(r, i) == IF r = p THEN i + d ELSE i
<1>1. ASSUME NEW r \in Port, NEW i \in Nat, Pending(r, i)'
      PROVE  /\ K(r, i) \in Nat /\ Pending(r, K(r, i)) /\ ftsIn'[r][i] = ftsIn[r][K(r, i)]
  BY <1>1
<1>2. PendingKnown'
  BY <1>1 DEF AnswerInv, PendingKnown
<1>3. PendingOnce'
  <2>1. SUFFICES ASSUME NEW r \in Port, NEW q \in Port, NEW i \in Nat, NEW j \in Nat,
                        Pending(r, i)', Pending(q, j)', ftsIn'[r][i].conn = ftsIn'[q][j].conn
                 PROVE  r = q /\ i = j
    BY DEF PendingOnce
  <2>2. r = q /\ K(r, i) = K(q, j)
    BY <1>1, <2>1 DEF AnswerInv, PendingOnce
  <2> QED
    BY <2>2
<1>4. PendingUntaken'
  BY <1>1 DEF AnswerInv, PendingUntaken
<1>5. AnsweredKnown' /\ AnsweredOnce'
  BY DEF AnswerInv, AnsweredKnown, AnsweredOnce
<1> QED
  BY <1>2, <1>3, <1>4, <1>5 DEF AnswerInv

\* The same when every 0x02 stays where it is.
LEMMA AnswerStays ==
  ASSUME TypeOK, AnswerInv,
         \A r \in Port : \A i \in Nat :
           Pending(r, i)' => Pending(r, i) /\ ftsIn'[r][i] = ftsIn[r][i],
         \A q \in Port : Answered(q)' =>
           /\ Answered(q) /\ ses'[q].conn = ses[q].conn /\ ses'[q].client = ses[q].client
           /\ ses'[q].pc = "accept" => ses[q].pc = "accept",
         fss'.conn = fss.conn, fss'.from \in {fss.from, None},
         Listening' => Listening /\ fss'.by = fss.by
  PROVE  AnswerInv'
<1>1. \A i \in Nat : i + 0 = i
  OBVIOUS
<1>2. \A r \in Port : \A i \in Nat :
        LET k == IF r = 0 THEN i + 0 ELSE i
        IN  Pending(r, i)' => Pending(r, k) /\ ftsIn'[r][i] = ftsIn[r][k]
  BY <1>1
<1>3. 0 \in Port /\ 0 \in Nat
  BY ConstantFacts
<1> QED
  BY <1>2, <1>3, AnswerKept

\* The same when the first message of a port is taken.
LEMMA AnswerTaken ==
  ASSUME TypeOK, AnswerInv, NEW p \in Port,
         ftsIn[p] # <<>>, ftsIn' = [ftsIn EXCEPT ![p] = Tail(@)],
         \A q \in Port : Answered(q)' =>
           /\ Answered(q) /\ ses'[q].conn = ses[q].conn /\ ses'[q].client = ses[q].client
           /\ ses'[q].pc = "accept" => ses[q].pc = "accept",
         fss'.conn = fss.conn, fss'.from \in {fss.from, None},
         Listening' => Listening /\ fss'.by = fss.by
  PROVE  AnswerInv'
<1>1. \A r \in Port : \A i \in Nat :
        LET k == IF r = p THEN i + 1 ELSE i
        IN  Pending(r, i)' => Pending(r, k) /\ ftsIn'[r][i] = ftsIn[r][k]
  BY PendingTail
<1>2. 1 \in Nat
  OBVIOUS
<1> QED
  BY <1>1, <1>2, AnswerKept

\* The steps of C2 keep AnswerInv: they send no 0x02 and move no session.
LEMMA AnswerC2 == ASSUME TypeOK, AnswerInv, NEW c \in Client, C2(c) PROVE AnswerInv'
<1>1. c2[c].port \in Port /\ UNCHANGED fss
  BY C2Place DEF fssVars
<1>2. \A r \in Port : \A i \in Nat :
        Pending(r, i)' => Pending(r, i) /\ ftsIn'[r][i] = ftsIn[r][i]
  <2>1. CASE UNCHANGED ftsIn
    BY <2>1 DEF Pending
  <2>2. CASE ~UNCHANGED ftsIn
    <3> DEFINE m == [type |-> "request", client |-> c, name |-> c2[c].name, conn |-> 0]
    <3>1. m \in Answer /\ \E q \in Send(ftsIn[c2[c].port], m, ftsUp) :
                            ftsIn' = [ftsIn EXCEPT ![c2[c].port] = q]
      BY <2>2, C2Asks
    <3>2. m.type # "accept"
      OBVIOUS
    <3> QED
      BY <1>1, <3>1, <3>2, PendingAppend
  <2> QED
    BY <2>1, <2>2
<1>3. \A q \in Port : Answered(q)' =>
        /\ Answered(q) /\ ses'[q].conn = ses[q].conn /\ ses'[q].client = ses[q].client
        /\ ses'[q].pc = "accept" => ses[q].pc = "accept"
  BY C2Marks DEF Answered
<1>4. Listening' => Listening /\ fss'.by = fss.by
  BY <1>1 DEF Listening
<1> QED
  BY <1>1, <1>2, <1>3, <1>4, AnswerStays

\* The steps of a session keep AnswerInv: it takes the 0x02 at the head of its queue, and
\* no other session and no other 0x02 names the listener it connects to.
LEMMA AnswerFts ==
  ASSUME TypeOK, AnswerInv, NEW p \in Port, Fts(p) PROVE AnswerInv'
<1>0. /\ ses \in [Port -> SessionState] /\ ses[p] \in SessionState
      /\ FreeSession.pc = "free"
  BY ConstantFacts DEF TypeOK, FtsTypeOK
<1>1. CASE Dispatch(p) \/ Forward(p) \/ Silence(p) \/ SpoolFails(p) \/ RelayEnds(p)
  <2>1. /\ UNCHANGED <<fss>> \/ fss' = [fss EXCEPT !.closed = TRUE]
        /\ UNCHANGED ftsIn \/ (ftsIn[p] # <<>> /\ ftsIn' = [ftsIn EXCEPT ![p] = Tail(@)])
    BY <1>1 DEF Dispatch, Forward, Silence, SpoolFails, RelayEnds, fssVars
  <2>2. \E r : /\ ses' = [ses EXCEPT ![p] = r]
               /\ r.pc \notin {"accept", "relay"}
    <3>1. CASE Dispatch(p) /\ UNCHANGED ses
      <4>1. ses' = [ses EXCEPT ![p] = ses[p]]
        BY <1>0, <3>1
      <4> QED
        BY <3>1, <4>1 DEF Dispatch
    <3>2. CASE Dispatch(p) /\ ~UNCHANGED ses
      <4> DEFINE m == Head(ftsIn[p])
                 r == [ses[p] EXCEPT !.pc = "forward", !.client = m.client, !.name = m.name]
      <4>1. ses' = [ses EXCEPT ![p] = r]
        BY <1>0, <3>2 DEF Dispatch
      <4>2. r.pc = "forward"
        BY <1>0 DEF SessionState
      <4> QED
        BY <4>1, <4>2
    <3>3. CASE Forward(p)
      <4>1. ses' = [ses EXCEPT ![p] = [ses[p] EXCEPT !.pc = "wait"]]
        BY <1>0, <3>3 DEF Forward
      <4>2. [ses[p] EXCEPT !.pc = "wait"].pc = "wait"
        BY <1>0 DEF SessionState
      <4> QED
        BY <4>1, <4>2
    <3>4. CASE Silence(p)
      <4>1. ses' = [ses EXCEPT ![p] = Fail(p)] /\ ses[p].pc = "wait"
        BY <3>4 DEF Silence
      <4>2. Fail(p).pc \in {"free", "wait"}
        BY <1>0, <4>1 DEF Fail, SessionState
      <4> QED
        BY <4>1, <4>2
    <3>5. CASE SpoolFails(p) \/ RelayEnds(p)
      BY <1>0, <3>5 DEF SpoolFails, RelayEnds
    <3> QED
      BY <1>1, <3>1, <3>2, <3>3, <3>4, <3>5
  <2>3. \A q \in Port : Answered(q)' => Answered(q) /\ ses'[q] = ses[q]
    BY <1>0, <2>2 DEF Answered
  <2>4. /\ fss'.conn = fss.conn /\ fss'.from = fss.from
        /\ Listening' => Listening /\ fss'.by = fss.by
    BY <2>1, Fields DEF FssState, Listening
  <2>5. CASE UNCHANGED ftsIn
    <3>1. \A r \in Port : \A i \in Nat :
            Pending(r, i)' => Pending(r, i) /\ ftsIn'[r][i] = ftsIn[r][i]
      BY <2>5 DEF Pending
    <3> QED
      BY <2>3, <2>4, <3>1, AnswerStays
  <2>6. CASE ftsIn[p] # <<>> /\ ftsIn' = [ftsIn EXCEPT ![p] = Tail(@)]
    BY <2>3, <2>4, <2>6, AnswerTaken
  <2> QED
    BY <2>1, <2>5, <2>6
<1>2. CASE Hear(p)
  <2> DEFINE m == Head(ftsIn[p])
             taken == [ses[p] EXCEPT !.pc = "accept", !.conn = m.conn]
  <2>1. /\ ses[p].pc = "wait" /\ ftsIn[p] # <<>> /\ ftsIn' = [ftsIn EXCEPT ![p] = Tail(@)]
        /\ UNCHANGED fss
    BY <1>2 DEF Hear, fssVars
  <2>2. /\ fss'.conn = fss.conn /\ fss'.from = fss.from
        /\ Listening' => Listening /\ fss'.by = fss.by
    BY <2>1 DEF Listening
  <2>3. CASE ses' = [ses EXCEPT ![p] = FreeSession] \/ ses' = [ses EXCEPT ![p] = Fail(p)]
    <3>1. FreeSession.pc = "free" /\ Fail(p).pc \in {"free", "wait"}
      BY <1>0, <2>1 DEF Fail, SessionState
    <3> DEFINE r == IF ses' = [ses EXCEPT ![p] = FreeSession] THEN FreeSession ELSE Fail(p)
    <3>2. ses' = [ses EXCEPT ![p] = r] /\ r.pc \in {"free", "wait"}
      BY <2>3, <3>1
    <3> HIDE DEF r
    <3>3. \A q \in Port : Answered(q)' => Answered(q) /\ ses'[q] = ses[q]
      BY <1>0, <3>2 DEF Answered
    <3> QED
      BY <2>1, <2>2, <3>3, AnswerTaken
  <2>4. CASE Accepts(p, m) /\ ses' = [ses EXCEPT ![p] = taken]
    <3>1. /\ taken.pc = "accept" /\ taken.conn = m.conn /\ taken.client = ses[p].client
          /\ ses' = [ses EXCEPT ![p] = taken]
      BY <1>0, <2>4 DEF SessionState
    <3>a. Accepts(p, m)
      BY <2>4
    <3> HIDE DEF taken
    <3>2. \A q \in Port : ses'[q] = IF q = p THEN taken ELSE ses[q]
      BY <1>0, <3>1
    <3>3. ftsIn[p][1] = m /\ 1 \in 1 .. Len(ftsIn[p])
      BY <2>1, Fields, HeadTailProperties
    <3>4. Pending(p, 1)
      BY <3>a, <3>3 DEF Pending, Accepts
    <3>5. /\ m.conn <= fss.conn
          /\ m.conn = fss.conn => fss.from = None /\ (Listening => m.client = fss.by)
      BY <3>3, <3>4 DEF AnswerInv, PendingKnown
    <3>6. \A q \in Port : Answered(q) => ses[q].conn # m.conn
      BY <3>3, <3>4 DEF AnswerInv, PendingUntaken
    <3>7. ~Answered(p) /\ \A q \in Port : Answered(q)' =>
            \/ q = p /\ ses'[q] = taken
            \/ q # p /\ Answered(q) /\ ses'[q] = ses[q]
      BY <2>1, <3>2 DEF Answered
    <3>8. AnsweredKnown' /\ AnsweredOnce'
      BY <2>1, <2>2, <3>a, <3>1, <3>5, <3>6, <3>7
         DEF AnswerInv, AnsweredKnown, AnsweredOnce, Accepts
    <3> DEFINE K(r, i) == IF r = p THEN i + 1 ELSE i
    <3>b. \A r \in Port : \A i \in Nat :
            LET k == IF r = p THEN i + 1 ELSE i
            IN  Pending(r, i)' => i > 0 /\ Pending(r, k) /\ ftsIn'[r][i] = ftsIn[r][k]
      BY <2>1, PendingTail
    <3>9. ASSUME NEW r \in Port, NEW i \in Nat, Pending(r, i)'
          PROVE  /\ K(r, i) \in Nat /\ Pending(r, K(r, i)) /\ ftsIn'[r][i] = ftsIn[r][K(r, i)]
                 /\ i > 0
      BY <3>b, <3>9
    <3>10. PendingKnown'
      <4>1. SUFFICES ASSUME NEW r \in Port, NEW i \in Nat, Pending(r, i)'
                     PROVE  /\ ftsIn'[r][i].conn <= fss'.conn
                            /\ ftsIn'[r][i].conn = fss'.conn =>
                                 fss'.from = None /\ (Listening' => ftsIn'[r][i].client = fss'.by)
        BY DEF PendingKnown
      <4>2. PICK k \in Nat : Pending(r, k) /\ ftsIn'[r][i] = ftsIn[r][k]
        BY <3>9, <4>1
      <4> QED
        BY <2>1, <2>2, <4>2 DEF AnswerInv, PendingKnown
    <3>11. PendingOnce'
      <4>1. SUFFICES ASSUME NEW r \in Port, NEW q \in Port, NEW i \in Nat, NEW j \in Nat,
                            Pending(r, i)', Pending(q, j)',
                            ftsIn'[r][i].conn = ftsIn'[q][j].conn
                     PROVE  r = q /\ i = j
        BY DEF PendingOnce
      <4>2. r = q /\ K(r, i) = K(q, j)
        BY <3>9, <4>1 DEF AnswerInv, PendingOnce
      <4> QED
        BY <4>2
    <3>12. PendingUntaken'
      <4>1. SUFFICES ASSUME NEW r \in Port, NEW q \in Port, NEW i \in Nat,
                            Pending(r, i)', Answered(q)'
                     PROVE  ftsIn'[r][i].conn # ses'[q].conn
        BY DEF PendingUntaken
      <4>2. /\ K(r, i) \in Nat /\ Pending(r, K(r, i)) /\ ftsIn'[r][i] = ftsIn[r][K(r, i)]
            /\ i > 0
        BY <3>9, <4>1
      <4>3. CASE q = p
        <5>1. ftsIn[r][K(r, i)].conn # m.conn
          <6>1. SUFFICES ASSUME ftsIn[r][K(r, i)].conn = ftsIn[p][1].conn PROVE FALSE
            BY <3>3
          <6>2. r = p /\ K(r, i) = 1
            BY <3>4, <4>2, <6>1 DEF AnswerInv, PendingOnce
          <6> QED
            BY <4>2, <6>2
        <5> QED
          BY <3>1, <3>2, <4>2, <4>3, <5>1
      <4>4. CASE q # p
        BY <3>7, <4>1, <4>2, <4>4 DEF AnswerInv, PendingUntaken
      <4> QED
        BY <4>3, <4>4
    <3> QED
      BY <3>8, <3>10, <3>11, <3>12 DEF AnswerInv
  <2> QED
    BY <1>2, <2>3, <2>4 DEF Hear
<1>3. CASE Dial(p)
  <2> DEFINE r == [ses[p] EXCEPT !.pc = "relay"]
  <2>1. ses[p].pc = "accept" /\ UNCHANGED ftsIn
    BY <1>3 DEF Dial
  <2>2. \A s \in Port : \A i \in Nat :
          Pending(s, i)' => Pending(s, i) /\ ftsIn'[s][i] = ftsIn[s][i]
    BY <2>1 DEF Pending
  <2>3. CASE ses' = [ses EXCEPT ![p] = FreeSession] /\ UNCHANGED fss
    <3>1. \A q \in Port : Answered(q)' => Answered(q) /\ ses'[q] = ses[q]
      BY <1>0, <2>3 DEF Answered
    <3>2. Listening' => Listening
      BY <2>3 DEF Listening
    <3> QED
      BY <2>2, <2>3, <3>1, <3>2, AnswerStays
  <2>4. CASE /\ fss.pc = "listen" /\ fss.conn = ses[p].conn
             /\ ses' = [ses EXCEPT ![p] = r] /\ fss' = [fss EXCEPT !.from = ses[p].from]
    <3>1. /\ r.pc = "relay" /\ r.conn = ses[p].conn /\ r.client = ses[p].client
          /\ ses' = [ses EXCEPT ![p] = r] /\ fss.conn = ses[p].conn
      BY <1>0, <2>4 DEF SessionState
    <3> HIDE DEF r
    <3>2. /\ Answered(p)
          /\ \A q \in Port : /\ Answered(q)' <=> Answered(q)
                             /\ ses'[q].conn = ses[q].conn /\ ses'[q].client = ses[q].client
                             /\ q # p => ses'[q] = ses[q]
                             /\ q = p => ses'[q].pc = "relay"
      BY <1>0, <2>1, <3>1 DEF Answered
    <3>3. /\ fss'.conn = fss.conn /\ fss'.by = fss.by /\ (Listening' => Listening)
      BY <2>4, Fields DEF FssState, Listening
    <3>4. \A s \in Port : \A i \in Nat : Pending(s, i) => ftsIn[s][i].conn # fss.conn
      BY <3>1, <3>2 DEF AnswerInv, PendingUntaken
    <3>5. PendingKnown' /\ PendingOnce' /\ PendingUntaken'
      <4>1. PendingKnown'
        BY <2>2, <3>3, <3>4 DEF AnswerInv, PendingKnown
      <4>2. PendingOnce'
        BY <2>2 DEF AnswerInv, PendingOnce
      <4>3. PendingUntaken'
        BY <2>2, <3>2 DEF AnswerInv, PendingUntaken
      <4> QED
        BY <4>1, <4>2, <4>3
    <3>6. AnsweredOnce'
      BY <3>2 DEF AnswerInv, AnsweredOnce
    <3>7. AnsweredKnown'
      <4>1. SUFFICES ASSUME NEW q \in Port, Answered(q)'
                     PROVE  /\ ses'[q].conn <= fss'.conn
                            /\ ses'[q].conn = fss'.conn =>
                                 /\ ses'[q].pc = "accept" => fss'.from = None
                                 /\ Listening' => Begins(Phrase[ses'[q].client], Phrase[fss'.by])
        BY DEF AnsweredKnown
      <4>2. Answered(q) /\ ses'[q].conn = ses[q].conn /\ ses'[q].client = ses[q].client
        BY <3>2, <4>1
      <4>3. ses[q].conn = fss.conn => q = p /\ ses'[q].pc = "relay"
        BY <3>1, <3>2, <4>2 DEF AnswerInv, AnsweredOnce
      <4> QED
        BY <3>3, <4>2, <4>3 DEF AnswerInv, AnsweredKnown
    <3> QED
      BY <3>5, <3>6, <3>7 DEF AnswerInv
  <2> QED
    BY <1>3, <2>3, <2>4 DEF Dial
<1>4. CASE Relay(p)
  <2>1. ses[p].pc = "relay"
    BY <1>4 DEF Relay
  <2>2. /\ fss'.conn = fss.conn /\ fss'.from = fss.from
        /\ Listening' => Listening /\ fss'.by = fss.by
    <3>1. UNCHANGED fss \/ fss' = [fss EXCEPT !.pipe = @ + 1]
            \/ fss' = [fss EXCEPT !.closed = fss.from # None]
      BY <1>4 DEF Relay
    <3> QED
      BY <3>1, Fields DEF FssState, Listening
  <2>3. CASE ftsIn' = [q \in Port |-> <<>>] /\ ses' = [q \in Port |-> FreeSession]
    <3>1. \A r \in Port : ftsIn'[r] = <<>> /\ ses'[r] = FreeSession
      BY <2>3
    <3>2. \A r \in Port : \A i \in Nat : ~Pending(r, i)'
      BY <3>1 DEF Pending
    <3>3. \A q \in Port : ~Answered(q)'
      BY <1>0, <3>1 DEF Answered
    <3> QED
      BY <2>2, <3>2, <3>3, AnswerStays
  <2>4. CASE UNCHANGED ftsIn /\ (ses' = Advance(p) \/ ses' = [ses EXCEPT ![p] = FreeSession])
    <3> DEFINE r == [ses[p] EXCEPT !.sent = @ + 1]
    <3>1. r.pc = "relay" /\ r.conn = ses[p].conn /\ r.client = ses[p].client
      BY <1>0, <2>1 DEF SessionState
    <3>2. ses' = [ses EXCEPT ![p] = r] \/ ses' = [ses EXCEPT ![p] = FreeSession]
      BY <2>4 DEF Advance
    <3> HIDE DEF r
    <3>3. \A q \in Port : Answered(q)' =>
            /\ Answered(q) /\ ses'[q].conn = ses[q].conn /\ ses'[q].client = ses[q].client
            /\ ses'[q].pc = "accept" => ses[q].pc = "accept"
      BY <1>0, <2>1, <3>1, <3>2 DEF Answered
    <3>4. \A s \in Port : \A i \in Nat :
            Pending(s, i)' => Pending(s, i) /\ ftsIn'[s][i] = ftsIn[s][i]
      BY <2>4 DEF Pending
    <3> QED
      BY <2>2, <3>3, <3>4, AnswerStays
  <2> QED
    BY <1>4, <2>3, <2>4 DEF Relay
<1> QED
  BY <1>1, <1>2, <1>3, <1>4 DEF Fts

\* The FSS after it has ended.
LEMMA Exited ==
  ASSUME TypeOK, Exit
  PROVE  /\ fss'.pc = "exited" /\ fss'.conn = fss.conn /\ fss'.from = None
         /\ fss'.pipe = 0 /\ fss'.rcvd = 0 /\ ~Listening'
<1> DEFINE r == IdleFss(fss.conn)
<1>1. /\ r \in FssState /\ r.conn = fss.conn /\ r.from = None /\ r.pipe = 0 /\ r.rcvd = 0
      /\ r.pc = "idle"
  BY Fields, ConstantFacts DEF IdleFss
<1>2. fss' = [r EXCEPT !.pc = "exited"]
  BY DEF Exit
<1> HIDE DEF r
<1> QED
  BY <1>1, <1>2 DEF FssState, Listening

\* The first message at the FSS.
LEMMA FirstAsked ==
  ASSUME TypeOK, Serve
  PROVE  Head(fssIn).port \in Port /\ Head(fssIn).client \in Client /\ Head(fssIn).name \in Name
<1>1. Head(fssIn) \in AskFss
  BY QueueFacts DEF Serve, TypeOK, FssTypeOK
<1> QED
  BY <1>1 DEF AskFss

\* What the FSS does to its record, and to the queues of the FTS.
LEMMA FssMoves ==
  ASSUME TypeOK, Fss
  PROVE  \/ /\ fss' = [fss EXCEPT !.pc = "listen", !.name = Head(fssIn).name,
                                  !.by = Head(fssIn).client, !.conn = @ + 1]
            /\ Serve /\ ~Taken(Head(fssIn).name)
            /\ LET m == [type |-> "accept", client |-> Head(fssIn).client,
                         name |-> Head(fssIn).name, conn |-> fss.conn + 1]
               IN  \E q \in Send(ftsIn[Head(fssIn).port], m, ftsUp) :
                     ftsIn' = [ftsIn EXCEPT ![Head(fssIn).port] = q]
         \/ /\ UNCHANGED fss /\ Serve
            /\ LET m == [type |-> "exists", client |-> Head(fssIn).client,
                         name |-> Head(fssIn).name, conn |-> 0]
               IN  \E q \in Send(ftsIn[Head(fssIn).port], m, ftsUp) :
                     ftsIn' = [ftsIn EXCEPT ![Head(fssIn).port] = q]
         \/ UNCHANGED ftsIn /\ Exit
         \/ UNCHANGED ftsIn /\ Accept
         \/ UNCHANGED ftsIn /\ fss' = [fss EXCEPT !.pipe = @ - 1, !.rcvd = @ + 1] /\ ReceiveUnit
         \/ UNCHANGED ftsIn /\ fss' = IdleFss(fss.conn) /\ ReceiveEnds
<1>1. CASE Serve
  BY <1>1 DEF Serve
<1>2. CASE Accept
  BY <1>2 DEF Accept, ftsVars
<1>3. CASE AcceptTimeout
  BY <1>3 DEF AcceptTimeout, ftsVars
<1>4. CASE ReceiveUnit
  BY <1>4 DEF ReceiveUnit, ftsVars
<1>5. CASE ReceiveEnds
  BY <1>5 DEF ReceiveEnds, ftsVars
<1> QED
  BY <1>1, <1>2, <1>3, <1>4, <1>5 DEF Fss

\* The FSS leaves C2 and the sessions alone.
LEMMA FssAlone == ASSUME TypeOK, Fss PROVE UNCHANGED <<c2, c2In, ses, ftsUp>>
BY DEF Fss, Serve, Accept, AcceptTimeout, ReceiveUnit, ReceiveEnds, c2Vars, ftsVars

\* The steps of the FSS keep AnswerInv: the 0x02 it sends names a listener none before had.
LEMMA AnswerFss == ASSUME TypeOK, AnswerInv, StreamInv, Fss PROVE AnswerInv'
<1>1. UNCHANGED ses
  BY FssAlone
<1>2. \A q \in Port : Answered(q)' => Answered(q) /\ ses'[q] = ses[q]
  BY <1>1 DEF Answered
<1>3. ASSUME UNCHANGED ftsIn, fss'.conn = fss.conn, fss'.from \in {fss.from, None},
             Listening' => Listening /\ fss'.by = fss.by
      PROVE  AnswerInv'
  <2>1. \A r \in Port : \A i \in Nat :
          Pending(r, i)' => Pending(r, i) /\ ftsIn'[r][i] = ftsIn[r][i]
    BY <1>3 DEF Pending
  <2> QED
    BY <1>2, <1>3, <2>1, AnswerStays
<1>4. CASE UNCHANGED ftsIn /\ Exit
  BY <1>3, <1>4, Exited
<1>5. CASE UNCHANGED ftsIn /\ Accept
  <2>1. fss.pc = "listen" /\ fss' = [fss EXCEPT !.pc = "receive"]
    BY <1>5 DEF Accept
  <2> QED
    BY <1>3, <1>5, <2>1, Fields DEF FssState, Listening
<1>6. CASE UNCHANGED ftsIn /\ fss' = [fss EXCEPT !.pipe = @ - 1, !.rcvd = @ + 1]
  <2>1. fss'.conn = fss.conn /\ fss'.from = fss.from /\ fss'.pc = fss.pc /\ fss'.by = fss.by
    BY <1>6, Fields DEF FssState
  <2> QED
    BY <1>3, <1>6, <2>1 DEF Listening
<1>7. CASE UNCHANGED ftsIn /\ fss' = IdleFss(fss.conn)
  <2>1. fss'.conn = fss.conn /\ fss'.from = None /\ fss'.pc = "idle"
    BY <1>7 DEF IdleFss
  <2> QED
    BY <1>3, <1>7, <2>1 DEF Listening
<1>8. CASE /\ UNCHANGED fss /\ Serve
           /\ LET m == [type |-> "exists", client |-> Head(fssIn).client,
                        name |-> Head(fssIn).name, conn |-> 0]
              IN  \E q \in Send(ftsIn[Head(fssIn).port], m, ftsUp) :
                    ftsIn' = [ftsIn EXCEPT ![Head(fssIn).port] = q]
  <2> DEFINE m == [type |-> "exists", client |-> Head(fssIn).client,
                   name |-> Head(fssIn).name, conn |-> 0]
  <2>1. m \in Answer /\ m.type # "accept" /\ Head(fssIn).port \in Port
    BY <1>8, FirstAsked DEF Answer
  <2>2. \A r \in Port : \A i \in Nat :
          Pending(r, i)' => Pending(r, i) /\ ftsIn'[r][i] = ftsIn[r][i]
    BY <1>8, <2>1, PendingAppend
  <2>3. Listening' => Listening
    BY <1>8 DEF Listening
  <2> QED
    BY <1>2, <1>8, <2>2, <2>3, AnswerStays
<1>9. CASE /\ fss' = [fss EXCEPT !.pc = "listen", !.name = Head(fssIn).name,
                                 !.by = Head(fssIn).client, !.conn = @ + 1]
           /\ Serve
           /\ LET m == [type |-> "accept", client |-> Head(fssIn).client,
                        name |-> Head(fssIn).name, conn |-> fss.conn + 1]
              IN  \E q \in Send(ftsIn[Head(fssIn).port], m, ftsUp) :
                    ftsIn' = [ftsIn EXCEPT ![Head(fssIn).port] = q]
  <2> DEFINE p == Head(fssIn).port
             m == [type |-> "accept", client |-> Head(fssIn).client,
                   name |-> Head(fssIn).name, conn |-> fss.conn + 1]
  <2>1. /\ fss'.conn = fss.conn + 1 /\ fss'.from = fss.from /\ fss'.by = Head(fssIn).client
        /\ fss.conn \in Nat /\ p \in Port
    BY <1>9, Fields, FirstAsked DEF FssState
  <2>2. fss.from = None
    BY <1>9 DEF Serve, StreamInv, ConnectionState, Listening
  <2>3. /\ m.conn = fss.conn + 1 /\ m.client = fss'.by
        /\ ftsIn' = ftsIn \/ ftsIn' = [ftsIn EXCEPT ![p] = Append(ftsIn[p], m)]
    <3>1. \E q \in Send(ftsIn[p], m, ftsUp) : ftsIn' = [ftsIn EXCEPT ![p] = q]
      BY <1>9
    <3>2. m.conn = fss.conn + 1 /\ m.client = fss'.by
      BY <2>1
    <3> HIDE DEF m
    <3> QED
      BY <2>1, <3>1, <3>2 DEF Send, TypeOK, FtsTypeOK
  <2> HIDE DEF p, m
  <2>4. ASSUME NEW r \in Port, NEW i \in Nat, Pending(r, i)'
        PROVE  \/ Pending(r, i) /\ ftsIn'[r][i] = ftsIn[r][i]
               \/ r = p /\ i = Len(ftsIn[p]) + 1 /\ ftsIn'[r][i] = m
    <3>1. /\ ftsIn \in [Port -> Seq(Answer)] /\ Len(ftsIn[p]) \in Nat
          /\ Len(Append(ftsIn[p], m)) = Len(ftsIn[p]) + 1
          /\ \A k \in 1 .. Len(ftsIn[p]) : Append(ftsIn[p], m)[k] = ftsIn[p][k]
          /\ Append(ftsIn[p], m)[Len(ftsIn[p]) + 1] = m
      BY <2>1 DEF TypeOK, FtsTypeOK
    <3>2. CASE ftsIn' = ftsIn \/ r # p
      BY <2>1, <2>3, <2>4, <3>1, <3>2 DEF Pending
    <3>3. CASE ftsIn' # ftsIn /\ r = p
      <4>1. ftsIn'[r] = Append(ftsIn[p], m)
        BY <2>1, <2>3, <3>1, <3>3
      <4>2. i \in 1 .. Len(ftsIn[p]) \/ i = Len(ftsIn[p]) + 1
        BY <2>4, <3>1, <4>1 DEF Pending
      <4> QED
        BY <2>4, <3>1, <3>3, <4>1, <4>2 DEF Pending
    <3> QED
      BY <3>2, <3>3
  <2>5. \A r \in Port : \A i \in Nat : Pending(r, i) =>
          ftsIn[r][i].conn \in Nat /\ ftsIn[r][i].conn <= fss.conn
    <3>1. \A r \in Port : \A i \in Nat : Pending(r, i) => ftsIn[r][i] \in Answer
      BY Fields DEF Pending
    <3> QED
      BY <3>1 DEF AnswerInv, PendingKnown, Answer
  <2>6. \A q \in Port : Answered(q) => ses[q].conn \in Nat /\ ses[q].conn <= fss.conn
    BY Fields DEF AnswerInv, AnsweredKnown
  <2>7. PendingKnown'
    <3>1. SUFFICES ASSUME NEW r \in Port, NEW i \in Nat, Pending(r, i)'
                   PROVE  /\ ftsIn'[r][i].conn <= fss'.conn
                          /\ ftsIn'[r][i].conn = fss'.conn =>
                               fss'.from = None /\ ftsIn'[r][i].client = fss'.by
      BY DEF PendingKnown
    <3>2. CASE Pending(r, i) /\ ftsIn'[r][i] = ftsIn[r][i]
      BY <2>1, <2>5, <3>2
    <3>3. CASE ftsIn'[r][i] = m
      BY <2>1, <2>2, <2>3, <3>3
    <3> QED
      BY <2>4, <3>1, <3>2, <3>3
  <2>8. PendingOnce'
    <3>1. SUFFICES ASSUME NEW r \in Port, NEW q \in Port, NEW i \in Nat, NEW j \in Nat,
                          Pending(r, i)', Pending(q, j)', ftsIn'[r][i].conn = ftsIn'[q][j].conn
                   PROVE  r = q /\ i = j
      BY DEF PendingOnce
    <3>2. CASE Pending(r, i) /\ ftsIn'[r][i] = ftsIn[r][i] /\ Pending(q, j)
               /\ ftsIn'[q][j] = ftsIn[q][j]
      BY <3>1, <3>2 DEF AnswerInv, PendingOnce
    <3>3. CASE Pending(r, i) /\ ftsIn'[r][i] = ftsIn[r][i] /\ ftsIn'[q][j] = m
      BY <2>1, <2>3, <2>5, <3>1, <3>3
    <3>4. CASE Pending(q, j) /\ ftsIn'[q][j] = ftsIn[q][j] /\ ftsIn'[r][i] = m
      BY <2>1, <2>3, <2>5, <3>1, <3>4
    <3> QED
      BY <2>4, <3>1, <3>2, <3>3, <3>4
  <2>9. PendingUntaken'
    <3>1. SUFFICES ASSUME NEW r \in Port, NEW q \in Port, NEW i \in Nat,
                          Pending(r, i)', Answered(q)'
                   PROVE  ftsIn'[r][i].conn # ses'[q].conn
      BY DEF PendingUntaken
    <3>2. CASE Pending(r, i) /\ ftsIn'[r][i] = ftsIn[r][i]
      BY <1>2, <3>1, <3>2 DEF AnswerInv, PendingUntaken
    <3>3. CASE ftsIn'[r][i] = m
      BY <1>2, <2>1, <2>3, <2>6, <3>1, <3>3
    <3> QED
      BY <2>4, <3>1, <3>2, <3>3
  <2>10. AnsweredKnown'
    <3>1. \A q \in Port : Answered(q)' => ses'[q].conn < fss'.conn
      BY <1>2, <2>1, <2>6
    <3>2. \A q \in Port : Answered(q)' => ses'[q].conn \in Nat
      BY <1>2, <2>6
    <3> QED
      BY <2>1, <3>1, <3>2 DEF AnsweredKnown
  <2>11. AnsweredOnce'
    BY <1>2 DEF AnswerInv, AnsweredOnce
  <2> QED
    BY <2>7, <2>8, <2>9, <2>10, <2>11 DEF AnswerInv
<1> QED
  BY <1>4, <1>5, <1>6, <1>7, <1>8, <1>9, FssMoves

-----------------------------------------------------------------------------
(* StreamInv and the first half of PhraseInv.                              *)

\* The steps of C2 keep both: they change no session that relays, and no file.
LEMMA StreamC2 ==
  ASSUME TypeOK, StreamInv, PhraseInv, NEW c \in Client, C2(c)
  PROVE  StreamInv' /\ PhraseInv'
<1>1. UNCHANGED <<fss, owner, got, askedBy>>
  BY C2Place DEF fssVars
<1>2. PhraseInv'
  BY <1>1 DEF PhraseInv, Listening
<1>3. ConnectionState' /\ FilesKept'
  BY <1>1 DEF StreamInv, ConnectionState, Listening, FilesKept
<1>4. SentByRelay'
  BY C2Marks DEF StreamInv, SentByRelay
<1>5. \A q \in Port : Connected(q)' =>
        Connected(q) /\ ses'[q].from = ses[q].from /\ ses'[q].sent = ses[q].sent
  <2>1. SUFFICES ASSUME NEW q \in Port, Connected(q)'
                 PROVE  Connected(q) /\ ses'[q].from = ses[q].from /\ ses'[q].sent = ses[q].sent
    OBVIOUS
  <2>2. ses'[q].pc = ses[q].pc /\ ses'[q].conn = ses[q].conn /\ ses'[q].sent = ses[q].sent
    BY C2Marks
  <2>3. ses[q].pc = "relay" /\ Connected(q)
    BY <1>1, <2>1, <2>2 DEF Connected
  <2>4. ses'[q].from = ses[q].from
    <3>1. CASE q # c2[c].port
      BY <3>1, C2Marks
    <3>2. CASE q = c2[c].port
      BY <2>3, <3>2, C2Marks DEF Reads
    <3> QED
      BY <3>1, <3>2
  <2> QED
    BY <2>2, <2>3, <2>4
<1>6. SentIsReceived'
  BY <1>1, <1>5 DEF StreamInv, SentIsReceived
<1> QED
  BY <1>2, <1>3, <1>4, <1>6 DEF StreamInv

\* The steps of a session keep both: it connects to a listener nobody else knows, and
\* sends a unit after the other.
LEMMA StreamFts ==
  ASSUME TypeOK, AnswerInv, StreamInv, PhraseInv, AskInv, NEW p \in Port, Fts(p)
  PROVE  StreamInv' /\ PhraseInv'
<1>0. /\ ses \in [Port -> SessionState] /\ ses[p] \in SessionState
      /\ FreeSession.pc = "free" /\ FreeSession.sent = 0
  BY ConstantFacts DEF TypeOK, FtsTypeOK, FreeSession
<1>1. UNCHANGED <<owner, got, askedBy>>
  BY DEF Fts, Dispatch, Forward, Silence, Hear, SpoolFails, Dial, Relay, RelayEnds, fssVars
<1>2. ASSUME \/ UNCHANGED fss
             \/ \E b : fss' = [fss EXCEPT !.closed = b],
             \A q \in Port : \/ ses'[q] = ses[q]
                             \/ ses'[q].pc # "relay" /\ ses'[q].sent = 0
                             \/ ~Connected(q) /\ ses[q].pc = "relay" /\ ses'[q].pc = "relay"
                                 /\ ses'[q].conn = ses[q].conn
      PROVE  StreamInv' /\ PhraseInv'
  <2>1. /\ fss'.pc = fss.pc /\ fss'.from = fss.from /\ fss'.by = fss.by /\ fss'.conn = fss.conn
        /\ fss'.pipe = fss.pipe /\ fss'.rcvd = fss.rcvd /\ fss'.name = fss.name
    BY <1>2, Fields DEF FssState
  <2>2. PhraseInv' /\ ConnectionState' /\ FilesKept'
    BY <1>1, <2>1 DEF PhraseInv, Listening, StreamInv, ConnectionState, FilesKept
  <2>3. SentByRelay'
    BY <1>2 DEF StreamInv, SentByRelay
  <2>4. SentIsReceived'
    BY <1>2, <2>1 DEF StreamInv, SentIsReceived, Connected
  <2> QED
    BY <2>2, <2>3, <2>4 DEF StreamInv
<1>3. ASSUME NEW r, ses' = [ses EXCEPT ![p] = r], r.pc # "relay", r.sent = 0,
             \/ UNCHANGED fss
             \/ \E b : fss' = [fss EXCEPT !.closed = b]
      PROVE  StreamInv' /\ PhraseInv'
  BY <1>0, <1>2, <1>3
<1>4. CASE Dispatch(p)
  <2> DEFINE m == Head(ftsIn[p])
             r == [ses[p] EXCEPT !.pc = "forward", !.client = m.client, !.name = m.name]
  <2>1. UNCHANGED fss /\ ses[p].pc = "free"
    BY <1>4 DEF Dispatch, fssVars
  <2>2. CASE UNCHANGED ses
    BY <1>2, <2>1, <2>2
  <2>3. CASE ~UNCHANGED ses
    <3>1. ses' = [ses EXCEPT ![p] = r]
      BY <1>0, <1>4, <2>3 DEF Dispatch
    <3>2. r.pc = "forward" /\ r.sent = ses[p].sent
      BY <1>0 DEF SessionState
    <3>3. ses[p].sent = 0
      BY <2>1 DEF StreamInv, SentByRelay
    <3> HIDE DEF r
    <3> QED
      BY <1>3, <2>1, <3>1, <3>2, <3>3
  <2> QED
    BY <2>2, <2>3
<1>5. CASE Forward(p) \/ Silence(p) \/ Hear(p)
  <2> DEFINE waits == [ses[p] EXCEPT !.pc = "wait"]
             fails == [ses[p] EXCEPT !.fails = @ + 1]
             takes == [ses[p] EXCEPT !.pc = "accept", !.conn = Head(ftsIn[p]).conn]
  <2>1. UNCHANGED fss /\ ses[p].pc \in {"forward", "wait"}
    BY <1>5 DEF Forward, Silence, Hear, fssVars
  <2>2. \E r \in {waits, fails, takes, FreeSession} : ses' = [ses EXCEPT ![p] = r]
    <3>1. CASE Forward(p)
      BY <1>0, <3>1 DEF Forward
    <3>2. CASE Silence(p)
      BY <3>2 DEF Silence, Fail
    <3>3. CASE Hear(p)
      BY <3>3 DEF Hear, Fail
    <3> QED
      BY <1>5, <3>1, <3>2, <3>3
  <2>3. \A r \in {waits, fails, takes, FreeSession} : r.pc # "relay" /\ r.sent = 0
    <3>1. ses[p].sent = 0
      BY <2>1 DEF StreamInv, SentByRelay
    <3>2. waits.pc = "wait" /\ waits.sent = ses[p].sent
      BY <1>0 DEF SessionState
    <3>3. fails.pc = ses[p].pc /\ fails.sent = ses[p].sent
      BY <1>0 DEF SessionState
    <3>4. takes.pc = "accept" /\ takes.sent = ses[p].sent
      BY <1>0 DEF SessionState
    <3> HIDE DEF waits, fails, takes
    <3> QED
      BY <1>0, <2>1, <3>1, <3>2, <3>3, <3>4
  <2> HIDE DEF waits, fails, takes
  <2> QED
    BY <1>3, <2>1, <2>2, <2>3
<1>6. CASE Dial(p)
  <2> DEFINE r == [ses[p] EXCEPT !.pc = "relay"]
  <2>1. CASE UNCHANGED fss /\ ses' = [ses EXCEPT ![p] = FreeSession]
    BY <1>0, <1>3, <2>1
  <2>2. CASE /\ fss.pc = "listen" /\ fss.conn = ses[p].conn
             /\ ses' = [ses EXCEPT ![p] = r] /\ fss' = [fss EXCEPT !.from = ses[p].from]
    <3>1. /\ r.pc = "relay" /\ r.conn = ses[p].conn /\ r.from = ses[p].from
          /\ r.sent = ses[p].sent /\ ses' = [ses EXCEPT ![p] = r]
      BY <1>0, <2>2 DEF SessionState
    <3>2. ses[p].pc = "accept" /\ ses[p].closed /\ fss.pc = "listen" /\ fss.conn = ses[p].conn
      BY <1>6, <2>2 DEF Dial
    <3>3. /\ fss'.pc = "listen" /\ fss'.from = ses[p].from /\ fss'.by = fss.by
          /\ fss'.conn = fss.conn /\ fss'.pipe = fss.pipe /\ fss'.rcvd = fss.rcvd
          /\ fss'.name = fss.name
      BY <2>2, Fields DEF FssState
    <3> HIDE DEF r
    <3>4. \A q \in Port : ses'[q] = IF q = p THEN r ELSE ses[q]
      BY <1>0, <3>1
    <3>5. fss.from = None /\ fss.pipe = 0 /\ fss.rcvd = 0 /\ ses[p].sent = 0
      BY <3>2 DEF AnswerInv, AnsweredKnown, Answered, StreamInv, ConnectionState, SentByRelay
    <3>6. \A q \in Port : q # p => ~Connected(q)'
      BY <3>2, <3>3, <3>4 DEF AnswerInv, AnsweredOnce, Answered, Connected
    <3>7. SentIsReceived'
      BY <3>1, <3>3, <3>4, <3>5, <3>6 DEF SentIsReceived
    <3>8. SentByRelay' /\ FilesKept'
      BY <1>1, <3>1, <3>4 DEF StreamInv, SentByRelay, FilesKept
    <3>9. ses[p].from \in Client
      BY <1>0, <3>2 DEF AskInv, ServesClient, Serves, SessionState, HasData
    <3>10. ConnectionState'
      BY <1>1, <3>3, <3>5, <3>9, ConstantFacts DEF ConnectionState, Listening
    <3>11. PhraseInv'
      <4>1. Begins(Phrase[ses[p].client], Phrase[fss.by]) /\ ses[p].from = ses[p].client
        BY <3>2, <3>9, ConstantFacts DEF AnswerInv, AnsweredKnown, Answered, Listening,
               AskInv, ServesClient, Serves
      <4> QED
        BY <1>1, <3>3, <4>1 DEF PhraseInv
    <3> QED
      BY <3>7, <3>8, <3>10, <3>11 DEF StreamInv
  <2> QED
    BY <1>6, <2>1, <2>2 DEF Dial
<1>7. CASE Relay(p)
  <2> DEFINE r == [ses[p] EXCEPT !.sent = @ + 1]
  <2>1. r.pc = ses[p].pc /\ r.conn = ses[p].conn /\ r.from = ses[p].from
        /\ r.sent = ses[p].sent + 1
    BY <1>0 DEF SessionState
  <2>2. ses[p].pc = "relay"
    BY <1>7 DEF Relay
  <2>3. CASE UNCHANGED fss /\ ~Connected(p)
             /\ (ses' = [ses EXCEPT ![p] = r] \/ ses' = [ses EXCEPT ![p] = FreeSession])
    <3>1. UNCHANGED fss /\ ~Connected(p)
          /\ (ses' = [ses EXCEPT ![p] = r] \/ ses' = [ses EXCEPT ![p] = FreeSession])
      BY <2>3
    <3> HIDE DEF r
    <3> QED
      BY <1>0, <1>2, <2>1, <2>2, <3>1
  <2>4. CASE ses' = [q \in Port |-> FreeSession] /\ fss' = [fss EXCEPT !.closed = fss.from # None]
    BY <1>0, <1>2, <2>4
  <2>5. CASE /\ Connected(p) /\ ses[p].sent < Kept[ses[p].from]
             /\ ses' = [ses EXCEPT ![p] = r] /\ fss' = [fss EXCEPT !.pipe = @ + 1]
    <3>1. /\ Connected(p) /\ ses[p].sent < Kept[ses[p].from] /\ ses' = [ses EXCEPT ![p] = r]
          /\ fss'.pc = fss.pc /\ fss'.from = fss.from /\ fss'.by = fss.by
          /\ fss'.conn = fss.conn /\ fss'.pipe = fss.pipe + 1 /\ fss'.rcvd = fss.rcvd
          /\ fss'.name = fss.name
      BY <2>5, Fields DEF FssState
    <3> HIDE DEF r
    <3>2. \A q \in Port : ses'[q] = IF q = p THEN r ELSE ses[q]
      BY <1>0, <3>1
    <3>3. /\ fss.from = ses[p].from /\ fss.rcvd + fss.pipe = ses[p].sent /\ fss.from \in Client
      BY <3>1, Fields DEF StreamInv, SentIsReceived, Connected
    <3>4. \A q \in Port : q # p => ~Connected(q)'
      BY <2>2, <3>1, <3>2 DEF AnswerInv, AnsweredOnce, Answered, Connected
    <3>5. SentIsReceived'
      <4>1. fss'.from = ses'[p].from /\ ses'[p].sent = ses[p].sent + 1
        <5>1. ses'[p] = r
          BY <3>2
        <5> QED
          BY <2>1, <3>1, <3>3, <5>1
      <4>2. fss'.rcvd + fss'.pipe = ses'[p].sent
        <5>1. /\ fss.rcvd \in Nat /\ fss.pipe \in Nat
              /\ fss'.rcvd = fss.rcvd /\ fss'.pipe = fss.pipe + 1
              /\ fss.rcvd + fss.pipe = ses[p].sent /\ ses'[p].sent = ses[p].sent + 1
          BY <3>1, <3>3, <4>1, Fields
        <5> QED
          BY <5>1
      <4>3. \A q \in Port : Connected(q)' => q = p
        BY <3>4
      <4> QED
        BY <4>1, <4>2, <4>3 DEF SentIsReceived
    <3>6. SentByRelay' /\ FilesKept' /\ PhraseInv'
      BY <1>1, <2>1, <2>2, <3>1, <3>2
         DEF StreamInv, SentByRelay, FilesKept, PhraseInv, Listening
    <3>7. Kept[fss.from] \in Nat
      BY <3>3, ConstantFacts
    <3>8. ConnectionState'
      BY <1>1, <3>1, <3>3, <3>7, Fields, ConstantFacts DEF StreamInv, ConnectionState, Listening
    <3> QED
      BY <3>5, <3>6, <3>8 DEF StreamInv
  <2> QED
    BY <1>7, <2>3, <2>4, <2>5 DEF Relay, Advance
<1>8. CASE SpoolFails(p) \/ RelayEnds(p)
  <2>1. ses' = [ses EXCEPT ![p] = FreeSession]
        /\ (UNCHANGED fss \/ fss' = [fss EXCEPT !.closed = TRUE])
    BY <1>8 DEF SpoolFails, RelayEnds, fssVars
  <2> QED
    BY <1>0, <1>3, <2>1
<1> QED
  BY <1>4, <1>5, <1>6, <1>7, <1>8 DEF Fts

\* The steps of the FSS keep both: it stores what comes from the client it connected
\* to, and counts it.
LEMMA StreamFss ==
  ASSUME TypeOK, StreamInv, PhraseInv, Fss PROVE StreamInv' /\ PhraseInv'
<1>0. /\ UNCHANGED ses
      /\ fss.conn \in Nat /\ fss.rcvd \in Nat /\ fss.pipe \in Nat /\ fss.name \in Name
      /\ owner \in [Name -> Client \cup {None}] /\ got \in [Name -> Nat]
      /\ askedBy \in [Name -> Client \cup {None}]
  BY FssAlone, Fields DEF TypeOK, FssTypeOK
<1>1. SentByRelay'
  BY <1>0 DEF StreamInv, SentByRelay
<1>2. ASSUME UNCHANGED <<owner, got, askedBy>>, fss'.from = None, fss'.pipe = 0,
             fss'.rcvd = 0, fss'.pc # "receive"
      PROVE  StreamInv' /\ PhraseInv'
  <2>1. ConnectionState' /\ SentIsReceived'
    BY <1>2 DEF ConnectionState, SentIsReceived, Connected
  <2>2. FilesKept' /\ PhraseInv'
    BY <1>2 DEF StreamInv, FilesKept, PhraseInv
  <2> QED
    BY <1>1, <2>1, <2>2 DEF StreamInv
<1>3. CASE Serve
  <2>1. UNCHANGED <<owner, got, askedBy>> /\ fss.pc = "idle"
    BY <1>3 DEF Serve
  <2>2. fss.from = None /\ fss.pipe = 0 /\ fss.rcvd = 0
    BY <2>1 DEF StreamInv, ConnectionState, Listening
  <2>3. CASE UNCHANGED fss
    BY <1>2, <2>1, <2>2, <2>3
  <2>4. CASE Exit
    BY <1>2, <2>1, <2>4, Exited
  <2>5. CASE fss' = [fss EXCEPT !.pc = "listen", !.name = Head(fssIn).name,
                                !.by = Head(fssIn).client, !.conn = @ + 1]
    <3>1. fss'.pc = "listen" /\ fss'.from = fss.from /\ fss'.pipe = fss.pipe /\ fss'.rcvd = fss.rcvd
      BY <2>5, Fields DEF FssState
    <3> QED
      BY <1>2, <2>1, <2>2, <3>1
  <2> QED
    BY <1>3, <2>3, <2>4, <2>5 DEF Serve
<1>4. CASE Accept
  <2>1. /\ fss.pc = "listen" /\ fss.from # None /\ fss' = [fss EXCEPT !.pc = "receive"]
        /\ owner' = [owner EXCEPT ![fss.name] = fss.from]
        /\ askedBy' = [askedBy EXCEPT ![fss.name] = fss.by]
        /\ got' = [got EXCEPT ![fss.name] = 0]
    BY <1>4 DEF Accept
  <2>2. /\ fss'.pc = "receive" /\ fss'.from = fss.from /\ fss'.by = fss.by
        /\ fss'.conn = fss.conn /\ fss'.pipe = fss.pipe /\ fss'.rcvd = fss.rcvd
        /\ fss'.name = fss.name
    BY <2>1, Fields DEF FssState
  <2>3. \A n \in Name : /\ owner'[n] = IF n = fss.name THEN fss.from ELSE owner[n]
                        /\ askedBy'[n] = IF n = fss.name THEN fss.by ELSE askedBy[n]
                        /\ got'[n] = IF n = fss.name THEN 0 ELSE got[n]
    BY <1>0, <2>1
  <2>4. ConnectionState'
    BY <1>0, <2>1, <2>2, <2>3 DEF StreamInv, ConnectionState, Listening
  <2>5. SentIsReceived'
    BY <1>0, <2>2 DEF StreamInv, SentIsReceived, Connected
  <2>6. Kept[fss.from] \in Nat
    BY <2>1, Fields, ConstantFacts
  <2>7. FilesKept'
    BY <2>3, <2>6 DEF StreamInv, FilesKept
  <2>8. PhraseInv'
    BY <2>1, <2>2, <2>3 DEF PhraseInv, Listening
  <2> QED
    BY <1>1, <2>4, <2>5, <2>7, <2>8 DEF StreamInv
<1>5. CASE AcceptTimeout
  BY <1>2, <1>5, Exited DEF AcceptTimeout
<1>6. CASE ReceiveUnit
  <2>1. fss.pc = "receive" /\ fss.pipe > 0 /\ UNCHANGED <<owner, askedBy>>
    BY <1>6 DEF ReceiveUnit
  <2>2. CASE Exit /\ UNCHANGED got
    BY <1>2, <2>1, <2>2, Exited
  <2>3. CASE /\ fss' = [fss EXCEPT !.pipe = @ - 1, !.rcvd = @ + 1]
             /\ got' = [got EXCEPT ![fss.name] = @ + 1]
    <3>1. /\ fss'.pc = fss.pc /\ fss'.from = fss.from /\ fss'.by = fss.by
          /\ fss'.conn = fss.conn /\ fss'.pipe = fss.pipe - 1 /\ fss'.rcvd = fss.rcvd + 1
          /\ fss'.name = fss.name
      BY <2>3, Fields DEF FssState
    <3>2. \A n \in Name : got'[n] = IF n = fss.name THEN got[n] + 1 ELSE got[n]
      BY <1>0, <2>3
    <3>3. /\ fss.from # None /\ owner[fss.name] = fss.from /\ got[fss.name] = fss.rcvd
          /\ fss.rcvd + fss.pipe <= Kept[fss.from] /\ Kept[fss.from] \in Nat
      BY <2>1, Fields, ConstantFacts DEF StreamInv, ConnectionState
    <3>4. fss'.rcvd + fss'.pipe = fss.rcvd + fss.pipe
      BY <1>0, <3>1
    <3>5. ConnectionState'
      BY <1>0, <2>1, <3>1, <3>2, <3>3, <3>4 DEF ConnectionState, Listening
    <3>6. SentIsReceived'
      BY <1>0, <3>1, <3>4 DEF StreamInv, SentIsReceived, Connected
    <3>7. FilesKept'
      BY <1>0, <2>1, <3>2, <3>3 DEF StreamInv, FilesKept
    <3>8. PhraseInv'
      BY <2>1, <3>1 DEF PhraseInv, Listening
    <3> QED
      BY <1>1, <3>5, <3>6, <3>7, <3>8 DEF StreamInv
  <2> QED
    BY <1>6, <2>2, <2>3 DEF ReceiveUnit
<1>7. CASE ReceiveEnds
  <2>1. UNCHANGED <<owner, got, askedBy>>
    BY <1>7 DEF ReceiveEnds
  <2>2. CASE Exit
    BY <1>2, <2>1, <2>2, Exited
  <2>3. CASE fss' = IdleFss(fss.conn)
    <3>1. fss'.from = None /\ fss'.pipe = 0 /\ fss'.rcvd = 0 /\ fss'.pc = "idle"
      BY <2>3 DEF IdleFss
    <3> QED
      BY <1>2, <2>1, <3>1
  <2> QED
    BY <1>7, <2>2, <2>3 DEF ReceiveEnds
<1> QED
  BY <1>3, <1>4, <1>5, <1>6, <1>7 DEF Fss


-----------------------------------------------------------------------------
(* A client is served by the session that asked for it (AskInv), and the    *)
(* invariants together.                                                     *)

-----------------------------------------------------------------------------
(* What the steps of C2 do to the client.                                  *)

\* The point in C2.py after each step.
LEMMA C2Points ==
  ASSUME TypeOK, NEW c \in Client, C2(c)
  PROVE  /\ \A k \in Client : k # c => c2'[k] = c2[k]
         /\ \/ c2'[c].port = c2[c].port /\ c2'[c].pc # "scan"
            \/ c2'[c].port = c2[c].port + 1 /\ c2'[c].pc \in {"scan", "failed"}
         /\ c2'[c].pc = "wait" => c2'[c].port = c2[c].port /\ c2[c].pc = "scan"
         /\ c2'[c].pc = "connect" =>
              LET m == Head(c2In[c]) IN
              /\ Response(c) /\ c2[c].pc = "wait" /\ c2In[c] # <<>> /\ m.type = "validation"
              /\ m.port = c2[c].port
         /\ c2'[c].pc = "stream" =>
              LET p == c2[c].port IN
              /\ c2[c].pc = "connect" /\ ftsUp /\ ses[p].pc = "accept" /\ ses[p].from = None
              /\ ses' = [ses EXCEPT ![p].from = c]
<1>0. c2 \in [Client -> C2State] /\ c2[c].port \in Port /\ c2[c] \in C2State
  BY C2Place DEF TypeOK, C2TypeOK
<1> DEFINE Past(a) == a.port = c2[c].port + 1 /\ a.pc \in {"scan", "failed"}
           Gone(a) == a.port = c2[c].port /\ a.pc = "failed"
<1>1. Past(NextPort(c))
  BY <1>0 DEF NextPort, C2State
<1>2. \A a \in AfterExists(c) : Past(a) \/ Gone(a)
  <2>1. NextPort(c) \in [pc : {"scan", "failed"}, port : {c2[c].port + 1}, name : Name]
    BY <1>0 DEF NextPort, C2State
  <2>2. \A n \in Name : Past([NextPort(c) EXCEPT !.name = n])
    BY <2>1
  <2>3. Gone([c2[c] EXCEPT !.pc = "failed"])
    BY <1>0 DEF C2State
  <2> QED
    BY <2>2, <2>3 DEF AfterExists
<1>3. ASSUME NEW a, c2' = [c2 EXCEPT ![c] = a]
      PROVE  c2'[c] = a /\ \A k \in Client : k # c => c2'[k] = c2[k]
  BY <1>0, <1>3
<1>4. ASSUME NEW v \in C2Pcs, c2' = [c2 EXCEPT ![c].pc = v]
      PROVE  /\ c2'[c].pc = v /\ c2'[c].port = c2[c].port
             /\ \A k \in Client : k # c => c2'[k] = c2[k]
  BY <1>0, <1>4 DEF C2State
<1>5. CASE Request(c)
  BY <1>4, <1>5 DEF Request, C2Pcs
<1>6. CASE RequestTimeout(c)
  BY <1>1, <1>3, <1>6 DEF RequestTimeout
<1>7. CASE Response(c)
  <2> DEFINE m == Head(c2In[c])
  <2>1. c2[c].pc = "wait" /\ c2In[c] # <<>>
    BY <1>7 DEF Response
  <2>2. CASE c2' = [c2 EXCEPT ![c] = NextPort(c)]
    BY <1>1, <1>3, <2>2
  <2>3. CASE \E a \in AfterExists(c) : c2' = [c2 EXCEPT ![c] = a]
    BY <1>2, <1>3, <2>3
  <2>4. CASE /\ FromAsked(c, m) /\ m.type = "validation"
             /\ c2' = [c2 EXCEPT ![c].pc = IF m.phrase = Phrase[c] THEN "connect" ELSE "failed"]
    <3> DEFINE v == IF m.phrase = Phrase[c] THEN "connect" ELSE "failed"
    <3>1. c2' = [c2 EXCEPT ![c].pc = v] /\ v \in {"connect", "failed"}
      BY <2>4
    <3>2. /\ c2'[c].pc \in {"connect", "failed"} /\ c2'[c].port = c2[c].port
          /\ \A k \in Client : k # c => c2'[k] = c2[k]
      BY <1>4, <3>1 DEF C2Pcs
    <3> QED
      BY <1>7, <2>1, <2>4, <3>2 DEF FromAsked
  <2> QED
    BY <1>7, <2>2, <2>3, <2>4 DEF Response
<1>8. CASE Handshake(c)
  <2>1. c2[c].pc = "connect"
    BY <1>8 DEF Handshake
  <2>2. CASE c2' = [c2 EXCEPT ![c].pc = "failed"]
    BY <1>4, <2>2 DEF C2Pcs
  <2>3. CASE c2' = [c2 EXCEPT ![c].pc = "stream"]
    <3>1. LET p == c2[c].port IN
          /\ ftsUp /\ ses[p].pc = "accept" /\ ses[p].from = None
          /\ ses' = [ses EXCEPT ![p].from = c]
      <4>1. c2'[c].pc = "stream"
        BY <1>4, <2>3 DEF C2Pcs
      <4>2. c2' # [c2 EXCEPT ![c].pc = "failed"]
        BY <1>4, <4>1 DEF C2Pcs
      <4> QED
        BY <1>8, <4>2 DEF Handshake
    <3> QED
      BY <1>4, <2>1, <2>3, <3>1 DEF C2Pcs
  <2> QED
    BY <1>8, <2>2, <2>3 DEF Handshake
<1>9. CASE Sends(c)
  <2>1. PICK v \in {"resend", "done", "failed"} : c2' = [c2 EXCEPT ![c].pc = v]
    BY <1>9, SendsOnly DEF TypeOK
  <2> QED
    BY <1>4, <2>1 DEF C2Pcs
<1>10. CASE SendNothing(c)
  BY <1>10 DEF SendNothing, vars, c2Vars
<1> QED
  BY <1>5, <1>6, <1>7, <1>8, <1>9, <1>10 DEF C2, C2Goes, Sends

\* A client that has asked at a port has asked there ever after, and asks where it has not.
LEMMA AskedStays ==
  ASSUME TypeOK, NEW c \in Client, C2(c), NEW k \in Client, NEW p \in Port
  PROVE  /\ AskedAt(k, p) => AskedAt(k, p)'
         /\ Request(c) /\ p = c2[c].port => ~AskedAt(c, p) /\ AskedAt(c, p)'
<1>1. c2[c].port \in Nat /\ p \in Nat
  BY C2Place, ConstantFacts
<1>2. k # c => (AskedAt(k, p) => AskedAt(k, p)')
  BY C2Points DEF AskedAt
<1>3. AskedAt(c, p) => AskedAt(c, p)'
  <2>1. CASE c2'[c].port = c2[c].port /\ c2'[c].pc # "scan"
    BY <2>1 DEF AskedAt
  <2>2. CASE c2'[c].port = c2[c].port + 1
    BY <1>1, <2>2 DEF AskedAt
  <2> QED
    BY <2>1, <2>2, C2Points
<1>4. Request(c) /\ p = c2[c].port => ~AskedAt(c, p) /\ AskedAt(c, p)'
  <2>1. SUFFICES ASSUME Request(c), p = c2[c].port
                 PROVE  ~AskedAt(c, p) /\ AskedAt(c, p)'
    OBVIOUS
  <2>2. c2[c].pc = "scan" /\ c2' = [c2 EXCEPT ![c].pc = "wait"] /\ c2 \in [Client -> C2State]
    BY <2>1 DEF Request, TypeOK, C2TypeOK
  <2>3. c2'[c].pc = "wait" /\ c2'[c].port = c2[c].port
    BY <2>2 DEF C2State
  <2> QED
    BY <1>1, <2>1, <2>2, <2>3 DEF AskedAt
<1> QED
  BY <1>2, <1>3, <1>4

\* C2 only takes from its own queue.
LEMMA C2Hears ==
  ASSUME TypeOK, NEW c \in Client, C2(c), NEW k \in Client, NEW i \in Nat, NEW p,
         Validated(k, i, p)'
  PROVE  \E j \in Nat : Validated(k, j, p)
<1>1. c2In \in [Client -> Seq(AskC2)]
  BY DEF TypeOK, C2TypeOK
<1>2. CASE UNCHANGED c2In
  BY <1>2 DEF Validated
<1>3. CASE c2In[c] # <<>> /\ c2In' = [c2In EXCEPT ![c] = Tail(@)]
  <2>1. c2In'[k] = IF k = c THEN Tail(c2In[c]) ELSE c2In[k]
    BY <1>1, <1>3
  <2>2. /\ Len(Tail(c2In[c])) = Len(c2In[c]) - 1
        /\ \A n \in 1 .. Len(Tail(c2In[c])) : Tail(c2In[c])[n] = c2In[c][n + 1]
        /\ Len(c2In[c]) \in Nat
    BY <1>1, <1>3, HeadTailProperties
  <2>3. CASE k = c
    <3> DEFINE t == Tail(c2In[c])
    <3>1. c2In'[k] = t
      BY <2>1, <2>3
    <3>2. i \in 1 .. Len(t) /\ t[i].type = "validation" /\ t[i].port = p
      BY <3>1 DEF Validated
    <3>3. i + 1 \in 1 .. Len(c2In[c]) /\ t[i] = c2In[c][i + 1]
      BY <2>2, <3>2
    <3>4. Validated(k, i + 1, p) /\ i + 1 \in Nat
      BY <2>3, <3>1, <3>2, <3>3 DEF Validated
    <3> QED
      BY <3>4
  <2>4. CASE k # c
    BY <2>1, <2>4 DEF Validated
  <2> QED
    BY <2>3, <2>4
<1>4. UNCHANGED c2In \/ (c2In[c] # <<>> /\ c2In' = [c2In EXCEPT ![c] = Tail(@)])
  <2>1. CASE Request(c)
    BY <2>1 DEF Request
  <2>2. CASE RequestTimeout(c)
    BY <2>2 DEF RequestTimeout
  <2>3. CASE Response(c)
    BY <2>3 DEF Response
  <2>4. CASE Handshake(c)
    BY <2>4 DEF Handshake
  <2>5. CASE Sends(c)
    BY <2>5, SendsOnly DEF TypeOK
  <2>6. CASE SendNothing(c)
    BY <2>6 DEF SendNothing, vars, c2Vars
  <2> QED
    BY <2>1, <2>2, <2>3, <2>4, <2>5, <2>6 DEF C2, C2Goes, Sends
<1> QED
  BY <1>2, <1>3, <1>4

\* A session that waits for one client waits for it while another takes a step.
LEMMA HeldC2 ==
  ASSUME TypeOK, AskInv, NEW c \in Client, C2(c), NEW k \in Client, k # c,
         NEW p \in Port, HeldFor(p, k)
  PROVE  HeldFor(p, k)'
<1>1. SUFFICES ASSUME ftsUp, ses'[p] # ses[p] PROVE FALSE
  BY C2Place, C2Marks DEF HeldFor, HasData
<1>2. ses[p].client = k /\ ses[p].from = None /\ p = c2[c].port
  BY <1>1, C2Marks DEF HeldFor, HasData
<1>3. CASE Handshake(c)
  <2>1. c2[c].pc = "connect"
    BY <1>3 DEF Handshake
  <2> QED
    BY <1>1, <1>2, <2>1 DEF AskInv, ClientHeld, HeldFor, HasData
<1>4. ~Reads(c)
  BY <1>2, ConstantFacts DEF Reads
<1> QED
  BY <1>1, <1>3, <1>4, C2Marks

\* A client takes the data of no port but its own.
LEMMA StreamedC2 ==
  ASSUME TypeOK, AskInv, NEW c \in Client, C2(c), NEW k \in Client, k # c, ftsUp,
         NEW p \in Port, ses[p].from = k
  PROVE  ses'[p] = ses[p]
<1>1. SUFFICES ASSUME ses'[p] # ses[p] PROVE FALSE
  OBVIOUS
<1>2. p = c2[c].port
  BY <1>1, C2Marks
<1>3. CASE Handshake(c) /\ ses[p].from = None
  BY <1>3, ConstantFacts
<1>4. ~Reads(c)
  BY <1>2 DEF Reads
<1> QED
  BY <1>1, <1>2, <1>3, <1>4, C2Marks

\* The requests in the queues after a step of C2: those there were, and perhaps one more.
LEMMA C2Requests ==
  ASSUME TypeOK, NEW c \in Client, C2(c), NEW k \in Client, NEW p \in Port, NEW i \in Nat,
         Requested(k, p, i)'
  PROVE  \/ Requested(k, p, i)
         \/ k = c /\ p = c2[c].port /\ Request(c) /\ i = Len(ftsIn[p]) + 1
<1>1. ftsIn \in [Port -> Seq(Answer)] /\ c2[c].port \in Port
  BY C2Place DEF TypeOK, FtsTypeOK
<1>2. CASE UNCHANGED ftsIn
  BY <1>2 DEF Requested
<1>3. CASE ~UNCHANGED ftsIn
  <2> DEFINE o == c2[c].port
             m == [type |-> "request", client |-> c, name |-> c2[c].name, conn |-> 0]
  <2>1. /\ Request(c) /\ m \in Answer
        /\ \E q \in Send(ftsIn[o], m, ftsUp) : ftsIn' = [ftsIn EXCEPT ![o] = q]
    BY <1>3, C2Asks
  <2>2. ftsIn' = [ftsIn EXCEPT ![o] = Append(ftsIn[o], m)]
    <3>1. \/ ftsIn' = [ftsIn EXCEPT ![o] = ftsIn[o]]
          \/ ftsIn' = [ftsIn EXCEPT ![o] = Append(ftsIn[o], m)]
      BY <2>1 DEF Send
    <3>2. [ftsIn EXCEPT ![o] = ftsIn[o]] = ftsIn
      BY <1>1
    <3> QED
      BY <1>3, <3>1, <3>2
  <2>3. /\ Len(Append(ftsIn[o], m)) = Len(ftsIn[o]) + 1 /\ Len(ftsIn[o]) \in Nat
        /\ \A n \in 1 .. Len(ftsIn[o]) : Append(ftsIn[o], m)[n] = ftsIn[o][n]
        /\ Append(ftsIn[o], m)[Len(ftsIn[o]) + 1] = m
    BY <1>1, <2>1, AppendProperties
  <2>4. m.client = c
    OBVIOUS
  <2> HIDE DEF m
  <2>5. CASE p # o
    <3>1. ftsIn'[p] = ftsIn[p]
      BY <1>1, <2>2, <2>5
    <3> QED
      BY <3>1 DEF Requested
  <2>6. CASE p = o
    <3>1. ftsIn'[p] = Append(ftsIn[p], m)
      BY <1>1, <2>2, <2>6
    <3>2. i \in 1 .. Len(ftsIn[p]) + 1
      BY <2>3, <2>6, <3>1 DEF Requested
    <3>3. CASE i = Len(ftsIn[p]) + 1
      <4>1. ftsIn'[p][i] = m
        BY <2>3, <2>6, <3>1, <3>3
      <4>2. k = c
        BY <2>4, <4>1 DEF Requested
      <4> QED
        BY <2>1, <2>6, <3>3, <4>2
    <3>4. CASE i \in 1 .. Len(ftsIn[p])
      BY <2>3, <2>6, <3>1, <3>4 DEF Requested
    <3> QED
      BY <2>3, <2>6, <3>2, <3>3, <3>4
  <2> QED
    BY <2>5, <2>6
<1> QED
  BY <1>2, <1>3

\* The steps of C2 keep AskInv: a client asks where it has not, connects to the session
\* whose 0x03 it has validated, and sends to the session it connected to.
LEMMA AskedByC2 ==
  ASSUME TypeOK, AskInv, NEW c \in Client, C2(c) PROVE AskInv'
<1> DEFINE o == c2[c].port
<1>1. o \in Port /\ UNCHANGED ftsUp
  BY C2Place
<1>2. ServesClient'
  <2>1. SUFFICES ASSUME NEW p \in Port
                 PROVE  Serves(p)'
    BY DEF ServesClient
  <2>2. CASE ses'[p] = ses[p]
    BY <2>2 DEF AskInv, ServesClient, Serves, HasData
  <2>3. CASE Handshake(c) /\ p = o /\ ftsUp /\ ses[p].pc = "accept" /\ ses[p].from = None
             /\ ses'[p].from = c /\ ses'[p].closed = ses[p].closed
             /\ ses'[p].spool = ses[p].spool
    <3>1. c2[c].pc = "connect"
      BY <2>3 DEF Handshake
    <3>2. ses[p].client = c /\ ~HasData(p)
      BY <2>3, <3>1 DEF AskInv, ClientHeld, HeldFor, HasData
    <3> QED
      BY <2>3, <3>2, C2Marks, ConstantFacts DEF Serves, HasData
  <2>4. CASE p = o /\ Reads(c) /\ ses'[p].from = c
    <3>1. ses[p].pc = "accept" /\ ses[p].from = c
      BY <2>4 DEF Reads
    <3>2. ses'[p].pc = "accept" /\ ses'[p].client = ses[p].client
      BY <3>1, C2Marks
    <3> QED
      BY <2>4, <3>1, <3>2, ConstantFacts DEF AskInv, ServesClient, Serves, HasData
  <2> QED
    BY <2>2, <2>3, <2>4, C2Marks
<1>3. AskedOnce'
  <2>1. SUFFICES ASSUME NEW k \in Client, NEW p \in Port
                 PROVE  (/\ ses[p].client = k => AskedAt(k, p)
                         /\ \A i \in Nat : Requested(k, p, i) =>
                              /\ AskedAt(k, p) /\ ses[p].client # k
                              /\ \A j \in Nat : Requested(k, p, j) => i = j)'
    BY DEF AskedOnce
  <2>2. (ses[p].client = k => AskedAt(k, p))'
    BY C2Marks, AskedStays DEF AskInv, AskedOnce
  <2>3. SUFFICES ASSUME NEW i \in Nat, Requested(k, p, i)'
                 PROVE  /\ AskedAt(k, p)' /\ ses'[p].client # k
                        /\ \A j \in Nat : Requested(k, p, j)' => i = j
    BY <2>2
  <2>4. CASE Requested(k, p, i)
    <3>1. AskedAt(k, p) /\ ses[p].client # k
      BY <2>4 DEF AskInv, AskedOnce
    <3>2. AskedAt(k, p)' /\ ses'[p].client # k
      BY <3>1, AskedStays, C2Marks
    <3>3. ASSUME NEW j \in Nat, Requested(k, p, j)' PROVE i = j
      <4>1. CASE Requested(k, p, j)
        BY <2>4, <4>1 DEF AskInv, AskedOnce
      <4>2. CASE k = c /\ p = o /\ Request(c)
        BY <3>1, <4>2, AskedStays
      <4> QED
        BY <3>3, <4>1, <4>2, C2Requests
    <3> QED
      BY <3>2, <3>3
  <2>5. CASE k = c /\ p = o /\ Request(c) /\ i = Len(ftsIn[p]) + 1
    <3>1. ~AskedAt(k, p) /\ AskedAt(k, p)'
      BY <2>5, AskedStays
    <3>2. ses'[p].client # k
      BY <3>1, C2Marks DEF AskInv, AskedOnce
    <3>3. \A j \in Nat : ~Requested(k, p, j)
      BY <3>1 DEF AskInv, AskedOnce
    <3>4. \A j \in Nat : Requested(k, p, j)' => i = j
      BY <2>5, <3>3, C2Requests
    <3> QED
      BY <3>1, <3>2, <3>4
  <2> QED
    BY <2>3, <2>4, <2>5, C2Requests
<1>4. AnswerHeld'
  <2>1. SUFFICES ASSUME NEW k \in Client, NEW p \in Port, NEW i \in Nat, Validated(k, i, p)'
                 PROVE  /\ AskedAt(k, p)'
                        /\ c2'[k].pc = "wait" /\ c2'[k].port = p => HeldFor(p, k)'
    BY DEF AnswerHeld
  <2>2. \E j \in Nat : Validated(k, j, p)
    BY <2>1, C2Hears
  <2>3. AskedAt(k, p) /\ (c2[k].pc = "wait" /\ c2[k].port = p => HeldFor(p, k))
    BY <2>2 DEF AskInv, AnswerHeld
  <2>4. AskedAt(k, p)'
    BY <2>3, AskedStays
  <2>5. ASSUME c2'[k].pc = "wait", c2'[k].port = p PROVE HeldFor(p, k)'
    <3>1. CASE k = c
      <4>1. c2[c].pc = "scan" /\ c2[c].port = p
        BY <2>5, <3>1, C2Points
      <4> QED
        BY <2>3, <3>1, <4>1, ConstantFacts DEF AskedAt
    <3>2. CASE k # c
      <4>1. HeldFor(p, k)
        BY <2>3, <2>5, <3>2, C2Points
      <4> QED
        BY <3>2, <4>1, HeldC2
    <3> QED
      BY <3>1, <3>2
  <2> QED
    BY <2>4, <2>5
<1>5. ClientHeld'
  <2>1. SUFFICES ASSUME NEW k \in Client, NEW p \in Port, c2'[k].port = p
                 PROVE  /\ c2'[k].pc = "connect" => HeldFor(p, k)'
                        /\ c2'[k].pc = "stream" /\ ftsUp' =>
                             /\ ses'[p].pc = "accept" /\ ses'[p].from = k
                             /\ ~HasData(p)'
    BY DEF ClientHeld, HasData
  <2>2. CASE k # c
    <3>1. c2'[k] = c2[k] /\ c2[k].port = p
      BY <2>1, <2>2, C2Points
    <3>2. c2[k].pc = "connect" => HeldFor(p, k)'
      BY <2>2, <3>1, HeldC2 DEF AskInv, ClientHeld, HasData
    <3>3. c2[k].pc = "stream" /\ ftsUp =>
            ses'[p].pc = "accept" /\ ses'[p].from = k /\ ~HasData(p)'
      BY <2>2, <3>1, StreamedC2 DEF AskInv, ClientHeld, HasData
    <3> QED
      BY <1>1, <3>1, <3>2, <3>3
  <2>3. CASE k = c /\ c2'[c].pc = "connect"
    <3>1. /\ Response(c) /\ c2[c].pc = "wait" /\ c2In[c] # <<>>
          /\ Head(c2In[c]).type = "validation" /\ Head(c2In[c]).port = o /\ p = o
      BY <2>1, <2>3, C2Points
    <3>2. c2In[c] \in Seq(AskC2)
      BY DEF TypeOK, C2TypeOK
    <3>3. Validated(c, 1, p)
      BY <3>1, <3>2, EmptySeq, HeadTailProperties DEF Validated
    <3>4. HeldFor(p, c)
      BY <3>1, <3>3 DEF AskInv, AnswerHeld
    <3>5. UNCHANGED ses
      BY <3>1 DEF Response, ftsVars
    <3> QED
      BY <1>1, <2>3, <3>4, <3>5 DEF HeldFor, HasData
  <2>4. CASE k = c /\ c2'[c].pc = "stream"
    <3>1. /\ c2[c].pc = "connect" /\ ftsUp /\ ses[p].pc = "accept" /\ ses[p].from = None
          /\ ses' = [ses EXCEPT ![p].from = c] /\ p = o
      BY <2>1, <2>4, C2Points
    <3>2. ~HasData(p)
      BY <3>1, Fields DEF AskInv, ServesClient, Serves, HasData
    <3>3. /\ ses'[p].pc = "accept" /\ ses'[p].from = c /\ ses'[p].closed = ses[p].closed
          /\ ses'[p].spool = ses[p].spool
      BY <3>1, Fields DEF SessionState, TypeOK, FtsTypeOK
    <3> QED
      BY <2>4, <3>2, <3>3 DEF HasData
  <2>5. CASE k = c /\ c2'[c].pc \notin {"connect", "stream"}
    BY <2>5
  <2> QED
    BY <2>2, <2>3, <2>4, <2>5
<1> QED
  BY <1>2, <1>3, <1>4, <1>5 DEF AskInv

-----------------------------------------------------------------------------
(* AskInv in the steps of the sessions and of the FSS.                     *)

\* Taking the first message of a queue moves the requests up by one.
LEMMA RequestTail ==
  ASSUME TypeOK, NEW p \in Port, ftsIn[p] # <<>>, ftsIn' = [ftsIn EXCEPT ![p] = Tail(@)],
         NEW k \in Client, NEW q \in Port, NEW i \in Nat, Requested(k, q, i)'
  PROVE  i > 0 /\ Requested(k, q, IF q = p THEN i + 1 ELSE i)
<1>1. ftsIn \in [Port -> Seq(Answer)]
  BY DEF TypeOK, FtsTypeOK
<1>2. CASE q = p
  <2> DEFINE t == Tail(ftsIn[p])
  <2>1. ftsIn'[q] = t
    BY <1>1, <1>2
  <2>2. /\ Len(t) = Len(ftsIn[p]) - 1 /\ Len(ftsIn[p]) \in Nat
        /\ \A n \in 1 .. Len(t) : t[n] = ftsIn[p][n + 1]
    BY <1>1, HeadTailProperties
  <2>3. i \in 1 .. Len(t) /\ t[i].type = "request" /\ t[i].client = k
    BY <2>1 DEF Requested
  <2>4. i + 1 \in 1 .. Len(ftsIn[p]) /\ t[i] = ftsIn[p][i + 1]
    BY <2>2, <2>3
  <2> QED
    BY <1>2, <2>3, <2>4 DEF Requested
<1>3. CASE q # p
  <2>1. ftsIn'[q] = ftsIn[q]
    BY <1>1, <1>3
  <2> QED
    BY <1>3, <2>1 DEF Requested
<1> QED
  BY <1>2, <1>3

\* A step that starts no session and makes no request keeps AskedOnce.
LEMMA OnceKept ==
  ASSUME TypeOK, AskInv, NEW p \in Port, NEW d \in Nat, UNCHANGED c2,
         \A q \in Port : ses'[q].client \in {ses[q].client, None},
         \A k \in Client, q \in Port, i \in Nat :
           Requested(k, q, i)' => Requested(k, q, IF q = p THEN i + d ELSE i)
  PROVE  AskedOnce'
<1> DEFINE K(q, i) == IF q = p THEN i + d ELSE i
<1>1. SUFFICES ASSUME NEW k \in Client, NEW q \in Port
               PROVE  /\ ses'[q].client = k => AskedAt(k, q)
                      /\ \A i \in Nat : Requested(k, q, i)' =>
                           /\ AskedAt(k, q) /\ ses'[q].client # k
                           /\ \A j \in Nat : Requested(k, q, j)' => i = j
  BY DEF AskedOnce, AskedAt
<1>2. ses'[q].client = k => ses[q].client = k
  BY ConstantFacts
<1>3. ASSUME NEW i \in Nat, Requested(k, q, i)'
      PROVE  K(q, i) \in Nat /\ Requested(k, q, K(q, i))
  BY <1>3
<1>4. ASSUME NEW i \in Nat, NEW j \in Nat, Requested(k, q, i)', Requested(k, q, j)'
      PROVE  i = j
  <2>1. K(q, i) = K(q, j)
    BY <1>3, <1>4 DEF AskInv, AskedOnce
  <2> QED
    BY <2>1
<1> QED
  BY <1>2, <1>3, <1>4 DEF AskInv, AskedOnce

\* A step of a session that waits for no client leaves the clients served.
LEMMA HeldKept ==
  ASSUME TypeOK, AskInv, NEW p \in Port, UNCHANGED <<c2, ftsUp>>,
         \A q \in Port : q # p => ses'[q] = ses[q],
         ses[p].pc = "accept" => HasData(p), Serves(p)',
         \A k \in Client, q \in Port, i \in Nat : Validated(k, i, q)' =>
           \/ \E j \in Nat : Validated(k, j, q)
           \/ q = p /\ AskedAt(k, p) /\ HeldFor(p, k)'
  PROVE  ServesClient' /\ AnswerHeld' /\ ClientHeld'
<1>1. ASSUME NEW k \in Client, NEW q \in Port, HeldFor(q, k) PROVE HeldFor(q, k)'
  BY <1>1 DEF HeldFor, AskInv, ServesClient, Serves, HasData
<1>2. ServesClient'
  BY DEF AskInv, ServesClient, Serves, HasData
<1>3. AnswerHeld'
  <2>1. SUFFICES ASSUME NEW k \in Client, NEW q \in Port, NEW i \in Nat, Validated(k, i, q)'
                 PROVE  /\ AskedAt(k, q)
                        /\ c2[k].pc = "wait" /\ c2[k].port = q => HeldFor(q, k)'
    BY DEF AnswerHeld, AskedAt
  <2>2. CASE \E j \in Nat : Validated(k, j, q)
    BY <1>1, <2>2 DEF AskInv, AnswerHeld
  <2>3. CASE q = p /\ AskedAt(k, p) /\ HeldFor(p, k)'
    BY <2>3
  <2> QED
    BY <2>1, <2>2, <2>3
<1>4. ClientHeld'
  <2>1. SUFFICES ASSUME NEW k \in Client, NEW q \in Port, c2[k].port = q
                 PROVE  /\ c2[k].pc = "connect" => HeldFor(q, k)'
                        /\ c2[k].pc = "stream" /\ ftsUp =>
                             /\ ses'[q].pc = "accept" /\ ses'[q].from = k
                             /\ ~HasData(q)'
    BY DEF ClientHeld, HasData
  <2> QED
    BY <1>1, <2>1 DEF AskInv, ClientHeld, HasData
<1> QED
  BY <1>2, <1>3, <1>4

\* A step of a session that neither starts one nor asks keeps AskInv, when it waits for
\* no client and becomes one that a client is served by, or none.
LEMMA AskKept ==
  ASSUME TypeOK, AskInv, NEW p \in Port, UNCHANGED <<c2, ftsUp>>,
         UNCHANGED ftsIn \/ (ftsIn[p] # <<>> /\ ftsIn' = [ftsIn EXCEPT ![p] = Tail(@)]),
         \A q \in Port : q # p => ses'[q] = ses[q],
         ses'[p].client \in {ses[p].client, None},
         ses[p].pc = "accept" => HasData(p), Serves(p)',
         \A k \in Client, q \in Port, i \in Nat : Validated(k, i, q)' =>
           \/ \E j \in Nat : Validated(k, j, q)
           \/ q = p /\ AskedAt(k, p) /\ HeldFor(p, k)'
  PROVE  AskInv'
<1>1. ServesClient' /\ AnswerHeld' /\ ClientHeld'
  BY HeldKept
<1>2. \A q \in Port : ses'[q].client \in {ses[q].client, None}
  OBVIOUS
<1>3. AskedOnce'
  <2>1. CASE UNCHANGED ftsIn
    <3>1. \A k \in Client, q \in Port, i \in Nat :
            Requested(k, q, i)' => Requested(k, q, IF q = p THEN i + 0 ELSE i)
      BY <2>1 DEF Requested
    <3>2. 0 \in Nat
      OBVIOUS
    <3> QED
      BY <1>2, <3>1, <3>2, OnceKept
  <2>2. CASE ftsIn[p] # <<>> /\ ftsIn' = [ftsIn EXCEPT ![p] = Tail(@)]
    <3>1. \A k \in Client, q \in Port, i \in Nat :
            Requested(k, q, i)' => Requested(k, q, IF q = p THEN i + 1 ELSE i)
      BY <2>2, RequestTail
    <3>2. 1 \in Nat
      OBVIOUS
    <3> QED
      BY <1>2, <3>1, <3>2, OnceKept
  <2> QED
    BY <2>1, <2>2
<1> QED
  BY <1>1, <1>3 DEF AskInv

\* A port that is given up has no client.
LEMMA FreeServes ==
  ASSUME TypeOK, NEW p \in Port
  PROVE  /\ FreeSession.pc = "free" /\ FreeSession.client = None /\ FreeSession.from = None
         /\ FreeSession.closed = FALSE /\ FreeSession.spool = 0
         /\ ses'[p] = FreeSession => Serves(p)' /\ ses'[p].client = None
<1>1. /\ FreeSession.pc = "free" /\ FreeSession.client = None /\ FreeSession.from = None
      /\ FreeSession.closed = FALSE /\ FreeSession.spool = 0
  BY DEF FreeSession
<1> QED
  BY <1>1 DEF Serves, HasData

\* A request that starts a session is the only one of its client at the port.
LEMMA AskDispatch ==
  ASSUME TypeOK, AskInv, NEW p \in Port, Dispatch(p) PROVE AskInv'
<1> DEFINE m == Head(ftsIn[p])
           r == [ses[p] EXCEPT !.pc = "forward", !.client = m.client, !.name = m.name]
<1>1. /\ ses \in [Port -> SessionState] /\ ftsIn[p] \in Seq(Answer)
      /\ ses[p].pc = "free" /\ ftsIn[p] # <<>> /\ ftsIn' = [ftsIn EXCEPT ![p] = Tail(@)]
      /\ UNCHANGED <<c2, c2In, ftsUp>>
  BY DEF Dispatch, TypeOK, FtsTypeOK, c2Vars
<1>2. \A k \in Client, q \in Port, i \in Nat : Validated(k, i, q)' => Validated(k, i, q)
  BY <1>1 DEF Validated
<1>3. CASE m.type # "request"
  <2>1. UNCHANGED ses
    BY <1>3 DEF Dispatch
  <2>2. Serves(p)' /\ ses'[p].client = ses[p].client
    BY <2>1 DEF AskInv, ServesClient, Serves, HasData
  <2> QED
    BY <1>1, <1>2, <2>1, <2>2, AskKept
<1>4. CASE m.type = "request"
  <2>1. ses' = [ses EXCEPT ![p] = r]
    BY <1>1, <1>4 DEF Dispatch
  <2>2. /\ r.pc = "forward" /\ r.client = m.client /\ r.from = ses[p].from
        /\ r.closed = ses[p].closed /\ r.spool = ses[p].spool
    BY <1>1 DEF SessionState
  <2> HIDE DEF r
  <2>3. \A q \in Port : ses'[q] = IF q = p THEN r ELSE ses[q]
    BY <1>1, <2>1
  <2>4. /\ \A q \in Port : q # p => ses'[q] = ses[q]
        /\ ses'[p].client = m.client /\ Serves(p)' /\ ses[p].client = None
    BY <1>1, <2>2, <2>3 DEF AskInv, ServesClient, Serves, HasData
  <2>5. ServesClient' /\ AnswerHeld' /\ ClientHeld'
    <3>1. ses[p].pc = "accept" => HasData(p)
      BY <1>1
    <3> HIDE DEF m
    <3> QED
      BY <1>1, <1>2, <2>4, <3>1, HeldKept
  <2>6. m \in Answer /\ m = ftsIn[p][1] /\ 1 \in 1 .. Len(ftsIn[p])
    BY <1>1, EmptySeq, HeadTailProperties
  <2>7. m.client \in Client /\ Requested(m.client, p, 1)
    BY <1>4, <2>6 DEF Answer, Requested
  <2> DEFINE K(q, i) == IF q = p THEN i + 1 ELSE i
  <2>8. ASSUME NEW k \in Client, NEW q \in Port, NEW i \in Nat, Requested(k, q, i)'
        PROVE  i > 0 /\ K(q, i) \in Nat /\ Requested(k, q, K(q, i))
    <3>1. i > 0 /\ Requested(k, q, IF q = p THEN i + 1 ELSE i)
      BY <1>1, <2>8, RequestTail
    <3> QED
      BY <3>1
  <2> HIDE DEF m
  <2>9. AskedOnce'
    <3>1. SUFFICES ASSUME NEW k \in Client, NEW q \in Port
                   PROVE  /\ ses'[q].client = k => AskedAt(k, q)
                          /\ \A i \in Nat : Requested(k, q, i)' =>
                               /\ AskedAt(k, q) /\ ses'[q].client # k
                               /\ \A j \in Nat : Requested(k, q, j)' => i = j
      BY <1>1 DEF AskedOnce, AskedAt
    <3>2. ses'[q].client = k => AskedAt(k, q)
      BY <2>4, <2>7 DEF AskInv, AskedOnce
    <3>3. ASSUME NEW i \in Nat, Requested(k, q, i)'
          PROVE  AskedAt(k, q) /\ ses'[q].client # k
      <4>1. i > 0 /\ K(q, i) \in Nat /\ Requested(k, q, K(q, i))
        BY <2>8, <3>3
      <4>2. AskedAt(k, q) /\ ses[q].client # k
        BY <4>1 DEF AskInv, AskedOnce
      <4>3. ASSUME q = p, m.client = k PROVE FALSE
        <5>1. i + 1 \in Nat /\ Requested(k, p, i + 1) /\ Requested(k, p, 1)
          BY <2>7, <4>1, <4>3
        <5>2. i + 1 = 1
          BY <5>1 DEF AskInv, AskedOnce
        <5> QED
          BY <4>1, <5>2
      <4> QED
        BY <2>4, <4>2, <4>3
    <3>4. ASSUME NEW i \in Nat, NEW j \in Nat, Requested(k, q, i)', Requested(k, q, j)'
          PROVE  i = j
      <4>1. K(q, i) = K(q, j)
        <5>1. /\ K(q, i) \in Nat /\ Requested(k, q, K(q, i))
              /\ K(q, j) \in Nat /\ Requested(k, q, K(q, j))
          BY <2>8, <3>4
        <5> HIDE DEF K
        <5> QED
          BY <5>1 DEF AskInv, AskedOnce
      <4> QED
        BY <4>1
    <3> QED
      BY <3>2, <3>3, <3>4
  <2> QED
    BY <2>5, <2>9 DEF AskInv
<1> QED
  BY <1>3, <1>4

\* A session that takes a datagram sends the 0x03 to the client it then waits for.
LEMMA AskHear ==
  ASSUME TypeOK, AskInv, NEW p \in Port, ftsUp, Hear(p) PROVE AskInv'
<1> DEFINE h == Head(ftsIn[p])
           c == ses[p].client
<1>1. /\ ses \in [Port -> SessionState] /\ ses[p] \in SessionState
      /\ c2In \in [Client -> Seq(AskC2)]
      /\ ses[p].pc = "wait" /\ ftsIn[p] # <<>> /\ ftsIn' = [ftsIn EXCEPT ![p] = Tail(@)]
      /\ UNCHANGED <<c2, ftsUp>> /\ c \in Client /\ Phrase[c] \in {Phrase[k] : k \in Client}
  BY DEF Hear, TypeOK, FtsTypeOK, C2TypeOK, SessionState
<1>2. /\ c \in {ses[p].client, None} /\ AskedAt(c, p)
      /\ ses[p].from = None /\ ~HasData(p)
  BY <1>1 DEF AskInv, ServesClient, Serves, AskedOnce, HasData
<1>3. ASSUME NEW x \in AskC2, NEW q \in Send(c2In[c], x, Asking(c)),
             c2In' = [c2In EXCEPT ![c] = q],
             NEW k \in Client, NEW n \in Port, NEW i \in Nat, Validated(k, i, n)'
      PROVE  \/ Validated(k, i, n)
             \/ k = c /\ x.type = "validation" /\ x.port = n
  <2>1. c2In'[k] = IF k = c THEN q ELSE c2In[k]
    BY <1>1, <1>3
  <2>2. CASE c2In'[k] = c2In[k]
    BY <1>3, <2>2 DEF Validated
  <2>3. CASE k = c /\ c2In'[k] = Append(c2In[k], x)
    <3>1. /\ Len(Append(c2In[k], x)) = Len(c2In[k]) + 1 /\ Len(c2In[k]) \in Nat
          /\ \A j \in 1 .. Len(c2In[k]) : Append(c2In[k], x)[j] = c2In[k][j]
          /\ Append(c2In[k], x)[Len(c2In[k]) + 1] = x
      BY <1>1, AppendProperties
    <3>2. i \in 1 .. Len(c2In[k]) + 1
      BY <1>3, <2>3, <3>1 DEF Validated
    <3>3. CASE i \in 1 .. Len(c2In[k])
      BY <1>3, <2>3, <3>1, <3>3 DEF Validated
    <3>4. CASE i = Len(c2In[k]) + 1
      <4>1. c2In'[k][i] = x
        BY <2>3, <3>1, <3>4
      <4> QED
        BY <1>3, <2>3, <4>1 DEF Validated
    <3> QED
      BY <3>1, <3>2, <3>3, <3>4
  <2> QED
    BY <1>3, <2>1, <2>2, <2>3 DEF Send
<1>4. ASSUME NEW r, ses' = [ses EXCEPT ![p] = r]
      PROVE  ses'[p] = r /\ \A q \in Port : q # p => ses'[q] = ses[q]
  BY <1>1, <1>4
<1>5. ASSUME ses' = [ses EXCEPT ![p] = FreeSession],
             \A k \in Client, n \in Port, i \in Nat : Validated(k, i, n)' => Validated(k, i, n)
      PROVE  AskInv'
  <2>1. ses'[p] = FreeSession /\ \A q \in Port : q # p => ses'[q] = ses[q]
    BY <1>4, <1>5
  <2>2. Serves(p)' /\ ses'[p].client = None
    BY <2>1, FreeServes
  <2> QED
    BY <1>1, <1>5, <2>1, <2>2, AskKept
<1>6. CASE /\ ses' = [ses EXCEPT ![p] = FreeSession]
           /\ \E q \in Send(c2In[c], [type |-> "exists", port |-> p, phrase |-> Phrase[c]],
                            Asking(c)) : c2In' = [c2In EXCEPT ![c] = q]
  <2> DEFINE x == [type |-> "exists", port |-> p, phrase |-> Phrase[c]]
  <2>1. x \in AskC2 /\ x.type # "validation"
    BY <1>1 DEF AskC2
  <2>2. PICK q \in Send(c2In[c], x, Asking(c)) : c2In' = [c2In EXCEPT ![c] = q]
    BY <1>6
  <2> HIDE DEF x
  <2>3. \A k \in Client, n \in Port, i \in Nat : Validated(k, i, n)' => Validated(k, i, n)
    BY <1>3, <2>1, <2>2
  <2> QED
    BY <1>5, <1>6, <2>3
<1>7. CASE /\ ses' = [ses EXCEPT ![p] = [@ EXCEPT !.pc = "accept", !.conn = h.conn]]
           /\ Accepts(p, h)
           /\ \E q \in Send(c2In[c], [type |-> "validation", port |-> p,
                                      phrase |-> Decoded(p, h)], Asking(c)) :
                c2In' = [c2In EXCEPT ![c] = q]
  <2> DEFINE x == [type |-> "validation", port |-> p, phrase |-> Decoded(p, h)]
             r == [ses[p] EXCEPT !.pc = "accept", !.conn = h.conn]
  <2>1. x \in AskC2 /\ x.port = p
    <3>1. Decoded(p, h) = Phrase[c]
      BY <1>7 DEF Decoded, Accepts
    <3> QED
      BY <1>1, <3>1 DEF AskC2
  <2>2. PICK q \in Send(c2In[c], x, Asking(c)) : c2In' = [c2In EXCEPT ![c] = q]
    BY <1>7
  <2>3. ses' = [ses EXCEPT ![p] = r]
    BY <1>1, <1>7
  <2>4. /\ r.pc = "accept" /\ r.client = c /\ r.from = ses[p].from
        /\ r.closed = ses[p].closed /\ r.spool = ses[p].spool
    BY <1>1 DEF SessionState
  <2> HIDE DEF r, x
  <2>5. ses'[p] = r /\ \A n \in Port : n # p => ses'[n] = ses[n]
    BY <1>1, <2>3
  <2>6. HeldFor(p, c)' /\ Serves(p)' /\ ses'[p].client = ses[p].client
    BY <1>2, <2>4, <2>5 DEF HeldFor, Serves, HasData
  <2>7. \A k \in Client, n \in Port, i \in Nat : Validated(k, i, n)' =>
          \/ \E j \in Nat : Validated(k, j, n)
          \/ n = p /\ AskedAt(k, p) /\ HeldFor(p, k)'
    <3>1. ASSUME NEW k \in Client, NEW n \in Port, NEW i \in Nat, Validated(k, i, n)'
          PROVE  Validated(k, i, n) \/ (k = c /\ n = p)
      BY <1>3, <2>1, <2>2, <3>1
    <3> QED
      BY <1>2, <2>6, <3>1
  <2>8. ses[p].pc = "accept" => HasData(p)
    BY <1>1
  <2> QED
    BY <1>1, <2>5, <2>6, <2>7, <2>8, AskKept
<1>8. CASE UNCHANGED c2In /\ ses' = [ses EXCEPT ![p] = FreeSession]
  <2>1. \A k \in Client, n \in Port, i \in Nat : Validated(k, i, n)' => Validated(k, i, n)
    BY <1>8 DEF Validated
  <2> QED
    BY <1>5, <1>8, <2>1
<1>9. CASE UNCHANGED c2In /\ ses' = [ses EXCEPT ![p] = Fail(p)]
  <2>1. \A k \in Client, n \in Port, i \in Nat : Validated(k, i, n)' => Validated(k, i, n)
    BY <1>9 DEF Validated
  <2>2. CASE Fail(p) = FreeSession
    BY <1>5, <1>9, <2>1, <2>2
  <2>3. CASE Fail(p) = [ses[p] EXCEPT !.fails = @ + 1]
    <3> DEFINE r == [ses[p] EXCEPT !.fails = @ + 1]
    <3>1. /\ r.pc = ses[p].pc /\ r.client = ses[p].client /\ r.from = ses[p].from
          /\ r.closed = ses[p].closed /\ r.spool = ses[p].spool
      BY <1>1 DEF SessionState
    <3>2. ses' = [ses EXCEPT ![p] = r]
      BY <1>9, <2>3
    <3> HIDE DEF r
    <3>3. ses'[p] = r /\ \A n \in Port : n # p => ses'[n] = ses[n]
      BY <1>1, <3>2
    <3>4. Serves(p)' /\ ses'[p].client = ses[p].client
      BY <1>1, <1>2, <3>1, <3>3 DEF Serves, HasData
    <3>5. ses[p].pc = "accept" => HasData(p)
      BY <1>1
    <3> QED
      BY <1>1, <2>1, <3>3, <3>4, <3>5, AskKept
  <2> QED
    BY <2>2, <2>3 DEF Fail
<1> QED
  BY <1>6, <1>7, <1>8, <1>9 DEF Hear

\* The steps of a session keep AskInv.
LEMMA AskedByFts ==
  ASSUME TypeOK, AskInv, NEW p \in Port, Fts(p) PROVE AskInv'
<1>1. /\ ses \in [Port -> SessionState] /\ ses[p] \in SessionState /\ ftsUp
      /\ Serves(p)
  BY DEF Fts, TypeOK, FtsTypeOK, AskInv, ServesClient
<1>2. ASSUME UNCHANGED <<c2, c2In, ftsUp, ftsIn>>,
             \A q \in Port : q # p => ses'[q] = ses[q],
             ses'[p].client \in {ses[p].client, None},
             ses[p].pc = "accept" => HasData(p), Serves(p)'
      PROVE  AskInv'
  <2>1. \A k \in Client, n \in Port, i \in Nat : Validated(k, i, n)' => Validated(k, i, n)
    BY <1>2 DEF Validated
  <2> QED
    BY <1>2, <2>1, AskKept
<1>3. ASSUME UNCHANGED <<c2, c2In, ftsUp, ftsIn>>, ses' = [ses EXCEPT ![p] = FreeSession],
             ses[p].pc = "accept" => HasData(p)
      PROVE  AskInv'
  <2>1. ses'[p] = FreeSession /\ \A q \in Port : q # p => ses'[q] = ses[q]
    BY <1>1, <1>3
  <2>2. Serves(p)' /\ ses'[p].client = None
    BY <2>1, FreeServes
  <2> QED
    BY <1>2, <1>3, <2>1, <2>2
<1>4. CASE Forward(p)
  <2> DEFINE r == [ses[p] EXCEPT !.pc = "wait"]
  <2>1. /\ ses' = [ses EXCEPT ![p] = r] /\ UNCHANGED <<c2, c2In, ftsUp, ftsIn>>
        /\ ses[p].pc = "forward"
    BY <1>4, <1>1 DEF Forward, c2Vars
  <2>2. /\ r.pc = "wait" /\ r.client = ses[p].client /\ r.from = ses[p].from
        /\ r.closed = ses[p].closed /\ r.spool = ses[p].spool
    BY <1>1 DEF SessionState
  <2> HIDE DEF r
  <2>3. ses'[p] = r /\ \A q \in Port : q # p => ses'[q] = ses[q]
    BY <1>1, <2>1
  <2>4. Serves(p)' /\ ses'[p].client = ses[p].client
    BY <1>1, <2>1, <2>2, <2>3 DEF Serves, HasData
  <2> QED
    BY <1>2, <2>1, <2>3, <2>4
<1>5. CASE Silence(p)
  <2>1. /\ ses' = [ses EXCEPT ![p] = Fail(p)] /\ UNCHANGED <<c2, c2In, ftsUp, ftsIn>>
        /\ ses[p].pc = "wait"
    BY <1>5 DEF Silence, c2Vars
  <2>2. CASE Fail(p) = FreeSession
    BY <1>3, <2>1, <2>2
  <2>3. CASE Fail(p) = [ses[p] EXCEPT !.fails = @ + 1]
    <3> DEFINE r == [ses[p] EXCEPT !.fails = @ + 1]
    <3>1. /\ r.pc = ses[p].pc /\ r.client = ses[p].client /\ r.from = ses[p].from
          /\ r.closed = ses[p].closed /\ r.spool = ses[p].spool
      BY <1>1 DEF SessionState
    <3>2. ses' = [ses EXCEPT ![p] = r]
      BY <2>1, <2>3
    <3> HIDE DEF r
    <3>3. ses'[p] = r /\ \A n \in Port : n # p => ses'[n] = ses[n]
      BY <1>1, <3>2
    <3>4. Serves(p)' /\ ses'[p].client = ses[p].client
      BY <1>1, <3>1, <3>3 DEF Serves, HasData
    <3> QED
      BY <1>2, <2>1, <3>3, <3>4
  <2> QED
    BY <2>2, <2>3 DEF Fail
<1>6. CASE Dial(p)
  <2>1. ses[p].pc = "accept" /\ HasData(p) /\ UNCHANGED <<c2, c2In, ftsUp, ftsIn>>
    BY <1>6 DEF Dial, HasData, c2Vars
  <2>2. CASE ses' = [ses EXCEPT ![p] = FreeSession]
    BY <1>3, <2>1, <2>2
  <2>3. CASE ses' = [ses EXCEPT ![p].pc = "relay"]
    <3> DEFINE r == [ses[p] EXCEPT !.pc = "relay"]
    <3>1. /\ r.pc = "relay" /\ r.client = ses[p].client /\ r.from = ses[p].from
          /\ r.closed = ses[p].closed /\ r.spool = ses[p].spool
      BY <1>1 DEF SessionState
    <3>2. ses' = [ses EXCEPT ![p] = r]
      BY <1>1, <2>3
    <3> HIDE DEF r
    <3>3. ses'[p] = r /\ \A n \in Port : n # p => ses'[n] = ses[n]
      BY <1>1, <3>2
    <3>4. Serves(p)' /\ ses'[p].client = ses[p].client
      BY <1>1, <3>1, <3>3 DEF Serves, HasData
    <3> QED
      BY <1>2, <2>1, <3>3, <3>4
  <2> QED
    BY <1>6, <2>2, <2>3 DEF Dial
<1>7. CASE Relay(p)
  <2>1. ses[p].pc = "relay" /\ UNCHANGED <<c2, c2In>>
    BY <1>7 DEF Relay, c2Vars
  <2>2. CASE ses' = [ses EXCEPT ![p].sent = @ + 1] /\ UNCHANGED <<ftsIn, ftsUp>>
    <3> DEFINE r == [ses[p] EXCEPT !.sent = @ + 1]
    <3>1. /\ r.pc = ses[p].pc /\ r.client = ses[p].client /\ r.from = ses[p].from
          /\ r.closed = ses[p].closed /\ r.spool = ses[p].spool
      BY <1>1 DEF SessionState
    <3>2. ses' = [ses EXCEPT ![p] = r]
      BY <1>1, <2>2
    <3> HIDE DEF r
    <3>3. ses'[p] = r /\ \A n \in Port : n # p => ses'[n] = ses[n]
      BY <1>1, <3>2
    <3>4. Serves(p)' /\ ses'[p].client = ses[p].client
      BY <1>1, <3>1, <3>3 DEF Serves, HasData
    <3> QED
      BY <1>2, <2>1, <2>2, <3>3, <3>4
  <2>3. CASE /\ ftsUp' = FALSE /\ ses' = [q \in Port |-> FreeSession]
             /\ ftsIn' = [q \in Port |-> <<>>]
    <3>1. \A q \in Port : Serves(q)' /\ ses'[q].client = None
      BY <2>3, FreeServes
    <3>2. \A k \in Client, q \in Port, i \in Nat : ~Requested(k, q, i)'
      BY <2>3, EmptySeq DEF Requested
    <3>3. AskedOnce'
      BY <3>1, <3>2, ConstantFacts DEF AskedOnce
    <3>4. AnswerHeld' /\ ClientHeld'
      BY <2>1, <2>3 DEF AskInv, AnswerHeld, ClientHeld, HeldFor, AskedAt, Validated, HasData
    <3> QED
      BY <3>1, <3>3, <3>4 DEF AskInv, ServesClient
  <2>4. CASE ses' = [ses EXCEPT ![p] = FreeSession] /\ UNCHANGED <<ftsIn, ftsUp>>
    BY <1>3, <2>1, <2>4
  <2> QED
    BY <1>7, <2>2, <2>3, <2>4 DEF Relay, Advance
<1>8. CASE SpoolFails(p) \/ RelayEnds(p)
  BY <1>3, <1>8 DEF SpoolFails, RelayEnds, HasData, c2Vars
<1> QED
  BY <1>1, <1>4, <1>5, <1>6, <1>7, <1>8, AskDispatch, AskHear DEF Fts

\* The steps of the FSS keep AskInv: it makes no request, and moves no session.
LEMMA AskedByFss ==
  ASSUME TypeOK, AskInv, Fss PROVE AskInv'
<1>1. UNCHANGED <<c2, c2In, ses, ftsUp>>
  BY FssAlone
<1>2. \A k \in Client, q \in Port, i \in Nat : Requested(k, q, i)' => Requested(k, q, i)
  <2>1. CASE UNCHANGED ftsIn
    BY <2>1 DEF Requested
  <2>2. ASSUME NEW o \in Port, NEW m \in Answer, m.type # "request",
               NEW x \in Send(ftsIn[o], m, ftsUp), ftsIn' = [ftsIn EXCEPT ![o] = x],
               NEW k \in Client, NEW q \in Port, NEW i \in Nat, Requested(k, q, i)'
        PROVE  Requested(k, q, i)
    <3>1. ftsIn \in [Port -> Seq(Answer)]
      BY DEF TypeOK, FtsTypeOK
    <3>2. CASE ftsIn'[q] = ftsIn[q]
      BY <2>2, <3>2 DEF Requested
    <3>3. CASE q = o /\ ftsIn'[q] = Append(ftsIn[q], m)
      <4>1. /\ Len(Append(ftsIn[q], m)) = Len(ftsIn[q]) + 1 /\ Len(ftsIn[q]) \in Nat
            /\ \A j \in 1 .. Len(ftsIn[q]) : Append(ftsIn[q], m)[j] = ftsIn[q][j]
            /\ Append(ftsIn[q], m)[Len(ftsIn[q]) + 1] = m
        BY <3>1, AppendProperties
      <4>2. i \in 1 .. Len(ftsIn[q]) + 1 /\ i # Len(ftsIn[q]) + 1
        BY <2>2, <3>3, <4>1 DEF Requested
      <4> QED
        BY <2>2, <3>3, <4>1, <4>2 DEF Requested
    <3> QED
      BY <2>2, <3>1, <3>2, <3>3 DEF Send
  <2>3. CASE Serve
    <3> DEFINE h == Head(fssIn)
    <3>1. fssIn \in Seq(AskFss) /\ fssIn # <<>> /\ fss.conn + 1 \in Nat
      BY <2>3 DEF Serve, TypeOK, FssTypeOK, FssState
    <3>2. h.port \in Port /\ h.client \in Client /\ h.name \in Name
      BY <2>3, FirstAsked
    <3>3. CASE \E q \in Send(ftsIn[h.port], [type |-> "exists", client |-> h.client,
                                             name |-> h.name, conn |-> 0], ftsUp) :
                 ftsIn' = [ftsIn EXCEPT ![h.port] = q]
      <4> DEFINE m == [type |-> "exists", client |-> h.client, name |-> h.name, conn |-> 0]
      <4>1. m \in Answer /\ m.type # "request"
        BY <3>2 DEF Answer
      <4>2. PICK x \in Send(ftsIn[h.port], m, ftsUp) : ftsIn' = [ftsIn EXCEPT ![h.port] = x]
        BY <3>3
      <4> HIDE DEF m, h
      <4> QED
        BY <2>2, <3>2, <4>1, <4>2
    <3>4. CASE \E q \in Send(ftsIn[h.port], [type |-> "accept", client |-> h.client,
                                             name |-> h.name, conn |-> fss.conn + 1], ftsUp) :
                 ftsIn' = [ftsIn EXCEPT ![h.port] = q]
      <4> DEFINE m == [type |-> "accept", client |-> h.client, name |-> h.name,
                       conn |-> fss.conn + 1]
      <4>1. m \in Answer /\ m.type # "request"
        BY <3>1, <3>2 DEF Answer
      <4>2. PICK x \in Send(ftsIn[h.port], m, ftsUp) : ftsIn' = [ftsIn EXCEPT ![h.port] = x]
        BY <3>4
      <4> HIDE DEF m, h
      <4> QED
        BY <2>2, <3>2, <4>1, <4>2
    <3> QED
      BY <2>1, <2>3, <3>3, <3>4 DEF Serve
  <2> QED
    BY <2>1, <2>3 DEF Fss, Accept, AcceptTimeout, ReceiveUnit, ReceiveEnds, ftsVars
<1>3. AskedOnce'
  BY <1>1, <1>2 DEF AskInv, AskedOnce, AskedAt
<1>4. ServesClient' /\ AnswerHeld' /\ ClientHeld'
  BY <1>1 DEF AskInv, ServesClient, Serves, AnswerHeld, ClientHeld, HeldFor, HasData, AskedAt,
              Validated
<1> QED
  BY <1>3, <1>4 DEF AskInv

-----------------------------------------------------------------------------
(* The invariants together.                                                *)

\* Whose data the FSS stores: what is known of the 0x02s, of the connection and its data,
\* and of the client each session serves.
DataInv == TypeOK /\ AnswerInv /\ StreamInv /\ AskInv /\ PhraseInv

\* At the start nothing has been sent, and nobody asked.
LEMMA DataInit == Init => DataInv
<1> SUFFICES ASSUME Init PROVE DataInv
  OBVIOUS
<1>1. /\ \A p \in Port : ses[p] = FreeSession /\ ftsIn[p] = <<>>
      /\ \A c \in Client : c2[c].pc = "scan" /\ c2In[c] = <<>>
      /\ \A n \in Name : owner[n] = None
      /\ fss.pc = "idle" /\ fss.from = None /\ fss.pipe = 0 /\ fss.rcvd = 0
  BY DEF Init, IdleFss
<1>2. /\ FreeSession.pc = "free" /\ FreeSession.client = None /\ FreeSession.from = None
      /\ FreeSession.closed = FALSE /\ FreeSession.spool = 0 /\ FreeSession.sent = 0
  BY DEF FreeSession
<1>3. /\ \A p \in Port, i \in Nat : ~Pending(p, i)
      /\ \A c \in Client, p \in Port, i \in Nat : ~Requested(c, p, i) /\ ~Validated(c, i, p)
  BY <1>1, EmptySeq DEF Pending, Requested, Validated
<1>4. AnswerInv
  BY <1>1, <1>2, <1>3 DEF AnswerInv, PendingKnown, AnsweredKnown, PendingOnce,
                          PendingUntaken, AnsweredOnce, Answered
<1>5. StreamInv /\ PhraseInv
  BY <1>1, <1>2 DEF StreamInv, SentByRelay, ConnectionState, SentIsReceived, FilesKept,
                    Listening, Connected, PhraseInv
<1>6. AskInv
  <2>1. ServesClient
    BY <1>1, <1>2 DEF ServesClient, Serves, HasData
  <2>2. AskedOnce
    BY <1>1, <1>2, <1>3, ConstantFacts DEF AskedOnce
  <2>3. AnswerHeld /\ ClientHeld
    BY <1>1, <1>3 DEF AnswerHeld, ClientHeld, HasData
  <2> QED
    BY <2>1, <2>2, <2>3 DEF AskInv
<1> QED
  BY <1>4, <1>5, <1>6, TypeInit DEF DataInv

\* Every step of C2, FTS or FSS keeps them.
LEMMA DataStep == DataInv /\ [Next]_vars => DataInv'
<1> SUFFICES ASSUME DataInv, [Next]_vars PROVE DataInv'
  OBVIOUS
<1>1. TypeOK /\ AnswerInv /\ StreamInv /\ AskInv /\ PhraseInv
  BY DEF DataInv
<1>2. TypeOK'
  BY <1>1, TypeStep
<1>3. CASE UNCHANGED vars
  <2>1. AnswerInv'
    BY <1>1, <1>3 DEF vars, c2Vars, ftsVars, fssVars, AnswerInv, PendingKnown, AnsweredKnown,
         PendingOnce, PendingUntaken, AnsweredOnce, Answered, Pending, Listening
  <2>2. StreamInv' /\ PhraseInv'
    BY <1>1, <1>3 DEF vars, c2Vars, ftsVars, fssVars, StreamInv, SentByRelay, ConnectionState,
         SentIsReceived, FilesKept, Listening, Connected, PhraseInv
  <2>3. AskInv'
    BY <1>1, <1>3 DEF vars, c2Vars, ftsVars, fssVars, AskInv, ServesClient, Serves, HasData,
         AskedOnce, AnswerHeld, ClientHeld, HeldFor, AskedAt, Requested, Validated
  <2> QED
    BY <1>2, <2>1, <2>2, <2>3 DEF DataInv
<1>4. ASSUME NEW c \in Client, C2(c) PROVE DataInv'
  BY <1>1, <1>2, <1>4, AnswerC2, StreamC2, AskedByC2 DEF DataInv
<1>5. ASSUME NEW p \in Port, Fts(p) PROVE DataInv'
  BY <1>1, <1>2, <1>5, AnswerFts, StreamFts, AskedByFts DEF DataInv
<1>6. CASE Fss
  BY <1>1, <1>2, <1>6, AnswerFss, StreamFss, AskedByFss DEF DataInv
<1> QED
  BY <1>3, <1>4, <1>5, <1>6 DEF Next

\* The invariants say what the runs check.
LEMMA DataSafe == DataInv => PhraseGuards /\ InStep
<1> SUFFICES ASSUME DataInv PROVE PhraseGuards /\ InStep
  OBVIOUS
<1>1. AnsweredKnown /\ ConnectionState /\ SentIsReceived /\ FilesKept /\ PhraseInv
  BY DEF DataInv, AnswerInv, StreamInv
<1>2. PhraseGuards
  BY <1>1 DEF PhraseGuards, AnsweredKnown, Answered, Listening, PhraseInv
<1>3. InStep
  BY <1>1 DEF InStep, ConnectionState, SentIsReceived, FilesKept
<1> QED
  BY <1>2, <1>3

\* However many clients and ports, and however late a 0x02 comes: a session talks to the
\* FSS, and a file is stored, only for a client whose phrase begins that of the client the
\* FSS answered (fts.c:525).
THEOREM PhraseSafe == Spec => []PhraseGuards
<1> QED
  BY DataInit, DataStep, DataSafe, PTL DEF Spec

\* What a session has sent is what the FSS has written or still has to read, of the
\* client that connected to that session; and a file never exceeds what fputs kept
\* (fts.c:629-668, tcpHandler.py:57-66).
THEOREM StreamSafe == Spec => []InStep
<1> QED
  BY DataInit, DataStep, DataSafe, PTL DEF Spec

\* However many clients and ports, and however late a 0x03 comes: the client that goes on to
\* connect does so to the session that answered it, which still waits, for nobody else
\* (udpHandler.py:145-149, fts.c:563-606).
THEOREM ConnectsToItsSession == Spec => []ConnectFinds
<1>1. DataInv => ConnectFinds
  <2> SUFFICES ASSUME DataInv, NEW c \in Client, c2[c].pc = "connect", ftsUp
               PROVE  LET s == ses[c2[c].port] IN
                        s.pc = "accept" /\ s.client = c /\ s.from = None
    BY DEF ConnectFinds
  <2>1. TypeOK /\ ClientHeld
    BY DEF DataInv, AskInv
  <2>2. c2[c].port \in Port
    BY <2>1, AtPort DEF TypeOK
  <2> QED
    BY <2>1, <2>2 DEF ClientHeld, HeldFor, HasData
<1> QED
  BY <1>1, DataInit, DataStep, PTL DEF Spec

-----------------------------------------------------------------------------
(* Why nothing but the loop of sendFile keeps a run of C2 from its end.    *)

\* The steps C2 has left at most outside that loop: two for each port, one to connect, one
\* to send, and the one that leaves the loop.
C2Rank(c) ==
  LET r == c2[c] IN
  CASE r.pc = "scan"    -> 2 * (NumPorts - r.port) + 3
    [] r.pc = "wait"    -> 2 * (NumPorts - r.port) + 2
    [] r.pc = "connect" -> 3
    [] r.pc = "stream"  -> 2
    [] r.pc = "resend"  -> 1
    [] OTHER            -> 0

\* A client never goes back to a port, or to a point it has passed, and only in the loop of
\* sendFile does it take a step and stay where it is.
C2GoesOn ==
  \A c \in Client :
    (C2(c) /\ c2[c].pc # "resend") \/ c2'[c] # c2[c] => C2Rank(c)' < C2Rank(c)

\* The order of the points in C2.py.
LEMMA C2Order ==
  ASSUME TypeOK, NEW c \in Client, C2(c)
  PROVE  /\ c2[c].pc \notin {"done", "failed"}
         /\ c2[c].pc = "scan" => c2'[c].pc = "wait"
         /\ c2[c].pc = "wait" => c2'[c].pc \in {"scan", "connect", "failed"}
         /\ c2[c].pc = "connect" => c2'[c].pc \in {"stream", "failed"}
         /\ c2[c].pc = "stream" => c2'[c].pc \in {"resend", "done", "failed"}
         /\ c2[c].pc = "resend" => c2'[c] = c2[c] \/ c2'[c].pc = "failed"
<1>0. c2 \in [Client -> C2State] /\ c2[c] \in C2State
  BY C2Place DEF TypeOK, C2TypeOK
<1>1. ASSUME NEW v, c2' = [c2 EXCEPT ![c].pc = v]
      PROVE  c2'[c].pc = v
  BY <1>0, <1>1 DEF C2State
<1>2. CASE Request(c)
  BY <1>1, <1>2 DEF Request
<1>3. CASE RequestTimeout(c) \/ Response(c)
  <2>1. c2[c].pc = "wait"
    BY <1>3 DEF RequestTimeout, Response
  <2>2. \E a : c2' = [c2 EXCEPT ![c] = a] /\ a.pc \in {"scan", "connect", "failed"}
    <3>1. NextPort(c).pc \in {"scan", "failed"}
      BY <1>0 DEF NextPort, C2State
    <3>2. \A a \in AfterExists(c) : a.pc \in {"scan", "failed"}
      <4>1. NextPort(c) \in [pc : {"scan", "failed"}, port : {c2[c].port + 1}, name : Name]
        BY <1>0 DEF NextPort, C2State
      <4>2. \A n \in Name : [NextPort(c) EXCEPT !.name = n].pc \in {"scan", "failed"}
        BY <4>1
      <4>3. [c2[c] EXCEPT !.pc = "failed"].pc = "failed"
        BY <1>0 DEF C2State
      <4> QED
        BY <4>2, <4>3 DEF AfterExists
    <3>3. \A v : [c2[c] EXCEPT !.pc = v].pc = v
      BY <1>0 DEF C2State
    <3>4. CASE RequestTimeout(c)
      BY <3>1, <3>4 DEF RequestTimeout
    <3>5. CASE Response(c)
      <4>1. CASE c2' = [c2 EXCEPT ![c] = NextPort(c)]
        BY <3>1, <4>1
      <4>2. CASE \E a \in AfterExists(c) : c2' = [c2 EXCEPT ![c] = a]
        BY <3>2, <4>2
      <4>3. ASSUME NEW v \in {"connect", "failed"}, c2' = [c2 EXCEPT ![c].pc = v]
            PROVE  \E a : c2' = [c2 EXCEPT ![c] = a] /\ a.pc \in {"scan", "connect", "failed"}
        <5> WITNESS [c2[c] EXCEPT !.pc = v]
        <5> QED
          BY <3>3, <4>3
      <4> QED
        BY <3>5, <4>1, <4>2, <4>3 DEF Response
    <3> QED
      BY <1>3, <3>4, <3>5
  <2> QED
    BY <1>0, <2>1, <2>2
<1>4. CASE Handshake(c)
  <2>1. c2[c].pc = "connect" /\ \E v \in {"stream", "failed"} : c2' = [c2 EXCEPT ![c].pc = v]
    BY <1>4 DEF Handshake
  <2> QED
    BY <1>1, <2>1
<1>5. CASE Sends(c)
  <2>1. c2[c].pc \in {"stream", "resend"}
    BY <1>5, SendsOnly DEF TypeOK
  <2>2. \E v \in {"resend", "done", "failed"} :
          c2' = [c2 EXCEPT ![c].pc = v] /\ (c2[c].pc = "resend" => v = "failed")
    BY <1>5, SendsOnly DEF TypeOK
  <2> QED
    BY <1>1, <2>1, <2>2
<1>6. CASE SendNothing(c)
  BY <1>6 DEF SendNothing, vars, c2Vars
<1> QED
  BY <1>2, <1>3, <1>4, <1>5, <1>6 DEF C2, C2Goes, Sends

\* A step of C2 is one step less, but in the loop of sendFile.
LEMMA C2Falls ==
  ASSUME TypeOK, TypeOK', NEW c \in Client, C2(c), c2'[c] # c2[c] \/ c2[c].pc # "resend"
  PROVE  C2Rank(c)' < C2Rank(c)
<1>1. /\ c2[c].pc \in C2Pcs /\ c2'[c].pc \in C2Pcs
      /\ c2[c].port \in Port /\ c2[c].port \in Int
      /\ NumPorts \in Nat /\ c2[c].port <= NumPorts - 1
  <2>1. c2[c] \in C2State /\ c2'[c] \in C2State /\ c2[c].port \in Port
    BY C2Place DEF TypeOK, C2TypeOK
  <2> QED
    BY <2>1, ConstantFacts DEF C2State
<1> DEFINE p == c2[c].port
           q == c2'[c].port
           pcn == c2'[c].pc
<1>2. \/ q = p /\ pcn # "scan"
      \/ q = p + 1 /\ pcn \in {"scan", "failed"}
      \/ c2'[c] = c2[c]
  BY C2Points
<1>3. c2[c].pc = "scan" => C2Rank(c) = 2 * (NumPorts - p) + 3 /\ C2Rank(c)' = 2 * (NumPorts - p) + 2
  BY <1>2, C2Order DEF C2Rank
<1>4. c2[c].pc = "wait" => /\ C2Rank(c) = 2 * (NumPorts - p) + 2
                           /\ C2Rank(c)' \in {0, 3, 2 * (NumPorts - (p + 1)) + 3}
  BY <1>1, <1>2, C2Order DEF C2Rank, C2Pcs
<1>5. c2[c].pc = "connect" => C2Rank(c) = 3 /\ C2Rank(c)' \in {0, 2}
  BY C2Order DEF C2Rank
<1>6. c2[c].pc = "stream" => C2Rank(c) = 2 /\ C2Rank(c)' \in {0, 1}
  BY C2Order DEF C2Rank
<1>9. c2[c].pc = "resend" => C2Rank(c) = 1 /\ C2Rank(c)' = 0
  BY C2Order DEF C2Rank
<1>7. c2[c].pc \in {"scan", "wait", "connect", "stream", "resend"}
  BY <1>1, C2Order DEF C2Pcs
<1>8. /\ 2 * (NumPorts - p) + 2 < 2 * (NumPorts - p) + 3
      /\ \A r \in {0, 3, 2 * (NumPorts - (p + 1)) + 3} : r < 2 * (NumPorts - p) + 2
      /\ \A r \in {0, 2} : r < 3
      /\ \A r \in {0, 1} : r < 2
  <2>1. p \in Int /\ NumPorts \in Int /\ p <= NumPorts - 1
    BY <1>1
  <2> HIDE DEF p
  <2> QED
    BY <2>1
<1> QED
  BY <1>3, <1>4, <1>5, <1>6, <1>7, <1>8, <1>9

\* What C2 has left is bounded by the number of ports.
THEOREM C2Bounded == Spec => [](\A c \in Client : C2Rank(c) \in 0 .. 2 * NumPorts + 3)
<1>1. TypeOK => \A c \in Client : C2Rank(c) \in 0 .. 2 * NumPorts + 3
  <2> SUFFICES ASSUME TypeOK, NEW c \in Client PROVE C2Rank(c) \in 0 .. 2 * NumPorts + 3
    OBVIOUS
  <2>1. c2[c].port \in 0 .. NumPorts /\ NumPorts \in Nat
    BY ConstantFacts DEF TypeOK, C2TypeOK, C2State
  <2>2. C2Rank(c) \in {0, 1, 2, 3, 2 * (NumPorts - c2[c].port) + 2,
                       2 * (NumPorts - c2[c].port) + 3}
    BY DEF C2Rank
  <2>3. \A p \in 0 .. NumPorts :
          {0, 1, 2, 3, 2 * (NumPorts - p) + 2, 2 * (NumPorts - p) + 3}
            \subseteq 0 .. 2 * NumPorts + 3
    BY <2>1
  <2> QED
    BY <2>1, <2>2, <2>3, Zenon
<1> QED
  BY <1>1, TransferTypeCorrect, PTL

\* Whatever the FTS, the FSS, the network and other clients do, a step of C2 brings it
\* closer to its end, and nothing takes it back, unless it is in the loop of sendFile after a
\* send that took a part of the file (tcpHandler.py:46), where it may stay for ever: with
\* C2Bounded, a run of C2.py takes at most two steps for each of its ports and three more,
\* and the passes of that loop, which change nothing.
THEOREM C2OnlyGoesOn == Spec => [][C2GoesOn]_vars
<1>1. ASSUME TypeOK, TypeOK', [Next]_vars PROVE [C2GoesOn]_vars
  <2>1. ASSUME NEW c \in Client, C2(c) PROVE C2GoesOn
    BY <1>1, <2>1, C2Falls, C2Points DEF C2GoesOn
  <2>2. ASSUME UNCHANGED c2 PROVE C2GoesOn
    BY <1>1, <2>2, C2Falls DEF C2GoesOn
  <2>3. ASSUME NEW p \in Port, Fts(p) PROVE UNCHANGED c2
    <3>1. CASE Dispatch(p) \/ Forward(p) \/ Silence(p)
      BY <3>1 DEF Dispatch, Forward, Silence, c2Vars
    <3>2. CASE Hear(p)
      BY <3>2 DEF Hear
    <3>3. CASE SpoolFails(p) \/ Dial(p) \/ RelayEnds(p)
      BY <3>3 DEF SpoolFails, Dial, RelayEnds, c2Vars
    <3>4. CASE Relay(p)
      <4>1. UNCHANGED <<c2Vars, fssIn, owner, got, askedBy>>
        BY <3>4 DEF Relay
      <4> QED
        BY <4>1 DEF c2Vars
    <3> QED
      BY <2>3, <3>1, <3>2, <3>3, <3>4 DEF Fts
  <2>4. CASE Fss
    BY <1>1, <2>2, <2>4, FssAlone
  <2> QED
    BY <1>1, <2>1, <2>2, <2>3, <2>4 DEF Next
<1> QED
  BY <1>1, TransferTypeCorrect, PTL DEF Spec
=============================================================================
