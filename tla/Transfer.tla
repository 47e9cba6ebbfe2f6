------------------------------ MODULE Transfer ------------------------------
(***************************************************************************)
(* One file from C2 to FTS to FSS: C2.py with requestTransfer and          *)
(* sendFile, the transferSession of each FTS port, FSS.py with recvFile,   *)
(* and the datagrams 0x00 .. 0x04 and two TCP connections between them.    *)
(*                                                                         *)
(* UDP loses datagrams and keeps their order; nothing bounds how long a    *)
(* process takes between two steps, so a reply can come after its asker    *)
(* gave up.  A file is a number of units; a name, a client and what they   *)
(* say of each other are values.  A port of the FTS has one session at a   *)
(* time and a free port picks up its next datagram: FtsPool has the        *)
(* listener, the threads, and what happens when that is not so.            *)
(***************************************************************************)
EXTENDS Integers, Sequences

CONSTANTS
  Client,       \* runs of C2.py
  Name,         \* file names at the FSS
  None,         \* no client
  NumPorts,     \* ports 16000 .. 17000 of the FTS, 1001 in the code
  Phrase,       \* Phrase[c]: the passphrase of client c, a sequence
  Size,         \* Size[c]: units in the file of client c
  Kept,         \* units of it that fputs keeps: up to the first NUL byte
  Undecodable   \* clients whose phrase or file the FSS may fail to decode

Port == 0 .. NumPorts - 1
NoPort == NumPorts

ASSUME TransferAssumption ==
  /\ None \notin Client
  /\ Name # {}
  /\ NumPorts \in Nat \ {0}
  /\ Size \in [Client -> Nat]
  /\ Kept \in [Client -> Nat]
  /\ \A c \in Client : Kept[c] <= Size[c]
  /\ Undecodable \subseteq Client

VARIABLES
  c2,       \* c2[c]: point in C2.py, port asked, name asked for
  c2In,     \* datagrams at the client's socket
  ses,      \* ses[p]: the session of port p
  ftsIn,    \* datagrams at port p
  ftsUp,    \* FALSE once SIGPIPE has ended the FTS
  fss,      \* the FSS process and its TCP connection
  fssIn,    \* datagrams at the FSS
  owner,    \* owner[n]: client whose data is in file n, None if no file
  got,      \* units in file n
  askedBy   \* auxiliary: client whose request made the FSS open file n

c2Vars == <<c2, c2In>>
ftsVars == <<ses, ftsIn, ftsUp>>
fssVars == <<fss, fssIn, owner, got, askedBy>>
vars == <<c2Vars, ftsVars, fssVars>>

AnyName == CHOOSE n \in Name : TRUE

\* No session: the port's descriptor is in the table.
FreeSession == [pc |-> "free", client |-> None, name |-> AnyName, fails |-> 0,
                conn |-> 0, from |-> None, spool |-> 0, closed |-> FALSE, sent |-> 0]

\* Between two transfers; conn counts the TCP listeners made so far, and from is
\* the client whose data the connection made to the last one carries.
IdleFss(n) == [pc |-> "idle", name |-> AnyName, by |-> None, conn |-> n,
               from |-> None, pipe |-> 0, closed |-> FALSE, rcvd |-> 0]

Init ==
  /\ c2 \in [Client -> [pc : {"scan"}, port : {0}, name : Name]]
  /\ c2In = [c \in Client |-> <<>>]
  /\ ses = [p \in Port |-> FreeSession]
  /\ ftsIn = [p \in Port |-> <<>>]
  /\ ftsUp = TRUE
  /\ fss = IdleFss(0)
  /\ fssIn = <<>>
  /\ owner = [n \in Name |-> None]
  /\ got = [n \in Name |-> 0]
  /\ askedBy = [n \in Name |-> None]

\* A datagram to a socket that is open is queued there, or lost.
Send(queue, m, up) == {queue} \cup (IF up THEN {Append(queue, m)} ELSE {})

\* requestTransfer has its socket open.
Asking(c) == c2[c].pc \in {"scan", "wait"}

-----------------------------------------------------------------------------
(* C2.py.                                                                  *)

\* Wrong form: the range is not respected.
NextPortPastLast(c) == [c2[c] EXCEPT !.port = @ + 1, !.pc = "scan"]

\* for ftsPort in range(16000,17001): ...; after the last port, give up.
NextPort(c) ==
  [c2[c] EXCEPT !.port = @ + 1, !.pc = IF c2[c].port + 1 = NumPorts THEN "failed" ELSE "scan"]

\* Wrong form: the new name goes to the same port.
AfterExistsSamePort(c) ==
  {[c2[c] EXCEPT !.pc = "scan", !.name = n] : n \in Name} \cup {[c2[c] EXCEPT !.pc = "failed"]}

\* The user gives another name, or 'exit'; a new name goes to the next port.
AfterExists(c) ==
  {[NextPort(c) EXCEPT !.name = n] : n \in Name} \cup {[c2[c] EXCEPT !.pc = "failed"]}

\* sock.sendto(pkt,(ftsAddr,ftsPort))
Request(c) ==
  /\ c2[c].pc = "scan"
  /\ c2' = [c2 EXCEPT ![c].pc = "wait"]
  /\ \E q \in Send(ftsIn[c2[c].port],
                   [type |-> "request", client |-> c, name |-> c2[c].name, conn |-> 0], ftsUp) :
       ftsIn' = [ftsIn EXCEPT ![c2[c].port] = q]
  /\ UNCHANGED <<c2In, ses, ftsUp, fssVars>>

\* 0.2 s without a datagram.
RequestTimeout(c) ==
  /\ c2[c].pc = "wait" /\ c2In[c] = <<>>
  /\ c2' = [c2 EXCEPT ![c] = NextPort(c)]
  /\ UNCHANGED <<c2In, ftsVars, fssVars>>

\* Wrong form: an answer of any port will do.
FromAnyPort(c, m) == TRUE

\* respPort == ftsPort
FromAsked(c, m) == m.port = c2[c].port

\* A datagram: skipped, with the port it came for, when it is from another port;
\* 0x04 asks the user for another name, or to exit; 0x03 is validated.
Response(c) ==
  LET m == Head(c2In[c]) IN
  /\ c2[c].pc = "wait" /\ c2In[c] # <<>>
  /\ c2In' = [c2In EXCEPT ![c] = Tail(@)]
  /\ \/ /\ ~FromAsked(c, m)
        /\ c2' = [c2 EXCEPT ![c] = NextPort(c)]
     \/ /\ FromAsked(c, m) /\ m.type = "exists"
        /\ \E a \in AfterExists(c) : c2' = [c2 EXCEPT ![c] = a]
     \/ /\ FromAsked(c, m) /\ m.type = "validation"
        /\ c2' = [c2 EXCEPT ![c].pc = IF m.phrase = Phrase[c] THEN "connect" ELSE "failed"]
  /\ UNCHANGED <<ftsVars, fssVars>>

\* tcp.handshake(): the port listens, or the exception ends the program; so do a
\* whitelist that is not there, and the user.
Handshake(c) ==
  LET p == c2[c].port IN
  /\ c2[c].pc = "connect"
  /\ \/ /\ ftsUp /\ ses[p].pc = "accept" /\ ses[p].from = None
        /\ c2' = [c2 EXCEPT ![c].pc = "stream"]
        /\ ses' = [ses EXCEPT ![p].from = c]
     \/ c2' = [c2 EXCEPT ![c].pc = "failed"] /\ UNCHANGED ses
  /\ UNCHANGED <<c2In, ftsIn, ftsUp, fssVars>>

\* The session reads c's connection.
Reads(c) == ses[c2[c].port].pc = "accept" /\ ses[c2[c].port].from = c

\* k units of c's file have come to the session, if it is there, and c has closed or not.
Delivered(c, k, closed) ==
  IF Reads(c) THEN [ses EXCEPT ![c2[c].port] = [@ EXCEPT !.spool = k, !.closed = closed]]
              ELSE ses

\* sent += self.socket.send(f.read()): the first pass reads the whole file, of which send
\* takes what fits; when that is all, close.  A time-out or the user ends C2 instead.
SendFile(c) ==
  /\ c2[c].pc = "stream"
  /\ \/ /\ c2' = [c2 EXCEPT ![c].pc = "done"]
        /\ ses' = Delivered(c, Size[c], TRUE)
     \/ \E k \in 1 .. Size[c] - 1 :
          /\ Reads(c)
          /\ c2' = [c2 EXCEPT ![c].pc = "resend"]
          /\ ses' = Delivered(c, k, FALSE)
     \/ /\ c2' = [c2 EXCEPT ![c].pc = "failed"]
        /\ ses' = Delivered(c, 0, TRUE)
  /\ UNCHANGED <<c2In, ftsIn, ftsUp, fssVars>>

\* while sent < size, once more: nothing is left to read, send(b'') returns 0, and the
\* loop goes on as it was.
SendNothing(c) == c2[c].pc = "resend" /\ UNCHANGED vars

\* What may end that loop, and need not: five seconds in which the socket is not writable,
\* a connection that was reset, the user.
SendBreaks(c) ==
  /\ c2[c].pc = "resend"
  /\ c2' = [c2 EXCEPT ![c].pc = "failed"]
  /\ ses' = Delivered(c, ses[c2[c].port].spool, TRUE)
  /\ UNCHANGED <<c2In, ftsIn, ftsUp, fssVars>>

C2Goes(c) ==
  Request(c) \/ RequestTimeout(c) \/ Response(c) \/ Handshake(c) \/ SendFile(c) \/ SendNothing(c)

C2(c) == C2Goes(c) \/ SendBreaks(c)

-----------------------------------------------------------------------------
(* The FTS: the session of port p.                                         *)

\* A datagram at a free port starts a session; threadClose follows at once
\* when it is not a request.
Dispatch(p) ==
  LET m == Head(ftsIn[p]) IN
  /\ ses[p].pc = "free" /\ ftsIn[p] # <<>>
  /\ ftsIn' = [ftsIn EXCEPT ![p] = Tail(@)]
  /\ ses' = IF m.type = "request"
              THEN [ses EXCEPT ![p] = [@ EXCEPT !.pc = "forward", !.client = m.client,
                                                 !.name = m.name]]
              ELSE ses
  /\ UNCHANGED <<c2Vars, ftsUp, fssVars>>

\* The 0x01: the phrase, encoded, and the file name.
Forward(p) ==
  /\ ses[p].pc = "forward"
  /\ ses' = [ses EXCEPT ![p].pc = "wait"]
  /\ fssIn' \in Send(fssIn, [port |-> p, client |-> ses[p].client, name |-> ses[p].name],
                     fss.pc # "exited")
  /\ UNCHANGED <<c2Vars, ftsIn, ftsUp, fss, owner, got, askedBy>>

\* A packet that is no answer, or 9 ms of silence; the third ends the session.
Fail(p) ==
  IF ses[p].fails + 1 = 3 THEN FreeSession ELSE [ses[p] EXCEPT !.fails = @ + 1]

Silence(p) ==
  /\ ses[p].pc = "wait" /\ ftsIn[p] = <<>>
  /\ ses' = [ses EXCEPT ![p] = Fail(p)]
  /\ UNCHANGED <<c2Vars, ftsIn, ftsUp, fssVars>>

Begins(a, b) == Len(a) <= Len(b) /\ SubSeq(b, 1, Len(a)) = a

\* Wrong form: any 0x02 will do.
AcceptsAny(p, m) == m.type = "accept"

\* unpackResponse: of the phrase that comes back, as many bytes as were sent are
\* compared with them.
Accepts(p, m) == m.type = "accept" /\ Begins(Phrase[ses[p].client], Phrase[m.client])

\* Those bytes are the phrase of the 0x03.
Decoded(p, m) ==
  IF Begins(Phrase[ses[p].client], Phrase[m.client]) THEN Phrase[ses[p].client]
                                                     ELSE Phrase[m.client]

Hear(p) ==
  LET m == Head(ftsIn[p])
      c == ses[p].client
  IN
  /\ ses[p].pc = "wait" /\ ftsIn[p] # <<>>
  /\ ftsIn' = [ftsIn EXCEPT ![p] = Tail(@)]
  /\ \/ /\ m.type = "exists"                 \* 0x04 goes on to the C2
        /\ ses' = [ses EXCEPT ![p] = FreeSession]
        /\ \E q \in Send(c2In[c],
                          [type |-> "exists", port |-> p, phrase |-> Phrase[c]], Asking(c)) :
             c2In' = [c2In EXCEPT ![c] = q]
     \/ /\ Accepts(p, m)                     \* the TCP listener, then 0x03
        /\ ses' = [ses EXCEPT ![p] = [@ EXCEPT !.pc = "accept", !.conn = m.conn]]
        /\ \E q \in Send(c2In[c], [type |-> "validation", port |-> p,
                                   phrase |-> Decoded(p, m)], Asking(c)) :
             c2In' = [c2In EXCEPT ![c] = q]
     \/ /\ Accepts(p, m)                     \* makeTCPSocket failed
        /\ ses' = [ses EXCEPT ![p] = FreeSession]
        /\ UNCHANGED c2In
     \/ /\ m.type # "exists" /\ ~Accepts(p, m)
        /\ ses' = [ses EXCEPT ![p] = Fail(p)]
        /\ UNCHANGED c2In
  /\ UNCHANGED <<c2, ftsUp, fssVars>>

\* fputs to the temporary file fails: the session ends and leaves the connection open.
SpoolFails(p) ==
  /\ ses[p].pc = "accept" /\ ses[p].spool > 0
  /\ ses' = [ses EXCEPT ![p] = FreeSession]
  /\ UNCHANGED <<c2Vars, ftsIn, ftsUp, fssVars>>

\* connect() to the port of the 0x02, after the C2 has closed its connection; it may fail.
Dial(p) ==
  /\ ses[p].pc = "accept" /\ ses[p].closed
  /\ \/ /\ fss.pc = "listen" /\ fss.conn = ses[p].conn
        /\ ses' = [ses EXCEPT ![p].pc = "relay"]
        /\ fss' = [fss EXCEPT !.from = ses[p].from]
     \/ ses' = [ses EXCEPT ![p] = FreeSession] /\ UNCHANGED fss
  /\ UNCHANGED <<c2Vars, ftsIn, ftsUp, fssIn, owner, got, askedBy>>

\* The FSS has not hung up on the session.
Connected(p) == fss.from # None /\ ses[p].pc = "relay" /\ ses[p].conn = fss.conn

\* Wrong form: what was sent is not counted.
AdvanceForgets(p) == ses

\* sent += pktSize
Advance(p) == [ses EXCEPT ![p].sent = @ + 1]

\* What fputs kept of the file is sent, a unit at a time; when the FSS has hung
\* up, a send may still succeed, may fail, which ends the session, or may raise
\* SIGPIPE, which takes every session with it.
Relay(p) ==
  /\ ses[p].pc = "relay" /\ ses[p].sent < ses[p].spool
  /\ \/ /\ ses[p].sent < Kept[ses[p].from]
        /\ ses' = Advance(p)
        /\ fss' = IF Connected(p) THEN [fss EXCEPT !.pipe = @ + 1] ELSE fss
        /\ UNCHANGED <<ftsIn, ftsUp>>
     \/ /\ ~Connected(p)
        /\ ftsUp' = FALSE
        /\ ses' = [q \in Port |-> FreeSession]
        /\ ftsIn' = [q \in Port |-> <<>>]
        /\ fss' = [fss EXCEPT !.closed = fss.from # None]
     \/ /\ ~Connected(p)
        /\ ses' = [ses EXCEPT ![p] = FreeSession]
        /\ UNCHANGED <<ftsIn, ftsUp, fss>>
  /\ UNCHANGED <<c2Vars, fssIn, owner, got, askedBy>>

\* while (sent < totalrcvd): a session whose temporary file is shorter than what
\* it read never leaves the loop.
RelayEnds(p) ==
  /\ ses[p].pc = "relay" /\ ses[p].sent = ses[p].spool
  /\ ses' = [ses EXCEPT ![p] = FreeSession]
  /\ fss' = IF Connected(p) THEN [fss EXCEPT !.closed = TRUE] ELSE fss
  /\ UNCHANGED <<c2Vars, ftsIn, ftsUp, fssIn, owner, got, askedBy>>

Fts(p) ==
  /\ ftsUp
  /\ \/ Dispatch(p) \/ Forward(p) \/ Silence(p) \/ Hear(p)
     \/ SpoolFails(p) \/ Dial(p) \/ Relay(p) \/ RelayEnds(p)

-----------------------------------------------------------------------------
(* FSS.py.                                                                 *)

Exit == fss' = [IdleFss(fss.conn) EXCEPT !.pc = "exited"] /\ fssIn' = <<>>

\* Wrong form: the name is not looked up.
NeverTaken(n) == FALSE

\* fileValidate: the destination directory has the file.
Taken(n) == owner[n] # None

\* The next 0x01: 0x04 when the file exists; else the phrase is decoded and
\* encoded again, a TCP port made, and the phrase sent back in the 0x02.
Serve ==
  LET m == Head(fssIn) IN
  /\ fss.pc = "idle" /\ fssIn # <<>>
  /\ \/ /\ Taken(m.name)
        /\ fssIn' = Tail(fssIn)
        /\ \E q \in Send(ftsIn[m.port], [type |-> "exists", client |-> m.client,
                                         name |-> m.name, conn |-> 0], ftsUp) :
             ftsIn' = [ftsIn EXCEPT ![m.port] = q]
        /\ UNCHANGED fss
     \/ /\ ~Taken(m.name)
        /\ fssIn' = Tail(fssIn)
        /\ fss' = [fss EXCEPT !.pc = "listen", !.name = m.name, !.by = m.client, !.conn = @ + 1]
        /\ \E q \in Send(ftsIn[m.port], [type |-> "accept", client |-> m.client,
                                         name |-> m.name, conn |-> fss.conn + 1], ftsUp) :
             ftsIn' = [ftsIn EXCEPT ![m.port] = q]
     \/ /\ ~Taken(m.name) /\ m.client \in Undecodable
        /\ Exit /\ UNCHANGED ftsIn
  /\ UNCHANGED <<c2Vars, ses, ftsUp, owner, got, askedBy>>

\* accept(), and recvFile opens the file, which truncates it.
Accept ==
  /\ fss.pc = "listen" /\ fss.from # None
  /\ fss' = [fss EXCEPT !.pc = "receive"]
  /\ owner' = [owner EXCEPT ![fss.name] = fss.from]
  /\ askedBy' = [askedBy EXCEPT ![fss.name] = fss.by]
  /\ got' = [got EXCEPT ![fss.name] = 0]
  /\ UNCHANGED <<c2Vars, ftsVars, fssIn>>

\* Five seconds without a connection: socket.timeout is not caught.
AcceptTimeout ==
  /\ fss.pc = "listen" /\ fss.from = None
  /\ Exit
  /\ UNCHANGED <<c2Vars, ftsVars, owner, got, askedBy>>

\* f.write(self.enc.decode(pkt)); a decode that fails ends in sys.exit(2).
ReceiveUnit ==
  /\ fss.pc = "receive" /\ fss.pipe > 0
  /\ \/ /\ fss' = [fss EXCEPT !.pipe = @ - 1, !.rcvd = @ + 1]
        /\ got' = [got EXCEPT ![fss.name] = @ + 1]
        /\ UNCHANGED fssIn
     \/ owner[fss.name] \in Undecodable /\ Exit /\ UNCHANGED got
  /\ UNCHANGED <<c2Vars, ftsVars, owner, askedBy>>

\* Wrong form: recv() has no time-out.
QuietWhenClosed == fss.pipe = 0 /\ fss.closed

\* The pipe is empty for two seconds, or for good.
Quiet == fss.pipe = 0

\* The connection ends, or is silent for two seconds: nothing received is an
\* error, and after something received the two are alike.
ReceiveEnds ==
  /\ fss.pc = "receive" /\ Quiet
  /\ IF fss.rcvd = 0 THEN Exit ELSE fss' = IdleFss(fss.conn) /\ UNCHANGED fssIn
  /\ UNCHANGED <<c2Vars, ftsVars, owner, got, askedBy>>

Fss == Serve \/ Accept \/ AcceptTimeout \/ ReceiveUnit \/ ReceiveEnds

-----------------------------------------------------------------------------
Next == (\E c \in Client : C2(c)) \/ (\E p \in Port : Fts(p)) \/ Fss

Spec == Init /\ [][Next]_vars

\* C2.py and FSS.py never wait without a time-out, and are scheduled; nothing is assumed of
\* the FTS, nor that something ends the loop of sendFile.
FairSpec == Spec /\ (\A c \in Client : WF_vars(C2Goes(c))) /\ WF_vars(Fss)

-----------------------------------------------------------------------------
(* Properties.                                                             *)

Answer == [type : {"request", "accept", "exists"}, client : Client, name : Name, conn : Nat]
AskFss == [port : Port, client : Client, name : Name]
AskC2 == [type : {"exists", "validation"}, port : Port, phrase : {Phrase[c] : c \in Client}]

C2Pcs == {"scan", "wait", "connect", "stream", "resend", "done", "failed"}
SessionPcs == {"free", "forward", "wait", "accept", "relay"}
FssPcs == {"idle", "listen", "receive", "exited"}

C2State == [pc : C2Pcs, port : 0 .. NumPorts, name : Name]
SessionState == [pc : SessionPcs, client : Client \cup {None}, name : Name, fails : 0 .. 2,
                 conn : Nat, from : Client \cup {None}, spool : Nat, closed : BOOLEAN,
                 sent : Nat]
FssState == [pc : FssPcs, name : Name, by : Client \cup {None}, conn : Nat,
             from : Client \cup {None}, pipe : Nat, closed : BOOLEAN, rcvd : Nat]

C2TypeOK ==
  /\ c2 \in [Client -> C2State]
  /\ \A c \in Client : c2[c].port = NoPort => c2[c].pc = "failed"
  /\ c2In \in [Client -> Seq(AskC2)]

FtsTypeOK ==
  /\ ses \in [Port -> SessionState]
  /\ \A p \in Port : ses[p].pc \in {"forward", "wait"} => ses[p].client # None
  /\ ftsIn \in [Port -> Seq(Answer)]
  /\ ftsUp \in BOOLEAN

FssTypeOK ==
  /\ fss \in FssState
  /\ fssIn \in Seq(AskFss)
  /\ owner \in [Name -> Client \cup {None}]
  /\ got \in [Name -> Nat]
  /\ askedBy \in [Name -> Client \cup {None}]

\* Every variable has its type; C2 asks only for ports there are, and a session
\* that speaks to the FSS has a client to answer.
TypeOK == C2TypeOK /\ FtsTypeOK /\ FssTypeOK

\* The FSS checks the name when the 0x01 comes (FSS.py:132) and truncates the file
\* when a connection is accepted (tcpHandler.py:57): in between, and whatever
\* session connects, no file that exists is written again, and no two are open.
Store == INSTANCE WriteOnceStore WITH
           open <- IF fss.pc = "receive" THEN {fss.name} ELSE {}
WriteOnce == Store!Spec

\* What the implementation of WriteOnceStore rests on: from the look at the name to
\* the connection nothing is stored under it, since the FSS serves one request at a
\* time; and a file that does not exist has no data.
StoreInv ==
  /\ fss.pc = "listen" => owner[fss.name] = None
  /\ fss.pc = "receive" => owner[fss.name] # None
  /\ \A n \in Name : owner[n] = None => got[n] = 0

\* The phrase is all that ties a 0x02 to the request it answers (unpackResponse).
\* However late a 0x02 came: a session that has taken the one the FSS now listens for
\* has a client whose phrase begins that of the client that made the FSS listen, and a
\* file holds the data of such a client, which looked at the phrase once more (the 0x03).
PhraseGuards ==
  /\ \A p \in Port :
       ses[p].pc \in {"accept", "relay"} /\ ses[p].conn = fss.conn
         /\ fss.pc \in {"listen", "receive"}
       => Begins(Phrase[ses[p].client], Phrase[fss.by])
  /\ \A n \in Name : owner[n] # None => Begins(Phrase[owner[n]], Phrase[askedBy[n]])

\* While the FSS has a session's connection: what that session sent is what the
\* FSS wrote and what is still on its way, of the file of the client it recorded;
\* a file on disk is never longer than what fputs kept of its owner's.
InStep ==
  /\ \A p \in Port : Connected(p) =>
       /\ fss.rcvd + fss.pipe = ses[p].sent
       /\ fss.pc = "receive" => owner[fss.name] = ses[p].from
  /\ fss.pc = "receive" => got[fss.name] = fss.rcvd
  /\ \A n \in Name : owner[n] # None => got[n] <= Kept[owner[n]]

\* The answer of a port is taken only within the 0.2 s C2 gives it, and no other way than by
\* the port it came from (udpHandler.py:145-149): a client that goes on to connect finds
\* the very session that answered it, still waiting and for this client, unless SIGPIPE has
\* ended the FTS.  A late 0x03 taken for the next port's would be sent to a session of
\* another client, or to none.
ConnectFinds ==
  \A c \in Client : c2[c].pc = "connect" /\ ftsUp =>
    LET s == ses[c2[c].port] IN s.pc = "accept" /\ s.client = c /\ s.from = None

\* The FSS waits for a session no longer than its time-outs: after a 0x02 it comes
\* back to its UDP socket, or ends, even when the session never connects or never
\* stops (FSS.py:161, 177).
FssReturns == fss.pc \in {"listen", "receive"} ~> fss.pc \in {"idle", "exited"}

\* Every run of C2.py ends, whatever the FTS and the FSS do, as long as its user answers
\* the question for another name (udpHandler.py:155), or is in the loop of sendFile after a
\* send that took a part of the file (tcpHandler.py:46): there is no third place it can stay.
C2EndsOrResends == \A c \in Client : <>(c2[c].pc \in {"done", "failed", "resend"})

-----------------------------------------------------------------------------
(* What the code says of itself and is not so.                             *)

\* C2.py:247: "specifies the name of the file on the FSS": a client's data is in
\* the file that client asked for.
RightOwner == \A n \in Name : owner[n] # None => c2[owner[n]].name = n

\* tcpHandler.py:40: sendFile "Returns total number of bytes transmitted, -1 if failed":
\* a C2 that has its connection comes back from sendFile.
SendFileReturns == \A c \in Client : c2[c].pc = "stream" ~> c2[c].pc \in {"done", "failed"}
=============================================================================
