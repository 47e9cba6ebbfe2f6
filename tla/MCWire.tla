------------------------------ MODULE MCWire ------------------------------
(* What the sessions of the FTS read and write, for TLC, one module in     *)
(* each behaviour: the bytes of a file (DataPath), those of the packets    *)
(* (Packets), and the log (SessionLog).  When the file is not run, an      *)
(* empty one has been stored; when the packets are not, what belongs to    *)
(* them is None; when the log is not, the process has ended, with None in  *)
(* place of the holder of log_lock.  What is not run does not step, not    *)
(* even where it ends: a deadlock of what is run is seen.                  *)
EXTENDS MCDataPath, Packets, SessionLog

CONSTANT None

Letters(n, b) == [i \in 1 .. n |-> b]

\* With the sizes of the code, a phrase of 1431 bytes with a name of one fills the 1450
\* bytes, one more cuts the name, two more the phrase.  Lengths of 255 and 256 use both
\* bytes.  The patterns are ~:1;~:1 and ~:10;~:10.
MCRequest ==
  [addr : {<<127, 0, 0, 1>>, <<10, 0, 0, 255>>, <<255, 255, 255, 25>>, <<255, 255, 255, 254>>},
   port : {1, 255, 256, 65535},
   pattern : {<<126, 58, 49, 59, 126, 58, 49>>, <<126, 58, 49, 48, 59, 126, 58, 49, 48>>},
   phrase : {Letters(n, 97) : n \in {1, 255, 256, 1431, 1432, 1433}},
   name : {Letters(n, 98) : n \in {0, 1, 3}}]

\* Numbers for head: fewer lines than there are, as many, and more.
MCHeadCounts == {1, 2, 3}

FileStored ==
  /\ file = <<>> /\ pc = "closed" /\ read = 0 /\ data = [i \in 1 .. MaxSize |-> 0]
  /\ temp = <<>> /\ sent = 0 /\ wire = <<>> /\ fss = "ended" /\ stored = <<>> /\ aligned = TRUE

NoPacket ==
  /\ req = None /\ ftsPort = None /\ packetPc = None /\ pkt = None /\ whole = None
  /\ fts = None /\ room = None /\ taken = None /\ from = None

NoLog ==
  /\ sesPc = [s \in Session |-> "none"] /\ ctwo = [s \in Session |-> NoOne]
  /\ entry = [s \in Session |-> Blank]
  /\ ntoaBuf = NoOne /\ ctimeBuf = Blank.time /\ shared = {}
  /\ log = <<>> /\ logLock = None /\ prompt = Fresh("ended", NoOne)

WireInit ==
  \/ Init /\ NoPacket /\ NoLog
  \/ FileStored /\ PacketInit /\ NoLog
  \/ FileStored /\ NoPacket /\ LogInit

WireNext ==
  \/ packetPc = None /\ logLock = None /\ Next /\ UNCHANGED <<packetVars, logVars>>
  \/ packetPc # None /\ PacketNext /\ UNCHANGED <<vars, logVars>>
  \/ logLock # None /\ LogNext /\ UNCHANGED <<vars, packetVars>>

WireSpec ==
  /\ WireInit /\ [][WireNext]_<<vars, packetVars, logVars>>
  /\ WF_vars(Read \/ ReadEnds) /\ WF_vars(Send \/ SendEnds)
  /\ LogFair
=============================================================================
