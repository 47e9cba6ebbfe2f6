----------------------------- MODULE MCEncoder -----------------------------
(* The modules of encoder.c and encoder.py for TLC, one of them in each    *)
(* behaviour: the loops of encode and decode (EncodeLoop), a byte on its   *)
(* way through both encoders (PhraseEcho), the parsing of patterns         *)
(* (PatternParse) and a line of the log in base64 (LogLine).  Loops that   *)
(* are not run have returned, sessions that are not have rejected their    *)
(* pattern; what else is not run is None.                                  *)
EXTENDS EncodeLoop, LogLine, MCPhraseEcho, PatternParse

CONSTANTS None, One, Two

MCOptions == 2 .. 3
MCLengths == 0 .. 4
MCSizes == 0 .. 6

\* Two texts do not touch.
WellSpaced(str) ==
  \A i \in 1 .. Len(str) - 1 : str[i] \in {";", ":"} \/ str[i + 1] \in {";", ":"}

\* Every pattern of at most five symbols, and patterns of two or three options, with
\* empty ones and with fields too many.
AllPatterns ==
  {str \in UNION {[1 .. k -> {"x", "num", "3x", "neg", "bad", ";", ":"}] : k \in 0 .. 5} :
      WellSpaced(str)}
  \cup {<<"x", ":", n0>> \o mid \o <<o, ":", "num">> \o end :
          n0 \in {"num", "3x", "neg"}, o \in {"x", "bad"},
          mid \in {<<";">>, <<":", ";">>, <<";", ";">>, <<";", "x", ";">>, <<":", "num", ";">>},
          end \in {<<>>, <<";">>, <<":">>, <<";", "x", ":", "num">>, <<";", "bad", ":", "num">>,
                   <<":", "num">>}}

\* Every pattern beside an empty one; and two with patterns of their own, one of them
\* without an operator.
MCSession == {One, Two}
MCPatternsSent ==
  {[s \in MCSession |-> IF s = One THEN str ELSE <<>>] : str \in AllPatterns}
  \cup {[s \in MCSession |-> IF s = One THEN str1 ELSE str2] :
          str1 \in {<<"x", ":", "num", ";", "x", ":", "num">>, <<":", ";", "x", ":", "num">>},
          str2 \in {<<"y", ":", "neg", ";", "y", ":", "num">>, <<"y", ":", "num", ";", "y">>}}

\* Strings of up to seven bytes, so that there are groups before each kind of last group.
Byte5 == {1, 10, 58, 97, 255}
MCStrings == UNION {[1 .. k -> Byte5] : k \in 1 .. 5} \cup [1 .. 7 -> {10, 97}]

LoopReturned ==
  /\ lang = "C" /\ n = 2 /\ start = [j \in 0 .. 2 |-> j]
  /\ size = 0 /\ pc = "returned" /\ opt = 0 /\ count = 0 /\ out = <<>> /\ nul = TRUE

NoEcho ==
  /\ co = None /\ fo = None /\ phrase = None /\ echoPc = None /\ wire = None /\ text = None
  /\ echo = None
NoParse ==
  /\ pattern = None /\ mem = None /\ saved = None /\ opts = None /\ op = None /\ parsed = None
  /\ parsePc = [s \in Session |-> "rejected"] /\ alone = [s \in Session |-> FALSE]
NoLine == string = None /\ linePc = None /\ line = None /\ dlen = None /\ plain = None

EncoderInit ==
  \/ Init /\ NoEcho /\ NoParse /\ NoLine
  \/ LoopReturned /\ EchoInit /\ NoParse /\ NoLine
  \/ LoopReturned /\ NoEcho /\ ParseInit /\ NoLine
  \/ LoopReturned /\ NoEcho /\ NoParse /\ LineInit

EncoderNext ==
  \/ /\ echoPc = None /\ pattern = None /\ linePc = None
     /\ Next /\ UNCHANGED <<echoVars, parseVars, lineVars>>
  \/ echoPc # None /\ EchoNext /\ UNCHANGED <<vars, parseVars, lineVars>>
  \/ pattern # None /\ ParseNext /\ UNCHANGED <<vars, echoVars, lineVars>>
  \/ linePc # None /\ LineNext /\ UNCHANGED <<vars, echoVars, parseVars>>

EncoderSpec ==
  /\ EncoderInit /\ [][EncoderNext]_<<vars, echoVars, parseVars, lineVars>>
  /\ WF_vars(Next)
=============================================================================
