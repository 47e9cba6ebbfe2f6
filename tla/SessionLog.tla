----------------------------- MODULE SessionLog -----------------------------
(***************************************************************************)
(* What a session of the FTS writes to the log, and what search and head   *)
(* read from it (fts.c).                                                   *)
(*                                                                         *)
(* A session keeps two pointers from its start to its log entry: saddr,    *)
(* into the buffer of inet_ntoa in the listener thread, and start_str,     *)
(* into the buffer of ctime, which the process has once.  It formats the   *)
(* entry after threadClose has given its port back.  The entry itself is   *)
(* written, and the file read, under log_lock.                             *)
(*                                                                         *)
(* The process ends at exit, or by SIGPIPE in a session, with what is not  *)
(* in the file yet; whom exit waits for before is in FtsPool.              *)
(*                                                                         *)
(* Accesses of two threads to one buffer are taken one after the other.    *)
(* A session runs once; its client is named like it.                       *)
(***************************************************************************)
EXTENDS Integers, FiniteSets, SequencesExt

CONSTANTS
  Session,
  NoOne,
  NumPorts,     \* ports that receive
  HeadCounts    \* numbers given to head

ASSUME SessionLogAssumption ==
  /\ NoOne \notin Session /\ "main" \notin Session \cup {NoOne}
  /\ NumPorts \in Nat \ {0} /\ HeadCounts \subseteq Nat

VARIABLES
  sesPc,      \* of each session
  ntoaBuf,    \* client whose address is in the listener's inet_ntoa buffer
  ctimeBuf,   \* session whose start time is in ctime's buffer, and characters cut off
  ctwo,       \* ctwo[s]: client that the 0x03 or 0x04 of s goes to
  entry,      \* what s formatted: by, time, addr
  log,        \* the file
  logLock,    \* its holder
  prompt,     \* the command being run: pc, its argument, lines seen, lines printed
  shared      \* auxiliary: sessions whose buffers another one wrote before their entry

sesVars == <<sesPc, ctwo, entry>>
bufVars == <<ntoaBuf, ctimeBuf, shared>>
logVars == <<sesVars, bufVars, log, logLock, prompt>>

Blank == [by |-> NoOne, time |-> [of |-> NoOne, cut |-> 0], addr |-> NoOne]
Fresh(v, a) == [pc |-> v, arg |-> a, total |-> 0, line |-> 0, out |-> <<>>]
Idle == Fresh("fts>", NoOne)

\* The process, of which prompt.pc is "ended" after its end.
Alive == prompt.pc # "ended"

LogInit ==
  /\ sesPc = [s \in Session |-> "none"]
  /\ ntoaBuf = NoOne
  /\ ctimeBuf = [of |-> NoOne, cut |-> 0]
  /\ ctwo = [s \in Session |-> NoOne]
  /\ entry = [s \in Session |-> Blank]
  /\ log = <<>>
  /\ logLock = NoOne
  /\ prompt = Idle
  /\ shared = {}

\* Sessions whose port is not back in the table; sessions with no entry yet.
OnPort == {s \in Session : sesPc[s] \in {"started", "timed", "cut", "asked"}}
Pending == {s \in Session : sesPc[s] \notin {"none", "formatted", "locked", "logged"}}

\* Session s, or the listener for it, writes to a buffer.
Writes(s) == shared' = shared \cup (Pending \ {s})

-----------------------------------------------------------------------------

\* newSession->saddr = inet_ntoa(from.sin_addr), and the thread.
Dispatch(s) ==
  /\ sesPc[s] = "none"
  /\ Cardinality(OnPort) < NumPorts
  /\ sesPc' = [sesPc EXCEPT ![s] = "started"]
  /\ ntoaBuf' = s
  /\ Writes(s)
  /\ UNCHANGED <<ctimeBuf, ctwo, entry, log, logLock, prompt>>

\* start_str = ctime(&start)
GrabStart(s) ==
  /\ sesPc[s] = "started"
  /\ sesPc' = [sesPc EXCEPT ![s] = "timed"]
  /\ ctimeBuf' = [of |-> s, cut |-> 0]
  /\ Writes(s)
  /\ UNCHANGED <<ntoaBuf, ctwo, entry, log, logLock, prompt>>

\* Wrong form: the newline stays.
CutNothing(b) == b

\* start_str[strlen(start_str)-1] = '\0'
CutLast(b) == [b EXCEPT !.cut = @ + 1]

CutNewline(s) ==
  /\ sesPc[s] = "timed"
  /\ sesPc' = [sesPc EXCEPT ![s] = "cut"]
  /\ ctimeBuf' = CutLast(ctimeBuf)
  /\ Writes(s)
  /\ UNCHANGED <<ntoaBuf, ctwo, entry, log, logLock, prompt>>

\* After the 0x01 is sent: inet_aton(ctwoAddr,&(ctwo.sin_addr)).
BuildCtwo(s) ==
  /\ sesPc[s] = "cut"
  /\ sesPc' = [sesPc EXCEPT ![s] = "asked"]
  /\ ctwo' = [ctwo EXCEPT ![s] = ntoaBuf]
  /\ UNCHANGED <<entry, bufVars, log, logLock, prompt>>

\* Every way out of the session, before the 0x01 or after: threadClose, then the log.
Close(s) ==
  /\ sesPc[s] \in {"cut", "asked"}
  /\ sesPc' = [sesPc EXCEPT ![s] = "closed"]
  /\ UNCHANGED <<ctwo, entry, bufVars, log, logLock, prompt>>

\* snprintf(entry,MAX_LOG_ENTRY,"%s:%s->...",start_str,ctwoAddr,...)
Format(s) ==
  /\ sesPc[s] = "closed"
  /\ sesPc' = [sesPc EXCEPT ![s] = "formatted"]
  /\ entry' = [entry EXCEPT ![s] = [by |-> s, time |-> ctimeBuf, addr |-> ntoaBuf]]
  /\ UNCHANGED <<ctwo, bufVars, log, logLock, prompt>>

\* Wrong form: log_lock is not taken by all.
LogFreeAlways == TRUE

\* pthread_mutex_lock(&log_lock) returns.
LogFree == logLock = NoOne

LockLog(s) ==
  /\ sesPc[s] = "formatted" /\ LogFree
  /\ logLock' = s
  /\ sesPc' = [sesPc EXCEPT ![s] = "locked"]
  /\ UNCHANGED <<ctwo, entry, bufVars, log, prompt>>

\* fopen(logfile,"a") ... fputs, fclose, unlock: the line, in base64, ends with '\n'.
WriteLog(s) ==
  /\ sesPc[s] = "locked"
  /\ log' = Append(log, entry[s])
  /\ logLock' = NoOne
  /\ sesPc' = [sesPc EXCEPT ![s] = "logged"]
  /\ UNCHANGED <<ctwo, entry, bufVars, prompt>>

\* send() to an FSS that closed its end.
BrokenPipe(s) ==
  /\ sesPc[s] = "asked"
  /\ prompt' = Fresh("ended", NoOne)
  /\ UNCHANGED <<sesVars, bufVars, log, logLock>>

Thread(s) ==
  GrabStart(s) \/ CutNewline(s) \/ BuildCtwo(s) \/ Close(s) \/ Format(s) \/ WriteLog(s)

-----------------------------------------------------------------------------
(* main: search <term>, head <number> and exit.                            *)

Command ==
  /\ prompt.pc = "fts>" /\ LogFree
  /\ logLock' = "main"
  /\ \/ \E c \in Session : prompt' = Fresh("search", c)
     \/ \E k \in HeadCounts : prompt' = Fresh("count", k)
  /\ UNCHANGED <<sesVars, bufVars, log>>

\* The exit(0) of exit, which takes no notice of log_lock.
Exit ==
  /\ prompt.pc = "fts>"
  /\ prompt' = Fresh("ended", NoOne)
  /\ UNCHANGED <<sesVars, bufVars, log, logLock>>

\* while (fgets(line,MAX_LOG_ENTRY,log)) totalLines += 1; fseek
CountLines ==
  /\ prompt.pc = "count"
  /\ prompt' = [prompt EXCEPT !.pc = "head", !.total = Len(log)]
  /\ UNCHANGED <<sesVars, bufVars, log, logLock>>

\* currLine > totalLines-total
InTail(p, i) == i > p.total - p.arg

\* strstr((char *) dline,term), for a term that is an address.
Wanted(p, i) ==
  IF p.pc = "head" THEN InTail(p, i) ELSE log[i].addr = p.arg

ReadLine ==
  LET i == prompt.line + 1 IN
  /\ prompt.pc \in {"search", "head"} /\ i <= Len(log)
  /\ prompt' = [prompt EXCEPT !.line = i,
                              !.out = IF Wanted(prompt, i) THEN Append(@, log[i]) ELSE @]
  /\ UNCHANGED <<sesVars, bufVars, log, logLock>>

\* Wrong form: the lock is kept.
UnlockNever == logLock' = logLock

Unlock == logLock' = NoOne

\* The end of the file, and of the command.
AtEnd == prompt.pc \in {"search", "head"} /\ prompt.line >= Len(log)

EndOfLog ==
  /\ AtEnd
  /\ Unlock
  /\ prompt' = Idle
  /\ UNCHANGED <<sesVars, bufVars, log>>

Main == CountLines \/ ReadLine \/ EndOfLog

Ended == ~Alive /\ UNCHANGED logVars

LogNext ==
  \/ /\ Alive
     /\ \/ \E s \in Session : Dispatch(s) \/ Thread(s) \/ LockLog(s) \/ BrokenPipe(s)
        \/ Command \/ Exit \/ Main
  \/ Ended

LogSpec == LogInit /\ [][LogNext]_logVars

\* Threads and main go on.  Commands come from a user and nothing says that there is
\* one; between two of them main waits for the user with the mutex free, so that no
\* session finds it taken every time.
LogFair ==
  /\ \A s \in Session : WF_logVars(Alive /\ Thread(s)) /\ SF_logVars(Alive /\ LockLog(s))
  /\ WF_logVars(Alive /\ Main)

-----------------------------------------------------------------------------

\* An entry is right, time and address, and the client that is answered (fts.c:467-471) is the
\* one that asked, unless another session wrote one of the two buffers between the session's
\* start and its entry: log_lock and the port add no other way to mix two sessions.
RightUnlessShared ==
  /\ \A i \in DOMAIN log :
       log[i].by \notin shared =>
         /\ log[i].time = [of |-> log[i].by, cut |-> 1]
         /\ log[i].addr = log[i].by
  /\ \A s \in Session \ shared : ctwo[s] \in {NoOne, s}

\* out is the lines of the log with the numbers w, in the order of the log.
Lists(out, w) ==
  \E f \in [DOMAIN out -> w] :
    /\ Range(f) = w /\ \A k, l \in DOMAIN f : k < l => f[k] < f[l]
    /\ \A k \in DOMAIN out : out[k] = log[f[k]]

\* head prints exactly the last lines of the log, though it reads it twice, and
\* search exactly the lines with its term.
ShowsWhole ==
  AtEnd => Lists(prompt.out,
                 {i \in DOMAIN log : IF prompt.pc = "head" THEN i > Len(log) - prompt.arg
                                                         ELSE log[i].addr = prompt.arg})

\* A session that gave its port back is logged unless the process ends: nothing keeps
\* log_lock, and the prompt reads to an end.
Logged ==
  \A s \in Session : sesPc[s] = "closed" ~> (~Alive \/ \E i \in DOMAIN log : log[i].by = s)
=============================================================================
