-------------------------- MODULE SessionLogProofs --------------------------
(***************************************************************************)
(* Theorems about SessionLog, for any sessions, ports and commands.        *)
(***************************************************************************)
EXTENDS SessionLog, SequenceTheorems, TLAPS

Someone == Session \cup {NoOne}
Time == [of : Someone, cut : Nat]
LogEntry == [by : Someone, time : Time, addr : Someone]
Points == {"none", "started", "timed", "cut", "asked", "closed", "formatted", "locked", "logged"}

TypeOK ==
  /\ sesPc \in [Session -> Points]
  /\ ntoaBuf \in Someone /\ ctimeBuf \in Time /\ shared \subseteq Session
  /\ entry \in [Session -> LogEntry]
  /\ ctwo \in [Session -> Someone]
  /\ log \in Seq(LogEntry)

\* The buffers of a session that nobody disturbed are its own until its entry is there.
OwnBuffers ==
  \A s \in Session \ shared :
    /\ s \in Pending => ntoaBuf = s
    /\ sesPc[s] = "timed" => ctimeBuf = [of |-> s, cut |-> 0]
    /\ sesPc[s] \in {"cut", "asked", "closed"} => ctimeBuf = [of |-> s, cut |-> 1]

\* What an entry says when the session that formatted it was not disturbed.
Right(e) == e.time = [of |-> e.by, cut |-> 1] /\ e.addr = e.by

OwnEntry ==
  \A s \in Session : sesPc[s] \in {"formatted", "locked"} =>
    entry[s].by = s /\ (s \notin shared => Right(entry[s]))

\* log_lock is held by one thread: the one that writes, or main while it reads.
OneHolder ==
  /\ \A s \in Session : sesPc[s] = "locked" <=> logLock = s
  /\ prompt.pc \in {"count", "search", "head"} => logLock = "main"
  /\ logLock = "main" => prompt.pc # "fts>"

\* The lines up to i that the command prints.
Upto(i) == {j \in 1 .. i : Wanted(prompt, j)}

PromptState ==
  [pc : {"fts>", "count", "search", "head", "ended"}, arg : Someone \cup Nat, total : Nat,
   line : Nat, out : Seq(LogEntry)]

\* What main has read so far.
PromptReads ==
  /\ prompt \in PromptState
  /\ prompt.pc \in {"count", "head"} => prompt.arg \in Nat
  /\ prompt.pc = "head" => prompt.total = Len(log)
  /\ prompt.pc = "count" => prompt.line = 0 /\ prompt.out = <<>>
  /\ prompt.pc \in {"search", "head"} =>
       prompt.line <= Len(log) /\ Lists(prompt.out, Upto(prompt.line))

IInv == TypeOK /\ OwnBuffers /\ OwnEntry /\ RightUnlessShared /\ OneHolder /\ PromptReads
-----------------------------------------------------------------------------
(* Lines.                                                                  *)

\* Nothing is listed before the first line.
LEMMA ListsNone == Lists(<<>>, {})
<1> DEFINE f == [k \in {} |-> k]
<1>1. f \in [DOMAIN <<>> -> {}] /\ Range(f) = {} /\ DOMAIN f = {} /\ DOMAIN <<>> = {}
  BY DEF Range
<1> HIDE DEF f
<1> QED
  BY <1>1 DEF Lists

\* A line listed after the others, and behind them in the log.
LEMMA ListsOneMore ==
  ASSUME NEW S, NEW out \in Seq(S), NEW e \in S, NEW i \in Nat, NEW w \in SUBSET (1 .. i),
         Lists(out, w), e = log[i + 1]
  PROVE  Lists(Append(out, e), w \cup {i + 1})
<1>1. PICK f \in [DOMAIN out -> w] :
        /\ Range(f) = w /\ \A k, l \in DOMAIN f : k < l => f[k] < f[l]
        /\ \A k \in DOMAIN out : out[k] = log[f[k]]
  BY DEF Lists
<1> DEFINE n == Len(out)
           o == Append(out, e)
           v == w \cup {i + 1}
           g == [k \in 1 .. n + 1 |-> IF k = n + 1 THEN i + 1 ELSE f[k]]
<1>2. n \in Nat /\ DOMAIN out = 1 .. n /\ DOMAIN f = 1 .. n
  BY <1>1
<1>3. /\ o \in Seq(S) /\ DOMAIN o = 1 .. n + 1 /\ o[n + 1] = e
      /\ \A k \in 1 .. n : o[k] = out[k]
  BY AppendProperties
<1>4. /\ DOMAIN g = 1 .. n + 1 /\ g[n + 1] = i + 1
      /\ \A k \in 1 .. n : g[k] = f[k] /\ f[k] \in w
  BY <1>1, <1>2
<1>5. g \in [DOMAIN o -> v]
  BY <1>2, <1>3, <1>4
<1> HIDE DEF n, o, g
<1>6. Range(g) = v
  <2>1. ASSUME NEW x \in v PROVE \E k \in DOMAIN g : g[k] = x
    <3>1. CASE x = i + 1
      BY <3>1, <1>2, <1>4
    <3>2. CASE x \in w
      <4>1. PICK k \in DOMAIN f : f[k] = x
        BY <1>1, <3>2 DEF Range
      <4> QED
        BY <4>1, <1>2, <1>4
    <3> QED
      BY <3>1, <3>2
  <2>2. \A k \in DOMAIN g : g[k] \in v
    BY <1>2, <1>4
  <2> QED
    BY <2>1, <2>2 DEF Range
<1>7. ASSUME NEW k \in DOMAIN g, NEW l \in DOMAIN g, k < l PROVE g[k] < g[l]
  <2>0. k \in 1 .. n
    BY <1>2, <1>4, <1>7
  <2>1. k \in 1 .. n /\ g[k] = f[k] /\ f[k] \in 1 .. i
    BY <2>0, <1>4
  <2>2. CASE l = n + 1
    BY <2>1, <2>2, <1>4
  <2>3. CASE l # n + 1
    BY <1>1, <1>2, <1>4, <1>7, <2>1, <2>3
  <2> QED
    BY <2>2, <2>3
<1>8. \A k \in DOMAIN o : o[k] = log[g[k]]
  BY <1>1, <1>2, <1>3, <1>4
<1>9. Lists(o, v)
  BY <1>5, <1>6, <1>7, <1>8 DEF Lists
<1> QED
  BY <1>9 DEF o
-----------------------------------------------------------------------------
(* The sessions.                                                           *)

\* A step of a session leaves everything typed.
LEMMA TypeStep ==
  ASSUME TypeOK, NEW s \in Session, Dispatch(s) \/ Thread(s) \/ LockLog(s)
  PROVE  TypeOK'
<1> USE DEF TypeOK
<1>1. CASE Dispatch(s)
  BY <1>1 DEF Dispatch, Writes, Pending, Points, Someone
<1>2. CASE GrabStart(s)
  <2>1. [of |-> s, cut |-> 0] \in Time
    BY DEF Time, Someone
  <2> QED
    BY <1>2, <2>1 DEF GrabStart, Writes, Pending, Points
<1>3. CASE CutNewline(s)
  <2>1. CutLast(ctimeBuf) \in Time
    BY DEF Time, CutLast
  <2> QED
    BY <1>3, <2>1 DEF CutNewline, Writes, Pending, Points
<1>4. CASE BuildCtwo(s)
  BY <1>4 DEF BuildCtwo, bufVars, Points
<1>5. CASE Close(s)
  BY <1>5 DEF Close, bufVars, Points
<1>6. CASE Format(s)
  <2>1. [by |-> s, time |-> ctimeBuf, addr |-> ntoaBuf] \in LogEntry
    BY DEF LogEntry, Someone
  <2> QED
    BY <1>6, <2>1 DEF Format, bufVars, Points
<1>7. CASE LockLog(s)
  BY <1>7 DEF LockLog, bufVars, Points
<1>8. CASE WriteLog(s)
  <2>1. log' \in Seq(LogEntry)
    BY <1>8, AppendProperties DEF WriteLog
  <2> QED
    BY <1>8, <2>1 DEF WriteLog, bufVars, Points
<1> QED
  BY <1>1, <1>2, <1>3, <1>4, <1>5, <1>6, <1>7, <1>8 DEF Thread

\* While another session writes to a buffer, one that is pending becomes shared.
LEMMA Disturbs ==
  ASSUME TypeOK, NEW s \in Session, Writes(s), NEW v \in Points, sesPc' = [sesPc EXCEPT ![s] = v]
  PROVE  \A k \in Session \ shared' : k # s => k \notin shared /\ k \notin Pending'
BY DEF TypeOK, Writes, Pending

\* A step of a session that nobody disturbs leaves its buffers its own.
LEMMA OwnBuffersStep ==
  ASSUME TypeOK, OwnBuffers, NEW s \in Session, Dispatch(s) \/ Thread(s) \/ LockLog(s)
  PROVE  OwnBuffers'
<1> USE DEF OwnBuffers, Pending
<1>1. CASE Dispatch(s)
  <2>1. sesPc' = [sesPc EXCEPT ![s] = "started"] /\ "started" \in Points /\ Writes(s)
    BY <1>1 DEF Dispatch, Points
  <2>2. \A k \in Session \ shared' : k # s => k \notin shared /\ k \notin Pending'
    BY <2>1, Disturbs
  <2>3. sesPc'[s] = "started" /\ (s \in shared' <=> s \in shared)
    BY <2>1 DEF TypeOK, Writes
  <2> QED
    BY <1>1, <2>2, <2>3 DEF Dispatch
<1>2. CASE GrabStart(s)
  <2>1. sesPc' = [sesPc EXCEPT ![s] = "timed"] /\ "timed" \in Points /\ Writes(s)
    BY <1>2 DEF GrabStart, Points
  <2>2. \A k \in Session \ shared' : k # s => k \notin shared /\ k \notin Pending'
    BY <2>1, Disturbs
  <2>3. sesPc'[s] = "timed" /\ (s \in shared' <=> s \in shared)
    BY <2>1 DEF TypeOK, Writes
  <2> QED
    BY <1>2, <2>2, <2>3 DEF GrabStart
<1>3. CASE CutNewline(s)
  <2>1. sesPc' = [sesPc EXCEPT ![s] = "cut"] /\ "cut" \in Points /\ Writes(s)
    BY <1>3 DEF CutNewline, Points
  <2>2. \A k \in Session \ shared' : k # s => k \notin shared /\ k \notin Pending'
    BY <2>1, Disturbs
  <2>3. sesPc'[s] = "cut" /\ (s \in shared' <=> s \in shared)
    BY <2>1 DEF TypeOK, Writes
  <2> QED
    BY <1>3, <2>2, <2>3 DEF CutNewline, CutLast, TypeOK
<1>4. CASE BuildCtwo(s)
  BY <1>4 DEF BuildCtwo, bufVars, TypeOK
<1>5. CASE Close(s)
  BY <1>5 DEF Close, bufVars, TypeOK
<1>6. CASE Format(s)
  BY <1>6 DEF Format, bufVars, TypeOK
<1>7. CASE LockLog(s)
  BY <1>7 DEF LockLog, bufVars, TypeOK
<1>8. CASE WriteLog(s)
  BY <1>8 DEF WriteLog, bufVars, TypeOK
<1> QED
  BY <1>1, <1>2, <1>3, <1>4, <1>5, <1>6, <1>7, <1>8 DEF Thread

\* Once another session disturbs one, it stays so; nobody else's entry changes.
LEMMA EntriesStay ==
  ASSUME TypeOK, NEW s \in Session, Dispatch(s) \/ Thread(s) \/ LockLog(s)
  PROVE  /\ shared \subseteq shared'
         /\ \A k \in Session : k # s => sesPc'[k] = sesPc[k] /\ entry'[k] = entry[k]
BY DEF TypeOK, Dispatch, Thread, LockLog, GrabStart, CutNewline, BuildCtwo, Close, Format,
       WriteLog, Writes, bufVars

\* A step of a session leaves its entry the one it means to write.
LEMMA OwnEntryStep ==
  ASSUME TypeOK, OwnBuffers, OwnEntry, NEW s \in Session, Dispatch(s) \/ Thread(s) \/ LockLog(s)
  PROVE  OwnEntry'
<1>1. \A k \in Session : k # s => sesPc'[k] = sesPc[k] /\ entry'[k] = entry[k]
  BY EntriesStay
<1>2. shared \subseteq shared'
  BY EntriesStay
<1> SUFFICES ASSUME sesPc'[s] \in {"formatted", "locked"}
             PROVE  entry'[s].by = s /\ (s \notin shared' => Right(entry'[s]))
  BY <1>1, <1>2 DEF OwnEntry
<1>3. Format(s) \/ LockLog(s)
  BY DEF TypeOK, Dispatch, Thread, GrabStart, CutNewline, BuildCtwo, Close, WriteLog
<1>4. CASE Format(s)
  <2>1. entry'[s].by = s /\ entry'[s].time = ctimeBuf /\ entry'[s].addr = ntoaBuf
    BY <1>4 DEF Format, TypeOK
  <2>2. s \notin shared' => ctimeBuf = [of |-> s, cut |-> 1] /\ ntoaBuf = s
    BY <1>2, <1>4 DEF Format, OwnBuffers, Pending
  <2> QED
    BY <2>1, <2>2 DEF Right
<1>5. CASE LockLog(s)
  BY <1>2, <1>5 DEF LockLog, OwnEntry
<1> QED
  BY <1>3, <1>4, <1>5

\* A step of a session adds a wrong entry only if another one shared its buffers.
LEMMA RightStep ==
  ASSUME TypeOK, OwnBuffers, OwnEntry, RightUnlessShared, NEW s \in Session,
         Dispatch(s) \/ Thread(s) \/ LockLog(s)
  PROVE  RightUnlessShared'
<1>1. shared \subseteq shared'
  BY EntriesStay
<1>0. ASSUME NEW t \in Session \ shared'
      PROVE  ctwo'[t] \in {NoOne, t}
  <2>1. ctwo[t] \in {NoOne, t}
    BY <1>1 DEF RightUnlessShared
  <2>2. CASE BuildCtwo(s)
    <3>1. sesPc[s] = "cut" /\ ctwo' = [ctwo EXCEPT ![s] = ntoaBuf]
      BY <2>2 DEF BuildCtwo
    <3>2. t = s => ntoaBuf = s
      BY <1>1, <3>1 DEF OwnBuffers, Pending
    <3> QED
      BY <2>1, <3>1, <3>2 DEF TypeOK
  <2>3. CASE ctwo' = ctwo
    BY <2>1, <2>3
  <2> QED
    BY <2>2, <2>3 DEF Dispatch, Thread, LockLog, GrabStart, CutNewline, Close, Format, WriteLog
<1>2. CASE log' = log
  BY <1>0, <1>1, <1>2 DEF RightUnlessShared
<1>3. CASE WriteLog(s)
  <2>1. log' = Append(log, entry[s]) /\ sesPc[s] = "locked" /\ entry[s] \in LogEntry
    BY <1>3 DEF WriteLog, TypeOK
  <2>2. /\ DOMAIN log' = 1 .. Len(log) + 1 /\ log'[Len(log) + 1] = entry[s]
        /\ \A i \in 1 .. Len(log) : log'[i] = log[i]
    BY <2>1, AppendProperties DEF TypeOK
  <2>3. ASSUME NEW i \in DOMAIN log', log'[i].by \notin shared'
        PROVE  Right(log'[i])
    <3>1. CASE i = Len(log) + 1
      BY <1>1, <2>1, <2>2, <2>3, <3>1 DEF OwnEntry
    <3>2. CASE i # Len(log) + 1
      <4>1. i \in 1 .. Len(log) /\ i \in DOMAIN log
        BY <2>2, <3>2 DEF TypeOK
      <4> QED
        BY <1>1, <2>2, <2>3, <4>1 DEF RightUnlessShared, Right
    <3> QED
      BY <3>1, <3>2
  <2> QED
    BY <1>0, <2>3 DEF RightUnlessShared, Right
<1> QED
  BY <1>2, <1>3 DEF Dispatch, Thread, LockLog, GrabStart, CutNewline, BuildCtwo, Close, Format,
                    bufVars

-----------------------------------------------------------------------------
(* log_lock and the prompt.                                                *)

\* A session takes log_lock when nobody has it, and gives it back.
LEMMA HolderStep ==
  ASSUME TypeOK, OneHolder, NEW s \in Session, Dispatch(s) \/ Thread(s) \/ LockLog(s)
  PROVE  OneHolder'
<1> USE SessionLogAssumption DEF OneHolder, TypeOK, Points
<1>1. CASE LockLog(s)
  BY <1>1 DEF LockLog, LogFree
<1>2. CASE WriteLog(s)
  BY <1>2 DEF WriteLog
<1>3. CASE Dispatch(s)
  BY <1>3 DEF Dispatch
<1>4. CASE GrabStart(s) \/ CutNewline(s) \/ BuildCtwo(s) \/ Close(s) \/ Format(s)
  BY <1>4 DEF GrabStart, CutNewline, BuildCtwo, Close, Format
<1> QED
  BY <1>1, <1>2, <1>3, <1>4 DEF Thread

\* While main reads, the log stays as it is.
LEMMA ReadsKept ==
  ASSUME TypeOK, OneHolder, PromptReads, NEW s \in Session, Dispatch(s) \/ Thread(s) \/ LockLog(s)
  PROVE  PromptReads'
<1>1. prompt' = prompt /\ (log' = log \/ sesPc[s] = "locked")
  BY DEF Dispatch, Thread, LockLog, GrabStart, CutNewline, BuildCtwo, Close, Format, WriteLog,
         bufVars
<1>2. CASE log' = log
  <2>1. Upto(prompt.line)' = Upto(prompt.line)
    BY <1>1, <1>2 DEF Upto, Wanted, InTail
  <2>2. Lists(prompt.out, Upto(prompt.line)) => Lists(prompt.out, Upto(prompt.line))'
    BY <1>1, <1>2, <2>1 DEF Lists
  <2> QED
    BY <1>1, <1>2, <2>2 DEF PromptReads
<1>3. CASE sesPc[s] = "locked"
  <2>1. prompt.pc \in {"fts>", "ended"}
    <3>1. logLock = s /\ s # "main"
      BY <1>3, SessionLogAssumption DEF OneHolder
    <3> QED
      BY <3>1 DEF OneHolder, PromptReads, PromptState
  <2> QED
    BY <1>1, <2>1 DEF PromptReads
<1> QED
  BY <1>1, <1>2, <1>3

\* A step of a session keeps the whole invariant.
LEMMA SessionStep ==
  ASSUME IInv, NEW s \in Session, Dispatch(s) \/ Thread(s) \/ LockLog(s)
  PROVE  IInv'
BY TypeStep, OwnBuffersStep, OwnEntryStep, RightStep, HolderStep, ReadsKept DEF IInv

\* What main does leaves the sessions, their buffers and the log alone.
LEMMA MainLeaves ==
  ASSUME TypeOK, OwnBuffers, OwnEntry, RightUnlessShared,
         UNCHANGED <<sesVars, bufVars, log>>
  PROVE  TypeOK' /\ OwnBuffers' /\ OwnEntry' /\ RightUnlessShared'
BY DEF TypeOK, OwnBuffers, OwnEntry, RightUnlessShared, Pending, sesVars, bufVars

\* A prompt that waits for a command has printed nothing.
LEMMA IdleReads == Idle \in PromptState /\ Idle.pc = "fts>" /\ Idle.line = 0 /\ Idle.out = <<>>
BY DEF Idle, Fresh, PromptState, Someone

\* What a command finds when it opens the log.
LEMMA FreshState ==
  ASSUME NEW v \in {"search", "count"}, NEW a \in Someone \cup Nat
  PROVE  LET r == Fresh(v, a) IN
         r \in PromptState /\ r.pc = v /\ r.arg = a /\ r.line = 0 /\ r.out = <<>>
BY DEF Fresh, PromptState, Someone

\* A command begins with nothing read.
LEMMA CommandStep == ASSUME IInv, Command PROVE IInv'
<1>1. /\ prompt.pc = "fts>" /\ logLock = NoOne /\ logLock' = "main"
      /\ UNCHANGED <<sesVars, bufVars, log>>
  BY DEF Command, LogFree
<1>2. OneHolder' /\ prompt'.pc \in {"search", "count"}
  <2>1. prompt'.pc \in {"search", "count"}
    BY DEF Command, Fresh
  <2> QED
    BY <1>1, <2>1, SessionLogAssumption DEF OneHolder, IInv, sesVars
<1>3. /\ prompt' \in PromptState /\ prompt'.line = 0 /\ prompt'.out = <<>>
      /\ prompt'.pc = "count" => prompt'.arg \in Nat
  <2>1. ASSUME NEW c \in Session, prompt' = Fresh("search", c)
        PROVE  prompt' \in PromptState /\ prompt'.line = 0 /\ prompt'.out = <<>> /\ prompt'.pc = "search"
    <3>1. c \in Someone \cup Nat
      BY DEF Someone
    <3> QED
      BY <2>1, <3>1, FreshState
  <2>2. ASSUME NEW k \in HeadCounts, prompt' = Fresh("count", k)
        PROVE  prompt' \in PromptState /\ prompt'.line = 0 /\ prompt'.out = <<>> /\ prompt'.arg \in Nat
    <3>1. k \in Someone \cup Nat /\ k \in Nat
      BY SessionLogAssumption
    <3> QED
      BY <2>2, <3>1, FreshState
  <2> QED
    BY <2>1, <2>2 DEF Command
<1>4. Lists(<<>>, {})'
  BY ListsNone DEF Lists
<1>5. Upto(prompt.line)' = {}
  BY <1>3 DEF Upto
<1>6. Lists(prompt.out, Upto(prompt.line))'
  BY <1>3, <1>4, <1>5 DEF Lists
<1>7. PromptReads'
  BY <1>1, <1>2, <1>3, <1>6 DEF PromptReads, TypeOK, IInv
<1> QED
  BY <1>1, <1>2, <1>7, MainLeaves DEF IInv

\* main counts the lines, reads them again, and ends.
LEMMA MainStep == ASSUME IInv, Main PROVE IInv'
<1>0. prompt \in PromptState /\ log \in Seq(LogEntry) /\ Len(log) \in Nat
  BY DEF IInv, PromptReads, TypeOK
<1>1. CASE CountLines
  <2> DEFINE r == [prompt EXCEPT !.pc = "head", !.total = Len(log)]
  <2>1. /\ r \in PromptState /\ r.pc = "head" /\ r.total = Len(log) /\ r.arg = prompt.arg
        /\ r.line = prompt.line /\ r.out = prompt.out
    BY <1>0 DEF PromptState
  <2>2. /\ prompt' = r /\ prompt.pc = "count" /\ logLock' = logLock
        /\ UNCHANGED <<sesVars, bufVars, log>>
    BY <1>1 DEF CountLines
  <2> HIDE DEF r
  <2>3. OneHolder'
    BY <2>1, <2>2 DEF IInv, OneHolder, sesVars
  <2>4. prompt'.line = 0 /\ prompt'.out = <<>> /\ prompt'.arg \in Nat
    BY <2>1, <2>2 DEF IInv, PromptReads
  <2>5. Lists(<<>>, {})'
    BY ListsNone DEF Lists
  <2>6. Upto(prompt.line)' = {}
    BY <2>4 DEF Upto
  <2>7. Lists(prompt.out, Upto(prompt.line))'
    BY <2>4, <2>5, <2>6 DEF Lists
  <2>8. PromptReads'
    BY <1>0, <2>1, <2>2, <2>4, <2>7 DEF PromptReads
  <2> QED
    BY <2>2, <2>3, <2>8, MainLeaves DEF IInv
<1>2. CASE ReadLine
  <2> DEFINE i == prompt.line + 1
             o == IF Wanted(prompt, i) THEN Append(prompt.out, log[i]) ELSE prompt.out
             r == [prompt EXCEPT !.line = i, !.out = o]
  <2>0. prompt.pc \in {"search", "head"} /\ i <= Len(log) /\ i \in Nat /\ log[i] \in LogEntry
    BY <1>0, <1>2 DEF ReadLine, PromptState
  <2>1. o \in Seq(LogEntry)
    BY <1>0, <2>0, AppendProperties DEF PromptState
  <2>2. prompt' = r /\ logLock' = logLock /\ UNCHANGED <<sesVars, bufVars, log>>
    BY <1>2 DEF ReadLine
  <2> HIDE DEF o
  <2>3. /\ r \in PromptState /\ r.pc = prompt.pc /\ r.total = prompt.total /\ r.arg = prompt.arg
        /\ r.line = i /\ r.out = o
    BY <1>0, <2>0, <2>1 DEF PromptState
  <2> HIDE DEF r
  <2>4. OneHolder'
    BY <2>2, <2>3 DEF IInv, OneHolder, sesVars
  <2>5. Lists(prompt.out, Upto(prompt.line)) /\ prompt.line \in Nat
    BY <1>0, <2>0 DEF IInv, PromptReads, PromptState
  <2>6. Upto(prompt.line) \in SUBSET (1 .. prompt.line)
    BY DEF Upto
  <2>7. Upto(i) = IF Wanted(prompt, i) THEN Upto(prompt.line) \cup {i} ELSE Upto(prompt.line)
    BY <2>0, <2>5 DEF Upto
  <2>8. Lists(o, Upto(i))
    <3>1. CASE Wanted(prompt, i)
      <4>1. Lists(Append(prompt.out, log[i]), Upto(prompt.line) \cup {i})
        BY <1>0, <2>0, <2>5, <2>6, ListsOneMore DEF PromptState
      <4> QED
        BY <3>1, <4>1, <2>7 DEF o
    <3>2. CASE ~Wanted(prompt, i)
      BY <3>2, <2>5, <2>7 DEF o
    <3> QED
      BY <3>1, <3>2
  <2>9. Upto(prompt.line)' = Upto(i)
    BY <2>2, <2>3 DEF Upto, Wanted, InTail
  <2>10. Lists(prompt.out, Upto(prompt.line))'
    BY <2>2, <2>3, <2>8, <2>9 DEF Lists
  <2>11. PromptReads'
    BY <2>0, <2>2, <2>3, <2>10 DEF IInv, PromptReads
  <2> QED
    BY <2>2, <2>4, <2>11, MainLeaves DEF IInv
<1>3. CASE EndOfLog
  <2>1. /\ prompt' = Idle /\ logLock' = NoOne /\ prompt.pc \in {"search", "head"}
        /\ UNCHANGED <<sesVars, bufVars, log>>
    BY <1>3 DEF EndOfLog, Unlock, AtEnd
  <2>2. OneHolder'
    BY <2>1, IdleReads, SessionLogAssumption DEF IInv, OneHolder, sesVars
  <2>3. PromptReads'
    BY <2>1, IdleReads DEF PromptReads
  <2> QED
    BY <2>1, <2>2, <2>3, MainLeaves DEF IInv
<1> QED
  BY <1>1, <1>2, <1>3 DEF Main

\* The end of the process, by exit or by a session.
LEMMA EndStep ==
  ASSUME IInv, Exit \/ \E s \in Session : BrokenPipe(s)
  PROVE  IInv'
<1> DEFINE r == Fresh("ended", NoOne)
<1>1. prompt' = r /\ logLock' = logLock /\ UNCHANGED <<sesVars, bufVars, log>>
  BY DEF Exit, BrokenPipe
<1>2. r \in PromptState /\ r.pc = "ended"
  BY DEF Fresh, PromptState, Someone
<1> HIDE DEF r
<1>3. OneHolder'
  BY <1>1, <1>2 DEF IInv, OneHolder, sesVars
<1>4. PromptReads'
  BY <1>1, <1>2 DEF PromptReads
<1> QED
  BY <1>1, <1>3, <1>4, MainLeaves DEF IInv

-----------------------------------------------------------------------------

\* The invariant holds when the FTS starts.
LEMMA InvInit == LogInit => IInv
<1> SUFFICES ASSUME LogInit PROVE IInv
  OBVIOUS
<1>1. Blank \in LogEntry /\ [of |-> NoOne, cut |-> 0] \in Time /\ NoOne \in Someone
  BY DEF Blank, LogEntry, Time, Someone
<1>2. TypeOK
  BY <1>1 DEF LogInit, TypeOK, Points
<1>3. OwnBuffers /\ OwnEntry /\ RightUnlessShared
  BY DEF LogInit, OwnBuffers, OwnEntry, RightUnlessShared, Pending
<1>4. OneHolder /\ PromptReads
  BY IdleReads, SessionLogAssumption DEF LogInit, OneHolder, PromptReads
<1> QED
  BY <1>2, <1>3, <1>4 DEF IInv

\* Every step, of a session or of main, keeps the invariant.
LEMMA InvStep == IInv /\ [LogNext]_logVars => IInv'
<1> SUFFICES ASSUME IInv, [LogNext]_logVars PROVE IInv'
  OBVIOUS
<1>1. CASE UNCHANGED logVars
  <2>1. UNCHANGED <<sesVars, bufVars, log, logLock, prompt>>
    BY <1>1 DEF logVars
  <2>2. OneHolder'
    BY <2>1 DEF IInv, OneHolder, sesVars
  <2>3. Upto(prompt.line)' = Upto(prompt.line)
    BY <2>1 DEF Upto, Wanted, InTail
  <2>4. Lists(prompt.out, Upto(prompt.line)) => Lists(prompt.out, Upto(prompt.line))'
    BY <2>1, <2>3 DEF Lists
  <2>5. PromptReads'
    BY <2>1, <2>4 DEF IInv, PromptReads
  <2> QED
    BY <2>1, <2>2, <2>5, MainLeaves DEF IInv
<1> QED
  BY <1>1, SessionStep, CommandStep, MainStep, EndStep DEF LogNext, Ended

\* The invariant holds in every reachable state, for any number of ports and lines.
LEMMA InvAlways == LogSpec => []IInv
BY InvInit, InvStep, PTL DEF LogSpec

\* A log entry has the time and address of its own session, and the answers of a session
\* go to its own client, unless another session wrote ctime's or inet_ntoa's buffer while
\* it was pending: nothing else in the session, its port and log_lock can mix two entries
\* (fts.c:305-308, 467-475, 759-770).
THEOREM EntriesRight == LogSpec => []RightUnlessShared
<1>1. IInv => RightUnlessShared
  BY DEF IInv
<1> QED
  BY <1>1, InvAlways, PTL

\* head and search print exactly the lines they should, in the order of the log: log_lock
\* keeps the log as it is while main reads it once or twice (fts.c:105-144, 808-838).
THEOREM PrintsWhole == LogSpec => []ShowsWhole
<1>1. IInv => ShowsWhole
  <2> SUFFICES ASSUME IInv, AtEnd
               PROVE  Lists(prompt.out,
                            {i \in DOMAIN log : IF prompt.pc = "head" THEN i > Len(log) - prompt.arg
                                                ELSE log[i].addr = prompt.arg})
    BY DEF ShowsWhole
  <2>1. log \in Seq(LogEntry) /\ DOMAIN log = 1 .. Len(log) /\ Len(log) \in Nat
    BY DEF IInv, TypeOK
  <2>2. /\ prompt.pc \in {"search", "head"} /\ prompt.line = Len(log)
        /\ prompt.pc = "head" => prompt.total = Len(log)
        /\ Lists(prompt.out, Upto(prompt.line))
    BY <2>1 DEF IInv, AtEnd, PromptReads, PromptState
  <2>3. Upto(prompt.line) = {i \in DOMAIN log : IF prompt.pc = "head" THEN i > Len(log) - prompt.arg
                                                ELSE log[i].addr = prompt.arg}
    BY <2>1, <2>2 DEF Upto, Wanted, InTail
  <2> QED
    BY <2>2, <2>3
<1> QED
  BY <1>1, InvAlways, PTL
=============================================================================
