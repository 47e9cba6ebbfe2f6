-------------------------- MODULE WhitelistProofs --------------------------
(***************************************************************************)
(* Theorems about Whitelist, for any runs, addresses and patterns.         *)
(***************************************************************************)
EXTENDS Whitelist, SequenceTheorems, TLAPS

Points == {"start", "enter", "create", "ask", "look", "add", "write", "transfer", "ended"}

RunState ==
  [pc : Points, pattern : Pattern, addr : Address \cup {""}, newline : BOOLEAN, given : BOOLEAN]

TypeOK ==
  /\ file \in {NoFile} \cup Seq(Entry)
  /\ run \in [Run -> RunState]
  /\ undisturbed \subseteq Run
  /\ \A c \in Run : run[c].pc \in {"ask", "look", "add", "write"} => run[c].addr \in Address

\* A line that choose offers is of an address.
OfAddress ==
  file # NoFile => \A i \in DOMAIN file : file[i].good => file[i].addr \in Address

\* Nothing deletes the file: it is there for a run that opened it, and for one that
\* chose, once it has created it.
FileThere ==
  \A c \in Run :
    /\ run[c].pc \in {"enter", "add", "write", "transfer"} => file # NoFile
    /\ ~run[c].given /\ run[c].pc \in {"ask", "look"} => file # NoFile

\* While nobody else writes, a run that chose an entry finds it again, and never gets to
\* write it.
ChosenStays ==
  \A c \in undisturbed : run[c].newline =>
    /\ run[c].pc \in {"ask", "look"} => file # NoFile /\ Listed(run[c].addr)
    /\ run[c].pc \notin {"add", "write"}

\* A run has chosen nothing before it asks.
NotYet == \A c \in Run : run[c].newline => run[c].pc \notin {"start", "enter", "create"}

IInv == TypeOK /\ OfAddress /\ FileThere /\ ChosenStays /\ NotYet

-----------------------------------------------------------------------------
(* Lines.                                                                  *)

\* A sequence of two.
LEMMA PairIsSeq ==
  ASSUME NEW S, NEW x \in S, NEW y \in S
  PROVE  /\ <<x, y>> \in Seq(S) /\ Len(<<x, y>>) = 2
         /\ <<x, y>>[1] = x /\ <<x, y>>[2] = y
OBVIOUS

\* What is written or left in the file is a sequence of lines.
LEMMA LinesAreEntries ==
  ASSUME NEW a \in Address, NEW p \in Pattern
  PROVE  /\ <<Line(a, p)>> \in Seq(Entry) /\ Cut(a, p) \in Seq(Entry)
         /\ Len(<<Line(a, p)>>) = 1 /\ Len(Cut(a, p)) = 2
         /\ Line(a, p).good /\ Line(a, p).addr = a
         /\ \A i \in 1 .. 2 : ~Cut(a, p)[i].good
<1>1. Line(a, p) \in Entry /\ Line(a, p).good /\ Line(a, p).addr = a
  BY DEF Line, Entry
<1> DEFINE x == [addr |-> a, pattern |-> p, good |-> FALSE]
           y == [addr |-> "", pattern |-> p, good |-> FALSE]
<1>2. x \in Entry /\ y \in Entry /\ ~x.good /\ ~y.good
  BY DEF Entry
<1>3. Cut(a, p) = <<x, y>>
  BY DEF Cut
<1> HIDE DEF x, y
<1>4. Cut(a, p) \in Seq(Entry) /\ Len(Cut(a, p)) = 2 /\ Cut(a, p)[1] = x /\ Cut(a, p)[2] = y
  BY <1>2, <1>3, PairIsSeq
<1>5. ASSUME NEW i \in 1 .. 2
      PROVE  ~Cut(a, p)[i].good
  <2>1. i = 1 \/ i = 2
    OBVIOUS
  <2> QED
    BY <2>1, <1>2, <1>4
<1>6. <<Line(a, p)>> \in Seq(Entry) /\ Len(<<Line(a, p)>>) = 1
  BY <1>1
<1> QED
  BY <1>1, <1>4, <1>5, <1>6

\* What stays behind the line that was written is no entry.
LEMMA RemnantsAreNoEntries ==
  ASSUME NEW f \in Seq(Entry), NEW r \in Remains(f)
  PROVE  r \in Seq(Entry) /\ \A i \in DOMAIN r : ~r[i].good
<1>1. Remnant \in Entry /\ ~Remnant.good
  BY DEF Remnant, Entry
<1>2. PICK n \in 0 .. Len(f) : r = [i \in 1 .. n |-> Remnant]
  BY DEF Remains
<1>3. n \in Nat
  OBVIOUS
<1> QED
  BY <1>1, <1>2, <1>3

-----------------------------------------------------------------------------
(* The steps.                                                              *)

\* The invariant holds for every file the runs may begin with.
LEMMA InvInit == ListInit => IInv
<1> SUFFICES ASSUME ListInit PROVE IInv
  OBVIOUS
<1>0. \A p \in Pattern : Begun(p) \in RunState /\ Begun(p).pc = "start" /\ ~Begun(p).newline
  BY DEF Begun, RunState, Points
<1>5. run \in [Run -> {Begun(p) : p \in Pattern}] /\ undisturbed = Run
  BY DEF ListInit
<1>1. run \in [Run -> RunState]
  BY <1>0, <1>5
<1>2. \A c \in Run : run[c].pc = "start" /\ ~run[c].newline
  BY <1>0, <1>5
<1>3. file = NoFile \/ \E a \in Address, p \in Pattern : file = <<Line(a, p)>>
  BY DEF ListInit
<1>4. file \in {NoFile} \cup Seq(Entry) /\ OfAddress
  <2>1. CASE file = NoFile
    BY <2>1 DEF OfAddress
  <2>2. ASSUME NEW a \in Address, NEW p \in Pattern, file = <<Line(a, p)>>
        PROVE  file \in Seq(Entry) /\ OfAddress
    <3>1. file \in Seq(Entry) /\ Len(file) = 1 /\ file[1].addr \in Address
      BY <2>2, LinesAreEntries
    <3> QED
      BY <3>1 DEF OfAddress
  <2> QED
    BY <1>3, <2>1, <2>2
<1> QED
  BY <1>1, <1>2, <1>5, <1>4 DEF IInv, TypeOK, FileThere, ChosenStays, NotYet

\* A run that only goes on, with the file as it is.
LEMMA GoesOn ==
  ASSUME IInv, NEW c \in Run, NEW r \in RunState, run' = [run EXCEPT ![c] = r],
         UNCHANGED <<file, undisturbed>>,
         r.pc \in {"ask", "look", "add", "write"} => r.addr \in Address,
         r.pc \in {"enter", "add", "write", "transfer"} => file # NoFile,
         ~r.given /\ r.pc \in {"ask", "look"} => file # NoFile,
         c \in undisturbed /\ r.newline =>
           /\ r.pc \in {"ask", "look"} => file # NoFile /\ Listed(r.addr)
           /\ r.pc \notin {"add", "write"},
         r.newline => r.pc \notin {"start", "enter", "create"}
  PROVE  IInv'
<1>1. run'[c] = r /\ \A d \in Run : d # c => run'[d] = run[d]
  BY DEF IInv, TypeOK
<1>2. \A a : Listed(a)' <=> Listed(a)
  BY DEF Listed
<1>3. TypeOK'
  BY <1>1 DEF IInv, TypeOK
<1>4. OfAddress'
  BY DEF IInv, OfAddress
<1>5. FileThere'
  BY <1>1 DEF IInv, FileThere
<1>6. ChosenStays'
  BY <1>1 DEF IInv, ChosenStays, TypeOK, Listed
<1>7. NotYet'
  BY <1>1 DEF IInv, NotYet
<1> QED
  BY <1>3, <1>4, <1>5, <1>6, <1>7 DEF IInv

\* A run that writes the file f goes on to point v: no run that has asked is undisturbed
\* any more but itself.
LEMMA Rewrites ==
  ASSUME IInv, NEW c \in Run, NEW v \in Points, NEW f \in Seq(Entry),
         file' = f, run' = [run EXCEPT ![c].pc = v], WritesFile(c),
         \A i \in DOMAIN f : f[i].good => f[i].addr \in Address,
         \/ run[c].pc = "create" /\ v = "enter"
         \/ run[c].pc = "add" /\ v = "write"
         \/ run[c].pc = "write" /\ v = "transfer"
  PROVE  IInv'
<1> DEFINE r == [run[c] EXCEPT !.pc = v]
<1>0. run[c] \in RunState
  BY DEF IInv, TypeOK
<1>1. /\ r \in RunState /\ r.pc = v /\ r.addr = run[c].addr /\ r.newline = run[c].newline
      /\ run' = [run EXCEPT ![c] = r]
  BY <1>0 DEF RunState
<1> HIDE DEF r
<1>2. run'[c] = r /\ \A d \in Run : d # c => run'[d] = run[d]
  BY <1>1 DEF IInv, TypeOK
<1>3. f # NoFile
  BY WhitelistAssumption
<1>4. TypeOK'
  <2>1. run' \in [Run -> RunState] /\ undisturbed' \subseteq Run
    BY <1>1 DEF IInv, TypeOK, WritesFile
  <2>2. \A d \in Run : run'[d].pc \in {"ask", "look", "add", "write"} => run'[d].addr \in Address
    BY <1>1, <1>2 DEF IInv, TypeOK
  <2> QED
    BY <2>1, <2>2 DEF TypeOK
<1>5. OfAddress'
  BY DEF OfAddress
<1>6. FileThere'
  BY <1>3 DEF FileThere
<1>7. NotYet'
  <2> SUFFICES ASSUME NEW d \in Run, run'[d].newline
               PROVE  run'[d].pc \notin {"start", "enter", "create"}
    BY DEF NotYet
  <2>1. CASE d = c
    <3>1. run[c].newline
      BY <2>1, <1>1, <1>2
    <3>2. run[c].pc # "create"
      BY <3>1 DEF IInv, NotYet
    <3> QED
      BY <2>1, <3>2, <1>1, <1>2
  <2>2. CASE d # c
    BY <2>2, <1>2 DEF IInv, NotYet
  <2> QED
    BY <2>1, <2>2
<1>8. ChosenStays'
  <2> SUFFICES ASSUME NEW d \in undisturbed', run'[d].newline
               PROVE  run'[d].pc \notin {"ask", "look", "add", "write"}
    BY DEF ChosenStays
  <2>1. d \in Run /\ d \in undisturbed /\ (d = c \/ d \notin Active)
    BY DEF WritesFile, IInv, TypeOK
  <2>2. CASE d = c
    <3>1. run[c].newline /\ run[c].pc \notin {"create", "add"}
      BY <2>1, <2>2, <1>1, <1>2 DEF IInv, ChosenStays, NotYet
    <3> QED
      BY <2>2, <3>1, <1>1, <1>2
  <2>3. CASE d # c
    BY <2>1, <2>3, <1>2 DEF Active
  <2> QED
    BY <2>2, <2>3
<1> QED
  BY <1>4, <1>5, <1>6, <1>7, <1>8 DEF IInv

\* A run that goes on to point v and keeps the rest.
LEMMA MovesOn ==
  ASSUME IInv, NEW c \in Run, NEW v \in Points,
         run' = [run EXCEPT ![c].pc = v]
  PROVE  \E r \in RunState :
           /\ r.pc = v /\ r.addr = run[c].addr /\ (r.newline <=> run[c].newline)
           /\ (r.given <=> run[c].given) /\ run' = [run EXCEPT ![c] = r]
<1> DEFINE r == [run[c] EXCEPT !.pc = v]
<1>0. run[c] \in RunState
  BY DEF IInv, TypeOK
<1>1. /\ r \in RunState /\ r.pc = v /\ r.addr = run[c].addr /\ r.newline = run[c].newline
      /\ r.given = run[c].given /\ run' = [run EXCEPT ![c] = r]
  BY <1>0 DEF RunState
<1> HIDE DEF r
<1> QED
  BY <1>1

\* The steps of a run keep the invariant.
LEMMA RunStep ==
  ASSUME IInv, NEW c \in Run,
         \/ Enter(c) \/ ChooseNone(c) \/ ChooseMissing(c) \/ CreateFile(c) \/ Choose(c)
         \/ Ask(c) \/ Look(c) \/ Open(c) \/ Write(c)
  PROVE  IInv'
<1>0. /\ run[c] \in RunState
      /\ run[c].pc \in {"ask", "look", "add", "write"} => run[c].addr \in Address
      /\ run[c].pattern \in Pattern
  BY DEF IInv, TypeOK, RunState
<1>1. CASE Enter(c)
  <2>1. PICK a \in Address :
          run' = [run EXCEPT ![c].pc = "ask", ![c].addr = a, ![c].given = (run[c].pc = "start")]
    BY <1>1 DEF Enter
  <2> DEFINE r == [run[c] EXCEPT !.pc = "ask", !.addr = a, !.given = (run[c].pc = "start")]
  <2>2. /\ r \in RunState /\ r.pc = "ask" /\ r.addr = a /\ r.newline = run[c].newline
        /\ r.given = (run[c].pc = "start")
    BY <1>0 DEF RunState, Points
  <2>3. run' = [run EXCEPT ![c] = r]
    BY <2>1
  <2> HIDE DEF r
  <2>4. run[c].pc = "enter" \/ run[c].pc = "start"
    BY <1>1 DEF Enter
  <2>5. ~run[c].newline
    BY <2>4 DEF IInv, NotYet
  <2>6. ~r.given => file # NoFile
    BY <2>2, <2>4 DEF IInv, FileThere
  <2> QED
    BY <1>1, <2>2, <2>3, <2>5, <2>6, GoesOn DEF Enter
<1>2. CASE ChooseNone(c)
  <2>1. PICK r \in RunState : r.pc = "enter" /\ (r.newline <=> run[c].newline)
                              /\ run' = [run EXCEPT ![c] = r]
    <3>1. "enter" \in Points /\ run' = [run EXCEPT ![c].pc = "enter"]
      BY <1>2 DEF ChooseNone, Points
    <3> QED
      BY <3>1, MovesOn
  <2>2. ~r.newline
    BY <1>2, <2>1 DEF ChooseNone, IInv, NotYet
  <2> QED
    BY <1>2, <2>1, <2>2, GoesOn DEF ChooseNone
<1>3. CASE ChooseMissing(c)
  <2>1. PICK r \in RunState : r.pc = "create" /\ (r.newline <=> run[c].newline)
                              /\ run' = [run EXCEPT ![c] = r]
    <3>1. "create" \in Points /\ run' = [run EXCEPT ![c].pc = "create"]
      BY <1>3 DEF ChooseMissing, Points
    <3> QED
      BY <3>1, MovesOn
  <2>2. ~r.newline
    BY <1>3, <2>1 DEF ChooseMissing, IInv, NotYet
  <2> QED
    BY <1>3, <2>1, <2>2, GoesOn DEF ChooseMissing
<1>4. CASE CreateFile(c)
  <2>1. <<>> \in Seq(Entry) /\ DOMAIN <<>> = {}
    OBVIOUS
  <2>2. \E f \in Seq(Entry) : file' = f /\ DOMAIN f = {}
    BY <1>4, <2>1 DEF CreateFile, Created
  <2>3. "enter" \in Points
    BY DEF Points
  <2>4. run[c].pc = "create" /\ run' = [run EXCEPT ![c].pc = "enter"] /\ WritesFile(c)
    BY <1>4 DEF CreateFile
  <2> QED
    BY <2>2, <2>3, <2>4, Rewrites
<1>5. CASE Choose(c)
  <2>1. PICK l \in Offered(run[c].pattern) :
          run' = [run EXCEPT ![c].pc = "ask", ![c].newline = TRUE, ![c].addr = l.addr]
    BY <1>5 DEF Choose
  <2>2. PICK i \in DOMAIN file : l = file[i] /\ file[i].good
    BY DEF Offered, Range
  <2>3. l.addr \in Address /\ file # NoFile
    BY <1>5, <2>2 DEF IInv, OfAddress, Choose
  <2>4. Listed(l.addr)
    BY <2>2, <2>3, WhitelistAssumption DEF Listed
  <2> DEFINE r == [run[c] EXCEPT !.pc = "ask", !.newline = TRUE, !.addr = l.addr]
  <2>5. r \in RunState /\ r.pc = "ask" /\ r.addr = l.addr
    BY <1>0, <2>3 DEF RunState, Points
  <2>6. run' = [run EXCEPT ![c] = r]
    BY <2>1
  <2> HIDE DEF r
  <2> QED
    BY <1>5, <2>3, <2>4, <2>5, <2>6, GoesOn DEF Choose
<1>6. CASE Ask(c)
  <2>1. PICK v \in {"look", "ended"} : run' = [run EXCEPT ![c].pc = v]
    BY <1>6 DEF Ask
  <2>2. PICK r \in RunState :
          /\ r.pc = v /\ r.addr = run[c].addr /\ (r.newline <=> run[c].newline)
          /\ (r.given <=> run[c].given) /\ run' = [run EXCEPT ![c] = r]
    <3>1. v \in Points
      BY DEF Points
    <3> QED
      BY <2>1, <3>1, MovesOn
  <2>3. run[c].pc = "ask" /\ UNCHANGED <<file, undisturbed>>
    BY <1>6 DEF Ask
  <2>4. ~r.given => file # NoFile
    BY <2>2, <2>3 DEF IInv, FileThere
  <2>5. c \in undisturbed /\ r.newline => file # NoFile /\ Listed(r.addr)
    BY <2>2, <2>3 DEF IInv, ChosenStays
  <2> QED
    BY <1>0, <2>2, <2>3, <2>4, <2>5, GoesOn
<1>7. CASE Look(c)
  <2> DEFINE v == IF file = NoFile THEN "ended"
                  ELSE IF Listed(run[c].addr) THEN "transfer" ELSE "add"
  <2>1. v \in Points /\ run' = [run EXCEPT ![c].pc = v]
    BY <1>7 DEF Look, Points
  <2>2. /\ v \in {"ended", "transfer", "add"} /\ (v # "ended" => file # NoFile)
        /\ v = "add" => ~Listed(run[c].addr)
    OBVIOUS
  <2> HIDE DEF v
  <2>3. PICK r \in RunState :
          /\ r.pc = v /\ r.addr = run[c].addr /\ (r.newline <=> run[c].newline)
          /\ (r.given <=> run[c].given) /\ run' = [run EXCEPT ![c] = r]
    BY <2>1, MovesOn
  <2>4. run[c].pc = "look" /\ UNCHANGED <<file, undisturbed>>
    BY <1>7 DEF Look
  <2>5. c \in undisturbed /\ r.newline => Listed(run[c].addr)
    BY <2>3, <2>4 DEF IInv, ChosenStays
  <2> QED
    BY <1>0, <2>2, <2>3, <2>4, <2>5, GoesOn
<1>8. CASE Open(c)
  <2>1. <<>> \in Seq(Entry) /\ DOMAIN <<>> = {}
    OBVIOUS
  <2>2. \E f \in Seq(Entry) : file' = f /\ DOMAIN f = {}
    BY <1>8, <2>1 DEF Open
  <2>3. "write" \in Points
    BY DEF Points
  <2>4. run[c].pc = "add" /\ run' = [run EXCEPT ![c].pc = "write"] /\ WritesFile(c)
    BY <1>8 DEF Open
  <2> QED
    BY <2>2, <2>3, <2>4, Rewrites
<1>9. CASE Write(c)
  <2>1. run[c].pc = "write" /\ run' = [run EXCEPT ![c].pc = "transfer"] /\ WritesFile(c)
    BY <1>9 DEF Write
  <2>2. run[c].addr \in Address /\ file # NoFile /\ file \in Seq(Entry)
    BY <1>0, <2>1 DEF IInv, TypeOK, FileThere
  <2>3. PICK r \in Remains(file) : file' = NewLines(c) \o r
    BY <1>9 DEF Write
  <2>4. r \in Seq(Entry) /\ \A i \in DOMAIN r : ~r[i].good
    BY <2>2, RemnantsAreNoEntries
  <2>5. /\ NewLines(c) \in Seq(Entry) /\ Len(NewLines(c)) >= 1
        /\ \A i \in DOMAIN NewLines(c) :
             NewLines(c)[i].good => NewLines(c)[i].addr \in Address
    <3>1. CASE run[c].newline
      <4>1. NewLines(c) = Cut(run[c].addr, run[c].pattern)
        BY <3>1 DEF NewLines
      <4> QED
        BY <4>1, <1>0, <2>2, LinesAreEntries
    <3>2. CASE ~run[c].newline
      <4>1. NewLines(c) = <<Line(run[c].addr, run[c].pattern)>>
        BY <3>2 DEF NewLines
      <4>2. Len(NewLines(c)) = 1 /\ NewLines(c) \in Seq(Entry)
        BY <4>1, <1>0, <2>2, LinesAreEntries
      <4>3. NewLines(c)[1].addr \in Address
        BY <4>1, <1>0, <2>2, LinesAreEntries
      <4> QED
        BY <4>2, <4>3
    <3> QED
      BY <3>1, <3>2
  <2>6. /\ file' \in Seq(Entry)
        /\ \A i \in DOMAIN file' : file'[i].good => file'[i].addr \in Address
    <3> DEFINE f == NewLines(c)
    <3> HIDE DEF f
    <3>1. f \in Seq(Entry) /\ file' = f \o r
      BY <2>3, <2>5 DEF f
    <3>2. /\ file' \in Seq(Entry) /\ Len(file') = Len(f) + Len(r)
          /\ \A i \in 1 .. Len(f) : file'[i] = f[i]
          /\ \A i \in Len(f) + 1 .. Len(f) + Len(r) : file'[i] = r[i - Len(f)]
      BY <3>1, <2>4, ConcatProperties
    <3>3. ASSUME NEW i \in DOMAIN file', file'[i].good
          PROVE  file'[i].addr \in Address
      <4>1. CASE i <= Len(f)
        BY <4>1, <3>1, <3>2, <3>3, <2>5 DEF f
      <4>2. CASE i > Len(f)
        <5>1. file'[i] = r[i - Len(f)] /\ i - Len(f) \in DOMAIN r
          BY <4>2, <3>1, <3>2, <2>4
        <5> QED
          BY <5>1, <3>3, <2>4
      <4> QED
        BY <4>1, <4>2, <3>1, <3>2
    <3> QED
      BY <3>2, <3>3
  <2>7. \E f \in Seq(Entry) :
          file' = f /\ \A i \in DOMAIN f : f[i].good => f[i].addr \in Address
    BY <2>6
  <2>8. "transfer" \in Points
    BY DEF Points
  <2> QED
    BY <2>1, <2>7, <2>8, Rewrites
<1> QED
  BY <1>1, <1>2, <1>3, <1>4, <1>5, <1>6, <1>7, <1>8, <1>9

\* Every step of a run, and a stutter, keeps the invariant.
LEMMA InvStep == IInv /\ [ListNext]_listVars => IInv'
<1> SUFFICES ASSUME IInv, [ListNext]_listVars PROVE IInv'
  OBVIOUS
<1>1. CASE UNCHANGED listVars
  BY <1>1 DEF listVars, IInv, TypeOK, OfAddress, FileThere, ChosenStays, NotYet, Listed
<1>2. CASE Ended
  BY <1>1, <1>2 DEF Ended
<1> QED
  BY <1>1, <1>2, RunStep DEF ListNext

\* The invariant holds in every reachable state, for any number of runs.
LEMMA InvAlways == ListSpec => []IInv
BY InvInit, InvStep, PTL DEF ListSpec

\* A run of C2 that chose its FSS writes the entry back cut in two only when another run
\* wrote the file meanwhile (C2.py:205, 135).
THEOREM CutNeedsAnother == ListSpec => []CutOnlyIfDisturbed
<1>1. IInv => CutOnlyIfDisturbed
  BY DEF IInv, ChosenStays, CutOnlyIfDisturbed
<1> QED
  BY <1>1, InvAlways, PTL

\* The look for an FSS that has answered ends only a run whose socket was given by -d:
\* the file is there for every other (C2.py:135).
THEOREM LookFinds == ListSpec => EndsOnlyIfGiven
<1> DEFINE Step == \A c \in Run : (run[c].pc = "look" /\ run'[c].pc = "ended") => run[c].given
<1>1. IInv /\ [ListNext]_listVars => [Step]_listVars
  <2> SUFFICES ASSUME IInv, ListNext, NEW c \in Run, run[c].pc = "look", run'[c].pc = "ended",
                      ~run[c].given
               PROVE  FALSE
    OBVIOUS
  <2>1. file # NoFile
    BY DEF IInv, FileThere
  <2>2. ASSUME NEW d \in Run, d # c,
               \/ Enter(d) \/ ChooseNone(d) \/ ChooseMissing(d) \/ CreateFile(d) \/ Choose(d)
               \/ Ask(d) \/ Look(d) \/ Open(d) \/ Write(d)
        PROVE  FALSE
    <3>1. run'[c] = run[c]
      BY <2>2 DEF Enter, ChooseNone, ChooseMissing, CreateFile, Choose, Ask, Look, Open, Write,
                  IInv, TypeOK
    <3> QED
      BY <3>1
  <2>3. Look(c)
    BY <2>2 DEF ListNext, Ended, listVars, Enter, ChooseNone, ChooseMissing, CreateFile,
       Choose, Ask, Open, Write
  <2>4. run'[c].pc = IF Listed(run[c].addr) THEN "transfer" ELSE "add"
    BY <2>1, <2>3 DEF Look, IInv, TypeOK, RunState
  <2> QED
    BY <2>4
<1> QED
  BY <1>1, InvAlways, PTL DEF ListSpec, EndsOnlyIfGiven
=============================================================================
