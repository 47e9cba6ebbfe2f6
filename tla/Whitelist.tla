------------------------------ MODULE Whitelist ------------------------------
(***************************************************************************)
(* The file IPAddWhiteList of C2: choose, which offers its entries, and    *)
(* the addition of an FSS after its validation (C2.py, fileHandler.py).    *)
(*                                                                         *)
(* Runs of C2 share the file and nothing orders them.  A run is one        *)
(* transfer: what it asks the FTS is in Transfer, and here either works or *)
(* ends the run; asking again after a failure changes nothing here.  open  *)
(* with "w" or "w+" empties the file; the line is there when it is closed, *)
(* from the start of the file.  Ports are left out.                        *)
(***************************************************************************)
EXTENDS Integers, SequencesExt

CONSTANTS
  Run,        \* runs of C2.py
  Address,    \* FSS addresses
  Within,     \* <<a, b>>: the text of address a is found in that of address b
  Pattern,    \* encoding patterns
  NoFile      \* the whitelist when it does not exist

\* A line of the file, as choose and contains see it.
Entry == [addr : Address \cup {""}, pattern : Pattern \cup {""}, good : BOOLEAN]

ASSUME WhitelistAssumption ==
  /\ Within \subseteq Address \X Address /\ \A a \in Address : <<a, a>> \in Within
  /\ NoFile \notin Seq(Entry)

VARIABLES
  file,       \* lines, or NoFile
  run,        \* run[c]: pc, pattern and addr; whether the port ends with a newline, and
              \* whether the socket was given by -d
  undisturbed \* auxiliary: runs during which no other run wrote to the file

listVars == <<file, run, undisturbed>>

\* A line with two commas, and one without: a port that choose took from the file ends
\* with the file's newline, and the line is cut there.
Line(a, p) == [addr |-> a, pattern |-> p, good |-> TRUE]
Cut(a, p) == <<[addr |-> a, pattern |-> p, good |-> FALSE],
               [addr |-> "", pattern |-> p, good |-> FALSE]>>

\* The end of a line that a shorter one was written over: of its two commas, the first
\* is at most 15 characters from the start, and no line is that short.
Remnant == [addr |-> "", pattern |-> "", good |-> FALSE]

\* A run that knows its pattern.
Begun(p) == [pc |-> "start", pattern |-> p, addr |-> "", newline |-> FALSE, given |-> FALSE]

\* The repository ships a whitelist of one entry; it may also have been deleted.
ListInit ==
  /\ file \in {NoFile} \cup {<<Line(a, p)>> : a \in Address, p \in Pattern}
  /\ run \in [Run -> {Begun(p) : p \in Pattern}]
  /\ undisturbed = Run

Active == {c \in Run : run[c].pc \notin {"start", "ended", "transfer"}}

\* Run c empties or writes the file.
WritesFile(c) == undisturbed' = undisturbed \ (Active \ {c})

\* The entries choose prints for a pattern.
Offered(p) == {l \in Range(file) : l.good /\ l.pattern = p}

-----------------------------------------------------------------------------

\* -d <ip>:<port>, or enterSocket.
Enter(c) ==
  /\ run[c].pc \in {"start", "enter"}
  /\ \E a \in Address :
       run' = [run EXCEPT ![c].pc = "ask", ![c].addr = a, ![c].given = (run[c].pc = "start")]
  /\ UNCHANGED <<file, undisturbed>>

\* choose finds no file, or no entry for the pattern: enterSocket.
ChooseNone(c) ==
  /\ run[c].pc = "start"
  /\ file # NoFile /\ Offered(run[c].pattern) = {}
  /\ run' = [run EXCEPT ![c].pc = "enter"]
  /\ UNCHANGED <<file, undisturbed>>

\* open raised FileNotFoundError; then open(file_loc+"/IPAddWhiteList","w").
ChooseMissing(c) ==
  /\ run[c].pc = "start" /\ file = NoFile
  /\ run' = [run EXCEPT ![c].pc = "create"]
  /\ UNCHANGED <<file, undisturbed>>

\* Wrong form: nothing is created.
CreatedNot == file
Created == <<>>

CreateFile(c) ==
  /\ run[c].pc = "create"
  /\ file' = Created
  /\ run' = [run EXCEPT ![c].pc = "enter"]
  /\ WritesFile(c)

\* A number from 0 to the number of entries: output[int(choice)-1], of which 0 makes the
\* last one, so that it is one of them; choice == "0" is never true.
Choose(c) ==
  /\ run[c].pc = "start" /\ file # NoFile
  /\ \E l \in Offered(run[c].pattern) :
       run' = [run EXCEPT ![c].pc = "ask", ![c].newline = TRUE, ![c].addr = l.addr]
  /\ UNCHANGED <<file, undisturbed>>

\* requestTransfer and unpackValidation: an answer with the phrase, or none.
Ask(c) ==
  /\ run[c].pc = "ask"
  /\ \E next \in {"look", "ended"} : run' = [run EXCEPT ![c].pc = next]
  /\ UNCHANGED <<file, undisturbed>>

\* Wrong form: the address is compared with the whole line.
ListedWhole(a) == FALSE

\* handler.contains(...,addr): a line in which the address is found.
Listed(a) == \E i \in DOMAIN file : <<a, file[i].addr>> \in Within

\* A file that is missing raises an exception, which ends C2.
Look(c) ==
  /\ run[c].pc = "look"
  /\ run' = [run EXCEPT ![c].pc = IF file = NoFile THEN "ended"
                                  ELSE IF Listed(run[c].addr) THEN "transfer" ELSE "add"]
  /\ UNCHANGED <<file, undisturbed>>

\* open(path,"w+")
Open(c) ==
  /\ run[c].pc = "add"
  /\ file' = <<>>
  /\ run' = [run EXCEPT ![c].pc = "write"]
  /\ WritesFile(c)

\* f.write(string+"\n"), of addr+","+fssPort+","+pattern
NewLines(c) ==
  IF run[c].newline THEN Cut(run[c].addr, run[c].pattern)
                    ELSE <<Line(run[c].addr, run[c].pattern)>>

\* What another run wrote since open: it ends where the new line does, or ends of it stay.
Remains(f) == {[i \in 1 .. n |-> Remnant] : n \in 0 .. Len(f)}

\* f.close()
Write(c) ==
  /\ run[c].pc = "write"
  /\ \E r \in Remains(file) : file' = NewLines(c) \o r
  /\ run' = [run EXCEPT ![c].pc = "transfer"]
  /\ WritesFile(c)

Ended == Active = {} /\ (\A c \in Run : run[c].pc # "start") /\ UNCHANGED listVars

ListNext ==
  \/ \E c \in Run : \/ Enter(c) \/ ChooseNone(c) \/ ChooseMissing(c) \/ CreateFile(c) \/ Choose(c)
                    \/ Ask(c) \/ Look(c) \/ Open(c) \/ Write(c)
  \/ Ended

ListSpec == ListInit /\ [][ListNext]_listVars

-----------------------------------------------------------------------------

\* An entry that was chosen is still found when its run comes back to add it, so the
\* port with a newline is written, and the entry cut in two, only if another run wrote
\* to the file meanwhile (C2.py:205, 135).
CutOnlyIfDisturbed == \A c \in undisturbed : run[c].pc = "write" => ~run[c].newline

\* The look for an FSS that has just answered ends C2, whose session at the FTS then
\* waits in accept() for good, only where -d kept C2 from looking at the whitelist
\* before: whoever chose has found or created it, and nothing deletes it (C2.py:135).
EndsOnlyIfGiven ==
  [][\A c \in Run : (run[c].pc = "look" /\ run'[c].pc = "ended") => run[c].given]_listVars

-----------------------------------------------------------------------------
(* What the code says of itself, and is not so.                            *)

\* "Adds the provided string to the provided file as a new line" (fileHandler.py:26): an
\* FSS that a run has found in the file or added to it stays there, whatever is added
\* next.  open(path,"w+") has emptied the file, and only the FSS added last is offered.
AddsAsLine ==
  (\A c \in Run : run[c].pc # "write") =>
    \A c \in Run : run[c].pc = "transfer" => Listed(run[c].addr)
=============================================================================
