--------------------------- MODULE WriteOnceStore ---------------------------
(***************************************************************************)
(* What the File Storage Service promises of its destination directory: a  *)
(* file comes into being once, empty, with the data of one sender, grows   *)
(* while it is open, and after it is closed never changes again.           *)
(***************************************************************************)
EXTENDS Naturals

CONSTANTS Name, Client, None

VARIABLES
  owner,   \* owner[n]: the client whose data file n holds, None if no file
  got,     \* got[n]: how much data is in file n
  open     \* the files being written: at most one

vars == <<owner, got, open>>

Init ==
  /\ owner = [n \in Name |-> None]
  /\ got = [n \in Name |-> 0]
  /\ open = {}

Create(n, c) ==
  /\ open = {} /\ owner[n] = None
  /\ owner' = [owner EXCEPT ![n] = c]
  /\ open' = {n}
  /\ UNCHANGED got

Extend(n) ==
  /\ n \in open
  /\ got' = [got EXCEPT ![n] = @ + 1]
  /\ UNCHANGED <<owner, open>>

Close ==
  /\ open # {}
  /\ open' = {}
  /\ UNCHANGED <<owner, got>>

Next == (\E n \in Name, c \in Client : Create(n, c)) \/ (\E n \in Name : Extend(n)) \/ Close

Spec == Init /\ [][Next]_vars
=============================================================================
