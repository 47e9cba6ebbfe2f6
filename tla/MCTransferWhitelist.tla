------------------------ MODULE MCTransferWhitelist ------------------------
(* What runs of C2 have to do with others, for TLC, one module in each     *)
(* behaviour: their transfers (Transfer) and their whitelist (Whitelist).  *)
(* When transfers are not run, every C2 has failed at its first port, the  *)
(* FTS is down and the FSS has ended; when the whitelist is not, every run *)
(* of C2 has ended.                                                        *)
EXTENDS MCTransfer, MCWhitelist

NoTransfer ==
  /\ c2 = [c \in Client |-> [pc |-> "failed", port |-> 0, name |-> AnyName]]
  /\ c2In = [c \in Client |-> <<>>]
  /\ ses = [p \in Port |-> FreeSession] /\ ftsIn = [p \in Port |-> <<>>] /\ ftsUp = FALSE
  /\ fss = [IdleFss(0) EXCEPT !.pc = "exited"] /\ fssIn = <<>>
  /\ owner = [n \in Name |-> None] /\ got = [n \in Name |-> 0]
  /\ askedBy = [n \in Name |-> None]

NoList ==
  /\ file = NoFile /\ undisturbed = Run
  /\ run \in [Run -> {[Begun(p) EXCEPT !.pc = "ended"] : p \in {CHOOSE p \in Pattern : TRUE}}]

BothInit == (Init /\ NoList) \/ (NoTransfer /\ ListInit)

BothNext == (Next /\ UNCHANGED listVars) \/ (ListNext /\ UNCHANGED vars)

BothSpec == BothInit /\ [][BothNext]_<<vars, listVars>>
=============================================================================
