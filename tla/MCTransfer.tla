---------------------------- MODULE MCTransfer ----------------------------
(* Values of the constants of Transfer for TLC.                            *)
EXTENDS Transfer

CONSTANT k1

\* Two clients with one passphrase, and with two of which one begins the other.
SamePhrase == [c \in Client |-> <<"p">>]
OwnPhrase == [c \in Client |-> IF c = k1 THEN <<"p">> ELSE <<"p", "q">>]

\* Files of one unit, of two, and one of each; a NUL byte cuts a file of two after one.
UnitFiles == [c \in Client |-> 1]
BigFiles == [c \in Client |-> 2]
TwoSizes == [c \in Client |-> IF c = k1 THEN 1 ELSE 2]
=============================================================================
