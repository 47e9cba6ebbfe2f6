---------------------------- MODULE MCWhitelist ----------------------------
(* Whitelist for TLC: 10.0.0.1 is found in 10.0.0.12. *)
EXTENDS Whitelist

MCWithin ==
  {<<a, b>> \in Address \X Address : a = b \/ (a = "10.0.0.1" /\ b = "10.0.0.12")}
=============================================================================
