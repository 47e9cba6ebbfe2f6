---------------------------- MODULE MCDataPath ----------------------------
(* DataPath for TLC. *)
EXTENDS DataPath

\* Characters of two bytes are whole.
WellFormed(f) ==
  \A i \in DOMAIN f : /\ f[i] = "lead" => i < Len(f) /\ f[i + 1] = "tail"
                      /\ f[i] = "tail" => i > 1 /\ f[i - 1] = "lead"

MCFiles ==
  {f \in UNION {[1 .. k -> {"text", "nul", "lead", "tail"}] : k \in 1 .. 5} : WellFormed(f)}
TextFiles == {[i \in 1 .. 5 |-> "text"]}
MCLens == <<1, 1>>
=============================================================================
