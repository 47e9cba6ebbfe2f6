--------------------------- MODULE MCPhraseEcho ---------------------------
(* PhraseEcho for TLC: every printable byte, and every pair of options. *)
EXTENDS PhraseEcho

MCBytes == 32 .. 126
=============================================================================
