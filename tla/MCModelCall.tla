----------------------------- MODULE MCModelCall -----------------------------
(* Instances of ModelCall for TLC: one text of each kind. *)
EXTENDS ModelCall

CONSTANTS sound, prohibited, ungrounded, number, prose, overflow

MCTexts == {sound, prohibited, ungrounded, number, prose, overflow}
MCParsed == MCTexts \ {prose, overflow}
=============================================================================
