---------------------------- MODULE MCShareSession ----------------------------
(* Instances of ShareSession for TLC.                                      *)
EXTENDS ShareSession

AllKinds == {"claude", "codex", "grok", "rotating", "sticky"}
Terminals == {"codex", "grok"}
===============================================================================
