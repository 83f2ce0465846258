--------------------------- MODULE MCProviderTerminal ---------------------------
(* Instances of ProviderTerminal for TLC.                                  *)
EXTENDS ProviderTerminal
===============================================================================
