---------------------------- MODULE MCCredRefresh -----------------------------
(* Instances of CredRefresh for TLC: the processes of each role, named in  *)
(* the configuration, are all the processes there are.                     *)
EXTENDS CredRefresh

MCProcs == Sessions \cup Refreshers \cup Renamers \cup Relogins \cup Logouts
===============================================================================
