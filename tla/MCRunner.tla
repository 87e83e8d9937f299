-------------------------------- MODULE MCRunner --------------------------------
(***************************************************************************)
(* Every combination of the flags, the plugins and the taken ports.         *)
(***************************************************************************)
EXTENDS Runner
===============================================================================
