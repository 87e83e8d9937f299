------------------------------ MODULE MCLogBridge ------------------------------
(***************************************************************************)
(* Every sequence of lines up to the bound, without two kinds that go the   *)
(* way of others: spaces stand for an empty record, notJson for debug.      *)
(***************************************************************************)
EXTENDS LogBridge

AllKinds == DOMAIN Line \ {"empty", "debug"}
===============================================================================
