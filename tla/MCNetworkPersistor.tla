-------------------------- MODULE MCNetworkPersistor --------------------------
(***************************************************************************)
(* Two networks, or three; one session or two.                              *)
(***************************************************************************)
EXTENDS NetworkPersistor
===============================================================================
