------------------------------ MODULE MCAgentTurn ------------------------------
(***************************************************************************)
(* Two skills, each in two sources, one of them malformed; rounds of two    *)
(* concurrent tool calls.                                                   *)
(***************************************************************************)
EXTENDS AgentTurn

FourSources ==
  << [skill |-> "a", kind |-> "local", format |-> "valid"],
     [skill |-> "b", kind |-> "remote", format |-> "valid"],
     [skill |-> "a", kind |-> "remote", format |-> "valid"],
     [skill |-> "b", kind |-> "local", format |-> "malformed"] >>
===============================================================================
