----------------------------- MODULE MCTopicLocks -----------------------------
(***************************************************************************)
(* The lock cache on its own, with tasks that enter and leave at will.      *)
(***************************************************************************)
EXTENDS TopicLocks
===============================================================================
