------------------------------- MODULE TopicMap -------------------------------
(***************************************************************************)
(* What an agent's persistent memory promises: a map from topics to what is *)
(* remembered about them, on which every call takes effect as a whole, once *)
(* and between its invocation and its return.  The content of a topic is    *)
(* the set of facts it accounts for; a summary accounts for the facts of    *)
(* the text it was made from.                                               *)
(***************************************************************************)
CONSTANTS
  Topic,   \* topic names
  Client,  \* the callers; each brings one fact, itself
  Nowhere  \* the topic of a call that names none

VARIABLES
  mem,  \* what is remembered about each topic
  call  \* the call each client is in

Nothing == [facts |-> {}, summarised |-> FALSE]

NoCall == [op |-> "none", topic |-> Nowhere, done |-> FALSE]

Init ==
  /\ mem = [t \in Topic |-> Nothing]
  /\ call = [c \in Client |-> NoCall]

Invoke(c) ==
  /\ call[c] = NoCall
  /\ \/ \E op \in {"create", "read", "append", "delete"}, t \in Topic :
          call' = [call EXCEPT ![c] = [op |-> op, topic |-> t, done |-> FALSE]]
     \/ \E op \in {"search", "list"} :
          call' = [call EXCEPT ![c] = [op |-> op, topic |-> Nowhere, done |-> FALSE]]
  /\ UNCHANGED mem

(***************************************************************************)
(* The one change a create, append or delete makes.                         *)
(***************************************************************************)
Changed(c) ==
  CASE call[c].op = "create" -> [facts |-> {c}, summarised |-> FALSE]
    [] call[c].op = "append" -> [facts |-> mem[call[c].topic].facts \cup {c}, summarised |-> FALSE]
    [] call[c].op = "delete" -> Nothing

TakeEffect(c) ==
  /\ call[c].op \in {"create", "append", "delete"}
  /\ ~call[c].done
  /\ mem' = [mem EXCEPT ![call[c].topic] = Changed(c)]
  /\ call' = [call EXCEPT ![c] = IF @.op = "delete" THEN NoCall ELSE [@ EXCEPT !.done = TRUE]]

(***************************************************************************)
(* An access may replace the text it was about by a summary, last thing     *)
(* before it returns; a search may do so with each hit.                     *)
(***************************************************************************)
Summarise(c) ==
  /\ call[c].op \in {"create", "append"} => call[c].done
  /\ \E t \in Topic :
       /\ mem[t] # Nothing
       /\ call[c].op = "search" \/ (call[c].topic = t /\ call[c].op # "delete")
       /\ mem' = [mem EXCEPT ![t].summarised = TRUE]
  /\ UNCHANGED call \/ call' = [call EXCEPT ![c] = NoCall]

(***************************************************************************)
(* A create or append does not return before it took effect, and a delete   *)
(* that changes nothing found nothing.                                      *)
(***************************************************************************)
Return(c) ==
  /\ call[c] # NoCall
  /\ call[c].op \in {"create", "append"} => call[c].done
  /\ call[c].op = "delete" => mem[call[c].topic] = Nothing
  /\ call' = [call EXCEPT ![c] = NoCall]
  /\ UNCHANGED mem

Next == \E c \in Client : Invoke(c) \/ TakeEffect(c) \/ Summarise(c) \/ Return(c)

Spec == Init /\ [][Next]_<<mem, call>>
===============================================================================
