----------------------------- MODULE MCTopicStore -----------------------------
(***************************************************************************)
(* Small instances of TopicStore: two topics (each a file of its own, or    *)
(* both sanitized to the same file name), two or three tasks, one or two    *)
(* instances of the store on the same folder.                               *)
(***************************************************************************)
EXTENDS TopicStore

CONSTANTS p1, p2, p3, t1, t2, f1, f2, s1, s2, list

TwoTasks == {p1, p2}
ThreeTasks == {p1, p2, p3}

FileOfTopic == (t1 :> f1) @@ (t2 :> f2)
SameFile == (t1 :> f1) @@ (t2 :> f1)

OneStore == [p \in Proc |-> s1]
StorePerTask == (p1 :> s1) @@ (p2 :> s2)

LockKeys == Store \X (File \cup {ListKey})

AllLayouts == {"json", "markdown", "mem0"}
Files == {"json", "markdown"}

\* Two invocations of one agent; the user comes with the request or from the server.
SegmentMC == {"helpdesk", "clerk", "clerk-1", "clerk-2", "persistent_memory"}
OriginMC == (p1 :> <<"helpdesk", "clerk-1", "persistent_memory">>)
              @@ (p2 :> <<"helpdesk", "clerk-2", "persistent_memory">>)
SafeNameMC ==
  [s \in SegmentMC |-> IF s \in {"clerk-1", "clerk-2"} THEN "clerk" ELSE s]
UserIdsMC == (p1 :> <<"ann", "bob">>) @@ (p2 :> <<"ann">>)

NoWhitelist == {}

\* A create is an append without its read, a read is an access like one of a search, a list
\* is a search without hits; "serch" is no operation.
AppendDeleteSearch == {"append", "delete", "search", "serch"}

NoFaults == {}
AllFaults == {"read", "write", "raise"}
WriteFaults == {"write"}

Symmetry == Permutations(Proc)
===============================================================================
