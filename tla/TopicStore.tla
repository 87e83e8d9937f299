------------------------------ MODULE TopicStore ------------------------------
(***************************************************************************)
(* Persistent memory of one scope: the operations of TopicStore             *)
(* (topic_store.py) run by concurrent tasks, over the backend the factory   *)
(* built: JsonFileStore (one file, one lock), MarkdownFileStore (a file and *)
(* a lock per topic, and a lock for listings) or Mem0Store (locks likewise, *)
(* an entry of a remote service per topic).                                 *)
(*                                                                         *)
(* A step runs a task from the end of one await to the next.  The atomic    *)
(* rename at the end of a write makes a file change in one step.            *)
(***************************************************************************)
EXTENDS TopicLocks

CONSTANTS
  Topic,       \* topic names
  File,        \* where topics are kept: keys of the JSON object, .md files, entries
  FileOf,      \* [Topic -> File]: _sanitize_filename for .md, else the identity
  Layouts,     \* the backends that may be configured
  Store,       \* the store instances that work on the same folder
  StoreOf,     \* [Proc -> Store]: the instance each task calls
  Whitelist,   \* enabled_operations as configured; {} when it is left out
  Segment,     \* the segments of an origin
  Origin,      \* [Proc -> Seq(Segment)]: origin_str, the call path of the agent
  SafeName,    \* [Segment -> Segment]: without "-<digits>" and without unsafe characters
  UserIds,     \* [Proc -> seq]: user_id of sly_data and of the environment, if given
  DefaultUser, \* _DEFAULT_USER_ID
  Unknown,     \* the name of an agent whose origin cannot be parsed
  Summarizer,  \* TRUE: a callback may replace the text (max_topic_size > 0)
  Faults,      \* subset of {"read", "write", "raise"}: I/O errors that may happen
  ListKey,     \* the key of the listing lock, or of the JSON file's only lock
  NoTopic      \* heading of a file that does not exist

(***************************************************************************)
(* _parse_origin_str: the memory is that of the first and of the            *)
(* second-to-last segment of the call path, so all invocations of an agent, *)
(* agents whose names differ in unsafe characters only, and all agents      *)
(* without a parsable origin have one namespace.                            *)
(***************************************************************************)
Namespace(p) ==
  IF Len(Origin[p]) < 2 THEN <<Unknown, Unknown>>
  ELSE <<SafeName[Head(Origin[p])], SafeName[Origin[p][Len(Origin[p]) - 1]]>>

\* Mem0's: the caller's user, else the server's, else everybody's.
UserId(p) == Head(Append(UserIds[p], DefaultUser))

\* What the entries of a memory are filtered by; files know no users.
Scope(p) == IF "mem0" \in Layouts THEN <<UserId(p), Namespace(p)>> ELSE <<Namespace(p)>>

Operation == {"create", "read", "append", "delete", "search", "list"}

\* _clean_enabled_operations: unknown names are dropped, no names are all names.
Enabled == IF Whitelist = {} THEN Operation ELSE Whitelist \cap Operation

(***************************************************************************)
(* The tasks are those of one scope; a middleware all of whose operations   *)
(* are unknown is not constructed.                                          *)
(***************************************************************************)
ASSUME TopicStoreAssumption ==
  /\ Origin \in [Proc -> Seq(Segment)] /\ SafeName \in [Segment -> Segment]
  /\ \A p, q \in Proc : Scope(p) = Scope(q)
  /\ Enabled # {}
  /\ FileOf \in [Topic -> File]
  /\ StoreOf \in [Proc -> Store]
  /\ Layouts \subseteq {"json", "markdown", "mem0"} /\ Summarizer \in BOOLEAN
  /\ "mem0" \in Layouts => \A p, q \in Proc : StoreOf[p] = StoreOf[q]
  /\ Faults \subseteq {"read", "write", "raise"}
  /\ NoTopic \notin Topic
  /\ Topic \cap File = {}
  /\ Key = Store \X (File \cup {ListKey})

VARIABLES
  layout,  \* the backend: chosen once
  disk,    \* what is in each file
  task     \* the local state of each task

storeVars == <<layout, disk, task, cache, holder, waiters>>

WholeFile == layout = "json"

(***************************************************************************)
(* A file: the topic it is headed by, the facts its text accounts for, and  *)
(* whether the text is a summary.                                           *)
(***************************************************************************)
Entry ==
  [topic : Topic \cup {NoTopic}, facts : SUBSET Proc, summarised : BOOLEAN]

NoEntry == [topic |-> NoTopic, facts |-> {}, summarised |-> FALSE]

Exists(e) == e.topic # NoTopic

EmptyDisk == [f \in File |-> NoEntry]

TopicKey(p, t) == <<StoreOf[p], FileOf[t]>>

ListLockKey(p) == <<StoreOf[p], ListKey>>

(***************************************************************************)
(* Mutant: the JSON store locks one topic instead of the file.              *)
(***************************************************************************)
LockTopicOnly(p, t) == TopicKey(p, t)

LockKey(p, t) == IF WholeFile THEN ListLockKey(p) ELSE TopicKey(p, t)

Step == {"idle", "read", "load", "put", "call", "scan", "files"}

NoTask ==
  [op |-> "list", topic |-> NoTopic, pc |-> "idle", entry |-> NoEntry,
   snap |-> EmptyDisk, todo |-> {}, rewriting |-> FALSE]

TaskRecord ==
  [op : Operation, topic : Topic \cup {NoTopic}, pc : Step, entry : Entry,
   snap : [File -> Entry], todo : SUBSET (Topic \cup File), rewriting : BOOLEAN]

StoreTypeOK ==
  /\ LocksTypeOK
  /\ layout \in Layouts
  /\ disk \in [File -> Entry]
  /\ task \in [Proc -> TaskRecord]
  /\ \A p \in Proc :
       /\ task[p].pc \in {"read", "load", "put", "call"} => task[p].topic \in Topic
       /\ task[p].pc # "files" => task[p].todo \subseteq Topic

-------------------------------------------------------------------------------
(***************************************************************************)
(* Where a task is, and the file of the topic it works on.                  *)
(***************************************************************************)
At(p, pc) == task[p].pc = pc /\ Holds(p)

FileAt(p) == FileOf[task[p].topic]

WriteStep == IF layout = "markdown" THEN "put" ELSE "load"

(***************************************************************************)
(* The first await of each operation once it has its lock.                  *)
(***************************************************************************)
FirstStep(op) ==
  CASE op \in {"read", "append"} -> "read"
    [] op \in {"create", "delete"} -> WriteStep
    [] op \in {"search", "list"} -> "scan"

FirstEntry(p, op, t) ==
  IF op = "create" THEN [topic |-> t, facts |-> {p}, summarised |-> FALSE] ELSE NoEntry

(***************************************************************************)
(* The agent calls the tool: the operation looks its lock up and acquires   *)
(* it or joins the queue.  p doubles as the fact a create or append of p    *)
(* brings.                                                                  *)
(***************************************************************************)
Begin(p, op, t) ==
  /\ op \in Enabled
  /\ task[p].pc = "idle"
  /\ Enter(p, IF op \in {"search", "list"} THEN ListLockKey(p) ELSE LockKey(p, t))
  /\ task' = [task EXCEPT ![p] =
       [NoTask EXCEPT !.op = op, !.topic = IF op \in {"search", "list"} THEN NoTopic ELSE t,
                      !.pc = FirstStep(op), !.entry = FirstEntry(p, op, t)]]
  /\ UNCHANGED <<layout, disk>>

Wake(p) == Resume(p) /\ UNCHANGED <<disk, task>>

(***************************************************************************)
(* The operation returns, or raises: the lock is released either way.       *)
(***************************************************************************)
End(p) ==
  /\ Leave(p)
  /\ task' = [task EXCEPT ![p] = NoTask]

(***************************************************************************)
(* Mutant: a search comes back to the hit it has just dealt with.           *)
(***************************************************************************)
NextHitAgain(p, hits) ==
  \/ hits = {} /\ End(p)
  \/ \E t \in hits :
       /\ LeaveEnter(p, LockKey(p, t))
       /\ task' = [task EXCEPT ![p] =
            [NoTask EXCEPT !.op = "search", !.topic = t, !.pc = "read", !.todo = hits]]

(***************************************************************************)
(* _rewrite_search_results moves on to the next hit under its own lock, or  *)
(* returns.                                                                 *)
(***************************************************************************)
NextHit(p, hits) ==
  \/ hits = {} /\ End(p)
  \/ \E t \in hits :
       /\ LeaveEnter(p, LockKey(p, t))
       /\ task' = [task EXCEPT ![p] =
            [NoTask EXCEPT !.op = "search", !.topic = t, !.pc = "read", !.todo = hits \ {t}]]

(***************************************************************************)
(* What follows _run_post_access.                                           *)
(***************************************************************************)
AfterAccess(p) ==
  IF task[p].op = "search" THEN NextHit(p, task[p].todo) ELSE End(p)

(***************************************************************************)
(* _read_topic: NoEntry when the file is missing or cannot be read.         *)
(***************************************************************************)
ReadResults(f) ==
  {disk[f]} \cup IF "read" \in Faults /\ layout # "mem0" THEN {NoEntry} ELSE {}

(***************************************************************************)
(* append_to_topic: the new line goes after the text that was read.         *)
(***************************************************************************)
WithLine(p, e) == [topic |-> task[p].topic, facts |-> e.facts \cup {p}, summarised |-> FALSE]

ReadTopic(p) ==
  /\ At(p, "read")
  /\ UNCHANGED disk
  /\ \E e \in ReadResults(FileAt(p)) :
       \/ /\ task[p].op = "append"
          /\ task' = [task EXCEPT ![p].entry = WithLine(p, e), ![p].pc = WriteStep]
          /\ UNCHANGED lockVars
       \/ /\ task[p].op \in {"read", "search"}
          /\ ~Exists(e)
          /\ AfterAccess(p)
       \/ /\ task[p].op \in {"read", "search"}
          /\ Exists(e)
          /\ task' = [task EXCEPT ![p].entry = [e EXCEPT !.topic = task[p].topic],
                                  ![p].pc = "call"]
          /\ UNCHANGED lockVars

(***************************************************************************)
(* Before a write: _load_unlocked of JsonFileStore gets the whole object,   *)
(* {} when it cannot be read; _find_memory_id of Mem0Store gets the entry   *)
(* of the topic.  Removing a topic that is not there ends here.             *)
(***************************************************************************)
Loaded(p) ==
  IF WholeFile THEN disk ELSE [EmptyDisk EXCEPT ![FileAt(p)] = disk[FileAt(p)]]

LoadFile(p) ==
  /\ At(p, "load")
  /\ UNCHANGED disk
  /\ \E whole \in {Loaded(p)} \cup IF WholeFile /\ "read" \in Faults THEN {EmptyDisk} ELSE {} :
       \/ /\ task[p].op = "delete"
          /\ ~Exists(whole[FileAt(p)])
          /\ End(p)
       \/ /\ task[p].op = "delete" => Exists(whole[FileAt(p)])
          /\ task' = [task EXCEPT ![p].snap = whole, ![p].pc = "put"]
          /\ UNCHANGED lockVars

(***************************************************************************)
(* The file contents a write leaves: the loaded object with one key changed *)
(* (JSON), or one .md file replaced or unlinked.                            *)
(***************************************************************************)
NewDisk(p) ==
  [IF WholeFile THEN task[p].snap ELSE disk EXCEPT ![FileAt(p)] = task[p].entry]

(***************************************************************************)
(* What follows a write: the callback of a create or append, or the end.    *)
(***************************************************************************)
AfterPut(p) ==
  \/ /\ task[p].rewriting
     /\ AfterAccess(p)
  \/ /\ task[p].op = "delete"
     /\ End(p)
  \/ /\ ~task[p].rewriting /\ task[p].op \in {"create", "append"}
     /\ task' = [task EXCEPT ![p].pc = "call", ![p].snap = EmptyDisk]
     /\ UNCHANGED lockVars

(***************************************************************************)
(* os.replace, or unlink.  An OSError on the way is logged and swallowed;   *)
(* one from mkdir is raised to the caller (WriteRaises).                    *)
(***************************************************************************)
Put(p) ==
  /\ layout # "mem0"
  /\ At(p, "put")
  /\ \/ disk' = NewDisk(p)
     \/ "write" \in Faults /\ UNCHANGED disk
  /\ AfterPut(p)

(***************************************************************************)
(* mkdir of the agent's folder fails before anything is written: the        *)
(* OSError leaves the operation, and its lock is released on the way out.   *)
(***************************************************************************)
WriteRaises(p) ==
  /\ "raise" \in Faults /\ layout # "mem0"
  /\ At(p, "put")
  /\ WholeFile \/ task[p].op # "delete"
  /\ End(p)
  /\ UNCHANGED disk

(***************************************************************************)
(* _upsert and _remove_topic of Mem0Store, by the id that was found: while  *)
(* tasks exclude each other the id is still that of the entry.  Two that do *)
(* not, after their lock was evicted, may each add an entry; here there is  *)
(* one entry per topic, which the later of them writes.                     *)
(***************************************************************************)
Upsert(p) ==
  /\ layout = "mem0"
  /\ At(p, "put")
  /\ disk' = NewDisk(p)
  /\ AfterPut(p)

(***************************************************************************)
(* A Mem0Error is logged and raised again.  The service may have done what  *)
(* it was asked to.                                                         *)
(***************************************************************************)
RemoteFails(p) ==
  /\ layout = "mem0"
  /\ \/ "read" \in Faults /\ (At(p, "read") \/ At(p, "load") \/ At(p, "scan")) /\ UNCHANGED disk
     \/ "write" \in Faults /\ At(p, "put") /\ disk' \in {disk, NewDisk(p)}
  /\ End(p)

(***************************************************************************)
(* The summarizer is asked for a text that is over its size.  The code goes *)
(* by the length alone: a summary is taken to be short enough.              *)
(***************************************************************************)
ShouldSummarize(e) == Summarizer /\ ~e.summarised

Summary(e) == [e EXCEPT !.summarised = TRUE]

(***************************************************************************)
(* _run_post_access: the callback fails, keeps the text, or replaces it by  *)
(* a summary of what it was shown, which is then written like any other     *)
(* content.                                                                 *)
(***************************************************************************)
Callback(p) ==
  /\ At(p, "call")
  /\ UNCHANGED disk
  /\ \/ AfterAccess(p)
     \/ /\ ShouldSummarize(task[p].entry)
        /\ task' = [task EXCEPT ![p].entry = Summary(@), ![p].rewriting = TRUE,
                                ![p].pc = WriteStep]
        /\ UNCHANGED lockVars

(***************************************************************************)
(* _read_bucket.  JSON reads one file, Mem0 makes one request; markdown     *)
(* globs the folder, then awaits one read per file that was there.  todo    *)
(* holds the files left to read and the topics found so far.                *)
(***************************************************************************)
Headings(d) == {d[f].topic : f \in {g \in File : Exists(d[g])}}

(***************************************************************************)
(* What matches a query: by its words, or by Mem0's own search.             *)
(***************************************************************************)
Ranked(found) == SUBSET found

EndScan(p, found) ==
  IF task[p].op = "list" THEN End(p) ELSE \E hits \in Ranked(found) : NextHit(p, hits)

ScanWhole(p) ==
  /\ WholeFile
  /\ At(p, "scan")
  /\ UNCHANGED disk
  /\ \/ EndScan(p, Headings(disk))
     \/ "read" \in Faults /\ EndScan(p, {})

FetchNamespace(p) ==
  /\ layout = "mem0"
  /\ At(p, "scan")
  /\ UNCHANGED disk
  /\ EndScan(p, Headings(disk))

Glob(p) ==
  /\ layout = "markdown"
  /\ At(p, "scan")
  /\ task' = [task EXCEPT ![p].todo = {f \in File : Exists(disk[f])}, ![p].pc = "files"]
  /\ UNCHANGED <<disk, lockVars>>

ScanFile(p) ==
  /\ At(p, "files")
  /\ UNCHANGED disk
  /\ \/ \E f \in task[p].todo \cap File :
          \E e \in ReadResults(f) :
            /\ task' = [task EXCEPT ![p].todo =
                 (@ \ {f}) \cup IF Exists(e) THEN {e.topic} ELSE {}]
            /\ UNCHANGED lockVars
     \/ /\ task[p].todo \cap File = {}
        /\ EndScan(p, task[p].todo)

-------------------------------------------------------------------------------
Init ==
  /\ LocksInit
  /\ layout \in Layouts
  /\ disk = EmptyDisk
  /\ task = [p \in Proc |-> NoTask]

Progress(p) ==
  /\ \/ Wake(p)
     \/ ReadTopic(p)
     \/ LoadFile(p)
     \/ Put(p)
     \/ WriteRaises(p)
     \/ Upsert(p)
     \/ RemoteFails(p)
     \/ Callback(p)
     \/ ScanWhole(p)
     \/ FetchNamespace(p)
     \/ Glob(p)
     \/ ScanFile(p)
  /\ UNCHANGED layout

Next ==
  \E p \in Proc :
    \/ \E op \in Operation, t \in Topic : Begin(p, op, t)
    \/ Progress(p)

(***************************************************************************)
(* The event loop runs every task that can run, and file I/O and the        *)
(* summarizer's call end one way or the other.                              *)
(***************************************************************************)
Spec == Init /\ [][Next]_storeVars /\ \A p \in Proc : WF_storeVars(Progress(p))
-------------------------------------------------------------------------------
(***************************************************************************)
(* Properties.                                                              *)
(***************************************************************************)
Memory ==
  [t \in Topic |-> [facts |-> disk[FileOf[t]].facts, summarised |-> disk[FileOf[t]].summarised]]

Call(p) ==
  IF task[p].pc = "idle" THEN [op |-> "none", topic |-> NoTopic, done |-> FALSE]
  ELSE [op |-> task[p].op,
        topic |-> IF task[p].op = "search" THEN NoTopic ELSE task[p].topic,
        done |-> /\ task[p].op \in {"create", "append"}
                 /\ task[p].pc = "call" \/ task[p].rewriting]

Promise ==
  INSTANCE TopicMap
    WITH Client <- Proc, Nowhere <- NoTopic, mem <- Memory, call <- [p \in Proc |-> Call(p)]

(***************************************************************************)
(* Linearizability: whatever the interleaving of tasks, each create, append *)
(* and delete takes effect exactly once and as a whole on the current       *)
(* content of its own topic, before it returns; no append is lost to        *)
(* another one, and no summary drops or brings back a fact, although each   *)
(* is a read, several awaits and a write.                                   *)
(***************************************************************************)
OperationsAreAtomic == Promise!Spec

\* The step in which the operation of task p returns to its caller.
Returns(p) == task[p].pc # "idle" /\ task'[p].pc = "idle"

(***************************************************************************)
(* A create or append has its text in the file when it returns without an   *)
(* exception (no "raise" in Faults), and a delete has removed it            *)
(* (user_guide.md: "Each operation is committed as soon as the LLM call     *)
(* returns").                                                               *)
(***************************************************************************)
CommittedOnReturn ==
  [][\A p \in Proc :
       /\ Returns(p) /\ task[p].op \in {"create", "append"} => p \in disk'[FileAt(p)].facts
       /\ Returns(p) /\ task[p].op = "delete" => ~Exists(disk'[FileAt(p)])]_storeVars

\* The JSON object p is about to write, after a load that failed and was swallowed.
LoadedNothing(p) == WholeFile /\ "read" \in Faults /\ task[p].snap = EmptyDisk

(***************************************************************************)
(* What is remembered about a topic changes by a write to that topic, and   *)
(* otherwise in one case only: the JSON store rewrites all topics of the    *)
(* agent from a load, several awaits earlier, and _load_unlocked has taken  *)
(* a read error for an empty memory.  Those topics are then gone; in no     *)
(* interleaving is one put back as it was before somebody else's write.     *)
(***************************************************************************)
OthersGoByReadErrorOnly ==
  [][\A t \in Topic :
       Memory'[t] # Memory[t] =>
         \E p \in Proc : At(p, "put") /\ (task[p].topic = t \/ LoadedNothing(p))]_storeVars

(***************************************************************************)
(* Known not to hold for the JSON store when a read can fail: a step        *)
(* changes what is remembered about the topic that is written only.         *)
(***************************************************************************)
OtherTopicsUntouched ==
  [][\A t \in Topic :
       Memory'[t] # Memory[t] => \E p \in Proc : At(p, "put") /\ task[p].topic = t]_storeVars

(***************************************************************************)
(* A task is inside at most one guarded block, and never queued while it    *)
(* holds a lock: search_topics lets go of the listing lock before it takes  *)
(* the lock of a topic, so tasks cannot wait for each other in a circle.    *)
(***************************************************************************)
NoNestedLocks ==
  \A p \in Proc :
    /\ \A l, m \in Lock : holder[l] = p /\ holder[m] = p => l = m
    /\ Holds(p) => ~Queued(p)

(***************************************************************************)
(* Every call returns, also when a read, a write or the summarizer fails:   *)
(* no lock is leaked and no queued task is forgotten.                       *)
(***************************************************************************)
EveryCallReturns == \A p \in Proc : task[p].pc # "idle" ~> task[p].pc = "idle"
===============================================================================
