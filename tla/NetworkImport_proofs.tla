-------------------------- MODULE NetworkImport_proofs --------------------------
(***************************************************************************)
(* Proofs about NetworkImport, for any files, references, projects and      *)
(* numbers of commands and failures.                                        *)
(***************************************************************************)
EXTENDS NetworkImport, SequenceTheorems, TLAPS

(***************************************************************************)
(* What the steps do to the command.                                        *)
(***************************************************************************)
SameRequest ==
  cmd'.name = cmd.name /\ cmd'.force = cmd.force /\ cmd'.asked = cmd.asked

SameItem ==
  /\ cmd'.queue = cmd.queue /\ cmd'.item = cmd.item
  /\ cmd'.pending = cmd.pending /\ cmd'.listed = cmd.listed
  /\ cmd'.urls = cmd.urls /\ cmd'.parsed = cmd.parsed

\* Counters stay within their bounds.
LEMMA OneMore ==
  ASSUME NEW n, NEW max \in Nat, n \in 0..max, n < max
  PROVE  n + 1 \in 0..max
OBVIOUS

\* A command that is started has all to do and has done nothing.
LEMMA CmdStart ==
  ASSUME cmd \in Command, NEW name \in {"init", "registry", "file"}, NEW force \in {"yes", "no"},
         NEW queue \in Seq(Item), NEW todo \in SUBSET Job, Idle,
         Start(name, force, queue, todo)
  PROVE  /\ cmd' \in Command
         /\ cmd'.name = name /\ cmd'.force = force /\ cmd'.status = "running"
         /\ cmd'.queue = queue /\ cmd'.item = "none" /\ cmd'.todo = todo
         /\ cmd'.pending = {} /\ cmd'.listed = {} /\ cmd'.wrote = {} /\ cmd'.skipped = {}
         /\ cmd'.asked = {queue[i] : i \in DOMAIN queue}
<1>1. cmd.count + 1 \in 0..MaxCommands
  BY OneMore, ImportAssumption DEF Idle, Command
<1>2. {queue[i] : i \in DOMAIN queue} \in SUBSET Item
  BY LenProperties, ElementOfSeq
<1>3. cmd.failures \in 0..MaxFailures
  BY DEF Command
<1>. QED  BY <1>1, <1>2, <1>3 DEF Start, Command

\* ns export, and the user who goes to another project.
LEMMA CmdOther ==
  ASSUME cmd \in Command, Idle, cmd' = [cmd EXCEPT !.count = @ + 1, !.status = "none"]
  PROVE  cmd' \in Command /\ cmd'.status = "none"
<1>1. cmd.count + 1 \in 0..MaxCommands
  BY OneMore, ImportAssumption DEF Idle, Command
<1>. QED  BY <1>1 DEF Command

\* The steps of ns init.
LEMMA CmdInit ==
  ASSUME cmd \in Command, InitEnds \/ \E f \in Job : CopyTemplate(f)
  PROVE  cmd' \in Command /\ cmd'.name = "init"
<1>1. CASE InitEnds
  <2>1. cmd' = [cmd EXCEPT !.status = "done"] /\ cmd.name = "init"
    BY <1>1 DEF InitEnds, Running
  <2>. QED  BY <2>1 DEF Command
<1>2. CASE \E f \in Job : CopyTemplate(f)
  <2>1. PICK f \in Job : cmd' = [cmd EXCEPT !.todo = @ \ {f}] /\ cmd.name = "init"
    BY <1>2 DEF CopyTemplate, Running
  <2>. QED  BY <2>1 DEF Command
<1>. QED  BY <1>1, <1>2

\* A directory is copied with files, anything else alone.
LEMMA PartsOf ==
  ASSUME NEW f \in File
  PROVE  /\ Parts(f) \subseteq File /\ f \in Parts(f)
         /\ Parts(f) \cap Net \subseteq {f} /\ Parts(f) \cap Package \subseteq {f}
         /\ Parts(f) \cap {"mcp"} = {}
<1>1. \A p \in Package : Tree[p] \subseteq Python
  BY ImportAssumption
<1>. QED  BY <1>1, ImportAssumption DEF Parts, File, Module, Hocon

\* A file that is skipped or copied is done.
LEMMA CmdFile ==
  ASSUME cmd \in Command, NEW f \in File, SkipFile(f) \/ CopyFile(f)
  PROVE  /\ cmd' \in Command /\ SameRequest /\ SameItem
         /\ cmd'.todo = cmd.todo \ {f} /\ cmd'.status = cmd.status /\ cmd'.clean = cmd.clean
         /\ SkipFile(f) => cmd'.wrote = cmd.wrote
         /\ CopyFile(f) => cmd'.wrote = cmd.wrote \cup Parts(f)
         /\ cmd'.wrote \cup cmd'.skipped \subseteq cmd.wrote \cup cmd.skipped \cup Parts(f)
<1>1. Parts(f) \in SUBSET File /\ f \in Parts(f)
  BY PartsOf
<1>2. cmd.todo \ {f} \in SUBSET Job /\ cmd.wrote \cup Parts(f) \in SUBSET File
      /\ cmd.skipped \cup {f} \in SUBSET File
  BY <1>1 DEF Command
<1>4. ASSUME SkipFile(f)
      PROVE  /\ cmd' \in Command /\ SameRequest /\ SameItem
             /\ cmd'.todo = cmd.todo \ {f} /\ cmd'.status = cmd.status /\ cmd'.clean = cmd.clean
             /\ cmd'.wrote = cmd.wrote /\ cmd'.skipped = cmd.skipped \cup {f}
  <2>1. cmd' = [cmd EXCEPT !.todo = cmd.todo \ {f}, !.skipped = cmd.skipped \cup {f}]
    BY <1>4 DEF SkipFile
  <2>2. PICK todo \in SUBSET Job, skipped \in SUBSET File :
          todo = cmd.todo \ {f} /\ skipped = cmd.skipped \cup {f}
    BY <1>2
  <2>3. cmd' = [cmd EXCEPT !.todo = todo, !.skipped = skipped]
    BY <2>1, <2>2
  <2>4. cmd' \in Command
    BY <2>3 DEF Command
  <2>5. /\ SameRequest /\ SameItem /\ cmd'.todo = todo /\ cmd'.status = cmd.status
        /\ cmd'.clean = cmd.clean /\ cmd'.wrote = cmd.wrote /\ cmd'.skipped = skipped
    BY <2>3 DEF Command, SameRequest, SameItem
  <2>. QED  BY <2>2, <2>4, <2>5
<1>5. ASSUME CopyFile(f)
      PROVE  /\ cmd' \in Command /\ SameRequest /\ SameItem
             /\ cmd'.todo = cmd.todo \ {f} /\ cmd'.status = cmd.status /\ cmd'.clean = cmd.clean
             /\ cmd'.wrote = cmd.wrote \cup Parts(f) /\ cmd'.skipped = cmd.skipped
  <2>1. cmd' = [cmd EXCEPT !.todo = cmd.todo \ {f}, !.wrote = cmd.wrote \cup Parts(f)]
    BY <1>5 DEF CopyFile
  <2>2. PICK todo \in SUBSET Job, written \in SUBSET File :
          todo = cmd.todo \ {f} /\ written = cmd.wrote \cup Parts(f)
    BY <1>2
  <2>3. cmd' = [cmd EXCEPT !.todo = todo, !.wrote = written]
    BY <2>1, <2>2
  <2>4. cmd' \in Command
    BY <2>3 DEF Command
  <2>5. /\ SameRequest /\ SameItem /\ cmd'.todo = todo /\ cmd'.status = cmd.status
        /\ cmd'.clean = cmd.clean /\ cmd'.wrote = written /\ cmd'.skipped = cmd.skipped
    BY <2>3 DEF Command, SameRequest, SameItem
  <2>. QED  BY <2>2, <2>4, <2>5
<1>6. CASE SkipFile(f) /\ ~CopyFile(f)
  BY <1>1, <1>4, <1>6
<1>7. CASE CopyFile(f) /\ ~SkipFile(f)
  BY <1>1, <1>5, <1>7
<1>8. CASE SkipFile(f) /\ CopyFile(f)
  BY <1>1, <1>4, <1>5, <1>8
<1>. QED  BY <1>6, <1>7, <1>8

\* A copy that fails is noted, or ends the command.
LEMMA CmdFail ==
  ASSUME cmd \in Command, NEW f \in File, CopyFails(f)
  PROVE  /\ cmd' \in Command /\ SameRequest /\ SameItem
         /\ cmd'.wrote \cup cmd'.skipped \subseteq cmd.wrote \cup cmd.skipped \cup Parts(f)
         /\ cmd'.clean # "yes" /\ (cmd.clean = "lost" => cmd'.clean = "lost")
         /\ \/ cmd'.status = "failed"
            \/ cmd'.todo = cmd.todo \ {f} /\ cmd'.status = cmd.status
<1>1. cmd.failures + 1 \in 0..MaxFailures
  BY OneMore, ImportAssumption DEF CopyFails, Command
<1>2. Unclean(cmd.clean) \in {"no", "lost"} /\ (cmd.clean = "lost" => Unclean(cmd.clean) = "lost")
  BY DEF Unclean
<1>3. PICK written \in SUBSET Parts(f) :
        \/ cmd' = [Fault(cmd.todo \ {f}) EXCEPT !.wrote = @ \cup written]
        \/ cmd' = [Fault(cmd.todo) EXCEPT !.status = "failed", !.wrote = @ \cup written]
  BY DEF CopyFails
<1>4. written \in SUBSET File
  BY PartsOf
<1>5. CASE cmd' = [Fault(cmd.todo \ {f}) EXCEPT !.wrote = @ \cup written]
  <2>1. cmd' = [cmd EXCEPT !.todo = cmd.todo \ {f}, !.clean = Unclean(cmd.clean),
                           !.failures = cmd.failures + 1, !.wrote = cmd.wrote \cup written]
    BY <1>5 DEF Fault, Command
  <2>2. cmd' \in Command
    BY <1>1, <1>2, <1>4, <2>1 DEF Command
  <2>. QED  BY <1>2, <2>1, <2>2 DEF Command, SameRequest, SameItem
<1>6. CASE cmd' = [Fault(cmd.todo) EXCEPT !.status = "failed", !.wrote = @ \cup written]
  <2>1. cmd' = [cmd EXCEPT !.todo = cmd.todo, !.clean = Unclean(cmd.clean),
                           !.failures = cmd.failures + 1, !.status = "failed",
                           !.wrote = cmd.wrote \cup written]
    BY <1>6 DEF Fault, Command
  <2>2. cmd' \in Command
    BY <1>1, <1>2, <1>4, <2>1 DEF Command
  <2>. QED  BY <1>2, <2>1, <2>2 DEF Command, SameRequest, SameItem
<1>. QED  BY <1>3, <1>5, <1>6

\* An analysis that raises leaves a network out, or ends the command.
LEMMA CmdAnalyze ==
  ASSUME cmd \in Command, AnalyzeFails
  PROVE  /\ cmd' \in Command /\ SameRequest /\ cmd'.item = cmd.item
         /\ cmd'.wrote = cmd.wrote /\ cmd'.skipped = cmd.skipped
         /\ cmd'.listed = cmd.listed /\ cmd'.pending = cmd.pending /\ cmd'.todo = {}
         /\ cmd'.clean # "yes" /\ (cmd.clean = "lost" => cmd'.clean = "lost")
         /\ cmd'.status = "failed" \/ (cmd'.status = cmd.status /\ cmd'.queue = Tail(cmd.queue))
<1>1. cmd.failures + 1 \in 0..MaxFailures
  BY OneMore, ImportAssumption DEF AnalyzeFails, Command
<1>2. Unclean(cmd.clean) \in {"no", "lost"} /\ (cmd.clean = "lost" => Unclean(cmd.clean) = "lost")
  BY DEF Unclean
<1>3. Tail(cmd.queue) \in Seq(Item)
  BY HeadTailProperties DEF AnalyzeFails, Command
<1>4. CASE cmd' = [Fault({}) EXCEPT !.queue = Tail(@)]
  <2>1. cmd' = [cmd EXCEPT !.todo = {}, !.clean = Unclean(cmd.clean),
                           !.failures = cmd.failures + 1, !.queue = Tail(cmd.queue)]
    BY <1>4 DEF Fault, Command
  <2>2. cmd' \in Command
    BY <1>1, <1>2, <1>3, <2>1 DEF Command
  <2>. QED  BY <1>2, <2>1, <2>2 DEF Command, SameRequest
<1>5. CASE cmd' = [Fault({}) EXCEPT !.status = "failed"]
  <2>1. cmd' = [cmd EXCEPT !.todo = {}, !.clean = Unclean(cmd.clean),
                           !.failures = cmd.failures + 1, !.status = "failed"]
    BY <1>5 DEF Fault, Command
  <2>2. cmd' \in Command
    BY <1>1, <1>2, <2>1 DEF Command
  <2>. QED  BY <1>2, <2>1, <2>2 DEF Command, SameRequest
<1>. QED  BY <1>4, <1>5 DEF AnalyzeFails

\* The servers are merged, or their merge fails.
LEMMA CmdMerge ==
  ASSUME cmd \in Command, MergeServers
  PROVE  /\ cmd' \in Command /\ SameRequest /\ SameItem
         /\ cmd'.todo = {} /\ cmd'.status = cmd.status /\ cmd'.clean = cmd.clean
         /\ cmd'.wrote = cmd.wrote /\ cmd'.skipped = cmd.skipped
<1>1. cmd' = [cmd EXCEPT !.todo = @ \ {"mcp"}] /\ cmd.todo = {"mcp"}
  BY DEF MergeServers
<1>. QED  BY <1>1 DEF Command, SameRequest, SameItem

\* The merge of the servers fails: a network's result is lost, a file's import
\* ends.
LEMMA CmdMergeFails ==
  ASSUME cmd \in Command, MergeFails
  PROVE  /\ cmd' \in Command /\ SameRequest /\ cmd'.queue = cmd.queue
         /\ \/ cmd'.status = "failed"
            \/ /\ cmd'.todo = {} /\ cmd'.item = "none" /\ cmd'.pending = {}
               /\ cmd'.clean = "lost" /\ cmd'.status = cmd.status
<1>1. cmd.failures + 1 \in 0..MaxFailures
  BY OneMore, ImportAssumption DEF MergeFails, Command
<1>2. Unclean(cmd.clean) \in {"no", "lost"}
  BY DEF Unclean
<1>3. CASE cmd' = [Fault({}) EXCEPT !.item = "none", !.urls = {}, !.pending = {}, !.clean = "lost"]
  <2>1. cmd' = [cmd EXCEPT !.todo = {}, !.clean = "lost", !.failures = cmd.failures + 1,
                           !.item = "none", !.urls = {}, !.pending = {}]
    BY <1>3 DEF Fault, Command
  <2>2. cmd' \in Command
    BY <1>1, <2>1 DEF Command
  <2>. QED  BY <2>1, <2>2 DEF Command, SameRequest
<1>4. CASE cmd' = [Fault(cmd.todo) EXCEPT !.status = "failed"]
  <2>1. cmd' = [cmd EXCEPT !.todo = cmd.todo, !.clean = Unclean(cmd.clean),
                           !.failures = cmd.failures + 1, !.status = "failed"]
    BY <1>4 DEF Fault
  <2>2. cmd' \in Command
    BY <1>1, <1>2, <2>1 DEF Command
  <2>. QED  BY <2>1, <2>2 DEF Command, SameRequest
<1>. QED  BY <1>3, <1>4 DEF MergeFails

\* A network or file that is done is listed.
LEMMA CmdItemDone ==
  ASSUME cmd \in Command, ItemDone
  PROVE  /\ cmd' \in Command /\ SameRequest /\ cmd'.queue = cmd.queue
         /\ cmd'.item = "none" /\ cmd'.pending = {} /\ cmd'.listed = cmd.listed \cup cmd.pending
         /\ cmd'.todo = {} /\ cmd'.status = cmd.status /\ cmd'.clean = cmd.clean
         /\ cmd'.wrote = cmd.wrote /\ cmd'.skipped = cmd.skipped /\ cmd'.parsed = cmd.parsed
<1>1. /\ cmd' = [cmd EXCEPT !.item = "none", !.urls = {}, !.pending = {},
                            !.listed = @ \cup cmd.pending]
      /\ cmd.todo = {}
  BY DEF ItemDone
<1>2. cmd' \in Command
  BY <1>1 DEF Command
<1>. QED  BY <1>1, <1>2 DEF Command, SameRequest

\* The manifest is written, and the import is done.
LEMMA CmdUpdate ==
  ASSUME cmd \in Command, UpdateManifest
  PROVE  /\ cmd' \in Command /\ SameRequest /\ SameItem
         /\ cmd'.status = "done" /\ cmd'.clean = cmd.clean
         /\ cmd'.wrote = cmd.wrote /\ cmd'.skipped = cmd.skipped
<1>1. cmd' = [cmd EXCEPT !.status = "done"]
  BY DEF UpdateManifest
<1>. QED  BY <1>1 DEF Command, SameRequest, SameItem

\* A command that is killed.
LEMMA CmdKill ==
  ASSUME cmd \in Command, Kill
  PROVE  cmd' \in Command /\ cmd'.status = "killed"
<1>1. cmd.failures + 1 \in 0..MaxFailures
  BY OneMore, ImportAssumption DEF Kill, Command
<1>2. cmd' = [cmd EXCEPT !.status = "killed", !.failures = cmd.failures + 1]
  BY DEF Kill
<1>. QED  BY <1>1, <1>2 DEF Command

-------------------------------------------------------------------------------
(***************************************************************************)
(* The analysis of dependencies: what a network reaches is closed under     *)
(* references to networks that exist.                                       *)
(***************************************************************************)
LEMMA ReachedClosed ==
  ASSUME NEW d \in [File -> Content], NEW n \in Net
  PROVE  /\ n \in Reached(d, n) /\ Reached(d, n) \subseteq Net
         /\ \A m \in Reached(d, n) : SeenRefs(d, m) \cap Present(d) \subseteq Reached(d, n)
<1>1. n \in Reached(d, n) /\ Reached(d, n) \subseteq Net
  BY DEF Reached
<1>2. ASSUME NEW m \in Reached(d, n), NEW r \in SeenRefs(d, m) \cap Present(d)
      PROVE  r \in Reached(d, n)
  <2>1. r \in Net /\ m \in Net
    BY <1>1, <1>2, ImportAssumption DEF SeenRefs
  <2>2. ASSUME NEW nets \in SUBSET Net, n \in nets, Visited(d, nets)
        PROVE  r \in nets
    <3>1. m \in nets
      BY <1>2, <2>2 DEF Reached
    <3>. QED  BY <1>2, <2>2, <3>1 DEF Visited
  <2>. QED  BY <2>1, <2>2 DEF Reached
<1>. QED  BY <1>1, <1>2

\* The reference of a reached network that has a file is reached itself.
LEMMA SubNetworkReached ==
  ASSUME NEW d \in [File -> Content], NEW n \in Net
  PROVE  /\ SubNetworks(d, n) \subseteq Net
         /\ SubNetworks(d, n) \cap Present(d) \subseteq Reached(d, n)
         /\ \A m \in Reached(d, n) : SeenRefs(d, m) \subseteq SubNetworks(d, n)
<1>1. \A m \in Reached(d, n) : SeenRefs(d, m) \subseteq Net
  BY ReachedClosed, ImportAssumption DEF SeenRefs
<1>. QED  BY <1>1, ReachedClosed DEF SubNetworks

\* A member of a family's member is in its union.
LEMMA InUnion ==
  ASSUME NEW F, NEW S, NEW m \in S, NEW f \in F[m]
  PROVE  f \in UNION {F[k] : k \in S}
OBVIOUS

\* The files of an agent's classes are modules.
LEMMA ToolFilesAreModules ==
  ASSUME NEW d \in [File -> Content], NEW n \in Net
  PROVE  ToolFiles(d, n) \subseteq Module
<1>. DEFINE tools == (UNION {Uses[k] : k \in Readable(d, n)}) \cap Present(d)
<1>1. Readable(d, n) \subseteq Net
  BY ReachedClosed DEF Readable
<1>2. tools \subseteq Module
  BY <1>1, ImportAssumption
<1>. QED  BY <1>2, ImportAssumption DEF ToolFiles, Module

\* A bundle has what a whole network in it includes, and if this network could
\* be read, what it refers to.
LEMMA ExportIsClosed ==
  ASSUME disk \in [File -> Content], NEW n \in Net, disk[n] # "absent",
         NEW m \in Net, Exported(n).content[m] = "whole",
         NEW f \in Present(disk),
         f \in Includes[m] \/ (Parsed(disk, m) /\ f \in Refs[m] \cup ModulesOf(m))
  PROVE  Exported(n).content[f] # "absent"
<1>. DEFINE tools == (UNION {Uses[k] : k \in Readable(disk, n)}) \cap Present(disk)
            inits == (UNION {Inits[t] : t \in tools \cap Python}) \cap Present(disk)
            subs == SubNetworks(disk, n)
            modules == Uses[m] \cap Present(disk)
<1>1. /\ \A k \in Net : Refs[k] \subseteq Net /\ Includes[k] \subseteq Fragment
                        /\ Uses[k] \subseteq Module
      /\ \A t \in Python : Inits[t] \subseteq Python
      /\ \A p \in Package : Tree[p] \subseteq Python
      /\ Net \cap Fragment = {} /\ Net \cap Module = {}
      /\ Net \subseteq File /\ m \in File /\ Module = Python \cup Package
  BY ImportAssumption DEF Hocon, File, Module
<1>2. /\ Exported(n).content
           = [g \in File |-> IF g \in BundledFiles(n) THEN Stamped(disk[g]) ELSE "absent"]
      /\ \A g \in File : Exported(n).content[g]
                           = IF g \in BundledFiles(n) THEN Stamped(disk[g]) ELSE "absent"
  BY DEF Exported
<1>3. m \in BundledFiles(n) /\ disk[m] \in {"own", "whole"}
  BY <1>1, <1>2 DEF Stamped, Content
<1>4. Readable(disk, n) \subseteq Net /\ subs \subseteq Net /\ Reached(disk, n) \subseteq Net
  BY ReachedClosed, SubNetworkReached DEF Readable
<1>5. ToolFiles(disk, n) = tools \cup inits /\ BundledModules(n) \subseteq Module
  BY <1>1, ToolFilesAreModules DEF ToolFiles, BundledModules
<1>6. IncludedFiles(disk, {n} \cup subs) \subseteq Fragment
  BY <1>1, <1>4 DEF IncludedFiles
<1>7. m \in {n} \cup subs /\ m \in Present(disk)
  BY <1>1, <1>3, <1>5, <1>6 DEF BundledFiles
<1>8. m \in Reached(disk, n)
  BY <1>7, ReachedClosed, SubNetworkReached
<1>9. f \in BundledFiles(n)
  <2>1. CASE f \in Includes[m]
    <3>1. m \in {k \in {n} \cup subs : disk[k] \in {"own", "whole"}}
      BY <1>3, <1>7
    <3>2. f \in IncludedFiles(disk, {n} \cup subs)
      BY <2>1, <3>1, InUnion DEF IncludedFiles
    <3>. QED  BY <3>2 DEF BundledFiles
  <2>2. CASE Parsed(disk, m) /\ f \in Refs[m]
    <3>1. f \in SeenRefs(disk, m)
      BY <2>2 DEF SeenRefs
    <3>. QED  BY <1>8, <3>1, SubNetworkReached DEF BundledFiles
  <2>3. CASE Parsed(disk, m) /\ f \in ModulesOf(m)
    <3>1. m \in Readable(disk, n)
      BY <1>8, <2>3 DEF Readable
    <3>2. modules \subseteq tools
      BY <3>1, InUnion
    <3>3. f \in (modules \cap Python) \cup (UNION {Inits[t] : t \in modules \cap Python})
                  \cup (UNION {Tree[p] : p \in modules \cap Package})
      BY <2>3 DEF ModulesOf
    <3>. HIDE DEF tools, modules
    <3>4. CASE f \in modules \cap Python
      BY <1>5, <3>2, <3>4 DEF BundledFiles, BundledModules
    <3>5. CASE f \in UNION {Inits[t] : t \in modules \cap Python}
      <4>1. f \in inits /\ f \in Python
        BY <1>1, <3>2, <3>5
      <4>. QED  BY <1>5, <4>1 DEF BundledFiles, BundledModules
    <3>6. CASE f \in UNION {Tree[p] : p \in modules \cap Package}
      <4>1. f \in BundledModules(n)
        BY <1>5, <3>2, <3>6 DEF BundledModules
      <4>. QED  BY <4>1 DEF BundledFiles
    <3>. QED  BY <3>3, <3>4, <3>5, <3>6
  <2>. QED  BY <2>1, <2>2, <2>3
<1>10. f \in File /\ disk[f] \in Content /\ disk[f] # "absent"
  BY DEF Present
<1>. QED  BY <1>2, <1>9, <1>10 DEF Stamped, Content

-------------------------------------------------------------------------------
(***************************************************************************)
(* Types, and what the forms of the HOCON documents say of their entries.   *)
(***************************************************************************)
Typed ==
  /\ disk \in [File -> Content] /\ Enclosed(disk) /\ manifest \in [Hocon -> Entry] /\ servers \in [Url -> Server]
  /\ shape \in Shape /\ mcpShape \in Shape
  /\ bundle.content \in [File -> Content] /\ bundle.urls \subseteq Url
  /\ bundle.kind \in {"none", "hocon", "zip"} /\ (bundle.kind # "none" => bundle.main \in Net)
  /\ cmd \in Command
  /\ mcpShape = "absent" => \A u \in Url : servers[u] = "none"

(***************************************************************************)
(* What the running import has in hand.                                     *)
(***************************************************************************)
Handled ==
  Importing =>
    /\ cmd.name = "registry" => cmd.item \in Net \cup {"none"}
                                /\ cmd.queue \in Seq(Net \cap Library)
    /\ cmd.name = "file" => cmd.item \in {"none", "bundle"} /\ bundle.kind # "none"
                            /\ cmd.queue \in Seq({"bundle", "bad"})
                            /\ \A f \in cmd.todo \cap File : Landed(f) # "absent"
    /\ cmd.item = "none" => cmd.todo = {} /\ cmd.pending = {}
    /\ cmd.todo \subseteq File \cup {"mcp"} /\ cmd.todo \cap Net \subseteq cmd.pending

\* Selections are sequences.
LEMMA Selected ==
  /\ \A q \in Selections : q \in Seq(Net \cap Library) /\ q \in Seq(Item) /\ q # <<>>
  /\ \A q \in FileSelections : q \in Seq({"bundle", "bad"}) /\ q \in Seq(Item)
<1>1. ASSUME NEW q \in Selections
      PROVE  q \in Seq(Net \cap Library) /\ q # <<>>
  <2>1. PICK k \in 1..2 : q \in [1..k -> Net \cap Library]
    BY DEF Selections
  <2>2. q \in Seq(Net \cap Library)
    BY <2>1, SeqDef
  <2>3. 1 \in DOMAIN q /\ DOMAIN <<>> = {}
    BY <2>1
  <2>. QED  BY <2>2, <2>3
<1>2. \A q \in FileSelections : q \in Seq({"bundle", "bad"})
  <2>1. /\ <<"bundle">> \in Seq({"bundle", "bad"})
        /\ <<"bundle", "bad">> \in Seq({"bundle", "bad"})
        /\ <<"bad", "bundle">> \in Seq({"bundle", "bad"})
    OBVIOUS
  <2>. QED  BY <2>1 DEF FileSelections
<1>3. Net \cap Library \subseteq Item /\ {"bundle", "bad"} \subseteq Item
  BY DEF Item
<1>. QED  BY <1>1, <1>2, <1>3, SeqMonotonic

\* The networks of the package that an import of n copies.
Networks(n) == {n} \cup SubNetworks(LibraryDisk, n)

CopiedNetwork(n) ==
  ((Networks(n) \cup ToolFiles(LibraryDisk, n) \cup Shared) \cap Library)
    \cup IF McpTools(LibraryDisk, n) \cap LibraryUrls # {} THEN {"mcp"} ELSE {}

CleanNetwork(n) ==
  /\ SubNetworks(LibraryDisk, n) \cup Shared \subseteq Library
  /\ McpTools(LibraryDisk, n) \subseteq LibraryUrls

ParsedNetwork(n) == Readable(LibraryDisk, n) = Reached(LibraryDisk, n)

\* The next network of an import from the package.
LEMMA CmdNetwork ==
  ASSUME cmd \in Command, cmd.queue # <<>>, NEW n \in Net, NextNetwork(n)
  PROVE  /\ cmd' \in Command /\ SameRequest /\ cmd'.status = cmd.status /\ cmd'.wrote = cmd.wrote
         /\ cmd'.skipped = cmd.skipped /\ cmd'.listed = cmd.listed
         /\ cmd'.item = n /\ cmd'.queue = Tail(cmd.queue)
         /\ cmd'.todo = CopiedNetwork(n) /\ cmd'.pending = Networks(n)
         /\ cmd'.urls = McpTools(LibraryDisk, n) \cap LibraryUrls
         /\ cmd'.clean = "yes" => cmd.clean = "yes" /\ CleanNetwork(n)
         /\ cmd'.parsed = "all" => cmd.parsed = "all" /\ ParsedNetwork(n)
         /\ cmd.clean = "lost" => cmd'.clean = "lost"
<1>1. LibraryDisk \in [File -> Content]
  BY DEF LibraryDisk, Content
<1>2. SubNetworks(LibraryDisk, n) \subseteq Net
  BY <1>1, SubNetworkReached
<1>3. Registered(Networks(n)) = Networks(n)
  BY <1>2, ImportAssumption DEF Registered, Networks, Hocon
<1>4. /\ CopiedNetwork(n) \in SUBSET Job /\ Networks(n) \in SUBSET Hocon
      /\ McpTools(LibraryDisk, n) \cap LibraryUrls \in SUBSET Url
  BY <1>2, ImportAssumption DEF CopiedNetwork, Job, Hocon, Networks
<1>5. Tail(cmd.queue) \in Seq(Item) /\ n \in Item
  BY HeadTailProperties DEF Command, Item
<1>6. PICK clean \in {"yes", "no", "lost"} :
        /\ clean = IF CleanNetwork(n) THEN cmd.clean ELSE Unclean(cmd.clean)
        /\ clean = "yes" => cmd.clean = "yes" /\ CleanNetwork(n)
        /\ cmd.clean = "lost" => clean = "lost"
  BY DEF Unclean, Command
<1>7. PICK parsed \in {"all", "some"} :
        /\ parsed = IF ParsedNetwork(n) THEN cmd.parsed ELSE "some"
        /\ parsed = "all" => cmd.parsed = "all" /\ ParsedNetwork(n)
  BY DEF Command
<1>. DEFINE urls == McpTools(LibraryDisk, n) \cap LibraryUrls
<1>8. cmd' = [cmd EXCEPT !.item = n, !.queue = Tail(cmd.queue), !.todo = CopiedNetwork(n),
                         !.urls = urls, !.pending = Networks(n), !.clean = clean,
                         !.parsed = parsed]
  BY <1>3, <1>6, <1>7 DEF NextNetwork, CopiedNetwork, CleanNetwork, ParsedNetwork, Networks
<1>. HIDE DEF urls
<1>9. cmd' \in Command
  BY <1>4, <1>5, <1>8 DEF Command, urls
<1>10. /\ SameRequest /\ cmd'.status = cmd.status /\ cmd'.wrote = cmd.wrote
       /\ cmd'.skipped = cmd.skipped
       /\ cmd'.listed = cmd.listed /\ cmd'.item = n /\ cmd'.queue = Tail(cmd.queue)
  BY <1>8 DEF Command, SameRequest
<1>11. /\ cmd'.todo = CopiedNetwork(n) /\ cmd'.pending = Networks(n) /\ cmd'.clean = clean
       /\ cmd'.urls = urls /\ cmd'.parsed = parsed
  BY <1>8 DEF Command
<1>. QED  BY <1>6, <1>7, <1>9, <1>10, <1>11 DEF urls

\* The file of an import.
LEMMA CmdBundle ==
  ASSUME cmd \in Command, bundle.urls \subseteq Url, cmd.queue # <<>>, NextBundle
  PROVE  /\ cmd' \in Command /\ SameRequest /\ cmd'.status = cmd.status /\ cmd'.wrote = cmd.wrote
         /\ cmd'.skipped = cmd.skipped /\ cmd'.listed = cmd.listed
         /\ cmd'.item = "bundle" /\ cmd'.queue = Tail(cmd.queue)
         /\ cmd'.clean = cmd.clean /\ cmd'.parsed = cmd.parsed
         /\ cmd'.todo \subseteq File \cup {"mcp"} /\ cmd'.todo \cap Net \subseteq cmd'.pending
         /\ \A f \in cmd'.todo \cap File : Landed(f) # "absent"
<1>. DEFINE files == {f \in File : Landed(f) # "absent"}
            todo == files \cup IF bundle.kind = "zip" /\ bundle.urls # {} THEN {"mcp"} ELSE {}
<1>1. Registered(files) \in SUBSET Hocon /\ files \cap Net \subseteq Registered(files)
  BY ImportAssumption DEF Registered, Hocon
<1>2. /\ todo \in SUBSET Job /\ todo \subseteq File \cup {"mcp"} /\ todo \cap Net \subseteq files
      /\ todo \cap File \subseteq files /\ \A f \in files : Landed(f) # "absent"
  BY ImportAssumption DEF Job, File
<1>3. Tail(cmd.queue) \in Seq(Item) /\ "bundle" \in Item
  BY HeadTailProperties DEF Command, Item
<1>4. cmd' = [cmd EXCEPT !.item = "bundle", !.queue = Tail(cmd.queue), !.todo = todo,
                         !.urls = bundle.urls, !.pending = Registered(files)]
  BY DEF NextBundle
<1>. HIDE DEF todo, files
<1>5. cmd' \in Command
  BY <1>1, <1>2, <1>3, <1>4 DEF Command
<1>6. /\ SameRequest /\ cmd'.status = cmd.status /\ cmd'.wrote = cmd.wrote
      /\ cmd'.skipped = cmd.skipped /\ cmd'.parsed = cmd.parsed
      /\ cmd'.listed = cmd.listed /\ cmd'.item = "bundle" /\ cmd'.queue = Tail(cmd.queue)
  BY <1>4 DEF Command, SameRequest
<1>7. cmd'.todo = todo /\ cmd'.pending = Registered(files) /\ cmd'.clean = cmd.clean
  BY <1>4 DEF Command
<1>. QED  BY <1>1, <1>2, <1>5, <1>6, <1>7

\* An import of files that meets a bad one ends.
LEMMA CmdExit ==
  ASSUME cmd \in Command, Exit
  PROVE  cmd' \in Command /\ cmd'.status = "failed"
BY DEF Exit, Command

\* A merge keeps the kinds of servers, and every one if the document has
\* braces; the new keys have theirs.
LEMMA MergedServers ==
  ASSUME Typed, NEW keys \in SUBSET Url
  PROVE  LET merged == Merged(servers, mcpShape, keys, "import")
             form == MergedShape(servers, mcpShape, keys)
         IN  /\ merged \in [Url -> Server] /\ form \in Shape \ {"absent"}
             /\ mcpShape # "bare" =>
                  /\ form # "bare"
                  /\ \A k \in Url : servers[k] # "none" => merged[k] = servers[k]
                  /\ \A k \in keys : merged[k] # "none"
<1>1. CASE mcpShape = "bare" /\ NewKeys(servers, keys) # {}
  <2>1. Merged(servers, mcpShape, keys, "import")
          = [k \in Url |-> IF k \in NewKeys(servers, keys) THEN "import" ELSE "none"]
    BY <1>1 DEF Merged, Typed
  <2>. QED  BY <1>1, <2>1 DEF MergedShape, Shape, Typed, Server
<1>2. CASE ~ (mcpShape = "bare" /\ NewKeys(servers, keys) # {})
  <2>1. Merged(servers, mcpShape, keys, "import")
          = [k \in Url |-> IF k \in NewKeys(servers, keys) THEN "import" ELSE servers[k]]
    BY <1>2 DEF Merged, Typed
  <2>. QED  BY <1>2, <2>1 DEF MergedShape, Shape, NewKeys, Typed, Server
<1>. QED  BY <1>1, <1>2

\* A merge keeps the kinds of entries, and every one if the document has
\* braces; the new keys have theirs.
LEMMA MergedEntries ==
  ASSUME Typed, NEW keys \in SUBSET Hocon
  PROVE  LET merged == Merged(manifest, shape, keys, "on")
             form == MergedShape(manifest, shape, keys)
         IN  /\ merged \in [Hocon -> Entry] /\ form \in Shape \ {"absent"}
             /\ shape # "bare" =>
                  /\ form # "bare"
                  /\ \A k \in Hocon : manifest[k] # "none" => merged[k] = manifest[k]
                  /\ \A k \in keys : merged[k] # "none"
<1>1. CASE shape = "bare" /\ NewKeys(manifest, keys) # {}
  <2>1. Merged(manifest, shape, keys, "on")
          = [k \in Hocon |-> IF k \in NewKeys(manifest, keys) THEN "on" ELSE "none"]
    BY <1>1 DEF Merged, Typed
  <2>. QED  BY <1>1, <2>1 DEF MergedShape, Shape, Typed, Entry
<1>2. CASE ~ (shape = "bare" /\ NewKeys(manifest, keys) # {})
  <2>1. Merged(manifest, shape, keys, "on")
          = [k \in Hocon |-> IF k \in NewKeys(manifest, keys) THEN "on" ELSE manifest[k]]
    BY <1>2 DEF Merged, Typed
  <2>. QED  BY <1>2, <2>1 DEF MergedShape, Shape, NewKeys, Typed, Entry
<1>. QED  BY <1>1, <1>2

\* Files that are put somewhere come with the directories they are in, and
\* leave the others as they are.
LEMMA PutFiles ==
  ASSUME disk \in [File -> Content], Enclosed(disk), NEW files \in SUBSET File,
         NEW new \in [files -> Content], \A p \in files \cap Package : new[p] # "absent",
         Put(new)
  PROVE  /\ disk' \in [File -> Content] /\ Enclosed(disk')
         /\ \A f \in files : disk'[f] = new[f]
         /\ \A f \in File \ files :
              disk'[f] = disk[f] \/ (f \in Package /\ disk[f] = "absent" /\ disk'[f] = "whole")
<1>1. disk' = [f \in File |->
                 IF f \in files THEN new[f]
                 ELSE IF f \in Package /\ disk[f] = "absent" /\ Tree[f] \cap files # {}
                 THEN "whole" ELSE disk[f]]
  BY DEF Put
<1>2. disk' \in [File -> Content] /\ \A f \in files : disk'[f] = new[f]
  BY <1>1 DEF Content
<1>3. \A f \in File \ files :
        disk'[f] = disk[f] \/ (f \in Package /\ disk[f] = "absent" /\ disk'[f] = "whole")
  BY <1>1
<1>4. ASSUME NEW p \in Package, NEW f \in Tree[p], disk'[f] # "absent"
      PROVE  disk'[p] # "absent"
  <2>1. p \in File /\ f \in File /\ f \notin Package
    BY <1>4, ImportAssumption DEF File, Module
  <2>2. CASE f \in files
    BY <1>1, <1>4, <2>1, <2>2
  <2>3. CASE f \notin files
    BY <1>1, <1>4, <2>1, <2>3 DEF Enclosed
  <2>. QED  BY <2>2, <2>3
<1>. QED  BY <1>2, <1>3, <1>4 DEF Enclosed

\* A copy that ends early, or gets through, leaves a project with the types it
\* had, and touches nothing that was there if what it copies was not there.
LEMMA Placed ==
  ASSUME Typed, Handled, cmd.status = "running", NEW f \in File, f \in cmd.todo,
         \/ Put([g \in Parts(f) |-> Source(g)])
         \/ \E written \in SUBSET Parts(f) : PutSome(written)
  PROVE  /\ disk' \in [File -> Content] /\ Enclosed(disk')
         /\ disk[f] = "absent" => \A g \in File : disk[g] # "absent" => disk'[g] = disk[g]
<1>1. \A g \in File : Source(g) \in Content
  BY ImportAssumption DEF Source, Landed, Content, Handled, Importing, Typed, File, Command
<1>2. Source(f) # "absent"
  BY DEF Source, Handled, Importing
<1>3. PICK written \in SUBSET Parts(f) :
        \E new \in [written -> Content] :
          Put(new) /\ \A g \in written \cap Package : new[g] = Source(g)
  <2>1. CASE Put([g \in Parts(f) |-> Source(g)])
    <3>1. [g \in Parts(f) |-> Source(g)] \in [Parts(f) -> Content]
      BY <1>1, PartsOf
    <3>. QED  BY <2>1, <3>1
  <2>2. CASE \E written \in SUBSET Parts(f) : PutSome(written)
    <3>. PICK written \in SUBSET Parts(f) : PutSome(written)
      BY <2>2
    <3>1. PICK torn \in SUBSET (written \ Package) :
            Put([g \in written |-> IF g \in torn THEN "torn" ELSE Source(g)])
      BY DEF PutSome
    <3>2. [g \in written |-> IF g \in torn THEN "torn" ELSE Source(g)] \in [written -> Content]
      BY <1>1, PartsOf DEF Content
    <3>. QED  BY <3>1, <3>2
  <2>. QED  BY <2>1, <2>2
<1>. PICK new \in [written -> Content] :
       Put(new) /\ \A g \in written \cap Package : new[g] = Source(g)
  BY <1>3
<1>4. /\ written \in SUBSET File /\ written \cap Package \subseteq {f}
      /\ \A g \in written \cap Package : new[g] # "absent"
  BY <1>2, PartsOf
<1>5. /\ disk' \in [File -> Content] /\ Enclosed(disk')
      /\ \A g \in File \ written : disk'[g] = disk[g] \/ disk[g] = "absent"
  BY <1>4, PutFiles DEF Typed
<1>6. disk[f] = "absent" => \A g \in Parts(f) : disk[g] = "absent"
  BY DEF Parts, Enclosed, Typed
<1>. QED  BY <1>5, <1>6

\* A template is put where nothing is.
LEMMA Templated ==
  ASSUME Typed, NEW f \in Job, CopyTemplate(f)
  PROVE  /\ disk' \in [File -> Content] /\ Enclosed(disk')
         /\ \A g \in File : disk[g] # "absent" => disk'[g] = disk[g]
<1>. DEFINE files == {h \in {f} \cap File : disk[h] = "absent"}
<1>1. Put([g \in files |-> "whole"]) /\ files \in SUBSET File
  BY DEF CopyTemplate
<1>2. [g \in files |-> "whole"] \in [files -> Content]
  BY DEF Content
<1>3. \A p \in files \cap Package : [g \in files |-> "whole"][p] # "absent"
  OBVIOUS
<1>4. \A g \in files : disk[g] = "absent"
  OBVIOUS
<1>. HIDE DEF files
<1>. QED  BY <1>1, <1>2, <1>3, <1>4, PutFiles DEF Typed

\* Every step keeps the types.
LEMMA StepTyped ==
  ASSUME Typed, Handled, [Next]_vars
  PROVE  Typed'
<1>. USE DEF Typed
<1>1. CASE UNCHANGED vars
  BY <1>1 DEF vars
<1>2. CASE InitCommand
  <2>1. <<>> \in Seq(Item) /\ {"manifest", "mcp"} \cup Shared \in SUBSET Job
    BY EmptySeq, ImportAssumption DEF Job, File
  <2>2. cmd' \in Command
    BY <1>2, <2>1, CmdStart DEF InitCommand
  <2>. QED  BY <1>2, <2>2 DEF InitCommand, project
<1>3. CASE \E f \in Job : CopyTemplate(f)
  <2>1. PICK f \in Job : CopyTemplate(f)
    BY <1>3
  <2>2. disk' \in [File -> Content] /\ Enclosed(disk')
    BY <2>1, Templated
  <2>3. shape' \in Shape /\ mcpShape' \in Shape /\ servers' \in [Url -> Server]
    BY <2>1 DEF CopyTemplate, Shape, Server
  <2>4. mcpShape' = "absent" => mcpShape = "absent" /\ servers' = servers
    BY <2>1 DEF CopyTemplate
  <2>5. UNCHANGED <<manifest, bundle>>
    BY <2>1 DEF CopyTemplate
  <2>. QED  BY <1>3, <2>2, <2>3, <2>4, <2>5, CmdInit
<1>4. CASE InitEnds
  BY <1>4, CmdInit DEF InitEnds, project
<1>5. CASE \E n \in Net : ExportCommand(n)
  <2>1. PICK n \in Net : ExportCommand(n)
    BY <1>5
  <2>2. cmd' \in Command
    BY <2>1, CmdOther DEF ExportCommand
  <2>3. bundle' = Exported(n) /\ UNCHANGED <<disk, manifest, shape, servers, mcpShape>>
    BY <2>1 DEF ExportCommand, project
  <2>4. /\ Exported(n).kind \in {"none", "hocon", "zip"} /\ Exported(n).main \in Net
        /\ Exported(n).urls = McpTools(disk, n) \cap McpInfo
        /\ Exported(n).content
             = [f \in File |-> IF f \in BundledFiles(n) THEN Stamped(disk[f]) ELSE "absent"]
    BY DEF Exported
  <2>5. McpInfo \subseteq Url
    BY ImportAssumption DEF McpInfo
  <2>6. Exported(n).content \in [File -> Content]
    BY <2>4 DEF Stamped, Content
  <2>. QED  BY <2>2, <2>3, <2>4, <2>5, <2>6
<1>6. CASE \E p \in Projects : OtherProject(p)
  <2>1. PICK p \in Projects : OtherProject(p)
    BY <1>6
  <2>2. p \in Project
    BY ProjectsAssumption
  <2>3. cmd' \in Command /\ bundle' = bundle
    BY <2>1, CmdOther DEF OtherProject
  <2>. QED  BY <2>1, <2>2, <2>3 DEF OtherProject, Project
<1>7. CASE \E force \in {"yes", "no"} : ImportCommand(force)
  <2>1. PICK force \in {"yes", "no"} : ImportCommand(force)
    BY <1>7
  <2>2. Idle /\ \E name \in {"registry", "file"}, q \in Seq(Item) : Start(name, force, q, {})
    BY <2>1, Selected DEF ImportCommand
  <2>3. cmd' \in Command
    BY <2>2, CmdStart
  <2>. QED  BY <2>1, <2>3 DEF ImportCommand, project
<1>8. CASE NextItem
  <2>1. cmd.queue # <<>> /\ UNCHANGED <<disk, manifest, shape, servers, mcpShape, bundle>>
    BY <1>8 DEF NextItem, project
  <2>2. cmd' \in Command
    BY <1>8, <2>1, CmdNetwork, CmdBundle, CmdExit DEF NextItem
  <2>. QED  BY <2>1, <2>2
<1>9. CASE \E f \in File : SkipFile(f) \/ CopyFile(f) \/ CopyFails(f)
  <2>1. PICK f \in File : SkipFile(f) \/ CopyFile(f) \/ CopyFails(f)
    BY <1>9
  <2>2. UNCHANGED <<manifest, shape, servers, mcpShape, bundle>> /\ Importing
    BY <2>1 DEF SkipFile, CopyFile, CopyFails, project, Turn
  <2>3. disk' \in [File -> Content] /\ Enclosed(disk')
    <3>1. CASE SkipFile(f)
      BY <3>1 DEF SkipFile, project
    <3>2. CASE CopyFile(f) \/ CopyFails(f)
      <4>1. \/ Put([g \in Parts(f) |-> Source(g)])
            \/ \E written \in SUBSET Parts(f) : PutSome(written)
        BY <3>2 DEF CopyFile, CopyFails
      <4>2. f \in cmd.todo /\ cmd.status = "running"
        BY <3>2 DEF CopyFile, CopyFails, Turn, First, Importing
      <4>. QED  BY <4>1, <4>2, Placed
    <3>. QED  BY <2>1, <3>1, <3>2
  <2>. QED  BY <2>1, <2>2, <2>3, CmdFile, CmdFail
<1>10. CASE MergeServers
  <2>1. cmd.urls \in SUBSET Url
    BY DEF Command
  <2>. QED  BY <1>10, <2>1, MergedServers, CmdMerge DEF MergeServers
<1>11. CASE MergeFails \/ ItemDone
  BY <1>11, CmdMergeFails, CmdItemDone DEF MergeFails, ItemDone, project
<1>12. CASE UpdateManifest
  <2>1. cmd.listed \in SUBSET Hocon
    BY DEF Command
  <2>. QED  BY <1>12, <2>1, MergedEntries, CmdUpdate DEF UpdateManifest
<1>13. CASE Kill
  <2>1. cmd' \in Command /\ bundle' = bundle
    BY <1>13, CmdKill DEF Kill
  <2>2. disk' \in [File -> Content] /\ Enclosed(disk')
    <3>1. CASE UNCHANGED disk
      BY <3>1
    <3>2. CASE disk' # disk
      <4>1. PICK f \in File : First(f) /\ \E written \in SUBSET Parts(f) : PutSome(written)
        BY <1>13, <3>2 DEF Kill, project
      <4>. QED  BY <1>13, <4>1, Placed DEF Kill, First
    <3>. QED  BY <3>1, <3>2
  <2>3. /\ manifest' \in [Hocon -> Entry]
        /\ servers' \in [Url -> Server] /\ shape' \in Shape /\ mcpShape' \in Shape
        /\ \/ servers' = servers /\ mcpShape' = mcpShape
           \/ mcpShape' = "bare"
    BY <1>13 DEF Kill, project, Entry, Server, Shape
  <2>. QED  BY <2>1, <2>2, <2>3
<1>14. CASE AnalyzeFails
  BY <1>14, CmdAnalyze DEF AnalyzeFails, project
<1>. QED  BY <1>1, <1>2, <1>3, <1>4, <1>5, <1>6, <1>7, <1>8, <1>9, <1>10, <1>11, <1>12, <1>13,
             <1>14 DEF Next

\* What an import copies below registries/ it registers.
LEMMA CopiedIsRegistered ==
  ASSUME NEW n \in Net
  PROVE  /\ CopiedNetwork(n) \subseteq File \cup {"mcp"}
         /\ CopiedNetwork(n) \cap Net \subseteq Networks(n)
<1>1. ToolFiles(LibraryDisk, n) \subseteq Module
  BY ToolFilesAreModules DEF LibraryDisk, Content
<1>2. Module \cap Net = {} /\ Shared \cap Net = {} /\ "mcp" \notin Net /\ Library \subseteq File
  BY ImportAssumption DEF File, Hocon
<1>. QED  BY <1>1, <1>2 DEF CopiedNetwork

\* Every step keeps what the running import has in hand in order.
LEMMA StepHandled ==
  ASSUME Typed, Handled, [Next]_vars
  PROVE  Handled'
<1>. USE DEF Handled, Importing
<1>1. cmd \in Command /\ Net \cap {"bundle", "bad", "none"} = {}
  BY ImportAssumption DEF Typed, File
<1>2. CASE UNCHANGED vars
  <2>1. UNCHANGED <<bundle, cmd>>
    BY <1>2 DEF vars
  <2>2. \A f : Landed(f)' = Landed(f)
    BY <2>1 DEF Landed
  <2>. QED  BY <2>1, <2>2
<1>3. CASE InitCommand
  <2>1. cmd'.name = "init"
    BY <1>3 DEF InitCommand, Start
  <2>. QED  BY <2>1
<1>4. CASE InitEnds \/ \E f \in Job : CopyTemplate(f)
  BY <1>1, <1>4, CmdInit
<1>5. CASE (\E n \in Net : ExportCommand(n)) \/ \E p \in Projects : OtherProject(p)
  BY <1>1, <1>5, CmdOther DEF ExportCommand, OtherProject
<1>6. CASE \E force \in {"yes", "no"} : ImportCommand(force)
  <2>1. PICK force \in {"yes", "no"} : ImportCommand(force)
    BY <1>6
  <2>2. CASE \E q \in Selections : Start("registry", force, q, {})
    <3>1. PICK q \in Selections : Start("registry", force, q, {})
      BY <2>2
    <3>2. /\ cmd'.name = "registry" /\ cmd'.item = "none" /\ cmd'.queue = q /\ cmd'.todo = {}
          /\ cmd'.pending = {}
      BY <1>1, <2>1, <3>1, CmdStart, Selected DEF ImportCommand
    <3>. QED  BY <3>2, Selected
  <2>3. CASE \E q \in FileSelections : bundle.kind # "none" /\ Start("file", force, q, {})
    <3>1. PICK q \in FileSelections : bundle.kind # "none" /\ Start("file", force, q, {})
      BY <2>3
    <3>2. /\ cmd'.name = "file" /\ cmd'.item = "none" /\ cmd'.queue = q /\ cmd'.todo = {}
          /\ cmd'.pending = {} /\ bundle' = bundle
      BY <1>1, <2>1, <3>1, CmdStart, Selected DEF ImportCommand
    <3>. QED  BY <3>1, <3>2, Selected
  <2>. QED  BY <2>1, <2>2, <2>3 DEF ImportCommand
<1>7. CASE NextItem
  <2>1. cmd.queue # <<>> /\ bundle' = bundle /\ Importing
    BY <1>7 DEF NextItem
  <2>2. CASE cmd.name = "registry"
    <3>1. Head(cmd.queue) \in Net \cap Library /\ Tail(cmd.queue) \in Seq(Net \cap Library)
      BY <2>1, <2>2, HeadTailProperties
    <3>2. NextNetwork(Head(cmd.queue))
      BY <1>1, <1>7, <3>1 DEF NextItem
    <3>3. PICK n \in Net : n = Head(cmd.queue)
      BY <3>1
    <3>4. /\ cmd'.name = "registry" /\ cmd'.item = n /\ cmd'.queue = Tail(cmd.queue)
          /\ cmd'.todo = CopiedNetwork(n) /\ cmd'.pending = Networks(n)
      BY <1>1, <2>1, <2>2, <3>2, <3>3, CmdNetwork DEF SameRequest
    <3>. QED  BY <1>1, <2>1, <3>1, <3>3, <3>4, CopiedIsRegistered
  <2>3. CASE cmd.name = "file"
    <3>1. Head(cmd.queue) \in {"bundle", "bad"} /\ Tail(cmd.queue) \in Seq({"bundle", "bad"})
      BY <2>1, <2>3, HeadTailProperties
    <3>2. NextBundle \/ Exit
      BY <1>1, <1>7, <3>1 DEF NextItem
    <3>3. CASE NextBundle
      <4>1. /\ cmd'.name = "file" /\ cmd'.item = "bundle" /\ cmd'.queue = Tail(cmd.queue)
            /\ cmd'.todo \subseteq File \cup {"mcp"} /\ cmd'.todo \cap Net \subseteq cmd'.pending
            /\ \A f \in cmd'.todo \cap File : Landed(f) # "absent"
        BY <1>1, <2>1, <2>3, <3>3, CmdBundle DEF SameRequest, Typed
      <4>2. \A f : Landed(f)' = Landed(f)
        BY <2>1 DEF Landed
      <4>. QED  BY <1>1, <2>1, <2>3, <3>1, <4>1, <4>2
    <3>. QED  BY <1>1, <2>1, <2>3, <3>2, <3>3, CmdExit
  <2>. QED  BY <2>1, <2>2, <2>3
<1>8. CASE \E f \in File : SkipFile(f) \/ CopyFile(f) \/ CopyFails(f)
  <2>1. PICK f \in File : SkipFile(f) \/ CopyFile(f) \/ CopyFails(f)
    BY <1>8
  <2>2. bundle' = bundle /\ Importing /\ f \in cmd.todo
    BY <2>1 DEF SkipFile, CopyFile, CopyFails, Turn, First
  <2>3. cmd'.status = "failed" \/ (SameRequest /\ SameItem /\ cmd'.todo = cmd.todo \ {f})
    BY <1>1, <2>1, CmdFile, CmdFail
  <2>4. \A g : Landed(g)' = Landed(g)
    BY <2>2 DEF Landed
  <2>. QED  BY <2>2, <2>3, <2>4 DEF SameRequest, SameItem
<1>9. CASE MergeServers
  <2>1. bundle' = bundle /\ Importing /\ cmd.todo = {"mcp"}
    BY <1>9 DEF MergeServers
  <2>. QED  BY <1>1, <1>9, <2>1, CmdMerge DEF SameRequest, SameItem
<1>10. CASE MergeFails \/ ItemDone
  <2>1. bundle' = bundle /\ Importing
    BY <1>10 DEF MergeFails, ItemDone
  <2>. QED  BY <1>1, <1>10, <2>1, CmdMergeFails, CmdItemDone DEF SameRequest
<1>11. CASE UpdateManifest \/ Kill
  BY <1>1, <1>11, CmdUpdate, CmdKill
<1>12. CASE AnalyzeFails
  <2>1. bundle' = bundle /\ Importing /\ cmd.queue # <<>> /\ cmd.item = "none"
    BY <1>12 DEF AnalyzeFails
  <2>2. \A q : cmd.queue \in Seq(q) => Tail(cmd.queue) \in Seq(q)
    BY <2>1, HeadTailProperties
  <2>3. \/ cmd'.status = "failed"
        \/ /\ SameRequest /\ cmd'.item = "none" /\ cmd'.queue = Tail(cmd.queue)
           /\ cmd'.todo = {} /\ cmd'.pending = {}
    BY <1>1, <1>12, <2>1, CmdAnalyze
  <2>. QED  BY <2>1, <2>2, <2>3 DEF SameRequest
<1>. QED  BY <1>2, <1>3, <1>4, <1>5, <1>6, <1>7, <1>8, <1>9, <1>10, <1>11, <1>12 DEF Next

\* The types, and what the running import has in hand.
LEMMA ImportInvariant == Spec => [](Typed /\ Handled)
<1>1. Init => Typed /\ Handled
  <2>. SUFFICES ASSUME Init PROVE Typed /\ Handled
    OBVIOUS
  <2>1. PICK p \in Projects :
          /\ disk = p.disk /\ manifest = p.manifest /\ shape = p.shape
          /\ servers = p.servers /\ mcpShape = p.mcpShape
    BY DEF Init
  <2>2. p \in Project
    BY ProjectsAssumption
  <2>3. /\ bundle.content \in [File -> Content] /\ bundle.urls = {} /\ bundle.kind = "none"
    BY DEF Init, NoBundle, Content
  <2>4. cmd \in Command /\ cmd.status = "none"
    <3>1. 0 \in 0..MaxCommands /\ 0 \in 0..MaxFailures /\ <<>> \in Seq(Item)
      BY ImportAssumption, EmptySeq
    <3>. QED  BY <3>1 DEF Init, Command
  <2>. QED  BY <2>1, <2>2, <2>3, <2>4 DEF Typed, Handled, Importing, Project
<1>2. Typed /\ Handled /\ [Next]_vars => (Typed /\ Handled)'
  BY StepTyped, StepHandled
<1>. QED  BY <1>1, <1>2, PTL DEF Spec

-------------------------------------------------------------------------------
\* However files are imported, skipped, torn or killed, a bundle has all the
\* fragments that the whole networks in it include, and what else they refer to
\* if they could be read, as far as the project has it: files with the
\* __init__.py files above them, directories with their files.
THEOREM BundlesAreClosed == Spec => BundleIsClosed
<1>1. ASSUME Typed, [Next]_vars, bundle' # bundle,
             NEW m \in Net, bundle'.content[m] = "whole",
             NEW f \in Present(disk),
             f \in Includes[m] \/ (Parsed(disk, m) /\ f \in Refs[m] \cup ModulesOf(m))
      PROVE  bundle'.content[f] # "absent"
  <2>1. PICK n \in Net : ExportCommand(n)
    BY <1>1 DEF Next, vars, InitCommand, CopyTemplate, InitEnds, OtherProject, ImportCommand,
                NextItem, AnalyzeFails, SkipFile, CopyFile, CopyFails, MergeServers, MergeFails,
                ItemDone, UpdateManifest, Kill
  <2>2. bundle' = Exported(n) /\ disk[n] # "absent"
    BY <2>1 DEF ExportCommand
  <2>. QED  BY <1>1, <2>2, ExportIsClosed DEF Typed
<1>2. Typed /\ [Next]_vars =>
        [bundle' # bundle =>
           \A m \in Net : bundle'.content[m] = "whole" =>
             /\ Bundled(Includes[m])
             /\ Parsed(disk, m) => Bundled(Refs[m] \cup ModulesOf(m))]_vars
  BY <1>1 DEF Bundled
<1>. QED  BY <1>2, ImportInvariant, PTL DEF Spec, BundleIsClosed

-------------------------------------------------------------------------------
(***************************************************************************)
(* Documents with braces stay such, unless a kill hits inside a write.      *)
(***************************************************************************)
Braced ==
  /\ "torn" \notin Faults
  /\ \A p \in Projects : p.shape # "bare" /\ p.mcpShape # "bare"

BracedNow == shape # "bare" /\ mcpShape # "bare"

\* Of the servers and entries only a merge or a template changes any.
LEMMA Merging ==
  ASSUME Braced, Typed, BracedNow, [Next]_vars, ~ \E p \in Projects : OtherProject(p)
  PROVE  /\ BracedNow'
         /\ \A h \in Hocon : manifest[h] # "none" => manifest'[h] = manifest[h]
         /\ \A u \in Url : servers[u] # "none" => servers'[u] = servers[u]
<1>. USE DEF Braced, BracedNow
<1>1. CASE UNCHANGED <<manifest, shape, servers, mcpShape>>
  BY <1>1
<1>2. CASE \E f \in Job : CopyTemplate(f)
  BY <1>2 DEF CopyTemplate, Typed
<1>3. CASE MergeServers
  <2>1. cmd.urls \in SUBSET Url
    BY DEF Typed, Command
  <2>. QED  BY <1>3, <2>1, MergedServers DEF MergeServers
<1>4. CASE UpdateManifest
  <2>1. cmd.listed \in SUBSET Hocon
    BY DEF Command, Typed
  <2>. QED  BY <1>4, <2>1, MergedEntries DEF UpdateManifest
<1>. QED  BY <1>1, <1>2, <1>3, <1>4 DEF Next, vars, project, InitCommand, InitEnds, ExportCommand,
             ImportCommand, NextItem, AnalyzeFails, SkipFile, CopyFile, CopyFails, MergeFails,
             ItemDone, Kill

\* Documents with braces keep them.
LEMMA BracesStay ==
  ASSUME Braced
  PROVE  Spec => []BracedNow
<1>1. Init => BracedNow
  BY DEF Init, BracedNow, Braced
<1>2. Typed /\ BracedNow /\ [Next]_vars => BracedNow'
  <2>1. ASSUME BracedNow, \E p \in Projects : OtherProject(p)
        PROVE  BracedNow'
    BY <2>1 DEF OtherProject, BracedNow, Braced
  <2>. QED  BY <2>1, Merging
<1>. QED  BY <1>1, <1>2, ImportInvariant, PTL DEF Spec

\* What the receiver of an import has stays: a file unless the import is
\* forced, an entry of the manifest or of mcp_info always; whatever is copied,
\* fails or is killed between two writes.
THEOREM ImportsKeepEntries ==
  ASSUME Braced
  PROVE  Spec => EntriesKept
<1>1. ASSUME Typed, Handled, [Next]_vars, ~ \E p \in Projects : OtherProject(p),
             NEW f \in File, disk[f] # "absent", disk'[f] # disk[f]
      PROVE  Forced
  <2>1. CASE \E g \in Job : CopyTemplate(g)
    BY <1>1, <2>1, Templated
  <2>2. CASE \E g \in File : CopyFile(g) \/ CopyFails(g)
    <3>1. PICK g \in File : CopyFile(g) \/ CopyFails(g)
      BY <2>2
    <3>2. /\ g \in cmd.todo /\ cmd.status = "running" /\ (disk[g] # "absent" => ~Keeps(g))
          /\ \/ Put([h \in Parts(g) |-> Source(h)])
             \/ \E written \in SUBSET Parts(g) : PutSome(written)
      BY <3>1 DEF CopyFile, CopyFails, Turn, First, Importing
    <3>3. disk[g] # "absent"
      BY <1>1, <3>2, Placed
    <3>. QED  BY <3>2, <3>3 DEF Keeps
  <2>3. CASE Kill
    <3>1. PICK g \in File : /\ First(g) /\ (disk[g] # "absent" => ~Keeps(g))
                            /\ \E written \in SUBSET Parts(g) : PutSome(written)
      BY <1>1, <2>3 DEF Kill, project
    <3>2. disk[g] # "absent"
      BY <1>1, <2>3, <3>1, Placed DEF Kill, First
    <3>. QED  BY <3>1, <3>2 DEF Keeps
  <2>4. CASE UNCHANGED disk
    BY <1>1, <2>4
  <2>. QED  BY <1>1, <2>1, <2>2, <2>3, <2>4
            DEF Next, vars, project, InitCommand, InitEnds, ExportCommand, ImportCommand,
                NextItem, AnalyzeFails, SkipFile, MergeServers, MergeFails, ItemDone,
                UpdateManifest
<1>2. Typed /\ Handled /\ BracedNow /\ [Next]_vars =>
        [SameProject =>
           /\ \A f \in File : disk[f] # "absent" /\ disk'[f] # disk[f] => Forced
           /\ \A h \in Hocon : manifest[h] # "none" => manifest'[h] = manifest[h]
           /\ \A u \in Url : servers[u] # "none" => servers'[u] = servers[u]]_vars
  BY <1>1, Merging DEF SameProject
<1>. QED  BY <1>2, ImportInvariant, BracesStay, PTL DEF Spec, EntriesKept

-------------------------------------------------------------------------------
(***************************************************************************)
(* The networks that the running import has written or skipped, it has      *)
(* listed or is going to.                                                   *)
(***************************************************************************)
Listing ==
  /\ Importing /\ cmd.clean # "lost" =>
       (cmd.wrote \cup cmd.skipped) \cap Net \subseteq cmd.listed \cup cmd.pending
  /\ DoneIsRegistered

\* Every step keeps it so.
LEMMA StepListing ==
  ASSUME Braced, Typed, Handled, BracedNow, Listing, [Next]_vars
  PROVE  Listing'
<1>. USE DEF Listing, Importing, DoneIsRegistered, Done, AllIsRegistered
<1>1. cmd \in Command
  BY DEF Typed
<1>2. CASE UNCHANGED vars
  BY <1>2 DEF vars
<1>3. CASE InitCommand
  BY <1>3 DEF InitCommand, Start
<1>4. CASE InitEnds \/ \E f \in Job : CopyTemplate(f)
  BY <1>1, <1>4, CmdInit
<1>5. CASE (\E n \in Net : ExportCommand(n)) \/ \E p \in Projects : OtherProject(p)
  BY <1>1, <1>5, CmdOther DEF ExportCommand, OtherProject
<1>6. CASE \E force \in {"yes", "no"} : ImportCommand(force)
  BY <1>6 DEF ImportCommand, Start
<1>7. CASE NextItem
  <2>1. cmd.queue # <<>> /\ Importing /\ cmd.pending = {}
    BY <1>7 DEF NextItem, Handled
  <2>2. \/ cmd'.status = "failed"
        \/ /\ cmd'.status = cmd.status /\ cmd'.name = cmd.name /\ cmd'.wrote = cmd.wrote
           /\ cmd'.skipped = cmd.skipped /\ cmd'.listed = cmd.listed /\ (cmd.clean = "lost" => cmd'.clean = "lost")
    BY <1>1, <1>7, <2>1, CmdNetwork, CmdBundle, CmdExit DEF NextItem, SameRequest, Typed
  <2>. QED  BY <2>1, <2>2
<1>8. CASE \E f \in File : SkipFile(f) \/ CopyFile(f) \/ CopyFails(f)
  <2>1. PICK f \in File : SkipFile(f) \/ CopyFile(f) \/ CopyFails(f)
    BY <1>8
  <2>2. Importing /\ f \in cmd.todo
    BY <2>1 DEF SkipFile, CopyFile, CopyFails, Turn, First
  <2>3. \/ cmd'.status = "failed"
        \/ /\ cmd'.status = cmd.status
           /\ cmd'.wrote \cup cmd'.skipped \subseteq cmd.wrote \cup cmd.skipped \cup Parts(f)
           /\ SameItem /\ (cmd.clean = "lost" => cmd'.clean = "lost")
    BY <1>1, <2>1, CmdFile, CmdFail
  <2>4. Parts(f) \cap Net \subseteq cmd.pending
    BY <2>2, PartsOf DEF Handled
  <2>. QED  BY <2>2, <2>3, <2>4 DEF SameItem
<1>9. CASE MergeServers
  BY <1>1, <1>9, CmdMerge DEF SameItem, MergeServers
<1>10. CASE MergeFails
  BY <1>1, <1>10, CmdMergeFails DEF MergeFails
<1>11. CASE ItemDone
  BY <1>1, <1>11, CmdItemDone DEF ItemDone
<1>12. CASE UpdateManifest
  <2>1. cmd.listed \in SUBSET Hocon /\ cmd.pending = {} /\ Importing
    BY <1>1, <1>12 DEF Command, UpdateManifest, Handled
  <2>2. \A k \in cmd.listed : manifest'[k] # "none"
    BY <1>12, <2>1, MergedEntries DEF UpdateManifest, BracedNow
  <2>. QED  BY <1>1, <1>12, <2>1, <2>2, CmdUpdate
<1>13. CASE Kill
  BY <1>1, <1>13, CmdKill
<1>14. CASE AnalyzeFails
  BY <1>1, <1>14, CmdAnalyze DEF AnalyzeFails
<1>. QED  BY <1>2, <1>3, <1>4, <1>5, <1>6, <1>7, <1>8, <1>9, <1>10, <1>11, <1>12, <1>13,
             <1>14 DEF Next

\* When an import reports that it is done, every network it wrote a file of or
\* found there is declared in the manifest, unless a failed merge of the servers
\* lost it.
THEOREM WrittenIsDeclared ==
  ASSUME Braced
  PROVE  Spec => []DoneIsRegistered
<1>1. Init => Listing
  BY DEF Init, Listing, Importing, DoneIsRegistered, Done
<1>2. Typed /\ Handled /\ BracedNow /\ Listing /\ [Next]_vars => Listing'
  BY StepListing
<1>3. Listing => DoneIsRegistered
  BY DEF Listing
<1>. QED  BY <1>1, <1>2, <1>3, ImportInvariant, BracesStay, PTL DEF Spec

-------------------------------------------------------------------------------
(***************************************************************************)
(* An import of networks of the package, without a warning or an error and  *)
(* with all of them read so far: each of those that were asked for waits,   *)
(* or is in a set that is closed under references and is in hand or         *)
(* settled; directories that were written are whole.                        *)
(***************************************************************************)
ServersOf(nets) == (UNION {Servers[m] : m \in nets}) \cap LibraryUrls

Served(nets) == \A u \in ServersOf(nets) : servers[u] # "none"

Closed(nets) == nets \subseteq Net \cap Library /\ \A m \in nets : Refs[m] \subseteq nets

Here(f) == Whole(f) /\ (f \in Package /\ Forced => f \in cmd.wrote)

Open(nets) ==
  /\ Closed(nets) /\ nets \subseteq cmd.pending /\ Legible(nets)
  /\ \A f \in Needed(nets) : f \in cmd.todo \/ Here(f)
  /\ ServersOf(nets) \subseteq cmd.urls /\ ("mcp" \in cmd.todo \/ Served(nets))

Settled(nets) ==
  /\ Closed(nets) /\ nets \subseteq cmd.listed /\ Legible(nets)
  /\ \A f \in Needed(nets) : Here(f)
  /\ Served(nets)

Waits(n) == \E i \in DOMAIN cmd.queue : cmd.queue[i] = n

InHand(n) == n = cmd.item /\ \E nets \in SUBSET Net : n \in nets /\ Open(nets)

IsSettled(n) == \E nets \in SUBSET Net : n \in nets /\ Settled(nets)

TreesAreWhole == \A p \in cmd.wrote \cap Package : AllOfTree(p)

AskedFor ==
  /\ cmd.asked # {} /\ cmd.asked \subseteq Net \cap Library
  /\ \A n \in cmd.asked : Waits(n) \/ InHand(n) \/ IsSettled(n)
  /\ TreesAreWhole

Clean == cmd.clean = "yes" /\ cmd.parsed = "all"

Settling ==
  /\ Importing /\ cmd.name = "registry" /\ Clean => AskedFor
  /\ CompleteWhenClean

\* A network of the package that refers to nothing outside of it, and whose
\* networks could be read, is in a set that is closed under references and of
\* which the import copies what it needs.
LEMMA CleanIsCopied ==
  ASSUME disk \in [File -> Content],
         NEW n \in Net \cap Library, CleanNetwork(n), ParsedNetwork(n)
  PROVE  /\ Closed(Networks(n)) /\ Legible(Networks(n))
         /\ Needed(Networks(n)) \subseteq CopiedNetwork(n)
         /\ ServersOf(Networks(n)) \subseteq McpTools(LibraryDisk, n) \cap LibraryUrls
         /\ ServersOf(Networks(n)) # {} => "mcp" \in CopiedNetwork(n)
<1>1. /\ LibraryDisk \in [File -> Content] /\ Present(LibraryDisk) = Library
  BY ImportAssumption DEF LibraryDisk, Content, Present, File
<1>2. Networks(n) \subseteq Net \cap Library /\ Networks(n) \subseteq Reached(LibraryDisk, n)
  BY <1>1, ReachedClosed, SubNetworkReached DEF Networks, CleanNetwork
<1>3. /\ Networks(n) \subseteq Readable(LibraryDisk, n)
      /\ \A m \in Networks(n) : Parsed(LibraryDisk, m)
  BY <1>2 DEF Readable, ParsedNetwork
<1>4. \A m \in Networks(n) : Refs[m] \subseteq Networks(n)
  BY <1>1, <1>2, <1>3, SubNetworkReached DEF Networks, SeenRefs
<1>5. ASSUME NEW f \in Needed(Networks(n))
      PROVE  f \in CopiedNetwork(n)
  <2>. DEFINE needed == (UNION {Uses[m] : m \in Networks(n)}) \cap Library
              tools == (UNION {Uses[m] : m \in Readable(LibraryDisk, n)}) \cap Library
  <2>1. Needed(Networks(n))
          = (Networks(n) \cup needed \cup (UNION {Inits[t] : t \in needed \cap Python}) \cup Shared)
              \cap Library
    BY DEF Needed
  <2>2. ToolFiles(LibraryDisk, n)
          = tools \cup ((UNION {Inits[t] : t \in tools \cap Python}) \cap Library)
    BY <1>1 DEF ToolFiles
  <2>3. needed \subseteq tools
    BY <1>3
  <2>. HIDE DEF needed, tools
  <2>4. (UNION {Inits[t] : t \in needed \cap Python}) \cap Library \subseteq ToolFiles(LibraryDisk, n)
    BY <2>2, <2>3
  <2>5. f \in (Networks(n) \cup ToolFiles(LibraryDisk, n) \cup Shared) \cap Library
    BY <2>1, <2>2, <2>3, <2>4
  <2>. QED  BY <2>5 DEF CopiedNetwork
<1>6. ServersOf(Networks(n)) \subseteq McpTools(LibraryDisk, n) \cap LibraryUrls
  BY <1>3 DEF ServersOf, McpTools
<1>7. Legible(Networks(n))
  BY <1>3 DEF Legible, Parsed
<1>. QED  BY <1>2, <1>4, <1>5, <1>6, <1>7 DEF CopiedNetwork, Closed

\* An import that is started has all of its networks before it.
LEMMA AskedAtStart ==
  ASSUME Typed, NEW force \in {"yes", "no"}, ImportCommand(force), cmd'.name = "registry"
  PROVE  AskedFor'
<1>1. cmd \in Command /\ Idle
  BY DEF Typed, ImportCommand
<1>2. \A q \in FileSelections : Start("file", force, q, {}) => cmd'.name = "file"
  BY <1>1, CmdStart, Selected
<1>3. PICK q \in Selections : Start("registry", force, q, {})
  BY <1>2 DEF ImportCommand
<1>4. cmd'.queue = q /\ cmd'.asked = {q[i] : i \in DOMAIN q} /\ cmd'.wrote = {}
  BY <1>1, <1>3, CmdStart, Selected
<1>5. q \in Seq(Net \cap Library) /\ q # <<>>
  BY Selected
<1>6. /\ \A i \in DOMAIN q : q[i] \in Net \cap Library
      /\ {q[i] : i \in DOMAIN q} # {}
  <2>1. 1 \in DOMAIN q
    BY <1>5, EmptySeq, LenProperties
  <2>. QED  BY <1>5, <2>1, ElementOfSeq, LenProperties
<1>. QED  BY <1>4, <1>6 DEF AskedFor, Waits, TreesAreWhole

(***************************************************************************)
(* A step that takes nothing away: files that are whole stay so, fragments  *)
(* that can be read stay so, servers are only added and more is listed.     *)
(***************************************************************************)
OnlyAdds ==
  /\ cmd'.force = cmd.force /\ cmd.wrote \subseteq cmd'.wrote /\ cmd.listed \subseteq cmd'.listed
  /\ \A f \in File : Whole(f) => Whole(f)'
  /\ \A f \in File : disk[f] \in {"own", "whole"} => disk'[f] \in {"own", "whole"}
  /\ \A u \in Url : servers[u] # "none" => servers'[u] # "none"

\* What is needed, included and served are files and servers.
LEMMA NeededAreFiles ==
  ASSUME NEW nets \in SUBSET Net
  PROVE  /\ Needed(nets) \subseteq File /\ ServersOf(nets) \subseteq Url
         /\ \A m \in nets : Includes[m] \subseteq File
BY ImportAssumption DEF Needed, ServersOf, File

\* What is here stays so, and what is settled stays so.
LEMMA StaysSettled ==
  ASSUME OnlyAdds
  PROVE  /\ \A f \in File : Here(f) => Here(f)'
         /\ \A nets \in SUBSET Net : Legible(nets) => Legible(nets)'
         /\ \A nets \in SUBSET Net : Served(nets) => Served(nets)'
         /\ \A n \in Net : IsSettled(n) => IsSettled(n)'
         /\ \A p \in Package : AllOfTree(p) => AllOfTree(p)'
<1>1. \A f \in File : Here(f) => Here(f)'
  BY DEF OnlyAdds, Here, Forced
<1>2. ASSUME NEW nets \in SUBSET Net
      PROVE  (Legible(nets) => Legible(nets)') /\ (Served(nets) => Served(nets)')
  BY NeededAreFiles DEF OnlyAdds, Legible, Served
<1>3. ASSUME NEW nets \in SUBSET Net, Settled(nets)
      PROVE  Settled(nets)'
  BY <1>1, <1>2, <1>3, NeededAreFiles DEF OnlyAdds, Settled
<1>4. \A p \in Package : Tree[p] \subseteq File
  BY ImportAssumption DEF File, Module
<1>. QED  BY <1>1, <1>2, <1>3, <1>4 DEF IsSettled, AllOfTree, OnlyAdds

\* A file that is copied from the package is the package's; a directory comes
\* with all of its files.
LEMMA CopyAdds ==
  ASSUME Typed, Handled, Importing, cmd.name = "registry", NEW f \in File,
         SkipFile(f) \/ CopyFile(f)
  PROVE  /\ OnlyAdds /\ Here(f)'
         /\ TreesAreWhole => TreesAreWhole'
<1>1. cmd \in Command
  BY DEF Typed
<1>2. /\ SameRequest /\ SameItem /\ servers' = servers
      /\ SkipFile(f) => cmd'.wrote = cmd.wrote
      /\ CopyFile(f) => cmd'.wrote = cmd.wrote \cup Parts(f)
  BY <1>1, CmdFile DEF SkipFile, CopyFile, project
<1>3. CASE SkipFile(f)
  <2>1. disk' = disk /\ cmd'.wrote = cmd.wrote /\ disk[f] # "absent" /\ ~Forced
    BY <1>2, <1>3 DEF SkipFile, Keeps, project
  <2>2. OnlyAdds
    BY <1>2, <2>1 DEF OnlyAdds, Whole, Forced, SameRequest, SameItem
  <2>3. Here(f)'
    BY <1>2, <2>1 DEF Here, Whole, Forced, SameRequest
  <2>4. TreesAreWhole => TreesAreWhole'
    BY <2>1, <2>2, StaysSettled DEF TreesAreWhole
  <2>. QED  BY <2>2, <2>3, <2>4
<1>4. CASE CopyFile(f)
  <2>. DEFINE new == [g \in Parts(f) |-> Source(g)]
  <2>1. Put(new) /\ \A g \in Parts(f) : Source(g) = "whole"
    BY <1>4 DEF CopyFile, Source
  <2>2. new \in [Parts(f) -> Content] /\ \A g \in Parts(f) : new[g] = "whole"
    BY <2>1 DEF Content
  <2>3. Parts(f) \in SUBSET File /\ f \in Parts(f) /\ Parts(f) \cap Package \subseteq {f}
    BY PartsOf
  <2>. HIDE DEF new
  <2>4. /\ disk' \in [File -> Content] /\ \A g \in Parts(f) : disk'[g] = "whole"
        /\ \A g \in File \ Parts(f) :
             disk'[g] = disk[g] \/ (disk[g] = "absent" /\ disk'[g] = "whole")
    <3>1. disk \in [File -> Content] /\ Enclosed(disk)
      BY DEF Typed
    <3>2. \A p \in Parts(f) \cap Package : new[p] # "absent"
      BY <2>2
    <3>. QED  BY <2>1, <2>2, <2>3, <3>1, <3>2, PutFiles
  <2>5. OnlyAdds
    BY <1>2, <1>4, <2>3, <2>4 DEF OnlyAdds, Whole, Forced, SameRequest, SameItem
  <2>6. Here(f)'
    BY <1>2, <1>4, <2>3, <2>4 DEF Here, Whole
  <2>7. ASSUME TreesAreWhole, NEW p \in cmd'.wrote \cap Package
        PROVE  AllOfTree(p)'
    <3>1. CASE p \in cmd.wrote
      BY <2>5, <2>7, <3>1, StaysSettled DEF TreesAreWhole
    <3>2. CASE p \in Parts(f)
      <4>1. p = f /\ Tree[p] \cap Library \subseteq Parts(f)
        BY <2>3, <2>7, <3>2 DEF Parts
      <4>. QED  BY <2>4, <4>1 DEF AllOfTree, Whole
    <3>. QED  BY <1>2, <1>4, <2>7, <3>1, <3>2
  <2>. QED  BY <2>5, <2>6, <2>7 DEF TreesAreWhole
<1>. QED  BY <1>3, <1>4

\* Every step keeps it so.
LEMMA StepAsked ==
  ASSUME Typed, Handled, AskedFor, Importing, cmd.name = "registry", BracedNow,
         NextItem \/ (\E f \in File : SkipFile(f) \/ CopyFile(f)) \/ MergeServers \/ ItemDone,
         Clean', cmd'.status = "running"
  PROVE  AskedFor'
<1>1. cmd \in Command /\ Net \cap {"bundle", "bad", "none"} = {} /\ cmd.asked \subseteq Net
  BY ImportAssumption DEF Typed, File, AskedFor
<1>2. CASE NextItem
  <2>1. cmd.queue # <<>> /\ UNCHANGED <<disk, servers>> /\ cmd.item = "none"
    BY <1>2 DEF NextItem, project
  <2>2. Head(cmd.queue) \in Net \cap Library /\ cmd.queue \in Seq(Net \cap Library)
    BY <2>1, HeadTailProperties DEF Handled
  <2>3. NextNetwork(Head(cmd.queue))
    BY <1>1, <1>2, <2>2 DEF NextItem
  <2>4. PICK k \in Net \cap Library : k = Head(cmd.queue)
    BY <2>2
  <2>5. /\ SameRequest /\ cmd'.listed = cmd.listed /\ cmd'.wrote = cmd.wrote /\ cmd'.item = k
        /\ cmd'.queue = Tail(cmd.queue) /\ cmd'.todo = CopiedNetwork(k)
        /\ cmd'.pending = Networks(k) /\ cmd'.urls = McpTools(LibraryDisk, k) \cap LibraryUrls
        /\ CleanNetwork(k) /\ ParsedNetwork(k)
    BY <1>1, <2>1, <2>3, <2>4, CmdNetwork DEF Clean
  <2>6. InHand(k)'
    <3>1. /\ Closed(Networks(k)) /\ Legible(Networks(k))
          /\ Needed(Networks(k)) \subseteq CopiedNetwork(k)
          /\ ServersOf(Networks(k)) \subseteq McpTools(LibraryDisk, k) \cap LibraryUrls
          /\ ServersOf(Networks(k)) # {} => "mcp" \in CopiedNetwork(k)
      BY <2>5, CleanIsCopied DEF Typed
    <3>2. PICK nets \in SUBSET Net : nets = Networks(k)
      BY <3>1 DEF Closed
    <3>3. Legible(nets)'
      BY <2>1, <3>1, <3>2 DEF Legible
    <3>4. Open(nets)'
      BY <2>5, <3>1, <3>2, <3>3 DEF Open, Served
    <3>5. k \in nets
      BY <3>2 DEF Networks
    <3>. QED  BY <2>5, <3>4, <3>5 DEF InHand
  <2>7. ASSUME NEW n \in cmd.asked, Waits(n)
        PROVE  Waits(n)' \/ n = k
    <3>1. PICK i \in 1..Len(cmd.queue) : cmd.queue[i] = n
      BY <2>2, <2>7, LenProperties DEF Waits
    <3>2. CASE i = 1
      BY <2>2, <2>4, <3>1, <3>2
    <3>3. CASE i # 1
      <4>1. i - 1 \in 1..Len(cmd'.queue) /\ cmd'.queue[i - 1] = n
        BY <2>2, <2>5, <3>1, <3>3
      <4>2. cmd'.queue \in Seq(Net \cap Library)
        BY <2>1, <2>2, <2>5, HeadTailProperties
      <4>. QED  BY <4>1, <4>2, LenProperties DEF Waits
    <3>. QED  BY <3>2, <3>3
  <2>8. OnlyAdds
    BY <2>1, <2>5 DEF OnlyAdds, Whole, Forced, SameRequest
  <2>9. ASSUME NEW n \in cmd.asked
        PROVE  (Waits(n) \/ InHand(n) \/ IsSettled(n))'
    <3>1. ~InHand(n)
      BY <1>1, <2>1 DEF InHand
    <3>2. IsSettled(n) => IsSettled(n)'
      BY <1>1, <2>8, StaysSettled
    <3>3. n = k => InHand(n)'
      BY <2>6
    <3>. QED  BY <2>7, <3>1, <3>2, <3>3 DEF AskedFor
  <2>10. TreesAreWhole'
    BY <2>5, <2>8, StaysSettled DEF TreesAreWhole, AskedFor
  <2>. QED  BY <2>5, <2>9, <2>10 DEF AskedFor, SameRequest
<1>3. CASE \E f \in File : SkipFile(f) \/ CopyFile(f)
  <2>1. PICK f \in File : SkipFile(f) \/ CopyFile(f)
    BY <1>3
  <2>2. SameRequest /\ SameItem /\ cmd'.todo = cmd.todo \ {f}
    BY <1>1, <2>1, CmdFile
  <2>3. OnlyAdds /\ Here(f)' /\ TreesAreWhole'
    BY <2>1, CopyAdds DEF AskedFor
  <2>4. f # "mcp"
    BY ImportAssumption
  <2>5. ASSUME NEW nets \in SUBSET Net, Open(nets)
        PROVE  Open(nets)'
    <3>1. \A g \in Needed(nets) : g \in cmd'.todo \/ Here(g)'
      BY <2>2, <2>3, <2>5, NeededAreFiles, StaysSettled DEF Open
    <3>2. Legible(nets)' /\ ("mcp" \in cmd'.todo \/ Served(nets)')
      BY <2>2, <2>3, <2>4, <2>5, StaysSettled DEF Open
    <3>. QED  BY <2>2, <2>5, <3>1, <3>2 DEF Open, SameItem
  <2>6. ASSUME NEW n \in cmd.asked
        PROVE  (Waits(n) \/ InHand(n) \/ IsSettled(n))'
    <3>1. InHand(n) => InHand(n)'
      BY <2>2, <2>5 DEF InHand, SameItem
    <3>2. Waits(n) => Waits(n)'
      BY <2>2 DEF Waits, SameItem
    <3>3. IsSettled(n) => IsSettled(n)'
      BY <1>1, <2>3, StaysSettled
    <3>. QED  BY <3>1, <3>2, <3>3 DEF AskedFor
  <2>. QED  BY <2>2, <2>3, <2>6 DEF AskedFor, SameRequest
<1>4. CASE MergeServers
  <2>1. /\ SameRequest /\ SameItem /\ cmd'.todo = {} /\ cmd'.wrote = cmd.wrote
        /\ disk' = disk /\ cmd.todo = {"mcp"}
    BY <1>1, <1>4, CmdMerge DEF MergeServers
  <2>2. cmd.urls \in SUBSET Url
    BY <1>1 DEF Command
  <2>3. /\ \A u \in Url : servers[u] # "none" => servers'[u] # "none"
        /\ \A u \in cmd.urls : servers'[u] # "none"
    BY <1>4, <2>2, MergedServers DEF MergeServers, BracedNow
  <2>4. OnlyAdds
    BY <2>1, <2>3 DEF OnlyAdds, Whole, Forced, SameRequest, SameItem
  <2>5. ASSUME NEW nets \in SUBSET Net, Open(nets)
        PROVE  Open(nets)'
    <3>1. "mcp" \notin File
      BY ImportAssumption
    <3>2. \A g \in Needed(nets) : Here(g)'
      BY <2>1, <2>4, <2>5, <3>1, NeededAreFiles, StaysSettled DEF Open
    <3>3. Legible(nets)'
      BY <2>4, <2>5, StaysSettled DEF Open
    <3>4. Served(nets)'
      BY <2>3, <2>5 DEF Open, Served
    <3>. QED  BY <2>1, <2>5, <3>2, <3>3, <3>4 DEF Open, SameItem
  <2>6. ASSUME NEW n \in cmd.asked
        PROVE  (Waits(n) \/ InHand(n) \/ IsSettled(n))'
    <3>1. InHand(n) => InHand(n)'
      BY <2>1, <2>5 DEF InHand, SameItem
    <3>2. Waits(n) => Waits(n)'
      BY <2>1 DEF Waits, SameItem
    <3>3. IsSettled(n) => IsSettled(n)'
      BY <1>1, <2>4, StaysSettled
    <3>. QED  BY <3>1, <3>2, <3>3 DEF AskedFor
  <2>7. TreesAreWhole'
    BY <2>1, <2>4, StaysSettled DEF TreesAreWhole, AskedFor
  <2>. QED  BY <2>1, <2>6, <2>7 DEF AskedFor, SameRequest
<1>5. CASE ItemDone
  <2>1. /\ SameRequest /\ cmd'.queue = cmd.queue /\ cmd'.listed = cmd.listed \cup cmd.pending
        /\ cmd'.wrote = cmd.wrote /\ cmd.todo = {} /\ UNCHANGED <<disk, servers>>
    BY <1>1, <1>5, CmdItemDone DEF ItemDone, project
  <2>2. OnlyAdds
    BY <2>1 DEF OnlyAdds, Whole, Forced, SameRequest
  <2>3. ASSUME NEW nets \in SUBSET Net, Open(nets)
        PROVE  Settled(nets)'
    <3>1. \A g \in Needed(nets) : Here(g)'
      BY <2>1, <2>2, <2>3, NeededAreFiles, StaysSettled DEF Open
    <3>2. Legible(nets)' /\ Served(nets)'
      BY <2>1, <2>2, <2>3, StaysSettled DEF Open
    <3>. QED  BY <2>1, <2>3, <3>1, <3>2 DEF Open, Settled
  <2>4. ASSUME NEW n \in cmd.asked
        PROVE  (Waits(n) \/ InHand(n) \/ IsSettled(n))'
    <3>1. InHand(n) => IsSettled(n)'
      BY <2>3 DEF InHand, IsSettled
    <3>2. Waits(n) => Waits(n)'
      BY <2>1 DEF Waits
    <3>3. IsSettled(n) => IsSettled(n)'
      BY <1>1, <2>2, StaysSettled
    <3>. QED  BY <3>1, <3>2, <3>3 DEF AskedFor
  <2>5. TreesAreWhole'
    BY <2>1, <2>2, StaysSettled DEF TreesAreWhole, AskedFor
  <2>. QED  BY <2>1, <2>4, <2>5 DEF AskedFor, SameRequest
<1>. QED  BY <1>2, <1>3, <1>4, <1>5

\* What a union of sets of networks needs, one of them needs.
LEMMA NeededByOne ==
  ASSUME NEW Family, Family # {}, NEW f \in Needed(UNION Family)
  PROVE  \E nets \in Family : f \in Needed(nets)
<1>. DEFINE Tools(s) == (UNION {Uses[m] : m \in s}) \cap Library
<1>1. \A s : Needed(s)
               = (s \cup Tools(s) \cup (UNION {Inits[t] : t \in Tools(s) \cap Python}) \cup Shared)
                   \cap Library
  BY DEF Needed
<1>2. \A t \in Tools(UNION Family) : \E nets \in Family : t \in Tools(nets)
  OBVIOUS
<1>. HIDE DEF Tools
<1>3. CASE f \in UNION Family
  BY <1>1, <1>3
<1>4. CASE f \in Tools(UNION Family)
  BY <1>1, <1>2, <1>4
<1>5. CASE f \in UNION {Inits[t] : t \in Tools(UNION Family) \cap Python}
  <2>1. PICK t \in Tools(UNION Family) \cap Python : f \in Inits[t]
    BY <1>5
  <2>2. PICK nets \in Family : t \in Tools(nets) \cap Python
    BY <1>2, <2>1
  <2>3. f \in UNION {Inits[k] : k \in Tools(nets) \cap Python}
    BY <2>1, <2>2, InUnion
  <2>. QED  BY <1>1, <2>2, <2>3
<1>6. CASE f \in Shared
  BY <1>1, <1>6
<1>. QED  BY <1>1, <1>3, <1>4, <1>5, <1>6

\* When all networks have been gone through and declared, they are complete.
LEMMA DeclaredIsComplete ==
  ASSUME Typed, Handled, AskedFor, BracedNow, UpdateManifest
  PROVE  \E nets \in SUBSET Net :
           cmd'.asked \subseteq nets /\ Complete(nets)' /\ Legible(nets)'
<1>1. cmd \in Command /\ Net \cap {"none"} = {}
  BY ImportAssumption DEF Typed, File
<1>2. /\ SameRequest /\ cmd.item = "none" /\ cmd.queue = <<>> /\ UNCHANGED <<disk, servers>>
      /\ cmd'.wrote = cmd.wrote
  BY <1>1, CmdUpdate DEF UpdateManifest
<1>3. \A n \in cmd.asked : IsSettled(n)
  BY <1>1, <1>2 DEF AskedFor, Waits, InHand
<1>4. PICK Family \in SUBSET SUBSET Net : Family = {s \in SUBSET Net : Settled(s)}
  OBVIOUS
<1>12. PICK nets \in SUBSET Net : nets = UNION Family
  BY <1>4
<1>13. cmd.asked \subseteq nets /\ Family # {}
  BY <1>3, <1>4, <1>12 DEF IsSettled, AskedFor
<1>5. \A s \in Family : Settled(s) /\ s \in SUBSET Net
  BY <1>4
<1>6. \A k \in cmd.listed : manifest'[k] # "none"
  <2>1. cmd.listed \in SUBSET Hocon
    BY <1>1 DEF Command
  <2>. QED  BY <2>1, MergedEntries DEF UpdateManifest, BracedNow
<1>7. ASSUME NEW m \in nets
      PROVE  Refs[m] \subseteq nets /\ manifest'[m] # "none"
  BY <1>5, <1>6, <1>7, <1>12 DEF Settled, Closed
<1>8. ASSUME NEW f \in Needed(nets)
      PROVE  Arrived(f)'
  <2>1. PICK s \in Family : f \in Needed(s)
    BY <1>8, <1>12, <1>13, NeededByOne
  <2>2. Here(f)
    BY <1>5, <2>1 DEF Settled
  <2>3. Arrived(f)
    BY <2>2 DEF Here, Arrived, AskedFor, TreesAreWhole
  <2>. QED  BY <1>2, <2>3 DEF Arrived, AllOfTree, Whole, Forced, SameRequest
<1>9. ASSUME NEW u \in ServersOf(nets)
      PROVE  servers'[u] # "none"
  <2>1. PICK m \in nets : u \in Servers[m] /\ u \in LibraryUrls
    BY <1>9 DEF ServersOf
  <2>2. PICK s \in Family : m \in s
    BY <1>12, <2>1
  <2>3. u \in UNION {Servers[k] : k \in s}
    BY <2>1, <2>2, InUnion
  <2>. QED  BY <1>2, <1>5, <2>1, <2>2, <2>3 DEF Settled, Served, ServersOf
<1>10. Legible(nets)'
  BY <1>2, <1>5, <1>12 DEF Legible, Settled
<1>11. Complete(nets)'
  BY <1>7, <1>8, <1>9 DEF Complete, ServersOf
<1>. QED  BY <1>2, <1>13, <1>10, <1>11 DEF SameRequest

\* Every step keeps what an import without a warning or an error has in hand,
\* and what it has left when it is done.
LEMMA StepSettling ==
  ASSUME Typed, Handled, BracedNow, Settling, [Next]_vars
  PROVE  Settling'
<1>. USE DEF Settling, Importing, CompleteWhenClean, CleanImport, Done, Clean
<1>1. cmd \in Command
  BY DEF Typed
<1>2. CASE UNCHANGED vars
  <2>. USE <1>2 DEF vars
  <2>1. AskedFor => AskedFor'
    BY DEF AskedFor, Waits, InHand, IsSettled, TreesAreWhole, AllOfTree, Open, Settled, Closed,
           Served, Legible, Here, Whole, Forced
  <2>2. CompleteWhenClean => CompleteWhenClean'
    BY DEF Complete, Arrived, AllOfTree, Whole, Legible, Forced
  <2>. QED  BY <2>1, <2>2
<1>3. CASE InitCommand
  BY <1>3 DEF InitCommand, Start
<1>4. CASE InitEnds \/ \E f \in Job : CopyTemplate(f)
  BY <1>1, <1>4, CmdInit
<1>5. CASE (\E n \in Net : ExportCommand(n)) \/ \E p \in Projects : OtherProject(p)
  BY <1>1, <1>5, CmdOther DEF ExportCommand, OtherProject
<1>6. CASE \E force \in {"yes", "no"} : ImportCommand(force)
  <2>1. PICK force \in {"yes", "no"} : ImportCommand(force)
    BY <1>6
  <2>2. cmd'.status = "running"
    BY <2>1 DEF ImportCommand, Start
  <2>. QED  BY <2>1, <2>2, AskedAtStart
<1>7. CASE NextItem \/ (\E f \in File : SkipFile(f) \/ CopyFile(f)) \/ MergeServers \/ ItemDone
  <2>1. Importing
    BY <1>7 DEF NextItem, SkipFile, CopyFile, Turn, MergeServers, ItemDone
  <2>2. \/ cmd'.status = "failed"
        \/ /\ cmd'.status = "running" /\ cmd'.name = cmd.name
           /\ cmd'.clean = "yes" => cmd.clean = "yes"
           /\ cmd'.parsed = "all" => cmd.parsed = "all"
    <3>1. CASE NextItem
      BY <1>1, <2>1, <3>1, CmdNetwork, CmdBundle, CmdExit DEF NextItem, SameRequest, Typed
    <3>2. CASE \E f \in File : SkipFile(f) \/ CopyFile(f)
      BY <1>1, <2>1, <3>2, CmdFile DEF SameRequest, SameItem
    <3>3. CASE MergeServers \/ ItemDone
      BY <1>1, <2>1, <3>3, CmdMerge, CmdItemDone DEF SameRequest, SameItem
    <3>. QED  BY <1>7, <3>1, <3>2, <3>3
  <2>. QED  BY <1>7, <2>1, <2>2, StepAsked
<1>8. CASE (\E f \in File : CopyFails(f)) \/ MergeFails \/ AnalyzeFails
  <2>1. Importing
    BY <1>8 DEF CopyFails, Turn, MergeFails, AnalyzeFails
  <2>2. cmd'.status = "failed" \/ (cmd'.clean # "yes" /\ cmd'.status = cmd.status)
    BY <1>1, <1>8, CmdFail, CmdMergeFails, CmdAnalyze
  <2>. QED  BY <2>1, <2>2
<1>9. CASE UpdateManifest
  <2>1. /\ SameRequest /\ cmd'.status = "done" /\ cmd'.clean = cmd.clean /\ Importing
        /\ cmd'.parsed = cmd.parsed
    BY <1>1, <1>9, CmdUpdate DEF UpdateManifest, SameItem
  <2>2. CASE cmd.name = "registry" /\ Clean
    <3>1. \E nets \in SUBSET Net : cmd'.asked \subseteq nets /\ Complete(nets)' /\ Legible(nets)'
      BY <1>9, <2>1, <2>2, DeclaredIsComplete
    <3>. QED  BY <2>1, <3>1
  <2>3. CASE ~ (cmd.name = "registry" /\ Clean)
    BY <2>1, <2>3 DEF SameRequest
  <2>. QED  BY <2>2, <2>3
<1>10. CASE Kill
  BY <1>1, <1>10, CmdKill
<1>. QED  BY <1>2, <1>3, <1>4, <1>5, <1>6, <1>7, <1>8, <1>9, <1>10 DEF Next

\* An import of networks of the package that ends without a warning or an error,
\* and could read them, leaves them with what it takes from the package for them
\* and with the fragments they include, declared and served, whole if it was
\* forced: whatever was there before, and whatever earlier imports left behind.
\* A fragment that is not shared was there before, since the network could be
\* read; a directory is whole if the import wrote it.
THEOREM CleanImportsAreComplete ==
  ASSUME Braced
  PROVE  Spec => []CompleteWhenClean
<1>1. Init => Settling
  BY DEF Init, Settling, Importing, CompleteWhenClean, CleanImport, Done
<1>2. Typed /\ Handled /\ BracedNow /\ Settling /\ [Next]_vars => Settling'
  BY StepSettling
<1>3. Settling => CompleteWhenClean
  BY DEF Settling
<1>. QED  BY <1>1, <1>2, <1>3, ImportInvariant, BracesStay, PTL DEF Spec
=============================================================================
