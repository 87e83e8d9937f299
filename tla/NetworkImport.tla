----------------------------- MODULE NetworkImport -----------------------------
(***************************************************************************)
(* ns init, ns export and ns import on one project: the files of its        *)
(* registries, coded_tools and middleware directories, its manifest, and    *)
(* its mcp_info.hocon.  Networks come from the installed package, or from a *)
(* bundle that was exported from this or another project.                   *)
(*                                                                         *)
(* A step handles one file, or one directory that a class is taken from.    *)
(* Any of them may fail, and the command may be killed between any two.     *)
(* Networks are copied before modules and these before fragments; the order *)
(* among each depends on lists in HOCON files: here it is any order.        *)
(*                                                                         *)
(* Left out: fragments that include fragments, config/llm_config.hocon      *)
(* (which ns init generates), and a network that includes a fragment and    *)
(* uses nothing of it, so that it is read although the fragment is missing. *)
(***************************************************************************)
EXTENDS Naturals, Sequences, FiniteSets

CONSTANTS
  Net,          \* HOCON files of networks, below registries/
  Fragment,     \* HOCON files that networks include, below registries/
  Python,       \* coded tools, middleware, and __init__.py files
  Package,      \* directories of these
  Tree,         \* [Package -> SUBSET Python]: the files in a directory
  Url,          \* MCP servers
  Shared,       \* SHARED_REGISTRY_INCLUDES
  Refs,         \* [Net -> SUBSET Net]: the /references in its tools
  Includes,     \* [Net -> SUBSET Fragment]: its include "registries/..." lines
  Uses,         \* [Net -> SUBSET Module]: the modules of its tools and middleware
  Inits,        \* [Python -> SUBSET Python]: __init__.py files above a module
  Servers,      \* [Net -> SUBSET Url]: the MCP servers in its tools
  BaseName,     \* [Net -> Net]: the file name without its group directory
  Library,      \* the files in the installed package
  LibraryUrls,  \* the servers in the package's mcp_info.hocon
  Projects,     \* the projects a user may be in when the model starts
  Faults,       \* subset of Fault kinds: see ImportAssumption
  MaxCommands,  \* bound: commands run
  MaxFailures   \* bound: commands that do not get through

(***************************************************************************)
(* resolve_coded_tool_path finds a class in a file or in a directory.       *)
(***************************************************************************)
Module == Python \cup Package

File == Net \cup Fragment \cup Module

Hocon == Net \cup Fragment

ASSUME ImportAssumption ==
  /\ Shared \subseteq Fragment
  /\ Refs \in [Net -> SUBSET Net] /\ Includes \in [Net -> SUBSET Fragment]
  /\ Uses \in [Net -> SUBSET Module] /\ Inits \in [Python -> SUBSET Python]
  /\ Tree \in [Package -> SUBSET Python]
  /\ Servers \in [Net -> SUBSET Url] /\ BaseName \in [Net -> Net]
  /\ Library \subseteq File /\ LibraryUrls \subseteq Url
  /\ \A p \in Package : Tree[p] \cap Library # {} => p \in Library
  /\ Net \cap Fragment = {} /\ Module \cap Hocon = {} /\ Python \cap Package = {}
  /\ File \cap {"manifest", "mcp", "bundle", "bad", "none"} = {}
  /\ Faults \subseteq {"analyze", "copy", "mcp", "kill", "torn"}
  /\ MaxCommands \in Nat /\ MaxFailures \in Nat

VARIABLES
  disk,      \* what is at each path
  manifest,  \* what registries/manifest.hocon and its includes say of each file
  shape,     \* the form of the manifest
  servers,   \* what mcp/mcp_info.hocon says of each server
  mcpShape,  \* its form
  bundle,    \* the file the last export wrote
  cmd        \* the command that runs, or ran last

vars == <<disk, manifest, shape, servers, mcpShape, bundle, cmd>>

project == <<disk, manifest, shape, servers, mcpShape>>

(***************************************************************************)
(* A path is free, holds the user's own text, a whole copy, or what a       *)
(* failed copy left, which ends before the first thing it refers to.  A     *)
(* directory is there or not; its files have paths of their own.  A HOCON   *)
(* document may have braces around its keys, or be bare.                    *)
(***************************************************************************)
Content == {"absent", "own", "whole", "torn"}

Shape == {"absent", "braced", "bare"}

Entry == {"none", "on", "off"}

Server == {"none", "own", "import"}

(***************************************************************************)
(* A project's files, with the directories they are in; what is not there   *)
(* has no entries.                                                          *)
(***************************************************************************)
Enclosed(d) ==
  \A p \in Package : (\E f \in Tree[p] : d[f] # "absent") => d[p] # "absent"

Project ==
  {p \in [disk : [File -> Content], manifest : [Hocon -> Entry], shape : Shape,
          servers : [Url -> Server], mcpShape : Shape] :
     /\ Enclosed(p.disk)
     /\ p.shape = "absent" => \A h \in Hocon : p.manifest[h] = "none"
     /\ p.mcpShape = "absent" => \A u \in Url : p.servers[u] = "none"}

ASSUME ProjectsAssumption == Projects \subseteq Project

Bundle ==
  [kind : {"none", "hocon", "zip"}, main : Net, content : [File -> Content], urls : SUBSET Url]

Job == File \cup {"manifest", "mcp"}

Item == Net \cup {"bundle", "bad"}

Command ==
  [name : {"none", "init", "registry", "file"}, force : {"yes", "no"},
   status : {"none", "running", "done", "failed", "killed"}, queue : Seq(Item),
   item : Item \cup {"none"}, todo : SUBSET Job, urls : SUBSET Url, pending : SUBSET Hocon,
   listed : SUBSET Hocon, wrote : SUBSET File, skipped : SUBSET File, asked : SUBSET Item,
   clean : {"yes", "no", "lost"}, parsed : {"all", "some"},
   count : 0..MaxCommands, failures : 0..MaxFailures]

TypeOK ==
  /\ disk \in [File -> Content]
  /\ manifest \in [Hocon -> Entry]
  /\ servers \in [Url -> Server]
  /\ shape \in Shape /\ mcpShape \in Shape
  /\ bundle \in Bundle
  /\ cmd \in Command

Forced == cmd.force = "yes"

Running(name) == cmd.status = "running" /\ cmd.name = name
-------------------------------------------------------------------------------
(***************************************************************************)
(* DependencyAnalyzer over the files in d.                                  *)
(***************************************************************************)
Present(d) == {f \in File : d[f] # "absent"}

LibraryDisk == [f \in File |-> IF f \in Library THEN "whole" ELSE "absent"]

(***************************************************************************)
(* analyze_network returns nothing for a network that it cannot read, and   *)
(* notes nothing.  The includes of a network are looked for in the          *)
(* directory the command runs in, the project, also for a network of the    *)
(* package.                                                                 *)
(***************************************************************************)
Parsed(d, m) ==
  d[m] \in {"own", "whole"} /\ \A f \in Includes[m] : disk[f] \in {"own", "whole"}

SeenRefs(d, m) == IF Parsed(d, m) THEN Refs[m] ELSE {}

(***************************************************************************)
(* The recursion over sub-networks that exist, each of them visited once:   *)
(* the least set with n that no reference leads out of.                     *)
(***************************************************************************)
Visited(d, nets) == \A m \in nets : SeenRefs(d, m) \cap Present(d) \subseteq nets

Reached(d, n) == {m \in Net : \A nets \in SUBSET Net : n \in nets /\ Visited(d, nets) => m \in nets}

(***************************************************************************)
(* sub_networks: every reference of a reached network, also those for which *)
(* there is no file.                                                        *)
(***************************************************************************)
SubNetworks(d, n) == UNION {SeenRefs(d, m) : m \in Reached(d, n)}

Readable(d, n) == {m \in Reached(d, n) : Parsed(d, m)}

(***************************************************************************)
(* coded_tools and middleware: classes without a module are dropped.  The   *)
(* __init__.py files above a file go with it, those above a directory do    *)
(* not.                                                                     *)
(***************************************************************************)
ToolFiles(d, n) ==
  LET tools == (UNION {Uses[m] : m \in Readable(d, n)}) \cap Present(d)
  IN  tools \cup ((UNION {Inits[t] : t \in tools \cap Python}) \cap Present(d))

McpTools(d, n) == UNION {Servers[m] : m \in Readable(d, n)}

(***************************************************************************)
(* _collect_shared_includes: a scan of the text of the network and of its   *)
(* sub-networks.                                                            *)
(***************************************************************************)
IncludedFiles(d, nets) ==
  UNION {Includes[m] : m \in {k \in nets : d[k] \in {"own", "whole"}}}
-------------------------------------------------------------------------------
(***************************************************************************)
(* ns init: each template that is not there yet is copied; an OSError ends  *)
(* the command.                                                             *)
(***************************************************************************)
Idle == cmd.status # "running" /\ cmd.count < MaxCommands

Start(name, force, queue, todo) ==
  cmd' = [name |-> name, force |-> force, status |-> "running", queue |-> queue, item |-> "none",
          todo |-> todo, urls |-> {}, pending |-> {}, listed |-> {}, wrote |-> {}, skipped |-> {},
          asked |-> {queue[i] : i \in DOMAIN queue}, clean |-> "yes", parsed |-> "all",
          count |-> cmd.count + 1, failures |-> cmd.failures]

(***************************************************************************)
(* New contents for the files in the domain of new.  The directories they   *)
(* are in are made when they are not there.                                 *)
(***************************************************************************)
Put(new) ==
  disk' = [f \in File |->
             IF f \in DOMAIN new THEN new[f]
             ELSE IF f \in Package /\ disk[f] = "absent" /\ Tree[f] \cap DOMAIN new # {}
             THEN "whole" ELSE disk[f]]

InitCommand ==
  /\ Idle
  /\ Start("init", "no", <<>>, {"manifest", "mcp"} \cup Shared)
  /\ UNCHANGED <<project, bundle>>

CopyTemplate(f) ==
  /\ Running("init")
  /\ f \in cmd.todo
  /\ cmd' = [cmd EXCEPT !.todo = @ \ {f}]
  /\ Put([g \in {h \in {f} \cap File : disk[h] = "absent"} |-> "whole"])
  /\ shape' = IF f = "manifest" /\ shape = "absent" THEN "braced" ELSE shape
  /\ mcpShape' = IF f = "mcp" /\ mcpShape = "absent" THEN "braced" ELSE mcpShape
  /\ servers' = IF f = "mcp" /\ mcpShape = "absent"
                THEN [u \in Url |-> IF u \in LibraryUrls THEN "import" ELSE "none"]
                ELSE servers
  /\ UNCHANGED <<manifest, bundle>>

InitEnds ==
  /\ Running("init")
  /\ cmd.todo = {}
  /\ cmd' = [cmd EXCEPT !.status = "done"]
  /\ UNCHANGED <<project, bundle>>
-------------------------------------------------------------------------------
(***************************************************************************)
(* ns export: the network, stamped, as a .hocon file if it depends on       *)
(* nothing; otherwise a .zip with what it depends on.  The servers'         *)
(* configuration is the project's, or the package's if it has none.         *)
(***************************************************************************)
McpInfo == IF mcpShape = "absent" THEN LibraryUrls ELSE {u \in Url : servers[u] # "none"}

(***************************************************************************)
(* _add_dep: a file with the __init__.py files above it, or all files of a  *)
(* directory.                                                               *)
(***************************************************************************)
BundledModules(n) ==
  LET modules == ToolFiles(disk, n)
  IN  (modules \cap Python) \cup UNION {Tree[p] : p \in modules \cap Package}

(***************************************************************************)
(* Mutant: includes are looked for in the exported network only.            *)
(***************************************************************************)
OwnIncludesOnly(n) ==
  ({n} \cup SubNetworks(disk, n) \cup BundledModules(n) \cup IncludedFiles(disk, {n}))
    \cap Present(disk)

BundledFiles(n) ==
  ({n} \cup SubNetworks(disk, n) \cup BundledModules(n)
       \cup IncludedFiles(disk, {n} \cup SubNetworks(disk, n))) \cap Present(disk)

HasDependencies(n) ==
  \/ SubNetworks(disk, n) # {} \/ ToolFiles(disk, n) # {}
  \/ IncludedFiles(disk, {n}) # {} \/ McpTools(disk, n) # {}

(***************************************************************************)
(* ExportMetadataStamper adds to the metadata block and leaves the rest of  *)
(* a text as it is; a block that is cut off stays cut off.                  *)
(***************************************************************************)
Stamped(c) == IF c = "own" THEN "whole" ELSE c

Exported(n) ==
  [kind |-> IF HasDependencies(n) THEN "zip" ELSE "hocon", main |-> n,
   content |-> [f \in File |-> IF f \in BundledFiles(n) THEN Stamped(disk[f]) ELSE "absent"],
   urls |-> McpTools(disk, n) \cap McpInfo]

ExportCommand(n) ==
  /\ Idle
  /\ shape # "absent"
  /\ disk[n] # "absent"
  /\ bundle' = Exported(n)
  /\ cmd' = [cmd EXCEPT !.count = @ + 1, !.status = "none"]
  /\ UNCHANGED project

(***************************************************************************)
(* The user takes the bundle to another project.                            *)
(***************************************************************************)
OtherProject(p) ==
  /\ Idle
  /\ bundle.kind # "none"
  /\ disk' = p.disk /\ manifest' = p.manifest /\ shape' = p.shape
  /\ servers' = p.servers /\ mcpShape' = p.mcpShape
  /\ cmd' = [cmd EXCEPT !.count = @ + 1, !.status = "none"]
  /\ UNCHANGED bundle
-------------------------------------------------------------------------------
(***************************************************************************)
(* ns import: of networks of the package, or of files.  "bad" is a file     *)
(* that is missing, of another type, or an archive that is damaged or       *)
(* breaks one of the rules of _validate_zip_entries.  What the user         *)
(* declines is not in the queue.                                            *)
(***************************************************************************)
Selections == {q \in UNION {[1..k -> Net \cap Library] : k \in 1..2} :
                 \A i, j \in DOMAIN q : q[i] = q[j] => i = j}

FileSelections == {<<"bundle">>, <<"bundle", "bad">>, <<"bad", "bundle">>}

ImportCommand(force) ==
  /\ Idle
  /\ shape # "absent"
  /\ \/ \E q \in Selections : Start("registry", force, q, {})
     \/ \E q \in FileSelections : bundle.kind # "none" /\ Start("file", force, q, {})
  /\ UNCHANGED <<project, bundle>>

Importing == cmd.status = "running" /\ cmd.name \in {"registry", "file"}

Exit == cmd' = [cmd EXCEPT !.status = "failed"]

(***************************************************************************)
(* Mutant: the error is not noted.                                          *)
(***************************************************************************)
SilentFault(todo) == [cmd EXCEPT !.todo = todo, !.failures = @ + 1]

Unclean(clean) == IF clean = "lost" THEN clean ELSE "no"

Fault(todo) ==
  [cmd EXCEPT !.todo = todo, !.clean = Unclean(@), !.failures = @ + 1]

(***************************************************************************)
(* Mutant: only a file that is going to be copied is registered.            *)
(***************************************************************************)
OnlyNewFiles(files) == {f \in (files \cap Hocon) \ Shared : disk[f] = "absent"}

(***************************************************************************)
(* _register_manifest_entry.                                                *)
(***************************************************************************)
Registered(files) == (files \cap Hocon) \ Shared

(***************************************************************************)
(* What import_network is going to copy, what it registers, and whether it  *)
(* warns.  Of a network that could not be read it knows nothing, and does   *)
(* not warn.                                                                *)
(***************************************************************************)
NextNetwork(n) ==
  LET subs == SubNetworks(LibraryDisk, n)
      urls == McpTools(LibraryDisk, n)
  IN  cmd' = [cmd EXCEPT
        !.item = n, !.queue = Tail(@),
        !.todo = (({n} \cup subs \cup ToolFiles(LibraryDisk, n) \cup Shared) \cap Library)
                   \cup IF urls \cap LibraryUrls # {} THEN {"mcp"} ELSE {},
        !.urls = urls \cap LibraryUrls,
        !.pending = Registered({n} \cup subs),
        !.clean = IF subs \cup Shared \subseteq Library /\ urls \subseteq LibraryUrls
                  THEN @ ELSE Unclean(@),
        !.parsed = IF Readable(LibraryDisk, n) = Reached(LibraryDisk, n) THEN @ ELSE "some"]

(***************************************************************************)
(* import_from_path: a .hocon lands below registries/ under its base name,  *)
(* the entries of a .zip where they were.                                   *)
(***************************************************************************)
Landed(f) ==
  IF bundle.kind = "hocon"
  THEN IF f = BaseName[bundle.main] THEN bundle.content[bundle.main] ELSE "absent"
  ELSE bundle.content[f]

NextBundle ==
  LET files == {f \in File : Landed(f) # "absent"}
  IN  cmd' = [cmd EXCEPT
        !.item = "bundle", !.queue = Tail(@),
        !.todo = files \cup IF bundle.kind = "zip" /\ bundle.urls # {} THEN {"mcp"} ELSE {},
        !.urls = bundle.urls,
        !.pending = Registered(files)]

(***************************************************************************)
(* The next network, or the next file: a bad one ends the command before    *)
(* anything of it is extracted.                                             *)
(***************************************************************************)
NextItem ==
  /\ Importing
  /\ cmd.item = "none"
  /\ cmd.queue # <<>>
  /\ \/ Head(cmd.queue) \in Net /\ NextNetwork(Head(cmd.queue))
     \/ Head(cmd.queue) = "bundle" /\ NextBundle
     \/ Head(cmd.queue) = "bad" /\ Exit
  /\ UNCHANGED <<project, bundle>>

(***************************************************************************)
(* The analysis of a network raises.  An OSError or a ValueError is noted   *)
(* and the network is left out; anything else ends the command.             *)
(***************************************************************************)
AnalyzeFails ==
  /\ "analyze" \in Faults /\ cmd.failures < MaxFailures
  /\ Importing
  /\ cmd.item = "none"
  /\ cmd.queue # <<>> /\ Head(cmd.queue) \in Net
  /\ \/ cmd' = [Fault({}) EXCEPT !.queue = Tail(@)]
     \/ cmd' = [Fault({}) EXCEPT !.status = "failed"]
  /\ UNCHANGED <<project, bundle>>

(***************************************************************************)
(* import_network copies networks, then modules, then the shared fragments; *)
(* an archive has its entries in the same order.                            *)
(***************************************************************************)
First(f) ==
  /\ f \in cmd.todo \cap File
  /\ f \in Module => cmd.todo \cap Net = {}
  /\ f \in Fragment => cmd.todo \cap (Net \cup Module) = {}

Turn(f) == Importing /\ First(f)

Source(f) == IF cmd.name = "file" THEN Landed(f) ELSE "whole"

\* What is copied with f: copytree copies a directory with all that is in it.
Parts(f) == IF f \in Package THEN {f} \cup (Tree[f] \cap Library) ELSE {f}

(***************************************************************************)
(* Mutant: __init__.py files are copied whether or not there is one.        *)
(***************************************************************************)
KeepsAllButInits(f) == f \in File \ UNION {Inits[t] : t \in Python} /\ ~Forced

Keeps(f) == ~Forced

(***************************************************************************)
(* A file that is there stays, unless the user forces the import.  So does  *)
(* a directory, whatever is in it: also one that was made a moment ago for  *)
(* a module that is in it.                                                  *)
(***************************************************************************)
SkipFile(f) ==
  /\ Turn(f)
  /\ disk[f] # "absent"
  /\ Keeps(f)
  /\ cmd' = [cmd EXCEPT !.todo = @ \ {f}, !.skipped = @ \cup {f}]
  /\ UNCHANGED <<project, bundle>>

CopyFile(f) ==
  /\ Turn(f)
  /\ disk[f] # "absent" => ~Keeps(f)
  /\ Put([g \in Parts(f) |-> Source(g)])
  /\ cmd' = [cmd EXCEPT !.todo = @ \ {f}, !.wrote = @ \cup Parts(f)]
  /\ UNCHANGED <<manifest, shape, servers, mcpShape, bundle>>

(***************************************************************************)
(* A copy that ends early: files of it may have been written, and one that  *)
(* was opened may be cut off.  copytree goes on after a file that fails.    *)
(***************************************************************************)
PutSome(written) ==
  \E torn \in SUBSET (written \ Package) :
    Put([g \in written |-> IF g \in torn THEN "torn" ELSE Source(g)])

(***************************************************************************)
(* An OSError in a copy.  copy2 and copytree are guarded: the error is      *)
(* noted and the import goes on.  The extraction of an archive is not: the  *)
(* command exits.                                                           *)
(***************************************************************************)
CopyFails(f) ==
  /\ "copy" \in Faults /\ cmd.failures < MaxFailures
  /\ Turn(f)
  /\ disk[f] # "absent" => ~Keeps(f)
  /\ \E written \in SUBSET Parts(f) :
       /\ PutSome(written)
       /\ IF cmd.item = "bundle" /\ bundle.kind = "zip"
          THEN cmd' = [Fault(cmd.todo) EXCEPT !.status = "failed", !.wrote = @ \cup written]
          ELSE cmd' = [Fault(cmd.todo \ {f}) EXCEPT !.wrote = @ \cup written]
  /\ UNCHANGED <<manifest, shape, servers, mcpShape, bundle>>
-------------------------------------------------------------------------------
(***************************************************************************)
(* Additive merge into a HOCON text: keys that are there stay as they are,  *)
(* new ones go before the last closing brace.  A document without braces    *)
(* is replaced by one with the new keys only.                               *)
(***************************************************************************)
NewKeys(old, keys) == {k \in keys : old[k] = "none"}

Merged(old, form, keys, value) ==
  IF form = "bare" /\ NewKeys(old, keys) # {}
  THEN [k \in DOMAIN old |-> IF k \in NewKeys(old, keys) THEN value ELSE "none"]
  ELSE [k \in DOMAIN old |-> IF k \in NewKeys(old, keys) THEN value ELSE old[k]]

MergedShape(old, form, keys) ==
  IF form = "absent" \/ NewKeys(old, keys) # {} THEN "braced" ELSE form

(***************************************************************************)
(* _splice_mcp_blocks: after the files, in an archive too.                  *)
(***************************************************************************)
MergeServers ==
  /\ Importing
  /\ cmd.todo = {"mcp"}
  /\ servers' = Merged(servers, mcpShape, cmd.urls, "import")
  /\ mcpShape' = MergedShape(servers, mcpShape, cmd.urls)
  /\ cmd' = [cmd EXCEPT !.todo = @ \ {"mcp"}]
  /\ UNCHANGED <<disk, manifest, shape, bundle>>

(***************************************************************************)
(* An OSError or a file that is no UTF-8: _collect_results loses the result *)
(* of the network, with what was going to be registered, and goes on with   *)
(* the next one.  An import of files ends.                                  *)
(***************************************************************************)
MergeFails ==
  /\ "mcp" \in Faults /\ cmd.failures < MaxFailures
  /\ Importing
  /\ cmd.todo = {"mcp"}
  /\ IF cmd.name = "registry"
     THEN cmd' = [Fault({}) EXCEPT !.item = "none", !.urls = {}, !.pending = {}, !.clean = "lost"]
     ELSE cmd' = [Fault(cmd.todo) EXCEPT !.status = "failed"]
  /\ UNCHANGED <<project, bundle>>

ItemDone ==
  /\ Importing
  /\ cmd.item # "none"
  /\ cmd.todo = {}
  /\ cmd' = [cmd EXCEPT !.item = "none", !.urls = {}, !.pending = {},
                         !.listed = @ \cup cmd.pending]
  /\ UNCHANGED <<project, bundle>>

(***************************************************************************)
(* update_manifest, once all networks or files have been gone through.      *)
(***************************************************************************)
UpdateManifest ==
  /\ Importing
  /\ cmd.item = "none"
  /\ cmd.queue = <<>>
  /\ manifest' = Merged(manifest, shape, cmd.listed, "on")
  /\ shape' = MergedShape(manifest, shape, cmd.listed)
  /\ cmd' = [cmd EXCEPT !.status = "done"]
  /\ UNCHANGED <<disk, servers, mcpShape, bundle>>

(***************************************************************************)
(* The process ends between two steps, or inside a copy, or ("torn") inside *)
(* a write of manifest or mcp_info: open(.., "w") has emptied the document. *)
(***************************************************************************)
WritesManifest ==
  \/ Importing /\ cmd.item = "none" /\ cmd.queue = <<>>
  \/ Running("init") /\ "manifest" \in cmd.todo /\ shape = "absent"

WritesServers ==
  \/ Importing /\ cmd.todo = {"mcp"}
  \/ Running("init") /\ "mcp" \in cmd.todo /\ mcpShape = "absent"

Kill ==
  /\ "kill" \in Faults /\ cmd.failures < MaxFailures
  /\ cmd.status = "running"
  /\ cmd' = [cmd EXCEPT !.status = "killed", !.failures = @ + 1]
  /\ \/ UNCHANGED project
     \/ /\ \E f \in File :
             /\ First(f)
             /\ disk[f] # "absent" => ~Keeps(f)
             /\ \E written \in SUBSET Parts(f) : PutSome(written)
        /\ UNCHANGED <<manifest, shape, servers, mcpShape>>
     \/ /\ "torn" \in Faults /\ WritesServers
        /\ servers' = [u \in Url |-> "none"] /\ mcpShape' = "bare"
        /\ UNCHANGED <<disk, manifest, shape>>
     \/ /\ "torn" \in Faults /\ WritesManifest
        /\ manifest' = [h \in Hocon |-> "none"] /\ shape' = "bare"
        /\ UNCHANGED <<disk, servers, mcpShape>>
  /\ UNCHANGED bundle
-------------------------------------------------------------------------------
NoBundle ==
  [kind |-> "none", main |-> CHOOSE n \in Net : TRUE, content |-> [f \in File |-> "absent"],
   urls |-> {}]

Init ==
  /\ \E p \in Projects :
       /\ disk = p.disk /\ manifest = p.manifest /\ shape = p.shape
       /\ servers = p.servers /\ mcpShape = p.mcpShape
  /\ bundle = NoBundle
  /\ cmd = [name |-> "none", force |-> "no", status |-> "none", queue |-> <<>>, item |-> "none",
            todo |-> {}, urls |-> {}, pending |-> {}, listed |-> {}, wrote |-> {},
            skipped |-> {}, asked |-> {}, clean |-> "yes", parsed |-> "all", count |-> 0,
            failures |-> 0]

Next ==
  \/ InitCommand
  \/ \E f \in Job : CopyTemplate(f)
  \/ InitEnds
  \/ \E n \in Net : ExportCommand(n)
  \/ \E p \in Projects : OtherProject(p)
  \/ \E force \in {"yes", "no"} : ImportCommand(force)
  \/ NextItem
  \/ AnalyzeFails
  \/ \E f \in File : SkipFile(f) \/ CopyFile(f) \/ CopyFails(f)
  \/ MergeServers
  \/ MergeFails
  \/ ItemDone
  \/ UpdateManifest
  \/ Kill

Spec == Init /\ [][Next]_vars
-------------------------------------------------------------------------------
(***************************************************************************)
(* Properties.                                                              *)
(***************************************************************************)
SameProject == ~ \E p \in Projects : OtherProject(p)

(***************************************************************************)
(* What the receiver has stays.  A file only changes in an import that was  *)
(* forced, in none of the three places that write files and whatever fails  *)
(* (import.md: "Existing files are skipped, not overwritten.  Re-running is *)
(* safe").  The manifest and mcp_info keep what they say, also when the     *)
(* import is forced ("Existing keys are never rewritten - even with         *)
(* --force", "Existing URLs are never overwritten"), which needs documents  *)
(* with braces, and no kill inside a write.                                 *)
(***************************************************************************)
EntriesKept ==
  [][SameProject =>
       /\ \A f \in File : disk[f] # "absent" /\ disk'[f] # disk[f] => Forced
       /\ \A h \in Hocon : manifest[h] # "none" => manifest'[h] = manifest[h]
       /\ \A u \in Url : servers[u] # "none" => servers'[u] = servers[u]]_vars

Done == cmd.status = "done" /\ cmd.name \in {"registry", "file"}

(***************************************************************************)
(* When an import reports that it is done, every network it wrote a file    *)
(* of, or found there and skipped, is declared in the manifest:             *)
(* sub-networks and networks after a failed copy included, and those that   *)
(* an earlier import copied and was killed before it declared them          *)
(* ("without this they'd land on disk but never get served"; "re-running an *)
(* import shouldn't drop an entry that earlier failed to make it into the   *)
(* manifest").  Unless a merge of mcp_info failed and took a network's      *)
(* result with it.                                                          *)
(***************************************************************************)
AllIsRegistered == \A n \in (cmd.wrote \cup cmd.skipped) \cap Net : manifest[n] # "none"

DoneIsRegistered == Done /\ cmd.clean # "lost" => AllIsRegistered

(***************************************************************************)
(* What the importer takes from the package for a set of networks: their    *)
(* modules, and the four shared fragments.                                  *)
(***************************************************************************)
Needed(nets) ==
  LET tools == (UNION {Uses[m] : m \in nets}) \cap Library
  IN  (nets \cup tools \cup (UNION {Inits[t] : t \in tools \cap Python}) \cup Shared)
        \cap Library

\* In an import that was forced, a file is the package's.
Whole(f) == disk[f] # "absent" /\ (Forced => disk[f] = "whole")

AllOfTree(p) == \A t \in Tree[p] \cap Library : Whole(t)

\* A directory that the import wrote has all of its files.
Arrived(f) == Whole(f) /\ (f \in Package /\ (Forced \/ f \in cmd.wrote) => AllOfTree(f))

\* All that the networks include can be read.
Legible(nets) == \A m \in nets : \A f \in Includes[m] : disk[f] \in {"own", "whole"}

Complete(nets) ==
  /\ \A m \in nets : Refs[m] \subseteq nets /\ manifest[m] # "none"
  /\ \A f \in Needed(nets) : Arrived(f)
  /\ \A u \in (UNION {Servers[m] : m \in nets}) \cap LibraryUrls : servers[u] # "none"

CleanImport == Done /\ cmd.name = "registry" /\ cmd.clean = "yes"

(***************************************************************************)
(* An import of networks of the package that ends without a warning or an   *)
(* error, and could read every network it came to, leaves a set of networks *)
(* that is closed under references, with their modules, the directories of  *)
(* these, the fragments they include and their servers, all declared, and   *)
(* whole if the import was forced: also when files were there before, from  *)
(* an earlier import that was killed or failed.                             *)
(*                                                                         *)
(* Three things it does not say, and each of them is stated below and does  *)
(* not hold: that a clean import could read its networks; that the          *)
(* fragments were imported, which only the shared ones are, the others were *)
(* there when the network was read; and that a directory which was there    *)
(* before, and was not overwritten, has all of its files.                   *)
(***************************************************************************)
CompleteWhenClean ==
  CleanImport /\ cmd.parsed = "all" =>
    \E nets \in SUBSET Net : cmd.asked \subseteq nets /\ Complete(nets) /\ Legible(nets)

(***************************************************************************)
(* Known not to hold: an import without a warning or an error is complete.  *)
(* A network of the package that includes a fragment which is not in the    *)
(* project is analysed to nothing, and its sub-networks, modules and        *)
(* servers are left out without a word.                                     *)
(***************************************************************************)
CleanIsComplete ==
  CleanImport => \E nets \in SUBSET Net : cmd.asked \subseteq nets /\ Complete(nets)

(***************************************************************************)
(* Known not to hold: import.md, "Imported alongside each network: HOCON    *)
(* include files".  Only the four shared fragments are copied.              *)
(***************************************************************************)
IncludesAreImported == CleanImport => Legible(cmd.wrote \cap Net)

(***************************************************************************)
(* Known not to hold: import.md, "Re-running is safe", for a directory that *)
(* was copied in part, or made for one module in it.                        *)
(***************************************************************************)
DirectoriesArrive ==
  CleanImport => \A p \in (cmd.wrote \cup cmd.skipped) \cap Package : AllOfTree(p)

(***************************************************************************)
(* The classes of a network, as far as the project has them: files, with    *)
(* the __init__.py files above them, and all files of directories.          *)
(***************************************************************************)
ModulesOf(m) ==
  LET modules == Uses[m] \cap Present(disk)
  IN  (modules \cap Python) \cup (UNION {Inits[t] : t \in modules \cap Python})
        \cup (UNION {Tree[p] : p \in modules \cap Package})

Bundled(files) == \A f \in files \cap Present(disk) : bundle'.content[f] # "absent"

(***************************************************************************)
(* A bundle has the fragments that the networks in it include, and what     *)
(* else they refer to if they could be read, as far as the project has it:  *)
(* export.md, "transitive sub-networks", "files referenced via include".    *)
(* So a bundle does not depend on which of its networks was exported.       *)
(*                                                                         *)
(* A network that cannot be read brings nothing but its fragments, and a    *)
(* module in a file not the files next to it: both are stated below and do  *)
(* not hold.                                                                *)
(***************************************************************************)
BundleIsClosed ==
  [][bundle' # bundle =>
       \A m \in Net : bundle'.content[m] = "whole" =>
         /\ Bundled(Includes[m])
         /\ Parsed(disk, m) => Bundled(Refs[m] \cup ModulesOf(m))]_vars

(***************************************************************************)
(* Known not to hold: a bundle has what its networks refer to, whether or   *)
(* not the exporter could read them.                                        *)
(***************************************************************************)
BundleHasAll ==
  [][bundle' # bundle =>
       \A m \in Net : bundle'.content[m] = "whole" => Bundled(Refs[m] \cup ModulesOf(m))]_vars

(***************************************************************************)
(* Known not to hold: export.md, "full package trees with __init__.py".     *)
(* The files next to a module are not bundled with it.                      *)
(***************************************************************************)
BundleHasTrees ==
  [][bundle' # bundle =>
       \A p \in Package :
         (\E t \in Tree[p] : bundle'.content[t] # "absent") => Bundled(Tree[p])]_vars

(***************************************************************************)
(* Known not to hold: only networks are registered.  An archive's fragments *)
(* other than the four shared ones are registered too.                      *)
(***************************************************************************)
OnlyNetworksRegistered == Done => \A h \in cmd.listed : h \in Net

(***************************************************************************)
(* Known not to hold: what is written is declared in the manifest when the  *)
(* command ends, also by an error.                                          *)
(***************************************************************************)
WrittenIsRegistered == cmd.status = "failed" => AllIsRegistered

(***************************************************************************)
(* Known not to hold: what is written is declared when the command is done, *)
(* also if a merge of mcp_info failed.                                      *)
(***************************************************************************)
ResultsAreKept == Done => AllIsRegistered

(***************************************************************************)
(* Known not to hold: a network the import has declared has its file.       *)
(***************************************************************************)
DeclaredIsPresent == Done => \A h \in cmd.listed : disk[h] # "absent"
===============================================================================
