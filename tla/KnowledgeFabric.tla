-------------------------- MODULE KnowledgeFabric --------------------------
(***************************************************************************)
(* What the ModernizeAI server (apps/modernizeai_ui/server.py) remembers   *)
(* from one request to the next: the memory fabric and the knowledge graph *)
(* are globals that every request shares, and a scan leaves deliverables   *)
(* in artifacts/<project>/ with a copy in artifacts/.  The handlers never  *)
(* await, so each one is a single step; what can go wrong is a sequence of *)
(* legal requests, a scan that fails while it parses or writes, a restart. *)
(*                                                                         *)
(* A file is known by its path relative to the scanned directory, which is *)
(* how RawMemory keys it: a table below says, for each path, from which    *)
(* directory the kept content comes, or None.                              *)
(***************************************************************************)
EXTENDS Naturals, Sequences, SequencesExt

CONSTANTS
  Repo,      \* the directories a scan may name
  Default,   \* data/insurance_claims_app
  Workspace, \* those under data/_workspaces, made by cloning a Git URL
  Path,      \* the relative paths of files
  Kind,      \* "java", "sql", "doc" (.md, .txt), "note" (of another type, with
             \* "sme" in its path) or "other" for each path
  Holds,     \* the paths of the files in each directory, when it exists
  Risky,     \* the paths whose content detect_discrepancies reports
  Project,   \* the base name of each directory: its folder of deliverables
  Partly,    \* bound: the sets of files after which parsing may fail
  None

ASSUME FabricAssumption ==
  /\ Default \in Repo /\ Workspace \subseteq Repo \ {Default} /\ None \notin Repo
  /\ Kind \in [Path -> {"java", "sql", "doc", "note", "other"}]
  /\ Holds \in [Repo -> SUBSET Path] /\ (\A repo \in Repo : IsFiniteSet(Holds[repo]))
  /\ Risky \in [Repo -> SUBSET Path]
  /\ Project \in [Repo -> Repo] /\ Partly \subseteq SUBSET Path

VARIABLES
  present,    \* the directories that exist
  raw,        \* tier 1: the kept files
  structural, \* tier 2: classes, tables and procedures, by the file they are in
  semantic,   \* tier 3: document chunks, the index over them, and _fitted
  advice,     \* tier 5: the graphs whose components and domains were recorded
  kg,         \* the knowledge graph
  disk,       \* the deliverables: in each project's folder and in artifacts/
  last        \* the last scan: its directory, and whether it completed

vars == <<present, raw, structural, semantic, advice, kg, disk, last>>

Table == [Path -> Repo \cup {None}]
NoFile == [p \in Path |-> None]
NoSymbol == [classes |-> NoFile, tables |-> NoFile, procedures |-> NoFile]
NoChunk == [chunks |-> <<>>, index |-> <<>>, fitted |-> FALSE]

\* A graph is named after the directory it was built for and has, for each
\* file it was built from, nodes that cite it; risks are the discrepancies
\* injected into it.  It is empty when it has no application node.
NoGraph == [app |-> None, cites |-> NoFile, risks |-> {}]

\* What is drawn and exported of the graph, and the three Markdown reports.
File == {"graph", "report"}
NoDeliverable == [f \in File |-> None]

---------------------------------------------------------------------------
(* Tier 1.  A scan may first clone or remove a workspace, so that what is  *)
(* read is what exists then: present', which every action decides first.   *)

Files(repo) == IF repo \in present' THEN Holds[repo] ELSE {}

\* RawMemory.ingest_directory: a kept file of the same path is replaced.
IngestFiles(table, repo) == [p \in Path |-> IF p \in Files(repo) THEN repo ELSE table[p]]

EnsureRaw(table, repo) == IF table = NoFile THEN IngestFiles(table, repo) ELSE table

\* A directory that does not exist is replaced by the default one.
Target(repo) == IF repo \in present' THEN repo ELSE Default

---------------------------------------------------------------------------
(* Tier 3. *)

\* The chunks of the documents in each directory.
Documents ==
  [repo \in Repo |->
     SetToSeq({[path |-> p, repo |-> repo] : p \in {q \in Holds[repo] : Kind[q] = "doc"}})]

Docs(repo) == IF repo \in present' THEN Documents[repo] ELSE <<>>

AddChunks(s, new) == IF new = <<>> THEN s ELSE [s EXCEPT !.chunks = @ \o new, !.fitted = FALSE]

\* MUTANT: an index that was built once is taken to be current.
BuildIndexOnce(s) ==
  IF s.chunks = <<>> \/ s.index # <<>> THEN s ELSE [s EXCEPT !.index = s.chunks, !.fitted = TRUE]

\* With no chunk, build_index returns before it replaces the old index.
BuildIndex(s) == IF s.chunks = <<>> THEN s ELSE [s EXCEPT !.index = s.chunks, !.fitted = TRUE]

Search(s) == IF s.fitted THEN s ELSE BuildIndex(s)

IngestDocs(s, repo) == BuildIndex(AddChunks(s, Docs(repo)))

---------------------------------------------------------------------------
(* Tier 2. *)

Registered(table, files, kind) ==
  [p \in Path |-> IF Kind[p] = kind /\ files[p] # None THEN files[p] ELSE table[p]]

\* Nothing is parsed when there is a class already.
EnsureStructural(t, files) ==
  IF t.classes # NoFile THEN t
  ELSE [classes |-> Registered(t.classes, files, "java"),
        tables |-> Registered(t.tables, files, "sql"),
        procedures |-> Registered(t.procedures, files, "sql")]

\* MUTANT: the tables of tier 2 survive the reset.
ClearedButTables(t) == [t EXCEPT !.classes = NoFile]

\* The reset of a scan, which keeps the procedures.
ClearedSymbols(t) == [t EXCEPT !.classes = NoFile, !.tables = NoFile]

---------------------------------------------------------------------------
(* The knowledge graph. *)

Detected(files) == {p \in Path : files[p] # None /\ p \in Risky[files[p]]}

Inject(g, files) == IF g.app = None THEN g ELSE [g EXCEPT !.risks = @ \cup Detected(files)]

\* MUTANT: the new graph is built onto the old one instead of an empty one.
BuiltOnto(files, repo) ==
  Inject([app |-> repo, risks |-> kg.risks,
          cites |-> [p \in Path |-> IF Kind[p] # "other" /\ files[p] # None
                                      THEN files[p] ELSE kg.cites[p]]], files)

\* build_graph: code, schemas, documents and notes are cited.
Built(files, repo) ==
  Inject([app |-> repo, risks |-> {},
          cites |-> [p \in Path |-> IF Kind[p] = "other" THEN None ELSE files[p]]], files)

---------------------------------------------------------------------------
(* The deliverables of a scan, in the order in which they are written. *)

\* MUTANT: the reports are copied to the dashboard before they are made.
WritesReportLast ==
  <<<<"project", "graph">>, <<"root", "graph">>, <<"root", "report">>, <<"project", "report">>>>

Writes ==
  <<<<"project", "graph">>, <<"root", "graph">>, <<"project", "report">>, <<"root", "report">>>>

Write(d, w, name, app) ==
  IF w[1] = "project" THEN [d EXCEPT !.project[name][w[2]] = app]
                      ELSE [d EXCEPT !.root[w[2]] = d.project[name][w[2]]]

\* What the disk d holds after the first n of them.
Written(d, n, name, app) ==
  LET made[k \in 0..Len(Writes)] ==
        IF k = 0 THEN d ELSE Write(made[k - 1], Writes[k], name, app)
  IN made[n]

\* The strategies are recorded just before the report is written.
ReportsBegun(n) == \A i \in DOMAIN Writes : Writes[i] = <<"project", "report">> => i <= n + 1

---------------------------------------------------------------------------
(* The requests. *)

Init ==
  /\ present = Repo \ Workspace
  /\ raw = NoFile /\ structural = NoSymbol /\ semantic = NoChunk
  /\ advice = {} /\ kg = NoGraph
  /\ disk = [project |-> [r \in Repo |-> NoDeliverable], root |-> NoDeliverable]
  /\ last = [repo |-> None, completed |-> FALSE]

\* generate_6r_strategies records nothing when the graph has no node.
Advised(g) == advice \cup ({g.app} \ {None})

\* The reset, and ingest_repo up to the parsing.  The memory is empty when the
\* memory tool is asked to ingest, so that the tool ingests twice: the
\* documents are chunked twice.  A file that cannot be read is left out.
Ingest(repo) ==
  /\ raw' = IngestFiles(EnsureRaw(NoFile, Target(repo)), Target(repo))
  /\ semantic' = IngestDocs(IngestDocs([semantic EXCEPT !.chunks = <<>>], Target(repo)),
                            Target(repo))

\* The rest, with n of the files written: all of them, or fewer when a write
\* fails and the request is answered with status 500.
Deliver(repo, n) ==
  /\ structural' = EnsureStructural(ClearedSymbols(structural), raw')
  /\ kg' = Built(raw', repo)
  /\ disk' = Written(disk, n, Project[repo], repo)
  /\ advice' = IF ReportsBegun(n) THEN Advised(kg') ELSE advice
  /\ last' = [repo |-> repo, completed |-> n = Len(Writes)]

Only(table, paths) == [p \in Path |-> IF p \in paths THEN table[p] ELSE None]

\* Or a file that cannot be parsed ends the scan, before there is a graph or
\* in the middle of it, with what was made of the files done before.
Stop(repo, done) ==
  /\ \/ /\ structural' = EnsureStructural(ClearedSymbols(structural), Only(raw', done))
        /\ kg' = NoGraph
     \/ /\ structural' = EnsureStructural(ClearedSymbols(structural), raw')
        /\ kg' = [app |-> repo, risks |-> {}, cites |-> Only(Built(raw', repo).cites, done)]
  /\ last' = [repo |-> repo, completed |-> FALSE]
  /\ UNCHANGED <<advice, disk>>

\* run_scan after its clone.
Scan(repo) ==
  /\ Ingest(repo)
  /\ \/ \E n \in 0..Len(Writes) : Deliver(repo, n)
     \/ \E done \in Partly : Stop(repo, done)

\* A local path, which need not exist; an S3 bucket scans the default directory.
ScanPath(repo) == present' = present /\ Scan(repo)

\* A Git URL whose clone replaces the workspace.
ScanClone(repo) == present' = present \cup {repo} /\ Scan(repo)

\* The old workspace is removed before the clone; without a clone, the path
\* that came with the URL is scanned, which is the default directory's if none
\* did.  (What a clone that timed out leaves of its directory is left out.)
ScanFailedClone(clone, repo) == present' = present \ {clone} /\ Scan(repo)

\* The memory tool fills an empty memory before it answers.
GetStatus ==
  /\ present' = present
  /\ raw' = EnsureRaw(raw, Default)
  /\ semantic' = IF raw = NoFile THEN IngestDocs(semantic, Default) ELSE semantic
  /\ structural' = EnsureStructural(structural, raw')
  /\ UNCHANGED <<advice, kg, disk, last>>

\* The other tools fill tier 1 only.
GetRules ==
  /\ present' = present
  /\ raw' = EnsureRaw(raw, Default)
  /\ UNCHANGED <<structural, semantic, advice, kg, disk, last>>

GetReadiness ==
  /\ advice' = Advised(kg)
  /\ UNCHANGED <<present, raw, structural, semantic, kg, disk, last>>

\* The first lines of execute_swarm_turn, which fill what is empty.
ReadyRaw == EnsureRaw(raw, Default)
ReadyGraph == IF kg.app = None THEN Built(ReadyRaw, Default) ELSE kg

\* hybrid_graph_rag, the end of every other answer: it searches the chunks and
\* ranks what it found with the graph, which it only reads.
HybridRetrieval == semantic' = Search(semantic)

\* A question about the catalogue reads the default directory again.
AskDiscovery ==
  /\ present' = present
  /\ raw' = IngestFiles(ReadyRaw, Default)
  /\ kg' = ReadyGraph
  /\ UNCHANGED <<structural, semantic, advice, disk, last>>

AskRules ==
  /\ present' = present
  /\ raw' = ReadyRaw
  /\ kg' = Inject(ReadyGraph, raw')
  /\ HybridRetrieval
  /\ UNCHANGED <<structural, advice, disk, last>>

AskAdvice ==
  /\ present' = present
  /\ raw' = ReadyRaw
  /\ kg' = ReadyGraph
  /\ advice' = Advised(kg')
  /\ HybridRetrieval
  /\ UNCHANGED <<structural, disk, last>>

\* A question of impact: the blast radius (module BlastRadius) only reads.
AskImpact ==
  /\ present' = present
  /\ raw' = ReadyRaw
  /\ kg' = ReadyGraph
  /\ HybridRetrieval
  /\ UNCHANGED <<structural, advice, disk, last>>

\* Any other question changes no more.
AskGraph == AskImpact

\* The words of the question decide which of the agents answers it.
Ask == AskDiscovery \/ AskImpact \/ AskRules \/ AskAdvice \/ AskGraph

Restart ==
  /\ raw' = NoFile /\ structural' = NoSymbol /\ semantic' = NoChunk
  /\ advice' = {} /\ kg' = NoGraph
  /\ UNCHANGED <<present, disk, last>>

Next ==
  \/ \E repo \in Repo : ScanPath(repo)
  \/ \E repo \in Workspace : ScanClone(repo)
  \/ \E clone \in Workspace, repo \in Repo : ScanFailedClone(clone, repo)
  \/ GetStatus \/ GetRules \/ GetReadiness
  \/ Ask
  \/ Restart

Spec == Init /\ [][Next]_vars

---------------------------------------------------------------------------
(* Properties. *)

\* Every variable holds a value of its kind.
FabricTypeOK ==
  /\ present \subseteq Repo /\ Repo \ Workspace \subseteq present
  /\ raw \in Table
  /\ structural \in [classes : Table, tables : Table, procedures : Table]
  /\ semantic \in [chunks : Seq([path : Path, repo : Repo]),
                    index : Seq([path : Path, repo : Repo]), fitted : BOOLEAN]
  /\ advice \subseteq Repo
  /\ kg \in [app : Repo \cup {None}, cites : Table, risks : SUBSET Path]
  /\ disk \in [project : [Repo -> [File -> Repo \cup {None}]], root : [File -> Repo \cup {None}]]
  /\ last \in [repo : Repo \cup {None}, completed : BOOLEAN]

\* A search scores the chunks there are: whenever there is something to find,
\* the statistics of the index are those of the present chunks, and every
\* chunk comes from a file in tier 1.  (A scan clears the chunks and not the
\* index, and build_index does nothing without chunks.)
SearchIsCurrent ==
  semantic.chunks # <<>> =>
    /\ Search(semantic).index = semantic.chunks
    /\ \A i \in DOMAIN semantic.chunks : raw[semantic.chunks[i].path] # None

\* The node inspector finds each file the graph cites, and in it either the
\* cited content or that of the default directory, which a question can read
\* over a scanned one; each risk in the graph was found in a file still there.
\* (About the nodes that are made of a file: an Application cites a directory,
\* a Risk the name of a detector, and neither is in the model.)
CitedFilesExist ==
  /\ \A p \in Path : kg.cites[p] # None => raw[p] \in {kg.cites[p], Default}
  /\ \A p \in kg.risks : raw[p] # None
  /\ kg.app = None => kg = NoGraph

\* Unless the last scan failed, the dashboard's graph and reports are both
\* of the project scanned last, also after failures and restarts before.
MirrorIsWhole ==
  last.completed => \A f \in File : disk.root[f] = last.repo

\* Only what the directory repo holds, in every tier that a scan resets, in the
\* graph and in its own folder.
Holding(repo) ==
  /\ \A p \in Path :
       /\ raw[p] = IF p \in Holds[repo] THEN repo ELSE None
       /\ structural.classes[p] \in {None, repo} /\ structural.tables[p] \in {None, repo}
       /\ kg.cites[p] \in {None, repo}
  /\ \A i \in DOMAIN semantic.chunks : semantic.chunks[i].repo = repo
  /\ kg.app = repo
  /\ \A f \in File : disk.project[Project[repo]][f] = repo

\* A completed scan of a directory that exists repairs whatever the requests,
\* the failures and the restarts before it left: nothing of another repository
\* remains in the memory, in the graph or in the project's folder.
ScanRepairs ==
  [][\A repo \in present' :
       last' = [repo |-> repo, completed |-> TRUE] /\ Ingest(repo) /\ Deliver(repo, Len(Writes))
         => Holding(repo)']_vars

---------------------------------------------------------------------------
(* Stated, and known not to hold: see README.md. *)

\* A cited file has the content the graph was built from.
CitationsHold == \A p \in Path : kg.cites[p] # None => raw[p] = kg.cites[p]

\* Once the memory tool has been asked, every document kept in tier 1 can be
\* found by a search (_ensure_ingested: "into raw and semantic memory").
DocsAreSearchable ==
  [][GetStatus =>
       \A p \in Path : Kind[p] = "doc" /\ raw'[p] # None =>
         \E i \in DOMAIN semantic'.chunks : semantic'.chunks[i].path = p]_vars

\* A scan leaves no procedure of another repository in tier 2.
ProceduresAreFresh ==
  [][\A repo \in present : Ingest(repo) /\ Deliver(repo, Len(Writes)) =>
       \A p \in Path : structural'.procedures[p] \in {None, repo}]_vars

\* The folder of a project only changes when that directory is scanned
\* ("Project-Isolated Deliverables").
FoldersAreIsolated ==
  [][\A repo \in Repo :
       disk'.project[Project[repo]] # disk.project[Project[repo]] => last'.repo = repo]_vars

\* A graph cites only files of the directory it is named after.
GraphNamesItsFiles == \A p \in Path : kg.cites[p] \in {None, kg.app}
=============================================================================
