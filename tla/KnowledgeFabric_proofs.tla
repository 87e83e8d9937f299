----------------------- MODULE KnowledgeFabric_proofs -----------------------
(***************************************************************************)
(* What every sequence of requests, failed writes and restarts leaves, for *)
(* any directories and files: the files a graph cites are kept, the index  *)
(* is over the present chunks, the dashboard shows one project after a     *)
(* completed scan, and such a scan repairs what came before it.            *)
(*                                                                         *)
(* And that the blast radius is exact in every finite graph                *)
(* (DistancesAreExact): the turns of the loop exist, by induction for a    *)
(* set of numbers (Induction); each keeps SearchOK (VisitKeeps); and when  *)
(* there were as many as nodes the queue is empty (HopsDone).              *)
(***************************************************************************)
EXTENDS KnowledgeFabric, BlastRadius, FiniteSetTheorems, SequenceTheorems, WellFoundedInduction,
        TLAPS

\* What the memory of tier 1 and the graph are to each other.
Graph == [app : Repo \cup {None}, cites : Table, risks : SUBSET Path]

Kept(files, g) ==
  /\ \A p \in Path : g.cites[p] # None => files[p] \in {g.cites[p], Default}
  /\ \A p \in g.risks : files[p] # None
  /\ g.app = None => g = NoGraph

GraphInv == raw \in Table /\ kg \in Graph /\ Kept(raw, kg)

---------------------------------------------------------------------------
\* Reading a directory leaves a table of files, and never drops one.
LEMMA IngestTypes ==
  ASSUME NEW table \in Table, NEW repo \in Repo
  PROVE  /\ IngestFiles(table, repo) \in Table
         /\ \A p \in Path : IngestFiles(table, repo)[p] \in {repo, table[p]}
  BY DEF IngestFiles, Table

\* So does filling tier 1 when it is empty.
LEMMA EnsureTypes ==
  ASSUME NEW table \in Table, NEW repo \in Repo
  PROVE  /\ EnsureRaw(table, repo) \in Table
         /\ \A p \in Path : EnsureRaw(table, repo)[p] \in {repo, table[p]}
  BY IngestTypes DEF EnsureRaw

\* An empty tier 1 is a table.
LEMMA NoFileTypes == NoFile \in Table /\ \A p \in Path : NoFile[p] = None
  BY DEF NoFile, Table

\* The discrepancies found in files are found at kept paths.
LEMMA DetectedKept ==
  ASSUME NEW files \in Table
  PROVE  Detected(files) \subseteq Path /\ \A p \in Detected(files) : files[p] # None
  BY DEF Detected

\* Injecting the discrepancies of the files at hand keeps what is cited.
LEMMA InjectKeeps ==
  ASSUME NEW files \in Table, NEW g \in Graph, Kept(files, g)
  PROVE  Inject(g, files) \in Graph /\ Kept(files, Inject(g, files))
<1>1. CASE g.app = None
  BY <1>1 DEF Inject
<1>2. CASE g.app # None
  <2>1. Inject(g, files) = [g EXCEPT !.risks = g.risks \cup Detected(files)]
    BY <1>2 DEF Inject
  <2>2. /\ Inject(g, files) \in Graph
        /\ Inject(g, files).app = g.app
        /\ Inject(g, files).cites = g.cites
        /\ Inject(g, files).risks = g.risks \cup Detected(files)
    BY <2>1, DetectedKept DEF Graph
  <2>. QED  BY <1>2, <2>2, DetectedKept DEF Kept
<1>. QED  BY <1>1, <1>2

\* A graph built from the files at hand cites them, and only them.
LEMMA BuiltKeeps ==
  ASSUME FabricAssumption, NEW files \in Table, NEW repo \in Repo
  PROVE  Built(files, repo) \in Graph /\ Kept(files, Built(files, repo))
<1>. DEFINE cites == [p \in Path |-> IF Kind[p] = "other" THEN None ELSE files[p]]
            g == [app |-> repo, risks |-> {}, cites |-> cites]
<1>1. cites \in Table /\ \A p \in Path : cites[p] # None => files[p] = cites[p]
  BY DEF Table
<1>2. g \in Graph /\ g.app = repo /\ g.cites = cites /\ g.risks = {}
  BY <1>1 DEF Graph
<1>. HIDE DEF cites
<1>3. repo # None
  BY DEF FabricAssumption
<1>4. Kept(files, g)
  BY <1>1, <1>2, <1>3 DEF Kept
<1>5. Built(files, repo) = Inject(g, files)
  BY DEF Built, cites
<1>. HIDE DEF g
<1>. QED  BY <1>2, <1>4, <1>5, InjectKeeps

\* Reading the default directory over the files keeps what is cited, up to
\* the default directory's content.
LEMMA OverlayKeeps ==
  ASSUME FabricAssumption, NEW files \in Table, NEW new \in Table, NEW g \in Graph, Kept(files, g),
         \A p \in Path : new[p] \in {Default, files[p]}
  PROVE  Kept(new, g)
<1>1. Default # None
  BY DEF FabricAssumption
<1>2. \A p \in g.risks : p \in Path
  BY DEF Graph
<1>. QED  BY <1>1, <1>2 DEF Kept

\* The graph a question is answered from, built if there was none.
LEMMA ReadyKeeps ==
  ASSUME FabricAssumption, GraphInv
  PROVE  /\ ReadyRaw \in Table /\ ReadyGraph \in Graph
         /\ Kept(ReadyRaw, ReadyGraph)
<1>1. Default \in Repo
  BY DEF FabricAssumption
<1>2. ReadyRaw \in Table /\ \A p \in Path : ReadyRaw[p] \in {Default, raw[p]}
  BY <1>1, EnsureTypes DEF ReadyRaw, GraphInv
<1>3. CASE kg.app = None
  BY <1>1, <1>2, <1>3, BuiltKeeps DEF ReadyGraph
<1>4. CASE kg.app # None
  BY <1>2, <1>4, OverlayKeeps DEF ReadyGraph, GraphInv
<1>. QED  BY <1>2, <1>3, <1>4

---------------------------------------------------------------------------
\* A table with fewer entries is a table.
LEMMA OnlyTypes ==
  ASSUME NEW table \in Table, NEW paths
  PROVE  /\ Only(table, paths) \in Table
         /\ \A p \in Path : Only(table, paths)[p] \in {None, table[p]}
  BY DEF Only, Table

\* A scan leaves a graph of the files it has just read, of some of them, or none.
LEMMA ScanKeeps ==
  ASSUME FabricAssumption, NEW repo \in Repo, Scan(repo)
  PROVE  GraphInv'
<1>1. Target(repo) \in Repo
  BY DEF Target, FabricAssumption
<1>2. EnsureRaw(NoFile, Target(repo)) \in Table
  BY <1>1, EnsureTypes, NoFileTypes
<1>3. raw' \in Table
  BY <1>1, <1>2, IngestTypes DEF Scan, Ingest
<1>. DEFINE built == Built(raw', repo)
<1>4. built \in Graph /\ Kept(raw', built)
  BY <1>3, BuiltKeeps
<1>. HIDE DEF built
<1>5. CASE kg' = built
  BY <1>3, <1>4, <1>5 DEF GraphInv
<1>6. CASE kg' = NoGraph
  BY <1>3, <1>6, NoFileTypes DEF GraphInv, Graph, Kept, NoGraph
<1>7. ASSUME NEW done, kg' = [app |-> repo, risks |-> {}, cites |-> Only(built.cites, done)]
      PROVE  GraphInv'
  <2>1. Only(built.cites, done) \in Table
        /\ \A p \in Path : Only(built.cites, done)[p] \in {None, built.cites[p]}
    BY <1>4, OnlyTypes DEF Graph
  <2>2. kg' \in Graph /\ kg'.app = repo /\ kg'.risks = {} /\ kg'.cites = Only(built.cites, done)
    BY <1>7, <2>1 DEF Graph
  <2>3. repo # None
    BY DEF FabricAssumption
  <2>. QED  BY <1>3, <1>4, <2>1, <2>2, <2>3 DEF GraphInv, Kept
<1>. QED  BY <1>5, <1>6, <1>7 DEF Scan, Deliver, Stop, built

\* Every request and a restart keep the files the graph cites.
LEMMA StepKeeps ==
  ASSUME FabricAssumption, GraphInv, [Next]_vars
  PROVE  GraphInv'
<1>0. Default \in Repo /\ Workspace \subseteq Repo
  BY DEF FabricAssumption
<1>1. ASSUME NEW repo \in Repo, ScanPath(repo)
      PROVE  GraphInv'
  BY <1>1, ScanKeeps DEF ScanPath
<1>2. ASSUME NEW repo \in Workspace, ScanClone(repo)
      PROVE  GraphInv'
  BY <1>0, <1>2, ScanKeeps DEF ScanClone
<1>3. ASSUME NEW clone \in Workspace, NEW repo \in Repo, ScanFailedClone(clone, repo)
      PROVE  GraphInv'
  BY <1>0, <1>3, ScanKeeps DEF ScanFailedClone
<1>4. CASE raw' = EnsureRaw(raw, Default) /\ UNCHANGED kg
  <2>1. raw' \in Table /\ \A p \in Path : raw'[p] \in {Default, raw[p]}
    BY <1>0, <1>4, EnsureTypes DEF GraphInv
  <2>. QED  BY <1>4, <2>1, OverlayKeeps DEF GraphInv
<1>5. CASE GetStatus
  BY <1>4, <1>5 DEF GetStatus
<1>6. CASE GetRules
  BY <1>4, <1>6 DEF GetRules
<1>7. CASE UNCHANGED <<raw, kg>>
  BY <1>7 DEF GraphInv
<1>8. CASE GetReadiness
  BY <1>7, <1>8 DEF GetReadiness
<1>9. CASE AskDiscovery
  <2>1. raw' = IngestFiles(ReadyRaw, Default) /\ kg' = ReadyGraph
    BY <1>9 DEF AskDiscovery
  <2>2. raw' \in Table /\ \A p \in Path : raw'[p] \in {Default, ReadyRaw[p]}
    BY <1>0, <2>1, ReadyKeeps, IngestTypes
  <2>. QED  BY <2>1, <2>2, ReadyKeeps, OverlayKeeps DEF GraphInv
<1>10. CASE AskRules
  <2>1. raw' = ReadyRaw /\ kg' = Inject(ReadyGraph, raw')
    BY <1>10 DEF AskRules
  <2>. QED  BY <2>1, ReadyKeeps, InjectKeeps DEF GraphInv
<1>11. CASE AskAdvice
  BY <1>11, ReadyKeeps DEF AskAdvice, GraphInv
<1>12. CASE AskImpact \/ AskGraph
  BY <1>12, ReadyKeeps DEF AskImpact, AskGraph, GraphInv
<1>13. CASE Restart
  <2>1. raw' = NoFile /\ kg' = NoGraph
    BY <1>13 DEF Restart
  <2>. QED  BY <2>1, NoFileTypes DEF GraphInv, Graph, Kept, NoGraph
<1>14. CASE UNCHANGED vars
  BY <1>7, <1>14 DEF vars
<1>. QED  BY <1>1, <1>2, <1>3, <1>5, <1>6, <1>8, <1>9, <1>10, <1>11, <1>12, <1>13, <1>14
      DEF Next, Ask

\* In every state of every session, each file the graph cites is kept, with
\* the cited content or the default directory's, and so is the file of each
\* risk; a graph without an application node has nothing else either.
THEOREM CitedFilesAreKept == Spec => []CitedFilesExist
<1>1. Init => GraphInv
  BY FabricAssumption, NoFileTypes DEF Init, GraphInv, Graph, Kept, NoGraph
<1>2. GraphInv /\ [Next]_vars => GraphInv'
  BY FabricAssumption, StepKeeps
<1>3. GraphInv => CitedFilesExist
  BY DEF GraphInv, Kept, CitedFilesExist
<1>. QED  BY <1>1, <1>2, <1>3, PTL DEF Spec

---------------------------------------------------------------------------
(* The chunks of tier 3 and the index over them. *)

Chunk == [path : Path, repo : Repo]
Semantic == [chunks : Seq(Chunk), index : Seq(Chunk), fitted : BOOLEAN]

\* What the index is to the chunks: once built, it is over the present ones.
Indexed(s) == s.fitted /\ s.chunks # <<>> => s.index = s.chunks

\* Every chunk comes from a kept file.
FromFiles(s, files) == \A i \in DOMAIN s.chunks : files[s.chunks[i].path] # None

SearchInv ==
  raw \in Table /\ semantic \in Semantic /\ Indexed(semantic) /\ FromFiles(semantic, raw)

\* A finite set made into a sequence has each element, once.
LEMMA SetToSeqOnto ==
  ASSUME NEW S, IsFiniteSet(S)
  PROVE  /\ SetToSeq(S) \in Seq(S) /\ Len(SetToSeq(S)) = Cardinality(S)
         /\ \A x \in S : \E i \in 1..Len(SetToSeq(S)) : SetToSeq(S)[i] = x
<1>. DEFINE k == Cardinality(S)
            q == SetToSeq(S)
<1>1. k \in Nat /\ ExistsBijection(1..k, S)
  BY FS_CardinalityType
<1>2. \E f \in [1..k -> S] : IsInjective(f)
  BY <1>1 DEF ExistsBijection, Bijection, Injection
<1>3. q \in [1..k -> S] /\ IsInjective(q)
  BY <1>2 DEF SetToSeq
<1>4. q \in Injection(1..k, S)
  BY <1>3 DEF Injection, IsInjective
<1>5. Cardinality(1..k) = k
  <2>1. 1 \in Int /\ k \in Int
    BY <1>1
  <2>2. Cardinality(1..k) = IF 1 > k THEN 0 ELSE k - 1 + 1
    BY <2>1, FS_Interval, Zenon
  <2>. QED  BY <1>1, <2>2
<1>6. q \in Surjection(1..k, S)
  <2>. HIDE DEF q
  <2>. QED  BY <1>4, <1>5, FS_Injection
<1>7. q \in Seq(S) /\ Len(q) = k
  <2>. HIDE DEF q
  <2>1. q \in Seq(S)
    BY <1>1, <1>3, SeqDef
  <2>2. 1..Len(q) = 1..k /\ Len(q) \in Nat
    BY <1>3, <2>1, LenProperties
  <2>. QED  BY <1>1, <2>1, <2>2
<1>. QED  BY <1>6, <1>7 DEF Surjection

\* The chunks made of a directory are those of documents it holds.
LEMMA DocsTypes ==
  ASSUME FabricAssumption, NEW repo \in Repo
  PROVE  /\ Docs(repo) \in Seq(Chunk)
         /\ \A i \in DOMAIN Docs(repo) : /\ Docs(repo)[i].repo = repo
                                         /\ Docs(repo)[i].path \in Files(repo)
<1>. DEFINE D == {q \in Holds[repo] : Kind[q] = "doc"}
            S == {[path |-> p, repo |-> repo] : p \in D}
            f == [p \in D |-> [path |-> p, repo |-> repo]]
<1>1. Holds[repo] \subseteq Path /\ IsFiniteSet(Holds[repo])
  BY DEF FabricAssumption
<1>2. IsFiniteSet(D)
  BY <1>1, FS_Subset
<1>3. f \in Surjection(D, S)
  BY DEF Surjection
<1>4. IsFiniteSet(S)
  BY <1>2, <1>3, FS_Surjection
<1>5. Documents[repo] = SetToSeq(S)
  BY DEF Documents
<1>6. \A c \in S : c \in Chunk /\ c.repo = repo /\ c.path \in Holds[repo]
  BY <1>1 DEF Chunk
<1>. HIDE DEF S
<1>7. Documents[repo] \in Seq(S)
  BY <1>4, <1>5, SetToSeqOnto
<1>8. \A i \in DOMAIN Documents[repo] : Documents[repo][i] \in S
  BY <1>7, LenProperties, ElementOfSeq
<1>9. Documents[repo] \in Seq(Chunk)
  BY <1>6, <1>7, SeqMonotonic
<1>10. CASE repo \in present'
  <2>1. Docs(repo) = Documents[repo] /\ Files(repo) = Holds[repo]
    BY <1>10 DEF Docs, Files
  <2>. QED  BY <1>6, <1>8, <1>9, <2>1
<1>11. CASE repo \notin present'
  <2>1. Docs(repo) = <<>>
    BY <1>11 DEF Docs
  <2>. QED  BY <2>1, EmptySeq
<1>. QED  BY <1>10, <1>11

\* Reading the documents of a directory appends their chunks and leaves an
\* index that is built over what there is.
LEMMA IngestDocsTypes ==
  ASSUME FabricAssumption, NEW repo \in Repo, NEW s \in Semantic, Indexed(s)
  PROVE  /\ IngestDocs(s, repo) \in Semantic /\ Indexed(IngestDocs(s, repo))
         /\ IngestDocs(s, repo).chunks = s.chunks \o Docs(repo)
<1>. DEFINE a == AddChunks(s, Docs(repo))
<1>1. s.chunks \o Docs(repo) \in Seq(Chunk) /\ s.chunks \o <<>> = s.chunks
  BY DocsTypes, ConcatProperties, ConcatEmptySeq DEF Semantic
<1>2. a \in Semantic /\ Indexed(a) /\ a.chunks = s.chunks \o Docs(repo)
  <2>1. CASE Docs(repo) = <<>>
    BY <1>1, <2>1 DEF AddChunks
  <2>2. CASE Docs(repo) # <<>>
    <3>1. a = [s EXCEPT !.chunks = s.chunks \o Docs(repo), !.fitted = FALSE]
      BY <2>2 DEF AddChunks
    <3>2. a.chunks = s.chunks \o Docs(repo) /\ a.fitted = FALSE /\ a \in Semantic
      BY <1>1, <3>1 DEF Semantic
    <3>. QED  BY <3>2 DEF Indexed
  <2>. QED  BY <2>1, <2>2
<1>3. IngestDocs(s, repo) = BuildIndex(a)
  BY DEF IngestDocs
<1>. HIDE DEF a
<1>4. BuildIndex(a) \in Semantic /\ Indexed(BuildIndex(a)) /\ BuildIndex(a).chunks = a.chunks
  <2>1. CASE a.chunks = <<>>
    BY <1>2, <2>1 DEF BuildIndex
  <2>2. CASE a.chunks # <<>>
    <3>1. BuildIndex(a) = [a EXCEPT !.index = a.chunks, !.fitted = TRUE]
      BY <2>2 DEF BuildIndex
    <3>2. /\ BuildIndex(a) \in Semantic
          /\ BuildIndex(a).chunks = a.chunks /\ BuildIndex(a).index = a.chunks
      BY <1>2, <3>1 DEF Semantic
    <3>. QED  BY <3>2 DEF Indexed
  <2>. QED  BY <2>1, <2>2
<1>. QED  BY <1>2, <1>3, <1>4

\* A search may build the index, and changes nothing else.
LEMMA SearchTypes ==
  ASSUME NEW s \in Semantic, Indexed(s)
  PROVE  /\ Search(s) \in Semantic /\ Indexed(Search(s)) /\ Search(s).chunks = s.chunks
         /\ s.chunks # <<>> => Search(s).index = s.chunks
<1>1. CASE s.fitted
  BY <1>1 DEF Search, Indexed
<1>2. CASE ~s.fitted /\ s.chunks = <<>>
  BY <1>2 DEF Search, BuildIndex
<1>3. CASE ~s.fitted /\ s.chunks # <<>>
  <2>1. Search(s) = [s EXCEPT !.index = s.chunks, !.fitted = TRUE]
    BY <1>3 DEF Search, BuildIndex
  <2>2. /\ Search(s) \in Semantic
        /\ Search(s).chunks = s.chunks /\ Search(s).index = s.chunks
    BY <2>1 DEF Semantic
  <2>. QED  BY <2>2 DEF Indexed
<1>. QED  BY <1>1, <1>2, <1>3

\* The chunks of two sequences from kept files are from kept files.
LEMMA ConcatFromFiles ==
  ASSUME NEW c \in Seq(Chunk), NEW d \in Seq(Chunk), NEW files,
         \A i \in DOMAIN c : files[c[i].path] # None,
         \A i \in DOMAIN d : files[d[i].path] # None
  PROVE  \A i \in DOMAIN (c \o d) : files[(c \o d)[i].path] # None
<1>1. c \o d \in Seq(Chunk) /\ Len(c \o d) = Len(c) + Len(d) /\ Len(c) \in Nat /\ Len(d) \in Nat
  BY ConcatProperties, LenProperties
<1>2. DOMAIN c = 1..Len(c) /\ DOMAIN d = 1..Len(d) /\ DOMAIN (c \o d) = 1..(Len(c) + Len(d))
  BY <1>1, LenProperties
<1>3. \A i \in 1..(Len(c) + Len(d)) :
        \/ i \in 1..Len(c) /\ (c \o d)[i] = c[i]
        \/ i - Len(c) \in 1..Len(d) /\ (c \o d)[i] = d[i - Len(c)]
  BY <1>1, ConcatProperties
<1>. QED  BY <1>2, <1>3

\* A scan keeps the chunks of the scanned directory only, twice.
LEMMA ScanChunks ==
  ASSUME FabricAssumption, SearchInv, NEW repo \in Repo, Ingest(repo)
  PROVE  /\ Target(repo) \in Repo /\ semantic' \in Semantic /\ Indexed(semantic')
         /\ semantic'.chunks = Docs(Target(repo)) \o Docs(Target(repo))
<1>. DEFINE t == Target(repo)
            s0 == [semantic EXCEPT !.chunks = <<>>]
            s1 == IngestDocs(s0, t)
<1>1. t \in Repo
  BY DEF Target, FabricAssumption
<1>2. s0 \in Semantic /\ s0.chunks = <<>> /\ Indexed(s0)
  <2>1. s0 \in Semantic /\ s0.chunks = <<>>
    BY EmptySeq DEF SearchInv, Semantic
  <2>. QED  BY <2>1 DEF Indexed
<1>3. semantic' = IngestDocs(s1, t)
  BY DEF Ingest
<1>. HIDE DEF s0
<1>4. s1 \in Semantic /\ Indexed(s1) /\ s1.chunks = <<>> \o Docs(t)
  BY <1>1, <1>2, IngestDocsTypes
<1>5. <<>> \o Docs(t) = Docs(t)
  BY <1>1, DocsTypes, ConcatEmptySeq
<1>. HIDE DEF s1, t
<1>6. semantic' \in Semantic /\ Indexed(semantic') /\ semantic'.chunks = s1.chunks \o Docs(t)
  BY <1>1, <1>3, <1>4, IngestDocsTypes
<1>. QED  BY <1>1, <1>4, <1>5, <1>6 DEF t

\* A scan leaves an index over its chunks, all from files it has just read.
LEMMA ScanSearch ==
  ASSUME FabricAssumption, SearchInv, NEW repo \in Repo, Scan(repo)
  PROVE  SearchInv'
<1>. DEFINE t == Target(repo)
<1>1. t \in Repo /\ semantic' \in Semantic /\ Indexed(semantic')
      /\ semantic'.chunks = Docs(t) \o Docs(t)
  BY ScanChunks DEF Scan
<1>2. raw' = IngestFiles(EnsureRaw(NoFile, t), t)
  BY DEF Scan, Ingest
<1>. HIDE DEF t
<1>3. EnsureRaw(NoFile, t) \in Table
  BY <1>1, EnsureTypes, NoFileTypes
<1>4. raw' \in Table /\ \A p \in Path : p \in Files(t) => raw'[p] # None
  BY <1>1, <1>2, <1>3, IngestTypes DEF IngestFiles, FabricAssumption
<1>5. Docs(t) \in Seq(Chunk) /\ \A i \in DOMAIN Docs(t) : raw'[Docs(t)[i].path] # None
  <2>1. Files(t) \subseteq Path
    BY <1>1 DEF Files, FabricAssumption
  <2>. QED  BY <1>1, <1>4, <2>1, DocsTypes
<1>6. FromFiles(semantic', raw')
  BY <1>1, <1>5, ConcatFromFiles DEF FromFiles
<1>. QED  BY <1>1, <1>4, <1>6 DEF SearchInv

\* A step that keeps the chunks and drops no file keeps the index current.
LEMMA SameChunksSearch ==
  ASSUME SearchInv, raw' \in Table, \A p \in Path : raw[p] # None => raw'[p] # None,
         semantic' \in Semantic, Indexed(semantic'), semantic'.chunks = semantic.chunks
  PROVE  SearchInv'
<1>1. \A i \in DOMAIN semantic.chunks : semantic.chunks[i].path \in Path
  <2>1. semantic.chunks \in Seq(Chunk)
    BY DEF SearchInv, Semantic
  <2>2. \A i \in DOMAIN semantic.chunks : semantic.chunks[i] \in Chunk
    BY <2>1, LenProperties, ElementOfSeq
  <2>. QED  BY <2>2 DEF Chunk
<1>2. FromFiles(semantic', raw')
  BY <1>1 DEF FromFiles, SearchInv
<1>. QED  BY <1>2 DEF SearchInv

\* The status request reads the documents with the files, or neither.
LEMMA StatusSearch ==
  ASSUME FabricAssumption, SearchInv, GetStatus
  PROVE  SearchInv'
<1>1. Default \in Repo /\ Default # None
  BY DEF FabricAssumption
<1>2. raw' = EnsureRaw(raw, Default)
  BY DEF GetStatus
<1>3. raw' \in Table /\ \A p \in Path : raw'[p] \in {Default, raw[p]}
  BY <1>1, <1>2, EnsureTypes DEF SearchInv
<1>4. CASE raw # NoFile
  <2>1. semantic' = semantic
    BY <1>4 DEF GetStatus
  <2>. QED  BY <1>1, <1>3, <2>1, SameChunksSearch DEF SearchInv
<1>5. CASE raw = NoFile
  <2>1. semantic' = IngestDocs(semantic, Default)
    BY <1>5 DEF GetStatus
  <2>2. semantic' \in Semantic /\ Indexed(semantic')
        /\ semantic'.chunks = semantic.chunks \o Docs(Default)
    BY <1>1, <2>1, IngestDocsTypes DEF SearchInv
  <2>3. \A p \in Path : p \in Files(Default) => raw'[p] # None
    BY <1>1, <1>2, <1>5 DEF EnsureRaw, IngestFiles
  <2>4. Files(Default) \subseteq Path
    BY <1>1 DEF Files, FabricAssumption
  <2>5. Docs(Default) \in Seq(Chunk) /\ \A i \in DOMAIN Docs(Default) :
          raw'[Docs(Default)[i].path] # None
    BY <1>1, <2>3, <2>4, DocsTypes
  <2>6. semantic.chunks \in Seq(Chunk) /\ \A i \in DOMAIN semantic.chunks :
          raw'[semantic.chunks[i].path] # None
    <3>1. semantic.chunks \in Seq(Chunk)
      BY DEF SearchInv, Semantic
    <3>2. \A i \in DOMAIN semantic.chunks : semantic.chunks[i] \in Chunk
      BY <3>1, LenProperties, ElementOfSeq
    <3>3. \A i \in DOMAIN semantic.chunks : FALSE
      BY <1>5, <3>2, NoFileTypes DEF SearchInv, FromFiles, Chunk
    <3>. QED  BY <3>1, <3>3
  <2>. QED  BY <1>3, <2>2, <2>5, <2>6, ConcatFromFiles DEF SearchInv, FromFiles
<1>. QED  BY <1>4, <1>5

\* Every request and a restart leave an index over the present chunks.
LEMMA StepSearch ==
  ASSUME FabricAssumption, SearchInv, [Next]_vars
  PROVE  SearchInv'
<1>0. Default \in Repo /\ Workspace \subseteq Repo /\ Default # None
  BY DEF FabricAssumption
<1>1. ASSUME NEW repo \in Repo, ScanPath(repo)
      PROVE  SearchInv'
  BY <1>1, ScanSearch DEF ScanPath
<1>2. ASSUME NEW repo \in Workspace, ScanClone(repo)
      PROVE  SearchInv'
  BY <1>0, <1>2, ScanSearch DEF ScanClone
<1>3. ASSUME NEW clone \in Workspace, NEW repo \in Repo, ScanFailedClone(clone, repo)
      PROVE  SearchInv'
  BY <1>0, <1>3, ScanSearch DEF ScanFailedClone
<1>4. EnsureRaw(raw, Default) \in Table /\ \A p \in Path :
        EnsureRaw(raw, Default)[p] \in {Default, raw[p]}
  BY <1>0, EnsureTypes DEF SearchInv
<1>5. CASE raw' = EnsureRaw(raw, Default) /\ semantic' \in {semantic, Search(semantic)}
  <2>1. semantic' \in Semantic /\ Indexed(semantic') /\ semantic'.chunks = semantic.chunks
    BY <1>5, SearchTypes DEF SearchInv
  <2>. QED  BY <1>0, <1>4, <1>5, <2>1, SameChunksSearch
<1>6. CASE UNCHANGED <<raw, semantic>>
  BY <1>6 DEF SearchInv, Indexed, FromFiles
<1>7. CASE AskDiscovery
  <2>1. raw' = IngestFiles(EnsureRaw(raw, Default), Default) /\ semantic' = semantic
    BY <1>7 DEF AskDiscovery, ReadyRaw
  <2>2. raw' \in Table /\ \A p \in Path : raw'[p] \in {Default, EnsureRaw(raw, Default)[p]}
    BY <1>0, <1>4, <2>1, IngestTypes
  <2>. QED  BY <1>0, <1>4, <2>1, <2>2, SameChunksSearch DEF SearchInv
<1>8. CASE GetRules \/ AskRules \/ AskAdvice \/ AskImpact \/ AskGraph
  BY <1>5, <1>8 DEF GetRules, AskRules, AskAdvice, AskImpact, AskGraph, ReadyRaw, HybridRetrieval
<1>9. CASE GetReadiness \/ UNCHANGED vars
  BY <1>6, <1>9 DEF GetReadiness, vars
<1>10. CASE Restart
  <2>1. raw' = NoFile /\ semantic' = NoChunk
    BY <1>10 DEF Restart
  <2>2. NoChunk \in Semantic /\ Indexed(NoChunk) /\ FromFiles(NoChunk, NoFile)
    BY EmptySeq DEF NoChunk, Semantic, Indexed, FromFiles
  <2>. QED  BY <2>1, <2>2, NoFileTypes DEF SearchInv
<1>. QED  BY <1>1, <1>2, <1>3, <1>7, <1>8, <1>9, <1>10, StatusSearch DEF Next, Ask

\* In every state of every session, a search that has chunks to score uses
\* the statistics of exactly these chunks, and each comes from a kept file,
\* although a scan clears the chunks and neither the index nor _fitted.
THEOREM SearchStaysCurrent == Spec => []SearchIsCurrent
<1>1. Init => SearchInv
  <2>1. NoChunk \in Semantic /\ Indexed(NoChunk) /\ FromFiles(NoChunk, NoFile)
    BY EmptySeq DEF NoChunk, Semantic, Indexed, FromFiles
  <2>. QED  BY <2>1, NoFileTypes DEF Init, SearchInv
<1>2. SearchInv /\ [Next]_vars => SearchInv'
  BY FabricAssumption, StepSearch
<1>3. SearchInv => SearchIsCurrent
  BY SearchTypes DEF SearchInv, SearchIsCurrent, FromFiles
<1>. QED  BY <1>1, <1>2, <1>3, PTL DEF Spec

---------------------------------------------------------------------------
(* The deliverables. *)

Folder == [File -> Repo \cup {None}]
Disk == [project : [Repo -> Folder], root : Folder]

\* A deliverable written into a project's folder is there, and nothing else
\* of the folder or of the dashboard changes.
LEMMA WriteProject ==
  ASSUME NEW d \in Disk, NEW f \in File, NEW name \in Repo, NEW app \in Repo
  PROVE  LET e == Write(d, <<"project", f>>, name, app)
         IN  /\ e \in Disk /\ e.root = d.root /\ e.project[name][f] = app
             /\ \A g \in File : g # f => e.project[name][g] = d.project[name][g]
<1>. DEFINE folder == [d.project[name] EXCEPT ![f] = app]
            e == [d EXCEPT !.project = [d.project EXCEPT ![name] = folder]]
<1>1. Write(d, <<"project", f>>, name, app) = e
  BY DEF Write
<1>2. folder \in Folder /\ folder[f] = app /\ \A g \in File : g # f => folder[g] = d.project[name][g]
  BY DEF Disk, Folder
<1>. HIDE DEF folder
<1>3. e \in Disk /\ e.root = d.root /\ e.project[name] = folder
  BY <1>2 DEF Disk
<1>. QED  BY <1>1, <1>2, <1>3

\* A deliverable copied to the dashboard is what the folder has of it.
LEMMA WriteRoot ==
  ASSUME NEW d \in Disk, NEW f \in File, NEW name \in Repo, NEW app \in Repo
  PROVE  LET e == Write(d, <<"root", f>>, name, app)
         IN  /\ e \in Disk /\ e.project = d.project /\ e.root[f] = d.project[name][f]
             /\ \A g \in File : g # f => e.root[g] = d.root[g]
<1>. DEFINE e == [d EXCEPT !.root = [d.root EXCEPT ![f] = d.project[name][f]]]
<1>1. Write(d, <<"root", f>>, name, app) = e
  BY DEF Write
<1>2. d.project[name][f] \in Repo \cup {None}
  BY DEF Disk, Folder
<1>3. e \in Disk /\ e.project = d.project /\ e.root[f] = d.project[name][f]
      /\ \A g \in File : g # f => e.root[g] = d.root[g]
  BY <1>2 DEF Disk, Folder
<1>. QED  BY <1>1, <1>3

\* What is written, one file after the other.
LEMMA WrittenSteps ==
  ASSUME NEW d, NEW name, NEW app
  PROVE  LET d1 == Write(d, Writes[1], name, app)
             d2 == Write(d1, Writes[2], name, app)
             d3 == Write(d2, Writes[3], name, app)
             d4 == Write(d3, Writes[4], name, app)
         IN  /\ Len(Writes) = 4
             /\ Written(d, 0, name, app) = d /\ Written(d, 1, name, app) = d1
             /\ Written(d, 2, name, app) = d2 /\ Written(d, 3, name, app) = d3
             /\ Written(d, 4, name, app) = d4
<1>. DEFINE d1 == Write(d, Writes[1], name, app)
            d2 == Write(d1, Writes[2], name, app)
            d3 == Write(d2, Writes[3], name, app)
            d4 == Write(d3, Writes[4], name, app)
            Made(h) == h = [k \in 0..4 |-> IF k = 0 THEN d ELSE Write(h[k - 1], Writes[k], name, app)]
            g == [k \in 0..4 |-> IF k = 0 THEN d ELSE IF k = 1 THEN d1 ELSE
                                 IF k = 2 THEN d2 ELSE IF k = 3 THEN d3 ELSE d4]
            made == CHOOSE h : Made(h)
<1>1. Len(Writes) = 4
  BY DEF Writes
<1>2. /\ g[0] = d /\ g[1] = d1 /\ g[2] = d2 /\ g[3] = d3 /\ g[4] = d4
      /\ g = [k \in 0..4 |-> g[k]]
  OBVIOUS
<1>3. \A k \in 0..4 : g[k] = IF k = 0 THEN d ELSE Write(g[k - 1], Writes[k], name, app)
  <2>1. \A k \in 0..4 : k = 0 \/ k = 1 \/ k = 2 \/ k = 3 \/ k = 4
    OBVIOUS
  <2>. HIDE DEF g
  <2>. QED  BY <1>2, <2>1
<1>4. Made(g)
  <2>. HIDE DEF g
  <2>. QED  BY <1>2, <1>3
<1>5. Made(made)
  BY <1>4
<1>6. \A k \in 0..4 : Written(d, k, name, app) = made[k]
  BY <1>1 DEF Written
<1>. HIDE DEF made
<1>7. made[0] = d
  BY <1>5
<1>8. made[1] = d1
  BY <1>5, <1>7
<1>9. made[2] = d2
  BY <1>5, <1>8
<1>10. made[3] = d3
  BY <1>5, <1>9
<1>11. made[4] = d4
  BY <1>5, <1>10
<1>. QED  BY <1>1, <1>6, <1>7, <1>8, <1>9, <1>10, <1>11

\* Writing any number of the deliverables leaves files of directories; when
\* all are written, the folder and the dashboard both have those of the scan.
LEMMA WrittenTypes ==
  ASSUME NEW d \in Disk, NEW name \in Repo, NEW app \in Repo, NEW n \in 0..Len(Writes)
  PROVE  /\ Written(d, n, name, app) \in Disk
         /\ n = Len(Writes) =>
              \A f \in File : /\ Written(d, n, name, app).root[f] = app
                              /\ Written(d, n, name, app).project[name][f] = app
<1>. DEFINE d1 == Write(d, <<"project", "graph">>, name, app)
            d2 == Write(d1, <<"root", "graph">>, name, app)
            d3 == Write(d2, <<"project", "report">>, name, app)
            d4 == Write(d3, <<"root", "report">>, name, app)
<1>1. /\ Len(Writes) = 4 /\ Written(d, 0, name, app) = d /\ Written(d, 1, name, app) = d1
      /\ Written(d, 2, name, app) = d2 /\ Written(d, 3, name, app) = d3
      /\ Written(d, 4, name, app) = d4
  BY WrittenSteps DEF Writes
<1>2. "graph" \in File /\ "report" \in File /\ \A f \in File : f = "graph" \/ f = "report"
  BY DEF File
<1>3. d1 \in Disk /\ d1.project[name]["graph"] = app
  BY <1>2, WriteProject
<1>. HIDE DEF d1
<1>4. d2 \in Disk /\ d2.project = d1.project /\ d2.root["graph"] = app
  BY <1>2, <1>3, WriteRoot
<1>. HIDE DEF d2
<1>5. /\ d3 \in Disk /\ d3.project[name]["graph"] = app /\ d3.project[name]["report"] = app
      /\ d3.root["graph"] = app
  BY <1>2, <1>3, <1>4, WriteProject
<1>. HIDE DEF d3
<1>6. /\ d4 \in Disk /\ d4.project = d3.project
      /\ d4.root["graph"] = app /\ d4.root["report"] = app
  BY <1>2, <1>5, WriteRoot
<1>. HIDE DEF d4
<1>7. n = 0 \/ n = 1 \/ n = 2 \/ n = 3 \/ n = 4
  BY <1>1
<1>. QED  BY <1>1, <1>2, <1>3, <1>4, <1>5, <1>6, <1>7

MirrorInv == disk \in Disk /\ MirrorIsWhole

\* A scan either completes, and the dashboard is of its project, or records
\* that it did not.
LEMMA ScanMirror ==
  ASSUME FabricAssumption, MirrorInv, NEW repo \in Repo, Scan(repo)
  PROVE  MirrorInv'
<1>1. ASSUME NEW n \in 0..Len(Writes), Deliver(repo, n)
      PROVE  MirrorInv'
  <2>1. disk' = Written(disk, n, Project[repo], repo) /\ Project[repo] \in Repo
    BY <1>1 DEF Deliver, FabricAssumption
  <2>2. disk' \in Disk /\ (n = Len(Writes) => \A f \in File : disk'.root[f] = repo)
    <3>. DEFINE w == Written(disk, n, Project[repo], repo)
    <3>1. disk' = w
      BY <2>1
    <3>2. disk \in Disk /\ Project[repo] \in Repo
      BY <2>1 DEF MirrorInv
    <3>3. w \in Disk /\ (n = Len(Writes) => \A f \in File : w.root[f] = repo)
      BY <3>2, WrittenTypes
    <3>. HIDE DEF w
    <3>. QED  BY <3>1, <3>3
  <2>3. last'.repo = repo /\ (last'.completed => n = Len(Writes))
    BY <1>1 DEF Deliver
  <2>. QED  BY <2>2, <2>3 DEF MirrorInv, MirrorIsWhole
<1>2. ASSUME NEW done, Stop(repo, done)
      PROVE  MirrorInv'
  <2>1. disk' = disk /\ last'.completed = FALSE
    BY <1>2 DEF Stop
  <2>. QED  BY <2>1 DEF MirrorInv, MirrorIsWhole
<1>. QED  BY <1>1, <1>2 DEF Scan

\* The dashboard only changes in a scan.
LEMMA StepMirror ==
  ASSUME FabricAssumption, MirrorInv, [Next]_vars
  PROVE  MirrorInv'
<1>0. Default \in Repo /\ Workspace \subseteq Repo
  BY DEF FabricAssumption
<1>1. CASE UNCHANGED <<disk, last>>
  BY <1>1 DEF MirrorInv, MirrorIsWhole
<1>2. CASE \E repo \in Repo : Scan(repo)
  BY <1>2, ScanMirror
<1>. QED  BY <1>0, <1>1, <1>2 DEF Next, Ask, ScanPath, ScanClone, ScanFailedClone, GetStatus,
      GetRules, GetReadiness, AskDiscovery, AskRules, AskAdvice, AskImpact, AskGraph, Restart, vars

\* In every state in which the last scan completed, whatever failed before it,
\* the graph and the reports of the dashboard are both of its directory.
THEOREM DashboardIsWhole == Spec => []MirrorIsWhole
<1>1. Init => MirrorInv
  <2>1. ASSUME Init PROVE disk \in Disk
    BY <2>1 DEF Init, Disk, Folder, NoDeliverable
  <2>. QED  BY <2>1 DEF Init, MirrorInv, MirrorIsWhole
<1>2. MirrorInv /\ [Next]_vars => MirrorInv'
  BY FabricAssumption, StepMirror
<1>3. MirrorInv => MirrorIsWhole
  BY DEF MirrorInv
<1>. QED  BY <1>1, <1>2, <1>3, PTL DEF Spec

---------------------------------------------------------------------------
(* Types, and what a completed scan repairs. *)

Symbols == [classes : Table, tables : Table, procedures : Table]

RestOK ==
  /\ present \subseteq Repo /\ Repo \ Workspace \subseteq present
  /\ structural \in Symbols /\ advice \subseteq Repo
  /\ last \in [repo : Repo \cup {None}, completed : BOOLEAN]

\* Parsing the files of a kind leaves a table.
LEMMA RegisteredTypes ==
  ASSUME NEW table \in Table, NEW files \in Table, NEW kind
  PROVE  Registered(table, files, kind) \in Table
  BY DEF Registered, Table

\* Parsing fills what is empty, or nothing.
LEMMA StructuralTypes ==
  ASSUME NEW t \in Symbols, NEW files \in Table
  PROVE  EnsureStructural(t, files) \in Symbols /\ ClearedSymbols(t) \in Symbols
<1>1. t.classes \in Table /\ t.tables \in Table /\ t.procedures \in Table
  BY DEF Symbols
<1>2. EnsureStructural(t, files) \in Symbols
  BY <1>1, RegisteredTypes DEF EnsureStructural, Symbols
<1>3. ClearedSymbols(t) \in Symbols
  BY <1>1, NoFileTypes DEF ClearedSymbols, Symbols
<1>. QED  BY <1>2, <1>3

\* A scan keeps the types of what the other invariants do not speak of.
LEMMA ScanRest ==
  ASSUME FabricAssumption, RestOK, SearchInv', GraphInv', NEW repo \in Repo,
         Scan(repo), present' \subseteq Repo, Repo \ Workspace \subseteq present'
  PROVE  RestOK'
<1>1. raw' \in Table /\ kg'.app \in Repo \cup {None}
  BY DEF SearchInv, GraphInv, Graph
<1>2. ClearedSymbols(structural) \in Symbols
  BY <1>1, StructuralTypes DEF RestOK
<1>3. EnsureStructural(ClearedSymbols(structural), raw') \in Symbols
  BY <1>1, <1>2, StructuralTypes
<1>4. ASSUME NEW n \in 0..Len(Writes), Deliver(repo, n)
      PROVE  RestOK'
  <2>1. structural' \in Symbols
    BY <1>3, <1>4 DEF Deliver
  <2>2. advice' \subseteq Repo
    BY <1>1, <1>4 DEF Deliver, RestOK, Advised
  <2>3. last' \in [repo : Repo \cup {None}, completed : BOOLEAN]
    <3>1. (n = Len(Writes)) \in BOOLEAN
      OBVIOUS
    <3>2. last' = [repo |-> repo, completed |-> n = Len(Writes)]
      BY <1>4 DEF Deliver
    <3>. QED  BY <3>1, <3>2
  <2>. QED  BY <2>1, <2>2, <2>3 DEF RestOK
<1>5. ASSUME NEW done, Stop(repo, done)
      PROVE  RestOK'
  <2>1. Only(raw', done) \in Table
    BY <1>1, OnlyTypes
  <2>2. EnsureStructural(ClearedSymbols(structural), Only(raw', done)) \in Symbols
    BY <1>2, <2>1, StructuralTypes
  <2>3. structural' \in Symbols
    BY <1>3, <1>5, <2>2 DEF Stop
  <2>4. last' \in [repo : Repo \cup {None}, completed : BOOLEAN] /\ advice' = advice
    BY <1>5 DEF Stop
  <2>. QED  BY <2>3, <2>4 DEF RestOK
<1>. QED  BY <1>4, <1>5 DEF Scan

\* So does every other request, and a restart.
LEMMA StepRest ==
  ASSUME FabricAssumption, RestOK, GraphInv, SearchInv', GraphInv', [Next]_vars
  PROVE  RestOK'
<1>0. Default \in Repo /\ Workspace \subseteq Repo /\ Default \notin Workspace
  BY DEF FabricAssumption
<1>1. ASSUME NEW repo \in Repo, ScanPath(repo)
      PROVE  RestOK'
  BY <1>1, ScanRest DEF ScanPath, RestOK
<1>2. ASSUME NEW repo \in Workspace, ScanClone(repo)
      PROVE  RestOK'
  BY <1>0, <1>2, ScanRest DEF ScanClone, RestOK
<1>3. ASSUME NEW clone \in Workspace, NEW repo \in Repo, ScanFailedClone(clone, repo)
      PROVE  RestOK'
  BY <1>0, <1>3, ScanRest DEF ScanFailedClone, RestOK
<1>4. kg.app \in Repo \cup {None} /\ kg'.app \in Repo \cup {None}
  BY DEF GraphInv, Graph
<1>5. Advised(kg) \subseteq Repo /\ Advised(kg') \subseteq Repo
  BY <1>4 DEF Advised, RestOK
<1>6. EnsureStructural(structural, raw') \in Symbols
  BY StructuralTypes DEF RestOK, SearchInv
<1>7. NoSymbol \in Symbols
  BY NoFileTypes DEF NoSymbol, Symbols
<1>8. CASE UNCHANGED <<present, last>> /\ structural' \in Symbols /\ advice' \subseteq Repo
  BY <1>8 DEF RestOK
<1>9. CASE GetStatus
  BY <1>6, <1>8, <1>9 DEF GetStatus, RestOK
<1>10. CASE Ask \/ GetRules \/ GetReadiness
  BY <1>5, <1>8, <1>10 DEF Ask, GetRules, GetReadiness, AskDiscovery, AskRules, AskAdvice,
     AskImpact, AskGraph, RestOK
<1>11. CASE Restart
  BY <1>7, <1>8, <1>11 DEF Restart, RestOK
<1>12. CASE UNCHANGED vars
  BY <1>12 DEF vars, RestOK
<1>. QED  BY <1>1, <1>2, <1>3, <1>9, <1>10, <1>11, <1>12 DEF Next

\* All of them together.
IInv == GraphInv /\ SearchInv /\ MirrorInv /\ RestOK

\* They hold together in every state.
LEMMA Inductive == Spec => []IInv
<1>1. Init => IInv
  <2>. SUFFICES ASSUME Init PROVE IInv
    OBVIOUS
  <2>1. GraphInv
    BY NoFileTypes DEF Init, GraphInv, Graph, Kept, NoGraph
  <2>2. SearchInv
    <3>1. NoChunk \in Semantic /\ Indexed(NoChunk) /\ FromFiles(NoChunk, NoFile)
      BY EmptySeq DEF NoChunk, Semantic, Indexed, FromFiles
    <3>. QED  BY <3>1, NoFileTypes DEF Init, SearchInv
  <2>3. MirrorInv
    <3>1. disk \in Disk
      BY DEF Init, Disk, Folder, NoDeliverable
    <3>. QED  BY <3>1 DEF Init, MirrorInv, MirrorIsWhole
  <2>4. RestOK
    BY NoFileTypes, FabricAssumption DEF Init, RestOK, NoSymbol, Symbols
  <2>. QED  BY <2>1, <2>2, <2>3, <2>4 DEF IInv
<1>2. IInv /\ [Next]_vars => IInv'
  BY FabricAssumption, StepKeeps, StepSearch, StepMirror, StepRest DEF IInv
<1>. QED  BY <1>1, <1>2, PTL DEF Spec

\* Every variable holds a value of its kind, in every state of every session.
THEOREM FabricTypes == Spec => []FabricTypeOK
<1>1. IInv => FabricTypeOK
  <2>. SUFFICES ASSUME IInv PROVE FabricTypeOK
    OBVIOUS
  <2>1. semantic \in [chunks : Seq([path : Path, repo : Repo]),
                      index : Seq([path : Path, repo : Repo]), fitted : BOOLEAN]
    BY DEF IInv, SearchInv, Semantic, Chunk
  <2>2. disk \in [project : [Repo -> [File -> Repo \cup {None}]],
                  root : [File -> Repo \cup {None}]]
    BY DEF IInv, MirrorInv, Disk, Folder
  <2>3. structural \in [classes : Table, tables : Table, procedures : Table]
    BY DEF IInv, RestOK, Symbols
  <2>. QED  BY <2>1, <2>2, <2>3 DEF IInv, GraphInv, Graph, RestOK, FabricTypeOK
<1>. QED  BY <1>1, Inductive, PTL

\* A completed scan of a directory that exists leaves only what it holds.
LEMMA ScanHolds ==
  ASSUME FabricAssumption, IInv, NEW repo \in Repo, repo \in present',
         Ingest(repo), Deliver(repo, Len(Writes))
  PROVE  Holding(repo)'
<1>0. Target(repo) = repo /\ Files(repo) = Holds[repo] /\ repo # None
  BY DEF Target, Files, FabricAssumption
<1>1. \A p \in Path : raw'[p] = IF p \in Holds[repo] THEN repo ELSE None
  <2>1. raw' = IngestFiles(EnsureRaw(NoFile, repo), repo)
    BY <1>0 DEF Ingest
  <2>2. EnsureRaw(NoFile, repo) = IngestFiles(NoFile, repo)
    BY DEF EnsureRaw
  <2>. QED  BY <1>0, <2>1, <2>2 DEF IngestFiles, NoFile
<1>2. /\ \A p \in Path : structural'.classes[p] \in {None, repo}
      /\ \A p \in Path : structural'.tables[p] \in {None, repo}
  <2>1. ClearedSymbols(structural) = [structural EXCEPT !.classes = NoFile, !.tables = NoFile]
    BY DEF ClearedSymbols
  <2>2. ClearedSymbols(structural).classes = NoFile /\ ClearedSymbols(structural).tables = NoFile
    BY <2>1 DEF IInv, RestOK, Symbols
  <2>3. structural' = EnsureStructural(ClearedSymbols(structural), raw')
    BY DEF Deliver
  <2>4. /\ structural'.classes = Registered(NoFile, raw', "java")
        /\ structural'.tables = Registered(NoFile, raw', "sql")
    BY <2>2, <2>3 DEF EnsureStructural
  <2>. QED  BY <1>1, <2>4 DEF Registered, NoFile
<1>3. kg'.app = repo /\ \A p \in Path : kg'.cites[p] \in {None, repo}
  <2>. DEFINE cites == [p \in Path |-> IF Kind[p] = "other" THEN None ELSE raw'[p]]
              g == [app |-> repo, risks |-> {}, cites |-> cites]
  <2>1. kg' = Inject(g, raw')
    BY DEF Deliver, Built
  <2>2. Inject(g, raw') = [g EXCEPT !.risks = g.risks \cup Detected(raw')]
    BY <1>0 DEF Inject
  <2>3. kg'.app = repo /\ kg'.cites = cites
    <3>. HIDE DEF cites
    <3>. QED  BY <2>1, <2>2
  <2>. QED  BY <1>1, <2>3
<1>4. \A i \in DOMAIN semantic'.chunks : semantic'.chunks[i].repo = repo
  <2>1. semantic'.chunks = Docs(repo) \o Docs(repo)
    BY <1>0, ScanChunks DEF IInv
  <2>2. Docs(repo) \in Seq(Chunk) /\ \A i \in DOMAIN Docs(repo) : Docs(repo)[i].repo = repo
    BY DocsTypes
  <2>3. Len(Docs(repo)) \in Nat /\ DOMAIN Docs(repo) = 1..Len(Docs(repo))
        /\ Docs(repo) \o Docs(repo) \in Seq(Chunk)
        /\ Len(Docs(repo) \o Docs(repo)) = Len(Docs(repo)) + Len(Docs(repo))
    BY <2>2, ConcatProperties, LenProperties
  <2>4. DOMAIN semantic'.chunks = 1..(Len(Docs(repo)) + Len(Docs(repo)))
    BY <2>1, <2>3, LenProperties
  <2>5. \A i \in DOMAIN semantic'.chunks :
          \E j \in DOMAIN Docs(repo) : semantic'.chunks[i] = Docs(repo)[j]
    <3>. SUFFICES ASSUME NEW i \in 1..(Len(Docs(repo)) + Len(Docs(repo)))
                  PROVE  \E j \in DOMAIN Docs(repo) : (Docs(repo) \o Docs(repo))[i] = Docs(repo)[j]
      BY <2>1, <2>4
    <3>1. (Docs(repo) \o Docs(repo))[i] =
            IF i <= Len(Docs(repo)) THEN Docs(repo)[i] ELSE Docs(repo)[i - Len(Docs(repo))]
      BY <2>2, ConcatProperties
    <3>. QED  BY <2>3, <3>1
  <2>. QED  BY <2>2, <2>5
<1>5. \A f \in File : disk'.project[Project[repo]][f] = repo
  <2>1. Len(Writes) \in 0..Len(Writes)
    BY DEF Writes
  <2>2. disk' = Written(disk, Len(Writes), Project[repo], repo)
    BY DEF Deliver
  <2>3. Project[repo] \in Repo /\ disk \in Disk
    BY DEF FabricAssumption, IInv, MirrorInv
  <2>4. ASSUME NEW n \in 0..Len(Writes), n = Len(Writes)
        PROVE  \A f \in File : Written(disk, n, Project[repo], repo).project[Project[repo]][f] = repo
    BY <2>3, <2>4, WrittenTypes
  <2>. QED  BY <2>1, <2>2, <2>4
<1>. QED  BY <1>1, <1>2, <1>3, <1>4, <1>5 DEF Holding

\* From every state a session can reach, through any failures and restarts, a
\* completed scan of a directory that exists leaves nothing of another
\* repository in the memory, in the graph or in the project's folder.
THEOREM ScansRepair == Spec => ScanRepairs
<1>1. IInv /\ IInv' /\ [Next]_vars =>
        [\A repo \in present' :
           last' = [repo |-> repo, completed |-> TRUE] /\ Ingest(repo) /\ Deliver(repo, Len(Writes))
             => Holding(repo)']_vars
  <2>. SUFFICES ASSUME IInv, IInv', NEW repo \in present', Ingest(repo),
                       Deliver(repo, Len(Writes))
                PROVE  Holding(repo)'
    OBVIOUS
  <2>1. repo \in Repo
    BY DEF IInv, RestOK
  <2>. QED  BY <2>1, FabricAssumption, ScanHolds
<1>2. Spec => [][Next]_vars
  BY DEF Spec
<1>. QED  BY <1>1, <1>2, Inductive, PTL DEF ScanRepairs

-------------------------------------------------------------------------------
(***************************************************************************)
(* Induction over the natural numbers, for a set.                           *)
(***************************************************************************)
LEMMA Induction ==
  ASSUME NEW S, 0 \in S, \A n \in Nat : n \in S => n + 1 \in S
  PROVE  \A n \in Nat : n \in S
<1>. DEFINE T == {n \in Nat : n \notin S}
<1>1. CASE T = {}
  BY <1>1
<1>2. CASE T # {}
  <2>1. PICK n \in T : \A m \in T : ~(<<m, n>> \in OpToRel(<, Nat))
    <3>1. T \subseteq Nat
      OBVIOUS
    <3>. HIDE DEF T
    <3>. QED  BY <1>2, <3>1, NatLessThanWellFounded, WFMin
  <2>2. n \in Nat /\ n # 0 /\ n \notin S
    BY <2>1
  <2>3. n - 1 \in Nat /\ n - 1 < n /\ (n - 1) + 1 = n
    BY <2>2
  <2>4. n - 1 \notin T
    BY <2>1, <2>2, <2>3 DEF OpToRel
  <2>. QED  BY <2>2, <2>3, <2>4
<1>. QED  BY <1>1, <1>2

-------------------------------------------------------------------------------
(***************************************************************************)
(* Walks.  The balls around a node exist, each is the one before it and     *)
(* what that has edges to.                                                  *)
(***************************************************************************)
Spread(graph, ball) == ball \cup {m \in graph.node : \E n \in ball : <<n, m>> \in graph.edge}

Balls(graph, from, b, k) ==
  b = [i \in 0..k |-> IF i = 0 THEN {from}
         ELSE b[i - 1] \cup {m \in graph.node : \E n \in b[i - 1] : <<n, m>> \in graph.edge}]

LEMMA BallsExist ==
  ASSUME NEW graph, NEW from
  PROVE  \A k \in Nat : \E b : Balls(graph, from, b, k)
<1>. DEFINE S == {k \in Nat : \E b : Balls(graph, from, b, k)}
<1>1. 0 \in S
  <2>1. Balls(graph, from, [i \in 0..0 |-> {from}], 0)
    BY DEF Balls
  <2>. QED  BY <2>1
<1>2. ASSUME NEW k \in Nat, k \in S
      PROVE  k + 1 \in S
  <2>1. PICK b : Balls(graph, from, b, k)
    BY <1>2
  <2>. DEFINE c == [i \in 0..(k + 1) |-> IF i = k + 1 THEN Spread(graph, b[k]) ELSE b[i]]
  <2>2. ASSUME NEW i \in 0..(k + 1)
        PROVE  c[i] = IF i = 0 THEN {from}
                      ELSE c[i - 1] \cup {m \in graph.node : \E n \in c[i - 1] : <<n, m>> \in graph.edge}
    <3>1. CASE i = 0
      BY <2>1, <3>1 DEF Balls
    <3>2. CASE i = k + 1
      <4>1. c[i] = Spread(graph, b[k]) /\ c[i - 1] = b[k] /\ i # 0
        BY <3>2
      <4>. QED  BY <4>1 DEF Spread
    <3>3. CASE i # 0 /\ i # k + 1
      <4>1. i \in 0..k /\ i - 1 \in 0..k
        BY <3>3
      <4>2. c[i] = b[i] /\ c[i - 1] = b[i - 1]
        BY <4>1
      <4>3. b[i] = b[i - 1] \cup {m \in graph.node : \E n \in b[i - 1] : <<n, m>> \in graph.edge}
        BY <2>1, <3>3, <4>1 DEF Balls
      <4>. QED  BY <3>3, <4>2, <4>3
    <3>. QED  BY <3>1, <3>2, <3>3
  <2>3. c = [i \in 0..(k + 1) |-> IF i = 0 THEN {from}
              ELSE c[i - 1] \cup {m \in graph.node : \E n \in c[i - 1] : <<n, m>> \in graph.edge}]
    BY <2>2
  <2>4. Balls(graph, from, c, k + 1)
    BY <2>3 DEF Balls
  <2>. QED  BY <2>4
<1>. HIDE DEF S
<1>3. \A k \in Nat : k \in S
  BY <1>1, <1>2, Induction
<1>. QED  BY <1>3 DEF S

LEMMA WithinBalls ==
  ASSUME NEW graph, NEW from, NEW k \in Nat
  PROVE  \E b : Balls(graph, from, b, k) /\ Within(graph, from, k) = b[k]
<1>. DEFINE b == CHOOSE b : Balls(graph, from, b, k)
<1>1. Balls(graph, from, b, k)
  BY BallsExist
<1>2. Within(graph, from, k) = b[k]
  BY DEF Within, Balls
<1>. QED  BY <1>1, <1>2

LEMMA BallSpreads ==
  ASSUME NEW graph, NEW from, NEW k \in Nat, NEW b, Balls(graph, from, b, k), NEW i \in Nat, i < k
  PROVE  b[i + 1] = Spread(graph, b[i])
<1>1. i + 1 \in 0..k /\ i + 1 # 0 /\ (i + 1) - 1 = i
  OBVIOUS
<1>. DEFINE j == i + 1
<1>2. b[j] = IF j = 0 THEN {from}
             ELSE b[j - 1] \cup {m \in graph.node : \E n \in b[j - 1] : <<n, m>> \in graph.edge}
  <2>1. j \in 0..k
    BY <1>1
  <2>. HIDE DEF j
  <2>. QED  BY <2>1 DEF Balls
<1>. QED  BY <1>1, <1>2 DEF Spread

\* Balls of the same centre agree as far as both go.
LEMMA BallsAgree ==
  ASSUME NEW graph, NEW from, NEW k \in Nat, NEW l \in Nat, k <= l, NEW b, NEW c,
         Balls(graph, from, b, k), Balls(graph, from, c, l)
  PROVE  \A i \in 0..k : b[i] = c[i]
<1>. DEFINE S == {i \in Nat : i <= k => b[i] = c[i]}
<1>1. 0 \in S
  BY DEF Balls
<1>2. ASSUME NEW i \in Nat, i \in S
      PROVE  i + 1 \in S
  <2>1. SUFFICES ASSUME i + 1 <= k PROVE b[i + 1] = c[i + 1]
    OBVIOUS
  <2>2. i + 1 \in 0..k /\ i + 1 \in 0..l /\ i + 1 # 0 /\ (i + 1) - 1 = i /\ i < k /\ i < l
    BY <2>1
  <2>3. b[i + 1] = Spread(graph, b[i])
    BY <2>2, BallSpreads
  <2>4. c[i + 1] = Spread(graph, c[i])
    BY <2>2, BallSpreads
  <2>5. b[i] = c[i]
    BY <1>2, <2>1
  <2>. QED  BY <2>3, <2>4, <2>5
<1>. HIDE DEF S
<1>3. \A i \in Nat : i \in S
  BY <1>1, <1>2, Induction
<1>. QED  BY <1>3 DEF S

LEMMA WithinNone ==
  ASSUME NEW graph, NEW from
  PROVE  Within(graph, from, 0) = {from}
BY WithinBalls DEF Balls

LEMMA WithinNext ==
  ASSUME NEW graph, NEW from, NEW k \in Nat
  PROVE  Within(graph, from, k + 1) = Spread(graph, Within(graph, from, k))
<1>1. k + 1 \in Nat /\ k <= k + 1 /\ k + 1 # 0 /\ (k + 1) - 1 = k /\ k \in 0..k /\ k < k + 1
  OBVIOUS
<1>2. PICK b : Balls(graph, from, b, k) /\ Within(graph, from, k) = b[k]
  BY WithinBalls
<1>3. PICK c : Balls(graph, from, c, k + 1) /\ Within(graph, from, k + 1) = c[k + 1]
  BY <1>1, WithinBalls
<1>4. b[k] = c[k]
  BY <1>1, <1>2, <1>3, BallsAgree
<1>5. c[k + 1] = Spread(graph, c[k])
  BY <1>1, <1>3, BallSpreads
<1>. QED  BY <1>2, <1>3, <1>4, <1>5

\* A graph, finite, of which one node is asked for.
IsGraph(graph) == IsFiniteSet(graph.node) /\ graph.edge \subseteq graph.node \X graph.node

\* A set nothing leads out of.
Closed(graph, set) == \A e \in graph.edge : e[1] \in set => e[2] \in set

\* A wider ball holds the narrower ones.
LEMMA WithinGrows ==
  ASSUME NEW graph, NEW from, NEW k \in Nat, NEW l \in Nat, k <= l
  PROVE  Within(graph, from, k) \subseteq Within(graph, from, l)
<1>. DEFINE S == {i \in Nat : Within(graph, from, k) \subseteq Within(graph, from, k + i)}
<1>1. 0 \in S
  OBVIOUS
<1>2. ASSUME NEW i \in Nat, i \in S
      PROVE  i + 1 \in S
  <2>1. k + i \in Nat /\ k + (i + 1) = (k + i) + 1
    OBVIOUS
  <2>2. Within(graph, from, k + (i + 1)) = Spread(graph, Within(graph, from, k + i))
    BY <2>1, WithinNext
  <2>. QED  BY <1>2, <2>2 DEF Spread
<1>. HIDE DEF S
<1>3. \A i \in Nat : i \in S
  BY <1>1, <1>2, Induction
<1>4. l - k \in Nat /\ k + (l - k) = l
  OBVIOUS
<1>. QED  BY <1>3, <1>4 DEF S

\* Balls are sets of nodes, and of the nodes of every closed set with the centre.
LEMMA WithinClosed ==
  ASSUME NEW graph, NEW from, NEW k \in Nat, NEW C, from \in C,
         Closed(graph, C)
  PROVE  Within(graph, from, k) \subseteq C
<1>. DEFINE S == {i \in Nat : Within(graph, from, i) \subseteq C}
<1>1. 0 \in S
  BY WithinNone
<1>2. ASSUME NEW i \in Nat, i \in S
      PROVE  i + 1 \in S
  <2>1. ASSUME NEW n \in Within(graph, from, i), NEW m, <<n, m>> \in graph.edge
        PROVE  m \in C
    <3>1. <<n, m>>[1] = n /\ <<n, m>>[2] = m
      OBVIOUS
    <3>. QED  BY <1>2, <2>1, <3>1 DEF Closed
  <2>2. Spread(graph, Within(graph, from, i)) \subseteq C
    BY <1>2, <2>1 DEF Spread
  <2>. QED  BY <2>2, WithinNext
<1>3. \A i \in Nat : i \in S
  <2>. HIDE DEF S
  <2>. QED  BY <1>1, <1>2, Induction
<1>. QED  BY <1>3

LEMMA WithinNodes ==
  ASSUME NEW graph, IsGraph(graph), NEW from \in graph.node, NEW k \in Nat
  PROVE  /\ Within(graph, from, k) \subseteq graph.node
         /\ IsFiniteSet(Within(graph, from, k))
         /\ Cardinality(Within(graph, from, k)) \in 0..Cardinality(graph.node)
         /\ from \in Within(graph, from, k)
<1>1. Within(graph, from, k) \subseteq graph.node
  BY WithinClosed DEF IsGraph, Closed
<1>2. from \in Within(graph, from, k)
  BY WithinNone, WithinGrows
<1>. QED  BY <1>1, <1>2, FS_Subset, FS_CardinalityType DEF IsGraph

-------------------------------------------------------------------------------
(***************************************************************************)
(* A ball of as many hops as there are nodes is closed: until then each one *)
(* has a node more than the one before.                                     *)
(***************************************************************************)
LEMMA WithinFills ==
  ASSUME NEW graph, IsGraph(graph), NEW from \in graph.node
  PROVE  Closed(graph, Within(graph, from, Cardinality(graph.node)))
<1>. DEFINE Full(k) == Closed(graph, Within(graph, from, k))
            S == {k \in Nat : Full(k) \/ Cardinality(Within(graph, from, k)) > k}
<1>1. 0 \in S
  <2>1. Cardinality({from}) = 1
    BY FS_Singleton
  <2>. QED  BY <2>1, WithinNone
<1>2. ASSUME NEW k \in Nat, k \in S
      PROVE  k + 1 \in S
  <2>. DEFINE ball == Within(graph, from, k)
              next == Within(graph, from, k + 1)
  <2>1. next = Spread(graph, ball) /\ k + 1 \in Nat
    BY WithinNext
  <2>2. ball \subseteq next
    BY <2>1 DEF Spread
  <2>3. /\ next \subseteq graph.node /\ IsFiniteSet(ball) /\ IsFiniteSet(next)
        /\ Cardinality(ball) \in Nat /\ Cardinality(next) \in Nat
    BY <2>1, WithinNodes, FS_CardinalityType
  <2>4. CASE next = ball
    <3>1. Closed(graph, ball)
      <4>. SUFFICES ASSUME NEW e \in graph.edge, e[1] \in ball PROVE e[2] \in ball
        BY DEF Closed
      <4>1. e[2] \in graph.node /\ e = <<e[1], e[2]>>
        BY DEF IsGraph
      <4>2. e[2] \in Spread(graph, ball)
        BY <4>1 DEF Spread
      <4>. QED  BY <2>1, <2>4, <4>2
    <3>. QED  BY <2>4, <3>1
  <2>5. CASE next # ball /\ Full(k)
    <3>1. next \subseteq ball
      <4>. SUFFICES ASSUME NEW n \in ball, NEW m, <<n, m>> \in graph.edge PROVE m \in ball
        BY <2>1 DEF Spread
      <4>1. <<n, m>>[1] = n /\ <<n, m>>[2] = m
        OBVIOUS
      <4>. QED  BY <2>5, <4>1 DEF Closed
    <3>. QED  BY <2>2, <2>5, <3>1
  <2>6. CASE next # ball /\ Cardinality(ball) > k
    <3>1. Cardinality(ball) <= Cardinality(next) /\ Cardinality(ball) # Cardinality(next)
      BY <2>2, <2>3, <2>6, FS_Subset
    <3>2. Cardinality(next) > k + 1
      BY <2>3, <2>6, <3>1
    <3>. QED  BY <3>2
  <2>. QED  BY <1>2, <2>4, <2>5, <2>6
<1>. HIDE DEF S
<1>3. Cardinality(graph.node) \in Nat
  BY FS_CardinalityType DEF IsGraph
<1>4. Cardinality(graph.node) \in S
  BY <1>1, <1>2, <1>3, Induction
<1>5. Cardinality(Within(graph, from, Cardinality(graph.node))) \in 0..Cardinality(graph.node)
  BY <1>3, WithinNodes
<1>. QED  BY <1>3, <1>4, <1>5 DEF S

-------------------------------------------------------------------------------
(***************************************************************************)
(* The search: what is known after each turn of the loop.                   *)
(*  - In the queue the hops do not decrease, and nobody is more than one    *)
(*    hop further than the first of it.                                     *)
(*  - Who was visited is as near as it says.                                *)
(*  - Who has left the queue has all its successors visited, at most one    *)
(*    hop further, unless it is at the maximal depth.                       *)
(***************************************************************************)
Visited(s) == DOMAIN s.hops

Waiting(s, n) == \E i \in 1..Len(s.queue) : s.queue[i] = n

Left(graph, maxDepth, s, n) ==
  ~Waiting(s, n) /\ s.hops[n] < maxDepth =>
    \A m \in Successors(graph, n) : m \in Visited(s) /\ s.hops[m] <= s.hops[n] + 1

SearchTyped(graph, target, maxDepth, s) ==
  /\ s.queue \in Seq(Visited(s))
  /\ Visited(s) \subseteq graph.node /\ target \in Visited(s) /\ s.hops[target] = 0
  /\ \A n \in Visited(s) : s.hops[n] \in 0..maxDepth

QueueOrdered(s) ==
  \A i \in 1..Len(s.queue) :
    /\ \A j \in 1..Len(s.queue) : i <= j => s.hops[s.queue[i]] <= s.hops[s.queue[j]]
    /\ \A n \in Visited(s) : s.hops[n] <= s.hops[s.queue[i]] + 1

SearchOK(graph, target, maxDepth, s) ==
  /\ SearchTyped(graph, target, maxDepth, s)
  /\ QueueOrdered(s)
  /\ \A n \in Visited(s) :
       n \in Within(graph, target, s.hops[n]) /\ Left(graph, maxDepth, s, n)

\* After so many turns, unless the loop has ended.
Counted(s, turns) == s.queue # <<>> => Cardinality(Visited(s)) = turns + Len(s.queue)

\* The head of a queue is taken, others are appended.
LEMMA TailThen ==
  ASSUME NEW S, NEW q \in Seq(S), q # <<>>, NEW new \in Seq(S)
  PROVE  LET t == Tail(q) \o new
             L == Len(q) - 1
         IN /\ L \in Nat /\ Len(t) = L + Len(new) /\ t \in Seq(S)
            /\ \A i \in 1..L : t[i] = q[i + 1]
            /\ \A i \in 1..Len(new) : t[L + i] = new[i]
<1>1. Len(q) \in Nat /\ Len(q) # 0 /\ Len(new) \in Nat
  BY LenProperties, EmptySeq
<1>2. Tail(q) \in Seq(S) /\ Len(Tail(q)) = Len(q) - 1 /\ \A i \in 1..(Len(q) - 1) : Tail(q)[i] = q[i + 1]
  BY HeadTailProperties
<1>. DEFINE r == Tail(q)
<1>. HIDE DEF r
<1>3. /\ r \o new \in Seq(S) /\ Len(r \o new) = Len(r) + Len(new)
      /\ \A i \in 1..(Len(r) + Len(new)) :
           (r \o new)[i] = IF i <= Len(r) THEN r[i] ELSE new[i - Len(r)]
  BY <1>2, ConcatProperties DEF r
<1>4. Len(r) = Len(q) - 1 /\ Len(r) \in Nat
  BY <1>1, <1>2 DEF r
<1>5. \A i \in 1..Len(r) : (r \o new)[i] = r[i]
  BY <1>1, <1>3, <1>4
<1>6. ASSUME NEW i \in 1..Len(new)
      PROVE  (r \o new)[Len(r) + i] = new[i]
  <2>1. Len(r) + i \in 1..(Len(r) + Len(new)) /\ ~(Len(r) + i <= Len(r)) /\ (Len(r) + i) - Len(r) = i
    BY <1>1, <1>4
  <2>. QED  BY <1>3, <2>1
<1>. QED  BY <1>2, <1>3, <1>4, <1>5, <1>6 DEF r

(***************************************************************************)
(* A turn of the loop keeps what is known.                                  *)
(***************************************************************************)
LEMMA VisitKeeps ==
  ASSUME NEW graph, IsGraph(graph), NEW target \in graph.node, NEW maxDepth \in Nat,
         NEW s, SearchOK(graph, target, maxDepth, s), NEW turns \in Nat, Counted(s, turns),
         s.queue # <<>>
  PROVE  LET t == Visit(graph, maxDepth, s)
         IN SearchOK(graph, target, maxDepth, t) /\ Counted(t, turns + 1)
<1>. DEFINE q == s.queue
            h == s.hops
            D == Visited(s)
            curr == Head(q)
            depth == h[curr]
            found == IF depth >= maxDepth THEN {} ELSE Successors(graph, curr) \ D
            new == SetToSeq(found)
            t == Visit(graph, maxDepth, s)
<1>1. /\ q \in Seq(D) /\ Len(q) \in Nat /\ 1 <= Len(q) /\ curr = q[1] /\ curr \in D
      /\ \A i \in 1..Len(q) : q[i] \in D
      /\ D \subseteq graph.node /\ target \in D /\ h[target] = 0
      /\ \A n \in D : h[n] \in 0..maxDepth
  <2>1. /\ q \in Seq(D) /\ D \subseteq graph.node /\ target \in D /\ h[target] = 0
        /\ \A n \in D : h[n] \in 0..maxDepth
    BY DEF SearchOK, SearchTyped
  <2>. HIDE DEF q, D, h
  <2>2. Len(q) \in Nat /\ 1 <= Len(q) /\ curr = q[1] /\ \A i \in 1..Len(q) : q[i] \in D
    BY <2>1 DEF q
  <2>. QED  BY <2>1, <2>2
<1>2. depth \in 0..maxDepth /\ depth \in Nat
  BY <1>1
<1>3. /\ found \subseteq graph.node /\ found \cap D = {} /\ IsFiniteSet(found)
      /\ found # {} => depth < maxDepth
      /\ \A m \in found : <<curr, m>> \in graph.edge
  <2>1. /\ found \subseteq graph.node /\ found \cap D = {}
        /\ found # {} => depth < maxDepth
        /\ \A m \in found : <<curr, m>> \in graph.edge
    <3>. HIDE DEF depth, curr, D
    <3>1. CASE depth >= maxDepth
      <4>1. found = {}
        BY <3>1
      <4>. HIDE DEF found
      <4>. QED  BY <4>1
    <3>2. CASE ~(depth >= maxDepth)
      <4>1. found = Successors(graph, curr) \ D /\ depth < maxDepth
        BY <1>2, <3>2
      <4>. HIDE DEF found
      <4>. QED  BY <4>1 DEF Successors
    <3>. QED  BY <3>1, <3>2
  <2>. HIDE DEF found
  <2>. QED  BY <2>1, FS_Subset DEF IsGraph
<1>4. /\ new \in Seq(found) /\ Len(new) = Cardinality(found) /\ Len(new) \in Nat
      /\ \A i \in 1..Len(new) : new[i] \in found
      /\ \A m \in found : \E i \in 1..Len(new) : new[i] = m
  <2>. HIDE DEF found
  <2>. QED  BY <1>3, SetToSeqOnto, LenProperties
<1>5. /\ t.queue = Tail(q) \o new
      /\ t.hops = [n \in D \cup found |-> IF n \in found THEN depth + 1 ELSE h[n]]
  BY DEF Visit, Visited
<1>6. Visited(t) = D \cup found
  BY <1>5 DEF Visited
<1>7. /\ \A n \in D : t.hops[n] = h[n]
      /\ \A n \in found : t.hops[n] = depth + 1
  BY <1>3, <1>5
<1>. DEFINE L == Len(q) - 1
<1>8. /\ L \in Nat /\ Len(t.queue) = L + Len(new) /\ t.queue \in Seq(Visited(t))
      /\ \A i \in 1..L : t.queue[i] = q[i + 1]
      /\ \A i \in 1..Len(new) : t.queue[L + i] = new[i]
  <2>. HIDE DEF found, new
  <2>1. q \in Seq(D \cup found) /\ new \in Seq(D \cup found)
    BY <1>1, <1>4
  <2>. HIDE DEF q, D, t
  <2>2. q # <<>>
    BY DEF q
  <2>. QED  BY <1>5, <1>6, <2>1, <2>2, TailThen
<1>9. ASSUME NEW i \in 1..Len(t.queue)
      PROVE  \/ i \in 1..L /\ t.queue[i] = q[i + 1] /\ q[i + 1] \in D /\ i + 1 \in 1..Len(q)
                           /\ t.hops[t.queue[i]] = h[q[i + 1]]
             \/ i \notin 1..L /\ i > L /\ t.queue[i] \in found /\ t.hops[t.queue[i]] = depth + 1
  <2>. HIDE DEF found, new, t, q, h, D, L, depth
  <2>0. i \in Int /\ 1 <= i /\ L \in Nat /\ Len(q) = L + 1
    BY <1>1, <1>8 DEF L
  <2>1. CASE i <= L
    <3>1. i \in 1..L /\ i + 1 \in 1..Len(q)
      BY <2>0, <2>1
    <3>. QED  BY <1>1, <1>7, <1>8, <3>1
  <2>2. CASE i > L
    <3>1. i - L \in 1..Len(new) /\ L + (i - L) = i
      BY <1>4, <1>8, <2>0, <2>2
    <3>2. t.queue[i] = new[i - L]
      BY <1>8, <3>1
    <3>. QED  BY <1>4, <1>7, <2>0, <2>2, <3>1, <3>2
  <2>. QED  BY <2>0, <2>1, <2>2
<1>10. /\ \A i, j \in 1..Len(q) : i <= j => h[q[i]] <= h[q[j]]
       /\ \A n \in D : h[n] <= depth + 1
       /\ \A i \in 1..Len(q) : h[q[i]] \in Nat /\ depth <= h[q[i]]
  <2>1. QueueOrdered(s)
    BY DEF SearchOK
  <2>2. /\ \A i, j \in 1..Len(q) : i <= j => h[q[i]] <= h[q[j]]
        /\ \A i \in 1..Len(q) : \A n \in D : h[n] <= h[q[i]] + 1
    BY <2>1 DEF QueueOrdered
  <2>3. 1 \in 1..Len(q) /\ \A i \in 1..Len(q) : 1 <= i
    BY <1>1
  <2>. HIDE DEF D
  <2>. QED  BY <1>1, <2>2, <2>3
<1>11. SearchTyped(graph, target, maxDepth, t)
  <2>1. ASSUME NEW n \in Visited(t)
        PROVE  t.hops[n] \in 0..maxDepth
    <3>. HIDE DEF found, t, depth
    <3>1. CASE n \in D
      BY <1>1, <1>7, <3>1
    <3>2. CASE n \in found
      <4>1. depth < maxDepth /\ t.hops[n] = depth + 1
        BY <1>3, <1>7, <3>2
      <4>. QED  BY <1>2, <4>1
    <3>. QED  BY <1>6, <3>1, <3>2
  <2>2. t.hops[target] = 0
    BY <1>1, <1>7
  <2>. QED  BY <1>1, <1>3, <1>6, <1>8, <2>1, <2>2 DEF SearchTyped
<1>12. QueueOrdered(t)
  <2>. SUFFICES ASSUME NEW i \in 1..Len(t.queue)
                PROVE  /\ \A j \in 1..Len(t.queue) : i <= j => t.hops[t.queue[i]] <= t.hops[t.queue[j]]
                       /\ \A n \in Visited(t) : t.hops[n] <= t.hops[t.queue[i]] + 1
    BY DEF QueueOrdered
  <2>. HIDE DEF found, new, D, q, h, t, curr
  <2>1. ASSUME NEW j \in 1..Len(t.queue), i <= j
        PROVE  t.hops[t.queue[i]] <= t.hops[t.queue[j]]
    <3>1. CASE j \in 1..L
      <4>1. i \in 1..L
        BY <1>8, <2>1, <3>1
      <4>2. i + 1 \in 1..Len(q) /\ j + 1 \in 1..Len(q) /\ i + 1 <= j + 1
        BY <1>1, <2>1, <3>1, <4>1
      <4>3. t.hops[t.queue[i]] = h[q[i + 1]] /\ t.hops[t.queue[j]] = h[q[j + 1]]
        BY <1>9, <3>1, <4>1
      <4>. QED  BY <1>10, <4>2, <4>3
    <3>2. CASE j \notin 1..L
      <4>1. t.hops[t.queue[j]] = depth + 1
        BY <1>9, <3>2
      <4>2. t.hops[t.queue[i]] <= depth + 1
        <5>1. CASE i \in 1..L
          BY <1>9, <1>10, <5>1
        <5>2. CASE i \notin 1..L
          BY <1>2, <1>9, <5>2
        <5>. QED  BY <5>1, <5>2
      <4>. QED  BY <4>1, <4>2
    <3>. QED  BY <3>1, <3>2
  <2>2. ASSUME NEW n \in Visited(t)
        PROVE  t.hops[n] <= t.hops[t.queue[i]] + 1
    <3>1. t.hops[n] <= depth + 1
      BY <1>2, <1>6, <1>7, <1>10
    <3>2. t.hops[n] \in Nat
      BY <1>11 DEF SearchTyped
    <3>3. depth <= t.hops[t.queue[i]] /\ t.hops[t.queue[i]] \in Nat
      <4>1. CASE i \in 1..L
        <5>1. t.hops[t.queue[i]] = h[q[i + 1]] /\ i + 1 \in 1..Len(q)
          BY <1>9, <4>1
        <5>. QED  BY <1>10, <5>1
      <4>2. CASE i \notin 1..L
        <5>1. t.hops[t.queue[i]] = depth + 1
          BY <1>9, <4>2
        <5>. QED  BY <1>2, <5>1
      <4>. QED  BY <4>1, <4>2
    <3>. QED  BY <1>2, <3>1, <3>2, <3>3
  <2>. QED  BY <2>1, <2>2
<1>13. ASSUME NEW n \in Visited(t)
       PROVE  n \in Within(graph, target, t.hops[n])
  <2>0. \A m \in D : m \in Within(graph, target, h[m])
    BY DEF SearchOK
  <2>1. CASE n \in D
    BY <1>7, <2>0, <2>1
  <2>2. CASE n \in found
    <3>1. curr \in Within(graph, target, depth) /\ <<curr, n>> \in graph.edge /\ n \in graph.node
      BY <1>1, <1>3, <2>0, <2>2
    <3>2. n \in Spread(graph, Within(graph, target, depth))
      BY <3>1 DEF Spread
    <3>. QED  BY <1>2, <1>7, <2>2, <3>2, WithinNext
  <2>. QED  BY <1>6, <2>1, <2>2
<1>14. ASSUME NEW n \in Visited(t)
       PROVE  Left(graph, maxDepth, t, n)
  <2>. SUFFICES ASSUME ~Waiting(t, n), t.hops[n] < maxDepth, NEW m \in Successors(graph, n)
                PROVE  m \in Visited(t) /\ t.hops[m] <= t.hops[n] + 1
    BY DEF Left
  <2>1. n \notin found
    <3>1. ASSUME n \in found
          PROVE  FALSE
      <4>1. PICK i \in 1..Len(new) : new[i] = n
        BY <1>4, <3>1
      <4>2. L + i \in 1..Len(t.queue) /\ t.queue[L + i] = n
        <5>. HIDE DEF found, new, L, t
        <5>. QED  BY <1>4, <1>8, <4>1
      <4>. QED  BY <4>2 DEF Waiting
    <3>. QED  BY <3>1
  <2>2. n \in D /\ t.hops[n] = h[n] /\ h[n] \in Nat
    BY <1>1, <1>6, <1>7, <2>1
  <2>3. CASE n = curr
    <3>1. m \in D \/ m \in found
      BY <1>2, <2>2, <2>3
    <3>2. CASE m \in found
      BY <1>2, <1>6, <1>7, <2>2, <2>3, <3>2
    <3>3. CASE m \in D
      BY <1>6, <1>7, <1>10, <2>2, <2>3, <3>3
    <3>. QED  BY <3>1, <3>2, <3>3
  <2>4. CASE n # curr
    <3>1. ~Waiting(s, n)
      <4>. SUFFICES ASSUME NEW i \in 1..Len(q), q[i] = n PROVE FALSE
        BY DEF Waiting
      <4>1. i # 1
        BY <1>1, <2>4
      <4>2. i - 1 \in 1..L /\ i - 1 \in 1..Len(t.queue) /\ (i - 1) + 1 = i
        <5>. HIDE DEF new, t
        <5>. QED  BY <1>1, <1>4, <1>8, <4>1
      <4>3. t.queue[i - 1] = n
        BY <1>8, <4>2
      <4>. QED  BY <4>2, <4>3 DEF Waiting
    <3>2. Left(graph, maxDepth, s, n)
      BY <2>2 DEF SearchOK
    <3>3. m \in D /\ h[m] <= h[n] + 1
      BY <2>2, <3>1, <3>2 DEF Left
    <3>. QED  BY <1>6, <1>7, <2>2, <3>3
  <2>. QED  BY <2>3, <2>4
<1>15. Counted(t, turns + 1)
  <2>1. Cardinality(D) = turns + Len(q)
    BY DEF Counted
  <2>2. IsFiniteSet(D) /\ Cardinality(D \cap found) = 0
    BY <1>1, <1>3, FS_Subset, FS_EmptySet DEF IsGraph
  <2>3. Cardinality(D \cup found) = Cardinality(D) + Cardinality(found) - 0
    <3>. HIDE DEF found, D
    <3>. QED  BY <1>3, <2>2, FS_Union
  <2>4. Cardinality(Visited(t)) = (turns + 1) + Len(t.queue)
    <3>. HIDE DEF found, new, D, t, q
    <3>. QED  BY <1>1, <1>4, <1>6, <1>8, <2>1, <2>3
  <2>. HIDE DEF t
  <2>. QED  BY <2>4 DEF Counted
<1>. QED  BY <1>11, <1>12, <1>13, <1>14, <1>15 DEF SearchOK

-------------------------------------------------------------------------------
(***************************************************************************)
(* The turns of the loop exist, and each keeps what is known.               *)
(***************************************************************************)
FirstTurn(target) == [queue |-> <<target>>, hops |-> [m \in {target} |-> 0]]

Turns(graph, target, maxDepth, t, k) ==
  t = [n \in 0..k |-> IF n = 0 THEN FirstTurn(target) ELSE Visit(graph, maxDepth, t[n - 1])]

LEMMA TurnsExist ==
  ASSUME NEW graph, NEW target, NEW maxDepth
  PROVE  \A k \in Nat : \E t : Turns(graph, target, maxDepth, t, k)
<1>. DEFINE S == {k \in Nat : \E t : Turns(graph, target, maxDepth, t, k)}
<1>1. 0 \in S
  <2>1. Turns(graph, target, maxDepth, [n \in 0..0 |-> FirstTurn(target)], 0)
    BY DEF Turns
  <2>. QED  BY <2>1
<1>2. ASSUME NEW k \in Nat, k \in S
      PROVE  k + 1 \in S
  <2>1. PICK t : Turns(graph, target, maxDepth, t, k)
    BY <1>2
  <2>. DEFINE u == [n \in 0..(k + 1) |-> IF n = k + 1 THEN Visit(graph, maxDepth, t[k]) ELSE t[n]]
  <2>2. ASSUME NEW n \in 0..(k + 1)
        PROVE  u[n] = IF n = 0 THEN FirstTurn(target) ELSE Visit(graph, maxDepth, u[n - 1])
    <3>1. CASE n = 0
      BY <2>1, <3>1 DEF Turns
    <3>2. CASE n = k + 1
      <4>1. u[n] = Visit(graph, maxDepth, t[k]) /\ u[n - 1] = t[k] /\ n # 0
        BY <3>2
      <4>. QED  BY <4>1
    <3>3. CASE n # 0 /\ n # k + 1
      <4>1. n \in 0..k /\ n - 1 \in 0..k
        BY <3>3
      <4>2. u[n] = t[n] /\ u[n - 1] = t[n - 1]
        BY <4>1
      <4>3. t[n] = Visit(graph, maxDepth, t[n - 1])
        BY <2>1, <3>3, <4>1 DEF Turns
      <4>. QED  BY <3>3, <4>2, <4>3
    <3>. QED  BY <3>1, <3>2, <3>3
  <2>3. u = [n \in 0..(k + 1) |->
              IF n = 0 THEN FirstTurn(target) ELSE Visit(graph, maxDepth, u[n - 1])]
    BY <2>2
  <2>4. Turns(graph, target, maxDepth, u, k + 1)
    BY <2>3 DEF Turns
  <2>. QED  BY <2>4
<1>. HIDE DEF S
<1>3. \A k \in Nat : k \in S
  BY <1>1, <1>2, Induction
<1>. QED  BY <1>3 DEF S

LEMMA FirstTurnOK ==
  ASSUME NEW graph, IsGraph(graph), NEW target \in graph.node, NEW maxDepth \in Nat
  PROVE  /\ SearchOK(graph, target, maxDepth, FirstTurn(target))
         /\ Counted(FirstTurn(target), 0)
<1>. DEFINE s == FirstTurn(target)
<1>1. /\ s.queue = <<target>> /\ Len(s.queue) = 1 /\ s.queue[1] = target
      /\ Visited(s) = {target} /\ s.hops[target] = 0
  BY DEF FirstTurn, Visited
<1>. HIDE DEF s
<1>2. target \in Within(graph, target, 0)
  BY WithinNone
<1>3. Cardinality({target}) = 1
  BY FS_Singleton
<1>4. SearchTyped(graph, target, maxDepth, s)
  BY <1>1 DEF SearchTyped
<1>5. QueueOrdered(s)
  BY <1>1 DEF QueueOrdered
<1>6. Waiting(s, target)
  BY <1>1 DEF Waiting
<1>7. SearchOK(graph, target, maxDepth, s)
  BY <1>1, <1>2, <1>4, <1>5, <1>6 DEF SearchOK, Left
<1>8. Counted(s, 0)
  BY <1>1, <1>3 DEF Counted
<1>. QED  BY <1>7, <1>8 DEF s

LEMMA TurnsKeep ==
  ASSUME NEW graph, IsGraph(graph), NEW target \in graph.node, NEW maxDepth \in Nat,
         NEW k \in Nat, NEW t, Turns(graph, target, maxDepth, t, k)
  PROVE  \A n \in 0..k : SearchOK(graph, target, maxDepth, t[n]) /\ Counted(t[n], n)
<1>. DEFINE S == {n \in Nat : n <= k => SearchOK(graph, target, maxDepth, t[n]) /\ Counted(t[n], n)}
<1>1. 0 \in S
  BY FirstTurnOK DEF Turns
<1>2. ASSUME NEW n \in Nat, n \in S
      PROVE  n + 1 \in S
  <2>1. SUFFICES ASSUME n + 1 <= k
                 PROVE  SearchOK(graph, target, maxDepth, t[n + 1]) /\ Counted(t[n + 1], n + 1)
    OBVIOUS
  <2>2. SearchOK(graph, target, maxDepth, t[n]) /\ Counted(t[n], n)
    BY <1>2, <2>1
  <2>. DEFINE m == n + 1
  <2>3. t[m] = Visit(graph, maxDepth, t[n])
    <3>1. m \in 0..k /\ m # 0 /\ m - 1 = n
      BY <2>1
    <3>. HIDE DEF m
    <3>2. t[m] = Visit(graph, maxDepth, t[m - 1])
      BY <3>1 DEF Turns
    <3>. QED  BY <3>1, <3>2
  <2>4. CASE t[n].queue = <<>>
    <3>1. t[m] = t[n]
      BY <2>3, <2>4 DEF Visit
    <3>. QED  BY <2>2, <2>4, <3>1 DEF Counted
  <2>5. CASE t[n].queue # <<>>
    BY <2>2, <2>3, <2>5, VisitKeeps
  <2>. QED  BY <2>4, <2>5
<1>. HIDE DEF S
<1>3. \A n \in Nat : n \in S
  BY <1>1, <1>2, Induction
<1>. QED  BY <1>3 DEF S

\* When all turns are taken the queue is empty.
LEMMA HopsDone ==
  ASSUME NEW graph, IsGraph(graph), NEW target \in graph.node, NEW maxDepth \in Nat
  PROVE  \E s : /\ SearchOK(graph, target, maxDepth, s) /\ s.queue = <<>>
                /\ Hops(graph, target, maxDepth) = s.hops
<1>. DEFINE k == Cardinality(graph.node)
            t == CHOOSE t : Turns(graph, target, maxDepth, t, k)
<1>1. k \in Nat
  BY FS_CardinalityType DEF IsGraph
<1>2. Turns(graph, target, maxDepth, t, k)
  BY <1>1, TurnsExist
<1>3. Hops(graph, target, maxDepth) = t[k].hops
  BY DEF Hops, Turns, FirstTurn
<1>. HIDE DEF t
<1>4. SearchOK(graph, target, maxDepth, t[k]) /\ Counted(t[k], k)
  BY <1>1, <1>2, TurnsKeep
<1>5. t[k].queue = <<>>
  <2>. SUFFICES ASSUME t[k].queue # <<>> PROVE FALSE
    OBVIOUS
  <2>1. Cardinality(Visited(t[k])) = k + Len(t[k].queue)
    BY <1>4 DEF Counted
  <2>2. Visited(t[k]) \subseteq graph.node /\ t[k].queue \in Seq(Visited(t[k]))
    BY <1>4 DEF SearchOK, SearchTyped
  <2>3. Len(t[k].queue) \in Nat \ {0}
    BY <2>2, EmptySeq
  <2>4. Cardinality(Visited(t[k])) <= k
    BY <2>2, FS_Subset DEF IsGraph
  <2>. HIDE DEF k
  <2>. QED  BY <1>1, <2>1, <2>3, <2>4
<1>. QED  BY <1>3, <1>4, <1>5

(***************************************************************************)
(* "exact hop distances", in every finite graph: a node is visited iff it   *)
(* is within the depth, and its hop_distance is that of a shortest way.     *)
(***************************************************************************)
THEOREM DistancesAreExact ==
  ASSUME NEW graph, IsGraph(graph), NEW target \in graph.node, NEW maxDepth \in Nat
  PROVE  HopsAreExact(graph, target, maxDepth)
<1>1. PICK s : /\ SearchOK(graph, target, maxDepth, s) /\ s.queue = <<>>
               /\ Hops(graph, target, maxDepth) = s.hops
  BY HopsDone
<1>. DEFINE D == Visited(s)
            h == s.hops
<1>2. /\ D \subseteq graph.node /\ target \in D
      /\ \A n \in D : h[n] \in 0..maxDepth /\ n \in Within(graph, target, h[n])
  BY <1>1 DEF SearchOK, SearchTyped
<1>3. h[target] = 0
  BY <1>1 DEF SearchOK, SearchTyped
<1>4. ASSUME NEW n \in D, h[n] < maxDepth, NEW m \in Successors(graph, n)
      PROVE  m \in D /\ h[m] <= h[n] + 1
  BY <1>1, <1>4 DEF SearchOK, Left, Waiting
<1>. HIDE DEF D, h
<1>. DEFINE S == {k \in Nat : k <= maxDepth =>
                    \A n \in Within(graph, target, k) : n \in D /\ h[n] <= k}
<1>5. 0 \in S
  BY <1>2, <1>3, WithinNone
<1>6. ASSUME NEW k \in Nat, k \in S
      PROVE  k + 1 \in S
  <2>. SUFFICES ASSUME k + 1 <= maxDepth, NEW n \in Within(graph, target, k + 1)
                PROVE  n \in D /\ h[n] <= k + 1
    OBVIOUS
  <2>1. \A m \in Within(graph, target, k) : m \in D /\ h[m] <= k /\ h[m] \in Nat
    BY <1>2, <1>6
  <2>2. n \in Spread(graph, Within(graph, target, k))
    BY WithinNext
  <2>3. CASE n \in Within(graph, target, k)
    BY <2>1, <2>3
  <2>4. CASE \E m \in Within(graph, target, k) : n \in graph.node /\ <<m, n>> \in graph.edge
    <3>1. PICK m \in Within(graph, target, k) : n \in Successors(graph, m)
      BY <2>4 DEF Successors
    <3>2. m \in D /\ h[m] <= k /\ h[m] \in Nat /\ h[m] < maxDepth
      BY <2>1, <3>1
    <3>3. n \in D /\ h[n] <= h[m] + 1
      BY <1>4, <3>1, <3>2
    <3>. QED  BY <1>2, <3>2, <3>3
  <2>. QED  BY <2>2, <2>3, <2>4 DEF Spread
<1>7. \A k \in Nat : k \in S
  <2>. HIDE DEF S
  <2>. QED  BY <1>5, <1>6, Induction
<1>8. \A k \in 0..maxDepth : \A n \in Within(graph, target, k) : n \in D /\ h[n] <= k
  BY <1>7
<1>9. ASSUME NEW n \in D, NEW k \in 0..maxDepth, h[n] <= k
      PROVE  n \in Within(graph, target, k)
  BY <1>2, <1>9, WithinGrows
<1>10. D = Within(graph, target, maxDepth)
  BY <1>2, <1>8, <1>9
<1>. QED  BY <1>1, <1>8, <1>9, <1>10 DEF HopsAreExact, D, h, Visited

-------------------------------------------------------------------------------
(***************************************************************************)
(* Upstream and downstream meet on cycles only.                             *)
(***************************************************************************)
LEMMA ReversedGraph ==
  ASSUME NEW graph, IsGraph(graph)
  PROVE  /\ IsGraph(Reversed(graph)) /\ Reversed(graph).node = graph.node
         /\ \A n, m : <<n, m>> \in Reversed(graph).edge <=> <<m, n>> \in graph.edge
<1>1. /\ Reversed(graph).node = graph.node
      /\ Reversed(graph).edge = {<<e[2], e[1]>> : e \in graph.edge}
  BY DEF Reversed
<1>2. ASSUME NEW n, NEW m
      PROVE  <<n, m>> \in Reversed(graph).edge <=> <<m, n>> \in graph.edge
  <2>1. ASSUME <<m, n>> \in graph.edge
        PROVE  <<n, m>> \in Reversed(graph).edge
    <3>1. <<n, m>> = <<<<m, n>>[2], <<m, n>>[1]>>
      OBVIOUS
    <3>. QED  BY <1>1, <2>1, <3>1
  <2>2. ASSUME <<n, m>> \in Reversed(graph).edge
        PROVE  <<m, n>> \in graph.edge
    <3>1. PICK e \in graph.edge : <<n, m>> = <<e[2], e[1]>>
      BY <1>1, <2>2
    <3>2. e = <<e[1], e[2]>>
      BY DEF IsGraph
    <3>. QED  BY <3>1, <3>2
  <2>. QED  BY <2>1, <2>2
<1>3. Reversed(graph).edge \subseteq graph.node \X graph.node
  <2>. SUFFICES ASSUME NEW e \in graph.edge PROVE <<e[2], e[1]>> \in graph.node \X graph.node
    BY <1>1
  <2>. QED  BY DEF IsGraph
<1>. QED  BY <1>1, <1>2, <1>3 DEF IsGraph

\* Who is within reach of the target is in each closed set with the successors
\* of the target, or is the target.
LEMMA DownstreamOfSuccessor ==
  ASSUME NEW graph, IsGraph(graph), NEW target \in graph.node, NEW k \in Nat,
         NEW n \in Within(graph, target, k), n # target
  PROVE  \E m \in Successors(graph, target) : n \in Within(graph, m, Cardinality(graph.node))
<1>. DEFINE all == Cardinality(graph.node)
            C == {target} \cup UNION {Within(graph, m, all) : m \in Successors(graph, target)}
<1>1. all \in Nat
  BY FS_CardinalityType DEF IsGraph
<1>2. Closed(graph, C)
  <2>. SUFFICES ASSUME NEW e \in graph.edge, e[1] \in C PROVE e[2] \in C
    BY DEF Closed
  <2>1. CASE e[1] = target
    <3>1. e[2] \in Successors(graph, target)
      <4>1. e = <<e[1], e[2]>> /\ e[2] \in graph.node
        BY DEF IsGraph
      <4>. QED  BY <2>1, <4>1 DEF Successors
    <3>2. e[2] \in Within(graph, e[2], all)
      BY <1>1, <3>1, WithinNodes DEF Successors
    <3>. QED  BY <3>1, <3>2
  <2>2. CASE e[1] # target
    <3>1. PICK m \in Successors(graph, target) : e[1] \in Within(graph, m, all)
      BY <2>2
    <3>2. e[2] \in Within(graph, m, all)
      BY <3>1, WithinFills DEF Closed, Successors
    <3>. QED  BY <3>2
  <2>. QED  BY <2>1, <2>2
<1>3. n \in C
  <2>. HIDE DEF C
  <2>1. target \in C
    BY DEF C
  <2>. QED  BY <1>2, <2>1, WithinClosed
<1>. QED  BY <1>3

\* The target is in each closed set with someone it can be reached from.
LEMMA UpstreamReaches ==
  ASSUME NEW graph, IsGraph(graph), NEW target \in graph.node, NEW k \in Nat,
         NEW n \in Within(Reversed(graph), target, k), NEW C, Closed(graph, C), n \in C
  PROVE  target \in C
<1>. DEFINE R == {m \in graph.node \cup {target} : m \in C => target \in C}
<1>1. Closed(Reversed(graph), R)
  <2>. SUFFICES ASSUME NEW e \in Reversed(graph).edge, e[1] \in R PROVE e[2] \in R
    BY DEF Closed
  <2>1. e = <<e[1], e[2]>> /\ e[2] \in graph.node
    BY ReversedGraph DEF IsGraph
  <2>2. <<e[2], e[1]>> \in graph.edge
    BY <2>1, ReversedGraph
  <2>3. e[2] \in C => e[1] \in C
    <3>1. <<e[2], e[1]>>[1] = e[2] /\ <<e[2], e[1]>>[2] = e[1]
      OBVIOUS
    <3>. QED  BY <2>2, <3>1 DEF Closed
  <2>. QED  BY <2>1, <2>3
<1>2. n \in R
  <2>1. target \in R
    OBVIOUS
  <2>. HIDE DEF R
  <2>. QED  BY <1>1, <2>1, WithinClosed
<1>. QED  BY <1>2

(***************************************************************************)
(* No risk level below "high" rests on an entity that was counted on both   *)
(* sides, in every finite graph.                                            *)
(***************************************************************************)
THEOREM RisksCountOnce ==
  ASSUME NEW graph, IsGraph(graph), NEW target \in graph.node, NEW maxDepth \in Nat
  PROVE  CountedOnce(graph, target, maxDepth)
<1>. DEFINE up == Upstream(graph, target, maxDepth)
            down == Downstream(graph, target, maxDepth)
<1>. SUFFICES ASSUME ~OnCycle(graph, target)
              PROVE  Cardinality(up) + Cardinality(down) = Cardinality(up \cup down)
  BY DEF CountedOnce, RiskLevel, TotalAffected
<1>1. down = Within(graph, target, maxDepth) \ {target}
  BY DistancesAreExact DEF Downstream, HopsAreExact
<1>2. up = Within(Reversed(graph), target, maxDepth) \ {target}
  BY DistancesAreExact, ReversedGraph DEF Upstream, HopsAreExact
<1>3. IsFiniteSet(up) /\ IsFiniteSet(down)
  <2>1. /\ IsFiniteSet(Within(graph, target, maxDepth))
        /\ IsFiniteSet(Within(Reversed(graph), target, maxDepth))
    BY WithinNodes, ReversedGraph
  <2>2. /\ down \in SUBSET Within(graph, target, maxDepth)
        /\ up \in SUBSET Within(Reversed(graph), target, maxDepth)
    BY <1>1, <1>2
  <2>. HIDE DEF up, down
  <2>. QED  BY <2>1, <2>2, FS_Subset
<1>4. up \cap down = {}
  <2>. SUFFICES ASSUME NEW n \in up \cap down PROVE FALSE
    OBVIOUS
  <2>1. PICK m \in Successors(graph, target) : n \in Within(graph, m, Cardinality(graph.node))
    BY <1>1, DownstreamOfSuccessor
  <2>2. Closed(graph, Within(graph, m, Cardinality(graph.node)))
    BY WithinFills DEF Successors
  <2>3. target \in Within(graph, m, Cardinality(graph.node))
    BY <1>2, <2>1, <2>2, UpstreamReaches
  <2>. QED  BY <2>1, <2>3 DEF OnCycle
<1>5. /\ Cardinality(up) \in Nat /\ Cardinality(down) \in Nat
      /\ Cardinality(up \cup down) = Cardinality(up) + Cardinality(down) - 0
  <2>. HIDE DEF up, down
  <2>1. Cardinality(up \cap down) = 0
    BY <1>4, FS_EmptySet
  <2>2. Cardinality(up \cup down) = Cardinality(up) + Cardinality(down) - Cardinality(up \cap down)
    BY <1>3, FS_Union
  <2>. QED  BY <1>3, <2>1, <2>2, FS_CardinalityType
<1>. QED  BY <1>5
=============================================================================
