------------------------- MODULE MCKnowledgeFabric -------------------------
(* A default directory with every kind of file, a directory of documents, a *)
(* clone with code.                                                         *)
EXTENDS KnowledgeFabric, BlastRadius
CONSTANTS def, docs, clone, java, sql, doc

KindMC == [p \in Path |-> CASE p = java -> "java" [] p = sql -> "sql" [] p = doc -> "doc"]
HoldsMC == [r \in Repo |-> CASE r = def -> {java, sql, doc} [] r = docs -> {doc}
                             [] r = clone -> {java, sql}]
RiskyMC == [r \in Repo |-> IF r = def THEN {sql} ELSE {}]
ProjectMC == [r \in Repo |-> r]
SharedNameMC == [r \in Repo |-> IF r = docs THEN clone ELSE r]

\* The blast radius of an entity in every graph of four, to every depth.
ASSUME BlastRadiusIsExact ==
  \A edges \in SUBSET {e \in (1..4) \X (1..4) : e[1] # e[2]}, depth \in 0..3 :
    LET graph == [node |-> 1..4, edge |-> edges]
    IN HopsAreExact(graph, 1, depth) /\ CountedOnce(graph, 1, depth)
=============================================================================
