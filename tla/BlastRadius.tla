------------------------------ MODULE BlastRadius ------------------------------
(***************************************************************************)
(* GraphAlgorithms.calculate_blast_radius: what an entity of the knowledge  *)
(* graph affects and is affected by, up to a number of hops, and the risk.  *)
(* It keeps no state.  Graphs are those of the module Graphs; parallel      *)
(* edges of the code's multigraph are one edge, which changes no distance.  *)
(***************************************************************************)
EXTENDS Integers, FiniteSets, Sequences, SequencesExt

Successors(graph, n) == {m \in graph.node : <<n, m>> \in graph.edge}

Reversed(graph) == [node |-> graph.node, edge |-> {<<e[2], e[1]>> : e \in graph.edge}]

(***************************************************************************)
(* The entity that is asked for; else the first node whose name contains    *)
(* what was asked for, of which "matched" is the sequence; else no entity.  *)
(***************************************************************************)
TargetOf(graph, asked, matched, none) ==
  IF asked \in graph.node THEN asked ELSE IF matched # <<>> THEN Head(matched) ELSE none

(***************************************************************************)
(* One turn of the loop over the queue: the nodes the first one has an edge *)
(* to are visited when they are found, unless it is at the maximal depth.   *)
(***************************************************************************)
Visit(graph, maxDepth, search) ==
  LET curr  == Head(search.queue)
      depth == search.hops[curr]
      found == IF depth >= maxDepth THEN {}
               ELSE Successors(graph, curr) \ DOMAIN search.hops
  IN IF search.queue = <<>> THEN search
     ELSE [queue |-> Tail(search.queue) \o SetToSeq(found),
           hops  |-> [n \in DOMAIN search.hops \cup found |->
                       IF n \in found THEN depth + 1 ELSE search.hops[n]]]

(***************************************************************************)
(* The hop_distance of each visited node.  Each turn takes one node from    *)
(* the queue, so there are no more turns than nodes.                        *)
(***************************************************************************)
Hops(graph, target, maxDepth) ==
  LET turns[n \in 0..Cardinality(graph.node)] ==
        IF n = 0 THEN [queue |-> <<target>>, hops |-> [m \in {target} |-> 0]]
        ELSE Visit(graph, maxDepth, turns[n - 1])
  IN turns[Cardinality(graph.node)].hops

Upstream(graph, target, maxDepth) == DOMAIN Hops(Reversed(graph), target, maxDepth) \ {target}

Downstream(graph, target, maxDepth) == DOMAIN Hops(graph, target, maxDepth) \ {target}

(***************************************************************************)
(* Within(graph, from, k): the nodes a walk of at most k edges leads to.    *)
(***************************************************************************)
Within(graph, from, k) ==
  LET ball[i \in 0..k] ==
        IF i = 0 THEN {from}
        ELSE ball[i - 1] \cup {m \in graph.node : \E n \in ball[i - 1] : <<n, m>> \in graph.edge}
  IN ball[k]

(***************************************************************************)
(* relevant_cycles: a simple cycle contains the target, at any depth.       *)
(***************************************************************************)
OnCycle(graph, target) ==
  \E n \in Successors(graph, target) : target \in Within(graph, n, Cardinality(graph.node))

TotalAffected(graph, target, maxDepth) ==
  Cardinality(Upstream(graph, target, maxDepth)) + Cardinality(Downstream(graph, target, maxDepth))

RiskLevel(graph, target, maxDepth) ==
  LET total == TotalAffected(graph, target, maxDepth)
  IN IF total > 8 \/ OnCycle(graph, target) THEN "high" ELSE IF total > 3 THEN "medium" ELSE "low"

(***************************************************************************)
(* "exact hop distances": a node is visited iff it is within the depth, and *)
(* its hop_distance is the length of a shortest way to it.                  *)
(***************************************************************************)
HopsAreExact(graph, target, maxDepth) ==
  LET hops == Hops(graph, target, maxDepth)
  IN /\ DOMAIN hops = Within(graph, target, maxDepth)
     /\ \A n \in DOMAIN hops : \A k \in 0..maxDepth :
          n \in Within(graph, target, k) <=> hops[n] <= k

(***************************************************************************)
(* total_affected_count adds the two sides.  It counts no entity twice      *)
(* unless the target is on a cycle, where the risk is high whatever the     *)
(* count is: no risk level is due to a node that was counted twice.         *)
(***************************************************************************)
CountedOnce(graph, target, maxDepth) ==
  RiskLevel(graph, target, maxDepth) # "high" =>
    TotalAffected(graph, target, maxDepth) =
      Cardinality(Upstream(graph, target, maxDepth) \cup Downstream(graph, target, maxDepth))
================================================================================
