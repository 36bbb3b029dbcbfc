---------------------------- MODULE AstConvertTree ----------------------------
(***************************************************************************)
(* What the DotWriter output of ast2dot.py promises, without the handler:  *)
(* a digraph that start_graph opens with its root node, that grows one     *)
(* node at a time, each new node hanging from one node already there by   *)
(* a single edge, and that end_graph closes once.  A text leaf (shape      *)
(* underline) never gets a child.  Nothing is said about which node is    *)
(* the parent: that is the handler's business (EdgesFollowNesting).        *)
(***************************************************************************)
CONSTANTS
  Ids,   \* the node names the writer can use
  Root   \* the name of the root node, 'AST'

VARIABLES
  nodes,   \* the declared nodes: [id, leaf]
  edges,   \* the edges written: <<from, to>>
  closed   \* end_graph has written the closing brace

vars == <<nodes, edges, closed>>

NodeIds == {n.id : n \in nodes}

Init == nodes = {} /\ edges = {} /\ closed = FALSE

\* start_graph('AST') and the declaration of the root node.
Open ==
  /\ nodes = {}
  /\ ~closed
  /\ nodes' = {[id |-> Root, leaf |-> FALSE]}
  /\ UNCHANGED <<edges, closed>>

\* declare_node of a fresh name and put_edge from a node that is not a
\* text leaf to it.
Grow(p, n, leaf) ==
  /\ ~closed
  /\ [id |-> p, leaf |-> FALSE] \in nodes
  /\ n \notin NodeIds
  /\ nodes' = nodes \cup {[id |-> n, leaf |-> leaf]}
  /\ edges' = edges \cup {<<p, n>>}
  /\ UNCHANGED closed

\* end_graph.
Close ==
  /\ nodes # {}
  /\ ~closed
  /\ closed' = TRUE
  /\ UNCHANGED <<nodes, edges>>

Next ==
  \/ Open
  \/ \E p \in NodeIds, n \in Ids, leaf \in BOOLEAN : Grow(p, n, leaf)
  \/ Close

Spec == Init /\ [][Next]_vars

=============================================================================
