------------------------------ MODULE ArbGraph ------------------------------
(***************************************************************************)
(* strategies/triangular/src/graph.rs: S3's search for profitable cycles,  *)
(* by depth-first search in a small graph and by Bellman-Ford in a larger. *)
(* The rate of an edge is abstracted to its weight -ln(rate), an integer:  *)
(* a product of rates above one is a sum of weights below zero.            *)
(***************************************************************************)
EXTENDS Integers, Sequences, FiniteSets, SequencesExt

CONSTANTS
  Pools,       \* each with tokens a and b
  Quotes,      \* the pairs of weights a pool's reserves can give, a to b and back
  DfsLimit     \* tokens up to which find_cycles uses DFS; 15 in the code

(* The rate of an empty pool is zero. *)
Dead == 1000

ASSUME GraphAssumption ==
  /\ IsFiniteSet(Pools)
  /\ \A p \in Pools : p.a # p.b
  /\ \A q \in Quotes :
       /\ q.ab \in Int /\ q.ba \in Int
       /\ 2 * q.ab > -Dead /\ 2 * q.ba > -Dead    \* no two rates make up for a zero
  /\ DfsLimit \in Nat

VARIABLES
  poolStates,  \* BotState.pool_states: the quote of each registered pool
  graph,       \* the edges of the ArbGraph built last
  routes       \* what its find_cycles returned

arbVars == <<poolStates, graph, routes>>

Edges(states) ==
  UNION {{[pool |-> p, from |-> p.a, to |-> p.b, weight |-> states[p].ab],
          [pool |-> p, from |-> p.b, to |-> p.a, weight |-> states[p].ba]}
         : p \in DOMAIN states}

GraphTokens(G) == {e.from : e \in G}
Out(G, token) == {e \in G : e.from = token}

(* rates_product; one empty pool outweighs the other two *)
RouteWeight(hops) ==
  LET product[k \in 0 .. Len(hops)] == IF k = 0 THEN 0 ELSE product[k - 1] + hops[k].weight
  IN product[Len(hops)]

(* Variant for mutation: a cycle that breaks even passes the filter. *)
BreaksEven(hops) == RouteWeight(hops) <= 0

Profitable(hops) == RouteWeight(hops) < 0

-----------------------------------------------------------------------------
MaxDepth == 3

(* dfs_recurse, which pushes and pops the path and the visited tokens      *)
(* together; the order in which routes are found does not matter.          *)
DfsRecurse(G, origin) ==
  LET found[path \in SeqOf(G, MaxDepth)] ==
        LET current == IF path = <<>> THEN origin ELSE Last(path).to
            visited == {origin} \cup {path[i].to : i \in DOMAIN path}
            remaining == MaxDepth - Len(path)
        IN IF remaining = 0 THEN {} ELSE
           UNION {IF e.to = origin /\ Len(path) >= 2
                    THEN {r \in {Append(path, e)} : Profitable(r)}
                  ELSE IF e.to \notin visited /\ remaining > 1 THEN found[Append(path, e)]
                  ELSE {}
                  : e \in Out(G, current)}
  IN found[<<>>]

DfsCycles(G) == UNION {DfsRecurse(G, start) : start \in GraphTokens(G)}

-----------------------------------------------------------------------------
(* bellman_ford_cycles.  A token that is not reached yet is infinitely far *)
(* away: it has no place in dist.                                          *)

(* dist[u] + w < dist[v], on an edge with a rate *)
Improves(dist, e) ==
  /\ e.weight # Dead /\ e.from \in DOMAIN dist
  /\ e.to \in DOMAIN dist => dist[e.from] + e.weight < dist[e.to]

Relax(dist, e) ==
  IF Improves(dist, e)
    THEN [t \in DOMAIN dist \cup {e.to} |-> IF t = e.to THEN dist[e.from] + e.weight ELSE dist[t]]
    ELSE dist

(* n - 1 rounds over all the edges *)
Distances(G, source, edgeSeq) ==
  LET last == (Cardinality(GraphTokens(G)) - 1) * Len(edgeSeq)
      dist[k \in 0 .. last] ==
        IF k = 0 THEN [t \in {source} |-> 0]
                 ELSE Relax(dist[k - 1], edgeSeq[((k - 1) % Len(edgeSeq)) + 1])
  IN dist[last]

(* Tokens with an edge that the n-th round still improves. *)
CycleStarts(G, edgeSeq) ==
  UNION {LET dist == Distances(G, source, edgeSeq)
         IN {e.from : e \in {f \in G : Improves(dist, f)}}
         : source \in GraphTokens(G)}

(* sort_by product, best first; routes that tie, which the code leaves in  *)
(* the order they were found, are taken in one order.                      *)
BestFirst(found) ==
  LET Best(rest) == CHOOSE r \in rest : \A s \in rest : RouteWeight(r) <= RouteWeight(s)
      first[k \in 0 .. Cardinality(found)] ==
        IF k = 0 THEN <<>> ELSE Append(first[k - 1], Best(found \ ToSet(first[k - 1])))
  IN first[Cardinality(found)]

(* Variant for mutation: of neighbours with one start the last stays. *)
DedupKeepsLast(sorted) ==
  {sorted[i] : i \in {i \in DOMAIN sorted :
                        i = Len(sorted) \/ sorted[i + 1][1].from # sorted[i][1].from}}

(* dedup_by: of neighbours with one and the same start the first stays *)
Dedup(sorted) ==
  {sorted[i] : i \in {i \in DOMAIN sorted :
                        i = 1 \/ sorted[i - 1][1].from # sorted[i][1].from}}

BellmanFordCycles(G, edgeSeq) ==
  Dedup(BestFirst(UNION {DfsRecurse(G, start) : start \in CycleStarts(G, edgeSeq)}))

-----------------------------------------------------------------------------
FindCycles(G, edgeSeq) ==
  IF Cardinality(GraphTokens(G)) <= DfsLimit THEN DfsCycles(G)
                                             ELSE BellmanFordCycles(G, edgeSeq)

(* The pools have been registered, each with some reserves. *)
GraphInit ==
  /\ \E registered \in SUBSET Pools : poolStates \in [registered -> Quotes]
  /\ graph = {} /\ routes = {}

(* A Sync event or a reconciliation changes a pool's reserves. *)
UpdatePool(p) ==
  /\ graph = {}      \* the search is synchronous, on a graph of its own
  /\ \E q \in Quotes : poolStates' = [poolStates EXCEPT ![p] = q]
  /\ UNCHANGED <<graph, routes>>

(* The HashMap gives the edges token by token, in any order of the tokens *)
(* but the same one every time.                                           *)
EdgeOrders(G) ==
  {FlattenSeq([i \in DOMAIN order |-> SetToSeq(Out(G, order[i]))])
   : order \in SetToSeqs(GraphTokens(G))}

(* try_execute_best_route: build a graph and search it *)
Search ==
  /\ graph = {}
  /\ graph' = Edges(poolStates)
  /\ IF graph' = {} THEN routes' = {}
     ELSE \E edgeSeq \in EdgeOrders(graph') : routes' = FindCycles(graph', edgeSeq)
  /\ UNCHANGED poolStates

(* The call returns, and its locals are gone. *)
Return ==
  /\ graph # {}
  /\ graph' = {} /\ routes' = {}
  /\ UNCHANGED poolStates

GraphNext == Search \/ Return \/ \E p \in DOMAIN poolStates : UpdatePool(p)

GraphSpec == GraphInit /\ [][GraphNext]_arbVars

-----------------------------------------------------------------------------
(* The profitable triangles of the graph, said without a search. *)
Triangles ==
  {r \in graph \X graph \X graph :
     /\ r[1].to = r[2].from /\ r[2].to = r[3].from /\ r[3].to = r[1].from
     /\ Cardinality({r[1].from, r[2].from, r[3].from}) = 3
     /\ r[1].weight + r[2].weight + r[3].weight < 0}

(* Whatever the size of the graph, a route is a profitable triangle of it, *)
(* and the search of a small graph loses none.                             *)
RoutesAreTriangles ==
  /\ routes \subseteq Triangles
  /\ Cardinality(GraphTokens(graph)) <= DfsLimit => routes = Triangles

(* DFS finds every profitable triangle, from each of its three tokens;     *)
(* Bellman-Ford, its reconstruction and its deduplication may lose some    *)
(* but never the one with the greatest product of rates.  The executor     *)
(* takes the one it expects the greatest profit of (executor.rs:70-77),    *)
(* which depends on depth too and may be among the lost.                   *)
BestRouteKept == \A t \in Triangles : \E r \in routes : RouteWeight(r) <= RouteWeight(t)
=============================================================================
