-------------------------------- MODULE Cpdag --------------------------------
(***************************************************************************)
(* The CPDAG of an acyclic graph: v-structures, then Meek's rules R1 to    *)
(* R4; and, beside it, what its compelled edges are by definition.         *)
(***************************************************************************)
EXTENDS Integers, FiniteSets

NodesOf(E) == {e[1] : e \in E} \cup {e[2] : e \in E}
Adjacent(E, a, b) == <<a, b>> \in E \/ <<b, a>> \in E

\* There is no set of nodes each of which has an edge to one of them: such a set has a
\* cycle, and the nodes of a cycle are one.
IsAcyclic(E) ==
  \A S \in SUBSET NodesOf(E) : S # {} => \E n \in S : \A e \in E : e[1] = n => e[2] \notin S

\* Edges into a node from two nodes that are not adjacent.
VStructures(E) == {e \in E : \E b \in NodesOf(E) : /\ b # e[1] /\ <<b, e[2]>> \in E
                                                   /\ ~Adjacent(E, b, e[1])}

\* The rules force x -> y for the undirected edge x - y, when D are the directed
\* edges, U the undirected ones (both ways) and E the graph.
R1(x, y, D, U, E) == \E z \in NodesOf(E) : <<z, x>> \in D /\ z # y /\ ~Adjacent(E, z, y)
R2(x, y, D, U, E) == \E z \in NodesOf(E) : <<x, z>> \in D /\ <<z, y>> \in D
R3(x, y, D, U, E) ==
  \E z1, z2 \in {z \in NodesOf(E) : <<x, z>> \in U /\ <<z, y>> \in D} :
    z1 # z2 /\ ~Adjacent(E, z1, z2)
R4(x, y, D, U, E) ==
  \E z1, z2 \in NodesOf(E) :
    /\ <<x, z1>> \in U /\ <<z1, z2>> \in D /\ <<z2, y>> \in D
    /\ Adjacent(E, x, z2) /\ ~Adjacent(E, z1, y)

\* Mutant: the third rule is forgotten.
Meek_NoR3(x, y, D, U, E) == R1(x, y, D, U, E) \/ R2(x, y, D, U, E) \/ R4(x, y, D, U, E)

Meek(x, y, D, U, E) == \/ R1(x, y, D, U, E) \/ R2(x, y, D, U, E)
                       \/ R3(x, y, D, U, E) \/ R4(x, y, D, U, E)

\* The edges that have no direction yet, both ways.
Undirected(D, E) ==
  {p \in E \cup {<<e[2], e[1]>> : e \in E} : p \notin D /\ <<p[2], p[1]>> \notin D}

\* One of the edges that the rules force is directed.
Orient(D, E) ==
  LET U == Undirected(D, E)
      forced == {e \in U : Meek(e[1], e[2], D, U, E)}
  IN IF forced = {} THEN D ELSE D \cup {CHOOSE e \in forced : TRUE}

\* One edge after another is directed: every edge may be, once.
CompelledEdges(E) ==
  LET After[n \in Nat] == IF n = 0 THEN VStructures(E) ELSE Orient(After[n - 1], E)
  IN After[Cardinality(E)]

-----------------------------------------------------------------------------
\* The acyclic graphs with the same adjacencies and the same v-structures.
Triples(E) == {t \in NodesOf(E) \X NodesOf(E) \X NodesOf(E) :
                 /\ <<t[1], t[2]>> \in E /\ <<t[3], t[2]>> \in E
                 /\ t[1] # t[3] /\ ~Adjacent(E, t[1], t[3])}
Equivalent(E) ==
  {G \in {(E \ S) \cup {<<e[2], e[1]>> : e \in S} : S \in SUBSET E} :
     IsAcyclic(G) /\ Triples(G) = Triples(E)}

\* The edges that all of them share.
SharedEdges(E) == {e \in E : \A G \in Equivalent(E) : e \in G}
=============================================================================
