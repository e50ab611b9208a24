---------------------------- MODULE MCGraphPanel ----------------------------
(***************************************************************************)
(* Two graphs, one of them a sail graph; lists that end within a page, and *)
(* one whose last page is full; a filter that leaves less than a page.     *)
(***************************************************************************)
EXTENDS GraphPanel, TLC
CONSTANTS g1, g2, v1, v2, k1

TwoNear == v1 :> {v2} @@ v2 :> {v1}

Counts ==
  [c \in Graph \X Feature \X (Key \cup {None}) |->
     CASE c[3] # None -> 3
       [] c[3] = None /\ c[1] = g1 /\ c[2] = "vertices" -> 13
       [] OTHER -> 10]

\* No graph, a graph, a page with and without a filter, an element.
Addresses == {GraphUri(None), GraphUri(g2), PageUri(g1, "vertices", 10, None),
              PageUri(g1, "edges", 0, k1), ElementUri(g1, "vertices", v1)}
=============================================================================
