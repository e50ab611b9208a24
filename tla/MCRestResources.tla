--------------------------- MODULE MCRestResources ---------------------------
(* The sets of requests for the runs of RestResources.                      *)
EXTENDS RestResources, TLC, FiniteSets

CONSTANTS t1, t2, r1, r2, r3, i1

Symmetry == Permutations(Thread) \cup Permutations(Request)

\* Where a flag means nothing it is FALSE.
Sensible(s) ==
  /\ s.keys => s.op \in {"postVertex", "deleteVertex", "postEdge",
                         "deleteEdge", "deleteIndex"}
  /\ s.auto => s.op \in Extensions

AllShapes == {s \in ShapeType : Sensible(s)}
=============================================================================
