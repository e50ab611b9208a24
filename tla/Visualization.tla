--------------------------- MODULE Visualization ---------------------------
(***************************************************************************)
(* The dialog that draws a vertex and its neighbours (the Visualize button *)
(* of element-toolbar.js, graph-viz.js).                                   *)
(*                                                                         *)
(* Every press of the button has a drawing of its own, which its handlers  *)
(* reach; the graph that is drawn, rgraph, is one variable of the module,  *)
(* that of the drawing made last.  The drawing is made when the call for   *)
(* the neighbours is answered, whether the dialog is still open or not.    *)
(* Labels, zoom, centring and the animation are left out.                  *)
(***************************************************************************)
EXTENDS Naturals, Sequences, FiniteSets, Bags

CONSTANTS
  Vertex,
  Near        \* Near[v]: the neighbours of v

ASSUME VisualizationAssumption == Near \in [Vertex -> SUBSET Vertex]

VARIABLES
  vizOpen,    \* the dialog
  vizOf,      \* the presses: the vertex, whether the drawing is made, its nodes
  canvas,     \* the presses whose canvas is in the dialog
  rgraph,     \* the press whose drawing was made last, 0 before any
  vizCalls,   \* the calls under way
  right       \* what the right part of the dialog shows: a vertex, an edge

vizVars == <<vizOpen, vizOf, canvas, rgraph, vizCalls, right>>

Press == 1 .. Len(vizOf)
Call == [kind : {"both", "sum", "edges"}, on : SUBSET Vertex, by : Press]

VizTypeOK ==
  /\ vizOpen \in BOOLEAN
  /\ vizOf \in Seq([vertex : Vertex, made : BOOLEAN, nodes : SUBSET Vertex])
  /\ canvas \subseteq Press /\ rgraph \in Press \cup {0}
  /\ IsABag(vizCalls) /\ BagToSet(vizCalls) \subseteq Call
  /\ right \subseteq SUBSET Vertex

VizInit ==
  /\ vizOpen = FALSE /\ vizOf = <<>> /\ canvas = {} /\ rgraph = 0
  /\ vizCalls = EmptyBag /\ right = {}

Asked(kind, on, by) ==
  vizCalls' = vizCalls (+) SetToBag({[kind |-> kind, on |-> on, by |-> by]})

Answer(c) == vizCalls' = vizCalls (-) SetToBag({c})

\* The dialog takes the close handler of this press.
Visualize(v) ==
  /\ vizOpen' = TRUE
  /\ vizOf' = Append(vizOf, [vertex |-> v, made |-> FALSE, nodes |-> {}])
  /\ Asked("both", {v}, Len(vizOf'))
  /\ UNCHANGED <<canvas, rgraph, right>>

\* The vertex itself is fetched by a second, synchronous call, which may fail.
VizComes(c, centre) ==
  /\ Answer(c)
  /\ LET v == vizOf[c.by].vertex
     IN  vizOf' = [vizOf EXCEPT ![c.by].made = TRUE,
                     ![c.by].nodes = Near[v] \cup (IF centre THEN {v} ELSE {})]
  /\ canvas' = canvas \cup {c.by}
  /\ rgraph' = c.by
  /\ UNCHANGED <<vizOpen, right>>

\* onNodeRightClick: the neighbours of the node are added.
RightClick(k, n) ==
  /\ vizOpen /\ k \in canvas /\ n \in vizOf[k].nodes
  /\ Asked("sum", {n}, k)
  /\ UNCHANGED <<vizOpen, vizOf, canvas, rgraph, right>>

\* sum works on the drawing that was made last.
SumComes(c) ==
  /\ Answer(c)
  /\ vizOf' = [vizOf EXCEPT ![rgraph].nodes =
                 @ \cup c.on \cup UNION {Near[n] : n \in c.on}]
  /\ UNCHANGED <<vizOpen, canvas, rgraph, right>>

NodeClick(k, n) ==
  /\ vizOpen /\ k \in canvas /\ n \in vizOf[k].nodes
  /\ right' = {{n}}
  /\ UNCHANGED <<vizOpen, vizOf, canvas, rgraph, vizCalls>>

EdgeClick(k, a, b) ==
  /\ vizOpen /\ k \in canvas /\ {a, b} \subseteq vizOf[k].nodes /\ b \in Near[a]
  /\ right' = {}
  /\ Asked("edges", {a, b}, k)
  /\ UNCHANGED <<vizOpen, vizOf, canvas, rgraph>>

\* The edges are added to what is shown by then.
EdgesCome(c) ==
  /\ Answer(c)
  /\ right' = right \cup {c.on}
  /\ UNCHANGED <<vizOpen, vizOf, canvas, rgraph>>

\* Nothing is shown for a call that fails.
VizCallFails(c) ==
  /\ Answer(c)
  /\ UNCHANGED <<vizOpen, vizOf, canvas, rgraph, right>>

\* Mutant: the canvas is left in the dialog that is closed.
CloseViz_Kept ==
  /\ vizOpen /\ vizOpen' = FALSE /\ right' = {}
  /\ UNCHANGED <<vizOf, canvas, rgraph, vizCalls>>

\* reset empties the dialog, if the press that opened it has its drawing.
CloseViz ==
  /\ vizOpen
  /\ vizOpen' = FALSE
  /\ canvas' = IF vizOf[Len(vizOf)].made THEN {} ELSE canvas
  /\ right' = {}
  /\ UNCHANGED <<vizOf, rgraph, vizCalls>>

VizReply ==
  \E c \in BagToSet(vizCalls) :
    \/ c.kind = "both" /\ \E centre \in BOOLEAN : VizComes(c, centre)
    \/ c.kind = "sum" /\ SumComes(c)
    \/ c.kind = "edges" /\ EdgesCome(c)
    \/ VizCallFails(c)

VizUser ==
  \/ \E k \in canvas, n \in Vertex : RightClick(k, n) \/ NodeClick(k, n)
  \/ \E k \in canvas, a, b \in Vertex : EdgeClick(k, a, b)
  \/ CloseViz
=============================================================================
