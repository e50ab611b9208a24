----------------------------- MODULE GraphPanel -----------------------------
(***************************************************************************)
(* The graph panel of the Dog House (graph.js with ajax.js, template.js,   *)
(* history.js and element-toolbar.js): the list of graphs, the profile of  *)
(* a graph, the pages of its vertices and edges, the filter on a key       *)
(* index, the view of one element, and the dialogs for extensions and for  *)
(* the visualization.                                                      *)
(*                                                                         *)
(* panel is what the mediator remembers and what the page shows; a handler *)
(* is an operator from one panel to the next, and they run in turn.  The   *)
(* calls for pages and elements are synchronous and so part of the         *)
(* handler; those for lists and profiles are answered later, in any order. *)
(* The address may change without the page, when rexster.js ignores the    *)
(* event (DogHouse).                                                       *)
(***************************************************************************)
EXTENDS Visualization, Integers

CONSTANTS
  Graph, First,
  Sail,         \* the graphs that are a sail graph
  Key,          \* a key of an index with a value
  Count,        \* how many elements a list has, by graph, feature and filter
  None, Undefined,
  Opened,       \* the addresses that the page may be opened at
  MaxActs       \* what the user does, at most (bound)

Feature == {"vertices", "edges"}
Uri == [graph : Graph \cup {None}, element : Feature \cup {None},
        id : Vertex \cup {None}, start : Nat, key : Key \cup {None}]

ASSUME GraphPanelAssumption ==
  /\ First \in Graph /\ Sail \subseteq Graph
  /\ Count \in [Graph \X Feature \X (Key \cup {None}) -> Nat]
  /\ Opened \subseteq Uri
  /\ MaxActs \in Nat
  /\ None \notin Graph \cup Vertex \cup Key \cup Feature \cup {"browser", "element"}
  /\ Undefined \notin Uri /\ None \notin Uri

VARIABLES
  entries, pos,       \* the history of the tab
  lists,              \* calls of getGraphs under way
  profiles,           \* calls of getGraph under way, by graph
  panel,              \* the graph panel
  filter,             \* the dialog of the filter: open, the keys on offer
  form,               \* the dialog of the extensions
  formCalls,          \* the extension calls under way
  acts,               \* how much the user has done so far
  seen                \* what happened in this history of the page

panelVars == <<entries, pos, lists, profiles, panel, filter>>
formVars == <<form, formCalls>>
vars == <<panelVars, formVars, vizVars, acts, seen>>

Happening == {"hasty", "failed", "ignored", "restored", "overlapped", "stray",
              "behind", "unreadable"}

PageSize == 10
NoRows == [n |-> 0]

GraphUri(g) == [graph |-> g, element |-> None, id |-> None, start |-> 0, key |-> None]
PageUri(g, e, s, k) == [graph |-> g, element |-> e, id |-> None, start |-> s, key |-> k]
ElementUri(g, e, i) == [graph |-> g, element |-> e, id |-> i, start |-> 0, key |-> None]

uri == entries[pos]

Pushed(u, times) ==
  /\ entries' = SubSeq(entries, 1, pos) \o [i \in 1 .. times |-> u]
  /\ pos' = Len(entries')

Stays == UNCHANGED <<entries, pos>>

NewPanel ==
  [name |-> None, feature |-> None, start |-> 0, total |-> 0, index |-> None,
   isSail |-> FALSE,                                     \* the mediator
   view |-> None, rows |-> NoRows, pager |-> TRUE, cancel |-> TRUE,
   links |-> [b \in {"first", "prev", "next", "cancel"} |-> Undefined],
   browseOf |-> Undefined, vertices |-> TRUE,            \* the browse menu
   viewed |-> None, ext |-> None, extShown |-> TRUE,
   title |-> None, detail |-> None]

(***************************************************************************)
(* The pages: calculateNextPageRange, calculatePreviousPageRange,          *)
(* renderPagedResults and panelGraphNavigationPaged.  The total that the   *)
(* server answers is the number of rows of the page.                       *)
(***************************************************************************)
NextStart(p) == IF p.total < PageSize THEN p.start ELSE p.start + PageSize

PreviousStart(p) == IF p.start < PageSize THEN 0 ELSE p.start - PageSize

RowsAt(g, e, k, start) ==
  LET left == Count[<<g, e, k>>] - start
  IN  IF left <= 0 THEN 0 ELSE IF left < PageSize THEN left ELSE PageSize

\* The links are made from the range that was just rendered.
Links(p) ==
  LET To(start, k) == PageUri(p.name, p.feature, start, k)
  IN  [first |-> To(0, p.index), prev |-> To(PreviousStart(p), p.index),
       next |-> To(NextStart(p), p.index), cancel |-> To(0, None)]

RenderPagedResults(p, start, n) ==
  LET q == IF n > 0
           THEN [p EXCEPT !.start = start, !.total = n,
                   !.rows = [graph |-> p.name, feature |-> p.feature,
                             key |-> p.index, start |-> start, n |-> n,
                             tools |-> ~p.isSail, wired |-> FALSE]]
           ELSE [p EXCEPT !.start = 0, !.total = 0, !.pager = FALSE]
  IN  [q EXCEPT !.links = Links(q), !.cancel = q.index # None]

Paged(p, start, ok) ==
  LET q == [p EXCEPT !.rows = NoRows]
  IN  IF ok THEN RenderPagedResults(q, start, RowsAt(p.name, p.feature, p.index, start))
            ELSE q

\* Mutant: a feature is chosen and the one before is listed.
NavigationSelected_Stale(p, e, start, ok) ==
  Paged([p EXCEPT !.extShown = FALSE, !.view = "browser", !.pager = TRUE,
           !.feature = IF @ = None THEN e ELSE @], start, ok)

NavigationSelected(p, e, start, ok) ==
  Paged([p EXCEPT !.extShown = FALSE, !.feature = e, !.view = "browser",
           !.pager = TRUE], start, ok)

(***************************************************************************)
(* panelGraphElementViewSelected: the element, and its edges or its ends,  *)
(* each by a call of its own.  parts are the calls that succeed; without   *)
(* the edge its ends are not asked for.                                    *)
(***************************************************************************)
Parts(e) == {s \in SUBSET {"element", "in", "out"} :
               e = "edges" /\ s # {} => "element" \in s}

ElementView(p, e, i, parts) ==
  LET q == [p EXCEPT !.feature = e, !.view = "element",
              !.viewed = [graph |-> p.name, element |-> e, id |-> i, parts |-> parts,
                          tools |-> ~p.isSail]]
  IN  IF "element" \in parts
      THEN [q EXCEPT !.ext = ElementUri(p.name, e, i), !.extShown = TRUE] ELSE q

(***************************************************************************)
(* graphSelectionChanged: the profile is asked for, and the page of the    *)
(* address u is shown before it comes.  An index in the address is taken;  *)
(* without one the filter stays as it is.                                  *)
(***************************************************************************)
GraphSelectionChanged(p, u, ok, parts) ==
  LET q == [p EXCEPT !.name = u.graph, !.vertices = TRUE, !.browseOf = u.graph]
  IN  CASE u.element = None -> [q EXCEPT !.view = None]
        [] u.element # None /\ u.id # None -> ElementView(q, u.element, u.id, parts)
        [] OTHER -> NavigationSelected(
                      [q EXCEPT !.index = IF u.key # None THEN u.key ELSE @],
                      u.element, u.start, ok)

\* What is remembered of the calls of a handler.
Fails(u, ok, parts) ==
  IF u.element # None /\ (IF u.id = None THEN ~ok ELSE "element" \notin parts)
  THEN {"failed"} ELSE {}

AsksProfile(g) ==
  profiles' = [profiles EXCEPT ![g] = @ + 1]

Overlaps(g) ==
  IF \E h \in Graph \ {g} : profiles[h] > 0 THEN {"overlapped"} ELSE {}

Behind == IF filter.open THEN {"behind"} ELSE {}

(***************************************************************************)
(* initGraphList.  The handlers of the pager are bound once more, to every *)
(* li.pager-button in the panel: the toolbars of rows that are there by    *)
(* then have that class as well.                                           *)
(***************************************************************************)
Wired(p) == IF p.rows = NoRows THEN p ELSE [p EXCEPT !.rows.wired = TRUE]

ListComes ==
  /\ lists > 0 /\ lists' = lists - 1
  /\ LET u == IF uri.graph = None THEN GraphUri(First) ELSE uri
     IN  /\ IF uri.graph = None THEN Pushed(u, 1) ELSE Stays
         /\ AsksProfile(u.graph)
         /\ \E ok \in BOOLEAN, parts \in Parts(u.element) :
              /\ panel' = Wired(GraphSelectionChanged(panel, u, ok, parts))
              /\ seen' = seen \cup Fails(u, ok, parts) \cup Overlaps(u.graph) \cup Behind
  /\ UNCHANGED <<filter, formVars, vizVars, acts>>

ListFails ==
  /\ lists > 0 /\ lists' = lists - 1
  /\ seen' = seen \cup {"failed"}
  /\ UNCHANGED <<entries, pos, profiles, panel, filter, formVars, vizVars, acts>>

\* Mutant: the title is that of the graph that was asked for.
ProfileShown_AsAsked(p, g) ==
  [p EXCEPT !.isSail = g \in Sail, !.vertices = @ /\ g \notin Sail,
            !.title = g, !.detail = g, !.ext = GraphUri(g), !.extShown = TRUE]

\* The title is the graph of now, the rest is the graph that was asked for.
ProfileShown(p, g) ==
  [p EXCEPT !.isSail = g \in Sail, !.vertices = @ /\ g \notin Sail,
            !.title = p.name, !.detail = g, !.ext = GraphUri(g), !.extShown = TRUE]

ProfileComes(g) ==
  /\ profiles[g] > 0
  /\ profiles' = [profiles EXCEPT ![g] = @ - 1]
  /\ \/ panel' = ProfileShown(panel, g) /\ UNCHANGED seen
     \/ panel' = panel /\ seen' = seen \cup {"failed"}
  /\ UNCHANGED <<entries, pos, lists, filter, formVars, vizVars, acts>>

Init ==
  /\ \E u \in Opened : entries = <<u>>
  /\ pos = 1 /\ lists = 1 /\ profiles = [g \in Graph |-> 0]
  /\ panel = NewPanel
  /\ filter = [open |-> FALSE, keys |-> {}]
  /\ form = [open |-> FALSE, loading |-> FALSE, result |-> <<>>, runs |-> 0]
  /\ formCalls = {}
  /\ VizInit
  /\ acts = 0 /\ seen = {}

(***************************************************************************)
(* The user.  The dialogs are modal; the buttons of the browser are not    *)
(* under them.                                                             *)
(***************************************************************************)
Waiting == lists > 0 \/ (\E g \in Graph : profiles[g] > 0) \/ formCalls # {}
             \/ vizCalls # EmptyBag

NoDialog == ~vizOpen /\ ~filter.open /\ ~form.open

Acts(what) ==
  /\ acts < MaxActs /\ acts' = acts + 1
  /\ seen' = seen \cup what \cup (IF Waiting THEN {"hasty"} ELSE {})

\* A click on the panel itself, which is there when a list has come.
Clicks(what) ==
  /\ Acts(what)
  /\ NoDialog /\ panel.name # None
  /\ UNCHANGED <<lists, formVars, vizVars>>

\* The panel is shown a page, by a synchronous call.
Shows(Page(_)) ==
  \E ok \in BOOLEAN : /\ panel' = Page(ok)
                      /\ Clicks(IF ok THEN {} ELSE {"failed"})
                      /\ UNCHANGED <<profiles, filter>>

SelectGraph(g) ==
  /\ Clicks(Overlaps(g))
  /\ Pushed(GraphUri(g), 1)
  /\ panel' = GraphSelectionChanged(panel, GraphUri(g), TRUE, {})
  /\ AsksProfile(g)
  /\ UNCHANGED filter

BrowseLink(e) ==
  /\ panel.name # None
  /\ e = "vertices" => panel.vertices
  /\ Pushed(PageUri(panel.browseOf, e, 0, None), 1)
  /\ Shows(LAMBDA ok : NavigationSelected([panel EXCEPT !.index = None], e, 0, ok))

\* A link without an address pushes the address once more.
Pager(button) ==
  /\ panel.view = "browser" /\ panel.pager
  /\ button = "cancel" => panel.cancel
  /\ LET u == panel.links[button]
     IN  Pushed(IF u = Undefined THEN uri ELSE u, 1)
  /\ Shows(LAMBDA ok :
       CASE button = "first" -> Paged(panel, 0, ok)
         [] button = "prev" -> Paged(panel, PreviousStart(panel), ok)
         [] button = "next" -> Paged(panel, NextStart(panel), ok)
         [] button = "cancel" -> Paged([panel EXCEPT !.index = None], 0, ok))

\* The search button has no link; its keys are fetched by a synchronous
\* call whose failure is not handled, and not at all without a feature in
\* the address, which throws.
Search ==
  /\ panel.view = "browser" /\ panel.pager
  /\ Clicks({})
  /\ Pushed(uri, 1)
  /\ IF uri.element = None THEN filter' = [filter EXCEPT !.keys = {}]
     ELSE \E keys \in {Key, {}} : filter' = [open |-> TRUE, keys |-> keys]
  /\ UNCHANGED <<profiles, panel>>

\* Without a feature in the address the handler throws after the index is set.
Filter(k) ==
  /\ filter.open /\ k \in filter.keys
  /\ UNCHANGED <<lists, profiles, formVars, vizVars>>
  /\ LET p == [panel EXCEPT !.index = k]
     IN  IF uri.element = None
         THEN /\ Acts({}) /\ panel' = p
              /\ UNCHANGED <<entries, pos, filter>>
         ELSE /\ Pushed(PageUri(uri.graph, uri.element, 0, k), 1)
              /\ filter' = [filter EXCEPT !.open = FALSE]
              /\ \E ok \in BOOLEAN : /\ panel' = Paged(p, 0, ok)
                                     /\ Acts(IF ok THEN {} ELSE {"failed"})

\* Cancel, or Filter without a key.
LeaveFilter ==
  /\ Acts({}) /\ filter.open
  /\ filter' = [filter EXCEPT !.open = FALSE]
  /\ UNCHANGED <<entries, pos, lists, profiles, panel, formVars, vizVars>>

Rows == panel.view = "browser" /\ panel.rows # NoRows

\* The click reaches the handler of the pager as well, on a wired toolbar.
ViewElement(i) ==
  /\ Rows /\ panel.rows.tools
  /\ Pushed(ElementUri(panel.rows.graph, panel.rows.feature, i),
            IF panel.rows.wired THEN 2 ELSE 1)
  /\ \E parts \in Parts(panel.rows.feature) :
       /\ panel' = ElementView(panel, panel.rows.feature, i, parts)
       /\ Clicks(IF "element" \in parts THEN {} ELSE {"failed"})
  /\ UNCHANGED <<profiles, filter>>

\* An edge or a neighbour of the vertex, or an end of the edge, in view.
FollowLink(e, i) ==
  /\ panel.view = "element" /\ panel.viewed.parts \cap {"in", "out"} # {}
  /\ panel.viewed.element = "edges" => panel.viewed.tools /\ e = "vertices"
  /\ Pushed(ElementUri(panel.viewed.graph, e, i), 1)
  /\ \E parts \in Parts(e) :
       /\ panel' = ElementView(panel, e, i, parts)
       /\ Clicks(IF "element" \in parts THEN {} ELSE {"failed"})
  /\ UNCHANGED <<profiles, filter>>

\* The Visualize button, of a row or of the vertex in view.
ClickVisualize(v) ==
  /\ NoDialog
  /\ LET row == Rows /\ panel.rows.tools /\ panel.rows.feature = "vertices"
         wired == row /\ panel.rows.wired
     IN  /\ row \/ /\ panel.view = "element" /\ panel.viewed.tools
                   /\ "element" \in panel.viewed.parts
                   /\ panel.viewed.element = "vertices" => v = panel.viewed.id
         /\ IF wired THEN Pushed(ElementUri(panel.rows.graph, "vertices", v), 1)
                     ELSE Stays
         /\ Acts(IF wired THEN {"stray"} ELSE {})
  /\ Visualize(v)
  /\ UNCHANGED <<lists, profiles, panel, filter, formVars>>

InVisualization ==
  /\ VizUser /\ Acts({})
  /\ UNCHANGED <<panelVars, formVars>>

VizReplies ==
  /\ VizReply
  /\ UNCHANGED <<panelVars, formVars, acts, seen>>

(***************************************************************************)
(* The dialog of the extensions.  A result is put after those that are     *)
(* shown, an error in their place; an error whose text is not JSON throws  *)
(* before the handler that takes the Loading sign away.                    *)
(***************************************************************************)
RunExtension ==
  /\ panel.extShown /\ panel.ext # None
  /\ NoDialog /\ Acts({})
  /\ form' = [open |-> TRUE, loading |-> TRUE, result |-> <<>>, runs |-> form.runs + 1]
  /\ formCalls' = formCalls \cup {form.runs + 1}
  /\ UNCHANGED <<panelVars, vizVars>>

FormComes(c) ==
  /\ c \in formCalls /\ formCalls' = formCalls \ {c}
  /\ \/ /\ form' = [form EXCEPT !.result = Append(@, c), !.loading = FALSE]
        /\ UNCHANGED seen
     \/ /\ form' = [form EXCEPT !.result = <<c>>, !.loading = FALSE]
        /\ UNCHANGED seen
     \/ /\ form' = [form EXCEPT !.result = <<>>]
        /\ seen' = seen \cup {"unreadable"}
  /\ UNCHANGED <<panelVars, vizVars, acts>>

CloseForm ==
  /\ form.open /\ Acts({})
  /\ form' = [form EXCEPT !.open = FALSE]
  /\ UNCHANGED <<panelVars, formCalls, vizVars>>

\* A step back or forward.
GoTo(to, restores) ==
  /\ to # pos /\ pos' = to
  /\ Acts({IF restores THEN "restored" ELSE "ignored"})
  /\ lists' = IF restores THEN lists + 1 ELSE lists
  /\ UNCHANGED <<entries, profiles, panel, filter, formVars, vizVars>>

User ==
  \/ \E g \in Graph : SelectGraph(g)
  \/ \E e \in Feature : BrowseLink(e)
  \/ \E b \in {"first", "prev", "next", "cancel"} : Pager(b)
  \/ Search \/ LeaveFilter \/ \E k \in Key : Filter(k)
  \/ \E i \in Vertex : ViewElement(i) \/ \E e \in Feature : FollowLink(e, i)
  \/ \E v \in Vertex : ClickVisualize(v)
  \/ InVisualization
  \/ RunExtension \/ CloseForm
  \/ \E to \in DOMAIN entries, restores \in BOOLEAN : GoTo(to, restores)

Replies ==
  \/ ListComes \/ ListFails \/ \E g \in Graph : ProfileComes(g)
  \/ VizReplies \/ \E c \in formCalls : FormComes(c)

Next == User \/ Replies

Spec == Init /\ [][Next]_vars

-----------------------------------------------------------------------------
TypeOK ==
  /\ entries \in Seq(Uri) /\ pos \in DOMAIN entries
  /\ lists \in Nat /\ profiles \in [Graph -> Nat]
  /\ panel.name \in Graph \cup {None} /\ panel.feature \in Feature \cup {None}
  /\ panel.start \in Nat /\ panel.total \in 0 .. PageSize
  /\ panel.index \in Key \cup {None}
  /\ panel.view \in {None, "browser", "element"}
  /\ \A b \in DOMAIN panel.links : panel.links[b] \in Uri \cup {Undefined}
  /\ panel.ext \in Uri \cup {None}
  /\ filter.keys \subseteq Key /\ formCalls \subseteq 1 .. form.runs
  /\ VizTypeOK
  /\ acts \in 0 .. MaxActs /\ seen \subseteq Happening

Ready == lists = 0 /\ panel.name # None

(***************************************************************************)
(* When the lists have come, the page shows what its address names,        *)
(* whatever was clicked meanwhile: the graph, the list and the page in it, *)
(* or the element (graphSelectionChanged, panelGraphNavigationPaged,       *)
(* panelGraphElementViewSelected).  It need not after a call that failed,  *)
(* not after Visualize on a toolbar that the pager is bound to, and not    *)
(* after a list that came behind the dialog of the filter: what is then    *)
(* filtered is listed, but the view is the one that the list brought.      *)
(***************************************************************************)
AddressNamesPage ==
  Ready /\ seen \cap {"failed", "ignored", "stray", "behind"} = {} =>
    /\ panel.name = uri.graph
    /\ uri.element = None => panel.view = None
    /\ uri.element # None /\ uri.id # None =>
         /\ panel.view = "element"
         /\ panel.viewed.graph = uri.graph /\ panel.viewed.element = uri.element
         /\ panel.viewed.id = uri.id
    /\ uri.element # None /\ uri.id = None =>
         /\ panel.view = "browser"
         /\ panel.rows # NoRows =>
              /\ panel.rows.graph = uri.graph /\ panel.rows.feature = uri.element
              /\ panel.rows.start = uri.start

(***************************************************************************)
(* The rows are those of the filter that the address names, though the     *)
(* filter is kept in a variable of its own.  Not after a step back: an     *)
(* address without an index leaves the variable as it is                   *)
(* (graphSelectionChanged).                                                *)
(***************************************************************************)
FilterIsInAddress ==
  Ready /\ seen \cap {"failed", "ignored", "stray", "restored"} = {} /\ Rows =>
    panel.rows.key = uri.key

(***************************************************************************)
(* However often next and previous are pressed, the pager stays on the     *)
(* page: next does not go beyond a page that is not full                   *)
(* (calculateNextPageRange).  It does beyond a last page that is full, and *)
(* a step back to a later page may find a filter that it does not name.    *)
(***************************************************************************)
PagerStays ==
  Ready /\ panel.view = "browser" /\ panel.index = uri.key =>
    \/ panel.rows # NoRows
    \/ Count[<<panel.name, panel.feature, panel.index>>] % PageSize = 0
    \/ panel.pager
    \/ seen \cap {"failed", "ignored"} # {}

(***************************************************************************)
(* The title is that of the selected graph when its profiles have come, in *)
(* whatever order they come.  The detail and the vertices link are that    *)
(* graph's as well, unless profiles of two graphs were asked for at once.  *)
(***************************************************************************)
ProfileOfSelectedGraph ==
  Ready /\ (\A g \in Graph : profiles[g] = 0) /\ "failed" \notin seen =>
    /\ panel.title = panel.name
    /\ "overlapped" \notin seen => /\ panel.detail = panel.name
                                   /\ panel.vertices = (panel.name \notin Sail)

(***************************************************************************)
(* The dialog of an extension shows nothing but one result, and for a user *)
(* who waits it is that of the extension it was opened for; the Loading    *)
(* sign goes when the answers are there, unless one cannot be read.        *)
(***************************************************************************)
FormShowsOneResult ==
  /\ "hasty" \notin seen => form.result \in {<<>>, <<form.runs>>}
  /\ formCalls = {} /\ "unreadable" \notin seen => ~form.loading

(***************************************************************************)
(* For a user who waits, the dialog holds one drawing, of the vertex it    *)
(* was opened for and the one that sum adds to, and nothing once it is     *)
(* closed, though rgraph and the canvas belong to no press (graph-viz.js). *)
(***************************************************************************)
DrawingIsOfVertex ==
  "hasty" \notin seen =>
    /\ canvas \subseteq {k \in {Len(vizOf)} : vizOpen /\ rgraph = k}
    /\ ~vizOpen => right = {}
    /\ Cardinality(right) <= 1
    /\ \A k \in canvas : vizOf[k].nodes \subseteq
         {vizOf[k].vertex} \cup UNION {Near[n] : n \in vizOf[k].nodes \cup {vizOf[k].vertex}}

(***************************************************************************)
(* The address of the page tells all that is on it: graph, list, page,     *)
(* filter and element, which the panel keeps in variables of its own.      *)
(***************************************************************************)
AddressTellsAll == TypeOK /\ AddressNamesPage /\ FilterIsInAddress /\ PagerStays

(***************************************************************************)
(* A dialog that is opened again holds nothing of the time before          *)
(* (showExtensionDialog, graph-viz.js), though answers may still be due.   *)
(***************************************************************************)
DialogsHoldOne == FormShowsOneResult /\ DrawingIsOfVertex
=============================================================================
