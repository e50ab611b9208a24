-------------------------- MODULE GraphPanelProofs --------------------------
(***************************************************************************)
(* Theorems about GraphPanel and Visualization, for any graphs, lists,     *)
(* addresses and number of acts.  Four arguments are made side by side:    *)
(* what the mediator remembers is what the panel shows and what the links  *)
(* of the pager say (PageInv), which is what the address names (NameInv,   *)
(* CalmInv); every address names a page that exists (PagerInv); a profile  *)
(* that is missing is under way (ProfileInv); and a user who waits has one *)
(* call under way at most (FormInv, DrawInv).                              *)
(***************************************************************************)
EXTENDS GraphPanel, FiniteSetTheorems, TLAPS

Button == {"first", "prev", "next", "cancel"}

RowsType ==
  {NoRows} \cup [graph : Graph, feature : Feature, key : Key \cup {None}, start : Nat,
                 n : 1 .. PageSize, tools : BOOLEAN, wired : BOOLEAN]

ElementsInView ==
  [graph : Graph, element : Feature, id : Vertex,
   parts : SUBSET {"element", "in", "out"}, tools : BOOLEAN]

PanelType ==
  [name : Graph \cup {None}, feature : Feature \cup {None}, start : Nat,
   total : 0 .. PageSize, index : Key \cup {None}, isSail : BOOLEAN,
   view : {None, "browser", "element"}, rows : RowsType, pager : BOOLEAN,
   cancel : BOOLEAN, links : [Button -> Uri \cup {Undefined}],
   browseOf : Graph \cup {Undefined}, vertices : BOOLEAN, viewed : {None} \cup ElementsInView,
   ext : Uri \cup {None}, extShown : BOOLEAN, title : Graph \cup {None},
   detail : Graph \cup {None}]

\* What the mediator has for certain by the time a view is shown.
Complete(p) ==
  /\ p.name # None => p.browseOf = p.name
  /\ p.view # None => p.name # None
  /\ p.view = "browser" => p.feature # None
  /\ p.view = "element" => p.viewed \in ElementsInView

\* The mediator, the rows and the links speak of the same page.
ListShown(p) ==
  /\ p.links = Links(p)
  /\ p.rows = NoRows => ~p.pager
  /\ p.rows # NoRows =>
       /\ p.rows.graph = p.name /\ p.rows.feature = p.feature
       /\ p.rows.key = p.index /\ p.rows.start = p.start
       /\ p.total = RowsAt(p.name, p.feature, p.index, p.start)

\* The list that an address names reaches to its page.
PageExists(u) ==
  u.graph # None /\ u.element # None /\ u.id = None =>
    u.start % PageSize = 0 /\ u.start <= Count[<<u.graph, u.element, u.key>>]

LinksExist(p) ==
  /\ p.start % PageSize = 0
  /\ \A b \in Button : p.links[b] # Undefined => PageExists(p.links[b])

-----------------------------------------------------------------------------
(***************************************************************************)
(* The pages.                                                              *)
(***************************************************************************)
LEMMA RowsOnPage ==
  ASSUME NEW g \in Graph, NEW e \in Feature, NEW k \in Key \cup {None}, NEW s \in Nat
  PROVE  /\ RowsAt(g, e, k, s) \in 0 .. PageSize
         /\ RowsAt(g, e, k, s) = 0 => Count[<<g, e, k>>] <= s
         /\ RowsAt(g, e, k, s) > 0 => s < Count[<<g, e, k>>]
         /\ RowsAt(g, e, k, s) = PageSize => s + PageSize <= Count[<<g, e, k>>]
<1>1. Count[<<g, e, k>>] \in Nat
  BY GraphPanelAssumption
<1> QED
  BY <1>1 DEF RowsAt, PageSize

LEMMA UriTypes ==
  ASSUME NEW g \in Graph \cup {None}, NEW e \in Feature, NEW s \in Nat,
         NEW k \in Key \cup {None}, NEW i \in Vertex
  PROVE  /\ GraphUri(g) \in Uri /\ PageUri(g, e, s, k) \in Uri /\ ElementUri(g, e, i) \in Uri
         /\ GraphUri(g) = [graph |-> g, element |-> None, id |-> None, start |-> 0, key |-> None]
         /\ PageUri(g, e, s, k) = [graph |-> g, element |-> e, id |-> None, start |-> s, key |-> k]
         /\ ElementUri(g, e, i) = [graph |-> g, element |-> e, id |-> i, start |-> 0, key |-> None]
BY DEF GraphUri, PageUri, ElementUri, Uri

LEMMA Neighbours ==
  ASSUME NEW p \in PanelType
  PROVE  /\ NextStart(p) \in Nat /\ PreviousStart(p) \in Nat
         /\ PreviousStart(p) <= p.start
         /\ p.total < PageSize => NextStart(p) = p.start
         /\ p.total = PageSize => NextStart(p) = p.start + PageSize
         /\ p.start % PageSize = 0 => NextStart(p) % PageSize = 0 /\ PreviousStart(p) % PageSize = 0
<1>1. p.start \in Nat /\ p.total \in 0 .. PageSize
  BY DEF PanelType
<1> QED
  BY <1>1 DEF NextStart, PreviousStart, PageSize

\* What a handler may write into a field of the panel.
LEMMA FieldsKeep ==
  ASSUME NEW p \in PanelType
  PROVE  /\ \A x \in Graph \cup {None} : [p EXCEPT !.name = x] \in PanelType
         /\ \A x \in Feature \cup {None} : [p EXCEPT !.feature = x] \in PanelType
         /\ \A x \in Nat : [p EXCEPT !.start = x] \in PanelType
         /\ \A x \in 0 .. PageSize : [p EXCEPT !.total = x] \in PanelType
         /\ \A x \in Key \cup {None} : [p EXCEPT !.index = x] \in PanelType
         /\ \A x \in BOOLEAN : [p EXCEPT !.isSail = x] \in PanelType
         /\ \A x \in {None, "browser", "element"} : [p EXCEPT !.view = x] \in PanelType
         /\ \A x \in RowsType : [p EXCEPT !.rows = x] \in PanelType
         /\ \A x \in BOOLEAN : [p EXCEPT !.pager = x] \in PanelType
         /\ \A x \in BOOLEAN : [p EXCEPT !.cancel = x] \in PanelType
         /\ \A x \in [Button -> Uri \cup {Undefined}] : [p EXCEPT !.links = x] \in PanelType
         /\ \A x \in Graph \cup {Undefined} : [p EXCEPT !.browseOf = x] \in PanelType
         /\ \A x \in BOOLEAN : [p EXCEPT !.vertices = x] \in PanelType
         /\ \A x \in {None} \cup ElementsInView : [p EXCEPT !.viewed = x] \in PanelType
         /\ \A x \in Uri \cup {None} : [p EXCEPT !.ext = x] \in PanelType
         /\ \A x \in BOOLEAN : [p EXCEPT !.extShown = x] \in PanelType
         /\ \A x \in Graph \cup {None} : [p EXCEPT !.title = x] \in PanelType
         /\ \A x \in Graph \cup {None} : [p EXCEPT !.detail = x] \in PanelType
<1>1. \A x \in Graph \cup {None} : [p EXCEPT !.name = x] \in PanelType
  BY DEF PanelType
<1>2. \A x \in Feature \cup {None} : [p EXCEPT !.feature = x] \in PanelType
  BY DEF PanelType
<1>3. \A x \in Nat : [p EXCEPT !.start = x] \in PanelType
  BY DEF PanelType
<1>4. \A x \in 0 .. PageSize : [p EXCEPT !.total = x] \in PanelType
  BY DEF PanelType
<1>5. \A x \in Key \cup {None} : [p EXCEPT !.index = x] \in PanelType
  BY DEF PanelType
<1>6. \A x \in BOOLEAN : [p EXCEPT !.isSail = x] \in PanelType
  BY DEF PanelType
<1>7. \A x \in {None, "browser", "element"} : [p EXCEPT !.view = x] \in PanelType
  BY DEF PanelType
<1>8. \A x \in RowsType : [p EXCEPT !.rows = x] \in PanelType
  BY DEF PanelType
<1>9. \A x \in BOOLEAN : [p EXCEPT !.pager = x] \in PanelType
  BY DEF PanelType
<1>10. \A x \in BOOLEAN : [p EXCEPT !.cancel = x] \in PanelType
  BY DEF PanelType
<1>11. \A x \in [Button -> Uri \cup {Undefined}] : [p EXCEPT !.links = x] \in PanelType
  BY DEF PanelType
<1>12. \A x \in Graph \cup {Undefined} : [p EXCEPT !.browseOf = x] \in PanelType
  BY DEF PanelType
<1>13. \A x \in BOOLEAN : [p EXCEPT !.vertices = x] \in PanelType
  BY DEF PanelType
<1>14. \A x \in {None} \cup ElementsInView : [p EXCEPT !.viewed = x] \in PanelType
  BY DEF PanelType
<1>15. \A x \in Uri \cup {None} : [p EXCEPT !.ext = x] \in PanelType
  BY DEF PanelType
<1>16. \A x \in BOOLEAN : [p EXCEPT !.extShown = x] \in PanelType
  BY DEF PanelType
<1>17. \A x \in Graph \cup {None} : [p EXCEPT !.title = x] \in PanelType
  BY DEF PanelType
<1>18. \A x \in Graph \cup {None} : [p EXCEPT !.detail = x] \in PanelType
  BY DEF PanelType
<1> QED
  BY <1>1, <1>2, <1>3, <1>4, <1>5, <1>6, <1>7, <1>8, <1>9,
     <1>10, <1>11, <1>12, <1>13, <1>14, <1>15, <1>16, <1>17, <1>18

\* q is p with the page at s of the list of e, filtered by k, if the call for it
\* succeeds.
Listed(p, q, e, k, s, ok) ==
  /\ q.name = p.name /\ q.feature = e /\ q.index = k /\ q.browseOf = p.browseOf
  /\ q.title = p.title /\ q.detail = p.detail /\ q.vertices = p.vertices
  /\ ok => /\ ListShown(q)
           /\ q.rows # NoRows => q.rows.start = s
           /\ q.rows = NoRows => RowsAt(p.name, e, k, s) = 0
  /\ s % PageSize = 0 /\ LinksExist(p) => LinksExist(q)

Shown(p, q, s, ok) ==
  Listed(p, q, p.feature, p.index, s, ok) /\ q.view = p.view /\ q.viewed = p.viewed

LEMMA LinksOfPage ==
  ASSUME NEW p \in PanelType, p.name \in Graph, p.feature \in Feature
  PROVE  /\ Links(p) \in [Button -> Uri]
         /\ \A b \in Button : /\ Links(p)[b].graph = p.name /\ Links(p)[b].element = p.feature
                              /\ Links(p)[b].id = None
         /\ Links(p)["first"].start = 0 /\ Links(p)["first"].key = p.index
         /\ Links(p)["prev"].start = PreviousStart(p) /\ Links(p)["prev"].key = p.index
         /\ Links(p)["next"].start = NextStart(p) /\ Links(p)["next"].key = p.index
         /\ Links(p)["cancel"].start = 0 /\ Links(p)["cancel"].key = None
<1>1. p.index \in Key \cup {None}
  BY DEF PanelType
<1>2. /\ Links(p) = [b \in Button |-> Links(p)[b]]
      /\ Links(p)["first"] = PageUri(p.name, p.feature, 0, p.index)
      /\ Links(p)["prev"] = PageUri(p.name, p.feature, PreviousStart(p), p.index)
      /\ Links(p)["next"] = PageUri(p.name, p.feature, NextStart(p), p.index)
      /\ Links(p)["cancel"] = PageUri(p.name, p.feature, 0, None)
  BY DEF Links, Button
<1>3. ASSUME NEW s \in Nat, NEW k \in Key \cup {None}
      PROVE  LET u == PageUri(p.name, p.feature, s, k)
             IN  /\ u \in Uri /\ u.graph = p.name /\ u.element = p.feature
                 /\ u.id = None /\ u.start = s /\ u.key = k
  BY DEF PageUri, Uri
<1> HIDE DEF Links
<1>4. PreviousStart(p) \in Nat /\ NextStart(p) \in Nat
  BY Neighbours
<1>5. \A b \in Button : \E s \in Nat, k \in Key \cup {None} :
        Links(p)[b] = PageUri(p.name, p.feature, s, k)
  BY <1>1, <1>2, <1>4 DEF Button
<1>6. Links(p) \in [Button -> Uri]
  <2>1. \A b \in Button : Links(p)[b] \in Uri
    BY <1>3, <1>5
  <2> QED
    BY <1>2, <2>1
<1>7. \A b \in Button : /\ Links(p)[b].graph = p.name /\ Links(p)[b].element = p.feature
                        /\ Links(p)[b].id = None
  BY <1>3, <1>5
<1>8. /\ Links(p)["first"].start = 0 /\ Links(p)["first"].key = p.index
      /\ Links(p)["cancel"].start = 0 /\ Links(p)["cancel"].key = None
  BY <1>2 DEF PageUri
<1>9. /\ Links(p)["prev"].start = PreviousStart(p) /\ Links(p)["prev"].key = p.index
      /\ Links(p)["next"].start = NextStart(p) /\ Links(p)["next"].key = p.index
  BY <1>2 DEF PageUri
<1> QED
  BY <1>6, <1>7, <1>8, <1>9

LEMMA RenderedPage ==
  ASSUME NEW p \in PanelType, p.name \in Graph, p.feature \in Feature, p.rows = NoRows,
         NEW s \in Nat
  PROVE  LET q == RenderPagedResults(p, s, RowsAt(p.name, p.feature, p.index, s))
         IN  q \in PanelType /\ Shown(p, q, s, TRUE)
<1> DEFINE n == RowsAt(p.name, p.feature, p.index, s)
           r == IF n > 0
                THEN [p EXCEPT !.start = s, !.total = n,
                        !.rows = [graph |-> p.name, feature |-> p.feature,
                                  key |-> p.index, start |-> s, n |-> n,
                                  tools |-> ~p.isSail, wired |-> FALSE]]
                ELSE [p EXCEPT !.start = 0, !.total = 0, !.pager = FALSE]
           q == [r EXCEPT !.links = Links(r), !.cancel = r.index # None]
<1>1. p.index \in Key \cup {None} /\ p.isSail \in BOOLEAN /\ p.start \in Nat
  BY DEF PanelType
<1>2. /\ n \in 0 .. PageSize
      /\ n > 0 => s < Count[<<p.name, p.feature, p.index>>]
      /\ n = PageSize => s + PageSize <= Count[<<p.name, p.feature, p.index>>]
      /\ Count[<<p.name, p.feature, p.index>>] \in Nat
  BY <1>1, RowsOnPage, GraphPanelAssumption
<1>3. RenderPagedResults(p, s, n) = q
  BY DEF RenderPagedResults
<1> HIDE DEF n
<1>4. n > 0 => [graph |-> p.name, feature |-> p.feature, key |-> p.index, start |-> s,
                n |-> n, tools |-> ~p.isSail, wired |-> FALSE] \in RowsType \ {NoRows}
  BY <1>1, <1>2 DEF RowsType, NoRows
<1> DEFINE rows == [graph |-> p.name, feature |-> p.feature, key |-> p.index, start |-> s,
                    n |-> n, tools |-> ~p.isSail, wired |-> FALSE]
<1>10. r \in PanelType
  <2>1. CASE n > 0
    <3>1. n \in 0 .. PageSize /\ rows \in RowsType
      BY <1>2, <1>4, <2>1
    <3>2. r = [p EXCEPT !.start = s, !.total = n, !.rows = rows]
      BY <2>1
    <3> HIDE DEF rows, r
    <3> QED
      BY <3>1, <3>2, FieldsKeep
  <2>2. CASE n = 0
    <3>1. r = [p EXCEPT !.start = 0, !.total = 0, !.pager = FALSE]
      BY <2>2
    <3>2. 0 \in 0 .. PageSize
      BY DEF PageSize
    <3> HIDE DEF r
    <3> QED
      BY <3>1, <3>2, FieldsKeep
  <2> QED
    BY <1>2, <2>1, <2>2
<1>5. /\ r.name = p.name /\ r.feature = p.feature /\ r.index = p.index /\ r.view = p.view
      /\ r.browseOf = p.browseOf /\ r.viewed = p.viewed /\ r.title = p.title
      /\ r.detail = p.detail /\ r.vertices = p.vertices
      /\ n > 0 => /\ r.start = s /\ r.total = n /\ r.rows # NoRows
                  /\ r.rows.graph = p.name /\ r.rows.feature = p.feature
                  /\ r.rows.key = p.index /\ r.rows.start = s
      /\ n = 0 => r.start = 0 /\ r.total = 0 /\ r.rows = NoRows /\ ~r.pager
  <2>1. CASE n > 0
    BY <1>2, <1>4, <2>1 DEF PanelType
  <2>2. CASE n = 0
    BY <1>2, <2>2 DEF PanelType, PageSize
  <2> QED
    BY <1>2, <2>1, <2>2
<1> HIDE DEF r
<1>6. /\ Links(r) \in [Button -> Uri]
      /\ \A b \in Button : /\ Links(r)[b].graph = p.name /\ Links(r)[b].element = p.feature
                           /\ Links(r)[b].id = None
      /\ Links(r)["first"].start = 0 /\ Links(r)["first"].key = p.index
      /\ Links(r)["prev"].start = PreviousStart(r) /\ Links(r)["prev"].key = p.index
      /\ Links(r)["next"].start = NextStart(r) /\ Links(r)["next"].key = p.index
      /\ Links(r)["cancel"].start = 0 /\ Links(r)["cancel"].key = None
  BY <1>10, <1>5, LinksOfPage
<1>7. /\ q \in PanelType /\ q.links = Links(r)
      /\ q.name = r.name /\ q.feature = r.feature /\ q.index = r.index /\ q.view = r.view
      /\ q.browseOf = r.browseOf /\ q.viewed = r.viewed /\ q.title = r.title
      /\ q.detail = r.detail /\ q.vertices = r.vertices
      /\ q.start = r.start /\ q.total = r.total /\ q.rows = r.rows /\ q.pager = r.pager
  <2>1. q = [r EXCEPT !.links = Links(r), !.cancel = r.index # None]
    OBVIOUS
  <2>2. Links(r) \in [Button -> Uri \cup {Undefined}] /\ (r.index # None) \in BOOLEAN
    BY <1>6
  <2> HIDE DEF q
  <2>3. q \in PanelType
    BY <1>10, <2>1, <2>2, FieldsKeep
  <2> QED
    BY <1>10, <2>1, <2>3 DEF PanelType
<1> HIDE DEF q
<1>8. Links(q) = Links(r)
  BY <1>7 DEF Links, PreviousStart, NextStart
<1>9. ListShown(q)
  BY <1>2, <1>5, <1>7, <1>8 DEF ListShown, n
<1>11. ASSUME s % PageSize = 0 PROVE LinksExist(q)
  <2>1. r.start % PageSize = 0
    BY <1>2, <1>5, <1>11 DEF PageSize
  <2>2. /\ NextStart(r) \in Nat /\ PreviousStart(r) \in Nat /\ PreviousStart(r) <= r.start
        /\ r.total < PageSize => NextStart(r) = r.start
        /\ r.total = PageSize => NextStart(r) = r.start + PageSize
        /\ NextStart(r) % PageSize = 0 /\ PreviousStart(r) % PageSize = 0
    BY <1>10, <1>5, <2>1, Neighbours
  <2>3. /\ NextStart(r) <= Count[<<p.name, p.feature, p.index>>]
        /\ PreviousStart(r) <= Count[<<p.name, p.feature, p.index>>]
    BY <1>2, <1>5, <2>2 DEF PageSize
  <2>4. Count[<<p.name, p.feature, None>>] \in Nat
    BY GraphPanelAssumption
  <2>5. \A b \in Button : PageExists(q.links[b])
    BY <1>2, <1>6, <1>7, <2>2, <2>3, <2>4 DEF PageExists, Button, PageSize
  <2> QED
    BY <1>7, <2>1, <2>5 DEF LinksExist
<1> QED
  BY <1>2, <1>3, <1>5, <1>7, <1>9, <1>11 DEF Shown, Listed, n

LEMMA PagedShows ==
  ASSUME NEW p \in PanelType, p.name \in Graph, p.feature \in Feature,
         NEW s \in Nat, NEW ok \in BOOLEAN
  PROVE  Paged(p, s, ok) \in PanelType /\ Shown(p, Paged(p, s, ok), s, ok)
<1> DEFINE q == [p EXCEPT !.rows = NoRows]
<1>1. /\ q \in PanelType /\ q.name = p.name /\ q.feature = p.feature /\ q.index = p.index
      /\ q.view = p.view /\ q.browseOf = p.browseOf /\ q.viewed = p.viewed
      /\ q.title = p.title /\ q.detail = p.detail /\ q.vertices = p.vertices
      /\ q.rows = NoRows /\ q.start = p.start /\ q.links = p.links
  <2>1. q \in PanelType
    BY FieldsKeep DEF RowsType
  <2> QED
    BY <2>1 DEF PanelType
<1>2. /\ ok => Paged(p, s, ok) = RenderPagedResults(q, s, RowsAt(p.name, p.feature, p.index, s))
      /\ ~ok => Paged(p, s, ok) = q
  BY DEF Paged
<1> HIDE DEF q
<1>3. CASE ok
  <2> DEFINE t == RenderPagedResults(q, s, RowsAt(p.name, p.feature, p.index, s))
  <2>1. t \in PanelType /\ Shown(q, t, s, TRUE)
    BY <1>1, RenderedPage
  <2>2. LinksExist(p) => LinksExist(q)
    BY <1>1 DEF LinksExist
  <2> HIDE DEF t
  <2>3. Paged(p, s, ok) = t
    BY <1>2, <1>3 DEF t
  <2> QED
    BY <1>1, <1>3, <2>1, <2>2, <2>3 DEF Shown, Listed
<1>4. CASE ~ok
  BY <1>1, <1>2, <1>4 DEF Shown, Listed, LinksExist
<1> QED
  BY <1>3, <1>4

LEMMA NavigationShows ==
  ASSUME NEW p \in PanelType, p.name \in Graph, NEW e \in Feature,
         NEW s \in Nat, NEW ok \in BOOLEAN
  PROVE  LET q == NavigationSelected(p, e, s, ok)
         IN  q \in PanelType /\ Listed(p, q, e, p.index, s, ok) /\ q.view = "browser"
<1> DEFINE r == [p EXCEPT !.extShown = FALSE, !.feature = e, !.view = "browser", !.pager = TRUE]
<1>1. r \in PanelType
  BY FieldsKeep
<1>2. /\ r.name = p.name /\ r.feature = e /\ r.index = p.index /\ r.view = "browser"
      /\ r.browseOf = p.browseOf /\ r.title = p.title /\ r.detail = p.detail
      /\ r.vertices = p.vertices /\ r.start = p.start /\ r.links = p.links
  BY DEF PanelType
<1>3. NavigationSelected(p, e, s, ok) = Paged(r, s, ok)
  BY DEF NavigationSelected
<1> HIDE DEF r
<1>4. Paged(r, s, ok) \in PanelType /\ Shown(r, Paged(r, s, ok), s, ok)
  BY <1>1, <1>2, PagedShows
<1>5. LinksExist(p) => LinksExist(r)
  BY <1>2 DEF LinksExist
<1> QED
  BY <1>2, <1>3, <1>4, <1>5 DEF Shown, Listed

\* q is p with the element i of the list of e in view.
Viewed(p, q, e, i) ==
  /\ q.name = p.name /\ q.index = p.index /\ q.browseOf = p.browseOf /\ q.view = "element"
  /\ q.feature = e
  /\ q.viewed \in ElementsInView
  /\ q.viewed.graph = p.name /\ q.viewed.element = e /\ q.viewed.id = i
  /\ q.title = p.title /\ q.detail = p.detail /\ q.vertices = p.vertices
  /\ q.start = p.start /\ q.links = p.links

LEMMA ElementShows ==
  ASSUME NEW p \in PanelType, p.name \in Graph, NEW e \in Feature, NEW i \in Vertex,
         NEW parts \in SUBSET {"element", "in", "out"}
  PROVE  ElementView(p, e, i, parts) \in PanelType /\ Viewed(p, ElementView(p, e, i, parts), e, i)
<1> DEFINE x == [graph |-> p.name, element |-> e, id |-> i, parts |-> parts, tools |-> ~p.isSail]
           r == [p EXCEPT !.feature = e, !.view = "element", !.viewed = x]
           w == [r EXCEPT !.ext = ElementUri(p.name, e, i), !.extShown = TRUE]
<1>1. /\ x \in ElementsInView
      /\ x.graph = p.name /\ x.element = e /\ x.id = i
  BY DEF ElementsInView, PanelType
<1> HIDE DEF x
<1>2. r \in PanelType
  BY <1>1, FieldsKeep
<1>3. Viewed(p, r, e, i)
  BY <1>1 DEF Viewed, PanelType
<1> HIDE DEF r
<1>4. ElementUri(p.name, e, i) \in Uri
  BY UriTypes
<1>5. w \in PanelType
  BY <1>2, <1>4, FieldsKeep
<1>6. Viewed(p, w, e, i)
  BY <1>2, <1>3 DEF Viewed, PanelType
<1>7. ElementView(p, e, i, parts) = IF "element" \in parts THEN w ELSE r
  BY DEF ElementView, r, x
<1> QED
  BY <1>2, <1>3, <1>5, <1>6, <1>7

\* q is what is shown of p when the address is u.
Selected(p, q, u, ok) ==
  /\ q.name = u.graph /\ q.browseOf = u.graph /\ q.vertices
  /\ q.title = p.title /\ q.detail = p.detail
  /\ q.index = IF u.element # None /\ u.id = None /\ u.key # None THEN u.key ELSE p.index
  /\ q.feature = IF u.element = None THEN p.feature ELSE u.element
  /\ u.element = None => q.view = None
  /\ u.element # None /\ u.id # None =>
       /\ q.view = "element" /\ q.viewed \in ElementsInView
       /\ q.viewed.graph = u.graph /\ q.viewed.element = u.element /\ q.viewed.id = u.id
  /\ u.element # None /\ u.id = None =>
       /\ q.view = "browser"
       /\ ok => /\ ListShown(q)
                /\ q.rows # NoRows => q.rows.start = u.start
                /\ q.rows = NoRows => RowsAt(u.graph, u.element, q.index, u.start) = 0
  /\ PageExists(u) /\ LinksExist(p) => LinksExist(q)

LEMMA SelectionShows ==
  ASSUME NEW p \in PanelType, NEW u \in Uri, u.graph \in Graph, NEW ok \in BOOLEAN,
         NEW parts \in SUBSET {"element", "in", "out"}
  PROVE  LET q == GraphSelectionChanged(p, u, ok, parts)
         IN  q \in PanelType /\ Selected(p, q, u, ok)
<1> DEFINE r == [p EXCEPT !.name = u.graph, !.vertices = TRUE, !.browseOf = u.graph]
           f == [r EXCEPT !.index = IF u.key # None THEN u.key ELSE @]
           g == GraphSelectionChanged(p, u, ok, parts)
<1>1. /\ u.element \in Feature \cup {None} /\ u.id \in Vertex \cup {None} /\ u.start \in Nat
      /\ u.key \in Key \cup {None}
  BY DEF Uri
<1>2. r \in PanelType
  BY FieldsKeep
<1>3. /\ r.name = u.graph /\ r.browseOf = u.graph /\ r.vertices = TRUE
      /\ r.title = p.title /\ r.detail = p.detail /\ r.index = p.index
      /\ r.start = p.start /\ r.links = p.links /\ r.feature = p.feature
  BY DEF PanelType
<1>4. LinksExist(p) => LinksExist(r)
  BY <1>3 DEF LinksExist
<1>5. CASE u.element = None
  <2> DEFINE q == [r EXCEPT !.view = None]
  <2>1. g = q
    BY <1>5 DEF GraphSelectionChanged
  <2> HIDE DEF r, g
  <2>2. q \in PanelType
    BY <1>2, FieldsKeep
  <2>3. /\ q.name = r.name /\ q.browseOf = r.browseOf /\ q.vertices = r.vertices
        /\ q.title = r.title /\ q.detail = r.detail /\ q.index = r.index
        /\ q.start = r.start /\ q.links = r.links /\ q.view = None
        /\ q.feature = r.feature
    BY <1>2 DEF PanelType
  <2> HIDE DEF q
  <2>4. LinksExist(r) => LinksExist(q)
    BY <2>3 DEF LinksExist
  <2>5. g \in PanelType /\ Selected(p, g, u, ok)
    BY <1>3, <1>4, <1>5, <2>1, <2>2, <2>3, <2>4 DEF Selected
  <2> QED
    BY <2>5 DEF g
<1>6. CASE u.element # None /\ u.id # None
  <2>1. g = ElementView(r, u.element, u.id, parts)
    BY <1>6 DEF GraphSelectionChanged
  <2> HIDE DEF r, g
  <2>2. g \in PanelType /\ Viewed(r, g, u.element, u.id)
    BY <1>1, <1>2, <1>3, <1>6, <2>1, ElementShows
  <2>3. LinksExist(r) => LinksExist(g)
    BY <2>2 DEF LinksExist, Viewed
  <2>4. Selected(p, g, u, ok)
    BY <1>3, <1>4, <1>6, <2>2, <2>3 DEF Selected, Viewed
  <2> QED
    BY <2>2, <2>4 DEF g
<1>7. CASE u.element # None /\ u.id = None
  <2>1. g = NavigationSelected(f, u.element, u.start, ok)
    BY <1>7 DEF GraphSelectionChanged
  <2>2. f = [r EXCEPT !.index = IF u.key # None THEN u.key ELSE r.index]
    OBVIOUS
  <2> HIDE DEF r, f, g
  <2>3. (IF u.key # None THEN u.key ELSE r.index) \in Key \cup {None}
    BY <1>1, <1>2 DEF PanelType
  <2>4. f \in PanelType
    BY <1>2, <2>2, <2>3, FieldsKeep
  <2>5. /\ f.name = u.graph /\ f.browseOf = u.graph /\ f.vertices = TRUE
        /\ f.title = p.title /\ f.detail = p.detail /\ f.start = r.start /\ f.links = r.links
        /\ f.index = IF u.key # None THEN u.key ELSE p.index
    BY <1>2, <1>3, <2>2 DEF PanelType
  <2>6. /\ g \in PanelType /\ g.view = "browser"
        /\ Listed(f, g, u.element, f.index, u.start, ok)
    BY <1>1, <1>7, <2>1, <2>4, <2>5, NavigationShows
  <2>7. LinksExist(p) => LinksExist(f)
    BY <1>4, <2>5 DEF LinksExist
  <2>8. PageExists(u) => u.start % PageSize = 0
    BY <1>7, GraphPanelAssumption DEF PageExists
  <2>9. Selected(p, g, u, ok)
    BY <1>7, <2>5, <2>6, <2>7, <2>8 DEF Selected, Listed
  <2> QED
    BY <2>6, <2>9 DEF g
<1> QED
  BY <1>5, <1>6, <1>7

\* The handlers of the pager change nothing that the mediator knows.
SameBut(p, q) ==
  /\ q.name = p.name /\ q.feature = p.feature /\ q.start = p.start /\ q.total = p.total
  /\ q.index = p.index /\ q.view = p.view /\ q.pager = p.pager /\ q.links = p.links
  /\ q.browseOf = p.browseOf /\ q.viewed = p.viewed

LEMMA WiredShows ==
  ASSUME NEW p \in PanelType
  PROVE  LET q == Wired(p)
         IN  /\ q \in PanelType /\ SameBut(p, q)
             /\ q.title = p.title /\ q.detail = p.detail /\ q.vertices = p.vertices
             /\ p.rows = NoRows <=> q.rows = NoRows
             /\ p.rows # NoRows => /\ q.rows.graph = p.rows.graph
                                   /\ q.rows.feature = p.rows.feature
                                   /\ q.rows.key = p.rows.key /\ q.rows.start = p.rows.start
<1>1. CASE p.rows = NoRows
  BY <1>1 DEF Wired, SameBut
<1>2. CASE p.rows # NoRows
  <2> DEFINE x == [p.rows EXCEPT !.wired = TRUE]
  <2>1. p.rows \in RowsType \ {NoRows}
    BY <1>2 DEF PanelType
  <2>2. /\ x \in RowsType /\ x # NoRows
        /\ x.graph = p.rows.graph /\ x.feature = p.rows.feature /\ x.key = p.rows.key
        /\ x.start = p.rows.start
    BY <2>1 DEF RowsType, NoRows
  <2>3. Wired(p) = [p EXCEPT !.rows = x]
    BY <1>2 DEF Wired
  <2> HIDE DEF x
  <2>4. Wired(p) \in PanelType
    BY ZenonT(30), <2>2, <2>3, FieldsKeep
  <2> QED
    BY <1>2, <2>2, <2>3, <2>4 DEF SameBut, PanelType
<1> QED
  BY <1>1, <1>2

LEMMA ProfileShows ==
  ASSUME NEW p \in PanelType, NEW g \in Graph
  PROVE  LET q == ProfileShown(p, g)
         IN  /\ q \in PanelType /\ SameBut(p, q) /\ q.rows = p.rows
             /\ q.title = p.name /\ q.detail = g
             /\ q.vertices = (p.vertices /\ g \notin Sail)
<1> DEFINE q == ProfileShown(p, g)
<1>1. q = [p EXCEPT !.isSail = g \in Sail, !.vertices = p.vertices /\ g \notin Sail,
             !.title = p.name, !.detail = g, !.ext = GraphUri(g), !.extShown = TRUE]
  BY DEF ProfileShown
<1>2. /\ (g \in Sail) \in BOOLEAN /\ (p.vertices /\ g \notin Sail) \in BOOLEAN
      /\ p.name \in Graph \cup {None} /\ GraphUri(g) \in Uri
  BY DEF PanelType, GraphUri, Uri
<1> HIDE DEF q
<1>3. q \in PanelType
  BY ZenonT(30), <1>1, <1>2, FieldsKeep
<1>4. q.vertices = (p.vertices /\ g \notin Sail)
  BY <1>1 DEF PanelType
<1>5. SameBut(p, q) /\ q.rows = p.rows /\ q.title = p.name /\ q.detail = g
  BY <1>1 DEF SameBut, PanelType
<1> QED
  BY <1>3, <1>4, <1>5 DEF q

-----------------------------------------------------------------------------
(***************************************************************************)
(* The history of the tab, and bags of calls.                              *)
(***************************************************************************)
LEMMA PushedEntries ==
  ASSUME entries \in Seq(Uri), pos \in DOMAIN entries,
         NEW u \in Uri, NEW times \in Nat \ {0}, Pushed(u, times)
  PROVE  /\ entries' \in Seq(Uri) /\ pos' \in DOMAIN entries'
         /\ uri' = u
         /\ \A i \in DOMAIN entries' :
              entries'[i] = u \/ \E j \in DOMAIN entries : entries'[i] = entries[j]
<1> DEFINE old == SubSeq(entries, 1, pos)
           new == [i \in 1 .. times |-> u]
<1>1. /\ old \in Seq(Uri) /\ Len(old) = pos /\ pos \in Nat /\ pos >= 1
      /\ \A i \in 1 .. pos : old[i] = entries[i] /\ i \in DOMAIN entries
  OBVIOUS
<1>2. new \in Seq(Uri) /\ Len(new) = times /\ \A i \in 1 .. times : new[i] = u
  OBVIOUS
<1>3. entries' = old \o new /\ pos' = Len(entries')
  BY DEF Pushed
<1> HIDE DEF old, new
<1>4. /\ entries' \in Seq(Uri) /\ Len(entries') = pos + times
      /\ \A i \in 1 .. pos + times : entries'[i] = IF i <= pos THEN old[i] ELSE new[i - pos]
  <2>1. old \o new \in Seq(Uri) /\ Len(old \o new) = Len(old) + Len(new)
    BY SMTT(30), <1>1, <1>2
  <2>2. \A i \in 1 .. Len(old) + Len(new) :
          (old \o new)[i] = IF i <= Len(old) THEN old[i] ELSE new[i - Len(old)]
    BY <1>1, <1>2
  <2> QED
    BY <1>1, <1>2, <1>3, <2>1, <2>2
<1>5. pos' \in DOMAIN entries' /\ entries'[pos'] = u
  BY <1>1, <1>2, <1>3, <1>4
<1>6. ASSUME NEW i \in DOMAIN entries'
      PROVE  entries'[i] = u \/ \E j \in DOMAIN entries : entries'[i] = entries[j]
  <2>1. i \in 1 .. pos + times
    BY <1>1, <1>4
  <2>2. CASE i <= pos
    BY <1>1, <1>4, <2>1, <2>2
  <2>3. CASE i > pos
    <3>1. i - pos \in 1 .. times
      BY <1>1, <2>1, <2>3
    <3> QED
      BY <1>1, <1>2, <1>4, <2>1, <2>3, <3>1
  <2> QED
    BY <1>1, <2>1, <2>2, <2>3
<1> QED
  BY <1>4, <1>5, <1>6 DEF uri

LEMMA SmallBags ==
  ASSUME NEW c
  PROVE  /\ IsABag(EmptyBag) /\ IsABag(SetToBag({c}))
         /\ BagToSet(EmptyBag) = {} /\ BagToSet(SetToBag({c})) = {c}
         /\ SetToBag({c}) # EmptyBag
BY DEF IsABag, EmptyBag, SetToBag, BagToSet

LEMMA BagWith ==
  ASSUME NEW B, IsABag(B), NEW c
  PROVE  /\ IsABag(B (+) SetToBag({c}))
         /\ BagToSet(B (+) SetToBag({c})) = BagToSet(B) \cup {c}
         /\ B = EmptyBag => B (+) SetToBag({c}) = SetToBag({c})
<1> DEFINE C == B (+) SetToBag({c})
<1>1. /\ B = [x \in DOMAIN B |-> B[x]] /\ \A x \in DOMAIN B : B[x] \in Nat \ {0}
  BY DEF IsABag
<1>2. DOMAIN SetToBag({c}) = {c} /\ SetToBag({c})[c] = 1
  BY DEF SetToBag
<1>3. C = [x \in DOMAIN B \cup {c} |->
            (IF x \in DOMAIN B THEN B[x] ELSE 0) + (IF x \in {c} THEN SetToBag({c})[x] ELSE 0)]
  BY <1>2 DEF (+)
<1>4. \A x \in DOMAIN B \cup {c} : C[x] \in Nat \ {0}
  BY <1>1, <1>2, <1>3
<1> HIDE DEF C
<1>5. IsABag(C) /\ BagToSet(C) = BagToSet(B) \cup {c}
  <2>1. DOMAIN C = DOMAIN B \cup {c}
    BY <1>3
  <2>2. C = [x \in DOMAIN C |-> C[x]]
    BY <1>3
  <2> QED
    BY <1>4, <2>1, <2>2 DEF IsABag, BagToSet
<1>6. ASSUME B = EmptyBag PROVE C = SetToBag({c})
  <2>1. DOMAIN B = {}
    BY <1>6 DEF EmptyBag, SetToBag
  <2> QED
    BY <1>2, <1>3, <2>1 DEF SetToBag
<1> QED
  BY <1>5, <1>6 DEF C

LEMMA BagWithout ==
  ASSUME NEW B, IsABag(B), NEW c
  PROVE  /\ IsABag(B (-) SetToBag({c}))
         /\ BagToSet(B (-) SetToBag({c})) \subseteq BagToSet(B)
         /\ B = SetToBag({c}) => B (-) SetToBag({c}) = EmptyBag
<1> DEFINE D == [x \in DOMAIN B |-> IF x \in {c} THEN B[x] - SetToBag({c})[x] ELSE B[x]]
           C == [x \in {d \in DOMAIN D : D[d] > 0} |-> D[x]]
<1>1. /\ B = [x \in DOMAIN B |-> B[x]] /\ \A x \in DOMAIN B : B[x] \in Nat \ {0}
  BY DEF IsABag
<1>2. DOMAIN SetToBag({c}) = {c} /\ SetToBag({c})[c] = 1
  BY DEF SetToBag
<1>3. B (-) SetToBag({c}) = C
  BY <1>2 DEF (-)
<1>4. \A x \in DOMAIN B : D[x] \in Nat
  BY <1>1, <1>2
<1>5. IsABag(C) /\ BagToSet(C) \subseteq BagToSet(B)
  BY <1>4 DEF IsABag, BagToSet
<1>6. ASSUME B = SetToBag({c}) PROVE C = EmptyBag
  <2>1. {d \in DOMAIN D : D[d] > 0} = {}
    BY <1>2, <1>6
  <2> QED
    BY <2>1 DEF EmptyBag, SetToBag
<1> QED
  BY <1>3, <1>5, <1>6

-----------------------------------------------------------------------------
(***************************************************************************)
(* What the steps do, in terms of the above.                               *)
(***************************************************************************)
TypesHold ==
  /\ TypeOK
  /\ panel \in PanelType /\ Complete(panel)
  /\ filter \in [open : BOOLEAN, keys : SUBSET Key]
  /\ filter.open => panel.name # None /\ panel.feature # None
  /\ form \in [open : BOOLEAN, loading : BOOLEAN, result : Seq(Nat), runs : Nat]

\* The tab is at u, and its other entries are old ones.
MovedTo(u) ==
  /\ entries' \in Seq(Uri) /\ pos' \in DOMAIN entries' /\ uri' = u
  /\ \A i \in DOMAIN entries' :
       entries'[i] = u \/ \E j \in DOMAIN entries : entries'[i] = entries[j]

\* The page that a list is for, once it is there.
ListUri == IF uri.graph = None THEN GraphUri(First) ELSE uri

LEMMA UriFacts ==
  ASSUME TypesHold
  PROVE  /\ entries \in Seq(Uri) /\ pos \in DOMAIN entries /\ uri \in Uri
         /\ panel \in PanelType /\ panel.name \in Graph \cup {None}
         /\ panel.name # None => panel.name \in Graph /\ panel.browseOf = panel.name
         /\ panel.view = "browser" => panel.name \in Graph /\ panel.feature \in Feature
         /\ panel.view = "element" => panel.name \in Graph /\ panel.viewed \in ElementsInView
         /\ panel.index \in Key \cup {None}
         /\ filter.open => panel.name \in Graph /\ panel.feature \in Feature
<1>1. entries \in Seq(Uri) /\ pos \in DOMAIN entries /\ panel \in PanelType /\ Complete(panel)
  BY DEF TypesHold, TypeOK
<1>2. uri \in Uri
  BY <1>1 DEF uri
<1>3. panel.view \in {None, "browser", "element"} /\ panel.name \in Graph \cup {None}
      /\ panel.feature \in Feature \cup {None} /\ panel.index \in Key \cup {None}
  BY <1>1 DEF PanelType
<1>4. None # "browser" /\ None # "element"
  BY GraphPanelAssumption
<1> QED
  BY <1>1, <1>2, <1>3, <1>4 DEF Complete, TypesHold

LEMMA StaysThere ==
  ASSUME TypesHold, Stays
  PROVE  MovedTo(uri)
BY UriFacts DEF MovedTo, Stays, uri

LEMMA ListOutcome ==
  ASSUME TypesHold, ListComes
  PROVE  /\ ListUri \in Uri /\ ListUri.graph \in Graph
         /\ ListUri = uri \/ ListUri = GraphUri(First)
         /\ MovedTo(ListUri)
         /\ panel' \in PanelType /\ Selected(panel, panel', ListUri, "failed" \notin seen')
         /\ seen' \subseteq Happening /\ seen \subseteq seen'
         /\ filter.open => "behind" \in seen'
         /\ "overlapped" \notin seen' => \A h \in Graph : profiles[h] > 0 => h = ListUri.graph
<1>1. ListUri \in Uri /\ ListUri.graph \in Graph /\ (ListUri = uri \/ ListUri = GraphUri(First))
  BY UriFacts, GraphPanelAssumption DEF ListUri, GraphUri, Uri
<1>2. MovedTo(ListUri)
  <2>1. CASE uri.graph = None
    <3>1. Pushed(ListUri, 1)
      BY <2>1 DEF ListComes, ListUri
    <3> QED
      BY <1>1, <3>1, UriFacts, PushedEntries DEF MovedTo
  <2>2. CASE uri.graph # None
    BY <2>2, StaysThere DEF ListComes, ListUri
  <2> QED
    BY <2>1, <2>2
<1>3. PICK ok \in BOOLEAN, parts \in Parts(ListUri.element) :
        /\ panel' = Wired(GraphSelectionChanged(panel, ListUri, ok, parts))
        /\ seen' = seen \cup Fails(ListUri, ok, parts) \cup Overlaps(ListUri.graph) \cup Behind
  BY DEF ListComes, ListUri
<1> DEFINE q == GraphSelectionChanged(panel, ListUri, ok, parts)
<1>4. parts \in SUBSET {"element", "in", "out"}
  BY DEF Parts
<1>5. q \in PanelType /\ Selected(panel, q, ListUri, ok)
  BY <1>1, <1>4, UriFacts, SelectionShows
<1> HIDE DEF q
<1>6. panel' = Wired(q)
  BY <1>3 DEF q
<1>7. /\ panel' \in PanelType /\ SameBut(q, panel')
      /\ panel'.title = q.title /\ panel'.detail = q.detail /\ panel'.vertices = q.vertices
      /\ q.rows = NoRows <=> panel'.rows = NoRows
      /\ q.rows # NoRows => /\ panel'.rows.graph = q.rows.graph
                            /\ panel'.rows.feature = q.rows.feature
                            /\ panel'.rows.key = q.rows.key
                            /\ panel'.rows.start = q.rows.start
  BY <1>5, <1>6, WiredShows
<1>8. /\ LinksExist(q) => LinksExist(panel')
      /\ ListShown(q) => ListShown(panel')
  BY <1>7 DEF LinksExist, ListShown, SameBut, Links, NextStart, PreviousStart
<1>9. ListUri.element # None /\ ListUri.id = None /\ "failed" \notin seen' => ok
  BY <1>3 DEF Fails
<1>10. Selected(panel, panel', ListUri, "failed" \notin seen')
  BY <1>5, <1>7, <1>8, <1>9 DEF Selected, SameBut
<1>11. seen' \subseteq Happening /\ seen \subseteq seen'
  BY <1>3 DEF Fails, Overlaps, Behind, Happening, TypesHold, TypeOK
<1>12. filter.open => "behind" \in seen'
  BY <1>3 DEF Behind
<1>13. "overlapped" \notin seen' => \A h \in Graph : profiles[h] > 0 => h = ListUri.graph
  BY <1>3 DEF Overlaps
<1> QED
  BY <1>1, <1>2, <1>7, <1>10, <1>11, <1>12, <1>13

\* What an act of the user is, whatever it does.
LEMMA ActOutcome ==
  ASSUME TypesHold, NEW what \in SUBSET Happening, Acts(what)
  PROVE  /\ acts' \in 0 .. MaxActs /\ seen' \subseteq Happening
         /\ seen \subseteq seen' /\ what \subseteq seen'
         /\ Waiting => "hasty" \in seen'
         /\ seen' \subseteq seen \cup what \cup {"hasty"}
BY GraphPanelAssumption DEF Acts, TypesHold, TypeOK, Happening

LEMMA SelectOutcome ==
  ASSUME TypesHold, NEW g \in Graph, SelectGraph(g)
  PROVE  /\ MovedTo(GraphUri(g)) /\ GraphUri(g).graph = g /\ GraphUri(g).element = None
         /\ panel' \in PanelType /\ Selected(panel, panel', GraphUri(g), TRUE)
         /\ "overlapped" \notin seen' => \A h \in Graph : profiles[h] > 0 => h = g
         /\ seen' \subseteq Happening /\ seen \subseteq seen'
         /\ lists' = lists /\ panel.name # None /\ ~filter.open /\ filter' = filter
<1>1. GraphUri(g) \in Uri /\ GraphUri(g).graph = g /\ GraphUri(g).element = None
  BY DEF GraphUri, Uri
<1>2. Pushed(GraphUri(g), 1) /\ panel' = GraphSelectionChanged(panel, GraphUri(g), TRUE, {})
  BY DEF SelectGraph
<1>3. MovedTo(GraphUri(g))
  BY <1>1, <1>2, UriFacts, PushedEntries DEF MovedTo
<1>4. panel' \in PanelType /\ Selected(panel, panel', GraphUri(g), TRUE)
  BY <1>1, <1>2, UriFacts, SelectionShows
<1>5. Overlaps(g) \in SUBSET Happening /\ Acts(Overlaps(g))
  BY DEF SelectGraph, Clicks, Overlaps, Happening
<1>6. seen' \subseteq Happening /\ seen \subseteq seen' /\ Overlaps(g) \subseteq seen'
  BY <1>5, ActOutcome
<1> QED
  BY <1>1, <1>3, <1>4, <1>6 DEF SelectGraph, Clicks, NoDialog, Overlaps

LEMMA BrowseOutcome ==
  ASSUME TypesHold, NEW e \in Feature, BrowseLink(e)
  PROVE  /\ MovedTo(PageUri(panel.name, e, 0, None)) /\ panel' \in PanelType
         /\ Listed(panel, panel', e, None, 0, "failed" \notin seen') /\ panel'.view = "browser"
         /\ seen' \subseteq Happening /\ seen \subseteq seen'
         /\ lists' = lists /\ panel.name # None /\ ~filter.open /\ filter' = filter
<1> DEFINE p == [panel EXCEPT !.index = None]
<1>1. PICK ok \in BOOLEAN : /\ panel' = NavigationSelected(p, e, 0, ok)
                            /\ Clicks(IF ok THEN {} ELSE {"failed"})
                            /\ UNCHANGED <<profiles, filter>>
  BY DEF BrowseLink, Shows
<1>2. p \in PanelType
  BY UriFacts, FieldsKeep
<1>3. /\ p.name = panel.name /\ p.index = None /\ p.browseOf = panel.browseOf
      /\ p.title = panel.title /\ p.detail = panel.detail /\ p.vertices = panel.vertices
      /\ p.start = panel.start /\ p.links = panel.links
  BY UriFacts DEF PanelType
<1> HIDE DEF p
<1>4. panel.name \in Graph /\ panel.browseOf = panel.name
  BY UriFacts DEF BrowseLink
<1>5. /\ panel' \in PanelType /\ panel'.view = "browser"
      /\ Listed(p, panel', e, None, 0, ok)
  BY <1>1, <1>2, <1>3, <1>4, NavigationShows
<1>6. (IF ok THEN {} ELSE {"failed"}) \in SUBSET Happening
  BY DEF Happening
<1>7. /\ seen' \subseteq Happening /\ seen \subseteq seen'
      /\ "failed" \notin seen' => ok
  BY <1>1, <1>6, ActOutcome DEF Clicks
<1>8. LinksExist(panel) => LinksExist(p)
  BY <1>3 DEF LinksExist
<1>9. Listed(panel, panel', e, None, 0, "failed" \notin seen')
  BY <1>3, <1>5, <1>7, <1>8 DEF Listed
<1>10. Pushed(PageUri(panel.name, e, 0, None), 1) /\ PageUri(panel.name, e, 0, None) \in Uri
  BY <1>4 DEF BrowseLink, PageUri, Uri
<1>11. MovedTo(PageUri(panel.name, e, 0, None))
  BY <1>10, UriFacts, PushedEntries DEF MovedTo
<1> QED
  BY <1>1, <1>5, <1>7, <1>9, <1>11 DEF BrowseLink, Clicks, NoDialog

\* The page that a button of the pager shows, and its filter.
PagerStart(b) ==
  CASE b = "next" -> NextStart(panel)
    [] b = "prev" -> PreviousStart(panel)
    [] OTHER -> 0

PagerKey(b) == IF b = "cancel" THEN None ELSE panel.index

PagerUri(b) == IF panel.links[b] = Undefined THEN uri ELSE panel.links[b]

LEMMA PagerOutcome ==
  ASSUME TypesHold, NEW b \in Button, Pager(b)
  PROVE  /\ panel.view = "browser" /\ panel.pager /\ panel'.view = "browser"
         /\ PagerUri(b) \in Uri /\ MovedTo(PagerUri(b)) /\ panel' \in PanelType
         /\ PagerStart(b) \in Nat
         /\ panel.start % PageSize = 0 => PagerStart(b) % PageSize = 0
         /\ Listed(panel, panel', panel.feature, PagerKey(b), PagerStart(b),
                   "failed" \notin seen')
         /\ seen' \subseteq Happening /\ seen \subseteq seen'
         /\ lists' = lists /\ ~filter.open /\ filter' = filter
<1> DEFINE p == IF b = "cancel" THEN [panel EXCEPT !.index = None] ELSE panel
<1>1. PICK ok \in BOOLEAN : /\ panel' = Paged(p, PagerStart(b), ok)
                            /\ Clicks(IF ok THEN {} ELSE {"failed"})
                            /\ UNCHANGED <<profiles, filter>>
  BY DEF Pager, Shows, PagerStart, Button
<1>2. panel.view = "browser" /\ panel.pager /\ panel.name \in Graph /\ panel.feature \in Feature
  BY UriFacts DEF Pager
<1>3. PagerStart(b) \in Nat /\ (panel.start % PageSize = 0 => PagerStart(b) % PageSize = 0)
  BY UriFacts, Neighbours DEF PagerStart, PageSize
<1>4. p \in PanelType
  BY UriFacts, FieldsKeep
<1>5. /\ p.name = panel.name /\ p.feature = panel.feature /\ p.index = PagerKey(b)
      /\ p.browseOf = panel.browseOf /\ p.view = panel.view
      /\ p.title = panel.title /\ p.detail = panel.detail /\ p.vertices = panel.vertices
      /\ p.start = panel.start /\ p.links = panel.links
  BY UriFacts DEF PanelType, PagerKey
<1> HIDE DEF p
<1>6. panel' \in PanelType /\ Shown(p, panel', PagerStart(b), ok)
  BY <1>1, <1>2, <1>3, <1>4, <1>5, PagedShows
<1>7. (IF ok THEN {} ELSE {"failed"}) \in SUBSET Happening
  BY DEF Happening
<1>8. /\ seen' \subseteq Happening /\ seen \subseteq seen'
      /\ "failed" \notin seen' => ok
  BY <1>1, <1>7, ActOutcome DEF Clicks
<1>9. LinksExist(panel) => LinksExist(p)
  BY <1>5 DEF LinksExist
<1>10. /\ Listed(panel, panel', panel.feature, PagerKey(b), PagerStart(b), "failed" \notin seen')
       /\ panel'.view = "browser"
  BY <1>2, <1>5, <1>6, <1>8, <1>9 DEF Shown, Listed
<1>11. PagerUri(b) \in Uri /\ Pushed(PagerUri(b), 1)
  <2>1. panel.links[b] \in Uri \cup {Undefined}
    BY UriFacts DEF PanelType
  <2> QED
    BY <2>1, UriFacts DEF Pager, PagerUri
<1>12. MovedTo(PagerUri(b))
  BY <1>11, UriFacts, PushedEntries DEF MovedTo
<1> QED
  BY <1>1, <1>2, <1>3, <1>6, <1>8, <1>10, <1>11, <1>12 DEF Clicks, NoDialog

LEMMA SearchOutcome ==
  ASSUME TypesHold, Search
  PROVE  /\ panel.view = "browser" /\ panel.pager
         /\ MovedTo(uri) /\ UNCHANGED <<lists, profiles, panel>>
         /\ seen' \subseteq Happening /\ seen \subseteq seen'
         /\ filter' \in [open : BOOLEAN, keys : SUBSET Key] /\ ~filter.open
         /\ filter'.open => uri.element # None
<1>1. seen' \subseteq Happening /\ seen \subseteq seen'
  BY ActOutcome DEF Search, Clicks
<1>2. MovedTo(uri)
  BY UriFacts, PushedEntries DEF Search, MovedTo
<1>3. filter \in [open : BOOLEAN, keys : SUBSET Key] /\ ~filter.open
  BY DEF TypesHold, Search, Clicks, NoDialog
<1>4. CASE uri.element = None
  <2>1. filter' = [filter EXCEPT !.keys = {}]
    BY <1>4 DEF Search
  <2>2. filter' \in [open : BOOLEAN, keys : SUBSET Key] /\ ~filter'.open
    BY <1>3, <2>1
  <2> QED
    BY <1>1, <1>2, <1>3, <2>2 DEF Search, Clicks
<1>5. CASE uri.element # None
  <2>1. PICK keys \in {Key, {}} : filter' = [open |-> TRUE, keys |-> keys]
    BY <1>5 DEF Search
  <2>2. filter' \in [open : BOOLEAN, keys : SUBSET Key]
    BY <2>1
  <2> QED
    BY <1>1, <1>2, <1>3, <1>5, <2>2 DEF Search, Clicks
<1> QED
  BY <1>4, <1>5

FilterUri(k) == PageUri(uri.graph, uri.element, 0, k)

\* The filter is set for an address without a list.
FilterSet(k) ==
  /\ uri.element = None
  /\ panel'.name = panel.name /\ panel'.browseOf = panel.browseOf
  /\ panel'.feature = panel.feature /\ panel'.view = panel.view
  /\ panel'.title = panel.title /\ panel'.detail = panel.detail
  /\ panel'.vertices = panel.vertices
  /\ panel'.links = panel.links /\ panel'.start = panel.start
  /\ UNCHANGED <<entries, pos, filter>>

LEMMA FilterOutcome ==
  ASSUME TypesHold, NEW k \in Key, Filter(k)
  PROVE  /\ filter.open /\ filter' \in [open : BOOLEAN, keys : SUBSET Key]
         /\ panel' \in PanelType /\ panel'.view = panel.view /\ panel'.viewed = panel.viewed
         /\ seen' \subseteq Happening /\ seen \subseteq seen'
         /\ lists' = lists /\ profiles' = profiles
         /\ \/ FilterSet(k)
            \/ /\ uri.element # None /\ ~filter'.open
               /\ FilterUri(k) \in Uri /\ MovedTo(FilterUri(k))
               /\ Listed(panel, panel', panel.feature, k, 0, "failed" \notin seen')
<1> DEFINE p == [panel EXCEPT !.index = k]
<1>1. p \in PanelType
  BY UriFacts, FieldsKeep
<1>2. /\ p.name = panel.name /\ p.feature = panel.feature /\ p.index = k
      /\ p.browseOf = panel.browseOf /\ p.view = panel.view /\ p.viewed = panel.viewed
      /\ p.title = panel.title /\ p.detail = panel.detail /\ p.vertices = panel.vertices
      /\ p.start = panel.start /\ p.links = panel.links
  BY UriFacts DEF PanelType
<1>3. filter.open /\ panel.name \in Graph /\ panel.feature \in Feature
  BY UriFacts DEF Filter
<1>4. filter \in [open : BOOLEAN, keys : SUBSET Key]
  BY DEF TypesHold
<1>5. CASE uri.element = None
  <2>1. panel' = p /\ UNCHANGED <<entries, pos, filter>> /\ Acts({})
    BY <1>5 DEF Filter
  <2>2. seen' \subseteq Happening /\ seen \subseteq seen'
    BY <2>1, ActOutcome
  <2> HIDE DEF p
  <2> QED
    BY <1>1, <1>2, <1>3, <1>4, <1>5, <2>1, <2>2 DEF Filter, FilterSet
<1>6. CASE uri.element # None
  <2>1. PICK ok \in BOOLEAN : panel' = Paged(p, 0, ok) /\ Acts(IF ok THEN {} ELSE {"failed"})
    BY <1>6 DEF Filter
  <2> HIDE DEF p
  <2>2. panel' \in PanelType /\ Shown(p, panel', 0, ok)
    BY <1>1, <1>2, <1>3, <2>1, PagedShows
  <2>3. (IF ok THEN {} ELSE {"failed"}) \in SUBSET Happening
    BY DEF Happening
  <2>4. /\ seen' \subseteq Happening /\ seen \subseteq seen'
        /\ "failed" \notin seen' => ok
    BY <2>1, <2>3, ActOutcome
  <2>5. LinksExist(panel) => LinksExist(p)
    BY <1>2 DEF LinksExist
  <2>6. /\ Listed(panel, panel', panel.feature, k, 0, "failed" \notin seen')
        /\ panel'.view = panel.view /\ panel'.viewed = panel.viewed
    BY <1>2, <2>2, <2>4, <2>5 DEF Shown, Listed
  <2>7. FilterUri(k) \in Uri
    BY <1>6, UriFacts DEF FilterUri, PageUri, Uri
  <2>8. Pushed(FilterUri(k), 1) /\ filter' = [filter EXCEPT !.open = FALSE]
    BY <1>6 DEF Filter, FilterUri
  <2>9. MovedTo(FilterUri(k))
    BY <2>7, <2>8, UriFacts, PushedEntries DEF MovedTo
  <2>10. filter' \in [open : BOOLEAN, keys : SUBSET Key] /\ ~filter'.open
    BY <1>4, <2>8
  <2> QED
    BY <1>3, <1>6, <2>2, <2>4, <2>6, <2>7, <2>9, <2>10 DEF Filter
<1> QED
  BY <1>5, <1>6

\* An element comes into view, by a click on a row or on a part of another.
LEMMA ElementOutcome ==
  ASSUME TypesHold, NEW i \in Vertex,
         ViewElement(i) \/ \E e \in Feature : FollowLink(e, i)
  PROVE  \E g \in Graph, e \in Feature :
           /\ ElementUri(g, e, i) \in Uri /\ MovedTo(ElementUri(g, e, i))
           /\ panel' \in PanelType /\ Viewed(panel, panel', e, i)
           /\ seen' \subseteq Happening /\ seen \subseteq seen'
           /\ lists' = lists /\ profiles' = profiles
           /\ panel.name # None /\ ~filter.open /\ filter' = filter
           /\ \/ panel.view = "browser" /\ panel.rows # NoRows /\ g = panel.rows.graph
              \/ panel.view = "element" /\ g = panel.viewed.graph
<1> DEFINE From(g) ==
      \/ panel.view = "browser" /\ panel.rows # NoRows /\ g = panel.rows.graph
      \/ panel.view = "element" /\ g = panel.viewed.graph
<1>1. \E g \in Graph, e \in Feature, times \in {1, 2} : \E parts \in Parts(e) :
        /\ From(g) /\ Pushed(ElementUri(g, e, i), times)
        /\ panel' = ElementView(panel, e, i, parts)
        /\ Clicks(IF "element" \in parts THEN {} ELSE {"failed"})
        /\ UNCHANGED <<profiles, filter>>
  <2>1. CASE ViewElement(i)
    <3>1. panel.view = "browser" /\ panel.rows \in RowsType \ {NoRows}
      BY <2>1, UriFacts DEF ViewElement, Rows, PanelType
    <3>2. panel.rows.graph \in Graph /\ panel.rows.feature \in Feature
      BY <3>1 DEF RowsType
    <3>3. From(panel.rows.graph)
      BY <3>1
    <3>4. \E times \in {1, 2} :
            Pushed(ElementUri(panel.rows.graph, panel.rows.feature, i), times)
      BY <2>1 DEF ViewElement
    <3>5. \E parts \in Parts(panel.rows.feature) :
            /\ panel' = ElementView(panel, panel.rows.feature, i, parts)
            /\ Clicks(IF "element" \in parts THEN {} ELSE {"failed"})
      BY <2>1 DEF ViewElement
    <3>6. UNCHANGED <<profiles, filter>>
      BY <2>1 DEF ViewElement
    <3> HIDE DEF From
    <3> QED
      BY <3>2, <3>3, <3>4, <3>5, <3>6
  <2>2. CASE \E e \in Feature : FollowLink(e, i)
    <3>1. PICK e \in Feature : FollowLink(e, i)
      BY <2>2
    <3>2. panel.view = "element" /\ panel.viewed.graph \in Graph
      BY <3>1, UriFacts DEF FollowLink, ElementsInView
    <3>3. From(panel.viewed.graph)
      BY <3>2
    <3>4. Pushed(ElementUri(panel.viewed.graph, e, i), 1) /\ UNCHANGED <<profiles, filter>>
      BY <3>1 DEF FollowLink
    <3>5. \E parts \in Parts(e) :
            /\ panel' = ElementView(panel, e, i, parts)
            /\ Clicks(IF "element" \in parts THEN {} ELSE {"failed"})
      BY <3>1 DEF FollowLink
    <3> HIDE DEF From
    <3> QED
      BY <3>2, <3>3, <3>4, <3>5
  <2> QED
    BY <2>1, <2>2
<1>2. PICK g \in Graph, e \in Feature, times \in {1, 2} :
        From(g) /\ Pushed(ElementUri(g, e, i), times) /\ UNCHANGED <<profiles, filter>>
        /\ \E parts \in Parts(e) :
             /\ panel' = ElementView(panel, e, i, parts)
             /\ Clicks(IF "element" \in parts THEN {} ELSE {"failed"})
  BY <1>1
<1>3. PICK parts \in Parts(e) :
        /\ panel' = ElementView(panel, e, i, parts)
        /\ Clicks(IF "element" \in parts THEN {} ELSE {"failed"})
  BY <1>2
<1>4. ElementUri(g, e, i) \in Uri /\ MovedTo(ElementUri(g, e, i))
  <2>1. ElementUri(g, e, i) \in Uri /\ times \in Nat \ {0}
    BY DEF ElementUri, Uri
  <2> QED
    BY <1>2, <2>1, UriFacts, PushedEntries DEF MovedTo
<1>5. panel' \in PanelType /\ Viewed(panel, panel', e, i)
  <2>1. parts \in SUBSET {"element", "in", "out"}
    BY DEF Parts
  <2> QED
    BY <1>3, <2>1, UriFacts, ElementShows DEF Clicks
<1>6. seen' \subseteq Happening /\ seen \subseteq seen'
  <2>1. (IF "element" \in parts THEN {} ELSE {"failed"}) \in SUBSET Happening
    BY DEF Happening
  <2> QED
    BY <1>3, <2>1, ActOutcome DEF Clicks
<1> QED
  BY <1>2, <1>4, <1>3, <1>5, <1>6 DEF Clicks, NoDialog

LEMMA VisualizeOutcome ==
  ASSUME TypesHold, NEW v \in Vertex, ClickVisualize(v)
  PROVE  /\ UNCHANGED <<lists, profiles, panel, filter>>
         /\ seen' \subseteq Happening /\ seen \subseteq seen'
         /\ \/ MovedTo(uri)
            \/ /\ "stray" \in seen' /\ panel.view = "browser" /\ panel.rows # NoRows
               /\ \E u \in Uri : u.element # None /\ u.id # None /\ MovedTo(u)
<1> DEFINE wired == Rows /\ panel.rows.tools /\ panel.rows.feature = "vertices"
                    /\ panel.rows.wired
           u == ElementUri(panel.rows.graph, "vertices", v)
<1>1. (IF wired THEN {"stray"} ELSE {}) \in SUBSET Happening
  BY DEF Happening
<1>2. Acts(IF wired THEN {"stray"} ELSE {})
  BY DEF ClickVisualize
<1>3. /\ seen' \subseteq Happening /\ seen \subseteq seen'
      /\ wired => "stray" \in seen'
  BY <1>1, <1>2, ActOutcome
<1>4. CASE wired
  <2>1. panel.rows \in RowsType \ {NoRows} /\ panel.view = "browser"
    BY <1>4, UriFacts DEF Rows, PanelType
  <2>2. panel.rows.graph \in Graph /\ "vertices" \in Feature
    BY <2>1 DEF RowsType, Feature
  <2>3. u \in Uri /\ u.element = "vertices" /\ u.id = v
    BY <2>2 DEF ElementUri, Uri
  <2>4. Pushed(u, 1)
    BY <1>4 DEF ClickVisualize
  <2> HIDE DEF u
  <2>5. MovedTo(u)
    BY <2>3, <2>4, UriFacts, PushedEntries DEF MovedTo
  <2>6. u.element # None /\ u.id # None
    BY <2>2, <2>3, GraphPanelAssumption
  <2> QED
    BY <1>3, <1>4, <2>1, <2>3, <2>5, <2>6 DEF ClickVisualize
<1>5. CASE ~wired
  <2>1. Stays
    BY <1>5 DEF ClickVisualize
  <2> QED
    BY <1>3, <2>1, StaysThere DEF ClickVisualize
<1> QED
  BY <1>4, <1>5

-----------------------------------------------------------------------------
(***************************************************************************)
(* Types.                                                                  *)
(***************************************************************************)
Drawing == [vertex : Vertex, made : BOOLEAN, nodes : SUBSET Vertex]

LEMMA VizTypesStay ==
  ASSUME VizTypeOK, UNCHANGED vizVars
  PROVE  VizTypeOK'
BY DEF VizTypeOK, vizVars, Press, Call

LEMMA CallsAnswered ==
  ASSUME IsABag(vizCalls), BagToSet(vizCalls) \subseteq Call, NEW c, Answer(c),
         Len(vizOf') = Len(vizOf)
  PROVE  IsABag(vizCalls') /\ BagToSet(vizCalls') \subseteq Call' /\ Press' = Press
<1> DEFINE B == vizCalls (-) SetToBag({c})
<1>1. vizCalls' = B
  BY DEF Answer
<1>2. IsABag(B) /\ BagToSet(B) \subseteq BagToSet(vizCalls)
  BY BagWithout
<1> HIDE DEF B
<1>3. Call' = Call /\ Press' = Press
  BY DEF Call, Press
<1> QED
  BY <1>1, <1>2, <1>3

LEMMA CallsAsked ==
  ASSUME IsABag(vizCalls), BagToSet(vizCalls) \subseteq Call,
         NEW kind \in {"both", "sum", "edges"}, NEW on \in SUBSET Vertex, NEW by \in Press',
         Asked(kind, on, by),
         Len(vizOf) \in Nat, Len(vizOf') \in Nat, Len(vizOf) <= Len(vizOf')
  PROVE  IsABag(vizCalls') /\ BagToSet(vizCalls') \subseteq Call'
<1> DEFINE c == [kind |-> kind, on |-> on, by |-> by]
           B == vizCalls (+) SetToBag({c})
<1>1. vizCalls' = B
  BY DEF Asked
<1>2. c \in Call'
  BY DEF Call
<1>3. Call \subseteq Call'
  BY DEF Call, Press
<1> HIDE DEF c
<1>4. IsABag(B) /\ BagToSet(B) = BagToSet(vizCalls) \cup {c}
  BY BagWith
<1> HIDE DEF B
<1> QED
  BY <1>1, <1>2, <1>3, <1>4

LEMMA VizTypesStep ==
  ASSUME VizTypeOK, VizReply \/ VizUser \/ (\E v \in Vertex : Visualize(v))
  PROVE  VizTypeOK'
<1>1. /\ vizOpen \in BOOLEAN /\ vizOf \in Seq(Drawing) /\ canvas \subseteq Press
      /\ rgraph \in Press \cup {0} /\ IsABag(vizCalls) /\ BagToSet(vizCalls) \subseteq Call
      /\ right \subseteq SUBSET Vertex /\ Len(vizOf) \in Nat
  BY DEF VizTypeOK, Drawing
<1>2. \A v \in Vertex : Near[v] \in SUBSET Vertex
  BY VisualizationAssumption
<1>3. ASSUME NEW c \in BagToSet(vizCalls), Answer(c), vizOf' \in Seq(Drawing),
             Len(vizOf') = Len(vizOf)
      PROVE  IsABag(vizCalls') /\ BagToSet(vizCalls') \subseteq Call' /\ Press' = Press
  BY <1>1, <1>3, CallsAnswered
<1>4. ASSUME NEW v \in Vertex, Visualize(v) PROVE VizTypeOK'
  <2> DEFINE d == [vertex |-> v, made |-> FALSE, nodes |-> {}]
  <2>1. d \in Drawing /\ vizOf' = Append(vizOf, d)
    BY <1>4 DEF Visualize, Drawing
  <2> HIDE DEF d
  <2>2. vizOf' \in Seq(Drawing) /\ Len(vizOf') = Len(vizOf) + 1
    BY <1>1, <2>1
  <2>3. Asked("both", {v}, Len(vizOf')) /\ Len(vizOf') \in Press'
    BY <1>1, <1>4, <2>2 DEF Visualize, Press
  <2>4. IsABag(vizCalls') /\ BagToSet(vizCalls') \subseteq Call'
    BY <1>1, <2>2, <2>3, CallsAsked
  <2> QED
    BY <1>1, <1>4, <2>2, <2>4 DEF VizTypeOK, Visualize, Press, Drawing
<1>5. ASSUME NEW k \in canvas, NEW on \in SUBSET Vertex, NEW kind \in {"sum", "edges"},
             Asked(kind, on, k), UNCHANGED vizOf
      PROVE  IsABag(vizCalls') /\ BagToSet(vizCalls') \subseteq Call' /\ Press' = Press
  <2>1. Press' = Press /\ k \in Press
    BY <1>1, <1>5 DEF Press
  <2>2. IsABag(vizCalls') /\ BagToSet(vizCalls') \subseteq Call'
    BY <1>1, <1>5, <2>1, CallsAsked
  <2> QED
    BY <2>1, <2>2
<1>6. CASE VizUser
  <2>1. ASSUME NEW k \in canvas, NEW n \in Vertex, RightClick(k, n) PROVE VizTypeOK'
    <3>1. Asked("sum", {n}, k) /\ UNCHANGED <<vizOpen, vizOf, canvas, rgraph, right>>
      BY <2>1 DEF RightClick
    <3> QED
      BY <1>1, <1>5, <3>1 DEF VizTypeOK, Drawing
  <2>2. ASSUME NEW k \in canvas, NEW n \in Vertex, NodeClick(k, n) PROVE VizTypeOK'
    BY <1>1, <2>2 DEF NodeClick, VizTypeOK, Press, Call, Drawing
  <2>3. ASSUME NEW k \in canvas, NEW a \in Vertex, NEW b \in Vertex, EdgeClick(k, a, b)
        PROVE  VizTypeOK'
    <3>1. /\ Asked("edges", {a, b}, k) /\ UNCHANGED <<vizOpen, vizOf, canvas, rgraph>>
          /\ right' = {}
      BY <2>3 DEF EdgeClick
    <3> QED
      BY <1>1, <1>5, <3>1 DEF VizTypeOK, Drawing
  <2>4. CASE CloseViz
    BY <1>1, <2>4 DEF CloseViz, VizTypeOK, Press, Call, Drawing
  <2> QED
    BY <1>6, <2>1, <2>2, <2>3, <2>4 DEF VizUser
<1>7. CASE VizReply
  <2>1. PICK c \in BagToSet(vizCalls) :
          \/ c.kind = "both" /\ \E centre \in BOOLEAN : VizComes(c, centre)
          \/ c.kind = "sum" /\ SumComes(c)
          \/ c.kind = "edges" /\ EdgesCome(c)
          \/ VizCallFails(c)
    BY <1>7 DEF VizReply
  <2>2. c.by \in Press /\ c.on \in SUBSET Vertex
    BY <1>1 DEF Call
  <2>3. ASSUME NEW centre \in BOOLEAN, VizComes(c, centre) PROVE VizTypeOK'
    <3> DEFINE v == vizOf[c.by].vertex
               nodes == Near[v] \cup (IF centre THEN {v} ELSE {})
    <3>1. v \in Vertex /\ vizOf[c.by] \in Drawing
      <4>1. vizOf[c.by] \in Drawing
        BY <1>1, <2>2 DEF Press
      <4> QED
        BY <4>1 DEF Drawing
    <3>2. nodes \in SUBSET Vertex
      BY <1>2, <3>1
    <3>3. vizOf' = [vizOf EXCEPT ![c.by] = [vizOf[c.by] EXCEPT !.made = TRUE, !.nodes = nodes]]
      BY <2>3 DEF VizComes
    <3> HIDE DEF nodes, v
    <3>4. [vizOf[c.by] EXCEPT !.made = TRUE, !.nodes = nodes] \in Drawing
      BY <3>1, <3>2 DEF Drawing
    <3>5. vizOf' \in Seq(Drawing) /\ Len(vizOf') = Len(vizOf)
      BY <1>1, <2>2, <3>3, <3>4 DEF Press
    <3>6. /\ Answer(c) /\ canvas' = canvas \cup {c.by} /\ rgraph' = c.by
          /\ UNCHANGED <<vizOpen, right>>
      BY <2>3 DEF VizComes
    <3>7. IsABag(vizCalls') /\ BagToSet(vizCalls') \subseteq Call' /\ Press' = Press
      BY <1>3, <3>5, <3>6
    <3> QED
      BY <1>1, <2>2, <3>5, <3>6, <3>7 DEF VizTypeOK, Drawing
  <2>4. CASE SumComes(c)
    <3> DEFINE nodes == vizOf[rgraph].nodes \cup c.on \cup UNION {Near[n] : n \in c.on}
    <3>1. vizOf' = [vizOf EXCEPT ![rgraph] = [vizOf[rgraph] EXCEPT !.nodes = nodes]]
      BY <2>4 DEF SumComes
    <3>2. rgraph \in Press => vizOf[rgraph] \in Drawing /\ nodes \in SUBSET Vertex
      <4>1. rgraph \in Press => vizOf[rgraph] \in Drawing
        BY <1>1 DEF Press
      <4>2. rgraph \in Press => vizOf[rgraph].nodes \subseteq Vertex
        BY <4>1 DEF Drawing
      <4> QED
        BY <1>2, <2>2, <4>1, <4>2
    <3> HIDE DEF nodes
    <3>3. rgraph \in Press => [vizOf[rgraph] EXCEPT !.nodes = nodes] \in Drawing
      BY <3>2 DEF Drawing
    <3>4. vizOf' \in Seq(Drawing) /\ Len(vizOf') = Len(vizOf)
      <4>1. CASE rgraph \in Press
        BY <1>1, <3>1, <3>3, <4>1 DEF Press
      <4>2. CASE rgraph = 0
        <5>1. rgraph \notin DOMAIN vizOf
          BY <1>1, <4>2
        <5>2. vizOf' = vizOf
          BY <1>1, <3>1, <5>1
        <5> QED
          BY <1>1, <5>2
      <4> QED
        BY <1>1, <4>1, <4>2
    <3>5. Answer(c) /\ UNCHANGED <<vizOpen, canvas, rgraph, right>>
      BY <2>4 DEF SumComes
    <3>6. IsABag(vizCalls') /\ BagToSet(vizCalls') \subseteq Call' /\ Press' = Press
      BY <1>3, <3>4, <3>5
    <3> QED
      BY <1>1, <3>4, <3>5, <3>6 DEF VizTypeOK, Drawing
  <2>5. CASE EdgesCome(c)
    <3>1. Answer(c) /\ UNCHANGED <<vizOpen, vizOf, canvas, rgraph>> /\ right' = right \cup {c.on}
      BY <2>5 DEF EdgesCome
    <3>2. IsABag(vizCalls') /\ BagToSet(vizCalls') \subseteq Call' /\ Press' = Press
      BY <1>1, <1>3, <3>1
    <3> QED
      BY <1>1, <2>2, <3>1, <3>2 DEF VizTypeOK, Drawing
  <2>6. CASE VizCallFails(c)
    <3>1. Answer(c) /\ UNCHANGED <<vizOpen, vizOf, canvas, rgraph, right>>
      BY <2>6 DEF VizCallFails
    <3>2. IsABag(vizCalls') /\ BagToSet(vizCalls') \subseteq Call' /\ Press' = Press
      BY <1>1, <1>3, <3>1
    <3> QED
      BY <1>1, <3>1, <3>2 DEF VizTypeOK, Drawing
  <2> QED
    BY <2>1, <2>3, <2>4, <2>5, <2>6
<1> QED
  BY <1>4, <1>6, <1>7

FilterType == [open : BOOLEAN, keys : SUBSET Key]
FormType == [open : BOOLEAN, loading : BOOLEAN, result : Seq(Nat), runs : Nat]

LEMMA TypesFrom ==
  ASSUME entries' \in Seq(Uri), pos' \in DOMAIN entries', lists' \in Nat,
         profiles' \in [Graph -> Nat], panel' \in PanelType, Complete(panel'),
         filter' \in FilterType, filter'.open => panel'.name # None /\ panel'.feature # None,
         form' \in FormType, formCalls' \subseteq 1 .. form'.runs, VizTypeOK',
         acts' \in 0 .. MaxActs, seen' \subseteq Happening
  PROVE  TypesHold'
<1>1. /\ panel'.name \in Graph \cup {None} /\ panel'.feature \in Feature \cup {None}
      /\ panel'.start \in Nat /\ panel'.total \in 0 .. PageSize
      /\ panel'.index \in Key \cup {None}
      /\ panel'.view \in {None, "browser", "element"}
      /\ \A b \in DOMAIN panel'.links : panel'.links[b] \in Uri \cup {Undefined}
      /\ panel'.ext \in Uri \cup {None}
  BY DEF PanelType
<1>2. filter'.keys \subseteq Key
  BY DEF FilterType
<1> QED
  BY <1>1, <1>2 DEF TypesHold, TypeOK, Complete, PanelType, FilterType, FormType, RowsType,
     ElementsInView

\* What the panel of the graph knows is kept by all that leaves the panel alone.
LEMMA TypesStay ==
  ASSUME TypesHold, UNCHANGED <<panelVars, formVars, vizVars>>,
         acts' \in 0 .. MaxActs, seen' \subseteq Happening
  PROVE  TypesHold'
<1>1. VizTypeOK'
  BY VizTypesStay DEF TypesHold, TypeOK
<1> QED
  BY <1>1, TypesFrom DEF TypesHold, TypeOK, panelVars, formVars, FilterType, FormType

\* The panel, the address and the filter are what a handler leaves to move.
LEMMA TypesMove ==
  ASSUME TypesHold, NEW u, MovedTo(u), panel' \in PanelType, Complete(panel'),
         filter' \in FilterType, filter'.open => panel'.name # None /\ panel'.feature # None,
         lists' \in Nat, profiles' \in [Graph -> Nat], UNCHANGED formVars, VizTypeOK',
         acts' \in 0 .. MaxActs, seen' \subseteq Happening
  PROVE  TypesHold'
BY TypesFrom DEF MovedTo, TypesHold, TypeOK, formVars, FormType

LEMMA UserTypes ==
  ASSUME TypesHold, User
  PROVE  TypesHold'
<1>1. /\ lists \in Nat /\ profiles \in [Graph -> Nat] /\ filter \in FilterType
      /\ VizTypeOK /\ acts \in 0 .. MaxActs /\ Complete(panel)
      /\ filter.open => panel.name # None /\ panel.feature # None
      /\ entries \in Seq(Uri) /\ pos \in DOMAIN entries /\ panel \in PanelType
      /\ form \in FormType /\ formCalls \subseteq 1 .. form.runs /\ seen \subseteq Happening
  BY DEF TypesHold, TypeOK, FilterType, FormType
<1>2. UNCHANGED vizVars => VizTypeOK'
  BY <1>1, VizTypesStay
<1>3. ASSUME NEW what, Acts(what) PROVE acts' \in 0 .. MaxActs
  BY <1>1, <1>3, GraphPanelAssumption DEF Acts
<1>4. /\ None # "browser" /\ None # "element"
      /\ \A g \in Graph : g # None
      /\ \A e \in Feature : e # None
  BY GraphPanelAssumption
<1>5. ASSUME NEW g \in Graph, SelectGraph(g) PROVE TypesHold'
  <2>1. /\ MovedTo(GraphUri(g)) /\ GraphUri(g).graph = g /\ GraphUri(g).element = None
        /\ panel' \in PanelType /\ Selected(panel, panel', GraphUri(g), TRUE)
        /\ seen' \subseteq Happening /\ lists' = lists /\ ~filter.open /\ filter' = filter
    BY <1>5, SelectOutcome
  <2>2. Complete(panel')
    BY <1>4, <2>1 DEF Selected, Complete
  <2>3. profiles' \in [Graph -> Nat]
    BY <1>1, <1>5 DEF SelectGraph, AsksProfile
  <2>4. UNCHANGED formVars /\ UNCHANGED vizVars /\ acts' \in 0 .. MaxActs
    BY <1>3, <1>5 DEF SelectGraph, Clicks
  <2> QED
    BY <1>1, <1>2, <2>1, <2>2, <2>3, <2>4, TypesMove
<1>6. ASSUME NEW e \in Feature, BrowseLink(e) PROVE TypesHold'
  <2>1. /\ MovedTo(PageUri(panel.name, e, 0, None)) /\ panel' \in PanelType
        /\ Listed(panel, panel', e, None, 0, "failed" \notin seen') /\ panel'.view = "browser"
        /\ seen' \subseteq Happening /\ panel.name # None
        /\ lists' = lists /\ ~filter.open /\ filter' = filter
    BY <1>6, BrowseOutcome
  <2>2. Complete(panel')
    <3>1. panel'.name = panel.name /\ panel'.browseOf = panel.browseOf /\ panel'.feature = e
      BY <2>1 DEF Listed
    <3> QED
      BY <1>1, <1>4, <2>1, <3>1 DEF Complete
  <2>3. UNCHANGED <<profiles, formVars, vizVars>> /\ acts' \in 0 .. MaxActs
    BY <1>3, <1>6 DEF BrowseLink, Shows, Clicks
  <2> QED
    BY <1>1, <1>2, <2>1, <2>2, <2>3, TypesMove
<1>7. ASSUME NEW b \in Button, Pager(b) PROVE TypesHold'
  <2>1. /\ panel.view = "browser" /\ panel'.view = "browser" /\ MovedTo(PagerUri(b))
        /\ panel' \in PanelType
        /\ Listed(panel, panel', panel.feature, PagerKey(b), PagerStart(b),
                  "failed" \notin seen')
        /\ seen' \subseteq Happening /\ lists' = lists /\ ~filter.open /\ filter' = filter
    BY <1>7, PagerOutcome
  <2>2. Complete(panel')
    BY <1>1, <1>4, <2>1 DEF Listed, Complete
  <2>3. UNCHANGED <<profiles, formVars, vizVars>> /\ acts' \in 0 .. MaxActs
    BY <1>3, <1>7 DEF Pager, Shows, Clicks
  <2> QED
    BY <1>1, <1>2, <2>1, <2>2, <2>3, TypesMove
<1>8. CASE Search
  <2>1. /\ MovedTo(uri) /\ UNCHANGED <<lists, profiles, panel>> /\ panel.view = "browser"
        /\ seen' \subseteq Happening /\ filter' \in FilterType
    BY <1>8, SearchOutcome DEF FilterType
  <2>2. panel'.name # None /\ panel'.feature # None
    BY <1>1, <1>4, <2>1 DEF Complete
  <2>3. UNCHANGED <<formVars, vizVars>> /\ acts' \in 0 .. MaxActs
    BY <1>3, <1>8 DEF Search, Clicks
  <2> QED
    BY <1>1, <1>2, <2>1, <2>2, <2>3, TypesMove
<1>9. CASE LeaveFilter
  <2>1. Acts({}) /\ filter' = [filter EXCEPT !.open = FALSE]
        /\ UNCHANGED <<entries, pos, lists, profiles, panel, formVars, vizVars>>
    BY <1>9 DEF LeaveFilter
  <2>2. filter' \in FilterType /\ ~filter'.open
    BY <1>1, <2>1 DEF FilterType
  <2>3. acts' \in 0 .. MaxActs /\ seen' \subseteq Happening
    BY <2>1, ActOutcome
  <2>4. MovedTo(uri)
    BY <2>1, StaysThere DEF Stays
  <2> QED
    BY <1>1, <1>2, <2>1, <2>2, <2>3, <2>4, TypesMove
<1>10. ASSUME NEW k \in Key, Filter(k) PROVE TypesHold'
  <2>1. /\ filter.open /\ filter' \in FilterType
        /\ panel' \in PanelType /\ panel'.view = panel.view /\ panel'.viewed = panel.viewed
        /\ seen' \subseteq Happening /\ lists' = lists /\ profiles' = profiles
        /\ \/ FilterSet(k)
           \/ /\ uri.element # None /\ ~filter'.open /\ MovedTo(FilterUri(k))
              /\ Listed(panel, panel', panel.feature, k, 0, "failed" \notin seen')
    BY <1>10, FilterOutcome DEF FilterType
  <2>2. panel'.name = panel.name /\ panel'.browseOf = panel.browseOf
        /\ panel'.feature = panel.feature
    BY <2>1 DEF FilterSet, Listed
  <2>3. Complete(panel')
    BY <1>1, <2>1, <2>2 DEF Complete
  <2>4. MovedTo(uri) \/ MovedTo(FilterUri(k))
    BY <2>1, StaysThere DEF FilterSet, Stays
  <2>5. UNCHANGED <<formVars, vizVars>> /\ acts' \in 0 .. MaxActs
    BY <1>3, <1>10 DEF Filter
  <2> QED
    BY <1>1, <1>2, <2>1, <2>2, <2>3, <2>4, <2>5, TypesMove
<1>11. ASSUME NEW i \in Vertex, ViewElement(i) \/ \E e \in Feature : FollowLink(e, i)
       PROVE  TypesHold'
  <2>1. PICK g \in Graph, e \in Feature :
          /\ MovedTo(ElementUri(g, e, i))
          /\ panel' \in PanelType /\ Viewed(panel, panel', e, i)
          /\ seen' \subseteq Happening /\ lists' = lists /\ profiles' = profiles
          /\ panel.name # None /\ ~filter.open /\ filter' = filter
    BY <1>11, ElementOutcome
  <2>2. Complete(panel')
    BY <1>1, <1>4, <2>1 DEF Viewed, Complete
  <2>3. UNCHANGED <<formVars, vizVars>> /\ acts' \in 0 .. MaxActs
    BY <1>3, <1>11 DEF ViewElement, FollowLink, Clicks
  <2> QED
    BY <1>1, <1>2, <2>1, <2>2, <2>3, TypesMove
<1>12. ASSUME NEW v \in Vertex, ClickVisualize(v) PROVE TypesHold'
  <2>1. /\ UNCHANGED <<lists, profiles, panel, filter>> /\ seen' \subseteq Happening
        /\ \E u : MovedTo(u)
    BY <1>12, VisualizeOutcome
  <2>2. UNCHANGED formVars /\ VizTypeOK' /\ acts' \in 0 .. MaxActs
    BY <1>1, <1>3, <1>12, VizTypesStep DEF ClickVisualize
  <2> QED
    BY <1>1, <2>1, <2>2, TypesMove
<1>13. CASE InVisualization
  <2>1. VizUser /\ Acts({}) /\ UNCHANGED <<panelVars, formVars>>
    BY <1>13 DEF InVisualization
  <2>2. acts' \in 0 .. MaxActs /\ seen' \subseteq Happening
    BY <2>1, ActOutcome
  <2>3. VizTypeOK'
    BY <1>1, <2>1, VizTypesStep
  <2>4. MovedTo(uri)
    BY <2>1, StaysThere DEF Stays, panelVars
  <2> QED
    BY <1>1, <2>1, <2>2, <2>3, <2>4, TypesMove DEF panelVars
<1>14. CASE RunExtension
  <2>1. /\ Acts({}) /\ UNCHANGED <<panelVars, vizVars>>
        /\ form' = [open |-> TRUE, loading |-> TRUE, result |-> <<>>, runs |-> form.runs + 1]
        /\ formCalls' = formCalls \cup {form.runs + 1}
    BY <1>14 DEF RunExtension
  <2>2. acts' \in 0 .. MaxActs /\ seen' \subseteq Happening
    BY <2>1, ActOutcome
  <2>3. form' \in FormType /\ formCalls' \subseteq 1 .. form'.runs
    <3>1. form.runs \in Nat /\ <<>> \in Seq(Nat)
      BY <1>1 DEF FormType
    <3>2. form' \in FormType /\ form'.runs = form.runs + 1
      BY <2>1, <3>1 DEF FormType
    <3>3. formCalls' \subseteq 1 .. form.runs + 1
      <4>1. \A c \in formCalls : c \in 1 .. form.runs
        BY <1>1
      <4>2. formCalls' = formCalls \cup {form.runs + 1}
        BY <2>1
      <4> QED
        BY <3>1, <4>1, <4>2
    <3> QED
      BY <3>2, <3>3
  <2> QED
    BY <1>1, <1>2, <2>1, <2>2, <2>3, TypesFrom DEF panelVars
<1>15. CASE CloseForm
  <2>1. /\ Acts({}) /\ UNCHANGED <<panelVars, formCalls, vizVars>>
        /\ form' = [form EXCEPT !.open = FALSE]
    BY <1>15 DEF CloseForm
  <2>2. acts' \in 0 .. MaxActs /\ seen' \subseteq Happening
    BY <2>1, ActOutcome
  <2>3. form' \in FormType /\ form'.runs = form.runs
    BY <1>1, <2>1 DEF FormType
  <2> QED
    BY <1>1, <1>2, <2>1, <2>2, <2>3, TypesFrom DEF panelVars
<1>16. ASSUME NEW to \in DOMAIN entries, NEW restores \in BOOLEAN, GoTo(to, restores)
       PROVE  TypesHold'
  <2>1. {IF restores THEN "restored" ELSE "ignored"} \in SUBSET Happening
    BY DEF Happening
  <2>2. acts' \in 0 .. MaxActs /\ seen' \subseteq Happening
    BY <1>16, <2>1, ActOutcome DEF GoTo
  <2>3. /\ pos' = to /\ lists' \in Nat
        /\ UNCHANGED <<entries, profiles, panel, filter, formVars, vizVars>>
    BY <1>1, <1>16 DEF GoTo
  <2> QED
    BY <1>1, <1>2, <2>2, <2>3, TypesFrom DEF formVars
<1> QED
  BY <1>5, <1>6, <1>7, <1>8, <1>9, <1>10, <1>11, <1>12, <1>13, <1>14, <1>15, <1>16
     DEF User, Button

LEMMA ReplyTypes ==
  ASSUME TypesHold, Replies
  PROVE  TypesHold'
<1>1. /\ lists \in Nat /\ profiles \in [Graph -> Nat] /\ filter \in FilterType
      /\ VizTypeOK /\ acts \in 0 .. MaxActs /\ Complete(panel)
      /\ filter.open => panel.name # None /\ panel.feature # None
      /\ entries \in Seq(Uri) /\ pos \in DOMAIN entries /\ panel \in PanelType
      /\ form \in FormType /\ formCalls \subseteq 1 .. form.runs /\ seen \subseteq Happening
  BY DEF TypesHold, TypeOK, FilterType, FormType
<1>2. UNCHANGED vizVars => VizTypeOK'
  BY <1>1, VizTypesStay
<1>4. /\ None # "browser" /\ None # "element"
      /\ \A g \in Graph : g # None
      /\ \A e \in Feature : e # None
  BY GraphPanelAssumption
<1>5. CASE ListComes
  <2>1. /\ ListUri \in Uri /\ ListUri.graph \in Graph /\ MovedTo(ListUri)
        /\ panel' \in PanelType /\ Selected(panel, panel', ListUri, "failed" \notin seen')
        /\ seen' \subseteq Happening
    BY <1>5, ListOutcome
  <2>2. Complete(panel') /\ (panel.feature # None => panel'.feature # None)
    <3>1. ListUri.element \in Feature \cup {None}
      BY <2>1 DEF Uri
    <3> QED
      BY <1>4, <2>1, <3>1 DEF Selected, Complete
  <2>3. /\ lists' \in Nat /\ profiles' \in [Graph -> Nat]
        /\ UNCHANGED <<filter, formVars, vizVars, acts>>
    <3>1. lists' \in Nat /\ UNCHANGED <<filter, formVars, vizVars, acts>>
      BY <1>1, <1>5 DEF ListComes
    <3>2. AsksProfile(ListUri.graph)
      BY <1>5 DEF ListComes, ListUri
    <3> QED
      BY <1>1, <2>1, <3>1, <3>2 DEF AsksProfile
  <2>4. panel'.name # None
    BY <1>4, <2>1 DEF Selected
  <2> QED
    BY <1>1, <1>2, <2>1, <2>2, <2>3, <2>4, TypesMove
<1>6. CASE ListFails
  <2>1. /\ lists' \in Nat /\ seen' \subseteq Happening
        /\ UNCHANGED <<entries, pos, profiles, panel, filter, formVars, vizVars, acts>>
    BY <1>1, <1>6 DEF ListFails, Happening
  <2> QED
    BY <1>1, <1>2, <2>1, TypesFrom DEF formVars
<1>7. ASSUME NEW g \in Graph, ProfileComes(g) PROVE TypesHold'
  <2>1. /\ profiles' \in [Graph -> Nat] /\ seen' \subseteq Happening
        /\ UNCHANGED <<entries, pos, lists, filter, formVars, vizVars, acts>>
    <3>1. seen' \subseteq Happening
      BY <1>1, <1>7 DEF ProfileComes, Happening
    <3>2. profiles' = [profiles EXCEPT ![g] = @ - 1] /\ profiles[g] > 0 /\ profiles[g] \in Nat
      BY <1>1, <1>7 DEF ProfileComes
    <3>3. profiles' \in [Graph -> Nat]
      BY <1>1, <3>2
    <3> QED
      BY <1>7, <3>1, <3>3 DEF ProfileComes
  <2>2. /\ panel' \in PanelType /\ Complete(panel')
        /\ panel'.name = panel.name /\ panel'.feature = panel.feature
    <3>1. CASE panel' = ProfileShown(panel, g)
      <4>1. panel' \in PanelType /\ SameBut(panel, panel')
        BY <1>1, <3>1, ProfileShows
      <4> QED
        BY <1>1, <4>1 DEF SameBut, Complete
    <3>2. CASE panel' = panel
      BY <1>1, <3>2
    <3> QED
      BY <1>7, <3>1, <3>2 DEF ProfileComes
  <2> QED
    BY <1>1, <1>2, <2>1, <2>2, TypesFrom DEF formVars
<1>8. CASE VizReplies
  <2>1. VizReply /\ UNCHANGED <<panelVars, formVars, acts, seen>>
    BY <1>8 DEF VizReplies
  <2>2. VizTypeOK'
    BY <1>1, <2>1, VizTypesStep
  <2> QED
    BY <1>1, <2>1, <2>2, TypesFrom DEF panelVars, formVars
<1>9. ASSUME NEW c \in formCalls, FormComes(c) PROVE TypesHold'
  <2>1. /\ formCalls' \subseteq formCalls /\ UNCHANGED <<panelVars, vizVars, acts>>
        /\ seen' \subseteq Happening
    BY <1>1, <1>9 DEF FormComes, Happening
  <2>2. c \in Nat /\ form.result \in Seq(Nat)
    BY <1>1 DEF FormType
  <2>3. Append(form.result, c) \in Seq(Nat) /\ <<c>> \in Seq(Nat) /\ <<>> \in Seq(Nat)
    BY <2>2
  <2>4. form' \in FormType /\ form'.runs = form.runs
    <3>1. CASE form' = [form EXCEPT !.result = Append(@, c), !.loading = FALSE]
      BY <1>1, <2>3, <3>1 DEF FormType
    <3>2. CASE form' = [form EXCEPT !.result = <<c>>, !.loading = FALSE]
      BY <1>1, <2>3, <3>2 DEF FormType
    <3>3. CASE form' = [form EXCEPT !.result = <<>>]
      BY <1>1, <2>3, <3>3 DEF FormType
    <3> QED
      BY <1>9, <3>1, <3>2, <3>3 DEF FormComes
  <2> QED
    BY <1>1, <1>2, <2>1, <2>4, TypesFrom DEF panelVars
<1> QED
  BY <1>5, <1>6, <1>7, <1>8, <1>9 DEF Replies

LEMMA InitTypes == Init => TypesHold
<1> SUFFICES ASSUME Init PROVE TypesHold
  OBVIOUS
<1>1. PICK u \in Opened : entries = <<u>>
  BY DEF Init
<1>2. u \in Uri /\ entries \in Seq(Uri) /\ pos \in DOMAIN entries
  BY <1>1, GraphPanelAssumption DEF Init
<1>3. panel \in PanelType /\ Complete(panel)
  <2>1. panel = NewPanel
    BY DEF Init
  <2>2. NewPanel \in PanelType
    BY DEF NewPanel, PanelType, RowsType, Button, PageSize
  <2>3. Complete(NewPanel)
    BY GraphPanelAssumption DEF NewPanel, Complete
  <2> QED
    BY <2>1, <2>2, <2>3
<1>4. VizTypeOK
  <2>1. IsABag(EmptyBag) /\ BagToSet(EmptyBag) = {}
    BY SmallBags
  <2> QED
    <3>1. /\ vizOpen = FALSE /\ vizOf = <<>> /\ canvas = {} /\ rgraph = 0
          /\ vizCalls = EmptyBag /\ right = {}
      BY DEF Init, VizInit
    <3>2. vizOf \in Seq([vertex : Vertex, made : BOOLEAN, nodes : SUBSET Vertex])
      BY <3>1
    <3> QED
      BY <2>1, <3>1, <3>2 DEF VizTypeOK
<1>5. /\ panel.name \in Graph \cup {None} /\ panel.feature \in Feature \cup {None}
      /\ panel.start \in Nat /\ panel.total \in 0 .. PageSize
      /\ panel.index \in Key \cup {None}
      /\ panel.view \in {None, "browser", "element"}
      /\ \A b \in DOMAIN panel.links : panel.links[b] \in Uri \cup {Undefined}
      /\ panel.ext \in Uri \cup {None}
  BY <1>3 DEF PanelType
<1>6. lists \in Nat /\ profiles \in [Graph -> Nat] /\ acts \in 0 .. MaxActs /\ seen = {}
      /\ filter = [open |-> FALSE, keys |-> {}] /\ formCalls = {}
      /\ form = [open |-> FALSE, loading |-> FALSE, result |-> <<>>, runs |-> 0]
  BY GraphPanelAssumption DEF Init
<1> QED
  BY <1>2, <1>3, <1>4, <1>5, <1>6 DEF TypesHold, TypeOK, Happening

LEMMA TypesInvariance == Spec => []TypesHold
<1>1. TypesHold /\ [Next]_vars => TypesHold'
  <2> SUFFICES ASSUME TypesHold, [Next]_vars PROVE TypesHold'
    OBVIOUS
  <2>1. CASE UNCHANGED vars
    BY <2>1, TypesStay DEF vars, TypesHold, TypeOK
  <2> QED
    BY <2>1, UserTypes, ReplyTypes DEF Next
<1> QED
  BY <1>1, InitTypes, PTL DEF Spec

-----------------------------------------------------------------------------
(***************************************************************************)
(* Profiles.                                                               *)
(***************************************************************************)
\* A profile that is missing is under way, and if two were never asked for at
\* once, every one under way is that of the selected graph.
ProfileInv ==
  /\ panel.name = None => \A g \in Graph : profiles[g] = 0
  /\ "failed" \notin seen /\ panel.name # None =>
       /\ panel.title = panel.name \/ \E g \in Graph : profiles[g] > 0
       /\ "overlapped" \notin seen =>
            /\ \A g \in Graph : profiles[g] > 0 => g = panel.name
            /\ panel.vertices \/ panel.name \in Sail
            /\ profiles[panel.name] = 0 =>
                 panel.detail = panel.name /\ panel.vertices = (panel.name \notin Sail)

LEMMA ProfileAsked ==
  ASSUME TypesHold, NEW g \in Graph, AsksProfile(g), panel'.name = g, panel'.vertices,
         seen \subseteq seen',
         "overlapped" \notin seen' => \A h \in Graph : profiles[h] > 0 => h = g
  PROVE  ProfileInv'
<1>1. profiles \in [Graph -> Nat]
  BY DEF TypesHold, TypeOK
<1>2. /\ profiles'[g] = profiles[g] + 1 /\ profiles'[g] > 0
      /\ \A h \in Graph \ {g} : profiles'[h] = profiles[h]
  BY <1>1 DEF AsksProfile
<1>3. g # None
  BY GraphPanelAssumption
<1>4. panel'.title = panel'.name \/ \E h \in Graph : profiles'[h] > 0
  BY <1>2
<1>5. "overlapped" \notin seen' => \A h \in Graph : profiles'[h] > 0 => h = panel'.name
  BY <1>2
<1>6. profiles'[panel'.name] # 0 /\ panel'.name # None
  BY <1>1, <1>2, <1>3
<1> QED
  BY <1>4, <1>5, <1>6 DEF ProfileInv

LEMMA ProfileStays ==
  ASSUME ProfileInv, UNCHANGED profiles, seen \subseteq seen',
         panel'.name = panel.name, panel'.title = panel.title,
         panel'.detail = panel.detail, panel'.vertices = panel.vertices
  PROVE  ProfileInv'
BY DEF ProfileInv

LEMMA ProfileStep ==
  ASSUME TypesHold, ProfileInv, [Next]_vars
  PROVE  ProfileInv'
<1>1. ASSUME NEW g \in Graph, SelectGraph(g) PROVE ProfileInv'
  <2>1. /\ panel'.name = g /\ panel'.vertices /\ seen \subseteq seen' /\ AsksProfile(g)
        /\ "overlapped" \notin seen' => \A h \in Graph : profiles[h] > 0 => h = g
    BY <1>1, SelectOutcome DEF Selected, SelectGraph
  <2> QED
    BY <2>1, ProfileAsked
<1>2. CASE ListComes
  <2>1. /\ ListUri.graph \in Graph /\ panel'.name = ListUri.graph /\ panel'.vertices
        /\ seen \subseteq seen' /\ AsksProfile(ListUri.graph)
        /\ "overlapped" \notin seen' => \A h \in Graph : profiles[h] > 0 => h = ListUri.graph
    BY <1>2, ListOutcome DEF Selected, ListComes, ListUri
  <2> QED
    BY <2>1, ProfileAsked
<1>3. ASSUME NEW g \in Graph, ProfileComes(g) PROVE ProfileInv'
  <2>1. /\ profiles \in [Graph -> Nat] /\ profiles[g] > 0
        /\ profiles' = [profiles EXCEPT ![g] = @ - 1]
    BY <1>3 DEF ProfileComes, TypesHold, TypeOK
  <2>2. /\ profiles'[g] = profiles[g] - 1 /\ profiles[g] \in Nat
        /\ \A h \in Graph \ {g} : profiles'[h] = profiles[h]
    BY <2>1
  <2>3. panel.name # None
    BY <2>1 DEF ProfileInv
  <2>4. CASE panel' = panel /\ seen' = seen \cup {"failed"}
    BY <2>3, <2>4 DEF ProfileInv
  <2>5. CASE panel' = ProfileShown(panel, g) /\ UNCHANGED seen
    <3>1. /\ panel'.name = panel.name /\ panel'.title = panel.name /\ panel'.detail = g
          /\ panel'.vertices = (panel.vertices /\ g \notin Sail)
      BY <2>5, UriFacts, ProfileShows DEF SameBut
    <3>2. ASSUME "failed" \notin seen, "overlapped" \notin seen
          PROVE  /\ \A h \in Graph : profiles'[h] > 0 => h = panel.name
                 /\ g = panel.name
                 /\ panel.vertices \/ panel.name \in Sail
      BY <2>1, <2>2, <2>3, <3>2 DEF ProfileInv
    <3>3. panel'.vertices \in BOOLEAN /\ panel.vertices \in BOOLEAN
      BY <3>1, UriFacts DEF PanelType
    <3>4. ASSUME "failed" \notin seen, "overlapped" \notin seen
          PROVE  panel'.detail = panel'.name /\ panel'.vertices = (panel'.name \notin Sail)
      BY <3>1, <3>2, <3>3, <3>4
    <3>5. panel'.vertices \/ panel'.name \in Sail
          \/ "failed" \in seen \/ "overlapped" \in seen
      BY <3>4
    <3> QED
      BY <2>3, <2>5, <3>1, <3>2, <3>4, <3>5 DEF ProfileInv
  <2> QED
    BY <1>3, <2>4, <2>5 DEF ProfileComes
<1>4. ASSUME NEW e \in Feature, BrowseLink(e) PROVE ProfileInv'
  <2>1. /\ seen \subseteq seen' /\ panel'.name = panel.name /\ panel'.title = panel.title
        /\ panel'.detail = panel.detail /\ panel'.vertices = panel.vertices
    BY <1>4, BrowseOutcome DEF Listed
  <2> QED
    BY <1>4, <2>1, ProfileStays DEF BrowseLink, Shows
<1>5. ASSUME NEW b \in Button, Pager(b) PROVE ProfileInv'
  <2>1. /\ seen \subseteq seen' /\ panel'.name = panel.name /\ panel'.title = panel.title
        /\ panel'.detail = panel.detail /\ panel'.vertices = panel.vertices
    BY <1>5, PagerOutcome DEF Listed
  <2> QED
    BY <1>5, <2>1, ProfileStays DEF Pager, Shows
<1>6. ASSUME NEW k \in Key, Filter(k) PROVE ProfileInv'
  <2>1. /\ seen \subseteq seen' /\ profiles' = profiles
        /\ panel'.name = panel.name /\ panel'.title = panel.title
        /\ panel'.detail = panel.detail /\ panel'.vertices = panel.vertices
    BY <1>6, FilterOutcome DEF FilterSet, Listed
  <2> QED
    BY <2>1, ProfileStays
<1>7. ASSUME NEW i \in Vertex, ViewElement(i) \/ \E e \in Feature : FollowLink(e, i)
      PROVE  ProfileInv'
  <2>1. /\ seen \subseteq seen' /\ profiles' = profiles
        /\ panel'.name = panel.name /\ panel'.title = panel.title
        /\ panel'.detail = panel.detail /\ panel'.vertices = panel.vertices
    BY <1>7, ElementOutcome DEF Viewed
  <2> QED
    BY <2>1, ProfileStays
<1>8. ASSUME seen \subseteq seen', UNCHANGED <<profiles, panel>> PROVE ProfileInv'
  BY <1>8, ProfileStays
<1>9. CASE User
  <2>1. \/ \E g \in Graph : SelectGraph(g)
        \/ \E e \in Feature : BrowseLink(e)
        \/ \E b \in Button : Pager(b)
        \/ \E k \in Key : Filter(k)
        \/ \E i \in Vertex : ViewElement(i) \/ \E e \in Feature : FollowLink(e, i)
        \/ UNCHANGED <<profiles, panel>> /\ seen \subseteq seen'
    BY <1>9 DEF User, Button, Search, LeaveFilter, ClickVisualize, InVisualization, RunExtension,
       CloseForm, GoTo, Clicks, Acts, panelVars
  <2> QED
    BY <1>1, <1>4, <1>5, <1>6, <1>7, <1>8, <2>1
<1>10. CASE Replies
  <2>1. \/ ListComes \/ \E g \in Graph : ProfileComes(g)
        \/ UNCHANGED <<profiles, panel>> /\ seen \subseteq seen'
    BY <1>10 DEF Replies, ListFails, VizReplies, FormComes, panelVars
  <2> QED
    BY <1>2, <1>3, <1>8, <2>1
<1>11. CASE UNCHANGED vars
  BY <1>8, <1>11 DEF vars, panelVars
<1> QED
  BY <1>9, <1>10, <1>11 DEF Next

\* The title, the detail and the vertices link are of the selected graph when
\* the profiles have come, in whatever order they come.
THEOREM ProfileMatches == Spec => []ProfileOfSelectedGraph
<1>1. Init => ProfileInv
  BY DEF Init, NewPanel, ProfileInv
<1>2. TypesHold /\ ProfileInv /\ [Next]_vars => ProfileInv'
  BY ProfileStep
<1>3. TypesHold /\ ProfileInv => ProfileOfSelectedGraph
  BY UriFacts DEF ProfileInv, ProfileOfSelectedGraph, Ready
<1> QED
  BY <1>1, <1>2, <1>3, TypesInvariance, PTL DEF Spec

-----------------------------------------------------------------------------
(***************************************************************************)
(* The dialog of the extensions.                                           *)
(***************************************************************************)
\* What is due is due for the extension the dialog was opened for, and then
\* nothing is shown yet.
FormInv ==
  /\ "hasty" \notin seen =>
       \/ formCalls = {} /\ form.result \in {<<>>, <<form.runs>>}
       \/ formCalls = {form.runs} /\ form.result = <<>>
  /\ "unreadable" \notin seen /\ form.loading => formCalls # {}

\* All but the handlers of the dialog leave it alone.
LEMMA UserKeepsForm ==
  ASSUME User
  PROVE  RunExtension \/ CloseForm \/ (UNCHANGED formVars /\ seen \subseteq seen')
<1>1. ASSUME NEW what, Acts(what) PROVE seen \subseteq seen'
  BY <1>1 DEF Acts
<1>2. ASSUME NEW what, Clicks(what) PROVE UNCHANGED formVars /\ seen \subseteq seen'
  BY <1>1, <1>2 DEF Clicks
<1>3. ASSUME NEW g \in Graph, SelectGraph(g) PROVE UNCHANGED formVars /\ seen \subseteq seen'
  BY <1>2, <1>3 DEF SelectGraph
<1>4. ASSUME NEW e \in Feature, BrowseLink(e) PROVE UNCHANGED formVars /\ seen \subseteq seen'
  BY <1>2, <1>4 DEF BrowseLink, Shows
<1>5. ASSUME NEW b \in {"first", "prev", "next", "cancel"}, Pager(b)
      PROVE  UNCHANGED formVars /\ seen \subseteq seen'
  BY <1>2, <1>5 DEF Pager, Shows
<1>6. CASE Search
  BY <1>2, <1>6 DEF Search
<1>7. CASE LeaveFilter
  BY <1>1, <1>7 DEF LeaveFilter
<1>8. ASSUME NEW k \in Key, Filter(k) PROVE UNCHANGED formVars /\ seen \subseteq seen'
  BY <1>1, <1>8 DEF Filter
<1>9. ASSUME NEW i \in Vertex, ViewElement(i) \/ \E e \in Feature : FollowLink(e, i)
      PROVE  UNCHANGED formVars /\ seen \subseteq seen'
  BY <1>2, <1>9 DEF ViewElement, FollowLink
<1>10. ASSUME NEW v \in Vertex, ClickVisualize(v) PROVE UNCHANGED formVars /\ seen \subseteq seen'
  BY <1>1, <1>10 DEF ClickVisualize
<1>11. CASE InVisualization
  BY <1>1, <1>11 DEF InVisualization
<1>12. ASSUME NEW to, NEW restores, GoTo(to, restores)
       PROVE  UNCHANGED formVars /\ seen \subseteq seen'
  BY <1>1, <1>12 DEF GoTo
<1> QED
  BY <1>3, <1>4, <1>5, <1>6, <1>7, <1>8, <1>9, <1>10, <1>11, <1>12 DEF User

LEMMA RepliesKeepForm ==
  ASSUME Replies
  PROVE  (\E c \in formCalls : FormComes(c)) \/ (UNCHANGED formVars /\ seen \subseteq seen')
<1>1. CASE ListComes
  BY <1>1 DEF ListComes
<1>2. CASE ListFails
  BY <1>2 DEF ListFails
<1>3. ASSUME NEW g \in Graph, ProfileComes(g) PROVE UNCHANGED formVars /\ seen \subseteq seen'
  BY <1>3 DEF ProfileComes
<1>4. CASE VizReplies
  BY <1>4 DEF VizReplies
<1> QED
  BY <1>1, <1>2, <1>3, <1>4 DEF Replies

LEMMA FormStep ==
  ASSUME TypesHold, FormInv, [Next]_vars
  PROVE  FormInv'
<1>1. form \in FormType
  BY DEF TypesHold, FormType
<1>2. ASSUME UNCHANGED formVars, seen \subseteq seen' PROVE FormInv'
  BY <1>2 DEF FormInv, formVars
<1>3. CASE RunExtension
  <2>1. /\ form' = [open |-> TRUE, loading |-> TRUE, result |-> <<>>, runs |-> form.runs + 1]
        /\ formCalls' = formCalls \cup {form.runs + 1} /\ seen \subseteq seen'
        /\ "hasty" \notin seen' => "hasty" \notin seen /\ formCalls = {}
    BY <1>3 DEF RunExtension, Acts, Waiting
  <2> QED
    BY <2>1 DEF FormInv
<1>4. ASSUME NEW c \in formCalls, FormComes(c) PROVE FormInv'
  <2>1. /\ formCalls' = formCalls \ {c} /\ seen \subseteq seen'
        /\ "hasty" \notin seen => c = form.runs /\ formCalls' = {} /\ form.result = <<>>
    BY <1>4 DEF FormComes, FormInv
  <2>2. CASE form' = [form EXCEPT !.result = Append(@, c), !.loading = FALSE]
    <3>1. Append(<<>>, c) = <<c>>
      OBVIOUS
    <3>2. /\ form'.result = Append(form.result, c) /\ ~form'.loading
          /\ form'.runs = form.runs
      BY <1>1, <2>2 DEF FormType
    <3> QED
      BY <2>1, <3>1, <3>2 DEF FormInv
  <2>3. CASE form' = [form EXCEPT !.result = <<c>>, !.loading = FALSE]
    <3>1. form'.result = <<c>> /\ ~form'.loading /\ form'.runs = form.runs
      BY <1>1, <2>3 DEF FormType
    <3> QED
      BY <2>1, <3>1 DEF FormInv
  <2>4. CASE form' = [form EXCEPT !.result = <<>>] /\ seen' = seen \cup {"unreadable"}
    <3>1. form'.result = <<>> /\ form'.runs = form.runs
      BY <1>1, <2>4 DEF FormType
    <3> QED
      BY <2>1, <2>4, <3>1 DEF FormInv
  <2> QED
    BY <1>4, <2>2, <2>3, <2>4 DEF FormComes
<1>5. CASE CloseForm
  <2>1. /\ form'.result = form.result /\ form'.loading = form.loading
        /\ form'.runs = form.runs /\ formCalls' = formCalls /\ seen \subseteq seen'
    BY <1>1, <1>5 DEF CloseForm, Acts, FormType
  <2> QED
    BY <2>1 DEF FormInv
<1>6. CASE User
  BY <1>2, <1>3, <1>5, <1>6, UserKeepsForm
<1>7. CASE Replies
  BY <1>2, <1>4, <1>7, RepliesKeepForm
<1>8. CASE UNCHANGED vars
  BY <1>2, <1>8 DEF vars
<1> QED
  BY <1>6, <1>7, <1>8 DEF Next

-----------------------------------------------------------------------------
(***************************************************************************)
(* The dialog of the visualization, for a user who waits.                  *)
(***************************************************************************)
Drawn(k) ==
  vizOf[k].nodes \subseteq
    {vizOf[k].vertex} \cup UNION {Near[n] : n \in vizOf[k].nodes \cup {vizOf[k].vertex}}

\* What is drawn is the drawing of the press that opened the dialog.
OneDrawing ==
  /\ canvas # {} => /\ vizOpen /\ canvas = {Len(vizOf)} /\ rgraph = Len(vizOf)
                    /\ vizOf[Len(vizOf)].made /\ Drawn(Len(vizOf))
  /\ ~vizOpen => right = {}
  /\ right = {} \/ \E s : right = {s}

\* c is the only call, and what it is for is still as it was asked for.
OneCall(c) ==
  /\ vizCalls = SetToBag({c}) /\ vizOpen
  /\ c.kind = "both" => c.by = Len(vizOf) /\ canvas = {}
  /\ c.kind = "sum" => canvas # {} /\ c.on \subseteq vizOf[rgraph].nodes
  /\ c.kind = "edges" => right = {}

DrawInv ==
  "hasty" \notin seen => OneDrawing /\ (vizCalls = EmptyBag \/ \E c : OneCall(c))

LEMMA DrawingStays ==
  ASSUME DrawInv, UNCHANGED vizVars, seen \subseteq seen'
  PROVE  DrawInv'
<1>1. UNCHANGED <<vizOpen, vizOf, canvas, rgraph, vizCalls, right>>
  BY DEF vizVars
<1>2. OneDrawing' = OneDrawing /\ \A c : OneCall(c)' = OneCall(c)
  BY <1>1 DEF OneDrawing, Drawn, OneCall
<1> QED
  BY <1>1, <1>2 DEF DrawInv

LEMMA WhoWaits ==
  ASSUME DrawInv, NEW what, Acts(what), "hasty" \notin seen'
  PROVE  OneDrawing /\ vizCalls = EmptyBag
BY DEF DrawInv, Acts, Waiting

LEMMA CallAsked ==
  ASSUME vizCalls = EmptyBag, NEW kind, NEW on, NEW by, Asked(kind, on, by)
  PROVE  vizCalls' = SetToBag({[kind |-> kind, on |-> on, by |-> by]})
BY SmallBags, BagWith DEF Asked

LEMMA PressDraws ==
  ASSUME VizTypeOK, OneDrawing, vizCalls = EmptyBag, ~vizOpen,
         NEW v \in Vertex, Visualize(v)
  PROVE  OneDrawing' /\ \E c : OneCall(c)'
<1> PICK c : c = [kind |-> "both", on |-> {v}, by |-> Len(vizOf')]
  OBVIOUS
<1>1. canvas = {} /\ right = {}
  BY DEF OneDrawing
<1>2. /\ vizOpen' /\ canvas' = {} /\ right' = {}
      /\ Asked("both", {v}, Len(vizOf'))
  BY <1>1 DEF Visualize
<1>3. vizCalls' = SetToBag({c})
  BY <1>2, CallAsked
<1>4. c.kind = "both" /\ c.by = Len(vizOf)'
  OBVIOUS
<1>5. OneCall(c)'
  BY <1>2, <1>3, <1>4 DEF OneCall
<1> QED
  BY <1>2, <1>5 DEF OneDrawing

LEMMA UserDraws ==
  ASSUME VizTypeOK, OneDrawing, vizCalls = EmptyBag, VizUser
  PROVE  OneDrawing' /\ (vizCalls' = EmptyBag \/ \E c : OneCall(c)')
<1>1. ASSUME NEW k \in canvas, NEW n \in Vertex, RightClick(k, n)
      PROVE  OneDrawing' /\ \E c : OneCall(c)'
  <2> DEFINE c == [kind |-> "sum", on |-> {n}, by |-> k]
  <2>1. /\ vizOpen /\ k = Len(vizOf) /\ rgraph = k /\ n \in vizOf[rgraph].nodes
        /\ UNCHANGED <<vizOpen, vizOf, canvas, rgraph, right>>
        /\ Asked("sum", {n}, k)
    BY <1>1 DEF RightClick, OneDrawing
  <2>2. vizCalls' = SetToBag({c}) /\ c.kind = "sum" /\ c.on = {n}
    BY <2>1, CallAsked
  <2> HIDE DEF c
  <2>3. OneCall(c)'
    BY <2>1, <2>2 DEF OneCall
  <2> QED
    BY <2>1, <2>3 DEF OneDrawing, Drawn
<1>2. ASSUME NEW k \in canvas, NEW n \in Vertex, NodeClick(k, n)
      PROVE  OneDrawing' /\ vizCalls' = EmptyBag
  BY <1>2 DEF NodeClick, OneDrawing, Drawn
<1>3. ASSUME NEW k \in canvas, NEW a \in Vertex, NEW b \in Vertex, EdgeClick(k, a, b)
      PROVE  OneDrawing' /\ \E c : OneCall(c)'
  <2> DEFINE c == [kind |-> "edges", on |-> {a, b}, by |-> k]
  <2>1. /\ vizOpen /\ right' = {} /\ UNCHANGED <<vizOpen, vizOf, canvas, rgraph>>
        /\ Asked("edges", {a, b}, k)
    BY <1>3 DEF EdgeClick
  <2>2. vizCalls' = SetToBag({c}) /\ c.kind = "edges"
    BY <2>1, CallAsked
  <2> HIDE DEF c
  <2>3. OneCall(c)'
    BY <2>1, <2>2 DEF OneCall
  <2> QED
    BY <2>1, <2>3 DEF OneDrawing, Drawn
<1>4. CASE CloseViz
  <2>1. /\ ~vizOpen' /\ right' = {} /\ vizCalls' = vizCalls
        /\ canvas' = IF vizOf[Len(vizOf)].made THEN {} ELSE canvas
    BY <1>4 DEF CloseViz
  <2>2. canvas' = {}
    BY <2>1 DEF OneDrawing
  <2> QED
    BY <2>1, <2>2 DEF OneDrawing
<1> QED
  BY <1>1, <1>2, <1>3, <1>4 DEF VizUser

LEMMA ReplyDraws ==
  ASSUME VizTypeOK, OneDrawing, NEW c \in BagToSet(vizCalls), OneCall(c),
         \/ c.kind = "both" /\ \E centre \in BOOLEAN : VizComes(c, centre)
         \/ c.kind = "sum" /\ SumComes(c)
         \/ c.kind = "edges" /\ EdgesCome(c)
         \/ VizCallFails(c)
  PROVE  OneDrawing' /\ vizCalls' = EmptyBag
<1>1. Answer(c)
  BY DEF VizComes, SumComes, EdgesCome, VizCallFails
<1>2. vizCalls' = EmptyBag
  BY <1>1, SmallBags, BagWithout DEF OneCall, Answer
<1>3. /\ vizOf \in Seq(Drawing) /\ canvas \subseteq Press /\ c.by \in Press
      /\ Len(vizOf) \in Nat
  BY DEF VizTypeOK, Call, Drawing
<1>4. ASSUME c.kind = "both", NEW centre \in BOOLEAN, VizComes(c, centre)
      PROVE  OneDrawing'
  <2> DEFINE k == Len(vizOf)
             v == vizOf[k].vertex
             nodes == Near[v] \cup (IF centre THEN {v} ELSE {})
             d == [vizOf[k] EXCEPT !.made = TRUE, !.nodes = nodes]
  <2>1. c.by = k /\ canvas = {} /\ vizOpen /\ k \in DOMAIN vizOf
    BY <1>3, <1>4 DEF OneCall, Press
  <2>2. /\ vizOf' = [vizOf EXCEPT ![k] = d] /\ canvas' = {k} /\ rgraph' = k
        /\ UNCHANGED <<vizOpen, right>>
    BY <1>4, <2>1 DEF VizComes
  <2>3. d.made /\ d.nodes = nodes /\ d.vertex = v
    <3>1. vizOf[k] \in Drawing
      BY <1>3, <2>1
    <3> HIDE DEF nodes, v, k
    <3>2. vizOf[k].vertex = v
      BY DEF v
    <3> QED
      BY <3>1, <3>2 DEF Drawing
  <2>4. nodes \subseteq {v} \cup UNION {Near[n] : n \in nodes \cup {v}}
    OBVIOUS
  <2> HIDE DEF d, nodes, v
  <2>5. Len(vizOf') = k /\ vizOf'[k] = d
    BY <1>3, <2>1, <2>2
  <2>6. Drawn(k)'
    BY <2>2, <2>3, <2>4, <2>5 DEF Drawn
  <2> QED
    BY <2>1, <2>2, <2>3, <2>5, <2>6 DEF OneDrawing
<1>5. ASSUME c.kind = "sum", SumComes(c)
      PROVE  OneDrawing'
  <2> DEFINE k == Len(vizOf)
             old == vizOf[k].nodes
             v == vizOf[k].vertex
             nodes == old \cup c.on \cup UNION {Near[n] : n \in c.on}
             d == [vizOf[k] EXCEPT !.nodes = nodes]
  <2>1. /\ canvas = {k} /\ rgraph = k /\ vizOpen /\ k \in DOMAIN vizOf /\ c.on \subseteq old
        /\ vizOf[k].made /\ Drawn(k)
    BY <1>3, <1>5 DEF OneCall, OneDrawing, Press
  <2>2. vizOf' = [vizOf EXCEPT ![k] = d] /\ UNCHANGED <<vizOpen, canvas, rgraph, right>>
    BY <1>5, <2>1 DEF SumComes
  <2>3. d.made /\ d.nodes = nodes /\ d.vertex = v
    <3>1. vizOf[k] \in Drawing
      BY <1>3, <2>1
    <3> HIDE DEF nodes, v, k
    <3>2. vizOf[k].vertex = v
      BY DEF v
    <3> QED
      BY <2>1, <3>1, <3>2 DEF Drawing
  <2>4. nodes \subseteq {v} \cup UNION {Near[n] : n \in nodes \cup {v}}
    <3>1. old \subseteq {v} \cup UNION {Near[n] : n \in old \cup {v}}
      BY <2>1 DEF Drawn
    <3> HIDE DEF old, v
    <3> QED
      BY <2>1, <3>1
  <2> HIDE DEF d, nodes, v
  <2>5. Len(vizOf') = k /\ vizOf'[k] = d
    BY <1>3, <2>1, <2>2
  <2>6. Drawn(k)'
    BY <2>2, <2>3, <2>4, <2>5 DEF Drawn
  <2> QED
    BY <2>1, <2>2, <2>3, <2>5, <2>6 DEF OneDrawing
<1>6. ASSUME c.kind = "edges", EdgesCome(c) PROVE OneDrawing'
  BY <1>6 DEF EdgesCome, OneCall, OneDrawing, Drawn
<1>7. ASSUME VizCallFails(c) PROVE OneDrawing'
  BY <1>7 DEF VizCallFails, OneDrawing, Drawn
<1> QED
  BY <1>2, <1>4, <1>5, <1>6, <1>7

LEMMA UserKeepsDrawing ==
  ASSUME User
  PROVE  \/ \E v \in Vertex : ClickVisualize(v)
         \/ InVisualization
         \/ UNCHANGED vizVars /\ seen \subseteq seen'
<1>1. ASSUME NEW what, Acts(what) PROVE seen \subseteq seen'
  BY <1>1 DEF Acts
<1>2. ASSUME NEW what, Clicks(what) PROVE UNCHANGED vizVars /\ seen \subseteq seen'
  BY <1>1, <1>2 DEF Clicks
<1>3. ASSUME NEW g \in Graph, SelectGraph(g) PROVE UNCHANGED vizVars /\ seen \subseteq seen'
  BY <1>2, <1>3 DEF SelectGraph
<1>4. ASSUME NEW e \in Feature, BrowseLink(e) PROVE UNCHANGED vizVars /\ seen \subseteq seen'
  BY <1>2, <1>4 DEF BrowseLink, Shows
<1>5. ASSUME NEW b \in {"first", "prev", "next", "cancel"}, Pager(b)
      PROVE  UNCHANGED vizVars /\ seen \subseteq seen'
  BY <1>2, <1>5 DEF Pager, Shows
<1>6. CASE Search
  BY <1>2, <1>6 DEF Search
<1>7. CASE LeaveFilter
  BY <1>1, <1>7 DEF LeaveFilter
<1>8. ASSUME NEW k \in Key, Filter(k) PROVE UNCHANGED vizVars /\ seen \subseteq seen'
  BY <1>1, <1>8 DEF Filter
<1>9. ASSUME NEW i \in Vertex, ViewElement(i) \/ \E e \in Feature : FollowLink(e, i)
      PROVE  UNCHANGED vizVars /\ seen \subseteq seen'
  BY <1>2, <1>9 DEF ViewElement, FollowLink
<1>10. CASE RunExtension
  BY <1>1, <1>10 DEF RunExtension
<1>11. CASE CloseForm
  BY <1>1, <1>11 DEF CloseForm
<1>12. ASSUME NEW to, NEW restores, GoTo(to, restores)
       PROVE  UNCHANGED vizVars /\ seen \subseteq seen'
  BY <1>1, <1>12 DEF GoTo
<1> QED
  BY <1>3, <1>4, <1>5, <1>6, <1>7, <1>8, <1>9, <1>10, <1>11, <1>12 DEF User

LEMMA RepliesKeepDrawing ==
  ASSUME Replies
  PROVE  VizReplies \/ (UNCHANGED vizVars /\ seen \subseteq seen')
<1>1. CASE ListComes
  BY <1>1 DEF ListComes
<1>2. CASE ListFails
  BY <1>2 DEF ListFails
<1>3. ASSUME NEW g \in Graph, ProfileComes(g) PROVE UNCHANGED vizVars /\ seen \subseteq seen'
  BY <1>3 DEF ProfileComes
<1>4. ASSUME NEW c, FormComes(c) PROVE UNCHANGED vizVars /\ seen \subseteq seen'
  BY <1>4 DEF FormComes
<1> QED
  BY <1>1, <1>2, <1>3, <1>4 DEF Replies

LEMMA DrawStep ==
  ASSUME TypesHold, DrawInv, [Next]_vars
  PROVE  DrawInv'
<1>1. VizTypeOK
  BY DEF TypesHold, TypeOK
<1>2. ASSUME NEW v \in Vertex, ClickVisualize(v), "hasty" \notin seen'
      PROVE  OneDrawing' /\ \E c : OneCall(c)'
  <2>1. Visualize(v) /\ ~vizOpen /\ \E what : Acts(what)
    BY <1>2 DEF ClickVisualize, NoDialog
  <2> QED
    BY <1>1, <1>2, <2>1, WhoWaits, PressDraws
<1>3. ASSUME InVisualization, "hasty" \notin seen'
      PROVE  OneDrawing' /\ (vizCalls' = EmptyBag \/ \E c : OneCall(c)')
  <2>1. VizUser /\ Acts({})
    BY <1>3 DEF InVisualization
  <2> QED
    BY <1>1, <1>3, <2>1, WhoWaits, UserDraws
<1>4. ASSUME VizReplies, "hasty" \notin seen' PROVE OneDrawing' /\ vizCalls' = EmptyBag
  <2>1. seen' = seen /\ VizReply
    BY <1>4 DEF VizReplies
  <2>2. PICK c \in BagToSet(vizCalls) :
          \/ c.kind = "both" /\ \E centre \in BOOLEAN : VizComes(c, centre)
          \/ c.kind = "sum" /\ SumComes(c)
          \/ c.kind = "edges" /\ EdgesCome(c)
          \/ VizCallFails(c)
    BY <2>1 DEF VizReply
  <2>3. OneDrawing /\ (vizCalls = EmptyBag \/ \E d : OneCall(d))
    BY <1>4, <2>1 DEF DrawInv
  <2>4. OneCall(c)
    <3>1. vizCalls # EmptyBag
      BY <2>2, SmallBags
    <3>2. PICK d : OneCall(d)
      BY <2>3, <3>1
    <3>3. vizCalls = SetToBag({d})
      BY <3>2 DEF OneCall
    <3>4. c = d
      BY <2>2, <3>3, SmallBags
    <3> QED
      BY <3>2, <3>4
  <2> QED
    BY <1>1, <2>2, <2>3, <2>4, ReplyDraws
<1>5. CASE UNCHANGED vizVars /\ seen \subseteq seen'
  BY <1>5, DrawingStays
<1>6. CASE UNCHANGED vars
  BY <1>5, <1>6 DEF vars
<1>7. CASE User
  BY <1>2, <1>3, <1>5, <1>7, UserKeepsDrawing DEF DrawInv
<1>8. CASE Replies
  BY <1>4, <1>5, <1>8, RepliesKeepDrawing DEF DrawInv
<1> QED
  BY <1>6, <1>7, <1>8 DEF Next

\* A dialog that is opened again holds nothing of the time before: one result,
\* of the extension it was opened for, and one drawing, of the vertex it was
\* opened for.
THEOREM DialogsHold == Spec => []DialogsHoldOne
<1>1. Init => FormInv /\ DrawInv
  <2> SUFFICES ASSUME Init PROVE FormInv /\ DrawInv
    OBVIOUS
  <2>1. FormInv
    BY DEF Init, FormInv
  <2>2. canvas = {} /\ right = {} /\ vizCalls = EmptyBag
    BY DEF Init, VizInit
  <2>3. DrawInv
    BY <2>2 DEF DrawInv, OneDrawing
  <2> QED
    BY <2>1, <2>3
<1>2. TypesHold /\ FormInv /\ DrawInv /\ [Next]_vars => FormInv' /\ DrawInv'
  BY FormStep, DrawStep
<1>3. FormInv => FormShowsOneResult
  BY DEF FormInv, FormShowsOneResult
<1>4. DrawInv => DrawingIsOfVertex
  <2> SUFFICES ASSUME DrawInv, "hasty" \notin seen
               PROVE  /\ canvas \subseteq {k \in {Len(vizOf)} : vizOpen /\ rgraph = k}
                      /\ ~vizOpen => right = {}
                      /\ Cardinality(right) <= 1
                      /\ \A k \in canvas : Drawn(k)
    BY DEF DrawingIsOfVertex, Drawn
  <2>1. OneDrawing
    BY DEF DrawInv
  <2>2. Cardinality(right) <= 1
    <3>1. CASE right = {}
      BY <3>1, FS_EmptySet
    <3>2. ASSUME NEW s, right = {s} PROVE Cardinality(right) <= 1
      <4>1. Cardinality({s}) = 1
        BY FS_Singleton
      <4> QED
        BY <3>2, <4>1
    <3> QED
      BY <2>1, <3>1, <3>2 DEF OneDrawing
  <2> QED
    BY <2>1, <2>2 DEF OneDrawing
<1> QED
  BY <1>1, <1>2, <1>3, <1>4, TypesInvariance, PTL DEF Spec, DialogsHoldOne

-----------------------------------------------------------------------------
(***************************************************************************)
(* The address.                                                            *)
(***************************************************************************)
Steady == lists = 0 /\ panel.name # None /\ seen \cap {"failed", "ignored"} = {}

\* A list on the page is the one that the mediator and the links speak of.
PageInv ==
  Steady => /\ uri.element = None => panel.view = None
            /\ panel.view = "browser" => ListShown(panel)

\* The address names the page, and the filter is chosen for a list.
Named ==
  /\ panel.name = uri.graph
  /\ uri.element # None /\ uri.id # None =>
       /\ panel.view = "element"
       /\ panel.viewed.graph = uri.graph /\ panel.viewed.element = uri.element
       /\ panel.viewed.id = uri.id
  /\ uri.element # None /\ uri.id = None =>
       /\ panel.view = "browser" /\ panel.feature = uri.element
       /\ panel.rows # NoRows => panel.rows.start = uri.start
  /\ filter.open => panel.view = "browser"

NameInv == Steady /\ seen \cap {"stray", "behind"} = {} => Named

\* As long as nothing was restored one list was asked for, and the filter that
\* is remembered is the one in the address.
Calm ==
  /\ lists = IF panel.name = None THEN 1 ELSE 0
  /\ panel.name = None => panel.index = None /\ ~filter.open
  /\ panel.view = "browser" => panel.index = uri.key
  /\ filter.open => uri.element # None

CalmInv == seen \cap {"failed", "ignored", "stray", "restored"} = {} => Calm

AddressInv == PageInv /\ NameInv /\ CalmInv

LEMMA AddressStays ==
  ASSUME AddressInv, MovedTo(uri), seen \subseteq seen', lists' = lists,
         SameBut(panel, panel'), panel'.rows = panel.rows,
         filter'.open => \/ filter.open
                         \/ panel.name # None /\ panel.view = "browser" /\ uri.element # None
  PROVE  AddressInv'
<1>1. uri' = uri
  BY DEF MovedTo
<1>2. /\ panel'.name = panel.name /\ panel'.feature = panel.feature /\ panel'.index = panel.index
      /\ panel'.view = panel.view /\ panel'.viewed = panel.viewed
  BY DEF SameBut
<1>3. ListShown(panel) => ListShown(panel')
  BY DEF ListShown, SameBut, Links, NextStart, PreviousStart
<1>4. Steady' => Steady
  BY <1>2 DEF Steady
<1>5. PageInv'
  BY <1>1, <1>2, <1>3, <1>4 DEF AddressInv, PageInv
<1>6. NameInv'
  BY <1>1, <1>2, <1>4 DEF AddressInv, NameInv, Named
<1>7. CalmInv'
  BY <1>1, <1>2 DEF AddressInv, CalmInv, Calm
<1> QED
  BY <1>5, <1>6, <1>7 DEF AddressInv

LEMMA Names ==
  /\ None # "browser" /\ None # "element"
  /\ \A g \in Graph : g # None
  /\ \A e \in Feature : e # None
  /\ \A i \in Vertex : i # None
BY GraphPanelAssumption

LEMMA AddressList ==
  ASSUME TypesHold, AddressInv, ListComes
  PROVE  AddressInv'
<1> DEFINE u == ListUri
<1>1. /\ u \in Uri /\ u.graph \in Graph /\ uri' = u
      /\ panel' \in PanelType /\ Selected(panel, panel', u, "failed" \notin seen')
      /\ seen \subseteq seen'
      /\ filter.open => "behind" \in seen'
  BY ListOutcome DEF MovedTo
<1>2. lists > 0 /\ lists' = lists - 1 /\ filter' = filter
  BY DEF ListComes
<1> HIDE DEF u
<1>3. u.element \in Feature \cup {None} /\ u.id \in Vertex \cup {None}
  BY <1>1 DEF Uri
<1>4. PageInv'
  BY <1>1, <1>3, Names DEF PageInv, Steady, Selected
<1>5. NameInv'
  BY <1>1, <1>2, Names DEF NameInv, Named, Steady, Selected
<1>6. CalmInv'
  BY <1>1, <1>2, <1>3, Names DEF AddressInv, CalmInv, Calm, Selected
<1> QED
  BY <1>4, <1>5, <1>6 DEF AddressInv

LEMMA AddressSelect ==
  ASSUME TypesHold, AddressInv, NEW g \in Graph, SelectGraph(g)
  PROVE  AddressInv'
<1>1. /\ uri' = GraphUri(g) /\ GraphUri(g).graph = g /\ GraphUri(g).element = None
      /\ Selected(panel, panel', GraphUri(g), TRUE)
      /\ seen \subseteq seen' /\ lists' = lists
      /\ panel.name # None /\ ~filter.open /\ filter' = filter
  BY SelectOutcome DEF MovedTo
<1>2. panel'.name = g /\ panel'.view = None
  BY <1>1 DEF Selected
<1> QED
  BY <1>1, <1>2, Names DEF AddressInv, PageInv, NameInv, Named, CalmInv, Calm

LEMMA AddressBrowse ==
  ASSUME TypesHold, AddressInv, NEW e \in Feature, BrowseLink(e)
  PROVE  AddressInv'
<1> DEFINE u == PageUri(panel.name, e, 0, None)
<1>1. /\ uri' = u /\ panel'.view = "browser"
      /\ Listed(panel, panel', e, None, 0, "failed" \notin seen')
      /\ seen \subseteq seen' /\ lists' = lists
      /\ panel.name # None /\ ~filter.open /\ filter' = filter
  BY BrowseOutcome DEF MovedTo
<1>2. /\ u.graph = panel.name /\ u.element = e /\ u.id = None /\ u.start = 0 /\ u.key = None
  BY DEF PageUri
<1> HIDE DEF u
<1>3. PageInv'
  BY <1>1, <1>2, Names DEF PageInv, Steady, Listed
<1>4. NameInv'
  BY <1>1, <1>2, Names DEF NameInv, Named, Steady, Listed
<1>5. CalmInv'
  BY <1>1, <1>2, Names DEF AddressInv, CalmInv, Calm, Listed
<1> QED
  BY <1>3, <1>4, <1>5 DEF AddressInv

\* The link of the button is the address of the page that it shows.
LEMMA PagerLink ==
  ASSUME TypesHold, PageInv, Steady, NEW b \in Button, Pager(b)
  PROVE  /\ panel.links[b] # Undefined /\ PagerUri(b) = panel.links[b]
         /\ PagerUri(b).graph = panel.name /\ PagerUri(b).element = panel.feature
         /\ PagerUri(b).id = None /\ PagerUri(b).start = PagerStart(b)
         /\ PagerUri(b).key = PagerKey(b)
<1>1. /\ panel.view = "browser" /\ panel \in PanelType
      /\ panel.name \in Graph /\ panel.feature \in Feature
  BY PagerOutcome, UriFacts
<1>2. panel.links = Links(panel)
  BY <1>1 DEF PageInv, ListShown
<1>3. /\ Links(panel) \in [Button -> Uri]
      /\ Links(panel)[b].graph = panel.name /\ Links(panel)[b].element = panel.feature
      /\ Links(panel)[b].id = None
      /\ Links(panel)["first"].start = 0 /\ Links(panel)["first"].key = panel.index
      /\ Links(panel)["prev"].start = PreviousStart(panel)
      /\ Links(panel)["prev"].key = panel.index
      /\ Links(panel)["next"].start = NextStart(panel)
      /\ Links(panel)["next"].key = panel.index
      /\ Links(panel)["cancel"].start = 0 /\ Links(panel)["cancel"].key = None
  BY <1>1, LinksOfPage
<1>4. panel.links[b] # Undefined /\ PagerUri(b) = Links(panel)[b]
  BY <1>2, <1>3, GraphPanelAssumption DEF PagerUri
<1>5. Links(panel)[b].start = PagerStart(b) /\ Links(panel)[b].key = PagerKey(b)
  BY <1>3 DEF PagerStart, PagerKey, Button
<1> QED
  BY <1>2, <1>3, <1>4, <1>5

LEMMA AddressPager ==
  ASSUME TypesHold, AddressInv, NEW b \in Button, Pager(b)
  PROVE  AddressInv'
<1> DEFINE u == PagerUri(b)
           s == PagerStart(b)
           k == PagerKey(b)
<1>1. /\ panel.view = "browser" /\ panel'.view = "browser" /\ uri' = u
      /\ Listed(panel, panel', panel.feature, k, s, "failed" \notin seen')
      /\ seen \subseteq seen' /\ lists' = lists /\ ~filter.open /\ filter' = filter
  BY PagerOutcome DEF MovedTo
<1>2. panel.name # None /\ panel.feature # None /\ panel'.name = panel.name
  BY <1>1, UriFacts, Names DEF Listed
<1>3. Steady => /\ u.graph = panel.name /\ u.element = panel.feature
                /\ u.id = None /\ u.start = s /\ u.key = k
  BY PagerLink DEF AddressInv
<1> HIDE DEF u, s, k
<1>4. Steady' => Steady
  BY <1>1, <1>2 DEF Steady
<1>5. PageInv'
  BY <1>1, <1>2, <1>3, <1>4 DEF PageInv, Steady, Listed
<1>6. NameInv'
  BY <1>1, <1>2, <1>3, <1>4 DEF NameInv, Named, Steady, Listed
<1>7. CalmInv'
  BY <1>1, <1>2, <1>3 DEF AddressInv, CalmInv, Calm, Steady, Listed
<1> QED
  BY <1>5, <1>6, <1>7 DEF AddressInv

LEMMA AddressFilter ==
  ASSUME TypesHold, AddressInv, NEW k \in Key, Filter(k)
  PROVE  AddressInv'
<1>1. /\ filter.open /\ panel'.view = panel.view /\ panel'.viewed = panel.viewed
      /\ panel.name \in Graph
      /\ seen \subseteq seen' /\ lists' = lists
      /\ \/ FilterSet(k)
         \/ /\ uri.element # None /\ ~filter'.open /\ MovedTo(FilterUri(k))
            /\ Listed(panel, panel', panel.feature, k, 0, "failed" \notin seen')
  BY FilterOutcome, UriFacts
<1>2. CASE FilterSet(k)
  <2>1. /\ uri' = uri /\ uri.element = None /\ filter' = filter
        /\ panel'.name = panel.name /\ panel'.feature = panel.feature
    BY <1>2 DEF FilterSet, uri
  <2>2. Steady' => Steady
    BY <1>1, <2>1 DEF Steady
  <2>3. PageInv'
    BY <1>1, <2>1, <2>2, Names DEF AddressInv, PageInv
  <2>4. NameInv'
    BY <1>1, <2>1, <2>2 DEF AddressInv, NameInv, Named
  <2>5. CalmInv'
    BY <1>1, <2>1 DEF AddressInv, CalmInv, Calm
  <2> QED
    BY <2>3, <2>4, <2>5 DEF AddressInv
<1>3. ASSUME uri.element # None, ~filter'.open, MovedTo(FilterUri(k)),
             Listed(panel, panel', panel.feature, k, 0, "failed" \notin seen')
      PROVE  AddressInv'
  <2> DEFINE u == FilterUri(k)
  <2>1. uri' = u
    BY <1>3 DEF MovedTo
  <2>2. /\ u.graph = uri.graph /\ u.element = uri.element /\ u.id = None
        /\ u.start = 0 /\ u.key = k
    BY DEF FilterUri, PageUri
  <2> HIDE DEF u
  <2>3. panel'.name = panel.name /\ panel'.feature = panel.feature /\ panel'.index = k
    BY <1>3 DEF Listed
  <2>4. Steady' => Steady
    BY <1>1, <2>3 DEF Steady
  <2>5. PageInv'
    BY <1>3, <2>1, <2>2 DEF PageInv, Steady, Listed
  <2>6. NameInv'
    <3> SUFFICES ASSUME Steady', seen' \cap {"stray", "behind"} = {} PROVE Named'
      BY DEF NameInv
    <3>1. Steady /\ Named
      BY <1>1, <2>4 DEF AddressInv, NameInv
    <3>2. panel.name = uri.graph /\ panel.view = "browser"
      BY <1>1, <3>1 DEF Named
    <3>3. panel.feature = uri.element
      BY <1>3, <3>1, <3>2 DEF Named
    <3>4. panel'.rows # NoRows => panel'.rows.start = 0
      BY <1>3 DEF Steady, Listed
    <3> QED
      BY <1>1, <1>3, <2>1, <2>2, <2>3, <3>2, <3>3, <3>4 DEF Named
  <2>7. CalmInv'
    BY <1>1, <1>3, <2>1, <2>2, <2>3 DEF AddressInv, CalmInv, Calm
  <2> QED
    BY <2>5, <2>6, <2>7 DEF AddressInv
<1> QED
  BY <1>1, <1>2, <1>3

LEMMA AddressElement ==
  ASSUME TypesHold, AddressInv, NEW i \in Vertex,
         ViewElement(i) \/ \E e \in Feature : FollowLink(e, i)
  PROVE  AddressInv'
<1>1. PICK g \in Graph, e \in Feature :
        /\ MovedTo(ElementUri(g, e, i)) /\ Viewed(panel, panel', e, i)
        /\ seen \subseteq seen' /\ lists' = lists
        /\ panel.name # None /\ ~filter.open /\ filter' = filter
        /\ \/ panel.view = "browser" /\ panel.rows # NoRows /\ g = panel.rows.graph
           \/ panel.view = "element" /\ g = panel.viewed.graph
  BY ElementOutcome
<1> DEFINE u == ElementUri(g, e, i)
<1>2. uri' = u /\ u.graph = g /\ u.element = e /\ u.id = i
  BY <1>1 DEF MovedTo, ElementUri
<1> HIDE DEF u
<1>3. /\ panel'.name = panel.name /\ panel'.view = "element"
      /\ panel'.viewed.graph = panel.name /\ panel'.viewed.element = e
      /\ panel'.viewed.id = i
  BY <1>1 DEF Viewed
<1>4. Steady' => Steady
  BY <1>1, <1>3 DEF Steady
<1>5. PageInv'
  BY <1>2, <1>3, Names DEF PageInv
<1>6. NameInv'
  <2> SUFFICES ASSUME Steady', seen' \cap {"stray", "behind"} = {} PROVE Named'
    BY DEF NameInv
  <2>1. /\ Steady /\ Named
        /\ uri.element = None => panel.view = None
        /\ panel.view = "browser" => ListShown(panel)
    BY <1>1, <1>4 DEF AddressInv, NameInv, PageInv
  <2>2. g = panel.name
    <3>1. CASE panel.view = "browser" /\ panel.rows # NoRows /\ g = panel.rows.graph
      BY <2>1, <3>1 DEF ListShown
    <3>2. CASE panel.view = "element" /\ g = panel.viewed.graph
      <4>1. uri.element # None /\ uri.id # None
        BY <2>1, <3>2, Names DEF Named
      <4> QED
        BY <2>1, <3>2, <4>1 DEF Named
    <3> QED
      BY <1>1, <3>1, <3>2
  <2> QED
    BY <1>1, <1>2, <1>3, <2>2, Names DEF Named
<1>7. CalmInv'
  BY <1>1, <1>3 DEF AddressInv, CalmInv, Calm
<1> QED
  BY <1>5, <1>6, <1>7 DEF AddressInv

LEMMA AddressUser ==
  ASSUME TypesHold, AddressInv, User
  PROVE  AddressInv'
<1>1. SameBut(panel, panel)
  BY DEF SameBut
<1>2. ASSUME NEW what, Acts(what) PROVE seen \subseteq seen'
  BY <1>2 DEF Acts
<1>3. ASSUME UNCHANGED panelVars, seen \subseteq seen' PROVE AddressInv'
  BY <1>1, <1>3, AddressStays, StaysThere DEF panelVars, Stays
<1>4. CASE Search
  <2>1. /\ MovedTo(uri) /\ UNCHANGED <<lists, panel>> /\ seen \subseteq seen'
        /\ filter'.open => uri.element # None
        /\ panel.view = "browser" /\ panel.name # None
    BY <1>4, SearchOutcome, UriFacts, Names
  <2> QED
    BY <1>1, <2>1, AddressStays
<1>5. CASE LeaveFilter
  <2>1. /\ UNCHANGED <<entries, pos, lists, panel>> /\ seen \subseteq seen'
        /\ filter' = [filter EXCEPT !.open = FALSE]
    BY <1>2, <1>5 DEF LeaveFilter
  <2>2. ~filter'.open
    BY <2>1 DEF TypesHold
  <2> QED
    BY <1>1, <2>1, <2>2, AddressStays, StaysThere DEF Stays
<1>6. ASSUME NEW v \in Vertex, ClickVisualize(v) PROVE AddressInv'
  <2>1. /\ UNCHANGED <<lists, panel, filter>> /\ seen \subseteq seen'
        /\ \/ MovedTo(uri)
           \/ /\ "stray" \in seen'
              /\ \E u \in Uri : u.element # None /\ u.id # None /\ MovedTo(u)
    BY <1>6, VisualizeOutcome
  <2>2. CASE MovedTo(uri)
    BY <1>1, <2>1, <2>2, AddressStays
  <2>3. ASSUME "stray" \in seen', NEW u \in Uri, u.element # None, MovedTo(u)
        PROVE  AddressInv'
    <3>1. uri' = u
      BY <2>3 DEF MovedTo
    <3>2. PageInv'
      <4>1. ListShown(panel)' = ListShown(panel)
        BY <2>1 DEF ListShown, Links, NextStart, PreviousStart
      <4> QED
        BY <2>1, <2>3, <3>1, <4>1 DEF AddressInv, PageInv, Steady
    <3> QED
      BY <2>3, <3>2 DEF AddressInv, NameInv, CalmInv
  <2> QED
    BY <2>1, <2>2, <2>3
<1>7. CASE InVisualization
  BY <1>2, <1>3, <1>7 DEF InVisualization
<1>8. CASE RunExtension
  BY <1>2, <1>3, <1>8 DEF RunExtension
<1>9. CASE CloseForm
  BY <1>2, <1>3, <1>9 DEF CloseForm
<1>10. ASSUME NEW to, NEW restores \in BOOLEAN, GoTo(to, restores) PROVE AddressInv'
  <2>1. /\ restores => "restored" \in seen' /\ lists' = lists + 1
        /\ ~restores => "ignored" \in seen'
    BY <1>10 DEF GoTo, Acts
  <2>2. lists + 1 # 0
    BY DEF TypesHold, TypeOK
  <2>3. ~Steady'
    BY <2>1, <2>2 DEF Steady
  <2> QED
    BY <2>1, <2>3 DEF AddressInv, PageInv, NameInv, CalmInv
<1> QED
  BY <1>4, <1>5, <1>6, <1>7, <1>8, <1>9, <1>10, AddressSelect, AddressBrowse, AddressPager,
     AddressFilter, AddressElement DEF User, Button

LEMMA AddressReplies ==
  ASSUME TypesHold, AddressInv, Replies
  PROVE  AddressInv'
<1>1. SameBut(panel, panel)
  BY DEF SameBut
<1>2. ASSUME UNCHANGED panelVars, seen \subseteq seen' PROVE AddressInv'
  BY <1>1, <1>2, AddressStays, StaysThere DEF panelVars, Stays
<1>3. CASE ListFails
  <2>1. "failed" \in seen'
    BY <1>3 DEF ListFails
  <2> QED
    BY <2>1 DEF AddressInv, PageInv, NameInv, CalmInv, Steady
<1>4. ASSUME NEW g \in Graph, ProfileComes(g) PROVE AddressInv'
  <2>1. UNCHANGED <<entries, pos, lists, filter>> /\ seen \subseteq seen'
    BY <1>4 DEF ProfileComes
  <2>2. SameBut(panel, panel') /\ panel'.rows = panel.rows
    BY <1>1, <1>4, ProfileShows, UriFacts DEF ProfileComes
  <2> QED
    BY <2>1, <2>2, AddressStays, StaysThere DEF Stays
<1>5. CASE VizReplies
  BY <1>2, <1>5 DEF VizReplies
<1>6. ASSUME NEW c, FormComes(c) PROVE AddressInv'
  BY <1>2, <1>6 DEF FormComes
<1> QED
  BY <1>3, <1>4, <1>5, <1>6, AddressList DEF Replies

LEMMA AddressStep ==
  ASSUME TypesHold, AddressInv, [Next]_vars
  PROVE  AddressInv'
<1>1. CASE UNCHANGED vars
  <2>1. SameBut(panel, panel') /\ UNCHANGED <<entries, pos, lists, filter, panel, seen>>
    BY <1>1 DEF SameBut, vars, panelVars
  <2> QED
    BY <2>1, AddressStays, StaysThere DEF Stays
<1> QED
  BY <1>1, AddressUser, AddressReplies DEF Next

LEMMA AddressInit == Init => AddressInv
<1> SUFFICES ASSUME Init PROVE AddressInv
  OBVIOUS
<1>1. /\ panel.name = None /\ panel.index = None /\ panel.view = None
      /\ lists = 1 /\ ~filter.open
  BY DEF Init, NewPanel
<1> QED
  BY <1>1, Names DEF AddressInv, PageInv, NameInv, Steady, CalmInv, Calm

LEMMA AddressMeans ==
  ASSUME AddressInv
  PROVE  AddressNamesPage /\ FilterIsInAddress
<1>1. AddressNamesPage
  <2> SUFFICES ASSUME Ready, seen \cap {"failed", "ignored", "stray", "behind"} = {}
               PROVE  /\ panel.name = uri.graph
                      /\ uri.element = None => panel.view = None
                      /\ uri.element # None /\ uri.id # None =>
                           /\ panel.view = "element"
                           /\ panel.viewed.graph = uri.graph
                           /\ panel.viewed.element = uri.element
                           /\ panel.viewed.id = uri.id
                      /\ uri.element # None /\ uri.id = None =>
                           /\ panel.view = "browser"
                           /\ panel.rows # NoRows =>
                                /\ panel.rows.graph = uri.graph
                                /\ panel.rows.feature = uri.element
                                /\ panel.rows.start = uri.start
    BY DEF AddressNamesPage
  <2>1. Steady /\ seen \cap {"stray", "behind"} = {}
    BY DEF Ready, Steady
  <2>2. /\ Named
        /\ uri.element = None => panel.view = None
        /\ panel.view = "browser" => ListShown(panel)
    BY <2>1 DEF AddressInv, NameInv, PageInv
  <2> QED
    BY <2>2 DEF Named, ListShown
<1>2. FilterIsInAddress
  <2> SUFFICES ASSUME Ready, seen \cap {"failed", "ignored", "stray", "restored"} = {}, Rows
               PROVE  panel.rows.key = uri.key
    BY DEF FilterIsInAddress
  <2>1. Steady /\ Calm
    BY DEF Ready, Steady, AddressInv, CalmInv
  <2> QED
    BY <2>1 DEF AddressInv, PageInv, Rows, ListShown, Calm
<1> QED
  BY <1>1, <1>2

\* When the lists have come, the page shows what its address names, and its
\* rows are those of the filter in the address.
THEOREM AddressNames == Spec => [](TypeOK /\ AddressNamesPage /\ FilterIsInAddress)
<1>1. TypesHold => TypeOK
  BY DEF TypesHold
<1> QED
  BY <1>1, AddressInit, AddressStep, AddressMeans, TypesInvariance, PTL DEF Spec

-----------------------------------------------------------------------------
(***************************************************************************)
(* The pager.                                                              *)
(***************************************************************************)
\* No address and no link is of a page beyond the list, and a page without
\* rows is the one after a last page that is full.
PagerInv ==
  /\ \A i \in DOMAIN entries : PageExists(entries[i])
  /\ LinksExist(panel)
  /\ Steady /\ panel.view = "browser" /\ panel.index = uri.key /\ panel.rows = NoRows
       => Count[<<panel.name, panel.feature, panel.index>>] % PageSize = 0

LEMMA EntriesExist ==
  ASSUME PagerInv, NEW u, MovedTo(u), PageExists(u)
  PROVE  \A i \in DOMAIN entries' : PageExists(entries'[i])
BY DEF PagerInv, MovedTo

LEMMA PagerKept ==
  ASSUME PagerInv, MovedTo(uri), PageExists(uri), lists' = lists, seen \subseteq seen',
         SameBut(panel, panel'), panel'.rows = panel.rows
  PROVE  PagerInv'
<1>1. \A i \in DOMAIN entries' : PageExists(entries'[i])
  BY EntriesExist
<1>2. uri' = uri
  BY DEF MovedTo
<1>3. LinksExist(panel')
  BY DEF PagerInv, SameBut, LinksExist
<1>4. /\ panel'.name = panel.name /\ panel'.feature = panel.feature /\ panel'.index = panel.index
      /\ panel'.view = panel.view
      /\ Steady' => Steady
  BY DEF SameBut, Steady
<1>5. Steady /\ panel.view = "browser" /\ panel.index = uri.key /\ panel.rows = NoRows
        => Count[<<panel.name, panel.feature, panel.index>>] % PageSize = 0
  BY DEF PagerInv
<1>6. ASSUME Steady', panel'.view = "browser", panel'.index = uri'.key, panel'.rows = NoRows
      PROVE  Count[<<panel'.name, panel'.feature, panel'.index>>] % PageSize = 0
  <2>1. Steady /\ panel.view = "browser" /\ panel.index = uri.key /\ panel.rows = NoRows
    BY <1>2, <1>4, <1>6
  <2> QED
    BY <1>4, <1>5, <2>1
<1> QED
  BY <1>1, <1>3, <1>6 DEF PagerInv

\* A list without a row at a page that exists ends on a full page.
LEMMA EmptyPage ==
  ASSUME NEW g \in Graph, NEW e \in Feature, NEW k \in Key \cup {None}, NEW s \in Nat,
         RowsAt(g, e, k, s) = 0, s % PageSize = 0, s <= Count[<<g, e, k>>]
  PROVE  Count[<<g, e, k>>] % PageSize = 0
<1>1. Count[<<g, e, k>>] \in Nat
  BY GraphPanelAssumption
<1> QED
  BY <1>1, RowsOnPage

\* A list that was just shown.
LEMMA PagerListed ==
  ASSUME PagerInv, NEW u \in Uri, MovedTo(u), panel' \in PanelType, LinksExist(panel'),
         u.graph \in Graph, u.element # None => u.id = None, PageExists(u),
         Steady' /\ u.element # None /\ panel'.index = u.key =>
           /\ panel'.name = u.graph /\ panel'.feature = u.element
           /\ panel'.rows = NoRows => RowsAt(u.graph, u.element, u.key, u.start) = 0,
         Steady' /\ u.element = None => panel'.view = None
  PROVE  PagerInv'
<1>1. \A i \in DOMAIN entries' : PageExists(entries'[i])
  BY EntriesExist
<1>2. uri' = u
  BY DEF MovedTo
<1>3. /\ u.element \in Feature \cup {None} /\ u.start \in Nat /\ u.key \in Key \cup {None}
  BY DEF Uri
<1>4. ASSUME Steady', panel'.view = "browser", panel'.index = u.key, panel'.rows = NoRows
      PROVE  Count[<<panel'.name, panel'.feature, panel'.index>>] % PageSize = 0
  <2>1. u.element # None /\ u.element \in Feature
    BY <1>3, <1>4, Names
  <2>2. /\ panel'.name = u.graph /\ panel'.feature = u.element
        /\ RowsAt(u.graph, u.element, u.key, u.start) = 0
    BY <1>4, <2>1
  <2>3. u.start % PageSize = 0 /\ u.start <= Count[<<u.graph, u.element, u.key>>]
    BY <2>1, Names DEF PageExists
  <2>4. Count[<<u.graph, u.element, u.key>>] % PageSize = 0
    BY <1>3, <2>1, <2>2, <2>3, EmptyPage
  <2> QED
    BY <1>4, <2>2, <2>4
<1> QED
  BY <1>1, <1>2, <1>4 DEF PagerInv

LEMMA PagerUser ==
  ASSUME TypesHold, AddressInv, PagerInv, User
  PROVE  PagerInv'
<1>1. /\ panel \in PanelType /\ entries \in Seq(Uri) /\ pos \in DOMAIN entries /\ uri \in Uri
  BY UriFacts
<1>2. PageExists(uri) /\ LinksExist(panel)
  BY <1>1 DEF PagerInv, uri
<1>3. SameBut(panel, panel)
  BY DEF SameBut
<1>4. ASSUME NEW what, Acts(what) PROVE seen \subseteq seen'
  BY <1>4 DEF Acts
<1>5. ASSUME UNCHANGED panelVars, seen \subseteq seen' PROVE PagerInv'
  BY <1>2, <1>3, <1>5, PagerKept, StaysThere DEF panelVars, Stays
<1>6. 0 % PageSize = 0 /\ \A c \in Graph \X Feature \X (Key \cup {None}) : 0 <= Count[c]
  BY GraphPanelAssumption DEF PageSize
<1>7. ASSUME NEW g \in Graph, SelectGraph(g) PROVE PagerInv'
  <2> DEFINE u == GraphUri(g)
  <2>1. /\ MovedTo(u) /\ u.graph = g /\ u.element = None
        /\ panel' \in PanelType /\ Selected(panel, panel', u, TRUE)
    BY <1>7, SelectOutcome
  <2>2. u \in Uri
    BY DEF GraphUri, Uri
  <2> HIDE DEF u
  <2>3. PageExists(u)
    BY <2>1 DEF PageExists
  <2>4. LinksExist(panel') /\ panel'.view = None
    BY <1>2, <2>1, <2>3 DEF Selected
  <2> QED
    BY <2>1, <2>2, <2>3, <2>4, PagerListed
<1>8. ASSUME NEW e \in Feature, BrowseLink(e) PROVE PagerInv'
  <2> DEFINE u == PageUri(panel.name, e, 0, None)
  <2>1. /\ MovedTo(u) /\ panel' \in PanelType /\ panel.name \in Graph
        /\ Listed(panel, panel', e, None, 0, "failed" \notin seen')
    BY <1>8, BrowseOutcome, UriFacts
  <2>2. /\ u \in Uri
        /\ u.graph = panel.name /\ u.element = e /\ u.id = None /\ u.start = 0 /\ u.key = None
    BY <2>1 DEF PageUri, Uri
  <2> HIDE DEF u
  <2>3. PageExists(u)
    <3>1. 0 <= Count[<<panel.name, e, None>>]
      BY <1>6, <2>1
    <3> QED
      BY <1>6, <2>2, <3>1 DEF PageExists
  <2>4. LinksExist(panel')
    BY <1>2, <1>6, <2>1 DEF Listed
  <2>5. Steady' => /\ panel'.name = u.graph /\ panel'.feature = u.element
                   /\ panel'.rows = NoRows => RowsAt(u.graph, u.element, u.key, u.start) = 0
    BY <2>1, <2>2 DEF Listed, Steady
  <2>6. u.element # None
    BY <2>2, Names
  <2> QED
    BY <2>1, <2>2, <2>3, <2>4, <2>5, <2>6, PagerListed
<1>9. ASSUME NEW b \in Button, Pager(b) PROVE PagerInv'
  <2> DEFINE u == PagerUri(b)
             s == PagerStart(b)
             k == PagerKey(b)
  <2>1. /\ u \in Uri /\ MovedTo(u) /\ panel' \in PanelType /\ s \in Nat
        /\ panel.view = "browser" /\ panel'.view = "browser"
        /\ panel.start % PageSize = 0 => s % PageSize = 0
        /\ Listed(panel, panel', panel.feature, k, s, "failed" \notin seen')
        /\ seen \subseteq seen' /\ lists' = lists
    BY <1>9, PagerOutcome
  <2>2. /\ panel.name \in Graph /\ panel.feature \in Feature /\ panel'.name = panel.name
        /\ panel'.feature = panel.feature /\ panel'.index = k
    BY <2>1, UriFacts DEF Listed
  <2>3. Steady' => Steady /\ "failed" \notin seen'
    BY <2>1, <2>2 DEF Steady
  <2>4. Steady => /\ u.graph = panel.name /\ u.element = panel.feature
                  /\ u.id = None /\ u.start = s /\ u.key = k
    BY <1>9, PagerLink DEF AddressInv
  <2>5. PageExists(u)
    BY <1>2 DEF LinksExist, PagerUri
  <2>6. k \in Key \cup {None}
    BY UriFacts DEF PagerKey
  <2> HIDE DEF u, s, k
  <2>7. LinksExist(panel')
    BY <1>2, <2>1 DEF Listed, LinksExist
  <2>8. \A i \in DOMAIN entries' : PageExists(entries'[i])
    BY <2>1, <2>5, EntriesExist
  <2>9. ASSUME Steady', panel'.rows = NoRows
        PROVE  Count[<<panel'.name, panel'.feature, panel'.index>>] % PageSize = 0
    <3>1. /\ u.graph = panel.name /\ u.element = panel.feature
          /\ u.id = None /\ u.start = s /\ u.key = k
      BY <2>3, <2>4, <2>9
    <3>2. s % PageSize = 0 /\ s <= Count[<<panel.name, panel.feature, k>>]
      BY <2>2, <2>5, <3>1, Names DEF PageExists
    <3>3. RowsAt(panel.name, panel.feature, k, s) = 0
      BY <2>1, <2>3, <2>9 DEF Listed
    <3>4. Count[<<panel.name, panel.feature, k>>] % PageSize = 0
      BY <2>1, <2>2, <2>6, <3>2, <3>3, EmptyPage
    <3> QED
      BY <2>2, <3>4
  <2> QED
    BY <2>7, <2>8, <2>9 DEF PagerInv
<1>10. CASE Search
  <2>1. MovedTo(uri) /\ UNCHANGED <<lists, panel>> /\ seen \subseteq seen'
    BY <1>10, SearchOutcome
  <2> QED
    BY <1>2, <1>3, <2>1, PagerKept
<1>11. CASE LeaveFilter
  BY <1>2, <1>3, <1>4, <1>11, PagerKept, StaysThere DEF LeaveFilter, Stays
<1>12. ASSUME NEW k \in Key, Filter(k) PROVE PagerInv'
  <2>1. /\ filter.open /\ panel' \in PanelType /\ panel'.view = panel.view
        /\ panel.name \in Graph /\ panel.feature \in Feature
        /\ seen \subseteq seen' /\ lists' = lists
        /\ \/ FilterSet(k)
           \/ /\ uri.element # None /\ MovedTo(FilterUri(k))
              /\ FilterUri(k) \in Uri
              /\ Listed(panel, panel', panel.feature, k, 0, "failed" \notin seen')
    BY <1>12, FilterOutcome, UriFacts
  <2>2. CASE FilterSet(k)
    <3>1. /\ UNCHANGED <<entries, pos>> /\ uri.element = None
          /\ panel'.name = panel.name
          /\ panel'.links = panel.links /\ panel'.start = panel.start
      BY <2>2 DEF FilterSet
    <3>2. LinksExist(panel')
      BY <1>2, <3>1 DEF LinksExist
    <3>3. Steady' => panel'.view # "browser"
      <4>1. Steady' => Steady
        BY <2>1, <3>1 DEF Steady
      <4> QED
        BY <2>1, <3>1, <4>1, Names DEF AddressInv, PageInv
    <3>4. \A i \in DOMAIN entries' : PageExists(entries'[i])
      BY <3>1 DEF PagerInv
    <3> QED
      BY <3>2, <3>3, <3>4 DEF PagerInv
  <2>3. ASSUME uri.element # None, MovedTo(FilterUri(k)), FilterUri(k) \in Uri,
               Listed(panel, panel', panel.feature, k, 0, "failed" \notin seen')
        PROVE  PagerInv'
    <3> DEFINE u == FilterUri(k)
    <3>1. /\ u.graph = uri.graph /\ u.element = uri.element /\ u.id = None
          /\ u.start = 0 /\ u.key = k /\ uri.graph \in Graph \cup {None}
          /\ uri.element \in Feature
      BY <1>1, <2>3 DEF FilterUri, PageUri, Uri
    <3> HIDE DEF u
    <3>2. PageExists(u)
      <4>1. uri.graph \in Graph => 0 <= Count[<<uri.graph, uri.element, k>>]
        BY <1>6, <3>1
      <4> QED
        BY <1>6, <3>1, <4>1 DEF PageExists
    <3>3. \A i \in DOMAIN entries' : PageExists(entries'[i])
      BY <2>3, <3>2, EntriesExist DEF u
    <3>4. LinksExist(panel')
      BY <1>2, <1>6, <2>3 DEF Listed
    <3>5. panel'.name = panel.name /\ panel'.feature = panel.feature /\ panel'.index = k
      BY <2>3 DEF Listed
    <3>6. ASSUME Steady', panel'.rows = NoRows
          PROVE  Count[<<panel'.name, panel'.feature, panel'.index>>] % PageSize = 0
      <4>1. RowsAt(panel.name, panel.feature, k, 0) = 0
        BY <2>3, <3>6 DEF Listed, Steady
      <4>2. 0 <= Count[<<panel.name, panel.feature, k>>]
        BY <1>6, <2>1
      <4>3. Count[<<panel.name, panel.feature, k>>] % PageSize = 0
        BY <1>6, <2>1, <4>1, <4>2, EmptyPage
      <4> QED
        BY <3>5, <4>3
    <3> QED
      BY <3>3, <3>4, <3>6 DEF PagerInv
  <2> QED
    BY <2>1, <2>2, <2>3
<1>13. ASSUME NEW i \in Vertex, ViewElement(i) \/ \E e \in Feature : FollowLink(e, i)
       PROVE  PagerInv'
  <2>1. PICK g \in Graph, e \in Feature :
          MovedTo(ElementUri(g, e, i)) /\ Viewed(panel, panel', e, i)
    BY <1>13, ElementOutcome
  <2>2. PageExists(ElementUri(g, e, i))
    BY Names DEF PageExists, ElementUri
  <2>3. \A j \in DOMAIN entries' : PageExists(entries'[j])
    BY <2>1, <2>2, EntriesExist
  <2>4. LinksExist(panel') /\ panel'.view = "element"
    BY <1>2, <2>1 DEF Viewed, LinksExist
  <2> QED
    BY <2>3, <2>4 DEF PagerInv
<1>14. ASSUME NEW v \in Vertex, ClickVisualize(v) PROVE PagerInv'
  <2>1. /\ UNCHANGED <<lists, panel>> /\ seen \subseteq seen'
        /\ \/ MovedTo(uri)
           \/ /\ panel.rows # NoRows
              /\ \E u \in Uri : u.element # None /\ u.id # None /\ MovedTo(u)
    BY <1>14, VisualizeOutcome
  <2>2. CASE MovedTo(uri)
    BY <1>2, <1>3, <2>1, <2>2, PagerKept
  <2>3. ASSUME panel.rows # NoRows, NEW u \in Uri, u.id # None, MovedTo(u)
        PROVE  PagerInv'
    <3>1. \A i \in DOMAIN entries' : PageExists(entries'[i])
      BY <2>3, EntriesExist DEF PageExists
    <3> QED
      BY <1>2, <2>1, <2>3, <3>1 DEF PagerInv
  <2> QED
    BY <2>1, <2>2, <2>3
<1>15. CASE InVisualization
  BY <1>4, <1>5, <1>15 DEF InVisualization
<1>16. CASE RunExtension
  BY <1>4, <1>5, <1>16 DEF RunExtension
<1>17. CASE CloseForm
  BY <1>4, <1>5, <1>17 DEF CloseForm
<1>18. ASSUME NEW to, NEW restores \in BOOLEAN, GoTo(to, restores) PROVE PagerInv'
  <2>1. /\ restores => lists' = lists + 1
        /\ ~restores => "ignored" \in seen'
        /\ UNCHANGED <<entries, panel>>
    BY <1>18 DEF GoTo, Acts
  <2>2. lists + 1 # 0
    BY DEF TypesHold, TypeOK
  <2>3. ~Steady'
    BY <2>1, <2>2 DEF Steady
  <2> QED
    BY <2>1, <2>3 DEF PagerInv
<1> QED
  BY <1>7, <1>8, <1>9, <1>10, <1>11, <1>12, <1>13, <1>14, <1>15, <1>16, <1>17, <1>18
     DEF User, Button

LEMMA PagerReplies ==
  ASSUME TypesHold, PagerInv, Replies
  PROVE  PagerInv'
<1>1. /\ panel \in PanelType /\ entries \in Seq(Uri) /\ pos \in DOMAIN entries /\ uri \in Uri
  BY UriFacts
<1>2. PageExists(uri) /\ LinksExist(panel)
  BY <1>1 DEF PagerInv, uri
<1>3. SameBut(panel, panel)
  BY DEF SameBut
<1>4. ASSUME UNCHANGED panelVars, seen \subseteq seen' PROVE PagerInv'
  BY <1>2, <1>3, <1>4, PagerKept, StaysThere DEF panelVars, Stays
<1>5. CASE ListComes
  <2> DEFINE u == ListUri
  <2>1. /\ u \in Uri /\ u.graph \in Graph /\ MovedTo(u) /\ panel' \in PanelType
        /\ Selected(panel, panel', u, "failed" \notin seen')
        /\ u = uri \/ u = GraphUri(First)
    BY <1>5, ListOutcome
  <2>2. PageExists(u)
    <3>1. PageExists(GraphUri(First))
      BY DEF PageExists, GraphUri
    <3> QED
      BY <1>2, <2>1, <3>1
  <2> HIDE DEF u
  <2>3. LinksExist(panel')
    BY <1>2, <2>1, <2>2 DEF Selected
  <2>4. CASE u.element # None /\ u.id # None
    <3>1. panel'.view = "element"
      BY <2>1, <2>4 DEF Selected
    <3>2. \A i \in DOMAIN entries' : PageExists(entries'[i])
      BY <2>1, <2>2, EntriesExist
    <3> QED
      BY <2>3, <3>1, <3>2 DEF PagerInv
  <2>5. CASE u.element # None => u.id = None
    <3>1. Steady' /\ u.element # None /\ panel'.index = u.key =>
            /\ panel'.name = u.graph /\ panel'.feature = u.element
            /\ panel'.rows = NoRows => RowsAt(u.graph, u.element, u.key, u.start) = 0
      BY <2>1, <2>5 DEF Selected, Steady
    <3>2. u.element = None => panel'.view = None
      BY <2>1 DEF Selected
    <3> QED
      BY <2>1, <2>2, <2>3, <2>5, <3>1, <3>2, PagerListed
  <2> QED
    BY <2>4, <2>5
<1>6. CASE ListFails
  <2>1. "failed" \in seen' /\ UNCHANGED <<entries, panel>>
    BY <1>6 DEF ListFails
  <2> QED
    BY <2>1 DEF PagerInv, Steady
<1>7. ASSUME NEW g \in Graph, ProfileComes(g) PROVE PagerInv'
  <2>1. UNCHANGED <<entries, pos, lists>> /\ seen \subseteq seen'
    BY <1>7 DEF ProfileComes
  <2>2. SameBut(panel, panel') /\ panel'.rows = panel.rows
    BY <1>1, <1>3, <1>7, ProfileShows DEF ProfileComes
  <2> QED
    BY <1>2, <2>1, <2>2, PagerKept, StaysThere DEF Stays
<1>8. CASE VizReplies
  BY <1>4, <1>8 DEF VizReplies
<1>9. ASSUME NEW c, FormComes(c) PROVE PagerInv'
  BY <1>4, <1>9 DEF FormComes
<1> QED
  BY <1>5, <1>6, <1>7, <1>8, <1>9 DEF Replies

\* The address tells all that is on the page, if the page was opened at an
\* address of a page that exists.
THEOREM AddressTells ==
  ASSUME \A u \in Opened : PageExists(u)
  PROVE  Spec => []AddressTellsAll
<1>1. Init => PagerInv
  <2> SUFFICES ASSUME Init PROVE PagerInv
    OBVIOUS
  <2>1. PICK u \in Opened : entries = <<u>>
    BY DEF Init
  <2>2. \A i \in DOMAIN entries : PageExists(entries[i])
    BY <2>1
  <2>3. LinksExist(panel) /\ panel.name = None
    BY DEF Init, NewPanel, LinksExist, Button, PageSize
  <2> QED
    BY <2>2, <2>3 DEF PagerInv, Steady
<1>2. TypesHold /\ AddressInv /\ PagerInv /\ [Next]_vars => PagerInv'
  <2> SUFFICES ASSUME TypesHold, AddressInv, PagerInv, [Next]_vars PROVE PagerInv'
    OBVIOUS
  <2>1. CASE UNCHANGED vars
    <3>1. UNCHANGED <<entries, pos, lists, panel, seen>>
      BY <2>1 DEF vars, panelVars
    <3>2. PageExists(uri) /\ SameBut(panel, panel')
      BY <3>1, UriFacts DEF PagerInv, uri, SameBut
    <3> QED
      BY <3>1, <3>2, PagerKept, StaysThere DEF Stays
  <2> QED
    BY <2>1, PagerUser, PagerReplies DEF Next, AddressInv
<1>3. PagerInv => PagerStays
  BY DEF PagerInv, PagerStays, Ready, Steady
<1>4. TypesHold => TypeOK
  BY DEF TypesHold
<1> QED
  BY <1>1, <1>2, <1>3, <1>4, AddressInit, AddressStep, AddressMeans, TypesInvariance, PTL
     DEF Spec, AddressTellsAll
=============================================================================
