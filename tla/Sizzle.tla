------------------------------- MODULE Sizzle -------------------------------
(***************************************************************************)
(* The selector engine of jQuery 1.7.1 (in require-jquery.js): a selector  *)
(* is taken from right to left, the elements that its last part finds are  *)
(* the check set, and each part before it moves the entries of that set to *)
(* a parent, a sibling or an ancestor, or makes them FALSE.                *)
(*                                                                         *)
(* A document d has, for each node, its children in order (d.kids) and its *)
(* name, classes and id (d.attr); the root is the document itself.  A      *)
(* selector is a sequence of parts, as the regular expressions of the      *)
(* engine cut it.                                                          *)
(*                                                                         *)
(* Left out: text and comment nodes, XML, the filters on form fields and   *)
(* on attributes other than class and id, and the browser's own            *)
(* querySelectorAll, which is asked first where there is one.              *)
(***************************************************************************)
EXTENDS Integers, Sequences, FiniteSets, SequencesExt

CONSTANTS Node, Root, None

\* A part of a selector: a compound of simple selectors (child and pos are of
\* :nth-child and :eq) and the combinator before it, None at the beginning.
Whatever == "*"
Plain == [comb |-> " ", tag |-> Whatever, id |-> Whatever, class |-> Whatever, not |-> Whatever,
          child |-> "any", pos |-> "any"]
First(c) == [c EXCEPT !.comb = "none"]

-----------------------------------------------------------------------------
(***************************************************************************)
(* The tree.                                                               *)
(***************************************************************************)
OnlyOf(s) == IF s = {} THEN None ELSE CHOOSE x \in s : TRUE

ParentOf(d, n) == OnlyOf({p \in Node : n \in ToSet(d.kids[p])})

PlaceOf(s, x) == CHOOSE i \in DOMAIN s : s[i] = x

\* The children of the parent of n.
KidsOf(d, p) == IF p = None THEN <<>> ELSE d.kids[p]
Row(d, n) == KidsOf(d, ParentOf(d, n))

Preceding(s, n) == IF s = <<>> \/ s[1] = n THEN None ELSE s[PlaceOf(s, n) - 1]

PreviousOf(d, n) == Preceding(Row(d, n), n)

RECURSIVE Below(_, _), BelowAll(_, _)
\* getElementsByTagName( "*" )
Below(d, n) == BelowAll(d, d.kids[n])
BelowAll(d, s) ==
  IF s = <<>> THEN <<>> ELSE <<Head(s)>> \o Below(d, Head(s)) \o BelowAll(d, Tail(s))

InTree(d, n, e) == e \in ToSet(Below(d, n))

Next1(d, dir, e) == IF dir = "parent" THEN ParentOf(d, e) ELSE PreviousOf(d, e)

-----------------------------------------------------------------------------
(***************************************************************************)
(* Sizzle.filter, for one compound: TAG, ID, CLASS, :not and CHILD, then   *)
(* POS by the place in what is left.                                       *)
(***************************************************************************)
IsElement(e) == e # Root

\* e is in the row s.
ChildFilter(c, s, e) ==
  CASE c = "any"   -> TRUE
    [] c = "first" -> s = <<>> \/ s[1] = e
    [] c = "last"  -> s = <<>> \/ s[Len(s)] = e
    [] c = "odd"   -> PlaceOf(s, e) % 2 = 1

Passes(d, c, e) ==
  LET a == d.attr[e] IN
    /\ IsElement(e)
    /\ c.tag \in {Whatever, a.tag} /\ c.id \in {Whatever, a.id}
    /\ c.class = Whatever \/ c.class \in a.class
    /\ c.not \notin a.class
    /\ ChildFilter(c.child, Row(d, e), e)

\* setFilters, for the element at the place i, from 0, of n.
PosFilter(pos, i, n) ==
  CASE pos = "any"   -> TRUE
    [] pos = "first" -> i = 0
    [] pos = "last"  -> i = n - 1
    [] pos = "even"  -> i % 2 = 0
    [] pos = "gt0"   -> i > 0

RECURSIVE Picked(_, _, _)
Picked(s, pos, i) ==
  IF i > Len(s) THEN <<>>
  ELSE (IF PosFilter(pos, i - 1, Len(s)) THEN <<s[i]>> ELSE <<>>) \o Picked(s, pos, i + 1)

Filter(d, c, set) ==
  Picked(SelectSeq(set, LAMBDA e : Passes(d, c, e)), c.pos, 1)

\* In place: what does not pass becomes FALSE.
FilterInPlace(d, c, check) ==
  [i \in DOMAIN check |->
     IF check[i] # FALSE /\ Passes(d, c, check[i]) THEN check[i] ELSE FALSE]

(***************************************************************************)
(* Sizzle.find: by the id, else by the name, else all; the document alone  *)
(* has getElementById, which gives the first of that id.                   *)
(***************************************************************************)
FirstOf(s) == SubSeq(s, 1, IF s = <<>> THEN 0 ELSE 1)

FindSet(d, c, ctx) ==
  IF c.id # Whatever /\ ctx = Root
  THEN FirstOf(SelectSeq(Below(d, Root), LAMBDA e : d.attr[e].id = c.id))
  ELSE SelectSeq(Below(d, ctx), LAMBDA e : c.tag \in {Whatever, d.attr[e].tag})

-----------------------------------------------------------------------------
(***************************************************************************)
(* Expr.relative: an entry of the check set is a node, TRUE or FALSE; the  *)
(* part is a compound, or the node that the search began at.               *)
(***************************************************************************)
Moved(part, check, step) ==
  [i \in DOMAIN check |->
     IF check[i] = FALSE THEN FALSE
     ELSE LET e == step[check[i]] IN
       IF part \in Node THEN e = part ELSE IF e = None THEN FALSE ELSE e]

Moving(d, part, moved) == IF part \in Node THEN moved ELSE FilterInPlace(d, part, moved)

Adjacent(d, part, check) ==
  Moving(d, part, Moved(part, check, [e \in Node |-> PreviousOf(d, e)]))

Child(d, part, check) ==
  Moving(d, part, Moved(part, check, [e \in Node |-> ParentOf(d, e)]))

\* Mutant: a mark holds whatever entry of the check set has left it.
MarkedResult_Self(check, marks, e) == e

\* What the entry that has marked e came to.
MarkedResult(check, marks, e) == check[marks[e]]

RECURSIVE Walk(_, _, _, _, _, _, _), WalkAll(_, _, _, _, _, _)
\* The walk of the entry i from e; marks holds the entry that passed a node.
Walk(d, dir, part, check, marks, i, e) ==
  IF e = None THEN [to |-> FALSE, marks |-> marks]
  ELSE IF e \in DOMAIN marks
       THEN [to |-> MarkedResult(check, marks, e), marks |-> marks]
  ELSE LET on == IF IsElement(e)
                 THEN [x \in DOMAIN marks \cup {e} |-> IF x = e THEN i ELSE marks[x]]
                 ELSE marks
       IN  IF part \in Node /\ IsElement(e) /\ e = part
           THEN [to |-> TRUE, marks |-> on]
           ELSE IF part \notin Node /\ Passes(d, part, e)
                THEN [to |-> e, marks |-> on]
           ELSE Walk(d, dir, part, check, on, i, Next1(d, dir, e))

WalkAll(d, dir, part, check, marks, i) ==
  IF i > Len(check) THEN check
  ELSE IF check[i] = FALSE THEN WalkAll(d, dir, part, check, marks, i + 1)
  ELSE LET w == Walk(d, dir, part, [check EXCEPT ![i] = FALSE], marks, i,
                     Next1(d, dir, check[i]))
       IN  WalkAll(d, dir, part, [check EXCEPT ![i] = w.to], w.marks, i + 1)

\* dirCheck and dirNodeCheck; done makes the marks of earlier calls void.
DirCheck(d, dir, part, check) == WalkAll(d, dir, part, check, [x \in {} |-> 0], 1)

Relative(d, comb, part, check) ==
  CASE comb = ">" -> Child(d, part, check)
    [] comb = "+" -> Adjacent(d, part, check)
    [] OTHER      -> DirCheck(d, IF comb = "~" THEN "previous" ELSE "parent", part, check)

-----------------------------------------------------------------------------
(***************************************************************************)
(* Sizzle.                                                                 *)
(***************************************************************************)
RECURSIVE Checked(_, _, _, _, _)
\* The parts from right to left; before the first the node of the search.
Checked(d, parts, k, ctx, check) ==
  IF k = 0 \/ parts[k].comb = "none" THEN check
  ELSE Checked(d, parts, k - 1, ctx,
               Relative(d, parts[k].comb, IF k = 1 THEN ctx ELSE parts[k - 1], check))

\* What has come to an element, below the context unless that is the document.
Keeps(d, ctx, e) ==
  /\ e # FALSE
  /\ IF ctx = Root THEN e # TRUE /\ IsElement(e) ELSE e = TRUE \/ InTree(d, ctx, e)

RECURSIVE Kept(_, _, _, _)
Kept(d, ctx, set, check) ==
  IF set = <<>> THEN <<>>
  ELSE (IF Keeps(d, ctx, Head(check)) THEN <<Head(set)>> ELSE <<>>)
       \o Kept(d, ctx, Tail(set), Tail(check))

Single(parts) == Len(parts) = 1 /\ parts[1].comb = "none"

\* The node that the last part is looked for from.
StartOf(d, parts, ctx) ==
  IF Len(parts) = 1 /\ parts[1].comb \in {"~", "+"} /\ ParentOf(d, ctx) # None
  THEN ParentOf(d, ctx) ELSE ctx

Leftward(d, parts, ctx, set) ==
  IF Single(parts) THEN set
  ELSE Kept(d, ctx, set, Checked(d, parts, Len(parts), ctx, set))

\* seed is the set to choose from, None when it is to be found.
FromRight(d, parts, ctx, seed) ==
  Leftward(d, parts, ctx,
           Filter(d, Last(parts),
                  IF seed = None THEN FindSet(d, Last(parts), StartOf(d, parts, ctx)) ELSE seed))

HasPos(parts) == \E i \in 1 .. Len(parts) : parts[i].pos # "any"

\* The first part is an id that the document finds at once.
Shortcut(parts, ctx, seed) ==
  /\ seed = None /\ Len(parts) > 1 /\ ctx = Root
  /\ parts[1].comb = "none" /\ parts[1].id # Whatever /\ Last(parts).id = Whatever

\* posProcess: the places are taken after all that is found from every root.
PosProcess(d, c, roots) ==
  LET bare == [c EXCEPT !.pos = "any", !.comb = IF @ = " " THEN "none" ELSE @]
  IN  Picked(FlattenSeq([i \in 1 .. Len(roots) |->
                           FromRight(d, <<bare>>, roots[i], None)]), c.pos, 1)

RECURSIVE FromLeft(_, _, _)
FromLeft(d, parts, set) ==
  IF parts = <<>> THEN set
  ELSE FromLeft(d, Tail(parts), PosProcess(d, Head(parts), set))

\* The other parts below the element of the id.
WithinFirst(d, rest, s) ==
  IF s = <<>> THEN <<>>
  ELSE FromRight(d, [rest EXCEPT ![1].comb = IF @ = " " THEN "none" ELSE @], s[1], None)

AllKept(d, ctx, set) == Kept(d, ctx, set, set)

\* first is what the first part alone finds.
SelectBy(d, parts, ctx, seed, first) ==
  CASE ~Single(parts) /\ HasPos(parts) ->
         AllKept(d, ctx,
                 LET all == parts[1].comb # "none"
                 IN  FromLeft(d, IF all THEN parts ELSE Tail(parts),
                                 IF all THEN <<ctx>> ELSE first))
    [] Shortcut(parts, ctx, seed) /\ ~HasPos(parts) ->
         WithinFirst(d, Tail(parts), first)
    [] OTHER -> FromRight(d, parts, ctx, seed)

Select(d, parts, ctx, seed) ==
  SelectBy(d, parts, ctx, seed, FromRight(d, <<parts[1]>>, ctx, None))

\* uniqueSort: the order of the document, none twice.
UniqueSort(d, s) ==
  SelectSeq(<<Root>> \o Below(d, Root), LAMBDA e : e \in ToSet(s))

\* The groups of a selector, between its commas.
Together(d, sets) == IF Len(sets) = 1 THEN sets[1] ELSE UniqueSort(d, FlattenSeq(sets))

SelectGroups(d, groups, ctx) ==
  Together(d, [i \in DOMAIN groups |-> Select(d, groups[i], ctx, None)])

\* matchesSelector
MatchesSelector(d, parts, e) == Select(d, parts, Root, <<e>>) # <<>>

-----------------------------------------------------------------------------
(***************************************************************************)
(* What a selector means: there are elements for all its parts, each       *)
(* related to the next as its combinator says.                             *)
(***************************************************************************)
Related(d, comb, a, b) ==
  CASE comb = " " -> InTree(d, a, b)
    [] comb = ">" -> ParentOf(d, b) = a
    [] comb = "+" -> PreviousOf(d, b) = a
    [] comb = "~" -> a \in ToSet(Row(d, b)) /\ PlaceOf(Row(d, b), a) < PlaceOf(Row(d, b), b)

RECURSIVE Means(_, _, _, _, _)
\* e may stand for the part k.
Means(d, parts, k, ctx, e) ==
  /\ Passes(d, parts[k], e)
  /\ IF k > 1 THEN \E a \in Node : /\ Related(d, parts[k].comb, a, e)
                                   /\ Means(d, parts, k - 1, ctx, a)
     ELSE IF parts[1].comb = "none" THEN InTree(d, ctx, e)
     ELSE Related(d, parts[1].comb, ctx, e)

Meaning(d, parts, ctx) ==
  SelectSeq(Below(d, Root), LAMBDA e : Means(d, parts, Len(parts), ctx, e))
=============================================================================
