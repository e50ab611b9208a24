-------------------------- MODULE JQueryTraversing --------------------------
(***************************************************************************)
(* From a set of elements to another one in jQuery 1.7.1 (in               *)
(* require-jquery.js): find, has, not, filter, is, closest, add and the    *)
(* walks to parents, siblings and children.  A set is a sequence of        *)
(* elements, none of them twice.                                           *)
(*                                                                         *)
(* Left out: functions and elements in the place of selectors, and what    *)
(* is inside of a frame.                                                   *)
(***************************************************************************)
EXTENDS Sizzle

NoSelector == <<>>

\* jQuery.filter, by one selector.
\* matchesSelector for one element, and matches.
OneOrAll(s, r) == IF Len(s) # 1 THEN r ELSE IF r = <<>> THEN <<>> ELSE s

FilterSet(d, parts, s) == OneOrAll(s, Select(d, parts, Root, s))

\* winnow: filter and not.
Chosen(s, q, keep) == SelectSeq(s, LAMBDA e : (e \in q) = keep)

Winnow(d, s, parts, keep) ==
  Chosen(s, ToSet(FilterSet(d, parts, SelectSeq(s, IsElement))), keep)

\* is; a place in the selector is counted in the document.
AnyOf(s, pos, r) == IF pos THEN s # <<>> /\ s[1] \in ToSet(r) ELSE r # <<>>

Is(d, s, parts) ==
  AnyOf(s, HasPos(parts), Select(d, parts, Root, IF HasPos(parts) THEN None ELSE s))

HasBelow(d, s, targets) ==
  SelectSeq(s, LAMBDA e : \E i \in 1 .. Len(targets) : InTree(d, e, targets[i]))

FindNew(found, more) == SelectSeq(more, LAMBDA e : e \notin ToSet(found))

RECURSIVE FindBelow(_, _, _, _)
\* find, from each element; found is what the elements before have found.
FindBelow(d, s, parts, found) ==
  IF s = <<>> THEN found
  ELSE FindBelow(d, Tail(s), parts,
                 found \o FindNew(found, Select(d, parts, Head(s), None)))

RECURSIVE Up(_, _, _)
Up(d, parts, e) ==
  IF e = None \/ ~IsElement(e) THEN <<>>
  ELSE IF MatchesSelector(d, parts, e) THEN <<e>> ELSE Up(d, parts, ParentOf(d, e))

Uniquely(d, s) == IF Len(s) > 1 THEN UniqueSort(d, s) ELSE s

Closest(d, s, parts) ==
  Uniquely(d, FlattenSeq([i \in 1 .. Len(s) |-> Up(d, parts, s[i])]))

Disconnected(d, s) == s = <<>> \/ ParentOf(d, s[1]) = None

AddSet(d, s, t) ==
  IF Disconnected(d, t) \/ Disconnected(d, s \o t) THEN s \o t ELSE UniqueSort(d, s \o t)

-----------------------------------------------------------------------------
Following(s, e) == IF s = <<>> \/ Last(s) = e THEN None ELSE s[PlaceOf(s, e) + 1]

NextSibling(d, e) == Following(Row(d, e), e)

Neighbour(d, way, e) ==
  CASE way = "parent" -> ParentOf(d, e)
    [] way = "next" -> NextSibling(d, e)
    [] way = "prev" -> PreviousOf(d, e)

RECURSIVE Dir(_, _, _, _)
\* jQuery.dir, from the neighbour of an element to the document or, with a
\* selector, up to the first that it is for.
Dir(d, e, way, until) ==
  IF e = None \/ ~IsElement(e) THEN <<>>
  ELSE IF until # NoSelector /\ Is(d, <<e>>, until) THEN <<>>
  ELSE <<e>> \o Dir(d, Neighbour(d, way, e), way, until)

One(e) == IF e = None THEN <<>> ELSE <<e>>
WayOf(name) ==
  CASE name \in {"parents", "parentsUntil"} -> "parent"
    [] name \in {"nextAll", "nextUntil"}    -> "next"
    [] name \in {"prevAll", "prevUntil"}    -> "prev"
    [] OTHER                                -> name

Until == {"parentsUntil", "nextUntil", "prevUntil"}
\* parents, prevUntil and prevAll at the beginning of the name
Backward == {"parents", "parentsUntil", "prevUntil", "prevAll"}

WalkFrom(d, name, e, until) ==
  CASE name \in {"parent", "next", "prev"} -> One(Neighbour(d, name, e))
    [] name = "siblings" -> SelectSeq(d.kids[ParentOf(d, e)], LAMBDA x : x # e)
    [] name = "children" -> d.kids[e]
    [] OTHER -> Dir(d, Neighbour(d, WayOf(name), e), WayOf(name),
                    IF name \in Until THEN until ELSE NoSelector)

GuaranteedUnique == {"children", "next", "prev"}

\* The functions by these names.
Sifted(d, name, sel, all) ==
  IF sel # NoSelector /\ name \notin Until THEN FilterSet(d, sel, all) ELSE all

Sorted(d, name, s) == IF name \in GuaranteedUnique THEN s ELSE UniqueSort(d, s)

Turned(name, s) == IF name \in Backward THEN Reverse(s) ELSE s

Arranged(d, name, several, s) == IF several THEN Turned(name, Sorted(d, name, s)) ELSE s

Walks(d, s, name, sel) ==
  Arranged(d, name, Len(s) > 1,
           Sifted(d, name, sel,
                  FlattenSeq([i \in DOMAIN s |-> WalkFrom(d, name, s[i], sel)])))

-----------------------------------------------------------------------------
(***************************************************************************)
(* What the names mean: x is there because of e.                           *)
(***************************************************************************)
Before(d, x, y) == Related(d, "~", x, y)
Blocks(d, y, until) == Means(d, until, Len(until), Root, y)

Reaches(d, name, e, x, until) ==
  CASE name = "parent"       -> x = ParentOf(d, e)
    [] name = "next"         -> Related(d, "+", e, x)
    [] name = "prev"         -> Related(d, "+", x, e)
    [] name = "parents"      -> InTree(d, x, e) /\ x # Root
    [] name = "nextAll"      -> Before(d, e, x)
    [] name = "prevAll"      -> Before(d, x, e)
    [] name = "parentsUntil" -> /\ InTree(d, x, e) /\ x # Root
                                /\ \A y \in Node : InTree(d, y, e) /\ (y = x \/ InTree(d, x, y))
                                                     => ~Blocks(d, y, until)
    [] name = "nextUntil"    -> /\ Before(d, e, x)
                                /\ \A y \in Node : Before(d, e, y) /\ ~Before(d, x, y)
                                                     => ~Blocks(d, y, until)
    [] name = "prevUntil"    -> /\ Before(d, x, e)
                                /\ \A y \in Node : Before(d, y, e) /\ ~Before(d, y, x)
                                                     => ~Blocks(d, y, until)
    [] name = "siblings"     -> x # e /\ ParentOf(d, x) = ParentOf(d, e)
    [] name = "children"     -> x # Root /\ ParentOf(d, x) = e
    [] name = "closest"      -> /\ x = e \/ InTree(d, x, e)
                                /\ Blocks(d, x, until)
                                /\ \A y \in Node : (y = e \/ InTree(d, y, e)) /\ InTree(d, x, y)
                                                     => ~Blocks(d, y, until)
    [] name = "find"         -> InTree(d, e, x) /\ Means(d, until, Len(until), e, x)
=============================================================================
