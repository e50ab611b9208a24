-------------------------- MODULE MCJQueryDocument --------------------------
(***************************************************************************)
(* Pages of up to four elements: every tree with two classes for looking   *)
(* up, and small trees for the handlers and for the elements that are      *)
(* moved, cloned and removed.                                              *)
(***************************************************************************)
EXTENDS JQueryDocument

CONSTANTS n0, n1, n2, n3, n4, n5

Elements == <<n1, n2, n3, n4, n5>>
Attr(tag, class, id) == [tag |-> tag, class |-> class, id |-> id]
FreshAttr == Attr("p", {"x"}, "none")

\* The tree where the parent of an element is given by its number, 0 the
\* document and -1 none yet.
Tree(parents, attrs) ==
  [kids |-> [n \in Node |->
     SelectSeq(SubSeq(Elements, 1, Len(parents)), LAMBDA m :
       parents[PlaceOf(Elements, m)] =
         IF n = Root THEN 0 ELSE PlaceOf(Elements, n))],
   attr |-> [n \in Node |->
     IF n # Root /\ PlaceOf(Elements, n) <= Len(attrs)
     THEN attrs[PlaceOf(Elements, n)] ELSE FreshAttr]]

AllTrees ==
  {Tree(p, [i \in 1 .. 4 |-> Attr("p", {c[i]}, IF i = 2 THEN "i" ELSE "none")]) :
     p \in {q \in [1 .. 4 -> 0 .. 3] : \A i \in 1 .. 4 : q[i] < i /\ (i > 1 => q[i] > 0)},
     c \in [1 .. 4 -> {"x", "y"}]}

Part(comb, class) == [Plain EXCEPT !.comb = comb, !.class = class]
Combs == {" ", ">", "+", "~"}
X == <<Part("none", "x")>>
Y == <<Part("none", "y")>>
Id == <<[Plain EXCEPT !.comb = "none", !.id = "i"]>>

Nth(parts, pos) == [parts EXCEPT ![1].pos = pos]

LookupSet ==
  {<<s>> : s \in
    {Id, Id \o <<Part(" ", "x")>>, Id \o <<Part("+", "x")>>,
     <<[Part("none", Whatever) EXCEPT !.child = "last"], Part(">", "y")>>,
     <<[Part("none", Whatever) EXCEPT !.not = "x"], Part("~", "y")>>,
     Nth(X, "last"), Nth(Y, "even"), Nth(X, "gt0"), Nth(X, "first") \o <<Part(" ", "y")>>}
    \cup {<<Part("none", a), Part(c, "y")>> : a \in {"x", "y"}, c \in Combs}
    \cup {<<Part("none", "x"), Part(c, "y"), Part(e, "x")>> : c, e \in Combs}
    \cup {<<Part(c, "x")>> : c \in Combs \ {" "}}}
  \cup {<<Y, X>>, <<Y, Id>>, <<X \o <<Part(">", "y")>>, Id, Nth(Y, "first")>>}

\* A link in an element of a page, and an element beside.
Small == Tree(<<0, 1, 2>>, <<Attr("body", {"y"}, "none"), Attr("p", {"x"}, "none"),
                             Attr("a", {"x"}, "none")>>)
Pair == Tree(<<0, 1, 1>>, <<Attr("body", {"y"}, "none"), Attr("p", {"x"}, "none"),
                            Attr("p", {"z"}, "none")>>)
Sides == Tree(<<0, 1, 1>>, <<Attr("body", {}, "none"), Attr("p", {"x"}, "none"),
                             Attr("p", {"y"}, "none")>>)

PageSet ==
  {[docs |-> AllTrees, ops |-> {"find", "walk"}, calls |-> 1],
   [docs |-> {Small}, ops |-> {"on", "off", "trigger"}, calls |-> 3],
   [docs |-> {Small}, ops |-> {"on", "one", "native"}, calls |-> 3],
   [docs |-> {Pair}, ops |-> {"on", "clone", "remove", "append", "data"}, calls |-> 3],
   [docs |-> {Pair}, ops |-> {"text", "replace", "detach", "append", "remove"}, calls |-> 4],
   [docs |-> {Pair}, ops |-> {"class", "on", "one", "native"}, calls |-> 3],
   [docs |-> {Pair}, ops |-> {"class", "clone", "data", "remove"}, calls |-> 3],
   [docs |-> {Sides, Pair}, ops |-> {"on", "wrap", "unwrap", "data"}, calls |-> 3],
   [docs |-> {Pair}, ops |-> {"on", "remove", "detach", "replace", "trigger"}, calls |-> 3]}

TargetSet == {X, Y}
SelectorSet == {X}
=============================================================================
