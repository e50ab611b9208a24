--------------------------- MODULE JQueryDocument ---------------------------
(***************************************************************************)
(* What the pages of the Dog House do to their document with jQuery 1.7.1  *)
(* (in require-jquery.js): elements are looked up, moved, cloned and       *)
(* removed, handlers are bound to them, and events run the handlers, which *)
(* may do all of this again.                                               *)
(*                                                                         *)
(* jQuery keeps what it knows of an element in a record of jQuery.cache,   *)
(* under a number that it writes on the element, and has one listener of   *)
(* the browser for an element and a type of event.  The thread is a stack  *)
(* of frames as in JQueryAjax.                                             *)
(*                                                                         *)
(* Left out: window, text nodes, the special cases of Internet Explorer,   *)
(* inline handlers, and default actions other than the click.              *)
(***************************************************************************)
EXTENDS JQueryTraversing

CONSTANTS
  Pages,      \* the documents that a page may start from, its operations and
              \* how many there may be (bound)
  Lookups,    \* the selectors that elements are looked up by
  Targets,    \* the selectors of the elements that the operations are for
  Selectors,  \* the selectors that handlers are delegated by
  Class,      \* the classes that are put on and taken off
  EventType,  \* of "click", "mouseenter", "focus"
  Fresh       \* the name, the classes and the id of an element made from text

Namespace == {"", "a"}

VARIABLES
  doc,        \* the document, see Sizzle
  free,       \* the nodes that are not made yet
  uuid,       \* the number on each element, 0 for none
  cache,      \* jQuery.cache
  listeners,  \* the listeners of the browser
  attaches,   \* those who want focusin
  counter,    \* jQuery.uuid, and the numbers of handles and bindings
  fragment,   \* jQuery.fragments, for one text: none, seen or an element
  removed,    \* the elements that were removed for good
  hidden,     \* the classes that toggleClass has taken off, and nobody since
  ops,        \* the operations of this page
  found,      \* what was looked up last, from where, and the elements
  stack,
  triggered,  \* jQuery.event.triggered
  left        \* the operations that the page and its handlers have left

page == <<doc, free, uuid, cache, listeners, attaches, counter, fragment, removed,
          hidden>>
vars == <<page, ops, found, stack, triggered, left>>

\* The page as one value, for the operators that change it.
Page == [doc |-> doc, free |-> free, uuid |-> uuid, cache |-> cache,
         listeners |-> listeners, attaches |-> attaches, counter |-> counter,
         fragment |-> fragment, removed |-> removed, hidden |-> hidden]

Becomes(w) ==
  /\ doc' = w.doc /\ free' = w.free /\ uuid' = w.uuid /\ cache' = w.cache
  /\ listeners' = w.listeners /\ attaches' = w.attaches /\ counter' = w.counter
  /\ fragment' = w.fragment /\ removed' = w.removed /\ hidden' = w.hidden

WalkName == {"parent", "next", "prev", "parents", "nextAll", "prevAll", "siblings", "children",
             "closest", "find", "filter", "not", "has", "add"} \cup Until

NothingFound == [by |-> "none", sel |-> <<>>, from |-> <<Root>>, elems |-> <<>>]

Init ==
  /\ \E p \in Pages : doc \in p.docs /\ ops = p.ops /\ left = p.calls
  /\ free = {n \in Node : n # Root /\ ParentOf(doc, n) = None}
  /\ uuid = [n \in Node |-> 0] /\ cache = [i \in {} |-> None]
  /\ listeners = {} /\ attaches = 0 /\ counter = 0 /\ fragment = "none"
  /\ removed = {} /\ hidden = [n \in Node |-> {}] /\ found = NothingFound
  /\ stack = <<>> /\ triggered = "none"

-----------------------------------------------------------------------------
(***************************************************************************)
(* jQuery.data and jQuery.removeData: the record of an element.            *)
(***************************************************************************)
NoTypes == [t \in {} |-> None]
NewRecord == [events |-> NoTypes, handle |-> 0, data |-> FALSE, classes |-> {}]

Has(w, n) == w.uuid[n] # 0
Record(w, n) == w.cache[w.uuid[n]]
Without(f, x) == [y \in DOMAIN f \ {x} |-> f[y]]
With(f, x, v) == (x :> v) @@ f

DataOf(w, n) ==
  IF Has(w, n) THEN w
  ELSE LET i == w.counter + 1 IN
    [w EXCEPT !.counter = i, !.uuid[n] = i, !.cache = With(@, i, NewRecord)]

Stored(w, n, r) == [w EXCEPT !.cache[w.uuid[n]] = r]

RecordRemoved(w, n) == [w EXCEPT !.cache = Without(@, w.uuid[n]), !.uuid[n] = 0]

\* Of what handlers need; the record goes with the last that is in it.
EventsRemoved(w, n) ==
  IF ~Has(w, n) THEN w
  ELSE LET r == [Record(w, n) EXCEPT !.events = NoTypes, !.handle = 0] IN
    IF r = NewRecord THEN RecordRemoved(w, n) ELSE Stored(w, n, r)

PublicDataSet(w, n) ==
  LET v == DataOf(w, n) IN Stored(v, n, [Record(v, n) EXCEPT !.data = TRUE])

PublicDataRemoved(w, n) ==
  IF ~Has(w, n) THEN w
  ELSE LET r == [Record(w, n) EXCEPT !.data = FALSE] IN
    IF r = NewRecord THEN RecordRemoved(w, n) ELSE Stored(w, n, r)

-----------------------------------------------------------------------------
(***************************************************************************)
(* The classes of an element: addClass, removeClass and toggleClass, for   *)
(* words that are there once and separated by blanks.                      *)
(***************************************************************************)
ClassOf(w, n) == w.doc.attr[n].class
HasClass(w, n, c) == c \in ClassOf(w, n)

ClassesSet(w, n, s) == [w EXCEPT !.doc.attr[n].class = s, !.hidden[n] = {}]

AddClass(w, n, words) == ClassesSet(w, n, ClassOf(w, n) \cup words)
RemoveClass(w, n, words) == ClassesSet(w, n, ClassOf(w, n) \ words)

\* Each word by itself, or to a state.
ToggleClass(w, n, words, state) ==
  LET off == IF state = "none" THEN {c \in words : HasClass(w, n, c)}
             ELSE IF state = "on" THEN {} ELSE words
  IN  AddClass(RemoveClass(w, n, off), n, words \ off)

\* All at once: they are kept in the record, and come from there again.
ToggleClasses(w, n, state) ==
  LET had == ClassOf(w, n)
      u == DataOf(w, n)
      v == IF had = {} THEN w ELSE Stored(u, n, [Record(u, n) EXCEPT !.classes = had])
      now == IF had # {} \/ state = "off" \/ ~Has(v, n) THEN {} ELSE Record(v, n).classes
  IN  [v EXCEPT !.doc.attr[n].class = now,
                !.hidden[n] = IF had # {} THEN had ELSE IF now = {} THEN @ ELSE {}]

-----------------------------------------------------------------------------
(***************************************************************************)
(* jQuery.event.add and remove.  A type may be served by another one.      *)
(***************************************************************************)
BindType(t) == IF t = "mouseenter" THEN "mouseover" ELSE t
DelegateType(t) == CASE t = "mouseenter" -> "mouseover" [] t = "focus" -> "focusin"
                     [] OTHER -> t
Special(t) == t \in {"mouseenter", "focus", "focusin"}

Events(w, n) == IF Has(w, n) THEN Record(w, n).events ELSE NoTypes
NoHandlers == [list |-> <<>>, delegates |-> 0]
HandlersOf(w, n, t) == IF t \in DOMAIN Events(w, n) THEN Events(w, n)[t] ELSE NoHandlers

\* special.focusin has one capturing handler for all; else a listener is set.
SetUp(w, n, t) ==
  IF t = "focusin" THEN [w EXCEPT !.attaches = @ + 1]
  ELSE [w EXCEPT !.listeners = @ \cup {[node |-> n, type |-> t,
                                        handle |-> Record(w, n).handle]}]

TornDown(w, n, t) ==
  IF t = "focusin" THEN [w EXCEPT !.attaches = @ - 1]
  ELSE [w EXCEPT !.listeners = @ \ {[node |-> n, type |-> t,
                                     handle |-> Record(w, n).handle]}]

\* Where slice and splice begin: a negative place is counted from the end.
Place(list, i) ==
  IF i < 0 THEN IF Len(list) + i < 0 THEN 0 ELSE Len(list) + i
  ELSE IF i > Len(list) THEN Len(list) ELSE i

\* Handlers with a selector go to the front, when they are bound as such.
Inserted(hs, h, delegated) ==
  IF delegated THEN [list |-> InsertAt(hs.list, Place(hs.list, hs.delegates) + 1, h),
                     delegates |-> hs.delegates + 1]
  ELSE [hs EXCEPT !.list = Append(@, h)]

\* Of the type t, which is in the terms of the record.
Added(w, n, t, h, delegated) ==
  LET v == DataOf(w, n)
      r == Record(v, n)
      k == IF r.handle = 0 THEN v.counter + 1 ELSE r.handle
      u == [Stored(v, n, [r EXCEPT !.handle = k]) EXCEPT
              !.counter = IF r.handle = 0 THEN k ELSE @]
      s == IF t \in DOMAIN r.events THEN u ELSE SetUp(u, n, t)
  IN  Stored(s, n, [Record(s, n) EXCEPT
                      !.events = With(@, t, Inserted(HandlersOf(w, n, t), h, delegated))])

\* jQuery.event.add
Bound(w, n, h) ==
  LET t == IF h.sel # <<>> THEN DelegateType(h.orig) ELSE BindType(h.orig)
  IN  Added(w, n, t, [h EXCEPT !.type = t], h.sel # <<>>)

\* Which handlers: of a type, a function, a namespace and a selector.
Every == [orig |-> Whatever, id |-> 0, ns |-> "", sel |-> <<>>]

Matching(which, h) ==
  /\ which.orig \in {Whatever, h.orig} /\ which.id \in {0, h.id}
  /\ which.ns \in {"", h.ns} /\ which.sel \in {<<>>, h.sel}

\* remove, for a type in the terms of the record.
Unbound(w, n, t, which) ==
  LET hs == HandlersOf(w, n, t)
      others == SelectSeq(hs.list, LAMBDA h : ~Matching(which, h))
      gone == Cardinality({i \in 1 .. Len(hs.list) :
                             Matching(which, hs.list[i]) /\ hs.list[i].sel # <<>>})
      torn == IF others = <<>> /\ hs.list # <<>> THEN TornDown(w, n, t) ELSE w
      r == Record(w, n)
      events == IF others = <<>> THEN Without(r.events, t)
                ELSE With(r.events, t, [list |-> others, delegates |-> hs.delegates - gone])
  IN  IF t \notin DOMAIN Events(w, n) THEN w
      ELSE IF events = NoTypes THEN EventsRemoved(torn, n)
      ELSE Stored(torn, n, [r EXCEPT !.events = events])

RECURSIVE UnboundAll(_, _, _, _)
UnboundAll(w, n, types, which) ==
  IF types = {} THEN w
  ELSE LET t == CHOOSE x \in types : TRUE
       IN  UnboundAll(Unbound(w, n, t, which), n, types \ {t}, which)

\* jQuery.event.remove; without a type all types of the record.
Removed(w, n, which) ==
  IF which.orig = Whatever THEN UnboundAll(w, n, DOMAIN Events(w, n), which)
  ELSE Unbound(w, n, IF which.sel # <<>> THEN DelegateType(which.orig)
                     ELSE BindType(which.orig), which)

-----------------------------------------------------------------------------
(***************************************************************************)
(* jQuery.cleanData: a special type is removed in its own way, which finds *)
(* the handlers that were bound by that name.                              *)
(***************************************************************************)
RECURSIVE Silenced(_, _, _), Cleaned(_, _)
Silenced(w, n, types) ==
  IF types = {} THEN w
  ELSE LET t == CHOOSE x \in types : TRUE
       IN  Silenced(IF Special(t) THEN Unbound(w, n, t, [Every EXCEPT !.orig = t])
                    ELSE TornDown(w, n, t), n, types \ {t})

\* Mutant: the elements below are left to the browser.
CleanedOf_Top(d, n) == <<n>>

\* remove cleans what is below an element and the element.
CleanedOf(d, n) == Append(Below(d, n), n)

Cleaned(w, s) ==
  IF s = <<>> THEN w
  ELSE IF ~Has(w, Head(s)) THEN Cleaned(w, Tail(s))
  ELSE LET n == Head(s) IN
    LET v == Silenced(w, n, DOMAIN Events(w, n))
    IN  Cleaned(IF Has(v, n) THEN RecordRemoved(v, n) ELSE v, Tail(s))

-----------------------------------------------------------------------------
(***************************************************************************)
(* The tree: domManip and what is built on it.                             *)
(***************************************************************************)
Detached(w, n) ==
  LET p == ParentOf(w.doc, n) IN
    IF p = None THEN w ELSE [w EXCEPT !.doc.kids[p] = SelectSeq(@, LAMBDA x : x # n)]

\* As the last child of p, or before the child b.
Placed(w, p, b, n) ==
  LET v == Detached(w, n) IN
    [v EXCEPT !.doc.kids[p] =
       IF b = None THEN Append(@, n) ELSE InsertAt(@, PlaceOf(@, b), n)]

NextOf(d, n) ==
  LET s == d.kids[ParentOf(d, n)]  i == PlaceOf(s, n)
  IN  IF i = Len(s) THEN None ELSE s[i + 1]

Lost(w, nodes) ==
  [w EXCEPT !.removed = @ \cup nodes,
            !.hidden = [x \in Node |-> IF x \in nodes THEN {} ELSE @[x]]]

\* remove
Gone(w, n) ==
  Lost(Detached(Cleaned(w, CleanedOf(w.doc, n)), n), ToSet(Below(w.doc, n)) \cup {n})

\* empty
Emptied(w, n) ==
  Lost([Cleaned(w, Below(w.doc, n)) EXCEPT !.doc.kids[n] = <<>>], ToSet(Below(w.doc, n)))

RECURSIVE AddedAll(_, _, _, _)
\* The handlers of a clone are bound anew, by the type of the record and
\* without a selector to bind by.
AddedAll(w, n, t, list) ==
  IF list = <<>> THEN w ELSE AddedAll(Added(w, n, t, Head(list), FALSE), n, t, Tail(list))

RECURSIVE EventsCopied(_, _, _, _)
EventsCopied(w, n, events, types) ==
  IF types = {} THEN w
  ELSE LET t == CHOOSE x \in types : TRUE
       IN  EventsCopied(AddedAll(w, n, t, events[t].list), n, events, types \ {t})

\* cloneCopyEvent
CopiedTo(w, src, dest) ==
  IF ~Has(w, src) THEN w
  ELSE LET v == DataOf(w, dest)
           r == Record(w, src)
       IN  EventsCopied(Stored(v, dest, [r EXCEPT !.events = NoTypes, !.handle = 0]),
                        dest, r.events, DOMAIN r.events)

RECURSIVE CopiedAll(_, _, _)
CopiedAll(w, srcs, dests) ==
  IF srcs = <<>> THEN w
  ELSE CopiedAll(CopiedTo(w, Head(srcs), Head(dests)), Tail(srcs), Tail(dests))

\* jQuery.clone of a tree; the new nodes are the first ones that are free.
Room(w, n) == Cardinality(w.free) > Len(Below(w.doc, n))

Cloned(w, n, events) ==
  LET srcs == <<n>> \o Below(w.doc, n)
      news == SubSeq(SetToSeq(w.free), 1, Len(srcs))
      New(x) == news[PlaceOf(srcs, x)]
      Old(x) == srcs[PlaceOf(news, x)]
      made == {news[i] : i \in 1 .. Len(news)}
      kids == [x \in Node |->
                 IF x \in made
                 THEN [i \in 1 .. Len(w.doc.kids[Old(x)]) |-> New(w.doc.kids[Old(x)][i])]
                 ELSE w.doc.kids[x]]
      attr == [x \in Node |-> w.doc.attr[IF x \in made THEN Old(x) ELSE x]]
      v == [w EXCEPT !.free = @ \ made, !.doc = [kids |-> kids, attr |-> attr],
                     !.hidden = [x \in Node |-> IF x \notin made THEN @[x]
                                                ELSE IF events THEN @[Old(x)] ELSE {}]]
  IN  [page |-> IF events THEN CopiedAll(v, srcs, news) ELSE v, node |-> news[1]]

\* The callbacks of append and before, for the element x and the target t.
Put(w, where, t, x) ==
  IF where = "in" THEN Placed(w, t, None, x) ELSE Placed(w, ParentOf(w.doc, t), t, x)

\* c is what Cloned has made.
PutClone(c, where, t) == Put(c.page, where, t, c.node)

RECURSIVE Manipulated(_, _, _, _), Repeated(_, _, _),
          Replaced(_, _, _)
\* domManip for an element: each target but the last gets a clone of it, with
\* data and handlers.
Manipulated(w, where, targets, n) ==
  IF Len(targets) = 1 THEN Put(w, where, targets[1], n)
  ELSE Manipulated(PutClone(Cloned(Detached(w, n), n, TRUE), where, Head(targets)),
                   where, Tail(targets), n)

\* What is kept for a text is always cloned.
Repeated(w, targets, x) ==
  IF targets = <<>> THEN w
  ELSE Repeated(PutClone(Cloned(w, x, TRUE), "in", Head(targets)), Tail(targets), x)

\* buildFragment, for the text of one element; kept when it is seen again.
TextAppended(w, targets) ==
  LET x == IF w.fragment \in Node THEN w.fragment ELSE SetToSeq(w.free)[1]
      v == [w EXCEPT !.free = @ \ {x}, !.doc.attr[x] = Fresh,
                     !.fragment = IF @ = "none" THEN "seen" ELSE x]
      u == Repeated(v, targets, x)
  IN  IF v.fragment = "seen" THEN [u EXCEPT !.free = @ \cup {x}] ELSE u

\* replaceWith, when what is put in is taken out of the page.
Replaced(w, targets, x) ==
  IF targets = <<>> THEN w
  ELSE LET t == Head(targets)
           p == ParentOf(w.doc, t)
           v == Gone(w, t)
           u == Placed(v, p, NextOf(w.doc, t), x)
       IN  Replaced(IF p = None THEN v
                    ELSE [u EXCEPT !.removed = @ \ (ToSet(Below(w.doc, x)) \cup {x})],
                    Tail(targets), x)

RECURSIVE Innermost(_, _)
Innermost(d, n) == IF d.kids[n] = <<>> THEN n ELSE Innermost(d, d.kids[n][1])

\* wrapAll: a clone of x before the first element, all of them into the innermost
\* of its first children.
AllInto(w, elems, x) == FoldLeft(LAMBDA u, e : Placed(u, x, None, e), w, elems)

WrappedBy(c, elems) ==
  AllInto(PutClone(c, "before", Head(elems)), elems, Innermost(c.page.doc, c.node))

Wrapped(w, elems, x) == WrappedBy(Cloned(w, x, TRUE), elems)

\* wrapInner; where there is nothing inside, x itself goes there.
WrappedInner(w, n, x) ==
  IF w.doc.kids[n] = <<>> THEN Manipulated(w, "in", <<n>>, x)
  ELSE Wrapped(w, w.doc.kids[n], x)

\* unwrap, for one parent: what is in it replaces it.
Unwrapped(w, p) ==
  IF ParentOf(w.doc, p) = None \/ w.doc.attr[p].tag = "body" THEN w
  ELSE LET kids == w.doc.kids[p]  gp == ParentOf(w.doc, p)  next == NextOf(w.doc, p)
       IN  FoldLeft(LAMBDA v, e : Placed(v, gp, next, e),
                    Gone(FoldLeft(Detached, w, kids), p), kids)

-----------------------------------------------------------------------------
(***************************************************************************)
(* The frames.  An event keeps what its handlers do to it and a log of the *)
(* handlers it has called.                                                 *)
(***************************************************************************)
User == [k |-> "user"]
Dispatch(n, t, items) == [k |-> "dispatch", node |-> n, type |-> t, items |-> items,
                          last |-> None]
Event(native, type, target, only, ns, path) ==
  [k |-> "event", native |-> native, type |-> type, target |-> target, only |-> only,
   ns |-> ns, path |-> path, at |-> 1, stopped |-> FALSE, immediate |-> FALSE,
   prevented |-> FALSE, log |-> <<>>]
After == [k |-> "after"]

Running(k) == stack # <<>> /\ Head(stack).k = k
Me == Head(stack)

RECURSIVE Upward(_, _)
\* The node and its ancestors.
Upward(d, n) == IF n = None THEN <<>> ELSE <<n>> \o Upward(d, ParentOf(d, n))

Morphs(a, b) == a = "focusin" /\ b = "focus"

\* jQuery.event.trigger: the path is set before the first handler.
TriggerPath(d, n, type, only) ==
  LET first == [node |-> n, type |-> BindType(type)]
      above == Upward(d, IF Morphs(DelegateType(type), type) THEN n ELSE ParentOf(d, n))
  IN  IF only THEN <<first>>
      ELSE <<first>> \o [i \in 1 .. Len(above) |->
                           [node |-> above[i], type |-> DelegateType(type)]]

\* focus and blur morph to focusin and focusout, which must not run now.
Triggered(n, type, only, ns, now) ==
  IF Morphs(type, now) THEN <<>>
  ELSE <<Event(FALSE, type, n, only, ns, TriggerPath(doc, n, type, only))>>

\* An event of the browser; whoever wants focusin gets it first.
Native(n, type, now) ==
  (IF type = "focus" /\ attaches > 0 THEN Triggered(n, "focusin", FALSE, "", now) ELSE <<>>)
  \o <<Event(TRUE, type, n, FALSE, "",
            IF type = "focus" THEN <<[node |-> n, type |-> type]>>
            ELSE LET up == Upward(doc, n) IN
                 [i \in 1 .. Len(up) |-> [node |-> up[i], type |-> type]])>>

\* The second event of a trigger is discarded.
\* Mutant: it is not.
Discards_Never(type) == FALSE

Discards(type) == triggered = type

\* The elements from the target up to the one that handles the event; once
\* the target is elsewhere, up to the end.
Levels(d, target, n) ==
  LET up == Upward(d, target)
  IN  IF n \in ToSet(up) THEN SubSeq(up, 1, PlaceOf(up, n) - 1) ELSE up

\* The queue of dispatch: those with a selector from the target up, then the
\* others.
Items(hs, d, target, n) ==
  LET delegates == SubSeq(hs.list, 1, hs.delegates)
      levels == Levels(d, target, n)
      own == SubSeq(hs.list, Place(hs.list, hs.delegates) + 1, Len(hs.list))
      At(e, list) == [i \in 1 .. Len(list) |-> [elem |-> e, h |-> list[i]]]
  IN  FlattenSeq([i \in 1 .. Len(levels) |->
                    At(levels[i], SelectSeq(delegates, LAMBDA h :
                                    IsElement(levels[i])
                                    /\ MatchesSelector(d, h.sel, levels[i])))])
      \o At(n, own)

(***************************************************************************)
(* What the page and a handler do.                                         *)
(***************************************************************************)
Idle == stack = <<>>
Acts == left > 0 /\ (Idle \/ Running("user"))
May(op) ==
  /\ op \in ops /\ Acts
  /\ left' = left - 1 /\ UNCHANGED <<ops, triggered>>

Looked(sel) == Select(doc, sel, Root, None)

\* What an operation is for: a set of elements by one of the selectors.
Sets == IF Acts THEN {Looked(sel) : sel \in Targets} ELSE {}

\* An operation on each element that is found.
EachOf(s, Op(_, _)) ==
  /\ s # <<>>
  /\ Becomes(FoldLeft(Op, Page, s))
  /\ UNCHANGED <<stack, found>>

\* $( selector, context )
Find(n) ==
  /\ May("find") /\ found = NothingFound
  /\ \E sel \in Lookups :
       found' = [by |-> "selector", sel |-> sel, from |-> <<n>>,
                 elems |-> SelectGroups(doc, sel, n)]
  /\ UNCHANGED <<page, stack>>

\* From the elements of one selector, by name and with another selector.
Traverse(name, s, by) ==
  /\ May("walk") /\ found = NothingFound /\ s # <<>>
  /\ name \in {"closest", "find", "filter", "not", "has", "add"} \cup Until => by # NoSelector
  /\ found' = [by |-> name, sel |-> <<by>>, from |-> s,
               elems |-> CASE name = "closest" -> Closest(doc, s, by)
                           [] name = "find" -> FindBelow(doc, s, by, <<>>)
                           [] name = "filter" -> Winnow(doc, s, by, TRUE)
                           [] name = "not" -> Winnow(doc, s, by, FALSE)
                           [] name = "has" -> HasBelow(doc, s, Looked(by))
                           [] name = "add" -> AddSet(doc, s, Looked(by))
                           [] OTHER -> Walks(doc, s, name, by)]
  /\ UNCHANGED <<page, stack>>

On(s, type, by, one, ns) ==
  /\ May("on") /\ (one => "one" \in ops)
  /\ LET h == [type |-> type, orig |-> type, id |-> counter + 1, sel |-> by, one |-> one,
               ns |-> ns]
     IN  /\ s # <<>>
         /\ Becomes(FoldLeft(LAMBDA w, n : Bound(w, n, h),
                             [Page EXCEPT !.counter = @ + 1], s))
  /\ UNCHANGED <<stack, found>>

Off(s, which) ==
  May("off") /\ EachOf(s, LAMBDA w, n : Removed(w, n, which))

SetData(s) == May("data") /\ EachOf(s, LAMBDA w, n : PublicDataSet(w, n))
RemoveData(s) == May("data") /\ EachOf(s, LAMBDA w, n : PublicDataRemoved(w, n))

Classes(n) ==
  /\ May("class") /\ n \in ToSet(Below(doc, Root))
  /\ \E state \in {"none", "on", "off"}, words \in SUBSET Class :
       \/ Becomes(ToggleClasses(Page, n, state))
       \/ Becomes(ToggleClass(Page, n, words, state))
       \/ Becomes(AddClass(Page, n, words)) \/ Becomes(RemoveClass(Page, n, words))
  /\ UNCHANGED <<stack, found>>

RemoveFound(s) == May("remove") /\ EachOf(s, LAMBDA w, n : Gone(w, n))
Detach(s) == May("detach") /\ EachOf(s, LAMBDA w, n : Detached(w, n))
Empty(s) == May("remove") /\ EachOf(s, LAMBDA w, n : Emptied(w, n))

\* One element, and others that it may be put to, with nodes for the clones.
Movable(s, n, targets) ==
  /\ targets # <<>> /\ s # <<>> /\ n = s[1]
  /\ \A i \in 1 .. Len(targets) : targets[i] \notin ToSet(Below(doc, n)) \cup {n}
  /\ Cardinality(free) >= (Len(targets) - 1) * (Len(Below(doc, n)) + 1)

AppendTo(s, to) ==
  /\ May("append")
  /\ \E n \in Node :
       /\ Movable(s, n, to)
       /\ Becomes(Manipulated(Page, "in", to, n))
  /\ UNCHANGED <<stack, found>>

InsertBefore(s, to) ==
  /\ May("append")
  /\ \E n \in Node :
       /\ Movable(s, n, to)
       /\ Becomes(Manipulated(Page, "before", to, n))
  /\ UNCHANGED <<stack, found>>

AppendText(to) ==
  /\ May("text") /\ to # <<>> /\ Cardinality(free) > Len(to)
  /\ Becomes(TextAppended(Page, to))
  /\ UNCHANGED <<stack, found>>

ReplaceWith(s, by) ==
  /\ May("replace")
  /\ s # <<>> /\ by # <<>>
  /\ ToSet(s) \cap ToSet(Below(doc, by[1])) = {}
  /\ Becomes(Replaced(Detached(Page, by[1]), s, by[1]))
  /\ UNCHANGED <<stack, found>>

\* The first element by which others are wrapped, with nodes for the clones; it
\* has none of the others in it (bound).
Wrapper(s, x) ==
  /\ s # <<>> /\ ToSet(s) \cap ToSet(Below(doc, x)) = {}
  /\ Cardinality(free) >= Len(s) * (Len(Below(doc, x)) + 1)

Wrap(s, by, all) ==
  /\ May("wrap") /\ by # <<>>
  /\ LET x == by[1] IN
       /\ Wrapper(s, x)
       /\ Becomes(IF all THEN Wrapped(Page, s, x)
                  ELSE FoldLeft(LAMBDA w, n : Wrapped(w, <<n>>, x), Page, s))
  /\ UNCHANGED <<stack, found>>

WrapInner(s, by) ==
  /\ May("wrap") /\ by # <<>>
  /\ LET x == by[1] IN
       /\ Wrapper(s, x) /\ x \notin ToSet(s)
       /\ Becomes(FoldLeft(LAMBDA w, n : WrappedInner(w, n, x), Page, s))
  /\ UNCHANGED <<stack, found>>

Unwrap(s) ==
  /\ May("unwrap") /\ s # <<>>
  /\ Becomes(FoldLeft(Unwrapped, Page, Walks(doc, s, "parent", NoSelector)))
  /\ UNCHANGED <<stack, found>>

\* A clone goes to the end of the page.
CloneTo(s, events) ==
  /\ May("clone")
  /\ s # <<>> /\ Room(Page, s[1])
  /\ LET c == Cloned(Page, s[1], events)
     IN  Becomes(PutClone(c, "in", Below(doc, Root)[1]))
  /\ UNCHANGED <<stack, found>>

Trigger(s, type, only, ns) ==
  /\ May("trigger")
  /\ s # <<>>
  /\ stack' = Triggered(s[1], type, only, ns, triggered) \o stack
  /\ UNCHANGED <<page, found>>

InEvent == Running("user") /\ UNCHANGED <<page, ops, found, triggered, left>>

Returns == InEvent /\ stack' = Tail(stack)

\* return false: preventDefault and stopPropagation.
ReturnsFalse ==
  /\ InEvent
  /\ stack' = [Tail(stack) EXCEPT ![2].stopped = TRUE, ![2].prevented = TRUE]

StopsImmediately ==
  /\ InEvent
  /\ stack' = [Tail(stack) EXCEPT ![2].stopped = TRUE, ![2].immediate = TRUE]

-----------------------------------------------------------------------------
(***************************************************************************)
(* jQuery.event.trigger, the browser, and jQuery.event.dispatch.           *)
(***************************************************************************)
PathEnds(e) == e.at > Len(e.path) \/ e.stopped

\* The next node: the browser calls its listener, trigger its handle.
EventGoesOn ==
  /\ Running("event") /\ ~PathEnds(Me)
  /\ LET p == Me.path[Me.at]
         on == [Head(stack) EXCEPT !.at = @ + 1]
         heard == IF Me.native
                  THEN \E l \in listeners : l.node = p.node /\ l.type = p.type
                  ELSE p.type \in DOMAIN Events(Page, p.node)
     IN  stack' = (IF heard /\ ~Discards(p.type)
                   THEN <<Dispatch(p.node, p.type,
                            Items(HandlersOf(Page, p.node, p.type), doc, Me.target, p.node))>>
                   ELSE <<>>) \o <<on>> \o Tail(stack)
  /\ UNCHANGED <<page, ops, found, triggered, left>>

HasDefault(e) ==
  /\ ~e.native /\ ~e.only /\ ~e.prevented
  /\ \/ e.type = "click" /\ doc.attr[e.target].tag # "a"
     \/ e.type = "focus"

\* The default action is a method of the element, with an event of its own.
EventEnds ==
  /\ Running("event") /\ PathEnds(Me)
  /\ \/ /\ HasDefault(Me)
        /\ triggered' = Me.type
        /\ stack' = [Native(Me.target, Me.type, Me.type) EXCEPT ![1].log = Me.log]
                    \o <<After>> \o Tail(stack)
     \/ /\ ~HasDefault(Me) \/ Me.type = "focus"
        /\ stack' = Tail(stack) /\ UNCHANGED triggered
  /\ UNCHANGED <<page, ops, found, left>>

AfterDefault ==
  /\ Running("after")
  /\ triggered' = "none" /\ stack' = Tail(stack)
  /\ UNCHANGED <<page, ops, found, left>>

Leaves(e, last, item) == e.immediate \/ (e.stopped /\ item.elem # last)

\* A handler for one event is taken off first, by the type in the record.
OffOnce(n, h) == [orig |-> h.type, id |-> h.id, ns |-> h.ns, sel |-> h.sel]

DispatchStep ==
  /\ Running("dispatch")
  /\ IF Me.items = <<>> \/ (Me.items # <<>> /\ Leaves(stack[2], Me.last, Head(Me.items)))
     THEN stack' = Tail(stack) /\ UNCHANGED page
     ELSE LET item == Head(Me.items)  h == item.h  e == stack[2]
              on == [Head(stack) EXCEPT !.items = Tail(@), !.last = item.elem]
              entry == [elem |-> item.elem, node |-> Me.node, id |-> h.id,
                        stopped |-> e.stopped, immediate |-> e.immediate]
          IN  \/ /\ e.ns \in {"", h.ns}
                 /\ stack' = <<User, on>> \o [Tail(stack) EXCEPT ![1].log = Append(@, entry)]
                 /\ IF h.one THEN Becomes(Removed(Page, Me.node, OffOnce(Me.node, h)))
                    ELSE UNCHANGED page
              \/ \* another namespace, or the mouse has not left the element
                 /\ e.ns \notin {"", h.ns} \/ (e.native /\ h.orig = "mouseenter")
                 /\ stack' = <<on>> \o Tail(stack) /\ UNCHANGED page
  /\ UNCHANGED <<ops, found, triggered, left>>

\* The user.
BrowserEvent(n, type) ==
  /\ Idle /\ "native" \in ops /\ left > 0 /\ left' = left - 1
  /\ n \in ToSet(Below(doc, Root))
  /\ stack' = Native(n, BindType(type), triggered)
  /\ UNCHANGED <<page, ops, found, triggered>>

Operation ==
  \/ \E n \in Node : Find(n) \/ Classes(n)
  \/ \E s \in Sets :
       \/ \E by \in Selectors \cup {NoSelector}, name \in WalkName : Traverse(name, s, by)
       \/ \E t \in EventType, by \in Selectors \cup {<<>>}, one \in BOOLEAN, ns \in Namespace :
            On(s, t, by, one, ns)
       \/ \E t \in EventType, by \in Selectors \cup {<<>>} :
            Off(s, [Every EXCEPT !.orig = t, !.sel = by])
       \/ Off(s, Every) \/ Off(s, [Every EXCEPT !.ns = "a"])
       \/ SetData(s) \/ RemoveData(s) \/ RemoveFound(s) \/ Detach(s) \/ Empty(s)
       \/ \E to \in Sets : \/ AppendTo(s, to) \/ InsertBefore(s, to) \/ ReplaceWith(s, to)
                           \/ WrapInner(s, to) \/ \E all \in BOOLEAN : Wrap(s, to, all)
       \/ AppendText(s) \/ Unwrap(s)
       \/ \E events \in BOOLEAN : CloneTo(s, events)
       \/ \E t \in EventType, only \in BOOLEAN, ns \in Namespace : Trigger(s, t, only, ns)

Next ==
  \/ Operation
  \/ Returns \/ ReturnsFalse \/ StopsImmediately
  \/ EventGoesOn \/ EventEnds \/ AfterDefault \/ DispatchStep
  \/ \E n \in Node, t \in EventType : BrowserEvent(n, t)

Spec == Init /\ [][Next]_vars

-----------------------------------------------------------------------------
HasFocusin(n) == "focusin" \in DOMAIN Events(Page, n)

\* The cache, the numbers on the elements and the listeners of the browser
\* agree, whatever is bound, cloned, moved and removed by whom: an element
\* has a record of its own, no record is without its element or empty, a
\* listener is set for each type that is in a record and calls its handle, and
\* someone who wants focusin has been counted.
RecordsMatch ==
  /\ DOMAIN cache = {uuid[n] : n \in Node} \ {0}
  /\ \A n, m \in Node : uuid[n] = uuid[m] /\ uuid[n] # 0 => n = m
  /\ \A i \in DOMAIN cache : cache[i] # NewRecord
  /\ listeners = UNION {{[node |-> n, type |-> t, handle |-> Record(Page, n).handle] :
                             t \in DOMAIN Events(Page, n) \ {"focusin"}} : n \in Node}
  /\ attaches >= Cardinality({n \in Node : HasFocusin(n)})

\* Nothing is kept of an element that was removed, by whatever way and however
\* deep it stood, nor written on the element that a text is cloned from.
NothingLeft ==
  \A n \in removed \cup free \cup ({fragment} \cap Node) :
    /\ ~Has(Page, n) /\ \A l \in listeners : l.node # n
    /\ n \in free \cup {fragment} => ParentOf(doc, n) = None

\* The classes that toggleClass has taken off an element come back with it,
\* whatever is bound to the element, unbound and stored meanwhile, and with its
\* clones that have its handlers.
ClassesComeBack ==
  \A n \in Node : hidden[n] # {} =>
    /\ ClassOf(Page, n) = {}
    /\ ClassOf(ToggleClasses(Page, n, "none"), n) = hidden[n]

\* One event calls a binding once for an element, the event of its default
\* action included, and none after it was stopped but those of the same
\* element; none at all after it was stopped immediately.
OncePerEvent ==
  \A i \in 1 .. Len(stack) : stack[i].k = "event" =>
    LET log == stack[i].log IN
      \A j \in 1 .. Len(log) :
        /\ ~log[j].immediate
        /\ log[j].stopped => j > 1 /\ log[j].elem = log[j - 1].elem
                                   /\ log[j].node = log[j - 1].node
        /\ \A k \in 1 .. j - 1 :
             \/ log[k].elem # log[j].elem \/ log[k].node # log[j].node
             \/ log[k].id # log[j].id

\* The engine takes the nearest ancestor or sibling that fits and does not try
\* the next one, and a combinator at the beginning is for a context.
Exact(parts, ctx) ==
  /\ \A i, k \in 1 .. Len(parts) :
       i < k => ~(parts[i].comb \in {">", "+", "~"} /\ parts[k].comb = " ")
                /\ ~(parts[i].comb = "+" /\ parts[k].comb = "~")
  /\ parts[1].comb = "none" \/ (ctx # Root /\ (parts[1].comb = ">" \/ Len(parts) = 1))

\* What is looked up by a selector is in the order of the document, each
\* element once, and is what the groups of the selector mean, a place counted
\* in what the rest of its compound means; where the engine would have to try
\* again it is a part of that.
LookupsExact ==
  found.by = "selector" /\ (\A i \in 1 .. Len(found.sel) : ~HasPos(found.sel[i]) \/ Single(found.sel[i])) =>
    LET M(parts) == ToSet(Picked(Meaning(doc, parts, found.from[1]), parts[Len(parts)].pos, 1))
        m == UNION {M(found.sel[i]) : i \in 1 .. Len(found.sel)}
        e == ToSet(found.elems)
    IN  /\ found.elems = SelectSeq(Below(doc, Root), LAMBDA x : x \in e)
        /\ e \subseteq m
        /\ (\A i \in 1 .. Len(found.sel) : Exact(found.sel[i], found.from[1])) => e = m

\* What is reached from a set of elements is what the name of the walk means
\* for one of them, each once, and in the order of the document, for parents
\* and what comes before in the reverse one; but what the code takes for
\* unique is in the order of the set, and so is what find adds.
TraversalsExact ==
  found.by \in WalkName =>
    LET sel == found.sel[1]
        all == <<Root>> \o Below(doc, Root)
        order == IF found.by \in Backward THEN Reverse(all) ELSE all
        Fits(x) ==
          CASE found.by \in {"filter", "not"} ->
                 x \in ToSet(found.from)
                 /\ (Means(doc, sel, Len(sel), Root, x) = (found.by = "filter"))
            [] found.by = "has" ->
                 x \in ToSet(found.from)
                 /\ \E y \in Node : InTree(doc, x, y) /\ Means(doc, sel, Len(sel), Root, y)
            [] found.by = "add" ->
                 x \in ToSet(found.from) \/ Means(doc, sel, Len(sel), Root, x)
            [] OTHER ->
                 /\ \E i \in 1 .. Len(found.from) :
                      Reaches(doc, found.by, found.from[i], x, sel)
                 /\ \/ sel = NoSelector \/ found.by \in Until \cup {"closest", "find"}
                    \/ Means(doc, sel, Len(sel), Root, x)
        meant == SelectSeq(order, Fits)
    IN  IF found.by \in GuaranteedUnique \cup {"find"}
        THEN ToSet(found.elems) = ToSet(meant) /\ Len(found.elems) = Len(meant)
        ELSE found.elems = meant

(***************************************************************************)
(* What jQuery keeps beside the document is what it keeps of the elements  *)
(* that are there: no more, no less (cleanData, remove, empty, clone).     *)
(***************************************************************************)
RecordsTrue == RecordsMatch /\ NothingLeft /\ ClassesComeBack

(***************************************************************************)
(* What is looked up is what the words of the selector or of the walk      *)
(* mean (Sizzle, traversing.js in jQuery), as far as the engine goes.      *)
(***************************************************************************)
QueriesExact == LookupsExact /\ TraversalsExact
=============================================================================
