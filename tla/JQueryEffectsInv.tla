------------------------- MODULE JQueryEffectsInv -------------------------
(***************************************************************************)
(* The invariants of jQuery's effects (JQueryEffects): what the variables  *)
(* hold, what may run above what, who will take a queue on, and how the    *)
(* entries that were asked, that wait and that began are related, as long  *)
(* as no stop is made within a callback of its element or another stop.    *)
(* JQueryEffectsProofs shows that every step preserves them.               *)
(***************************************************************************)
EXTENDS JQueryEffects
-----------------------------------------------------------------------------
(***************************************************************************)
(* What the variables hold.                                                *)
(***************************************************************************)
Among(s) == {s[i] : i \in 1 .. Len(s)}

Timer == [anim : Nat, prop : Prop]
Waiter == [elem : Element, defer : Nat]
PropSets == {{"opacity"}, Prop}
AnimEntry == [k : {"anim"}, id : Nat, val : {"show", "hide", "toggle"}, props : PropSets,
              queued : BOOLEAN, instant : BOOLEAN]
Queueable == {c \in AnimEntry : c.queued} \cup [k : {"delay"}, id : Nat]

Frame ==
  [k : {"user", "dequeue", "dequeued", "show"}, elem : Element]
    \cup [k : {"begin"}, elem : Element, entry : AnimEntry]
    \cup [k : {"custom"}, anim : Nat, prop : Prop]
    \cup [k : {"complete", "completed"}, anim : Nat]
    \cup [k : {"tick"}, i : Nat \ {0}] \cup [k : {"ticked"}, i : Nat \ {0}, timer : Timer]
    \cup [k : {"stop"}, elem : Element, gotoEnd : BOOLEAN, i : Nat, had : BOOLEAN]
    \cup [k : {"stopped"}, elem : Element, i : Nat \ {0}]

\* The options of an animation; which values its properties have is left open.
IsAnim(r) ==
  /\ DOMAIN r = {"elem", "queued", "props", "method", "orig", "start", "end", "done", "due",
                 "complete"}
  /\ r.elem \in Element /\ r.queued \in BOOLEAN /\ r.due \in BOOLEAN /\ r.complete \in BOOLEAN
  /\ r.props \in PropSets /\ r.done \subseteq r.props

IsFcn(f) == f = [x \in DOMAIN f |-> f[x]]

Types ==
  /\ world \in Worlds /\ count \in Nat /\ ticking \in BOOLEAN /\ threw \in BOOLEAN
  /\ queue \in [Element -> Seq(Queueable \cup {Sentinel})]
  /\ asked \in [Element -> Seq(Queueable)] /\ begun \in [Element -> Seq(Nat)]
  /\ hooks \in [Element -> Nat] /\ mark \in [Element -> Nat] /\ defer \in [Element -> Nat]
  /\ sleeping \subseteq [id : Nat, elem : Element]
  /\ timers \in Seq(Timer) /\ checks \in Seq(Waiter)
  /\ IsFcn(anim) /\ \A a \in DOMAIN anim : a \in Nat /\ IsAnim(anim[a])
  /\ IsFcn(waits) /\ \A p \in DOMAIN waits : waits[p] \subseteq Waiter
  /\ IsFcn(called) /\ \A a \in DOMAIN called : called[a] \in Nat
  /\ stuck \subseteq Element
  /\ stack \in Seq(Frame)

(***************************************************************************)
(* The stack.                                                              *)
(***************************************************************************)
\* f may run above g: what calls nothing is on top, the properties of an
\* animation begin one after the other, stop is not called within a stop nor
\* within a callback of the element.
Over(f, g, an) ==
  /\ g.k \in {"user", "dequeued", "completed", "show", "custom", "ticked", "stopped"}
  /\ f.k \notin {"tick", "ticked"}
  /\ g.k = "custom" => f.k \in {"custom", "show"} /\ f # g /\ (f.k = "custom" => f.anim = g.anim)
  /\ g.k = "stopped" => f.k \notin {"stop", "stopped"}
  /\ g.k = "completed" =>
       /\ f # g
       /\ f.k \in {"stop", "stopped"} => an[g.anim].elem # f.elem

\* The callback of an animation runs right above what goes on after it.
Order(s, an) ==
  /\ \A i, j \in 1 .. Len(s) : i < j => Over(s[i], s[j], an)
  /\ \A j \in 2 .. Len(s) : s[j].k = "completed" => s[j - 1] = User(an[s[j].anim].elem)

(***************************************************************************)
(* Timers and animations.                                                  *)
(***************************************************************************)
TimerOf(a, p) == [anim |-> a, prop |-> p]

\* A property that is still to be stepped, or begun.
Held(a, p) == TimerOf(a, p) \in Among(timers) \/ Custom(a, p) \in Among(stack)

Rest(a) == anim[a].props \ anim[a].done
Live(a) == anim[a].complete /\ \E p \in Rest(a) : Held(a, p)

\* The loop of a stop not to the end, which may have removed some of the timers.
Stopping(e) == Running("stop") /\ Me.elem = e /\ ~Me.gotoEnd

\* The timer at j has just been stepped for the last time.
AtEnd(j) == \/ Running("ticked") /\ Me.i = j /\ Me.timer = timers[j]
            \/ Running("stopped") /\ Me.i = j

AnimInv ==
  \A a \in DOMAIN anim :
    /\ a \in 1 .. count
    /\ anim[a].complete => ~Finished(anim[a])
    /\ Live(a) => (\A p \in Rest(a) : Held(a, p)) \/ Stopping(anim[a].elem)

TimerInv ==
  /\ \A i \in 1 .. Len(timers) :
       LET t == timers[i]  a == anim[t.anim] IN
         /\ t.anim \in DOMAIN anim /\ t.prop \in a.props
         /\ a.complete \/ Finished(a)
         /\ t.prop \in a.done => Finished(a) \/ AtEnd(i)
  /\ \A i, j \in 1 .. Len(timers) : timers[i] = timers[j] => i = j

FrameOk(f) ==
  /\ f.k \in {"custom", "complete", "completed"} => f.anim \in DOMAIN anim
  /\ f.k = "custom" =>
       /\ anim[f.anim].complete /\ f.prop \in Rest(f.anim)
       /\ TimerOf(f.anim, f.prop) \notin Among(timers)
  /\ f.k \in {"complete", "completed"} => ~anim[f.anim].complete
  /\ f.k = "complete" => f.anim \notin DOMAIN called
  /\ f.k = "completed" => f.anim \in DOMAIN called
  /\ f.k = "ticked" => f.timer.anim \in DOMAIN anim /\ f.timer.prop \in anim[f.timer.anim].done
  /\ f.k = "stopped" =>
       /\ f.i <= Len(timers) /\ timers[f.i].prop \in anim[timers[f.i].anim].done
  /\ f.k = "stop" =>
       /\ f.i <= Len(timers)
       /\ ~f.gotoEnd \/ ~f.had =>
            \A j \in 1 .. Len(timers) : f.i < j => anim[timers[j].anim].elem # f.elem

FrameInv == \A f \in Among(stack) : FrameOk(f)

CalledInv == \A a \in DOMAIN called : a \in DOMAIN anim /\ called[a] = 1 /\ ~anim[a].complete

(***************************************************************************)
(* Entries: each is in one place.                                          *)
(***************************************************************************)
Ids(e) == {asked[e][i].id : i \in 1 .. Len(asked[e])}
IsEntry(c) == c.k # "inprogress"
QueueIds(e) == {c.id : c \in {x \in Among(queue[e]) : IsEntry(x)}}

\* A sentinel is the first, and no entry is there twice.
Apart(q) ==
  \A i, j \in 1 .. Len(q) : i < j =>
    IsEntry(q[j]) /\ (IsEntry(q[i]) => q[i].id # q[j].id)

EntryInv ==
  /\ \A e \in Element :
       /\ Ids(e) \subseteq 1 .. count
       /\ QueueIds(e) \subseteq Ids(e) \ DOMAIN anim
       /\ hooks[e] # 0 => hooks[e] \in Ids(e)
       /\ Apart(queue[e])
  /\ \A e, x \in Element : e # x => Ids(e) \cap Ids(x) = {}
  /\ \A d \in sleeping : d.id \in Ids(d.elem) /\ d.id \notin QueueIds(d.elem) \cup DOMAIN anim
  /\ Running("begin") =>
       LET c == Me.entry IN
         /\ c.id \in 1 .. count \ DOMAIN anim
         /\ c.queued => c.id \in Ids(Me.elem)
         /\ ~c.queued => \A e \in Element : c.id \notin Ids(e)
         /\ \A e \in Element : c.id \notin QueueIds(e)
         /\ \A d \in sleeping : d.id # c.id

StepInv == Types /\ Order(stack, anim) /\ AnimInv /\ TimerInv /\ FrameInv /\ CalledInv /\ EntryInv

(***************************************************************************)
(* What is under way for an element, in its queue or beside it.            *)
(***************************************************************************)
UnderWay(a) == Live(a) \/ Complete(a) \in Among(stack) \/ Completed(a) \in Among(stack)
Begins(a, e, q) == Running("begin") /\ Me.elem = e /\ Me.entry.queued = q /\ Me.entry.id = a
IsToken(a, e, q) ==
  \/ a \in DOMAIN anim /\ anim[a].elem = e /\ anim[a].queued = q /\ UnderWay(a)
  \/ Begins(a, e, q)
Tokens(e, q) == {a \in 1 .. count : IsToken(a, e, q)}

Tok(e) == Tokens(e, TRUE) \cup {d.id : d \in {s \in sleeping : s.elem = e}}

Moves(e) == \E i \in 1 .. Len(timers) : anim[timers[i].anim].elem = e

\* A step that is to take on the queue of e.
Stepper(e) ==
  \/ Running("dequeue") /\ Me.elem = e
  \/ Running("stop") /\ Me.elem = e /\ (~Me.gotoEnd \/ (~Me.had /\ ~Moves(e)))

Alive(e) == e \in stuck \/ queue[e] = <<>> \/ Tok(e) # {} \/ Stepper(e)

AliveInv == ~threw => \A e \in Element : Alive(e)

Marked(e) == mark[e] = IF Stopping(e) THEN 0 ELSE Cardinality(Tokens(e, FALSE))
MarkInv == ~threw => \A e \in Element : Marked(e)

\* What is left of a queue when its next entry is taken.
After(e) == IF InProgress(queue[e]) THEN Tail(queue[e]) ELSE queue[e]

\* Of the entries el, those of be were begun and r is the rest.
Follows(el, be, r) ==
  /\ Len(be) <= Len(el) /\ \A i \in 1 .. Len(be) : be[i] = el[i].id
  /\ Len(r) = Len(el) - Len(be) /\ \A i \in 1 .. Len(r) : r[i] = el[Len(be) + i]

InOrder(e) == Follows(asked[e], begun[e], After(e))
QueueInv == ~Clears => \A e \in Element : InOrder(e)

\* One entry is under way at most, the last that was begun.
TakesOn(e) == Running("dequeue") /\ Me.elem = e
StopsDelay(e) == Running("stop") /\ Me.elem = e /\ (~Me.gotoEnd \/ ~Me.had)

Turned(e) ==
  /\ \A a \in Tok(e) : begun[e] # <<>> /\ a = begun[e][Len(begun[e])]
  /\ queue[e] = <<>> => Tok(e) = {}
  /\ queue[e] # <<>> /\ ~InProgress(queue[e]) => TakesOn(e)
  /\ TakesOn(e) => Tok(e) = {}
  /\ \A d \in sleeping : d.elem = e => hooks[e] = d.id
  /\ StopsDelay(e) => \A d \in sleeping : d.elem # e

TurnInv == ~Clears => \A e \in Element : Turned(e)

TickingInv == timers # <<>> => ticking

WaitInv ==
  /\ \A p \in DOMAIN waits : p \in 1 .. count /\ \A x \in waits[p] :
       x \in missed \/ (x.defer = defer[x.elem] /\ x.defer # 0)
  /\ \A e \in Element : defer[e] # 0 =>
       queue[e] # <<>> \/ mark[e] # 0 \/ [elem |-> e, defer |-> defer[e]] \in Among(checks)
-----------------------------------------------------------------------------
(***************************************************************************)
(* The histories that the invariants are for: no callback has stopped its  *)
(* own element, and no stop was made while one brought another element to  *)
(* its end.  Then the timers stay where a stop has seen them.              *)
(***************************************************************************)
Plain == own = {} /\ ~within

Free(e) == ~InCallbackOf(e) /\ ~Finishing
StopFree(e, clear, gotoEnd) == StopNow(e, clear, gotoEnd) /\ Free(e)

PlainNext ==
  \/ NoStop /\ ~StopFails
  \/ \E e \in Element, clear, gotoEnd \in BOOLEAN : StopFree(e, clear, gotoEnd)

(***************************************************************************)
(* The inductive invariants.  StepInv is one by itself; the others need it.*)
(***************************************************************************)
CareInv == AliveInv /\ MarkInv
PromiseInv == StepInv /\ CareInv /\ WaitInv
RowInv == StepInv /\ CareInv /\ QueueInv /\ TurnInv /\ TickingInv
=============================================================================
