--------------------------- MODULE JQueryEffects ---------------------------
(***************************************************************************)
(* The effects of the pages: jQuery.queue, jQuery.fx and what is built on  *)
(* them, show, hide, toggle, the slides and fades, delay, stop and promise *)
(* (jQuery 1.7.1, in require-jquery.js).                                   *)
(*                                                                         *)
(* An element has a queue, whose first entry is a sentinel while an entry  *)
(* is being run; an animation is a set of timers, one for a property, which*)
(* one interval of the browser steps; the callback of an animation and what*)
(* it calls run in the midst of a step.  The thread is a stack of frames   *)
(* as in JQueryAjax.                                                       *)
(*                                                                         *)
(* Left out: other queues than fx, functions that are queued as such,      *)
(* easing, and the values of properties but for none, a part and all.      *)
(***************************************************************************)
EXTENDS Naturals, Sequences, FiniteSets, SequencesExt

CONSTANTS
  Element,
  Worlds   \* what a page does, what its callbacks do, and how often (bound)

Prop == {"height", "opacity"}

\* show is slow for both properties; the fades are for one.
Choice == [val : {"show", "hide", "toggle"}, props : {{"opacity"}, Prop},
           queued : BOOLEAN, instant : BOOLEAN]

ASSUME EffectsAssumption ==
  \A w \in Worlds : /\ w.choices \subseteq Choice /\ w.hidden \subseteq Element
                    /\ w.calls \in Nat /\ w.inside \subseteq w.ops

VARIABLES
  world,    \* which of Worlds the page is
  queue,    \* of each element; the empty one is none
  hooks,    \* of each element, the delay that stop would end, 0 for none
  sleeping, \* the delays whose timeout is set
  timers,   \* jQuery.timers
  anim,     \* the options of each animation that has begun
  ticking,  \* timerId is set
  mark,     \* of each element, the animations that are not in its queue
  look,     \* of each element, what it looks like and what is noted of that
  defer,    \* of each element, the list of those who wait for its end, 0 for none
  checks,   \* the timeouts of handleQueueMarkDefer, in their order
  waits,    \* what each promise waits for
  asked,    \* of each element, the entries that were queued
  begun,    \* of each element, the number of them that were begun, in their order
  called,   \* how often the callback of each entry was called
  cut,      \* the elements where a show that began from nothing was stopped
  stuck,    \* those where a stop to the end met a delay and an animation beside it
  missed,   \* who waited when the timeout of an earlier one took the list away
  lost,     \* those whose timer a stop to the end removed in place of another
  own,      \* those that were stopped within a callback of theirs
  within,   \* a stop was made within a stop to the end
  threw,    \* a callback has thrown, or a stop that found no timer
  count,    \* the number of calls so far
  stack

vars == <<world, queue, hooks, sleeping, timers, anim, ticking, mark, look, defer, checks,
          waits, asked, begun, called, cut, stuck, missed, lost, own,
          within, threw, count, stack>>

\* What the functions change, as one value.
Page == [queue |-> queue, hooks |-> hooks, sleeping |-> sleeping, timers |-> timers,
         anim |-> anim, ticking |-> ticking, mark |-> mark, look |-> look, defer |-> defer,
         checks |-> checks, waits |-> waits, asked |-> asked, begun |-> begun,
         called |-> called, cut |-> cut, stuck |-> stuck, missed |-> missed,
         lost |-> lost]

Becomes(w) ==
  /\ queue' = w.queue /\ hooks' = w.hooks /\ sleeping' = w.sleeping /\ timers' = w.timers
  /\ anim' = w.anim /\ ticking' = w.ticking /\ mark' = w.mark /\ look' = w.look
  /\ defer' = w.defer /\ checks' = w.checks /\ waits' = w.waits /\ asked' = w.asked
  /\ begun' = w.begun /\ called' = w.called /\ cut' = w.cut
  /\ stuck' = w.stuck /\ missed' = w.missed
  /\ lost' = w.lost /\ UNCHANGED world

Nothing == [x \in {} |-> {}]
With(f, x, v) == [y \in DOMAIN f \cup {x} |-> IF y = x THEN v ELSE f[y]]

Init ==
  /\ world \in Worlds
  /\ queue = [e \in Element |-> <<>>] /\ asked = queue /\ begun = queue
  /\ hooks = [e \in Element |-> 0] /\ mark = hooks /\ defer = hooks
  /\ sleeping = {} /\ timers = <<>> /\ anim = Nothing /\ ticking = FALSE
  /\ look = [e \in Element |->
       [shown |-> e \notin world.hidden, size |-> [p \in Prop |-> "full"],
        fxshow |-> [p \in Prop |-> "undefined"], toggle |-> [p \in Prop |-> "undefined"]]]
  /\ checks = <<>> /\ waits = Nothing /\ called = Nothing
  /\ cut = {} /\ stuck = {} /\ missed = {} /\ lost = {} /\ own = {}
  /\ within = FALSE /\ threw = FALSE /\ count = 0 /\ stack = <<>>

-----------------------------------------------------------------------------
(***************************************************************************)
(* The frames.                                                             *)
(***************************************************************************)
User(e) == [k |-> "user", elem |-> e]
Dequeue(e) == [k |-> "dequeue", elem |-> e]
Dequeued(e) == [k |-> "dequeued", elem |-> e]
Begin(e, c) == [k |-> "begin", elem |-> e, entry |-> c]
Custom(a, p) == [k |-> "custom", anim |-> a, prop |-> p]
Show(e) == [k |-> "show", elem |-> e]
Complete(a) == [k |-> "complete", anim |-> a]
Completed(a) == [k |-> "completed", anim |-> a]
Tick(i) == [k |-> "tick", i |-> i]
Ticked(i, t) == [k |-> "ticked", i |-> i, timer |-> t]
Stop(e, gotoEnd, i, had) == [k |-> "stop", elem |-> e, gotoEnd |-> gotoEnd, i |-> i, had |-> had]
Stopped(e, i) == [k |-> "stopped", elem |-> e, i |-> i]

Running(k) == stack # <<>> /\ Head(stack).k = k
Me == Head(stack)
Idle == stack = <<>>

\* The page becomes w, the running frame goes on as the frames f.
Goes(w, f) == Becomes(w) /\ stack' = f \o Tail(stack) /\ UNCHANGED <<threw, count>>

-----------------------------------------------------------------------------
(***************************************************************************)
(* The queue, the marks, and who waits for the end of both.                *)
(***************************************************************************)
Sentinel == [k |-> "inprogress"]
InProgress(q) == q # <<>> /\ Head(q) = Sentinel

HandleQueueMarkDefer(w, e, src) ==
  IF w.defer[e] # 0 /\ (src = "queue" \/ w.queue[e] = <<>>) /\ (src = "mark" \/ w.mark[e] = 0)
  THEN [w EXCEPT !.checks = Append(@, [elem |-> e, defer |-> w.defer[e]])]
  ELSE w

Unmarked(w, e, force) ==
  LET n == IF force \/ w.mark[e] = 0 THEN 0 ELSE w.mark[e] - 1
      v == [w EXCEPT !.mark[e] = n]
  IN  IF n = 0 THEN HandleQueueMarkDefer(v, e, "mark") ELSE v

\* Mutant: those who wait are not told.
QueueRemoved_Silently(w, e) == [w EXCEPT !.queue[e] = <<>>, !.hooks[e] = 0]

QueueRemoved(w, e) ==
  HandleQueueMarkDefer([w EXCEPT !.queue[e] = <<>>, !.hooks[e] = 0], e, "queue")

\* An entry is queued, and run when none is.
Queued(w, e, entry) ==
  [w EXCEPT !.queue[e] = Append(@, entry), !.asked[e] = Append(@, entry)]

\* The next entry is taken, the sentinel in its place.
Taken(w, e, rest) == [w EXCEPT !.queue[e] = <<Sentinel>> \o Tail(rest), !.hooks[e] = 0]

\* jQuery.dequeue
DequeueStep ==
  /\ Running("dequeue")
  /\ LET e == Me.elem
         rest == IF InProgress(queue[e]) THEN Tail(queue[e]) ELSE queue[e]
         w == [Taken(Page, e, rest) EXCEPT !.begun[e] = Append(@, Head(rest).id)]
     IN  IF rest = <<>> THEN Goes(QueueRemoved(Page, e), <<>>)
         ELSE IF Head(rest).k = "delay"
              THEN Goes([w EXCEPT !.hooks[e] = Head(rest).id,
                                  !.sleeping = @ \cup {[id |-> Head(rest).id, elem |-> e]}], <<>>)
              ELSE Goes(w, <<Begin(e, Head(rest)), Dequeued(e)>>)

DequeueEnds ==
  /\ Running("dequeued")
  /\ Goes(IF queue[Me.elem] = <<>> THEN QueueRemoved(Page, Me.elem) ELSE Page, <<>>)

-----------------------------------------------------------------------------
(***************************************************************************)
(* An animation.                                                           *)
(***************************************************************************)
Finished(a) == a.done = a.props

\* step, at the end of its property; with the last one the animation is done,
\* what it has changed is put back and its callback is called, once.
Ended(w, id, p) ==
  LET e == w.anim[id].elem
      a == [w.anim[id] EXCEPT !.done = @ \cup {p}]
      l == [w.look[e] EXCEPT !.size[p] = a.end[p]]
      Was(v, f) == [q \in Prop |-> IF q \in a.props THEN v[q] ELSE f[q]]
      none == [q \in Prop |-> "undefined"]
      back == [shown |-> l.shown /\ \A q \in a.props : a.method[q] # "hide",
               size |-> Was(a.orig, l.size), fxshow |-> Was(none, l.fxshow),
               toggle |-> Was(none, l.toggle)]
  IN  IF Finished(a)
      THEN [w EXCEPT !.anim[id] = [a EXCEPT !.complete = FALSE], !.look[e] = back]
      ELSE [w EXCEPT !.anim[id] = a, !.look[e] = l]

\* The frames of the callback.
Calls(w, id, p) ==
  IF Finished([w.anim[id] EXCEPT !.done = @ \cup {p}]) /\ w.anim[id].complete
  THEN <<Complete(id)>> ELSE <<>>

\* doAnimation, up to its properties; toggle is noted for each property.
BeginStep ==
  /\ Running("begin")
  /\ LET e == Me.elem  c == Me.entry  l == look[e]
         idle == (c.val = "hide" /\ ~l.shown) \/ (c.val = "show" /\ l.shown)
         Method(p) == IF l.toggle[p] # "undefined" THEN l.toggle[p]
                      ELSE IF c.val = "toggle" THEN IF l.shown THEN "hide" ELSE "show"
                      ELSE c.val
         Noted(p) == p \in c.props /\ (l.toggle[p] # "undefined" \/ c.val = "toggle")
         Was(p) == IF l.fxshow[p] # "undefined" THEN l.fxshow[p] ELSE l.size[p]
         method == [p \in c.props |-> Method(p)]
         a == [elem |-> e, queued |-> c.queued, props |-> c.props, method |-> method,
               orig |-> [p \in c.props |-> Was(p)],
               start |-> [p \in c.props |->
                            IF method[p] = "show" /\ l.fxshow[p] = "undefined" THEN "none"
                            ELSE l.size[p]],
               end |-> [p \in c.props |-> IF method[p] = "hide" THEN "none" ELSE Was(p)],
               done |-> {}, due |-> c.instant, complete |-> ~idle]
         Steps(p) == IF p \notin c.props THEN <<>>
                     ELSE <<Custom(c.id, p)>> \o (IF method[p] = "show" THEN <<Show(e)>> ELSE <<>>)
         w == [Page EXCEPT !.anim = With(@, c.id, a)]
     IN  IF idle THEN Goes(w, <<Complete(c.id)>>)
         ELSE Goes([w EXCEPT !.look[e].toggle = [p \in Prop |->
                      IF Noted(p) THEN IF Method(p) = "show" THEN "hide" ELSE "show"
                      ELSE l.toggle[p]]],
                   Steps("height") \o Steps("opacity"))

\* custom: the first step of a property; without a duration it is the last.
CustomStep ==
  /\ Running("custom")
  /\ LET id == Me.anim  p == Me.prop  a == anim[id]
     IN  IF a.due THEN Goes(Ended(Page, id, p), Calls(Page, id, p))
         ELSE Goes([Page EXCEPT !.look[a.elem].size[p] = a.start[p],
                                !.timers = Append(@, [anim |-> id, prop |-> p]),
                                !.ticking = TRUE], <<>>)

ShowStep ==
  /\ Running("show")
  /\ Goes([Page EXCEPT !.look[Me.elem].shown = TRUE], <<>>)

\* opt.complete: the callback, then the next of the queue.
CompleteStep ==
  /\ Running("complete")
  /\ LET id == Me.anim IN
       Goes([Page EXCEPT !.called = With(@, id, IF id \in DOMAIN @ THEN @[id] + 1 ELSE 1)],
            <<User(anim[id].elem), Completed(id)>>)

CompleteEnds ==
  /\ Running("completed")
  /\ LET a == anim[Me.anim] IN
       IF a.queued THEN Goes(Page, <<Dequeue(a.elem)>>)
       ELSE Goes(Unmarked(Page, a.elem, FALSE), <<>>)

-----------------------------------------------------------------------------
(***************************************************************************)
(* jQuery.fx.tick: the animations of due have come to their end.           *)
(***************************************************************************)
Interval(due) ==
  /\ Idle /\ ticking
  /\ due \subseteq {timers[i].anim : i \in 1 .. Len(timers)}
  /\ Becomes([Page EXCEPT !.anim = [x \in DOMAIN anim |->
                [anim[x] EXCEPT !.due = @ \/ x \in due]]])
  /\ stack' = <<Tick(1)>>
  /\ UNCHANGED <<threw, count>>

TickStep ==
  /\ Running("tick")
  /\ IF Me.i > Len(timers)
     THEN Goes([Page EXCEPT !.ticking = timers # <<>>], <<>>)
     ELSE LET t == timers[Me.i]  a == anim[t.anim]
          IN  IF a.due THEN Goes(Ended(Page, t.anim, t.prop),
                                 Calls(Page, t.anim, t.prop) \o <<Ticked(Me.i, t)>>)
              ELSE Goes([Page EXCEPT !.look[a.elem].size[t.prop] =
                           IF a.start[t.prop] = a.end[t.prop] THEN @ ELSE "part"],
                        <<Tick(Me.i + 1)>>)

\* Mutant: what stands there is removed, whatever a callback has done.
StillThere_Unchecked(i, t) == i <= Len(timers)

StillThere(i, t) == i <= Len(timers) /\ timers[i] = t

\* A timer that is over is removed, when it still is at its place.
TickGoesOn ==
  /\ Running("ticked")
  /\ IF StillThere(Me.i, Me.timer)
     THEN Goes([Page EXCEPT !.timers = RemoveAt(@, Me.i)], <<Tick(Me.i)>>)
     ELSE Goes(Page, <<Tick(Me.i + 1)>>)

-----------------------------------------------------------------------------
(***************************************************************************)
(* stop.                                                                   *)
(***************************************************************************)
\* Mutant: nothing is noted of a hide that is stopped.
SaveState_Never(w, t) == w

\* What a hide has begun from is noted, for the next show.
SaveState(w, t) ==
  LET a == w.anim[t.anim]  old == w.look[a.elem].fxshow[t.prop]
      hides == \E p \in a.props : a.method[p] = "hide"
  IN  IF hides /\ old = "undefined"
      THEN [w EXCEPT !.look[a.elem].fxshow[t.prop] = a.start[t.prop]]
      ELSE IF old = "undefined" THEN [w EXCEPT !.cut = @ \cup {a.elem}] ELSE w

\* Up to the loop over the timers: the queue is cleared, the marks, the delay.
StopBegins(w, e, clear, gotoEnd) ==
  LET v == IF clear THEN QueueRemoved(w, e) ELSE w
      u == IF gotoEnd THEN v ELSE Unmarked(v, e, TRUE)
      moves == \E i \in 1 .. Len(w.timers) : w.anim[w.timers[i].anim].elem = e
  IN  IF u.hooks[e] = 0 THEN u
      ELSE [u EXCEPT !.sleeping = {s \in @ : s.id # u.hooks[e]}, !.hooks[e] = 0,
                     !.stuck = IF gotoEnd /\ moves THEN @ \cup {e} ELSE @]

StopStep ==
  /\ Running("stop") /\ Me.i <= Len(timers)
  /\ LET e == Me.elem  i == Me.i
         t == timers[i]
     IN  IF i = 0
         THEN Goes(Page, IF Me.gotoEnd /\ Me.had THEN <<>> ELSE <<Dequeue(e)>>)
         ELSE IF anim[t.anim].elem # e
         THEN Goes(Page, <<Stop(e, Me.gotoEnd, i - 1, Me.had)>>)
         ELSE IF Me.gotoEnd
         THEN Goes(Ended(Page, t.anim, t.prop), Calls(Page, t.anim, t.prop) \o <<Stopped(e, i)>>)
         ELSE Goes([SaveState(Page, t) EXCEPT !.timers = RemoveAt(@, i)],
                   <<Stop(e, FALSE, i - 1, TRUE)>>)

\* What stands at the place is removed, if anything does: a callback that stops
\* others may have moved the timers.
StopGoesOn ==
  /\ Running("stopped")
  /\ LET i == Me.i  t == timers[i]
     IN  Goes(IF i > Len(timers) THEN Page
              ELSE [Page EXCEPT !.timers = RemoveAt(@, i),
                                !.lost = IF t.prop \in anim[t.anim].done THEN @
                                         ELSE @ \cup {anim[t.anim].elem}],
              <<Stop(Me.elem, TRUE, i - 1, TRUE)>>)

\* No function goes on after an exception.
Breaks == threw' = TRUE /\ stack' = <<>> /\ Becomes(Page) /\ UNCHANGED count

\* The loop comes to a place where there is no timer any more.
StopFails == Running("stop") /\ Me.i > Len(timers) /\ Breaks

-----------------------------------------------------------------------------
(***************************************************************************)
(* What the page does, and a callback of its.                              *)
(***************************************************************************)
May(op) ==
  /\ \/ Idle /\ op \in world.ops
     \/ Running("user") /\ op \in world.inside
  /\ count < world.calls /\ count' = count + 1 /\ UNCHANGED threw

\* The page becomes w, and the frames f run.
Does(w, f) == Becomes(w) /\ stack' = f \o stack

Entry(c) == [k |-> "anim", id |-> count + 1, val |-> c.val, props |-> c.props,
             queued |-> c.queued, instant |-> c.instant]

Starts(e) == IF InProgress(queue[e]) THEN <<>> ELSE <<Dequeue(e)>>

Animate(e, c) ==
  /\ May("animate")
  /\ IF c.queued THEN Does(Queued(Page, e, Entry(c)), Starts(e))
     ELSE Does([Page EXCEPT !.mark[e] = @ + 1], <<Begin(e, Entry(c))>>)

Delay(e) ==
  /\ May("delay")
  /\ Does(Queued(Page, e, [k |-> "delay", id |-> count + 1]), Starts(e))

\* A callback of e is under way; a stop to the end is.
InCallbackOf(e) == \E i \in 1 .. Len(stack) : stack[i].k = "user" /\ stack[i].elem = e
Finishing == \E i \in 1 .. Len(stack) : stack[i].k = "stopped"

StopNow(e, clear, gotoEnd) ==
  /\ May(IF gotoEnd THEN "finish" ELSE "stop") /\ (clear => "clear" \in world.ops)
  /\ Does(StopBegins(Page, e, clear, gotoEnd), <<Stop(e, gotoEnd, Len(timers), FALSE)>>)
  /\ own' = (IF InCallbackOf(e) THEN own \cup {e} ELSE own)
  /\ within' = (within \/ Finishing)

ClearQueue(e) == May("clear") /\ Does(QueueRemoved(Page, e), <<>>)

ShowOrHideNow(e, shown) ==
  May("now") /\ Does([Page EXCEPT !.look[e].shown = shown], <<>>)

ToggleNow(e) == ShowOrHideNow(e, ~look[e].shown)

\* promise, of the elements s.
Promise(s) ==
  LET me == count + 1
      of == {e \in s : defer[e] # 0 \/ queue[e] # <<>> \/ mark[e] # 0}
      w == [Page EXCEPT !.defer = [e \in Element |->
              IF e \in of /\ @[e] = 0 THEN me ELSE @[e]]]
  IN  /\ May("promise") /\ s # {}
      /\ Does([w EXCEPT !.waits = With(@, me, {[elem |-> e, defer |-> w.defer[e]] : e \in of})],
              <<>>)

Returns == Running("user") /\ Goes(Page, <<>>)

Throws == Running("user") /\ "throw" \in world.inside /\ Breaks

(***************************************************************************)
(* The timeouts of the browser.                                            *)
(***************************************************************************)
Wakes(d) ==
  /\ Idle /\ d \in sleeping
  /\ Becomes([Page EXCEPT !.sleeping = @ \ {d}])
  /\ stack' = <<Dequeue(d.elem)>> /\ UNCHANGED <<threw, count>>

\* Those who wait are told, unless something else was queued or marked.  The list
\* that is taken from the element may be a later one than that which is told.
Check ==
  /\ Idle /\ checks # <<>>
  /\ LET c == Head(checks)
         w == [Page EXCEPT !.checks = Tail(@)]
         later == {[elem |-> c.elem, defer |-> defer[c.elem]]} \ {c}
     IN  Becomes(IF queue[c.elem] = <<>> /\ mark[c.elem] = 0
                 THEN [w EXCEPT !.defer[c.elem] = 0, !.missed = @ \cup later,
                                !.waits = [p \in DOMAIN @ |-> @[p] \ {c}]]
                 ELSE w)
  /\ UNCHANGED <<threw, count, stack>>

Call ==
  \/ \E e \in Element :
       \/ \E c \in world.choices : Animate(e, c)
       \/ Delay(e) \/ ClearQueue(e)
       \/ \E shown \in BOOLEAN : ShowOrHideNow(e, shown)
       \/ ToggleNow(e)
  \/ \E s \in SUBSET Element : Promise(s)

JQuery ==
  \/ DequeueStep \/ DequeueEnds \/ BeginStep \/ CustomStep \/ ShowStep
  \/ CompleteStep \/ CompleteEnds \/ TickStep \/ TickGoesOn \/ StopStep \/ StopGoesOn

NoStop ==
  \/ Call \/ Returns \/ Throws \/ JQuery \/ StopFails
  \/ \E due \in SUBSET DOMAIN anim : Interval(due)
  \/ \E d \in sleeping : Wakes(d)
  \/ Check

Next ==
  \/ NoStop /\ UNCHANGED <<own, within>>
  \/ \E e \in Element, clear, gotoEnd \in BOOLEAN : StopNow(e, clear, gotoEnd)

Spec == Init /\ [][Next]_vars

-----------------------------------------------------------------------------
Clears == "clear" \in world.ops

\* The entry of e that runs: an animation with timers, or a delay.  A timer that is
\* over may be left, where a callback stops another element; it is stepped once more.
Runs(e) ==
  {timers[i].anim : i \in {j \in 1 .. Len(timers) :
     LET a == anim[timers[j].anim] IN a.elem = e /\ a.queued /\ ~Finished(a)}}
  \cup {d.id : d \in {s \in sleeping : s.elem = e}}

\* As below, but that the queues of left stand still and those of twice run twice.
TurnsBut(left, twice) ==
  ~Clears =>
    /\ \A e \in Element :
         /\ begun[e] = [i \in 1 .. Len(begun[e]) |-> asked[e][i].id]
         /\ Idle /\ ~threw /\ e \notin left =>
              /\ queue[e] # <<>> => Runs(e) # {}
              /\ e \notin twice =>
                   Runs(e) = IF queue[e] = <<>> THEN {} ELSE {begun[e][Len(begun[e])]}
    /\ timers # <<>> => ticking

\* The entries of a queue begin in the order in which they were queued, each
\* once; when the thread is idle one of them runs, the last that has begun, as
\* long as there is the queue, and the interval is set for every timer.  A queue
\* that is cleared while it runs loses its sentinel, and one whose callback throws
\* is not taken on.  Of the other queues, those of two sorts of elements do stand
\* still: whose delay was stopped with an animation beside the queue brought to its
\* end (stuck), and whose timer a stop to the end removed in place of another,
\* which its callbacks had moved (lost).  Those of elements that were stopped
\* within a callback of theirs (own) do not, but have entries that run at once,
\* as both the stop and the callback take on the queue.
InTurn == TurnsBut(stuck \cup lost, own)

\* The callback of an animation is called once at most, also when it throws
\* and when stop and the interval both come to its end.
CompleteOnce == \A a \in DOMAIN called : called[a] = 1

\* As below, but for the elements of left.
MarksBut(left) ==
  Idle /\ ~threw =>
    \A e \in Element \ left :
      mark[e] = Cardinality({a \in DOMAIN anim :
        /\ anim[a].elem = e /\ ~anim[a].queued /\ ~Finished(anim[a])
        /\ \E i \in 1 .. Len(timers) : timers[i].anim = a})

\* The marks of an element are its animations beside the queue, when the
\* thread is idle; but of one that lost a timer or that was stopped within a
\* callback of its, which takes a mark that stop has taken already.
MarksMatch == MarksBut(lost \cup own)

\* An element whose queue has come to its end is shown or hidden as its last
\* show, hide or toggle says.
AsAsked(e) ==
  FoldLeft(LAMBDA s, c : IF c.k = "delay" THEN s
                         ELSE CASE c.val = "show" -> TRUE [] c.val = "hide" -> FALSE
                                [] OTHER -> ~s,
           e \notin world.hidden, asked[e])

LastWins ==
  /\ Idle /\ ~threw /\ world.ops \cap {"stop", "clear", "now"} = {}
  /\ \A c \in world.choices : c.queued /\ ~c.instant
  => \A e \in Element : queue[e] = <<>> => look[e].shown = AsAsked(e)

\* An animation leaves the properties that it has changed as they were before
\* the first of those that it goes on from, also when some of them were stopped
\* on their way.  Two sorts of elements do keep a part of their size: where a show
\* that began from nothing was stopped, which is not noted (cut), and which were
\* stopped within a callback of theirs, when the size that is noted is that of the
\* animation that is over (own).
LeftFull ==
  /\ Running("complete") /\ anim[Me.anim].done # {}
  /\ ~Clears /\ (\A c \in world.choices : c.queued)
  =>
    LET a == anim[Me.anim] IN
      a.elem \in cut \cup own \/ \A p \in a.props : look[a.elem].size[p] = "full"

AtRest == Idle /\ ~threw /\ timers = <<>> /\ sleeping = {} /\ checks = <<>>

\* As below, but for the elements of left.
KeptBut(left) == AtRest => \A p \in DOMAIN waits : \A x \in waits[p] : x.elem \in left \/ x \in missed

\* A promise is kept: when no timer and no timeout is left, nobody waits, unless a
\* callback has thrown; whether the queue or the animations beside it end last,
\* and also when callbacks stop their own elements.  Three sorts of promises are
\* not, against the comments on promise and stop (require-jquery.js, 4069 and
\* 10475): those whose queue stands still after a stop, those that wait for an
\* animation whose timer a stop to the end removed in place of another, and those
\* whose list the timeout of an earlier promise has taken away.
PromiseKept == KeptBut(stuck \cup lost)

(***************************************************************************)
(* The queue of an element is worked off one entry after the other, each   *)
(* told of once, and its marks are what is still to be waited for, but for *)
(* the stops from within callbacks that the parts name.                    *)
(***************************************************************************)
QueueRuns == InTurn /\ CompleteOnce /\ MarksMatch

(***************************************************************************)
(* An element ends as the last call asked, with the size it had in full.   *)
(***************************************************************************)
LooksAsAsked == LastWins /\ LeftFull
=============================================================================
