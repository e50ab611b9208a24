----------------------------- MODULE JQueryAjax -----------------------------
(***************************************************************************)
(* The calls of the server by the pages of the Dog House: jQuery.ajax with *)
(* the transport by XMLHttpRequest, on the lists of jQuery.Callbacks and   *)
(* the states of jQuery.Deferred (jQuery 1.7.1, in require-jquery.js).     *)
(*                                                                         *)
(* The page has one thread, but its handlers are called in the midst of    *)
(* these functions and may call them again.  So the thread has a stack of  *)
(* frames, a step is a step of the frame on top, and the events of the     *)
(* browser come when the stack is empty.  What a handler does is left open:*)
(* it asks for something else, adds a handler, aborts a request, throws.   *)
(*                                                                         *)
(* Left out, as no page uses them: progress, pipe and when, ifModified,    *)
(* scripts of other domains, the flags unique and stopOnFalse.             *)
(***************************************************************************)
EXTENDS Naturals, Integers, Sequences, FiniteSets

CONSTANTS
  Request,
  Options,    \* what a request may be asked for with
  Hooks,      \* the handlers that may call back: beforeSend, the ajax events
  MaxCalls    \* the calls that handlers make, at most (bound)

\* cross: another domain, in a browser that has no transport for it.
Option == [how : {"async", "sync", "cross"}, timeout : BOOLEAN,
           global : BOOLEAN, statusCode : BOOLEAN]

Hook == {"beforeSend", "ajaxStart", "ajaxSend", "ajaxSuccess", "ajaxError",
         "ajaxComplete", "ajaxStop"}

ASSUME AjaxAssumption ==
  /\ Request # {} /\ Options \subseteq Option /\ Hooks \subseteq Hook
  /\ MaxCalls \in Nat

ListName == {"done", "fail", "complete"}
Outcome == {"success", "parsererror", "error"}

VARIABLES
  option,    \* of each request
  state,     \* of each request: -1 (not asked), 0 (being made), 1 (sent), 2 (done)
  settled,   \* the state of its Deferred
  counted,   \* fireGlobals
  transport, \* the request has a transport
  xhr,       \* the listener of the transport: none, waiting
  timer,     \* the timeout is set
  callbacks, \* the lists of each request
  statusCode,\* the handler by status is still to be added
  stack,     \* the frames of the thread, the running one first
  active,    \* jQuery.active
  added,     \* the number of handlers that were made
  asked,     \* the handlers that were added, by request and list
  called,    \* the handlers that were called, by request and list
  dones,     \* how often done has gone on for each request
  calls,     \* the calls by handlers so far
  threw      \* a handler has thrown

vars == <<option, state, settled, counted, transport, xhr, timer, callbacks,
          statusCode, stack, active, added, asked, called, dones, calls,
          threw>>

\* The variables of a request but for its lists.
requestVars == <<option, state, settled, counted, transport, xhr, timer,
                 statusCode, dones>>

(***************************************************************************)
(* jQuery.Callbacks( "once memory" ).  The entry 0 of done and fail stands *)
(* for the handlers that jQuery.Deferred adds when it is made.             *)
(***************************************************************************)
NewCallbacks(list) ==
  [on |-> TRUE, list |-> list, memory |-> FALSE, firing |-> FALSE,
   start |-> 0, length |-> 0, index |-> 0]

NewLists == [l \in ListName |-> NewCallbacks(IF l = "complete" THEN <<>> ELSE <<0>>)]

\* fire, up to its loop.
Fired(cb) ==
  [cb EXCEPT !.memory = TRUE, !.firing = TRUE, !.index = cb.start,
             !.start = 0, !.length = Len(cb.list)]

\* fireWith
Fires(cb) == cb.on /\ ~cb.firing /\ ~cb.memory

Disabled(cb) == [cb EXCEPT !.on = FALSE, !.list = <<>>, !.memory = FALSE]

\* The loop is over.
FireEnds(cb) ==
  LET c == [cb EXCEPT !.firing = FALSE]
  IN  IF c.on THEN [c EXCEPT !.list = <<>>] ELSE c

\* Mutant: what is added during a fire waits for the next one.
Added_Later(cb, h) ==
  IF ~cb.on THEN cb
  ELSE LET c == [cb EXCEPT !.list = Append(@, h)]
       IN  IF c.firing THEN c
           ELSE IF c.memory THEN Fired([c EXCEPT !.start = Len(cb.list)]) ELSE c

\* Mutant: a list that is firing is fired anew for what is added.
Added_Nested(cb, h) ==
  IF ~cb.on THEN cb
  ELSE LET c == [cb EXCEPT !.list = Append(@, h)]
       IN  IF c.memory THEN Fired([c EXCEPT !.start = Len(cb.list)]) ELSE c

\* add; a list that has fired is fired again for what is new.
Added(cb, h) ==
  IF ~cb.on THEN cb
  ELSE LET c == [cb EXCEPT !.list = Append(@, h)]
       IN  IF c.firing THEN [c EXCEPT !.length = Len(c.list)]
           ELSE IF c.memory THEN Fired([c EXCEPT !.start = Len(cb.list)]) ELSE c

Refires(cb) == cb.on /\ ~cb.firing /\ cb.memory

-----------------------------------------------------------------------------
User(why, r) == [k |-> "user", why |-> why, req |-> r]
Fire(r, l) == [k |-> "fire", req |-> r, list |-> l]
Send(r, at) == [k |-> "send", req |-> r, at |-> at]
Done(r, at, ok) == [k |-> "done", req |-> r, at |-> at, ok |-> ok]

\* The handlers of a hook, when there are any.
Calls(why, r) == IF why \in Hooks THEN <<User(why, r)>> ELSE <<>>

Init ==
  /\ option \in [Request -> Options]
  /\ state = [r \in Request |-> -1]
  /\ settled = [r \in Request |-> "pending"]
  /\ counted = [r \in Request |-> FALSE] /\ transport = counted /\ timer = counted
  /\ xhr = [r \in Request |-> "none"]
  /\ callbacks = [r \in Request |-> NewLists]
  /\ statusCode = [r \in Request |-> option[r].statusCode]
  /\ stack = <<>> /\ active = 0 /\ added = 0
  /\ called = [r \in Request |-> [l \in ListName |-> <<>>]] /\ asked = called
  /\ dones = [r \in Request |-> 0]
  /\ calls = 0 /\ threw = FALSE

\* The running frame goes on as the frames f.
Goes(f) == stack' = f \o Tail(stack)

(***************************************************************************)
(* done of a request: its first steps, up to the handlers.                 *)
(***************************************************************************)
\* Mutant: an answer after an abort, or an abort after an answer, counts.
DoneCalled_Again(r) == TRUE

DoneCalled(r) == state[r] # 2

\* frames is what the running frame becomes.
CallsDone(r, ok, frames) ==
  IF DoneCalled(r)
  THEN /\ state' = [state EXCEPT ![r] = 2]
       /\ timer' = [timer EXCEPT ![r] = FALSE]
       /\ transport' = [transport EXCEPT ![r] = FALSE]
       /\ dones' = [dones EXCEPT ![r] = @ + 1]
       /\ stack' = <<Done(r, "settle", ok)>> \o frames
  ELSE stack' = frames /\ UNCHANGED <<state, timer, transport, dones>>

\* jqXHR.abort: the listener of the transport is taken away.
Aborts(r, frames) ==
  /\ xhr' = [xhr EXCEPT ![r] = IF transport[r] THEN "none" ELSE @]
  /\ CallsDone(r, FALSE, frames)
  /\ UNCHANGED <<option, settled, counted, callbacks, statusCode, active, added, asked,
                 called>>

-----------------------------------------------------------------------------
(***************************************************************************)
(* A frame of a handler, or of the page itself.                            *)
(***************************************************************************)
Running(k) == stack # <<>> /\ Head(stack).k = k
Me == Head(stack)

MayCall == Running("user") /\ calls < MaxCalls /\ calls' = calls + 1 /\ UNCHANGED threw

Made(r) == state[r] # -1

Asks(r) ==
  /\ MayCall /\ ~Made(r)
  /\ state' = [state EXCEPT ![r] = 0]
  /\ stack' = <<Send(r, "start")>> \o stack
  /\ UNCHANGED <<option, settled, counted, transport, xhr, timer, callbacks,
                 statusCode, active, added, asked, called, dones>>

AddsHandler(r, l) ==
  /\ MayCall /\ Made(r)
  /\ added' = added + 1
  /\ asked' = [asked EXCEPT ![r][l] = Append(@, added + 1)]
  /\ callbacks' = [callbacks EXCEPT ![r][l] = Added(@, added + 1)]
  /\ stack' = (IF Refires(callbacks[r][l]) THEN <<Fire(r, l)>> ELSE <<>>) \o stack
  /\ UNCHANGED <<requestVars, active, called>>

CallsAbort(r) == MayCall /\ Made(r) /\ Aborts(r, stack)

Returns ==
  /\ Running("user")
  /\ Goes(<<>>)
  /\ UNCHANGED <<requestVars, callbacks, active, added, asked, called, calls, threw>>

\* beforeSend returns false.
ReturnsFalse ==
  /\ Running("user") /\ Me.why = "beforeSend"
  /\ Aborts(Me.req, Tail(stack))
  /\ UNCHANGED <<calls, threw>>

\* No function of jQuery goes on after it.
Throws ==
  /\ Running("user") /\ calls < MaxCalls /\ calls' = calls + 1
  /\ stack' = <<>> /\ threw' = TRUE
  /\ UNCHANGED <<requestVars, callbacks, active, added, asked, called>>

-----------------------------------------------------------------------------
(***************************************************************************)
(* The loop of fire.                                                       *)
(***************************************************************************)
FireStep ==
  /\ Running("fire")
  /\ LET r == Me.req  l == Me.list  cb == callbacks[r][l]
         other == IF l = "done" THEN "fail" ELSE "done"
     IN  IF ~cb.on \/ cb.index >= cb.length
         THEN /\ callbacks' = [callbacks EXCEPT ![r][l] = FireEnds(cb)]
              /\ Goes(<<>>)
              /\ UNCHANGED <<settled, called>>
         ELSE LET h == cb.list[cb.index + 1]
                  on == [callbacks EXCEPT ![r][l].index = @ + 1]
              IN  IF h = 0
                  THEN /\ settled' = [settled EXCEPT ![r] = l]
                       /\ callbacks' = [on EXCEPT ![r][other] = Disabled(@)]
                       /\ UNCHANGED <<called, stack>>
                  ELSE /\ callbacks' = on
                       /\ called' = [called EXCEPT ![r][l] = Append(@, h)]
                       /\ stack' = <<User("handler", r)>> \o stack
                       /\ UNCHANGED settled
  /\ UNCHANGED <<option, state, counted, transport, xhr, timer, statusCode,
                 active, added, asked, dones, calls, threw>>

(***************************************************************************)
(* jQuery.ajax.                                                            *)
(***************************************************************************)
SendStarts ==
  /\ Running("send") /\ Me.at = "start"
  /\ LET r == Me.req IN
       /\ counted' = [counted EXCEPT ![r] = option[r].global]
       /\ active' = IF option[r].global THEN active + 1 ELSE active
       /\ Goes((IF option[r].global /\ active = 0 THEN Calls("ajaxStart", r) ELSE <<>>)
               \o Calls("beforeSend", r) \o <<Send(r, "install")>>)
  /\ UNCHANGED <<option, state, settled, transport, xhr, timer, callbacks,
                 statusCode, added, asked, called, dones, calls, threw>>

\* The three handlers of the options; a request that was aborted is left.
SendInstalls ==
  /\ Running("send") /\ Me.at = "install"
  /\ LET r == Me.req IN
       IF state[r] = 2
       THEN /\ Goes(<<>>)
            /\ UNCHANGED <<state, transport, timer, dones, callbacks, added, asked>>
       ELSE /\ added' = added + 3
            /\ asked' = [asked EXCEPT
                 ![r].done = Append(@, added + 1), ![r].fail = Append(@, added + 2),
                 ![r].complete = Append(@, added + 3)]
            /\ callbacks' = [callbacks EXCEPT
                 ![r].done = Added(@, added + 1), ![r].fail = Added(@, added + 2),
                 ![r].complete = Added(@, added + 3)]
            /\ IF option[r].how = "cross"
               THEN CallsDone(r, FALSE, Tail(stack))
               ELSE /\ transport' = [transport EXCEPT ![r] = TRUE]
                    /\ Goes((IF counted[r] THEN Calls("ajaxSend", r) ELSE <<>>)
                            \o <<Send(r, "send")>>)
                    /\ UNCHANGED <<state, timer, dones>>
  /\ UNCHANGED <<option, settled, counted, xhr, statusCode, active, called, calls,
                 threw>>

\* transport.send; without a transport it throws, and so it may by itself.
SendSends ==
  /\ Running("send") /\ Me.at = "send"
  /\ LET r == Me.req
         timed == [timer EXCEPT ![r] = option[r].how = "async" /\ option[r].timeout]
     IN  \/ /\ transport[r] /\ option[r].how = "async"
            /\ state' = [state EXCEPT ![r] = 1]
            /\ timer' = timed
            /\ xhr' = [xhr EXCEPT ![r] = "waiting"]
            /\ Goes(<<>>) /\ UNCHANGED <<transport, dones>>
         \/ \E ok \in IF transport[r] /\ option[r].how = "sync" THEN BOOLEAN ELSE {FALSE} :
              /\ state' = [state EXCEPT ![r] = 2]
              /\ timer' = [timed EXCEPT ![r] = FALSE]
              /\ transport' = [transport EXCEPT ![r] = FALSE]
              /\ dones' = [dones EXCEPT ![r] = @ + 1]
              /\ Goes(<<Done(r, "settle", ok)>>) /\ UNCHANGED xhr
  /\ UNCHANGED <<option, settled, counted, callbacks, statusCode, active, added, asked,
                 called, calls, threw>>

(***************************************************************************)
(* done: the list of the outcome, the handler by status, the events and    *)
(* the list of the end.                                                    *)
(***************************************************************************)
\* fireWith on a list of the request, and what comes after it.
FiresList(r, l, next) ==
  IF Fires(callbacks[r][l])
  THEN /\ callbacks' = [callbacks EXCEPT ![r][l] = Fired(@)]
       /\ Goes(<<Fire(r, l)>> \o next)
  ELSE Goes(next) /\ UNCHANGED callbacks

DoneSettles ==
  /\ Running("done") /\ Me.at = "settle"
  /\ FiresList(Me.req, IF Me.ok THEN "done" ELSE "fail",
               <<Done(Me.req, "status", Me.ok)>>)
  /\ UNCHANGED <<requestVars, active, added, asked, called, calls, threw>>

\* jqXHR.then( handler, handler )
DoneStatus ==
  /\ Running("done") /\ Me.at = "status"
  /\ LET r == Me.req
         next == Calls(IF Me.ok THEN "ajaxSuccess" ELSE "ajaxError", r)
         lists == callbacks[r]
         again == {l \in {"done", "fail"} : Refires(lists[l])}
     IN  /\ statusCode' = [statusCode EXCEPT ![r] = FALSE]
         /\ IF statusCode[r]
            THEN /\ added' = added + 1
                 /\ asked' = [asked EXCEPT ![r].done = Append(@, added + 1),
                                           ![r].fail = Append(@, added + 1)]
                 /\ callbacks' = [callbacks EXCEPT ![r].done = Added(@, added + 1),
                                                   ![r].fail = Added(@, added + 1)]
            ELSE UNCHANGED <<added, asked, callbacks>>
         /\ Goes((IF statusCode[r] /\ again # {}
                  THEN <<Fire(r, CHOOSE l \in again : TRUE)>> ELSE <<>>)
                 \o (IF counted[r] THEN next ELSE <<>>)
                 \o <<Done(r, "complete", Me.ok)>>)
  /\ UNCHANGED <<option, state, settled, counted, transport, xhr, timer, dones,
                 active, called, calls, threw>>

DoneCompletes ==
  /\ Running("done") /\ Me.at = "complete"
  /\ FiresList(Me.req, "complete",
               (IF counted[Me.req] THEN Calls("ajaxComplete", Me.req) ELSE <<>>)
               \o <<Done(Me.req, "count", Me.ok)>>)
  /\ UNCHANGED <<requestVars, active, added, asked, called, calls, threw>>

Uncounted(r, ok) == active - (IF counted[r] THEN 1 ELSE 0)

DoneCounts ==
  /\ Running("done") /\ Me.at = "count"
  /\ active' = Uncounted(Me.req, Me.ok)
  /\ Goes(IF counted[Me.req] /\ active' = 0 THEN Calls("ajaxStop", Me.req) ELSE <<>>)
  /\ UNCHANGED <<requestVars, callbacks, added, asked, called, calls, threw>>

-----------------------------------------------------------------------------
(***************************************************************************)
(* The events of the browser.                                              *)
(***************************************************************************)
Idle == stack = <<>>

PageRuns ==
  /\ Idle /\ calls < MaxCalls
  /\ stack' = <<User("page", CHOOSE r \in Request : TRUE)>>
  /\ UNCHANGED <<requestVars, callbacks, active, added, asked, called, calls, threw>>

\* The listener is called once.
Answer(r) ==
  /\ Idle /\ xhr[r] = "waiting"
  /\ xhr' = [xhr EXCEPT ![r] = "none"]
  /\ \E ok \in BOOLEAN : CallsDone(r, ok, <<>>)
  /\ UNCHANGED <<option, settled, counted, callbacks, statusCode, active, added, asked,
                 called, calls, threw>>

TimesOut(r) ==
  /\ Idle /\ timer[r]
  /\ Aborts(r, <<>>)
  /\ UNCHANGED <<calls, threw>>

Handler ==
  \/ \E r \in Request : Asks(r) \/ CallsAbort(r)
  \/ \E r \in Request, l \in ListName : AddsHandler(r, l)
  \/ Returns \/ ReturnsFalse \/ Throws

JQuery ==
  \/ FireStep \/ SendStarts \/ SendInstalls \/ SendSends
  \/ DoneSettles \/ DoneStatus \/ DoneCompletes \/ DoneCounts

Next == Handler \/ JQuery \/ PageRuns \/ \E r \in Request : Answer(r) \/ TimesOut(r)

Spec == Init /\ [][Next]_vars

(***************************************************************************)
(* The thread goes on, and the loop of the browser comes to each timer,    *)
(* whatever else the page runs; the server may never answer.               *)
(***************************************************************************)
FairSpec ==
  /\ Spec /\ WF_vars(Handler \/ JQuery)
  /\ \A r \in Request : SF_vars(TimesOut(r))

-----------------------------------------------------------------------------
Callbacks ==
  [on : BOOLEAN, list : Seq(Nat), memory : BOOLEAN, firing : BOOLEAN,
   start : Nat, length : Nat, index : Nat]

\* The state has its types; the count of requests that are under way, which
\* is counted up when one is sent and down when it is done, never is negative.
TypeOK ==
  /\ option \in [Request -> Options]
  /\ state \in [Request -> -1 .. 2]
  /\ settled \in [Request -> {"pending", "done", "fail"}]
  /\ {counted, transport, timer, statusCode} \subseteq [Request -> BOOLEAN]
  /\ xhr \in [Request -> {"none", "waiting"}]
  /\ callbacks \in [Request -> [ListName -> Callbacks]]
  /\ {asked, called} \subseteq [Request -> [ListName -> Seq(Nat)]]
  /\ active \in Nat /\ added \in Nat /\ calls \in 0 .. MaxCalls
  /\ dones \in [Request -> Nat] /\ threw \in BOOLEAN

\* The handlers of a request are called in the order in which they were
\* added, none of them twice, however they add one another, abort requests or
\* throw: what has been called of a list is the beginning of it.
CalledInOrder ==
  \A r \in Request, l \in ListName :
    called[r][l] = SubSeq(asked[r][l], 1, Len(called[r][l]))

\* A request ends once: an abort, a timeout and an answer, in any order, take
\* the steps of its end one time, and what is called is of one outcome.
EndsOnce ==
  \A r \in Request :
    /\ dones[r] <= 1
    /\ called[r].done = <<>> \/ called[r].fail = <<>>

\* When the thread is idle and no handler has thrown, a request that is done
\* has called every handler of its outcome and of its end, those added while
\* they were called and those added later included, and it is not in the
\* count, which the events ajaxStart and ajaxStop are made from.
NoneForgotten ==
  Idle /\ ~threw =>
    /\ active = Cardinality({r \in Request : counted[r] /\ state[r] # 2})
    /\ \A r \in Request : state[r] = 2 =>
         /\ settled[r] # "pending"
         /\ called[r][settled[r]] = asked[r][settled[r]]
         /\ called[r].complete = asked[r].complete

\* A request with a timeout comes to its end and its handlers are called,
\* whether the server answers or not.
TimeoutEnds ==
  \A r \in Request :
    timer[r] ~> /\ state[r] = 2
                /\ threw \/ called[r].complete = asked[r].complete

(***************************************************************************)
(* Every request has one end, and its end is told to all who asked for it  *)
(* (done, and the Deferred and the _Deferred of the request).              *)
(***************************************************************************)
OneEnd == TypeOK /\ EndsOnce /\ NoneForgotten
=============================================================================
