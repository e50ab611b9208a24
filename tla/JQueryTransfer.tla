--------------------------- MODULE JQueryTransfer ---------------------------
(***************************************************************************)
(* What an AJAX call of the pages goes through between the page and the    *)
(* wire (jQuery 1.7.1, in require-jquery.js): the prefilters, the two      *)
(* transports, XMLHttpRequest and the script element, the choice of a type *)
(* for the answer and its conversions, the callbacks of JSONP in the       *)
(* window, If-Modified-Since, and those who wait for several calls or for  *)
(* one after the other (jQuery.when, pipe).                                *)
(*                                                                         *)
(* Every action is one event of the browser.  What handlers do in the      *)
(* midst of one is in JQueryAjax; so are events, timeouts and headers.     *)
(*                                                                         *)
(* The conditional calls are for one resource, which does not change.      *)
(***************************************************************************)
EXTENDS Naturals, SequencesExt

CONSTANTS
  Request,
  Options,    \* what a call may ask for
  Answers,    \* what the server may answer
  Cors        \* XMLHttpRequest may cross domains

Type == {"xml", "html", "json", "script", "text"}

\* ask is the dataType; a JSONP call names its callback, or has one of its own.
Option == [ask : Seq(Type \cup {"*"}), jsonp : BOOLEAN, shared : BOOLEAN,
           cross : BOOLEAN, conditional : BOOLEAN]

\* The status, the type that the header names, and what the body is; a script
\* may call the callback of its call.
Answer == [status : {"ok", "notModified", "error"}, contentType : Type,
           body : Type, calls : BOOLEAN]

ASSUME TransferAssumption ==
  /\ \A o \in Options : /\ o \in Option /\ o.ask # <<>>
                        /\ o.jsonp => o.ask = <<"json">>
                        /\ o.shared => o.jsonp
  /\ Answers \subseteq Answer
  /\ Cors \in BOOLEAN

VARIABLES
  option,     \* of each call, before its prefilters
  state,      \* of each call: new, reserved for a pipe, sent, done
  dataTypes,
  window,     \* what is under the names of callbacks: nothing, a function of
              \* the page, that of a call
  previous,   \* what was there before
  container,  \* the call whose answer the callback of a call was called with
  head,       \* the calls whose script element is in the document
  script,     \* of each call: none, fetching, ran
  xhr,        \* the calls that XMLHttpRequest has
  known,      \* jQuery.lastModified has the resource
  conditions, \* the calls that were sent with the header
  outcome,    \* of each call
  when,       \* the one call of jQuery.when
  pipe,       \* of each call, the one that follows and what became of both
  told,       \* the answers that the function of the page was called with
  mixed       \* the calls that shared their callback with one under way

vars == <<option, state, dataTypes, window, previous, container, head, script, xhr,
          known, conditions, outcome, when, pipe, told, mixed>>

Page == [option |-> option, state |-> state, dataTypes |-> dataTypes, window |-> window,
         previous |-> previous, container |-> container, head |-> head, script |-> script,
         xhr |-> xhr, known |-> known, conditions |-> conditions, outcome |-> outcome,
         when |-> when, pipe |-> pipe, told |-> told, mixed |-> mixed]

Becomes(w) ==
  /\ option' = w.option /\ state' = w.state /\ dataTypes' = w.dataTypes
  /\ window' = w.window /\ previous' = w.previous /\ container' = w.container
  /\ head' = w.head /\ script' = w.script /\ xhr' = w.xhr /\ known' = w.known
  /\ conditions' = w.conditions /\ outcome' = w.outcome /\ when' = w.when
  /\ pipe' = w.pipe /\ told' = w.told /\ mixed' = w.mixed

Plain == [ask |-> <<"*">>, jsonp |-> FALSE, shared |-> FALSE, cross |-> FALSE,
          conditional |-> FALSE]
Pending == [status |-> "pending", of |-> "none", as |-> "none"]

Init ==
  /\ option = [r \in Request |-> Plain]
  /\ state = [r \in Request |-> "new"]
  /\ dataTypes = [r \in Request |-> <<>>]
  /\ window = [n \in Request \cup {"shared"} |-> IF n = "shared" THEN "page" ELSE "none"]
  /\ previous = [r \in Request |-> "none"] /\ container = previous /\ script = previous
  /\ head = {} /\ xhr = {} /\ known = FALSE /\ conditions = {}
  /\ outcome = [r \in Request |-> Pending]
  /\ when = [args |-> <<>>, count |-> 0, values |-> <<>>, state |-> "none"]
  /\ pipe = [r \in Request |-> [next |-> "none", state |-> "none"]]
  /\ told = <<>> /\ mixed = {}

Name(w, r) == IF w.option[r].shared THEN "shared" ELSE r

-----------------------------------------------------------------------------
(***************************************************************************)
(* The prefilters.  jsonp leads to script, whose types go first.           *)
(***************************************************************************)
\* The calls whose scripts may still call the callback named n.
Callers(w, n) ==
  {q \in Request : /\ w.option[q].jsonp /\ Name(w, q) = n
                   /\ w.state[q] = "sent" \/ w.script[q] = "fetching"}

\* The callback is installed, what was there is kept.
Prefiltered(w, r) ==
  LET n == Name(w, r)
      others == Callers(w, n) \ {r}
  IN  IF ~w.option[r].jsonp THEN [w EXCEPT !.dataTypes[r] = w.option[r].ask]
      ELSE [w EXCEPT !.dataTypes[r] = <<"script", "json">>,
                     !.previous[r] = w.window[n], !.window[n] = r,
                     !.mixed = @ \cup (IF others = {} THEN {} ELSE others \cup {r})]

\* The transport that takes the call: the list of its first type, then that of all.
Transport(w, r) ==
  IF w.option[r].cross /\ Head(w.dataTypes[r]) = "script" THEN "script"
  ELSE IF w.option[r].cross /\ ~Cors THEN "none" ELSE "xhr"

-----------------------------------------------------------------------------
(***************************************************************************)
(* ajaxHandleResponses, ajaxConvert.                                       *)
(***************************************************************************)
\* In the order in which they are searched; the last is that of a JSONP call.
Converters == <<<<"*", "text">>, <<"text", "html">>, <<"text", "json">>, <<"text", "xml">>,
                <<"text", "script">>, <<"script", "json">>>>

Known(r) == IF option[r].jsonp THEN Converters ELSE Front(Converters)

RECURSIVE Stripped(_)
Stripped(types) ==
  IF types # <<>> /\ Head(types) = "*" THEN Stripped(Tail(types)) ELSE types

\* The type of the header counts when none was asked for.
Expected(types, contentType) ==
  IF Head(types) = "*" /\ contentType # "text"
  THEN <<contentType>> \o Stripped(types) ELSE Stripped(types)

\* The response that the conversions start from, its type at the head.
Chosen(r, types, responses) ==
  LET found == SelectSeq(responses, LAMBDA t :
                 types = <<>> \/ <<t, Head(types)>> \in ToSet(Known(r)))
      final == IF types # <<>> /\ Head(types) \in ToSet(responses) THEN Head(types)
               ELSE IF found # <<>> THEN Head(found) ELSE Head(responses)
  IN  IF types # <<>> /\ Head(types) = final THEN types ELSE <<final>> \o types

\* Mutant: of two converters the first is used only.
Way_Half(r, from, to) ==
  LET via == SelectSeq(Known(r), LAMBDA c : c[1] \in {from, "*"} /\ <<c[2], to>> \in ToSet(Known(r)))
  IN  IF from = to THEN <<>>
      ELSE IF <<from, to>> \in ToSet(Known(r)) THEN <<to>>
      ELSE IF via # <<>> THEN <<Head(via)[2]>> ELSE <<"impossible">>

\* The types from one to the next: a converter, or the first two that lead there.
Way(r, from, to) ==
  LET all == Known(r)
      Has(a, b) == <<a, b>> \in ToSet(all)
      via == SelectSeq(all, LAMBDA c : c[1] \in {from, "*"} /\ Has(c[2], to))
  IN  IF from = to THEN <<>>
      ELSE IF Has(from, to) \/ Has("*", to) THEN <<to>>
      ELSE IF via # <<>> THEN <<Head(via)[2], to>> ELSE <<"impossible">>

\* A script calls what is under the name of its callback; without a function
\* there it fails.
Called(w, r) ==
  LET f == w.window[Name(w, r)]
  IN  CASE f = "none" -> w
        [] f = "page" -> [w EXCEPT !.told = Append(@, r)]
        [] OTHER -> [w EXCEPT !.container[f] = r]

\* One converter: the data d, of the call r that was answered with a, becomes t.
Convert(s, r, a, t) ==
  LET d == s.data  calls == option[r].jsonp /\ a.calls
      fits == CASE t \in {"text", "html"} -> TRUE
                [] t = "json" /\ d.as = "script" -> s.page.container[r] # "none"
                [] t = "script" -> a.body = "script"
                                   /\ ~(calls /\ s.page.window[Name(s.page, r)] = "none")
                [] t \in {"json", "xml"} -> a.body = t
                [] OTHER -> FALSE
  IN  IF ~s.ok THEN s
      ELSE [ok |-> fits,
            page |-> IF t = "script" /\ a.body = "script" /\ calls THEN Called(s.page, r)
                     ELSE s.page,
            data |-> [of |-> IF t = "json" /\ d.as = "script" THEN s.page.container[r] ELSE d.of,
                      as |-> t]]

\* The whole chain.
Converted(w, r, a, types) ==
  LET way == FlattenSeq([i \in 1 .. Len(types) - 1 |-> Way(r, types[i], types[i + 1])])
  IN  FoldLeft(LAMBDA s, t : Convert(s, r, a, t),
               [ok |-> TRUE, page |-> w, data |-> [of |-> r, as |-> Head(types)]], way)

-----------------------------------------------------------------------------
(***************************************************************************)
(* The end of a call, for those who wait for it.                           *)
(***************************************************************************)
\* Mutant: the window is left as it is.
Cleaned_Left(w, r) == w

\* What was under the name of the callback is put back, and called when it is a
\* function and there is an answer.
Cleaned(w, r) ==
  LET n == Name(w, r)
      v == [w EXCEPT !.window[n] = w.previous[r]]
      f == w.previous[r]
      c == w.container[r]
  IN  IF ~w.option[r].jsonp THEN w
      ELSE IF c = "none" \/ f = "none" THEN v
      ELSE IF f = "page" THEN [v EXCEPT !.told = Append(@, c)]
      ELSE [v EXCEPT !.container[f] = c]

Succeeded(o) == o.status \in {"success", "notModified"}

\* Mutant: jQuery.when counts the calls that fail as well.
Counted_All(w, i, o) ==
  LET left == w.when.count - 1
      d == [w EXCEPT !.when.count = left, !.when.values[i] = o]
  IN  IF w.when.state # "pending" \/ left > 0 THEN d ELSE [d EXCEPT !.when.state = "resolved"]

\* One argument of jQuery.when has ended.
Counted(w, i, o) ==
  LET left == w.when.count - 1
      d == [w EXCEPT !.when.count = left, !.when.values[i] = o]
  IN  IF ~Succeeded(o)
      THEN IF w.when.state = "pending" THEN [w EXCEPT !.when.state = "rejected"] ELSE w
      ELSE IF w.when.state # "pending" \/ left > 0 THEN d
      ELSE [d EXCEPT !.when.state = "resolved"]

WhenTold(w, r) ==
  FoldLeft(LAMBDA v, i : IF v.when.args[i] = r THEN Counted(v, i, w.outcome[r]) ELSE v,
           w, [i \in 1 .. Len(w.when.args) |-> i])

Ends(ok) == IF ok THEN "resolved" ELSE "rejected"

RECURSIVE Send(_, _, _), Done(_, _, _), PipeTold(_, _)

\* The pipes whose second call is r end; the call that is to follow r is made.
PipeTold(w, r) ==
  LET ok == Succeeded(w.outcome[r])
      next == w.pipe[r].next
      v == [w EXCEPT !.pipe = [q \in Request |->
              IF @[q].next = r THEN [@[q] EXCEPT !.state = Ends(ok)] ELSE @[q]]]
  IN  IF next = "none" THEN v
      ELSE IF ok THEN Send(v, next, v.option[next])
      ELSE [v EXCEPT !.pipe[r].state = "rejected"]

\* done
Done(w, r, o) ==
  IF w.state[r] = "done" THEN w
  ELSE PipeTold(WhenTold(Cleaned([w EXCEPT !.state[r] = "done", !.outcome[r] = o], r), r), r)

\* The transports.
ScriptSends(w, r) == [w EXCEPT !.head = @ \cup {r}, !.script[r] = "fetching"]
XhrSends(w, r) == [w EXCEPT !.xhr = @ \cup {r}]

\* jQuery.ajax, up to the transport.
Send(w, r, o) ==
  LET v == Prefiltered([w EXCEPT !.option[r] = o, !.state[r] = "sent"], r)
      u == IF o.conditional /\ v.known THEN [v EXCEPT !.conditions = @ \cup {r}] ELSE v
  IN  CASE Transport(v, r) = "script" -> ScriptSends(u, r)
        [] Transport(v, r) = "xhr" -> XhrSends(u, r)
        [] OTHER -> Done(u, r, [Pending EXCEPT !.status = "error"])

-----------------------------------------------------------------------------
(***************************************************************************)
(* What the page does.                                                     *)
(***************************************************************************)
Ask(r, o) == state[r] = "new" /\ Becomes(Send(Page, r, o))

\* r.pipe, with a function that makes the call q; it may come late.
Pipe(r, q, o) ==
  /\ state[r] \in {"sent", "done"} /\ state[q] = "new" /\ pipe[r].next = "none"
  /\ LET w == [Page EXCEPT !.pipe[r] = [next |-> q, state |-> "pending"],
                           !.state[q] = "reserved", !.option[q] = o]
     IN  Becomes(IF state[r] # "done" THEN w
                 ELSE IF Succeeded(outcome[r]) THEN Send(w, q, o)
                 ELSE [w EXCEPT !.pipe[r].state = "rejected"])

\* Some arguments may have ended.
When(args) ==
  /\ when.state = "none"
  /\ \A i \in 1 .. Len(args) : state[args[i]] \in {"sent", "done"}
  /\ Becomes(FoldLeft(LAMBDA w, i : IF state[args[i]] = "done"
                                    THEN Counted(w, i, outcome[args[i]]) ELSE w,
                      [Page EXCEPT !.when = [args |-> args, count |-> Len(args),
                                             values |-> [i \in 1 .. Len(args) |-> Pending],
                                             state |-> "pending"]],
                      [i \in 1 .. Len(args) |-> i]))

\* The transport lets go of a call; its script may run all the same.
Abandoned(w, r) == [w EXCEPT !.xhr = @ \ {r}, !.head = @ \ {r}]

\* abort, by the page or by a timeout.
Abort(r) ==
  /\ state[r] = "sent"
  /\ Becomes(Done(Abandoned(Page, r), r, [Pending EXCEPT !.status = "abort"]))

(***************************************************************************)
(* What the browser does.                                                  *)
(***************************************************************************)
\* An answer of XMLHttpRequest.
Answered(r, a) ==
  /\ r \in xhr
  /\ a.status = "notModified" => r \in conditions
  /\ LET v == [Abandoned(Page, r) EXCEPT !.known =
                 @ \/ (option[r].conditional /\ a.status # "error")]
         responses == IF a.contentType = "xml" /\ a.body = "xml" THEN <<"xml", "text">>
                      ELSE <<"text">>
         types == Chosen(r, Expected(dataTypes[r], a.contentType), responses)
         s == Converted([v EXCEPT !.dataTypes[r] = types], r, a, types)
     IN  Becomes(CASE a.status = "error" -> Done(v, r, [Pending EXCEPT !.status = "error"])
                   [] a.status = "notModified" ->
                        Done(v, r, [Pending EXCEPT !.status = "notModified"])
                   [] OTHER ->
                        Done(s.page, r,
                             IF s.ok THEN [status |-> "success", of |-> s.data.of, as |-> s.data.as]
                             ELSE [Pending EXCEPT !.status = "parsererror"]))

\* A script element runs its script, whether it is still in the document or not.
ScriptRuns(r, calls) ==
  /\ script[r] = "fetching" /\ (calls => option[r].jsonp)
  /\ LET w == [Page EXCEPT !.script[r] = "ran"]
     IN  Becomes(IF calls THEN Called(w, r) ELSE w)

\* Its load event; there is no answer but that of the callback.
ScriptLoads(r) ==
  /\ r \in head /\ script[r] = "ran"
  /\ LET s == Converted(Abandoned(Page, r), r, [body |-> "script", calls |-> FALSE], dataTypes[r])
     IN  Becomes(Done(s.page, r,
                      IF s.ok THEN [status |-> "success", of |-> s.data.of, as |-> s.data.as]
                      ELSE [Pending EXCEPT !.status = "parsererror"]))

Next ==
  \/ \E r \in Request :
       \/ \E o \in Options : Ask(r, o)
       \/ \E q \in Request \ {r}, o \in Options : Pipe(r, q, o)
       \/ \E q \in Request \ {r} : When(<<r, q>>)
       \/ Abort(r)
       \/ \E a \in Answers : Answered(r, a)
       \/ \E calls \in BOOLEAN : ScriptRuns(r, calls)
       \/ ScriptLoads(r)

Spec == Init /\ [][Next]_vars

-----------------------------------------------------------------------------
\* A call that succeeds has its own answer, in the type that was asked for last,
\* or, when none was, the one of the header; a JSONP call too, unless it shares
\* its callback with another call that is under way.
OwnAnswer ==
  \A r \in Request : outcome[r].status = "success" /\ r \notin mixed =>
    /\ outcome[r].of = r
    /\ outcome[r].as = IF Last(option[r].ask) = "*" THEN Last(dataTypes[r])
                       ELSE Last(option[r].ask)

\* When no call is under way nothing of one is left: no script element, no call
\* in XMLHttpRequest, and under each callback what was there before; the page's
\* own function was called with every answer that came to its name.
LeavesNothing ==
  /\ head \cup xhr \subseteq {r \in Request : state[r] = "sent"}
  /\ \A r \in Request \ mixed : option[r].jsonp /\ state[r] = "done" =>
       window[Name(Page, r)] # r
  /\ mixed = {} =>
       \A r \in Request : option[r].shared /\ outcome[r].status = "success" => r \in ToSet(told)

\* jQuery.when is resolved with the answers of all its calls, each at its place,
\* rejected with the first that fails, and pending as long as neither is so.
WhenCollects ==
  LET of == [i \in 1 .. Len(when.args) |-> outcome[when.args[i]]]
      ended == {i \in DOMAIN of : of[i].status # "pending"}
      failed == {i \in ended : ~Succeeded(of[i])}
  IN  /\ when.state = "resolved" => when.values = of /\ failed = {} /\ ended = DOMAIN of
      /\ when.state = "rejected" => failed # {}
      /\ when.state = "pending" => failed = {} /\ ended # DOMAIN of

\* A pipe ends as its second call ends, or with the failure of its first, of which
\* the second is then never made.
PipeFollows ==
  \A r \in Request : LET p == pipe[r] IN
    p.next # "none" =>
      /\ state[p.next] # "reserved" => Succeeded(outcome[r])
      /\ p.state = IF outcome[r].status = "pending" THEN "pending"
                   ELSE IF ~Succeeded(outcome[r]) THEN "rejected"
                   ELSE IF outcome[p.next].status = "pending" THEN "pending"
                   ELSE IF Succeeded(outcome[p.next]) THEN "resolved" ELSE "rejected"

(***************************************************************************)
(* Calls that are combined end as their parts end (jQuery.when, pipe).     *)
(***************************************************************************)
Combines == WhenCollects /\ PipeFollows
=============================================================================
