-------------------------- MODULE MCJQueryEffects --------------------------
(* Seven pages of two elements: one that queues, one that animates beside  *)
(* the queue, one that stops, two whose callbacks stop elements, their own *)
(* and others, also while a stop brings one to its end, one that clears    *)
(* the queue, and one with promises in a row.                              *)
EXTENDS JQueryEffects

Change(val, props, queued, instant) ==
  [val |-> val, props |-> props, queued |-> queued, instant |-> instant]

Queues ==
  [ops |-> {"animate", "delay", "promise", "throw"}, inside |-> {"animate", "throw"},
   hidden |-> {CHOOSE e \in Element : TRUE},
   choices |-> {Change("hide", Prop, TRUE, FALSE), Change("toggle", {"opacity"}, TRUE, FALSE)},
   calls |-> 4]

Besides ==
  [ops |-> {"animate", "promise", "delay", "stop", "finish"}, inside |-> {"animate"},
   hidden |-> {},
   choices |-> {Change("hide", {"opacity"}, FALSE, FALSE),
                Change("toggle", {"opacity"}, TRUE, TRUE)},
   calls |-> 3]

Stops ==
  [ops |-> {"animate", "delay", "stop", "finish"}, inside |-> {"animate"}, hidden |-> {},
   choices |-> {Change("hide", {"opacity"}, TRUE, FALSE), Change("show", {"opacity"}, TRUE, FALSE)},
   calls |-> 4]

Others ==
  [ops |-> {"animate", "stop", "finish"}, inside |-> {"animate", "stop", "finish"}, hidden |-> {},
   choices |-> {Change("toggle", {"opacity"}, TRUE, FALSE)}, calls |-> 4]

\* Enough calls for a stop to the end that meets the timer of another element.
Nests ==
  [ops |-> {"animate", "stop", "finish"}, inside |-> {"animate", "stop", "finish"}, hidden |-> {},
   choices |-> {Change("hide", {"opacity"}, TRUE, FALSE)}, calls |-> 5]

Clearing ==
  [ops |-> {"animate", "delay", "clear", "stop", "now", "promise"}, inside |-> {}, hidden |-> {},
   choices |-> {Change("toggle", Prop, TRUE, FALSE)}, calls |-> 4]

\* Promises and animations, more than the browser has time for between its timeouts.
Promises ==
  [ops |-> {"animate", "promise"}, inside |-> {}, hidden |-> {},
   choices |-> {Change("toggle", {"opacity"}, TRUE, FALSE)}, calls |-> 6]

MCWorlds == {Queues, Besides, Stops, Others, Nests, Clearing, Promises}
=============================================================================
