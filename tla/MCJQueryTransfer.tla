------------------------- MODULE MCJQueryTransfer -------------------------
(* Three calls, of each kind that takes a way of its own.                  *)
EXTENDS JQueryTransfer, TLC

Typed(ask) == [Plain EXCEPT !.ask = ask]
Jsonp(shared, cross) ==
  [ask |-> <<"json">>, jsonp |-> TRUE, shared |-> shared, cross |-> cross, conditional |-> FALSE]

MCOptions ==
  {Plain, [Plain EXCEPT !.cross = TRUE], Typed(<<"xml", "html">>), [Typed(<<"script">>) EXCEPT !.cross = TRUE],
   [Typed(<<"json">>) EXCEPT !.conditional = TRUE],
   Jsonp(FALSE, TRUE), Jsonp(TRUE, TRUE), Jsonp(FALSE, FALSE)}

Body(contentType, body) ==
  [status |-> "ok", contentType |-> contentType, body |-> body, calls |-> body = "script"]

MCAnswers ==
  {Body("json", "json"), Body("xml", "xml"), Body("json", "script"), Body("html", "text")}
  \cup {[Body("text", "text") EXCEPT !.status = s] : s \in {"notModified", "error"}}

Symmetry == Permutations(Request)
=============================================================================
