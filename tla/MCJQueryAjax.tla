---------------------------- MODULE MCJQueryAjax ----------------------------
(* Two requests; handlers and the page make up to three calls.            *)
EXTENDS JQueryAjax

MCOptions ==
  {[how |-> "async", timeout |-> TRUE,  global |-> TRUE,  statusCode |-> TRUE],
   [how |-> "cross", timeout |-> FALSE, global |-> FALSE, statusCode |-> TRUE],
   [how |-> "sync",  timeout |-> FALSE, global |-> TRUE,  statusCode |-> FALSE]}

MCHooks == {"beforeSend", "ajaxError"}
=============================================================================
