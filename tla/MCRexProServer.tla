--------------------------- MODULE MCRexProServer ---------------------------
(* Instances of RexProServer for TLC: what clients ask for in each run.    *)
EXTENDS RexProServer, TLC

Open(g) == [kind |-> "open", inSession |-> FALSE, isolate |-> TRUE,
            transaction |-> TRUE, graph |-> g, script |-> "write"]
Kill == [Open("none") EXCEPT !.kind = "kill"]
InSession(isolate, transaction, script) ==
  [kind |-> "script", inSession |-> TRUE, isolate |-> isolate,
   transaction |-> transaction, graph |-> "none", script |-> script]
Sessionless(transaction, graph, script) ==
  [kind |-> "script", inSession |-> FALSE, isolate |-> TRUE,
   transaction |-> transaction, graph |-> graph, script |-> script]

\* Sessions that come, or fail to, work and are killed; every script leaves its
\* transaction to the server.
ManagedShapes ==
  {Open("known"), Open("missing"), Kill} \cup
  {InSession(TRUE, TRUE, s) : s \in {"write", "fail"}}

\* Every kind of request and every way to be refused.
AllShapes ==
  {Open(g) : g \in Graph} \cup {Kill} \cup
  {InSession(i, TRUE, "write") : i \in BOOLEAN} \cup
  {InSession(TRUE, FALSE, s) : s \in {"commit", "unknownLanguage"}} \cup
  {[InSession(TRUE, TRUE, "write") EXCEPT !.graph = g]
     : g \in {"known", "missing", "illTyped"}} \cup
  {Sessionless(FALSE, "known", s) : s \in {"write", "commit"}} \cup
  {Sessionless(TRUE, "known", s) : s \in {"write", "unknownLanguage"}}

Symmetry == Permutations(Worker) \cup Permutations(Key)
              \cup Permutations(Request)
=============================================================================
