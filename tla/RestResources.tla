---------------------------- MODULE RestResources ----------------------------
(***************************************************************************)
(* The REST resources of one graph.  A pooled HTTP thread runs the handler *)
(* of one request at a time.  Blueprints binds the transaction to the      *)
(* thread, and a handler opens it implicitly with its first access: what a *)
(* handler leaves open is still there when the thread takes its next       *)
(* request.  Blueprints itself is seen only through getVertex, addVertex   *)
(* and so on, which may throw at any time, and through stopTransaction: a  *)
(* thread sees what is committed and its own writes.                       *)
(*                                                                         *)
(* Elements are ids that exist or not; a write that creates or removes no  *)
(* element (a property, an index, a prefix) only leaves the request's mark *)
(* in the transaction.                                                     *)
(***************************************************************************)
CONSTANTS
  Thread,    \* threads of the HTTP worker pool
  Request,   \* requests that clients send, each once
  Id,        \* ids that elements may have
  Shape,     \* what the requests may ask for: a subset of ShapeType
  None       \* no thread

Reads == {"getVertices", "getSingleVertex", "getVertexEdges", "getAllEdges",
          "getSingleEdge", "getAllIndices", "getElementsFromIndex",
          "getIndexCount", "getKeyIndices", "getIndexKeys", "getPrefixes",
          "getSinglePrefix"}
ElementWrites == {"postVertex", "putVertex", "deleteVertex",
                  "postEdge", "putEdge", "deleteEdge"}
IndexWrites == {"deleteIndex", "postIndex", "putElementInIndex",
                "deleteIndexKey", "postIndexKey"}
PrefixWrites == {"deleteSinglePrefix", "postSinglePrefix"}
Extensions == {"vertexExtension", "edgeExtension", "graphExtension"}

\* keys: the request carries properties (POST), property keys (DELETE of an
\* element), or key, value and id (DELETE of an index).
\* auto: autoCommitTransaction of the extension method that is called.
ShapeType == [op: Reads \cup ElementWrites \cup IndexWrites \cup PrefixWrites
                  \cup Extensions,
              id: Id, keys: BOOLEAN, auto: BOOLEAN]

ASSUME RestAssumption == Shape \subseteq ShapeType /\ None \notin Thread

VARIABLES
  shape, by, pc, answer,   \* requests and the threads that handle them
  had,                     \* handlers' locals: the element was found, and
  returned,                \*   what kind of value the extension returned
  exists, durable,         \* the graph: its elements, and whose writes it has
  tx,                      \* the open transaction of each thread
  saved                    \* history: requests whose handler's own commit went
                           \*   through

vars == <<shape, by, pc, answer, had, returned, exists, durable, tx, saved>>

Outcome == {"ok", "error", "wrongType"}
Empty == [by |-> {}, puts |-> {}, cuts |-> {}]

TypeOK ==
  /\ shape \in [Request -> ShapeType \cup {None}]
  /\ by \in [Request -> Thread \cup {None}]
  /\ pc \in [Request -> {"new", "received", "found", "written", "committed",
                         "invoked", "checked", "answered"}]
  /\ answer \in [Request -> {"none", "ok", "badRequest", "notFound",
                             "conflict", "error"}]
  /\ had \in [Request -> BOOLEAN]
  /\ returned \in [Request -> Outcome \cup {"none"}]
  /\ exists \subseteq Id
  /\ durable \subseteq Request
  /\ tx \in [Thread -> [by: SUBSET Request, puts: SUBSET Id, cuts: SUBSET Id]]
  /\ saved \subseteq Request

Init ==
  /\ shape = [r \in Request |-> None]
  /\ by = [r \in Request |-> None]
  /\ pc = [r \in Request |-> "new"]
  /\ answer = [r \in Request |-> "none"]
  /\ had = [r \in Request |-> FALSE]
  /\ returned = [r \in Request |-> "none"]
  /\ exists \in SUBSET Id
  /\ durable = {}
  /\ tx = [t \in Thread |-> Empty]
  /\ saved = {}

-----------------------------------------------------------------------------
(* Transactions                                                            *)

\* The elements that thread t sees.
View(t) == (exists \cup tx[t].puts) \ tx[t].cuts
Present(r) == shape[r].id \in View(by[r])

Marked(r) == [tx[by[r]] EXCEPT !.by = @ \cup {r}]
Created(r) == [Marked(r) EXCEPT !.puts = @ \cup {shape[r].id},
                                !.cuts = @ \ {shape[r].id}]
Removed(r) == [Marked(r) EXCEPT !.puts = @ \ {shape[r].id},
                                !.cuts = @ \cup {shape[r].id}]

\* tryCommit
TryCommit(t) ==
  /\ exists' = View(t)
  /\ durable' = durable \cup tx[t].by
  /\ tx' = [tx EXCEPT ![t] = Empty]

\* tryCommit throws: the graph keeps the transaction open or drops it.
CommitThrows(t) ==
  /\ \E left \in {tx[t], Empty} : tx' = [tx EXCEPT ![t] = left]
  /\ UNCHANGED <<exists, durable>>

\* tryRollback
TryRollback(t) ==
  /\ tx' = [tx EXCEPT ![t] = Empty]
  /\ UNCHANGED <<exists, durable>>

Untouched == UNCHANGED <<exists, durable, tx>>

-----------------------------------------------------------------------------
(* Steps that handlers share                                               *)

Receive(r, t) ==
  /\ pc[r] = "new"
  /\ \A q \in Request : by[q] # t
  /\ \E s \in Shape : shape' = [shape EXCEPT ![r] = s]
  /\ by' = [by EXCEPT ![r] = t]
  /\ pc' = [pc EXCEPT ![r] = "received"]
  /\ UNCHANGED <<answer, had, returned, exists, durable, tx, saved>>

Goto(r, next) ==
  /\ pc' = [pc EXCEPT ![r] = next]
  /\ UNCHANGED <<by, answer>>

\* The response is built and the thread goes back to the pool.
Answer(r, status) ==
  /\ answer' = [answer EXCEPT ![r] = status]
  /\ pc' = [pc EXCEPT ![r] = "answered"]
  /\ by' = [by EXCEPT ![r] = None]

\* An argument is missing or wrong, and the handler has not come to the part
\* that stops the transaction.
Invalid(r, statuses) ==
  /\ pc[r] = "received"
  /\ \E s \in statuses : Answer(r, s)
  /\ Untouched
  /\ UNCHANGED <<shape, had, returned, saved>>

\* The handler or the graph throws and the handler's catch rolls back.
Caught(r, status) ==
  /\ pc[r] \in {"received", "found", "written"}
  /\ TryRollback(by[r])
  /\ Answer(r, status)
  /\ UNCHANGED <<shape, had, returned, saved>>

\* The graph throws what the handler does not catch.
Escapes(r) ==
  /\ \/ pc[r] = "received" /\ Untouched
     \/ pc[r] = "written" /\ CommitThrows(by[r])
  /\ Answer(r, "error")
  /\ UNCHANGED <<shape, had, returned, saved>>

\* A read, with tryCommit in its finally block.
ReadFinally(r, statuses) ==
  /\ pc[r] = "received"
  /\ \/ TryCommit(by[r]) /\ \E s \in statuses : Answer(r, s)
     \/ CommitThrows(by[r]) /\ Answer(r, "error")
  /\ UNCHANGED <<shape, had, returned, saved>>

\* The element is looked up; the handler goes on only if it can.
LookUp(r, can) ==
  /\ pc[r] = "received" /\ can
  /\ had' = [had EXCEPT ![r] = Present(r)]
  /\ Goto(r, "found")
  /\ Untouched
  /\ UNCHANGED <<shape, returned, saved>>

\* It cannot: a WebApplicationException, after which the transaction is
\* rolled back.
Refuse(r, cannot, status) ==
  /\ pc[r] = "received" /\ cannot
  /\ had' = [had EXCEPT ![r] = Present(r)]
  /\ TryRollback(by[r])
  /\ Answer(r, status)
  /\ UNCHANGED <<shape, returned, saved>>

Write(r, from, effect) ==
  /\ pc[r] = from
  /\ tx' = [tx EXCEPT ![by[r]] = effect]
  /\ Goto(r, "written")
  /\ UNCHANGED <<shape, had, returned, exists, durable, saved>>

Commit(r) ==
  /\ pc[r] = "written"
  /\ TryCommit(by[r])
  /\ saved' = saved \cup {r}
  /\ Goto(r, "committed")
  /\ UNCHANGED <<shape, had, returned>>

\* The answer is built.
Conclude(r) ==
  /\ pc[r] = "committed"
  /\ Answer(r, "ok")
  /\ Untouched
  /\ UNCHANGED <<shape, had, returned, saved>>

\* The id of the element, the hypermedia, the element read again: what builds the
\* answer throws, and the catch rolls back what has been committed.
FailsLate(r) ==
  /\ pc[r] = "committed"
  /\ Answer(r, "error")
  /\ TryRollback(by[r])
  /\ UNCHANGED <<shape, had, returned, saved>>

Calls(r, op) == shape[r] # None /\ shape[r].op = op

-----------------------------------------------------------------------------
(* Reads                                                                   *)

\* getVertex returns null for an element that is not there.
FoundOrNot(r) == {"error", IF Present(r) THEN "ok" ELSE "notFound"}

GetVertices(r) == Calls(r, "getVertices") /\ ReadFinally(r, {"ok", "error"})
GetSingleVertex(r) == Calls(r, "getSingleVertex") /\ ReadFinally(r, FoundOrNot(r))
GetVertexEdges(r) ==
  Calls(r, "getVertexEdges") /\ ReadFinally(r, FoundOrNot(r) \cup {"badRequest"})
GetAllEdges(r) == Calls(r, "getAllEdges") /\ ReadFinally(r, {"ok", "error"})
GetSingleEdge(r) == Calls(r, "getSingleEdge") /\ ReadFinally(r, FoundOrNot(r))

GetAllIndices(r) ==
  /\ Calls(r, "getAllIndices")
  /\ Invalid(r, {"error"}) \/ ReadFinally(r, {"ok", "error"})

\* Index.get is called before the try.
GetElementsFromIndex(r) ==
  /\ Calls(r, "getElementsFromIndex")
  /\ \/ Invalid(r, {"ok", "notFound", "error"})
     \/ ReadFinally(r, {"ok", "error"})

GetIndexCount(r) ==
  /\ Calls(r, "getIndexCount")
  /\ \/ Invalid(r, {"badRequest", "notFound", "error"})
     \/ ReadFinally(r, {"ok", "error"})

GetKeyIndices(r) ==
  /\ Calls(r, "getKeyIndices")
  /\ Invalid(r, {"error"}) \/ ReadFinally(r, {"ok", "error"})

GetIndexKeys(r) ==
  /\ Calls(r, "getIndexKeys")
  /\ Invalid(r, {"notFound", "error"}) \/ ReadFinally(r, {"ok", "error"})

GetPrefixes(r) == Calls(r, "getPrefixes") /\ ReadFinally(r, {"ok", "error"})
GetSinglePrefix(r) == Calls(r, "getSinglePrefix") /\ ReadFinally(r, {"ok", "error"})

Read(r) ==
  \/ GetVertices(r) \/ GetSingleVertex(r) \/ GetVertexEdges(r)
  \/ GetAllEdges(r) \/ GetSingleEdge(r)
  \/ GetAllIndices(r) \/ GetElementsFromIndex(r) \/ GetIndexCount(r)
  \/ GetKeyIndices(r) \/ GetIndexKeys(r)
  \/ GetPrefixes(r) \/ GetSinglePrefix(r)

-----------------------------------------------------------------------------
(* Vertices and edges                                                      *)

\* Mutant: the catch answers without a rollback.
CaughtOpen(r, status) ==
  /\ pc[r] \in {"received", "found", "written"}
  /\ Untouched
  /\ Answer(r, status)
  /\ UNCHANGED <<shape, had, returned, saved>>

\* The catch for every Exception also takes the WebApplicationException that
\* carries CONFLICT: the answer is 500.
PostVertex(r) ==
  /\ Calls(r, "postVertex")
  /\ \/ LookUp(r, Present(r) => shape[r].keys)
     \/ Refuse(r, Present(r) /\ ~shape[r].keys, "error")
     \/ Write(r, "found", IF had[r] THEN Marked(r) ELSE Created(r))
     \/ Commit(r)
     \/ Conclude(r)
     \/ FailsLate(r)
     \/ Caught(r, "error")

\* After the commit the vertex is fetched again and serialized: somebody else
\* may have removed it.
PutVertex(r) ==
  /\ Calls(r, "putVertex")
  /\ \/ LookUp(r, Present(r))
     \/ Refuse(r, ~Present(r), "error")
     \/ Write(r, "found", Marked(r))
     \/ Commit(r)
     \/ Conclude(r) /\ Present(r)
     \/ FailsLate(r)
     \/ Caught(r, "error")

\* Mutant: an exception does not reach a rollback.
DeleteVertex_Open(r) ==
  /\ Calls(r, "deleteVertex")
  /\ \/ LookUp(r, Present(r))
     \/ Refuse(r, ~Present(r), "error")
     \/ Write(r, "found", IF shape[r].keys THEN Marked(r) ELSE Removed(r))
     \/ Commit(r)
     \/ Conclude(r)
     \/ CaughtOpen(r, "error")

DeleteVertex(r) ==
  /\ Calls(r, "deleteVertex")
  /\ \/ LookUp(r, Present(r))
     \/ Refuse(r, ~Present(r), "error")
     \/ Write(r, "found", IF shape[r].keys THEN Marked(r) ELSE Removed(r))
     \/ Commit(r)
     \/ Conclude(r)
     \/ Caught(r, "error")

\* A new edge needs two vertices that exist: whether they do is left open, as
\* is whether the request names them.
PostEdge(r) ==
  /\ Calls(r, "postEdge")
  /\ \/ LookUp(r, Present(r) => shape[r].keys)
     \/ Refuse(r, Present(r) => ~shape[r].keys, "conflict")
     \/ Write(r, "found", IF had[r] THEN Marked(r) ELSE Created(r))
     \/ Commit(r)
     \/ Conclude(r)
     \/ FailsLate(r)
     \/ Caught(r, "error")

PutEdge(r) ==
  /\ Calls(r, "putEdge")
  /\ \/ LookUp(r, Present(r))
     \/ Refuse(r, ~Present(r), "notFound")
     \/ Write(r, "found", Marked(r))
     \/ Commit(r)
     \/ Conclude(r)
     \/ FailsLate(r)
     \/ Caught(r, "error")

DeleteEdge(r) ==
  /\ Calls(r, "deleteEdge")
  /\ \/ LookUp(r, Present(r))
     \/ Refuse(r, ~Present(r), "notFound")
     \/ Write(r, "found", IF shape[r].keys THEN Marked(r) ELSE Removed(r))
     \/ Commit(r)
     \/ Conclude(r)
     \/ Caught(r, "error")

WriteElement(r) ==
  \/ PostVertex(r) \/ PutVertex(r) \/ DeleteVertex(r)
  \/ PostEdge(r) \/ PutEdge(r) \/ DeleteEdge(r)

-----------------------------------------------------------------------------
(* Indices, key indices and prefixes                                       *)

\* The commit is followed by nothing that matters.
CommitAndAnswer(r) ==
  /\ pc[r] = "written"
  /\ TryCommit(by[r])
  /\ saved' = saved \cup {r}
  /\ Answer(r, "ok")
  /\ UNCHANGED <<shape, had, returned>>

\* Without key, value and id the index is dropped, and every exception rolls
\* back.  With them an entry is removed, and only a JSONException does.
DeleteIndex(r) ==
  /\ Calls(r, "deleteIndex")
  /\ \/ Invalid(r, {"badRequest", "notFound", "error"})
     \/ Write(r, "received", Marked(r))
     \/ CommitAndAnswer(r)
     \/ ~shape[r].keys /\ Caught(r, "error")
     \/ shape[r].keys /\ Escapes(r)

\* The new index is described after the commit, where no catch rolls back.
PostIndex(r) ==
  /\ Calls(r, "postIndex")
  /\ \/ Invalid(r, {"badRequest", "error"})
     \/ Write(r, "received", Marked(r))
     \/ Commit(r)
     \/ Caught(r, "badRequest")
     \/ Conclude(r)
     \/ /\ pc[r] = "committed"
        /\ Answer(r, "error")
        /\ Untouched
        /\ UNCHANGED <<shape, had, returned, saved>>

\* An index of neither vertices nor edges is the one case that rolls back.
PutElementInIndex(r) ==
  /\ Calls(r, "putElementInIndex")
  /\ \/ Invalid(r, {"badRequest", "notFound", "error"})
     \/ pc[r] = "received" /\ Caught(r, "badRequest")
     \/ Write(r, "received", Marked(r))
     \/ CommitAndAnswer(r)
     \/ Escapes(r)

DeleteIndexKey(r) ==
  /\ Calls(r, "deleteIndexKey")
  /\ \/ Invalid(r, {"notFound", "error"})
     \/ Write(r, "received", Marked(r))
     \/ CommitAndAnswer(r)
     \/ Escapes(r)

PostIndexKey(r) ==
  /\ Calls(r, "postIndexKey")
  /\ \/ Invalid(r, {"notFound", "error"})
     \/ Write(r, "received", Marked(r))
     \/ CommitAndAnswer(r)
     \/ Escapes(r)

DeleteSinglePrefix(r) ==
  /\ Calls(r, "deleteSinglePrefix")
  /\ \/ Write(r, "received", Marked(r))
     \/ CommitAndAnswer(r)
     \/ Caught(r, "error")

PostSinglePrefix(r) ==
  /\ Calls(r, "postSinglePrefix")
  /\ \/ Invalid(r, {"badRequest"})
     \/ Write(r, "received", Marked(r))
     \/ CommitAndAnswer(r)
     \/ Caught(r, "error")

WriteIndex(r) ==
  \/ DeleteIndex(r) \/ PostIndex(r) \/ PutElementInIndex(r)
  \/ DeleteIndexKey(r) \/ PostIndexKey(r)
  \/ DeleteSinglePrefix(r) \/ PostSinglePrefix(r)

-----------------------------------------------------------------------------
(* Extensions                                                              *)

\* The extension is not allowed on this graph; an OPTIONS request is answered
\* by the resource; no extension, or no method of it, is found.
NotInvoked(r) ==
  \/ Invalid(r, {"error", "ok"})
  \/ pc[r] = "received" /\ Caught(r, "notFound")

\* invokeExtension returns a value.  The extension may have written, and one
\* that looks after its own transaction may have committed.
Invoke(r) ==
  /\ pc[r] = "received"
  /\ \E what \in Outcome : returned' = [returned EXCEPT ![r] = what]
  /\ \/ Untouched
     \/ tx' = [tx EXCEPT ![by[r]] = Marked(r)] /\ UNCHANGED <<exists, durable>>
     \/ /\ ~shape[r].auto
        /\ exists' = View(by[r])
        /\ durable' = durable \cup Marked(r).by
        /\ tx' = [tx EXCEPT ![by[r]] = Empty]
  /\ Goto(r, "invoked")
  /\ UNCHANGED <<shape, had, saved>>

\* invokeExtension throws.
InvokeThrows(r) == pc[r] = "received" /\ Caught(r, "error")

\* The extension returned an error response.
ErrorReturned(r, from) ==
  /\ pc[r] = from /\ returned[r] = "error"
  /\ IF shape[r].auto THEN TryRollback(by[r]) ELSE Untouched
  /\ Answer(r, "error")
  /\ UNCHANGED <<shape, had, returned, saved>>

\* The commit is outside the try.
OkReturned(r, from) ==
  /\ pc[r] = from /\ returned[r] = "ok"
  /\ \/ shape[r].auto /\ TryCommit(by[r]) /\ Answer(r, "ok")
     \/ shape[r].auto /\ CommitThrows(by[r]) /\ Answer(r, "error")
     \/ ~shape[r].auto /\ Untouched /\ Answer(r, "ok")
  /\ UNCHANGED <<shape, had, returned, saved>>

NoResponseReturned(r, from) ==
  /\ pc[r] = from /\ returned[r] = "wrongType"
  /\ Answer(r, "error")
  /\ UNCHANGED <<shape, had, returned, saved>>

VertexExtension(r) ==
  /\ Calls(r, "vertexExtension")
  /\ \/ NotInvoked(r) \/ Invoke(r) \/ InvokeThrows(r)
     \/ ErrorReturned(r, "invoked") \/ OkReturned(r, "invoked")
     \/ NoResponseReturned(r, "invoked") /\ TryRollback(by[r])

\* Mutant: every value an extension returns is committed first, as
\* GraphResource does.
EdgeExtension_CommitsFirst(r) ==
  /\ Calls(r, "edgeExtension")
  /\ \/ NotInvoked(r) \/ Invoke(r) \/ InvokeThrows(r)
     \/ /\ pc[r] = "invoked"
        /\ TryCommit(by[r]) /\ Goto(r, "checked")
        /\ UNCHANGED <<shape, had, returned, saved>>
     \/ ErrorReturned(r, "checked") \/ OkReturned(r, "checked")
     \/ NoResponseReturned(r, "checked") /\ Untouched

EdgeExtension(r) ==
  /\ Calls(r, "edgeExtension")
  /\ \/ NotInvoked(r) \/ Invoke(r) \/ InvokeThrows(r)
     \/ ErrorReturned(r, "invoked") \/ OkReturned(r, "invoked")
     \/ NoResponseReturned(r, "invoked") /\ Untouched

\* tryCommit follows invokeExtension at once, inside the try.
GraphExtension(r) ==
  /\ Calls(r, "graphExtension")
  /\ \/ NotInvoked(r) \/ Invoke(r) \/ InvokeThrows(r)
     \/ /\ pc[r] = "invoked"
        /\ \/ TryCommit(by[r]) /\ Goto(r, "checked")
           \/ TryRollback(by[r]) /\ Answer(r, "error")
        /\ UNCHANGED <<shape, had, returned, saved>>
     \/ ErrorReturned(r, "checked") \/ OkReturned(r, "checked")
     \/ NoResponseReturned(r, "checked") /\ Untouched

Extend(r) == VertexExtension(r) \/ EdgeExtension(r) \/ GraphExtension(r)

-----------------------------------------------------------------------------
\* Every request of the bound has been answered.
Quiet == (\A r \in Request : pc[r] = "answered") /\ UNCHANGED vars

Next ==
  \/ \E r \in Request, t \in Thread : Receive(r, t)
  \/ \E r \in Request :
       Read(r) \/ WriteElement(r) \/ WriteIndex(r) \/ Extend(r)
  \/ Quiet

Spec == Init /\ [][Next]_vars

-----------------------------------------------------------------------------
(* Properties                                                              *)

Failed(r) == pc[r] = "answered" /\ answer[r] # "ok"

\* The handlers that stop the transaction on every way out, so that nothing of
\* them is left on the thread.
Clean(s) ==
  \/ s.op \in Reads \cup ElementWrites \cup PrefixWrites \cup {"postIndex"}
  \/ s.op = "deleteIndex" /\ ~s.keys

\* The handlers that build a part of their answer after their commit.
AnswersLate == {"postVertex", "putVertex", "postEdge", "putEdge", "postIndex"}

\* A client whose write is answered with OK can rely on it, whatever else the
\* thread that handled it has done before.
OkMeansDurable ==
  \A r \in Request :
    /\ pc[r] = "answered" /\ answer[r] = "ok"
    /\ shape[r].op \in ElementWrites \cup IndexWrites \cup PrefixWrites
    => r \in durable

\* What an error leaves behind, if the handler stops its transaction on every way
\* out: nothing, then or later, not even through the commit that another
\* request's read ends with; unless the handler failed after its own commit,
\* which only those can that still have to build their answer.  Then the error
\* is answered for a write that is durable and stays so.
ErrorMeansUndone ==
  \A r \in Request :
    Failed(r) /\ Clean(shape[r]) =>
      /\ r \in durable => r \in saved
      /\ r \in saved => r \in durable /\ shape[r].op \in AnswersLate

\* Nobody's commit carries the write of another request, and no thread goes back
\* to the pool with one, but for the writes of handlers that do not stop their
\* transaction on every way out.
NothingIsCarried ==
  /\ \A r \in durable : r \in saved \/ ~Clean(shape[r])
  /\ \A t \in Thread : \A r \in tx[t].by : by[r] = t \/ ~Clean(shape[r])

\* The answer tells what became of a write.
AnswersAreTrue == TypeOK /\ OkMeansDurable /\ ErrorMeansUndone /\ NothingIsCarried

\* A vertex or edge extension whose transaction Rexster looks after and that
\* returns an error has no effect.
ElementExtensionsRollBack ==
  \A r \in Request :
    /\ Failed(r) /\ returned[r] = "error"
    /\ shape[r].op \in {"vertexExtension", "edgeExtension"} /\ shape[r].auto
    => r \notin durable

\* Nor is the transaction of a vertex or edge extension that looks after it
\* itself committed on its behalf.
ExtensionTransactions ==
  /\ []ElementExtensionsRollBack
  /\ [][\A r \in Request :
          /\ pc[r] = "invoked" /\ pc'[r] # pc[r]
          /\ shape[r].op \in {"vertexExtension", "edgeExtension"} /\ ~shape[r].auto
          => durable' = durable]_vars
=============================================================================
