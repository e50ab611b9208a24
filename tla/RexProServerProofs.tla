------------------------- MODULE RexProServerProofs -------------------------
(***************************************************************************)
(* Theorems about RexProServer, for every set of workers, keys and         *)
(* requests and whatever the requests ask for.  The argument is the        *)
(* inductive invariant IInv of RexProServer: one lemma per action, with    *)
(* one step for each conjunct that the action could disturb.  The second   *)
(* part is about transactions and the refinement of AtomicScripts.         *)
(***************************************************************************)
EXTENDS RexProServer, TLAPS, SequenceTheorems

-----------------------------------------------------------------------------
(* Maps of bindings                                                        *)

\* The operators on maps yield maps.
LEMMA BindingsTypes ==
  ASSUME NEW b \in Bindings, NEW r \in Request
  PROVE  With(b, r) \in Bindings /\ Torn(b) \subseteq Bindings /\ Empty \in Bindings
<1>1. With(b, r) \in Bindings
  BY DEF With, Bindings
<1>2. Torn(b) \subseteq Bindings
  BY DEF Torn, Bindings
<1> QED
  BY <1>1, <1>2 DEF Empty, Bindings

\* So do the merge,
LEMMA BoundType ==
  ASSUME TypeOK, NEW r \in Request, shape[r].inSession => key[r] \in Key, binding' \in Bound(r)
  PROVE  binding' \in [Key -> Bindings]
<1>1. CASE shape[r].inSession /\ ~shape[r].isolate
  <2>1. With(binding[key[r]], r) \in Bindings
    BY <1>1, BindingsTypes DEF TypeOK
  <2>2. PICK c \in Bindings : binding' = [binding EXCEPT ![key[r]] = c]
    BY <1>1, <2>1, BindingsTypes DEF Bound
  <2> QED
    BY <2>2 DEF TypeOK
<1>2. CASE ~(shape[r].inSession /\ ~shape[r].isolate)
  BY <1>2 DEF Bound, TypeOK
<1> QED
  BY <1>1, <1>2

\* the copy of an isolated request,
LEMMA CopiedType ==
  ASSUME TypeOK, NEW r \in Request, shape[r].inSession => key[r] \in Key
  PROVE  Copied(r) \in Bindings
<1>1. Empty \in Bindings
  BY DEF Empty, Bindings
<1>2. shape[r].inSession => binding[key[r]] \in Bindings
  BY DEF TypeOK
<1> QED
  BY <1>1, <1>2, BindingsTypes DEF Copied

\* and what a script finds.
LEMMA VisibleType ==
  ASSUME TypeOK, NEW r \in Request, shape[r].inSession => key[r] \in Key, NEW b \in Visible(r)
  PROVE  b \in Bindings
<1>1. copy[r] \in Bindings
  BY DEF TypeOK
<1>2. shape[r].inSession => binding[key[r]] \in Bindings
  BY DEF TypeOK
<1> QED
  BY <1>1, <1>2, BindingsTypes DEF Visible

-----------------------------------------------------------------------------
(* What the invariant says of threads                                      *)

\* A task that somebody waits for has a thread: its session's or its worker.
LEMMA TaskHasThread ==
  ASSUME IInv, NEW r \in Request, pc[r] = "waiting"
  PROVE  /\ ThreadOf(r) \in Thread
         /\ shape[r].inSession => ThreadOf(r) = key[r] /\ key[r] \in Key
         /\ ~shape[r].inSession => ThreadOf(r) = by[r] /\ by[r] \in Worker
<1>1. shape[r].inSession => key[r] \in Key
  BY DEF IInv, SessionsAreCreated
<1>2. by[r] \in Worker
  BY DEF IInv, TypeOK, WorkersAreBusyOnce
<1> QED
  BY <1>1, <1>2 DEF ThreadOf, Thread

\* Two running tasks are on two threads.
LEMMA OneTaskPerThread ==
  ASSUME IInv, NEW r \in Request, NEW q \in Request,
         Active(r), Active(q), ThreadOf(r) = ThreadOf(q)
  PROVE  r = q
<1>1. pc[r] = "waiting" /\ pc[q] = "waiting"
  BY DEF IInv, TasksAreAwaited
<1>2. CASE shape[r].inSession /\ shape[q].inSession
  BY <1>1, <1>2, TaskHasThread DEF IInv, TasksAreAwaited
<1>3. CASE ~shape[r].inSession /\ ~shape[q].inSession
  BY <1>1, <1>3, TaskHasThread, ConstantsAssumption DEF IInv, WorkersAreBusyOnce
<1>4. CASE shape[r].inSession /\ ~shape[q].inSession
  BY <1>1, <1>4, TaskHasThread, ConstantsAssumption
<1>5. CASE ~shape[r].inSession /\ shape[q].inSession
  BY <1>1, <1>5, TaskHasThread, ConstantsAssumption
<1> QED
  BY <1>2, <1>3, <1>4, <1>5

\* Whatever the worker of r does to the transaction of its own thread, no other
\* running task is on that thread.
LEMMA WorkerThreadIsOwn ==
  ASSUME IInv, NEW r \in Request, by[r] # None,
         NEW q \in Request, Active(q), q # r
  PROVE  ThreadOf(q) # by[r]
<1>1. pc[q] = "waiting" /\ by[r] \in Worker
  BY DEF IInv, TasksAreAwaited, TypeOK
<1>2. CASE shape[q].inSession
  BY <1>1, <1>2, TaskHasThread, ConstantsAssumption
<1>3. CASE ~shape[q].inSession
  BY <1>1, <1>3, TaskHasThread, ConstantsAssumption DEF IInv, WorkersAreBusyOnce
<1> QED
  BY <1>2, <1>3

-----------------------------------------------------------------------------
(* Steps of the worker that handles r                                      *)

\* Nothing of any other request moves, and r stays with its worker.
OnlyMoves(r) ==
  /\ by' = by /\ shape' = shape
  /\ \A q \in Request \ {r} :
       pc'[q] = pc[q] /\ response'[q] = response[q] /\ key'[q] = key[q]
  /\ pc[r] \notin {"new", "sent"} /\ pc'[r] \notin {"new", "sent"}

LEMMA WorkersStayBusyOnce ==
  ASSUME IInv, NEW r \in Request, OnlyMoves(r)
  PROVE  WorkersAreBusyOnce'
  BY DEF IInv, WorkersAreBusyOnce, OnlyMoves

\* A session is created that nobody used before.
LEMMA OpenSessionKeepsIInv ==
  ASSUME IInv, NEW r \in Request, OpenSession(r)
  PROVE  IInv'
<1>1. PICK k \in Key, what \in {"graphConfig", "invalidMessage", "session"} :
        /\ life[k] = "none"
        /\ life' = [life EXCEPT ![k] = "live"]
        /\ sessions' = sessions \cup {k}
        /\ hasGraph' = [hasGraph EXCEPT ![k] = shape[r].graph = "known"]
        /\ key' \in {key, [key EXCEPT ![r] = k]}
        /\ Respond(r, what)
  BY DEF OpenSession
<1> USE DEF IInv
<1>2. OnlyMoves(r)
  BY <1>1 DEF TypeOK, OpenSession, Respond, OnlyMoves
<1>3. stage[r] = "none" /\ pc[r] = "received" /\ pc'[r] = "reply" /\ response'[r] # "result"
  BY <1>1 DEF OpenSession, TasksAreAwaited, Respond, TypeOK
<1>4. TypeOK'
  <2>1. life' \in [Key -> {"none", "live", "killed"}] /\ sessions' \subseteq Key
    BY <1>1 DEF TypeOK
  <2>2. hasGraph' \in [Key -> BOOLEAN]
    BY <1>1 DEF TypeOK
  <2>3. key' \in [Request -> Key \cup {NoKey, StaleKey}]
    BY <1>1 DEF TypeOK
  <2>4. pc' \in [Request -> PC] /\ response' \in [Request -> Response]
    BY <1>1 DEF TypeOK, Respond, PC, Response
  <2> QED
    BY <2>1, <2>2, <2>3, <2>4 DEF TypeOK, OpenSession, taskVars, txVars, monVars
<1>5. WorkersAreBusyOnce'
  BY <1>2, WorkersStayBusyOnce
<1>6. TasksAreAwaited'
  BY <1>2, <1>3 DEF OpenSession, TasksAreAwaited, Active, OnlyMoves, taskVars
<1>7. QueuesAreSound'
  BY <1>2, <1>3 DEF OpenSession, QueuesAreSound, OnlyMoves, taskVars, TypeOK
<1>8. /\ \A j \in Key : j # k => life'[j] = life[j] /\ hasGraph'[j] = hasGraph[j]
      /\ life'[k] = "live" /\ key'[r] \in {key[r], k}
      /\ \A q \in Request : key[q] # k
  BY <1>1 DEF TypeOK, SessionsAreCreated
<1>9. SessionsAreCreated'
  <2>1. \A q \in Request : key'[q] \in Key => life'[key'[q]] # "none"
    BY <1>2, <1>8 DEF OnlyMoves, SessionsAreCreated
  <2>2. \A q \in Request :
          pc'[q] \in {"found", "bound", "waiting", "rejected"} /\ shape'[q].inSession
            => key'[q] \in Key
    BY <1>2, <1>3 DEF OnlyMoves, SessionsAreCreated
  <2>3. \A q \in Request : pc'[q] = "killed" => key'[q] \in Key /\ life'[key'[q]] = "killed"
    BY <1>2, <1>3, <1>8 DEF OnlyMoves, SessionsAreCreated
  <2>4. mpc = "remove" => mkey # k
    BY <1>1 DEF SessionsAreCreated
  <2>5. \A j \in sessions' : life'[j] # "none"
    BY <1>1, <1>8 DEF SessionsAreCreated, TypeOK
  <2> QED
    BY <1>8, <2>1, <2>2, <2>3, <2>4, <2>5 DEF OpenSession, SessionsAreCreated, monVars
<1>10. WritesAreAccounted'
  <2>1. \A q \in Request \ {r} : Transactional(q)' = Transactional(q) /\ ThreadOf(q)' = ThreadOf(q)
    BY <1>2, <1>8 DEF OnlyMoves, Transactional, HasGraph, ThreadOf
  <2> QED
    BY <1>2, <1>3, <2>1 DEF OpenSession, OnlyMoves, WritesAreAccounted, taskVars, txVars
<1>11. NoLeakedExecutor'
  BY <1>1 DEF NoLeakedExecutor, TypeOK
<1> QED
  BY <1>4, <1>5, <1>6, <1>7, <1>9, <1>10, <1>11

\* What a worker does for a request that has no task, or a failed one, perhaps
\* to the transaction of its own thread, disturbs no task.
LEMMA WorkerDisturbsNoTask ==
  ASSUME IInv, NEW r \in Request, OnlyMoves(r),
         stage[r] = "none" \/ (stage[r] = "failed" /\ pc'[r] = "reply"),
         pc'[r] # "waiting", response'[r] # "result",
         key' = key, hasGraph' = hasGraph, durable' = durable, UNCHANGED taskVars,
         \A t \in Thread : t # by[r] => tx'[t] = tx[t]
  PROVE  /\ WorkersAreBusyOnce' /\ TasksAreAwaited'
         /\ QueuesAreSound' /\ WritesAreAccounted'
<1> USE DEF IInv
<1>1. WorkersAreBusyOnce'
  BY WorkersStayBusyOnce
<1>2. TasksAreAwaited'
  BY DEF TasksAreAwaited, Active, OnlyMoves, taskVars
<1>3. QueuesAreSound'
  BY DEF QueuesAreSound, OnlyMoves, taskVars
<1>4. WritesAreAccounted'
  <2>1. \A q \in Request : Transactional(q)' = Transactional(q) /\ ThreadOf(q)' = ThreadOf(q)
    BY DEF OnlyMoves, Transactional, HasGraph, ThreadOf
  <2>2. \A q \in Request : Active(q) => tx'[ThreadOf(q)] = tx[ThreadOf(q)]
    <3> TAKE q \in Request
    <3> HAVE Active(q)
    <3>1. by[r] # None /\ q # r /\ pc[q] = "waiting"
      BY DEF Active, WorkersAreBusyOnce, OnlyMoves, TasksAreAwaited
    <3> QED
      BY <3>1, TaskHasThread, WorkerThreadIsOwn
  <2>3. \A q \in Request : stage'[q] \in {"evaluated", "written"} =>
          q \in tx'[ThreadOf(q)'] \cup durable'
    BY <2>1, <2>2 DEF WritesAreAccounted, Active, taskVars
  <2> QED
    BY <2>1, <2>3 DEF OnlyMoves, WritesAreAccounted, taskVars
<1> QED
  BY <1>1, <1>2, <1>3, <1>4

\* A session is shut down, for the client that asks for it.
LEMMA KillSessionKeepsIInv ==
  ASSUME IInv, NEW r \in Request, KillSession(r)
  PROVE  IInv'
<1> USE DEF IInv
<1>1. stage[r] = "none" /\ pc[r] = "received" /\ pc'[r] \in {"reply", "killed"}
      /\ response'[r] # "result"
  BY DEF KillSession, Respond, TasksAreAwaited, WritesAreAccounted, TypeOK
<1>2. OnlyMoves(r)
  BY <1>1 DEF TypeOK, KillSession, Respond, OnlyMoves
<1>3. /\ WorkersAreBusyOnce' /\ TasksAreAwaited'
      /\ QueuesAreSound' /\ WritesAreAccounted'
  BY <1>1, <1>2, WorkerDisturbsNoTask DEF KillSession, txVars
<1>4. life' = life \/ (key[r] \in sessions /\ life' = [life EXCEPT ![key[r]] = "killed"])
  BY DEF KillSession, Shutdown
<1>5. TypeOK'
  <2>1. life' \in [Key -> {"none", "live", "killed"}]
    BY <1>4 DEF TypeOK
  <2>2. pc' \in [Request -> PC]
    <3>1. pc \in [Request -> PC]
      BY DEF TypeOK
    <3> QED
      BY <3>1 DEF KillSession, Respond, PC
  <2>3. response' \in [Request -> Response]
    BY DEF TypeOK, KillSession, Respond, Response
  <2> QED
    BY <2>1, <2>2, <2>3 DEF TypeOK, KillSession, taskVars, txVars, monVars
<1>6. SessionsAreCreated'
  <2>1. \A k \in Key : life'[k] = life[k] \/ (life'[k] = "killed" /\ k \in sessions)
    BY <1>4 DEF TypeOK
  <2>2. pc'[r] = "killed" => key[r] \in Key /\ life'[key[r]] = "killed"
    BY <1>1 DEF KillSession, Respond, Shutdown, TypeOK
  <2> QED
    BY <1>1, <1>2, <2>1, <2>2 DEF SessionsAreCreated, KillSession, OnlyMoves, monVars, TypeOK
<1>7. NoLeakedExecutor'
  BY <1>4 DEF NoLeakedExecutor, KillSession, TypeOK
<1> QED
  BY <1>3, <1>5, <1>6, <1>7

\* A session that has been shut down leaves the map.
LEMMA RemoveSessionKeepsIInv ==
  ASSUME IInv, NEW r \in Request, RemoveSession(r)
  PROVE  IInv'
<1> USE DEF IInv
<1>1. stage[r] = "none" /\ pc[r] = "killed" /\ pc'[r] = "reply" /\ response'[r] # "result"
  BY DEF RemoveSession, Respond, TasksAreAwaited, TypeOK
<1>2. OnlyMoves(r)
  BY <1>1 DEF TypeOK, RemoveSession, Respond, OnlyMoves
<1>3. /\ WorkersAreBusyOnce' /\ TasksAreAwaited'
      /\ QueuesAreSound' /\ WritesAreAccounted'
  BY <1>1, <1>2, WorkerDisturbsNoTask DEF RemoveSession, txVars
<1>4. TypeOK'
  BY DEF TypeOK, RemoveSession, Respond, Removed, PC, Response, taskVars, txVars, monVars
<1>5. SessionsAreCreated'
  BY <1>1, <1>2 DEF SessionsAreCreated, RemoveSession, Removed, OnlyMoves, monVars
<1>6. NoLeakedExecutor'
  BY <1>1 DEF NoLeakedExecutor, SessionsAreCreated, RemoveSession, Removed
<1> QED
  BY <1>3, <1>4, <1>5, <1>6

\* A script is refused, or its session found.
LEMMA FindSessionKeepsIInv ==
  ASSUME IInv, NEW r \in Request, FindSession(r)
  PROVE  IInv'
<1> USE DEF IInv
<1>1. stage[r] = "none" /\ pc[r] = "received" /\ pc'[r] \in {"reply", "found"}
      /\ response'[r] # "result"
  <2>1. stage[r] = "none" /\ pc[r] = "received" /\ response[r] # "result"
    BY DEF FindSession, TasksAreAwaited, WritesAreAccounted
  <2>2. pc'[r] \in {"reply", "found"}
    BY DEF FindSession, Respond, TypeOK
  <2>3. response'[r] # "result"
    BY <2>1 DEF FindSession, Respond, TypeOK
  <2> QED
    BY <2>1, <2>2, <2>3
<1>2. OnlyMoves(r)
  BY <1>1 DEF TypeOK, FindSession, Respond, OnlyMoves
<1>3. /\ WorkersAreBusyOnce' /\ TasksAreAwaited'
      /\ QueuesAreSound' /\ WritesAreAccounted'
  BY <1>1, <1>2, WorkerDisturbsNoTask DEF FindSession, sessVars, txVars
<1>4. TypeOK'
  <2>1. pc' \in [Request -> PC]
    <3>1. pc \in [Request -> PC]
      BY DEF TypeOK
    <3> QED
      BY <3>1 DEF FindSession, Respond, PC
  <2>2. response' \in [Request -> Response]
    BY DEF TypeOK, FindSession, Respond, Response
  <2> QED
    BY <2>1, <2>2 DEF TypeOK, FindSession, sessVars, taskVars, txVars, monVars
<1>5. SessionsAreCreated'
  <2>1. pc'[r] = "found" /\ shape[r].inSession => key[r] \in Key
    BY <1>1 DEF FindSession, Respond, TypeOK
  <2> QED
    BY <1>1, <1>2, <2>1 DEF SessionsAreCreated, FindSession, OnlyMoves, sessVars, monVars
<1>6. NoLeakedExecutor'
  BY DEF NoLeakedExecutor, FindSession, sessVars
<1> QED
  BY <1>3, <1>4, <1>5, <1>6

\* The script is bound, or its language is unknown and the worker rolls back.
LEMMA BindKeepsIInv ==
  ASSUME IInv, NEW r \in Request, Bind(r)
  PROVE  IInv'
<1> USE DEF IInv
<1>1. stage[r] = "none" /\ pc[r] = "found" /\ pc'[r] \in {"reply", "bound"}
      /\ response'[r] # "result"
  <2>1. stage[r] = "none" /\ pc[r] = "found" /\ response[r] # "result"
    BY DEF Bind, TasksAreAwaited, WritesAreAccounted
  <2> QED
    BY <2>1 DEF Bind, Respond, FailureResponse, TypeOK
<1>2. OnlyMoves(r)
  BY <1>1 DEF TypeOK, Bind, Respond, OnlyMoves
<1>3. \A t \in Thread : t # by[r] => tx'[t] = tx[t]
  BY DEF Bind, TypeOK
<1>4. /\ WorkersAreBusyOnce' /\ TasksAreAwaited'
      /\ QueuesAreSound' /\ WritesAreAccounted'
  BY <1>1, <1>2, <1>3, WorkerDisturbsNoTask DEF Bind
<1>5. TypeOK'
  <2>1. pc' \in [Request -> PC]
    BY DEF TypeOK, Bind, Respond, PC
  <2>2. response' \in [Request -> Response]
    BY DEF TypeOK, Bind, Respond, FailureResponse, Response
  <2>3. tx' \in [Thread -> SUBSET Request]
    BY DEF TypeOK, Bind
  <2>4. binding' \in [Key -> Bindings]
    <3>1. binding' = binding \/ binding' \in Bound(r)
      BY DEF Bind
    <3>2. shape[r].inSession => key[r] \in Key
      BY <1>1 DEF SessionsAreCreated
    <3>3. binding \in [Key -> Bindings]
      BY DEF TypeOK
    <3> QED
      BY <3>1, <3>2, <3>3, BoundType
  <2>5. copy' \in [Request -> Bindings]
    <3>1. copy' = copy \/ copy' = [copy EXCEPT ![r] = Copied(r)]
      BY DEF Bind
    <3>2. Copied(r) \in Bindings
      BY <1>1, CopiedType DEF SessionsAreCreated
    <3> QED
      BY <3>1, <3>2 DEF TypeOK
  <2> QED
    BY <2>1, <2>2, <2>3, <2>4, <2>5 DEF TypeOK, Bind, taskVars, monVars
<1>6. SessionsAreCreated'
  BY <1>1, <1>2 DEF SessionsAreCreated, Bind, OnlyMoves, monVars
<1>7. NoLeakedExecutor'
  BY DEF NoLeakedExecutor, Bind
<1> QED
  BY <1>4, <1>5, <1>6, <1>7

\* The task is queued, or refused by an executor that has been shut down.
LEMMA SubmitKeepsIInv ==
  ASSUME IInv, NEW r \in Request, Submit(r)
  PROVE  IInv'
<1> USE DEF IInv
<1>1. /\ stage[r] = "none" /\ pc[r] = "bound" /\ shape[r].inSession /\ key[r] \in Key
      /\ response[r] # "result"
  BY DEF Submit, TasksAreAwaited, SessionsAreCreated, WritesAreAccounted
<1>2. CASE pc' = [pc EXCEPT ![r] = "rejected"] /\ UNCHANGED <<queue, stage>>
  <2>1. pc'[r] = "rejected" /\ OnlyMoves(r)
    BY <1>1, <1>2 DEF TypeOK, Submit, OnlyMoves
  <2>2. /\ WorkersAreBusyOnce' /\ TasksAreAwaited'
        /\ QueuesAreSound' /\ WritesAreAccounted'
    BY <1>1, <1>2, <2>1, WorkerDisturbsNoTask DEF Submit, sessVars, txVars, taskVars
  <2>3. TypeOK'
    BY <1>2 DEF TypeOK, Submit, PC, sessVars, txVars, monVars
  <2>4. SessionsAreCreated'
    BY <1>1, <2>1 DEF SessionsAreCreated, Submit, OnlyMoves, sessVars, monVars
  <2>5. NoLeakedExecutor'
    BY DEF NoLeakedExecutor, Submit, sessVars
  <2> QED
    BY <2>2, <2>3, <2>4, <2>5
<1>3. CASE /\ queue' = [queue EXCEPT ![key[r]] = Append(@, r)]
           /\ stage' = [stage EXCEPT ![r] = "queued"]
           /\ pc' = [pc EXCEPT ![r] = "waiting"]
  <2>1. /\ pc'[r] = "waiting" /\ stage'[r] = "queued" /\ OnlyMoves(r)
        /\ \A q \in Request \ {r} : stage'[q] = stage[q]
    BY <1>1, <1>3 DEF TypeOK, Submit, OnlyMoves
  <2>2. queue' \in [Key -> Seq(Request)]
    <3>1. Append(queue[key[r]], r) \in Seq(Request)
      BY <1>1 DEF TypeOK
    <3> QED
      BY <1>3, <3>1 DEF TypeOK
  <2>3. TypeOK'
    BY <1>3, <2>2 DEF TypeOK, Submit, PC, Stage, sessVars, txVars, monVars
  <2>4. TasksAreAwaited'
    BY <1>1, <2>1 DEF TasksAreAwaited, Active, OnlyMoves, Submit
  <2>5. QueuesAreSound'
    <3>1. \A k \in Key : \A i \in 1..Len(queue[k]) : queue[k][i] \in Request /\ queue[k][i] # r
      BY <1>1 DEF QueuesAreSound, TypeOK
    <3>2. ASSUME NEW k \in Key, k # key[r] PROVE queue'[k] = queue[k]
      BY <1>3, <3>2 DEF TypeOK
    <3>3. /\ Len(queue'[key[r]]) = Len(queue[key[r]]) + 1
          /\ Len(queue[key[r]]) \in Nat
          /\ queue'[key[r]][Len(queue[key[r]]) + 1] = r
          /\ \A i \in 1..Len(queue[key[r]]) : queue'[key[r]][i] = queue[key[r]][i]
      <4>1. queue'[key[r]] = Append(queue[key[r]], r) /\ queue[key[r]] \in Seq(Request)
        BY <1>1, <1>3 DEF TypeOK
      <4> QED
        BY <4>1
    <3>4. ASSUME NEW k \in Key
          PROVE  /\ \A i \in 1..Len(queue'[k]) :
                      LET q == queue'[k][i]
                      IN stage'[q] = "queued" /\ shape'[q].inSession /\ key'[q] = k
                 /\ \A i, j \in 1..Len(queue'[k]) : queue'[k][i] = queue'[k][j] => i = j
      <4>1. CASE k # key[r]
        BY <2>1, <3>1, <3>2, <4>1 DEF QueuesAreSound, OnlyMoves, Submit
      <4>2. CASE k = key[r]
        <5>1. \A i \in 1..Len(queue'[k]) :
                \/ i = Len(queue[k]) + 1 /\ queue'[k][i] = r
                \/ i \in 1..Len(queue[k]) /\ queue'[k][i] = queue[k][i] /\ queue[k][i] # r
          BY <3>1, <3>3, <4>2
        <5>2. shape' = shape /\ key' = key
          BY DEF Submit
        <5>3. \A i \in 1..Len(queue'[k]) :
                LET q == queue'[k][i]
                IN stage'[q] = "queued" /\ shape'[q].inSession /\ key'[q] = k
          BY <1>1, <2>1, <3>1, <4>2, <5>1, <5>2 DEF QueuesAreSound
        <5>4. \A i, j \in 1..Len(queue'[k]) : queue'[k][i] = queue'[k][j] => i = j
          BY <5>1 DEF QueuesAreSound
        <5> QED
          BY <5>3, <5>4
      <4> QED
        BY <4>1, <4>2
    <3> QED
      BY <3>4 DEF QueuesAreSound
  <2>6. SessionsAreCreated'
    BY <1>1, <2>1 DEF SessionsAreCreated, Submit, OnlyMoves, sessVars, monVars
  <2>7. WritesAreAccounted'
    <3>1. \A q \in Request : Transactional(q)' = Transactional(q) /\ ThreadOf(q)' = ThreadOf(q)
      BY DEF Submit, Transactional, HasGraph, ThreadOf, sessVars
    <3> QED
      BY <1>1, <2>1, <3>1 DEF WritesAreAccounted, Submit, OnlyMoves, txVars
  <2>8. NoLeakedExecutor'
    BY DEF NoLeakedExecutor, Submit, sessVars
  <2> QED
    BY <2>1, <2>3, <2>4, <2>5, <2>6, <2>7, <2>8, WorkersStayBusyOnce
<1> QED
  BY <1>2, <1>3 DEF Submit

\* Without a session the worker is the thread of the script.
LEMMA CallHereKeepsIInv ==
  ASSUME IInv, NEW r \in Request, CallHere(r)
  PROVE  IInv'
<1> USE DEF IInv
<1>1. /\ stage[r] = "none" /\ pc[r] = "bound" /\ ~shape[r].inSession
      /\ response[r] # "result" /\ by[r] \in Worker
  <2>1. stage[r] = "none" /\ pc[r] = "bound" /\ ~shape[r].inSession /\ response[r] # "result"
    BY DEF CallHere, TasksAreAwaited, WritesAreAccounted
  <2>2. by[r] \in Worker
    BY <2>1 DEF WorkersAreBusyOnce, TypeOK
  <2> QED
    BY <2>1, <2>2
<1>2. /\ pc'[r] = "waiting" /\ stage'[r] = "started" /\ OnlyMoves(r)
      /\ \A q \in Request \ {r} : stage'[q] = stage[q]
      /\ \A t \in Thread : t # by[r] => tx'[t] = tx[t]
  BY <1>1 DEF TypeOK, CallHere, OnlyMoves
<1>3. TypeOK'
  <2>1. tx' \in [Thread -> SUBSET Request]
    BY <1>1 DEF TypeOK, CallHere, AtStart, ThreadOf, Thread
  <2> QED
    BY <2>1 DEF TypeOK, CallHere, PC, Stage, sessVars, monVars
<1>4. TasksAreAwaited'
  BY <1>1, <1>2 DEF TasksAreAwaited, Active, OnlyMoves, CallHere
<1>5. QueuesAreSound'
  <2>1. \A k \in Key : \A i \in 1..Len(queue[k]) : queue[k][i] \in Request /\ queue[k][i] # r
    BY <1>1 DEF QueuesAreSound, TypeOK
  <2> QED
    BY <1>2, <2>1 DEF QueuesAreSound, OnlyMoves, CallHere
<1>6. SessionsAreCreated'
  BY <1>1, <1>2 DEF SessionsAreCreated, CallHere, OnlyMoves, sessVars, monVars
<1>7. WritesAreAccounted'
  <2>1. \A q \in Request : Transactional(q)' = Transactional(q) /\ ThreadOf(q)' = ThreadOf(q)
    BY DEF CallHere, Transactional, HasGraph, ThreadOf, sessVars
  <2>2. \A q \in Request : q # r /\ Active(q) => tx'[ThreadOf(q)] = tx[ThreadOf(q)]
    <3> TAKE q \in Request
    <3> HAVE q # r /\ Active(q)
    <3>1. by[r] # None /\ pc[q] = "waiting"
      BY <1>1, ConstantsAssumption DEF TasksAreAwaited
    <3> QED
      BY <1>2, <3>1, TaskHasThread, WorkerThreadIsOwn
  <2> QED
    BY <1>1, <1>2, <2>1, <2>2 DEF WritesAreAccounted, CallHere, OnlyMoves, Active
<1>8. NoLeakedExecutor'
  BY DEF NoLeakedExecutor, CallHere, sessVars
<1> QED
  BY <1>2, <1>3, <1>4, <1>5, <1>6, <1>7, <1>8, WorkersStayBusyOnce

\* The task succeeded: the response that it wrote is the one to send.
LEMMA SucceededKeepsIInv ==
  ASSUME IInv, NEW r \in Request, Succeeded(r)
  PROVE  IInv'
<1> USE DEF IInv
<1>1. stage[r] = "ok" /\ pc[r] = "waiting" /\ pc'[r] = "reply" /\ OnlyMoves(r)
  BY DEF Succeeded, OnlyMoves, TypeOK
<1>2. TypeOK'
  BY DEF TypeOK, Succeeded, Touched, PC, taskVars, txVars, monVars
<1>3. TasksAreAwaited'
  BY <1>1 DEF TasksAreAwaited, Active, OnlyMoves, Succeeded, taskVars
<1>4. QueuesAreSound'
  BY DEF QueuesAreSound, Succeeded, taskVars
<1>5. SessionsAreCreated'
  BY <1>1 DEF SessionsAreCreated, Succeeded, OnlyMoves, monVars
<1>6. WritesAreAccounted'
  <2>1. \A q \in Request : Transactional(q)' = Transactional(q) /\ ThreadOf(q)' = ThreadOf(q)
    BY DEF Succeeded, Transactional, HasGraph, ThreadOf
  <2> QED
    BY <1>1, <2>1 DEF WritesAreAccounted, Succeeded, OnlyMoves, taskVars, txVars
<1>7. NoLeakedExecutor'
  BY DEF NoLeakedExecutor, Succeeded
<1> QED
  BY <1>1, <1>2, <1>3, <1>4, <1>5, <1>6, <1>7, WorkersStayBusyOnce

\* The task failed or was refused: the worker rolls back on its own thread.
LEMMA FailedKeepsIInv ==
  ASSUME IInv, NEW r \in Request, Failed(r)
  PROVE  IInv'
<1> USE DEF IInv
<1>1. /\ \/ pc[r] = "rejected" /\ stage[r] = "none"
         \/ pc[r] = "waiting" /\ stage[r] = "failed"
      /\ pc'[r] = "reply" /\ response'[r] = "scriptFailure"
  BY DEF Failed, Respond, FailureResponse, TasksAreAwaited, TypeOK
<1>2. OnlyMoves(r)
  BY <1>1 DEF Failed, Respond, OnlyMoves, TypeOK
<1>3. \A t \in Thread : t # by[r] => tx'[t] = tx[t]
  BY DEF Failed, TypeOK
<1>4. /\ WorkersAreBusyOnce' /\ TasksAreAwaited'
      /\ QueuesAreSound' /\ WritesAreAccounted'
  BY <1>1, <1>2, <1>3, WorkerDisturbsNoTask DEF Failed
<1>5. TypeOK'
  <2>1. pc' \in [Request -> PC] /\ response' \in [Request -> Response]
    BY DEF TypeOK, Failed, Respond, FailureResponse, PC, Response
  <2>2. tx' \in [Thread -> SUBSET Request] /\ idle' \in [Key -> BOOLEAN]
    BY DEF TypeOK, Failed, Touched
  <2> QED
    BY <2>1, <2>2 DEF TypeOK, Failed, taskVars, monVars
<1>6. SessionsAreCreated'
  BY <1>1, <1>2 DEF SessionsAreCreated, Failed, OnlyMoves, monVars
<1>7. NoLeakedExecutor'
  BY DEF NoLeakedExecutor, Failed
<1> QED
  BY <1>4, <1>5, <1>6, <1>7

\* The response is written and the worker free again.
LEMMA ReplyKeepsIInv ==
  ASSUME IInv, NEW r \in Request, Reply(r)
  PROVE  IInv'
<1> USE DEF IInv
<1>1. /\ pc[r] = "reply" /\ pc'[r] = "sent" /\ by'[r] = None
      /\ \A q \in Request \ {r} : pc'[q] = pc[q] /\ by'[q] = by[q]
  BY DEF Reply, TypeOK
<1>2. TypeOK'
  BY DEF TypeOK, Reply, PC, sessVars, taskVars, txVars, monVars
<1>3. WorkersAreBusyOnce'
  BY <1>1 DEF WorkersAreBusyOnce
<1>4. TasksAreAwaited'
  BY <1>1 DEF TasksAreAwaited, Active, Reply, taskVars
<1>5. QueuesAreSound'
  BY DEF QueuesAreSound, Reply, taskVars
<1>6. SessionsAreCreated'
  BY <1>1 DEF SessionsAreCreated, Reply, sessVars, monVars
<1>7. WritesAreAccounted'
  <2>1. \A q \in Request : Transactional(q)' = Transactional(q)
    BY DEF Reply, Transactional, HasGraph, sessVars
  <2>2. \A q \in Request : Active(q) => ThreadOf(q)' = ThreadOf(q)
    BY <1>1 DEF Reply, TasksAreAwaited, ThreadOf
  <2> QED
    BY <1>1, <2>1, <2>2 DEF WritesAreAccounted, Active, Reply, taskVars, txVars
<1>8. NoLeakedExecutor'
  BY DEF NoLeakedExecutor, Reply, sessVars
<1> QED
  BY <1>2, <1>3, <1>4, <1>5, <1>6, <1>7, <1>8

\* A free worker takes a request, which names a session that exists or none.
LEMMA ReceiveKeepsIInv ==
  ASSUME IInv, NEW r \in Request, NEW w \in Worker, Receive(r, w)
  PROVE  IInv'
<1> USE DEF IInv
<1>1. PICK s \in Shape, k \in Known \cup {NoKey, StaleKey} :
        shape' = [shape EXCEPT ![r] = s] /\ key' = [key EXCEPT ![r] = k]
  BY DEF Receive
<1>2. s \in ShapeType /\ k \in Key \cup {NoKey, StaleKey} /\ (k \in Key => life[k] # "none")
  <2>1. k \in Known => k \in Key \cup {NoKey, StaleKey} /\ (k \in Key => life[k] # "none")
    BY DEF Known, TypeOK, SessionsAreCreated
  <2> QED
    BY <2>1, ConstantsAssumption
<1>3. /\ pc[r] = "new" /\ pc'[r] = "received" /\ by'[r] = w /\ key'[r] = k
      /\ stage[r] = "none"
      /\ \A q \in Request \ {r} : /\ pc'[q] = pc[q] /\ by'[q] = by[q]
                                  /\ shape'[q] = shape[q] /\ key'[q] = key[q]
  BY <1>1 DEF Receive, TypeOK, TasksAreAwaited
<1>4. TypeOK'
  <2>1. shape' \in [Request -> ShapeType] /\ key' \in [Request -> Key \cup {NoKey, StaleKey}]
    BY <1>1, <1>2 DEF TypeOK
  <2>2. by' \in [Request -> Worker \cup {None}] /\ pc' \in [Request -> PC]
    BY DEF Receive, TypeOK, PC
  <2>3. before' \in [Request -> SUBSET Request]
    <3>1. Answered \subseteq Request
      BY DEF Answered
    <3> QED
      BY <3>1 DEF Receive, TypeOK
  <2> QED
    BY <2>1, <2>2, <2>3 DEF Receive, TypeOK, sessVars, taskVars, txVars, monVars
<1>5. WorkersAreBusyOnce'
  <2>1. \A q \in Request : by[q] # w
    BY DEF Receive, FreeWorker
  <2>2. w # None
    BY ConstantsAssumption
  <2> QED
    BY <1>3, <2>1, <2>2 DEF WorkersAreBusyOnce
<1>6. TasksAreAwaited'
  BY <1>3 DEF TasksAreAwaited, Active, Receive, taskVars
<1>7. QueuesAreSound'
  <2>1. \A j \in Key : \A i \in 1..Len(queue[j]) : queue[j][i] \in Request /\ queue[j][i] # r
    BY <1>3 DEF QueuesAreSound, TypeOK
  <2> QED
    BY <1>3, <2>1 DEF QueuesAreSound, Receive, taskVars
<1>8. SessionsAreCreated'
  BY <1>2, <1>3 DEF SessionsAreCreated, Receive, sessVars, monVars
<1>9. WritesAreAccounted'
  <2>1. \A q \in Request \ {r} : Transactional(q)' = Transactional(q) /\ ThreadOf(q)' = ThreadOf(q)
    BY <1>3 DEF Receive, Transactional, HasGraph, ThreadOf, sessVars
  <2> QED
    BY <1>3, <2>1 DEF WritesAreAccounted, Receive, taskVars, txVars
<1>10. NoLeakedExecutor'
  BY DEF NoLeakedExecutor, Receive, sessVars
<1> QED
  BY <1>4, <1>5, <1>6, <1>7, <1>8, <1>9, <1>10

-----------------------------------------------------------------------------
(* Steps of the tasks                                                      *)

\* A running task goes on, or ends and frees the thread of its session.
OnlyRuns(r) ==
  /\ UNCHANGED <<shape, key, by, pc, sessVars, queue, monVars>>
  /\ \A q \in Request \ {r} : stage'[q] = stage[q] /\ response'[q] = response[q]
  /\ \/ stage'[r] \in {"evaluated", "written"} /\ running' = running
     \/ /\ stage'[r] \in {"ok", "failed"}
        /\ \A k \in Key : running'[k] = running[k] \/ (shape[r].inSession /\ k = key[r])

LEMMA TaskDisturbsNothing ==
  ASSUME IInv, NEW r \in Request, Active(r), OnlyRuns(r)
  PROVE  /\ WorkersAreBusyOnce' /\ TasksAreAwaited' /\ QueuesAreSound'
         /\ SessionsAreCreated' /\ NoLeakedExecutor'
<1> USE DEF IInv
<1>1. WorkersAreBusyOnce' /\ SessionsAreCreated' /\ NoLeakedExecutor'
  BY DEF OnlyRuns, WorkersAreBusyOnce, SessionsAreCreated, NoLeakedExecutor, sessVars, monVars
<1>2. pc[r] = "waiting" /\ (shape[r].inSession => key[r] \in Key /\ running[key[r]] = r)
  BY DEF TasksAreAwaited, Active
<1>3. TasksAreAwaited'
  <2>1. \A q \in Request : Active(q)' /\ shape'[q].inSession => running'[key'[q]] = q
    <3> TAKE q \in Request
    <3> HAVE Active(q)' /\ shape'[q].inSession
    <3>1. CASE q = r
      BY <1>2, <3>1 DEF OnlyRuns, Active
    <3>2. CASE q # r
      BY <1>2, <3>2 DEF OnlyRuns, Active, TasksAreAwaited
    <3> QED
      BY <3>1, <3>2
  <2> QED
    BY <1>2, <2>1 DEF TasksAreAwaited, OnlyRuns, Active
<1>4. QueuesAreSound'
  <2>1. \A j \in Key : \A i \in 1..Len(queue[j]) : queue[j][i] \in Request /\ queue[j][i] # r
    BY DEF QueuesAreSound, TypeOK, Active
  <2> QED
    BY <2>1 DEF QueuesAreSound, OnlyRuns
<1> QED
  BY <1>1, <1>3, <1>4

\* The script runs: what the transaction held stays there or is committed.
LEMMA EvalKeepsIInv ==
  ASSUME IInv, NEW r \in Request, Eval(r)
  PROVE  IInv'
<1> USE DEF IInv
<1>1. stage[r] = "started" /\ Active(r) /\ pc[r] = "waiting"
  BY DEF Eval, Active, TasksAreAwaited
<1>2. PICK t \in Thread : t = ThreadOf(r)
  BY <1>1, TaskHasThread
<1>3. stage'[r] \in {"evaluated", "failed"} /\ stage' \in [Request -> Stage]
  <2>1. stage \in [Request -> Stage]
    BY DEF TypeOK
  <2>2. \E what \in {"evaluated", "failed"} : stage' = [stage EXCEPT ![r] = what]
    BY DEF Eval, EndTask
  <2> QED
    BY <2>1, <2>2 DEF Stage
<1>4. running' \in [Key -> Request \cup {None}]
  BY DEF Eval, EndTask, TypeOK
<1>5. OnlyRuns(r)
  BY DEF Eval, EndTask, OnlyRuns, TypeOK, reqVars
<1>6. /\ \A u \in Thread : u # t => tx'[u] = tx[u]
      /\ tx[t] \cup {r} \subseteq tx'[t] \cup durable'
      /\ durable \subseteq durable'
      /\ tx' \in [Thread -> SUBSET Request] /\ durable' \subseteq Request
  <2>1. CASE tx' = [tx EXCEPT ![t] = tx[t] \cup {r}] /\ durable' = durable
    BY <2>1 DEF TypeOK
  <2>2. CASE tx' = [tx EXCEPT ![t] = {}] /\ durable' = durable \cup tx[t] \cup {r}
    BY <2>2 DEF TypeOK
  <2> QED
    BY <1>2, <2>1, <2>2 DEF Eval
<1>7. TypeOK'
  <2>1. seen' \in [Request -> Bindings]
    <3>1. PICK b \in Visible(r) : seen' = [seen EXCEPT ![r] = b]
      BY DEF Eval
    <3>2. b \in Bindings
      BY <1>1, TaskHasThread, VisibleType
    <3> QED
      BY <3>1, <3>2 DEF TypeOK
  <2> QED
    BY <1>3, <1>4, <1>6, <2>1 DEF TypeOK, Eval, reqVars, sessVars, monVars
<1>8. WritesAreAccounted'
  <2>1. \A q \in Request : Transactional(q)' = Transactional(q) /\ ThreadOf(q)' = ThreadOf(q)
    BY DEF Eval, Transactional, HasGraph, ThreadOf, reqVars, sessVars
  <2>2. \A q \in Request : stage[q] \in {"evaluated", "written"} =>
          q \in tx'[ThreadOf(q)] \cup durable'
    <3> TAKE q \in Request
    <3> HAVE stage[q] \in {"evaluated", "written"}
    <3>1. q \in tx[ThreadOf(q)] \cup durable /\ ThreadOf(q) \in Thread
      BY TaskHasThread DEF WritesAreAccounted, TasksAreAwaited, Active
    <3> QED
      BY <1>6, <3>1
  <2>3. response' = response /\ pc' = pc /\ pc[r] # "reply" /\ pc[r] # "sent" /\ response[r] # "result"
    BY <1>1 DEF Eval, reqVars, WritesAreAccounted
  <2> QED
    BY <1>1, <1>2, <1>3, <1>5, <1>6, <2>1, <2>2, <2>3 DEF WritesAreAccounted, OnlyRuns
<1> QED
  BY <1>1, <1>5, <1>7, <1>8, TaskDisturbsNothing

\* The result is written into the response, or cannot be.
LEMMA WriteResultKeepsIInv ==
  ASSUME IInv, NEW r \in Request, WriteResult(r)
  PROVE  IInv'
<1> USE DEF IInv
<1>1. stage[r] = "evaluated" /\ Active(r) /\ pc[r] = "waiting"
  BY DEF WriteResult, Active, TasksAreAwaited
<1>2. stage'[r] \in {"written", "failed"} /\ stage' \in [Request -> Stage]
  BY DEF WriteResult, EndTask, Stage, TypeOK
<1>3. running' \in [Key -> Request \cup {None}]
  BY DEF WriteResult, EndTask, TypeOK
<1>4. OnlyRuns(r)
  BY DEF WriteResult, EndTask, OnlyRuns, TypeOK
<1>5. TypeOK'
  <2>1. response' \in [Request -> Response]
    BY DEF WriteResult, Response, TypeOK
  <2> QED
    BY <1>2, <1>3, <2>1 DEF TypeOK, WriteResult, sessVars, txVars, monVars
<1>6. WritesAreAccounted'
  <2>1. \A q \in Request : Transactional(q)' = Transactional(q) /\ ThreadOf(q)' = ThreadOf(q)
    BY DEF WriteResult, Transactional, HasGraph, ThreadOf, sessVars
  <2> QED
    BY <1>1, <1>2, <1>4, <2>1 DEF WritesAreAccounted, OnlyRuns, WriteResult, txVars
<1> QED
  BY <1>1, <1>4, <1>5, <1>6, TaskDisturbsNothing

\* The transaction is committed, refused, or not the server's to end.
LEMMA CommitKeepsIInv ==
  ASSUME IInv, NEW r \in Request, Commit(r)
  PROVE  IInv'
<1> USE DEF IInv
<1>1. stage[r] = "written" /\ Active(r) /\ pc[r] = "waiting"
  BY DEF Commit, Active, TasksAreAwaited
<1>2. PICK t \in Thread : t = ThreadOf(r)
  BY <1>1, TaskHasThread
<1>3. stage'[r] \in {"ok", "failed"} /\ stage' \in [Request -> Stage]
  BY DEF Commit, EndTask, Stage, TypeOK
<1>4. running' \in [Key -> Request \cup {None}]
  BY DEF Commit, EndTask, TypeOK
<1>5. OnlyRuns(r)
  BY DEF Commit, EndTask, OnlyRuns, TypeOK, reqVars
<1>6. /\ \A u \in Thread : u # t => tx'[u] = tx[u]
      /\ durable \subseteq durable'
      /\ stage'[r] = "ok" /\ Transactional(r) /\ r \in tx[t] => r \in durable'
      /\ tx' \in [Thread -> SUBSET Request] /\ durable' \subseteq Request
  <2>1. CASE UNCHANGED txVars /\ ~Transactional(r)
    BY <2>1 DEF TypeOK, txVars
  <2>2. CASE tx' = [tx EXCEPT ![t] = {}] /\ durable' = durable \cup tx[t]
    BY <2>2 DEF TypeOK
  <2>3. CASE durable' = durable /\ EndTask(r, "failed")
             /\ \E left \in {{}, tx[t]} : tx' = [tx EXCEPT ![t] = left]
    BY <2>3 DEF TypeOK, EndTask
  <2> QED
    BY <1>2, <2>1, <2>2, <2>3 DEF Commit
<1>7. TypeOK'
  BY <1>3, <1>4, <1>6 DEF TypeOK, Commit, reqVars, sessVars, monVars
<1>8. WritesAreAccounted'
  <2>1. \A q \in Request : Transactional(q)' = Transactional(q) /\ ThreadOf(q)' = ThreadOf(q)
    BY DEF Commit, Transactional, HasGraph, ThreadOf, reqVars, sessVars
  <2>2. \A q \in Request : q # r /\ stage[q] \in {"evaluated", "written"} =>
          q \in tx'[ThreadOf(q)] \cup durable'
    <3> TAKE q \in Request
    <3> HAVE q # r /\ stage[q] \in {"evaluated", "written"}
    <3>1. Active(q) /\ q \in tx[ThreadOf(q)] \cup durable /\ ThreadOf(q) \in Thread
      BY TaskHasThread DEF WritesAreAccounted, TasksAreAwaited, Active
    <3>2. ThreadOf(q) # t
      BY <1>1, <1>2, <3>1, OneTaskPerThread
    <3> QED
      BY <1>6, <3>1, <3>2
  <2>3. response' = response /\ pc' = pc
    BY DEF Commit, reqVars
  <2> QED
    BY <1>1, <1>2, <1>3, <1>5, <1>6, <2>1, <2>2, <2>3 DEF WritesAreAccounted, OnlyRuns
<1> QED
  BY <1>1, <1>5, <1>7, <1>8, TaskDisturbsNothing

\* The session thread takes the task at the head of its queue.
LEMMA StartTaskKeepsIInv ==
  ASSUME IInv, NEW k \in Key, StartTask(k)
  PROVE  IInv'
<1> USE DEF IInv
<1> DEFINE r == Head(queue[k])
<1>1. /\ r \in Request /\ queue[k] \in Seq(Request) /\ queue[k] # <<>>
      /\ Len(queue[k]) \in Nat \ {0} /\ r = queue[k][1]
      /\ Tail(queue[k]) \in Seq(Request) /\ Len(Tail(queue[k])) = Len(queue[k]) - 1
      /\ \A i \in 1..Len(Tail(queue[k])) : Tail(queue[k])[i] = queue[k][i + 1]
  BY DEF TypeOK, StartTask, Runnable
<1>2. stage[r] = "queued" /\ shape[r].inSession /\ key[r] = k /\ pc[r] = "waiting"
  BY <1>1 DEF QueuesAreSound, TasksAreAwaited
<1>3. /\ stage'[r] = "started" /\ running'[k] = r /\ running[k] = None
      /\ \A q \in Request \ {r} : stage'[q] = stage[q]
      /\ \A j \in Key \ {k} : running'[j] = running[j] /\ queue'[j] = queue[j]
      /\ queue'[k] = Tail(queue[k])
      /\ \A t \in Thread : t # k => tx'[t] = tx[t]
  BY <1>1 DEF StartTask, Runnable, TypeOK
<1>4. TypeOK'
  <2>1. running' \in [Key -> Request \cup {None}] /\ stage' \in [Request -> Stage]
    BY <1>1 DEF TypeOK, StartTask, Stage
  <2>2. queue' \in [Key -> Seq(Request)]
    BY <1>1 DEF TypeOK, StartTask
  <2>3. AtStart(r) \subseteq Request
    BY <1>2 DEF AtStart, ThreadOf, TypeOK, Thread
  <2>4. tx' \in [Thread -> SUBSET Request]
    BY <2>3 DEF TypeOK, StartTask
  <2> QED
    BY <2>1, <2>2, <2>4 DEF TypeOK, StartTask, reqVars, sessVars, monVars
<1>5. WorkersAreBusyOnce' /\ SessionsAreCreated' /\ NoLeakedExecutor'
  BY DEF StartTask, WorkersAreBusyOnce, SessionsAreCreated, NoLeakedExecutor,
         reqVars, sessVars, monVars
<1>6. \A q \in Request : ~(Active(q) /\ shape[q].inSession /\ key[q] = k)
  BY <1>3, ConstantsAssumption DEF TasksAreAwaited
<1>7. TasksAreAwaited'
  <2>1. \A q \in Request : Active(q)' /\ shape'[q].inSession => running'[key'[q]] = q
    <3> TAKE q \in Request
    <3> HAVE Active(q)' /\ shape'[q].inSession
    <3>1. CASE q = r
      BY <1>2, <1>3, <3>1 DEF StartTask, reqVars
    <3>2. CASE q # r
      <4>1. Active(q) /\ shape[q].inSession /\ running[key[q]] = q /\ key[q] \in Key
        BY <1>3, <3>2 DEF StartTask, reqVars, Active, TasksAreAwaited
      <4> QED
        BY <1>3, <1>6, <4>1 DEF StartTask, reqVars
    <3> QED
      BY <3>1, <3>2
  <2> QED
    BY <1>2, <1>3, <2>1 DEF TasksAreAwaited, StartTask, Active, reqVars
<1>8. QueuesAreSound'
  <2>1. ASSUME NEW j \in Key
        PROVE  /\ \A i \in 1..Len(queue'[j]) :
                    LET q == queue'[j][i]
                    IN stage'[q] = "queued" /\ shape'[q].inSession /\ key'[q] = j
               /\ \A i, m \in 1..Len(queue'[j]) : queue'[j][i] = queue'[j][m] => i = m
    <3>1. shape' = shape /\ key' = key
      BY DEF StartTask, reqVars
    <3>2. CASE j # k
      <4>1. \A i \in 1..Len(queue[j]) : queue[j][i] \in Request /\ queue[j][i] # r
        BY <1>2, <3>2 DEF QueuesAreSound, TypeOK
      <4> QED
        BY <1>3, <3>1, <3>2, <4>1 DEF QueuesAreSound
    <3>3. CASE j = k
      <4>1. \A i \in 1..Len(queue'[k]) :
              /\ i + 1 \in 1..Len(queue[k]) /\ i + 1 # 1
              /\ queue'[k][i] = queue[k][i + 1] /\ queue[k][i + 1] \in Request
        BY <1>1, <1>3 DEF TypeOK
      <4>2. \A i \in 1..Len(queue'[k]) : queue'[k][i] # r
        BY <1>1, <4>1 DEF QueuesAreSound
      <4>3. ASSUME NEW i \in 1..Len(queue'[k])
            PROVE  LET q == queue'[k][i]
                   IN stage'[q] = "queued" /\ shape'[q].inSession /\ key'[q] = k
        <5> DEFINE q == queue[k][i + 1]
        <5>1. stage[q] = "queued" /\ shape[q].inSession /\ key[q] = k
          BY <4>1 DEF QueuesAreSound
        <5>2. queue'[k][i] = q /\ q \in Request /\ q # r
          BY <4>1, <4>2
        <5>3. stage'[q] = stage[q]
          BY <1>3, <5>2
        <5> QED
          BY <3>1, <5>1, <5>2, <5>3
      <4>4. ASSUME NEW i \in 1..Len(queue'[k]), NEW m \in 1..Len(queue'[k]),
                   queue'[k][i] = queue'[k][m]
            PROVE  i = m
        <5>1. i + 1 = m + 1
          BY <4>1, <4>4 DEF QueuesAreSound
        <5> QED
          BY <5>1
      <4> QED
        BY <3>3, <4>3, <4>4
    <3> QED
      BY <3>2, <3>3
  <2> QED
    BY <2>1 DEF QueuesAreSound
<1>9. WritesAreAccounted'
  <2>1. \A q \in Request : Transactional(q)' = Transactional(q) /\ ThreadOf(q)' = ThreadOf(q)
    BY DEF StartTask, Transactional, HasGraph, ThreadOf, reqVars, sessVars
  <2>2. \A q \in Request : stage[q] \in {"evaluated", "written"} =>
          tx'[ThreadOf(q)] = tx[ThreadOf(q)]
    <3> TAKE q \in Request
    <3> HAVE stage[q] \in {"evaluated", "written"}
    <3>1. Active(q) /\ pc[q] = "waiting"
      BY DEF Active, TasksAreAwaited
    <3>2. ThreadOf(q) \in Thread /\ ThreadOf(q) # k
      BY <1>6, <3>1, TaskHasThread, ConstantsAssumption
    <3> QED
      BY <1>3, <3>2
  <2>3. response' = response /\ pc' = pc /\ durable' = durable
    BY DEF StartTask, reqVars
  <2> QED
    BY <1>2, <1>3, <2>1, <2>2, <2>3 DEF WritesAreAccounted
<1> QED
  BY <1>4, <1>5, <1>7, <1>8, <1>9

-----------------------------------------------------------------------------
(* Steps of the monitor, and time                                          *)

\* The monitor touches the map and the executors, never a request.
LEMMA MonitorKeepsIInv ==
  ASSUME IInv, Monitor
  PROVE  IInv'
<1> USE DEF IInv
<1>1. UNCHANGED <<reqVars, hasGraph, idle, binding, taskVars, txVars>>
  BY DEF Monitor, MonitorHas, MonitorGet, MonitorKill, MonitorRemove, MonitorSleep, sessVars
<1>2. WorkersAreBusyOnce' /\ TasksAreAwaited' /\ QueuesAreSound' /\ WritesAreAccounted'
  BY <1>1 DEF WorkersAreBusyOnce, TasksAreAwaited, Active, QueuesAreSound, WritesAreAccounted,
              Transactional, HasGraph, ThreadOf, reqVars, taskVars, txVars
<1>3. ASSUME NEW k \in Key, MonitorHas(k)
      PROVE  TypeOK' /\ SessionsAreCreated' /\ NoLeakedExecutor'
  <2>1. TypeOK'
    BY <1>3 DEF TypeOK, MonitorHas, reqVars, sessVars, taskVars, txVars
  <2> QED
    BY <1>3, <2>1 DEF SessionsAreCreated, NoLeakedExecutor, MonitorHas, reqVars, sessVars
<1>4. ASSUME MonitorGet
      PROVE  TypeOK' /\ SessionsAreCreated' /\ NoLeakedExecutor'
  <2>1. TypeOK'
    BY <1>4 DEF TypeOK, MonitorGet, reqVars, sessVars, taskVars, txVars
  <2> QED
    BY <1>4, <2>1 DEF SessionsAreCreated, NoLeakedExecutor, MonitorGet, reqVars, sessVars
<1>5. ASSUME MonitorKill
      PROVE  TypeOK' /\ SessionsAreCreated' /\ NoLeakedExecutor'
  <2>1. life' = life \/ (mkey \in sessions /\ life' = [life EXCEPT ![mkey] = "killed"])
    BY <1>5 DEF MonitorKill, Shutdown
  <2>2. TypeOK'
    <3>1. life' \in [Key -> {"none", "live", "killed"}]
      BY <2>1 DEF TypeOK
    <3> QED
      BY <1>5, <3>1 DEF TypeOK, MonitorKill, reqVars, taskVars, txVars
  <2>3. \A k \in Key : life'[k] = life[k] \/ (life'[k] = "killed" /\ k \in sessions)
    BY <2>1 DEF TypeOK
  <2>4. mpc' = "remove" => mkey' \in Key /\ life'[mkey'] = "killed"
    BY <1>5 DEF MonitorKill, Shutdown, TypeOK
  <2>5. SessionsAreCreated'
    BY <1>5, <2>3, <2>4 DEF SessionsAreCreated, MonitorKill, reqVars, TypeOK
  <2>6. NoLeakedExecutor'
    BY <1>5, <2>3 DEF NoLeakedExecutor, MonitorKill
  <2> QED
    BY <2>2, <2>5, <2>6
<1>6. ASSUME MonitorRemove
      PROVE  TypeOK' /\ SessionsAreCreated' /\ NoLeakedExecutor'
  <2>1. TypeOK'
    BY <1>6 DEF TypeOK, MonitorRemove, Removed, reqVars, taskVars, txVars
  <2> QED
    BY <1>6, <2>1 DEF SessionsAreCreated, NoLeakedExecutor, MonitorRemove, Removed, reqVars
<1>7. ASSUME MonitorSleep
      PROVE  TypeOK' /\ SessionsAreCreated' /\ NoLeakedExecutor'
  <2>1. TypeOK'
    BY <1>7 DEF TypeOK, MonitorSleep, reqVars, sessVars, taskVars, txVars
  <2> QED
    BY <1>7, <2>1 DEF SessionsAreCreated, NoLeakedExecutor, MonitorSleep, reqVars, sessVars
<1> QED
  BY <1>2, <1>3, <1>4, <1>5, <1>6, <1>7 DEF Monitor

\* Time only makes a session idle.
LEMMA IdlePastKeepsIInv ==
  ASSUME IInv, NEW k \in Key, IdlePast(k)
  PROVE  IInv'
<1> USE DEF IInv
<1>1. TypeOK'
  BY DEF TypeOK, IdlePast, reqVars, taskVars, txVars, monVars
<1>2. WorkersAreBusyOnce' /\ TasksAreAwaited' /\ QueuesAreSound' /\ WritesAreAccounted'
  BY DEF IdlePast, WorkersAreBusyOnce, TasksAreAwaited, Active, QueuesAreSound,
         WritesAreAccounted, Transactional, HasGraph, ThreadOf, reqVars, taskVars, txVars
<1>3. SessionsAreCreated' /\ NoLeakedExecutor'
  BY DEF IdlePast, SessionsAreCreated, NoLeakedExecutor, reqVars, monVars
<1> QED
  BY <1>1, <1>2, <1>3

-----------------------------------------------------------------------------
(* The theorems                                                            *)

LEMMA InitIInv == Init => IInv
<1> SUFFICES ASSUME Init PROVE IInv
  OBVIOUS
<1>1. TypeOK
  <2>1. Empty \in Bindings
    BY DEF Empty, Bindings
  <2>2. /\ binding \in [Key -> Bindings] /\ copy \in [Request -> Bindings]
        /\ seen \in [Request -> Bindings] /\ before \in [Request -> SUBSET Request]
    BY <2>1 DEF Init
  <2> QED
    BY <2>2, ConstantsAssumption
    DEF Init, TypeOK, NoShape, ShapeType, Kind, Graph, Script, PC, Response, Stage
<1>2. WorkersAreBusyOnce /\ TasksAreAwaited /\ SessionsAreCreated /\ WritesAreAccounted
  BY ConstantsAssumption
  DEF Init, WorkersAreBusyOnce, TasksAreAwaited, Active, SessionsAreCreated, WritesAreAccounted
<1>3. QueuesAreSound /\ NoLeakedExecutor
  BY DEF Init, QueuesAreSound, NoLeakedExecutor
<1> QED
  BY <1>1, <1>2, <1>3 DEF IInv

LEMMA HandleKeepsIInv ==
  ASSUME IInv, NEW r \in Request, Handle(r)
  PROVE  IInv'
  BY OpenSessionKeepsIInv, KillSessionKeepsIInv, RemoveSessionKeepsIInv, FindSessionKeepsIInv,
     BindKeepsIInv, SubmitKeepsIInv, CallHereKeepsIInv, SucceededKeepsIInv, FailedKeepsIInv,
     ReplyKeepsIInv DEF Handle

LEMMA NextKeepsIInv == IInv /\ [Next]_vars => IInv'
<1> SUFFICES ASSUME IInv, [Next]_vars PROVE IInv'
  OBVIOUS
<1>1. ASSUME NEW r \in Request, Call(r) PROVE IInv'
  BY <1>1, EvalKeepsIInv, WriteResultKeepsIInv, CommitKeepsIInv DEF Call
<1>2. CASE UNCHANGED vars
  BY <1>2 DEF IInv, TypeOK, WorkersAreBusyOnce, TasksAreAwaited, Active, QueuesAreSound,
              SessionsAreCreated, WritesAreAccounted, Transactional, HasGraph, ThreadOf,
              NoLeakedExecutor, vars, reqVars, sessVars, taskVars, txVars, monVars
<1> QED
  BY <1>1, <1>2, ReceiveKeepsIInv, HandleKeepsIInv, StartTaskKeepsIInv, IdlePastKeepsIInv,
     MonitorKeepsIInv DEF Next, Quiet

\* The inductive invariant holds of every behaviour of the server.
THEOREM Invariance == Spec => []IInv
  BY InitIInv, NextKeepsIInv, PTL DEF Spec

\* The variables always have their types; in particular every task that runs
\* has a thread, and every script reads a binding that exists.
THEOREM TypeCorrect == Spec => []TypeOK
  BY Invariance, PTL DEF IInv

\* Whoever destroys a session, at whatever moment, its executor is shut down
\* before it leaves the map.
THEOREM NoExecutorLeaks == Spec => []NoLeakedExecutor
  BY Invariance, PTL DEF IInv

\* A client that was sent the result of a transactional script finds its writes
\* in the graph.
THEOREM ResultsAreCommitted == Spec => []ResultMeansCommitted
<1>1. IInv => ResultMeansCommitted
  BY DEF IInv, WritesAreAccounted, ResultMeansCommitted
<1> QED
  BY <1>1, Invariance, PTL

-----------------------------------------------------------------------------
(* Destroyed sessions, and bindings                                        *)

\* The step of a worker shows in nobody's request but its own.
LEMMA HandleIsLocal ==
  ASSUME IInv, NEW q \in Request, Handle(q)
  PROVE  /\ shape' = shape
         /\ \A r \in Request : r # q => pc'[r] = pc[r] /\ key'[r] = key[r]
<1> USE DEF IInv
<1>1. CASE OpenSession(q)
  <2>1. PICK k \in Key : key' \in {key, [key EXCEPT ![q] = k]}
    BY <1>1 DEF OpenSession
  <2>2. \A r \in Request : r # q => key'[r] = key[r]
    BY <2>1 DEF TypeOK
  <2>3. \A r \in Request : r # q => pc'[r] = pc[r]
    BY <1>1 DEF OpenSession, Respond, TypeOK
  <2> QED
    BY <1>1, <2>2, <2>3 DEF OpenSession
<1>2. CASE KillSession(q) \/ RemoveSession(q)
  BY <1>2 DEF KillSession, RemoveSession, Respond, TypeOK
<1>3. CASE FindSession(q)
  BY <1>3 DEF FindSession, Respond, TypeOK
<1>4. CASE Bind(q) \/ Submit(q)
  BY <1>4 DEF Bind, Submit, Respond, TypeOK
<1>5. CASE CallHere(q) \/ Succeeded(q) \/ Failed(q) \/ Reply(q)
  BY <1>5 DEF CallHere, Succeeded, Failed, Reply, Respond, TypeOK
<1> QED
  BY <1>1, <1>2, <1>3, <1>4, <1>5 DEF Handle

\* A key enters the map once, before anybody knows it.
LEMMA NewKeysAreUnknown ==
  ASSUME IInv, [Next]_vars
  PROVE  \A k \in sessions' \ sessions : \A r \in Request : key[r] # k
<1> USE DEF IInv
<1>1. ASSUME NEW q \in Request, OpenSession(q)
      PROVE  \A k \in sessions' \ sessions : \A r \in Request : key[r] # k
  BY <1>1 DEF OpenSession, SessionsAreCreated
<1>2. (\A q \in Request : ~OpenSession(q)) => sessions' \subseteq sessions
  BY DEF Next, Receive, Handle, KillSession, RemoveSession, Removed, FindSession, Bind, Submit,
         CallHere, Succeeded, Failed, Reply, Call, Eval, WriteResult, Commit, StartTask, IdlePast,
         Monitor, MonitorHas, MonitorGet, MonitorKill, MonitorRemove, MonitorSleep, Quiet, vars,
         sessVars
<1> QED
  BY <1>1, <1>2

LEMMA HandleKeepsKilledSessionsGone ==
  ASSUME IInv, KilledSessionsAreGone, NEW q \in Request, Handle(q)
  PROVE  KilledSessionsAreGone'
<1> USE DEF IInv
<1>1. \A k \in sessions' \ sessions : \A r \in Request : key[r] # k
  BY NewKeysAreUnknown DEF Next
<1>2. /\ pc'[q] \in {"found", "bound", "rejected", "waiting"} => shape[q].kind = "script"
      /\ shape[q].kind = "kill" /\ pc'[q] \in {"reply", "sent"} /\ key'[q] # NoKey
           => key'[q] \notin sessions'
  <2>1. CASE OpenSession(q)
    BY <2>1 DEF OpenSession, Respond, TypeOK
  <2>2. CASE KillSession(q)
    BY <2>2 DEF KillSession, Respond, TypeOK
  <2>3. CASE RemoveSession(q)
    BY <2>3 DEF RemoveSession, Removed, Respond, TypeOK
  <2>4. CASE FindSession(q)
    BY <2>4 DEF FindSession, Respond, TypeOK
  <2>5. CASE Bind(q)
    BY <2>5 DEF Bind, Respond, KilledSessionsAreGone, TypeOK
  <2>6. CASE Submit(q) \/ CallHere(q)
    BY <2>6 DEF Submit, CallHere, KilledSessionsAreGone, TypeOK
  <2>7. CASE Succeeded(q) \/ Failed(q)
    BY <2>7 DEF Succeeded, Failed, Respond, KilledSessionsAreGone, TypeOK
  <2>8. CASE Reply(q)
    BY <2>8 DEF Reply, KilledSessionsAreGone, TypeOK, sessVars
  <2> QED
    BY <2>1, <2>2, <2>3, <2>4, <2>5, <2>6, <2>7, <2>8 DEF Handle
<1> QED
  BY <1>1, <1>2, HandleIsLocal DEF KilledSessionsAreGone

LEMMA NextKeepsKilledSessionsGone ==
  IInv /\ KilledSessionsAreGone /\ [Next]_vars => KilledSessionsAreGone'
<1> SUFFICES ASSUME IInv, KilledSessionsAreGone, [Next]_vars PROVE KilledSessionsAreGone'
  OBVIOUS
<1>1. ASSUME NEW q \in Request, NEW w \in Worker, Receive(q, w) PROVE KilledSessionsAreGone'
  <2>1. /\ pc'[q] = "received" /\ sessions' = sessions
        /\ \A r \in Request : r # q =>
             pc'[r] = pc[r] /\ shape'[r] = shape[r] /\ key'[r] = key[r]
    BY <1>1 DEF Receive, IInv, TypeOK, sessVars
  <2> QED
    BY <2>1 DEF KilledSessionsAreGone
<1>2. ASSUME UNCHANGED <<shape, key, pc>>, sessions' \subseteq sessions
      PROVE  KilledSessionsAreGone'
  BY <1>2 DEF KilledSessionsAreGone
<1>3. ASSUME NEW q \in Request, Call(q) PROVE KilledSessionsAreGone'
  BY <1>2, <1>3 DEF Call, Eval, WriteResult, Commit, reqVars, sessVars
<1>4. ASSUME NEW k \in Key, StartTask(k) \/ IdlePast(k) PROVE KilledSessionsAreGone'
  BY <1>2, <1>4 DEF StartTask, IdlePast, reqVars, sessVars
<1>5. CASE Monitor
  BY <1>2, <1>5 DEF Monitor, MonitorHas, MonitorGet, MonitorKill, MonitorRemove, Removed,
                    MonitorSleep, reqVars, sessVars
<1>6. CASE UNCHANGED vars
  BY <1>2, <1>6 DEF vars, reqVars, sessVars
<1> QED
  BY <1>1, <1>3, <1>4, <1>5, <1>6, HandleKeepsKilledSessionsGone DEF Next, Quiet

\* A destroyed session is gone for whoever looks it up after the answer.
THEOREM DestroyedIsGone == Spec => []KilledSessionsAreGone
<1>1. Init => KilledSessionsAreGone
  BY DEF Init, KilledSessionsAreGone
<1> QED
  BY <1>1, Invariance, NextKeepsKilledSessionsGone, PTL DEF Spec

\* A script on a session that a client was told is destroyed is refused, unless
\* the worker had found the session before.
THEOREM DestroyedRefuses == Spec => KilledSessionRefuses
<1>1. ASSUME IInv, KilledSessionsAreGone, [Next]_vars, NEW r \in Request, NEW q \in Request,
             shape[q].kind = "kill", pc[q] = "sent", key[q] # NoKey,
             shape[r].kind = "script", shape[r].inSession, key[r] = key[q],
             pc[r] = "received", pc'[r] # "received"
      PROVE  pc'[r] = "reply"
  <2>1. key[r] \notin sessions
    BY <1>1 DEF KilledSessionsAreGone
  <2>2. FindSession(r)
    <3>1. ASSUME NEW p \in Request, NEW w \in Worker, Receive(p, w) PROVE FALSE
      BY <1>1, <3>1 DEF Receive, IInv, TypeOK
    <3>2. ASSUME NEW p \in Request, Handle(p) PROVE p = r
      BY <1>1, <3>2, HandleIsLocal
    <3>3. ASSUME pc' = pc PROVE FALSE
      BY <1>1, <3>3
    <3>4. Handle(r)
      BY <1>1, <3>1, <3>2, <3>3
      DEF Next, Call, Eval, WriteResult, Commit, StartTask, IdlePast, Monitor, MonitorHas,
          MonitorGet, MonitorKill, MonitorRemove, MonitorSleep, Quiet, vars, reqVars
    <3> QED
      BY <1>1, <3>4 DEF Handle, OpenSession, KillSession, RemoveSession, Bind, Submit, CallHere,
                        Succeeded, Failed, Reply
  <2> QED
    BY <1>1, <2>1, <2>2 DEF FindSession, Respond, IInv, TypeOK
<1>2. IInv /\ KilledSessionsAreGone /\ [Next]_vars =>
        [\A r, q \in Request :
           (/\ shape[q].kind = "kill" /\ pc[q] = "sent" /\ key[q] # NoKey
            /\ shape[r].kind = "script" /\ shape[r].inSession /\ key[r] = key[q]
            /\ pc[r] = "received" /\ pc'[r] # "received")
           => pc'[r] = "reply"]_vars
  BY <1>1
<1> QED
  BY <1>2, Invariance, DestroyedIsGone, PTL DEF Spec, KilledSessionRefuses

-----------------------------------------------------------------------------
(***************************************************************************)
(* What scripts find bound.  A map of a session is written by the workers  *)
(* of its requests and read by its thread; the invariant follows one       *)
(* request from the merge to the run of its script.  While the requests of *)
(* a session come one at a time, all the others are over in between.       *)
(***************************************************************************)
BInv == BindingsAreShared /\ CopiesAreTrue /\ ArgumentsHold

\* The clauses of BInv about one request.
CopyIsTrue(r) ==
  Merged(r) /\ (shape[r].isolate \/ ~shape[r].inSession) =>
    /\ copy[r].arg = r
    /\ \A q \in copy[r].names : q = r \/ (shape[r].inSession /\ q \in Sharing(key[r]))
    /\ shape[r].inSession /\ OneAtATime(key[r]) =>
         \A q \in before[r] \cap Sharing(key[r]) : HasRun(q) => q \in copy[r].names

ArgumentHolds(r) ==
  HasRun(r) =>
    /\ shape[r].isolate \/ ~shape[r].inSession => seen[r].arg = r
    /\ \A q \in seen[r].names : q = r \/ (shape[r].inSession /\ q \in Sharing(key[r]))
    /\ shape[r].inSession /\ OneAtATime(key[r]) =>
         /\ seen[r].arg = r
         /\ \A q \in before[r] \cap Sharing(key[r]) : HasRun(q) => q \in seen[r].names

MapIsShared(k) ==
  OneAtATime(k) => \A q \in Sharing(k) : Merged(q) =>
    /\ q \in binding[k].names
    /\ pc[q] \in {"bound", "waiting"} /\ ~HasRun(q) => binding[k].arg = q

BParts ==
  /\ \A k \in Key : binding[k].names \subseteq Sharing(k) /\ MapIsShared(k)
  /\ \A r \in Request : \A q \in before[r] : pc[q] = "sent" /\ pc[r] # "new"
  /\ \A r \in Request : CopyIsTrue(r) /\ ArgumentHolds(r)

\* BInv, clause by clause.
LEMMA BInvIsParts == BInv <=> BParts
BY DEF BInv, BParts, BindingsAreShared, CopiesAreTrue, ArgumentsHold, CopyIsTrue, ArgumentHolds,
       MapIsShared

\* The same, ready to be cited.
LEMMA BInvByRequest ==
  BInv <=> /\ \A k \in Key : binding[k].names \subseteq Sharing(k) /\ MapIsShared(k)
           /\ \A r \in Request : \A q \in before[r] : pc[q] = "sent" /\ pc[r] # "new"
           /\ \A r \in Request : CopyIsTrue(r) /\ ArgumentHolds(r)
BY BInvIsParts DEF BParts

\* A step that neither takes a request, nor binds, nor runs a script.
LEMMA BindingsStay ==
  ASSUME BInv, before \in [Request -> SUBSET Request], UNCHANGED <<shape, before, binding, copy, seen>>,
         \A r \in Request : pc'[r] = "new" <=> pc[r] = "new",
         \A r \in Request : pc[r] = "sent" => pc'[r] = "sent",
         \A r \in Request : key'[r] = key[r]
                            \/ (shape[r].kind # "script" /\ ~Merged(r) /\ ~HasRun(r)),
         \A r \in Request : (Merged(r))' => Merged(r),
         \A r \in Request : (HasRun(r))' <=> HasRun(r),
         \A r \in Request : pc'[r] \in {"bound", "waiting"} /\ ~(HasRun(r))'
                            => pc[r] \in {"bound", "waiting"}
  PROVE  BInv'
<1>1. \A k : (Sharing(k))' = Sharing(k)
  BY DEF Sharing
<1>2. \A k : (OneAtATime(k))' <=> OneAtATime(k)
  BY <1>1 DEF OneAtATime
<1>3. \A k : Sharing(k) \subseteq Request
  BY DEF Sharing
<1>4. ASSUME NEW k \in Key PROVE (MapIsShared(k))' /\ binding'[k].names \subseteq (Sharing(k))'
  BY <1>1, <1>2, <1>3, BInvByRequest DEF MapIsShared
<1>5. ASSUME NEW r \in Request PROVE (CopyIsTrue(r))'
  <2>1. CASE Merged(r)
    <3>1. key'[r] = key[r] /\ CopyIsTrue(r)
      BY <2>1, BInvByRequest
    <3> QED
      BY <1>1, <1>2, <1>3, <2>1, <3>1 DEF CopyIsTrue
  <2>2. CASE ~Merged(r)
    BY <2>2 DEF CopyIsTrue
  <2> QED
    BY <2>1, <2>2
<1>6. ASSUME NEW r \in Request PROVE (ArgumentHolds(r))'
  <2>1. CASE HasRun(r)
    <3>1. key'[r] = key[r] /\ ArgumentHolds(r)
      BY <2>1, BInvByRequest
    <3> QED
      BY <1>1, <1>2, <1>3, <2>1, <3>1 DEF ArgumentHolds
  <2>2. CASE ~HasRun(r)
    BY <2>2 DEF ArgumentHolds
  <2> QED
    BY <2>1, <2>2
<1>7. \A r \in Request : \A q \in before'[r] : pc'[q] = "sent" /\ pc'[r] # "new"
  <2>1. ASSUME NEW r \in Request, NEW q \in before[r] PROVE pc'[q] = "sent" /\ pc'[r] # "new"
    <3>1. q \in Request /\ pc[q] = "sent" /\ pc[r] # "new"
      BY <2>1, BInvByRequest
    <3> QED
      BY <3>1
  <2> QED
    BY <2>1
<1>8. BParts'
  BY <1>4, <1>5, <1>6, <1>7 DEF BParts
<1> QED
  BY <1>8, BInvIsParts, PTL

\* While the requests that share a session come one at a time, nobody races with
\* one that is being handled.
LEMMA AloneInSession ==
  ASSUME BInv, NEW q \in Request, shape[q].inSession, q \in Sharing(key[q]),
         OneAtATime(key[q]), pc[q] # "sent"
  PROVE  /\ ~Racing(q)
         /\ \A p \in Sharing(key[q]) : p = q \/ pc[p] = "sent"
<1>1. ASSUME NEW p \in Sharing(key[q]), p # q PROVE pc[p] = "sent"
  <2>1. p \in before[q] \/ q \in before[p]
    BY <1>1 DEF OneAtATime
  <2>2. p \in Request
    BY <1>1 DEF Sharing
  <2> QED
    BY <2>1, <2>2, BInvByRequest
<1> QED
  BY <1>1 DEF Racing

\* A new request comes after those that were answered when it was taken.
LEMMA ReceiveKeepsBindings ==
  ASSUME IInv, BInv, NEW q \in Request, NEW w \in Worker, Receive(q, w)
  PROVE  BInv'
<1> USE DEF IInv
<1>1. /\ pc[q] = "new" /\ stage[q] = "none" /\ pc'[q] = "received"
      /\ before'[q] = Answered
      /\ UNCHANGED <<binding, copy, seen, stage>>
      /\ \A r \in Request : r # q => /\ pc'[r] = pc[r] /\ shape'[r] = shape[r]
                                     /\ key'[r] = key[r] /\ before'[r] = before[r]
  BY DEF Receive, TypeOK, sessVars, taskVars, TasksAreAwaited
<1>2. \A k : Sharing(k) \subseteq (Sharing(k))' /\ (Sharing(k))' \subseteq Sharing(k) \cup {q}
              /\ q \notin Sharing(k) /\ Sharing(k) \subseteq Request
  BY <1>1 DEF Sharing
<1>3. \A r \in Request : q \notin before[r]
  BY <1>1, BInvByRequest
<1>4. \A r \in Request : r # q => ((Merged(r))' <=> Merged(r)) /\ ((HasRun(r))' <=> HasRun(r))
  BY <1>1 DEF Merged, HasRun
<1>5. ~(Merged(q))' /\ ~(HasRun(q))'
  BY <1>1 DEF Merged, HasRun
<1>6. \A k : (OneAtATime(k))' => OneAtATime(k)
  <2> SUFFICES ASSUME NEW k, (OneAtATime(k))', NEW p \in Sharing(k), NEW r \in Sharing(k)
               PROVE  p = r \/ p \in before[r] \/ r \in before[p]
    BY DEF OneAtATime
  <2>1. p \in (Sharing(k))' /\ r \in (Sharing(k))' /\ p # q /\ r # q /\ p \in Request /\ r \in Request
    BY <1>2
  <2>2. p = r \/ p \in before'[r] \/ r \in before'[p]
    BY <2>1 DEF OneAtATime
  <2> QED
    BY <1>1, <2>1, <2>2
<1>7. ASSUME NEW k \in Key PROVE (MapIsShared(k))' /\ binding'[k].names \subseteq (Sharing(k))'
  <2>1. binding[k].names \subseteq Sharing(k) /\ MapIsShared(k)
    BY BInvByRequest
  <2>2. ASSUME (OneAtATime(k))', NEW p \in (Sharing(k))', (Merged(p))'
        PROVE  /\ p \in binding[k].names
               /\ pc'[p] \in {"bound", "waiting"} /\ ~(HasRun(p))' => binding[k].arg = p
    <3>1. p # q /\ p \in Sharing(k) /\ p \in Request
      BY <1>2, <1>5, <2>2
    <3>2. OneAtATime(k)
      BY <1>6, <2>2
    <3>3. p \in binding[k].names /\ (pc[p] \in {"bound", "waiting"} /\ ~HasRun(p) => binding[k].arg = p)
      BY <1>4, <2>1, <2>2, <3>1, <3>2 DEF MapIsShared
    <3>4. pc'[p] = pc[p] /\ ((HasRun(p))' <=> HasRun(p))
      BY <1>1, <1>4, <3>1
    <3> QED
      BY <3>3, <3>4
  <2> QED
    BY <1>1, <1>2, <2>1, <2>2 DEF MapIsShared
<1>8. ASSUME NEW r \in Request PROVE (CopyIsTrue(r))' /\ (ArgumentHolds(r))'
  <2>1. CASE r = q
    BY <1>5, <2>1 DEF CopyIsTrue, ArgumentHolds
  <2>2. CASE r # q
    <3>1. /\ shape'[r] = shape[r] /\ key'[r] = key[r] /\ before'[r] = before[r]
          /\ q \notin before[r] /\ CopyIsTrue(r) /\ ArgumentHolds(r)
          /\ Sharing(key[r]) \subseteq (Sharing(key[r]))'
          /\ (OneAtATime(key[r]))' => OneAtATime(key[r])
      BY <1>1, <1>2, <1>3, <1>6, <2>2, BInvByRequest
    <3>2. \A p \in (Sharing(key[r]))' : p \in before[r] =>
            p \in Sharing(key[r]) /\ ((HasRun(p))' <=> HasRun(p))
      <4> SUFFICES ASSUME NEW p \in before[r], p \in (Sharing(key[r]))'
                   PROVE  p \in Sharing(key[r]) /\ ((HasRun(p))' <=> HasRun(p))
        OBVIOUS
      <4>1. p # q /\ p \in Sharing(key[r]) /\ p \in Request
        BY <1>2, <3>1
      <4>2. (HasRun(p))' <=> HasRun(p)
        BY <1>4, <4>1
      <4> QED
        BY <4>1, <4>2
    <3>5. copy'[r] = copy[r] /\ seen'[r] = seen[r]
      BY <1>1
    <3>6. ((Merged(r))' <=> Merged(r)) /\ ((HasRun(r))' <=> HasRun(r))
      BY <1>4, <2>2
    <3>3. (CopyIsTrue(r))'
      BY <3>1, <3>2, <3>5, <3>6 DEF CopyIsTrue
    <3>4. (ArgumentHolds(r))'
      BY <3>1, <3>2, <3>5, <3>6 DEF ArgumentHolds
    <3> QED
      BY <3>3, <3>4
  <2> QED
    BY <2>1, <2>2
<1>9. ASSUME NEW r \in Request, NEW p \in before'[r] PROVE pc'[p] = "sent" /\ pc'[r] # "new"
  <2>1. CASE r = q
    BY <1>1, <1>9, <2>1 DEF Answered
  <2>2. CASE r # q
    <3>1. p \in before[r] /\ p \in Request /\ p # q
      BY <1>1, <1>3, <1>9, <2>2 DEF TypeOK
    <3> QED
      BY <1>1, <2>2, <3>1, BInvByRequest
  <2> QED
    BY <2>1, <2>2
<1>10. BParts'
  BY <1>7, <1>8, <1>9 DEF BParts
<1> QED
  BY <1>10, BInvIsParts, PTL

\* The arguments are merged into the session's map or into a copy.
LEMMA BindKeepsBindings ==
  ASSUME IInv, KilledSessionsAreGone, BInv, NEW q \in Request, Bind(q), pc'[q] = "bound"
  PROVE  BInv'
<1> USE DEF IInv
<1>1. /\ pc[q] = "found" /\ shape[q].kind = "script" /\ binding' \in Bound(q)
      /\ copy' = [copy EXCEPT ![q] = Copied(q)]
      /\ UNCHANGED <<shape, key, before, stage, seen>>
      /\ \A r \in Request : r # q => pc'[r] = pc[r]
      /\ stage[q] = "none"
  BY DEF Bind, Respond, TypeOK, taskVars, KilledSessionsAreGone, TasksAreAwaited
<1>2. \A k : (Sharing(k))' = Sharing(k) /\ Sharing(k) \subseteq Request
  BY <1>1 DEF Sharing
<1>3. \A k : (OneAtATime(k))' <=> OneAtATime(k)
  BY <1>1, <1>2 DEF OneAtATime
<1>4. \A r \in Request : /\ (HasRun(r))' <=> HasRun(r)
                         /\ r # q => ((Merged(r))' <=> Merged(r))
  BY <1>1 DEF Merged, HasRun
<1>5. ~HasRun(q) /\ (HasRun(q) => Merged(q)) /\ \A r \in Request : HasRun(r) => Merged(r)
  BY <1>1 DEF HasRun, Merged
<1>6. shape[q].inSession => key[q] \in Key
  BY <1>1 DEF SessionsAreCreated
<1>7. ASSUME NEW k \in Key PROVE (MapIsShared(k))' /\ binding'[k].names \subseteq (Sharing(k))'
  <2>0. binding[k].names \subseteq Sharing(k) /\ MapIsShared(k)
    BY BInvByRequest
  <2>1. CASE shape[q].inSession /\ ~shape[q].isolate /\ key[q] = k
    <3> DEFINE b == With(binding[k], q)
    <3>1. q \in Sharing(k)
      BY <1>1, <2>1 DEF Sharing
    <3>2. b.names = binding[k].names \cup {q} /\ b.arg = q
      BY DEF With
    <3>3. PICK c \in IF Racing(q) THEN Torn(b) ELSE {b} : binding' = [binding EXCEPT ![k] = c]
      BY <1>1, <2>1 DEF Bound
    <3>4. binding'[k] = c
      BY <3>3 DEF TypeOK
    <3>5. c.names \subseteq b.names
      BY <3>3 DEF Torn
    <3>6. ASSUME OneAtATime(k)
          PROVE  c = b /\ \A p \in Sharing(k) : p = q \/ pc[p] = "sent"
      BY <1>1, <2>1, <3>1, <3>3, <3>6, AloneInSession
    <3>7. (MapIsShared(k))'
      <4> SUFFICES ASSUME OneAtATime(k), NEW p \in Sharing(k), (Merged(p))'
                   PROVE  /\ p \in c.names
                          /\ pc'[p] \in {"bound", "waiting"} => c.arg = p
        BY <1>2, <1>3, <3>4 DEF MapIsShared
      <4>1. CASE p = q
        BY <3>2, <3>6, <4>1
      <4>2. CASE p # q
        BY <1>1, <1>2, <1>4, <2>0, <3>2, <3>6, <4>2 DEF MapIsShared
      <4> QED
        BY <4>1, <4>2
    <3> QED
      BY <1>2, <2>0, <3>1, <3>2, <3>4, <3>5, <3>7
  <2>2. CASE ~(shape[q].inSession /\ ~shape[q].isolate /\ key[q] = k)
    <3>1. binding'[k] = binding[k]
      <4>1. CASE shape[q].inSession /\ ~shape[q].isolate
        BY <1>1, <1>6, <2>2, <4>1 DEF Bound, TypeOK
      <4>2. CASE ~(shape[q].inSession /\ ~shape[q].isolate)
        BY <1>1, <4>2 DEF Bound
      <4> QED
        BY <4>1, <4>2
    <3>2. q \notin Sharing(k)
      BY <2>2 DEF Sharing
    <3>3. \A p \in Sharing(k) : p # q /\ p \in Request
      BY <1>2, <3>2
    <3> QED
      BY <1>1, <1>2, <1>3, <1>4, <2>0, <3>1, <3>3 DEF MapIsShared
  <2> QED
    BY <2>1, <2>2
<1>8. ASSUME NEW r \in Request PROVE (CopyIsTrue(r))'
  <2>1. CASE r = q
    <3>1. copy'[q] = Copied(q)
      BY <1>1 DEF TypeOK
    <3>2. CASE ~shape[q].inSession
      BY <1>1, <2>1, <3>1, <3>2 DEF Copied, With, Empty, CopyIsTrue
    <3>3. CASE shape[q].inSession /\ shape[q].isolate
      <4>1. copy'[q].arg = q /\ copy'[q].names = binding[key[q]].names \cup {q}
        BY <3>1, <3>3 DEF Copied, With
      <4>2. binding[key[q]].names \subseteq Sharing(key[q]) /\ MapIsShared(key[q])
        BY <1>6, <3>3, BInvByRequest
      <4>3. OneAtATime(key[q]) =>
              \A p \in before[q] \cap Sharing(key[q]) : HasRun(p) => p \in binding[key[q]].names
        BY <1>2, <1>5, <4>2 DEF MapIsShared
      <4>4. \A p \in Sharing(key[q]) : (HasRun(p))' <=> HasRun(p)
        BY <1>2, <1>4
      <4> QED
        BY <1>1, <1>2, <1>3, <2>1, <3>3, <4>1, <4>2, <4>3, <4>4 DEF CopyIsTrue
    <3>4. CASE shape[q].inSession /\ ~shape[q].isolate
      BY <1>1, <2>1, <3>4 DEF CopyIsTrue
    <3> QED
      BY <3>2, <3>3, <3>4, Zenon
  <2>2. CASE r # q
    <3>1. copy'[r] = copy[r] /\ CopyIsTrue(r)
      BY <1>1, <2>2, BInvByRequest DEF TypeOK
    <3>2. \A p \in Sharing(key[r]) : (HasRun(p))' <=> HasRun(p)
      BY <1>2, <1>4
    <3> QED
      BY <1>1, <1>2, <1>3, <1>4, <2>2, <3>1, <3>2 DEF CopyIsTrue
  <2> QED
    BY <2>1, <2>2
<1>9. ASSUME NEW r \in Request PROVE (ArgumentHolds(r))'
  <2>1. ArgumentHolds(r)
    BY BInvByRequest
  <2>2. \A p \in Sharing(key[r]) : (HasRun(p))' <=> HasRun(p)
    BY <1>2, <1>4
  <2> QED
    BY <1>1, <1>2, <1>3, <1>4, <2>1, <2>2 DEF ArgumentHolds
<1>10. ASSUME NEW r \in Request, NEW p \in before'[r] PROVE pc'[p] = "sent" /\ pc'[r] # "new"
  <2>1. p \in Request /\ pc[p] = "sent" /\ pc[r] # "new"
    BY <1>1, <1>10, BInvByRequest DEF TypeOK
  <2> QED
    BY <1>1, <2>1
<1>11. BParts'
  BY <1>7, <1>8, <1>9, <1>10 DEF BParts
<1> QED
  BY <1>11, BInvIsParts, PTL

\* The script finds what is in the map by then.
LEMMA EvalKeepsBindings ==
  ASSUME IInv, KilledSessionsAreGone, BInv, NEW q \in Request, Eval(q)
  PROVE  BInv'
<1> USE DEF IInv
<1>1. /\ stage[q] = "started" /\ pc[q] = "waiting" /\ stage'[q] \in {"evaluated", "failed"}
      /\ UNCHANGED <<shape, key, pc, before, binding, copy>>
      /\ \A r \in Request : r # q => stage'[r] = stage[r] /\ seen'[r] = seen[r]
  BY DEF Eval, EndTask, TypeOK, reqVars, sessVars, TasksAreAwaited, Active
<1>2. PICK b \in Visible(q) : seen'[q] = b
  BY DEF Eval, TypeOK
<1>3. \A k : (Sharing(k))' = Sharing(k) /\ Sharing(k) \subseteq Request
  BY <1>1 DEF Sharing
<1>4. \A k : (OneAtATime(k))' <=> OneAtATime(k)
  BY <1>1, <1>3 DEF OneAtATime
<1>5. /\ \A r \in Request : (Merged(r))' <=> Merged(r)
      /\ \A r \in Request : r # q => ((HasRun(r))' <=> HasRun(r))
      /\ ~HasRun(q) /\ Merged(q)
  BY <1>1 DEF Merged, HasRun
<1>6. \A r \in Request : \A p \in before[r] : p # q /\ p \in Request
  BY <1>1, BInvByRequest DEF TypeOK
<1>7. ASSUME NEW k \in Key PROVE (MapIsShared(k))' /\ binding'[k].names \subseteq (Sharing(k))'
  <2>1. binding[k].names \subseteq Sharing(k) /\ MapIsShared(k)
    BY BInvByRequest
  <2>2. \A p \in Sharing(k) : ~(HasRun(p))' => ~HasRun(p)
    BY <1>3, <1>5
  <2> QED
    BY <1>1, <1>3, <1>4, <1>5, <2>1, <2>2 DEF MapIsShared
<1>8. ASSUME NEW r \in Request PROVE (CopyIsTrue(r))'
  <2>1. CopyIsTrue(r)
    BY BInvByRequest
  <2> QED
    BY <1>1, <1>3, <1>4, <1>5, <1>6, <2>1 DEF CopyIsTrue
<1>9. ASSUME NEW r \in Request PROVE (ArgumentHolds(r))'
  <2>1. CASE r # q
    <3>1. ArgumentHolds(r)
      BY BInvByRequest
    <3> QED
      BY <1>1, <1>3, <1>4, <1>5, <1>6, <2>1, <3>1 DEF ArgumentHolds
  <2>2. CASE r = q /\ ~(shape[q].inSession /\ ~shape[q].isolate)
    <3>1. seen'[q] = copy[q]
      BY <1>2, <2>2 DEF Visible
    <3>2. CopyIsTrue(q)
      BY BInvByRequest
    <3> QED
      BY <1>1, <1>3, <1>4, <1>5, <1>6, <2>2, <3>1, <3>2 DEF ArgumentHolds, CopyIsTrue
  <2>3. CASE r = q /\ shape[q].inSession /\ ~shape[q].isolate
    <3> DEFINE k == key[q]
    <3>1. k \in Key
      BY <1>1, <2>3 DEF SessionsAreCreated
    <3>2. binding[k].names \subseteq Sharing(k) /\ MapIsShared(k)
      BY <3>1, BInvByRequest
    <3>3. b.names \subseteq binding[k].names
      BY <1>2, <2>3 DEF Visible, Torn
    <3>4. ASSUME q \in Sharing(k), OneAtATime(k)
          PROVE  /\ b.arg = q
                 /\ \A p \in before[q] \cap Sharing(k) : HasRun(p) => p \in b.names
      <4>1. ~Racing(q)
        BY <1>1, <2>3, <3>4, AloneInSession
      <4>2. b = binding[k]
        BY <1>2, <2>3, <4>1 DEF Visible
      <4>3. \A p \in Request : HasRun(p) => Merged(p)
        BY DEF HasRun, Merged
      <4> QED
        BY <1>1, <1>3, <1>5, <3>2, <3>4, <4>2, <4>3 DEF MapIsShared
    <3>5. q \in Sharing(k)
      BY <1>1, <2>3 DEF Sharing, KilledSessionsAreGone
    <3>6. \A p \in before[q] \cap Sharing(k) : (HasRun(p))' <=> HasRun(p)
      BY <1>5, <1>6
    <3> QED
      BY <1>1, <1>2, <1>3, <1>4, <2>3, <3>2, <3>3, <3>4, <3>5, <3>6 DEF ArgumentHolds
  <2> QED
    BY <2>1, <2>2, <2>3, Zenon
<1>10. \A r \in Request : \A p \in before'[r] : pc'[p] = "sent" /\ pc'[r] # "new"
  BY <1>1, BInvByRequest
<1>11. BParts'
  BY <1>7, <1>8, <1>9, <1>10 DEF BParts
<1> QED
  BY <1>11, BInvIsParts, PTL

\* The other steps of a worker touch no map.
LEMMA HandleKeepsBindings ==
  ASSUME IInv, KilledSessionsAreGone, BInv, NEW q \in Request, Handle(q)
  PROVE  BInv'
<1> USE DEF IInv
<1>1. CASE pc'[q] = "bound"
  <2>1. Bind(q)
    BY <1>1 DEF Handle, OpenSession, KillSession, RemoveSession, FindSession, Submit, CallHere,
                Succeeded, Failed, Reply, Respond, TypeOK
  <2> QED
    BY <1>1, <2>1, BindKeepsBindings
<1>2. CASE pc'[q] # "bound"
  <2>1. UNCHANGED <<shape, before, binding, copy, seen>>
    BY <1>2 DEF Handle, OpenSession, KillSession, RemoveSession, FindSession, Bind, Submit,
                CallHere, Succeeded, Failed, Reply, TypeOK, sessVars, taskVars
  <2>2. \A r \in Request : r # q => pc'[r] = pc[r] /\ key'[r] = key[r]
    BY HandleIsLocal
  <2>3. pc[q] # "new" /\ pc'[q] # "new" /\ pc[q] # "sent"
    BY DEF Handle, OpenSession, KillSession, RemoveSession, FindSession, Bind, Submit, CallHere,
           Succeeded, Failed, Reply, Respond, TypeOK
  <2>4. key'[q] = key[q] \/ (shape[q].kind # "script" /\ pc[q] = "received" /\ stage[q] = "none")
    BY DEF Handle, OpenSession, KillSession, RemoveSession, FindSession, Bind, Submit, CallHere,
           Succeeded, Failed, Reply, TasksAreAwaited, TypeOK
  <2>5. stage' = stage \/ (pc[q] = "bound" /\ stage[q] = "none" /\ pc'[q] = "waiting"
           /\ \E what \in {"queued", "started"} : stage' = [stage EXCEPT ![q] = what])
    BY DEF Handle, OpenSession, KillSession, RemoveSession, FindSession, Bind, Submit, CallHere,
           Succeeded, Failed, Reply, TasksAreAwaited, taskVars, TypeOK
  <2>6. pc'[q] \in {"rejected", "waiting"} => pc[q] = "bound"
    BY DEF Handle, OpenSession, KillSession, RemoveSession, FindSession, Bind, Submit, CallHere,
           Succeeded, Failed, Reply, Respond, TypeOK
  <2>7. \A r \in Request : r # q => stage'[r] = stage[r]
    BY <2>5 DEF TypeOK
  <2>8. \A r \in Request : (HasRun(r))' <=> HasRun(r)
    BY <2>5, <2>7 DEF HasRun, TypeOK
  <2>9. \A r \in Request : (Merged(r))' => Merged(r)
    BY <1>2, <2>2, <2>5, <2>6, <2>7 DEF Merged
  <2>10. \A r \in Request : key'[r] = key[r]
                            \/ (shape[r].kind # "script" /\ ~Merged(r) /\ ~HasRun(r))
    BY <2>2, <2>4 DEF Merged, HasRun
  <2> QED
    BY <1>2, <2>1, <2>2, <2>3, <2>6, <2>8, <2>9, <2>10, BindingsStay DEF TypeOK
<1> QED
  BY <1>1, <1>2

\* Nor do those of the session threads and the monitor.
LEMMA NextKeepsBindings ==
  IInv /\ KilledSessionsAreGone /\ BInv /\ [Next]_vars => BInv'
<1> SUFFICES ASSUME IInv, KilledSessionsAreGone, BInv, [Next]_vars PROVE BInv'
  OBVIOUS
<1> USE DEF IInv
<1>1. ASSUME UNCHANGED <<reqVars, binding, copy, seen>>,
             \A r \in Request : stage'[r] # "none" => stage[r] # "none",
             \A r \in Request : (HasRun(r))' <=> HasRun(r)
      PROVE  BInv'
  <2>1. \A r \in Request : (Merged(r))' => Merged(r)
    BY <1>1 DEF Merged, reqVars
  <2> QED
    BY <1>1, <2>1, BindingsStay DEF reqVars, TypeOK
<1>2. ASSUME NEW q \in Request, WriteResult(q) \/ Commit(q) PROVE BInv'
  <2>1. /\ stage[q] \in {"evaluated", "written"} /\ stage'[q] \in {"written", "ok", "failed"}
        /\ \A r \in Request : r # q => stage'[r] = stage[r]
        /\ UNCHANGED <<shape, key, pc, before, binding, copy, seen>>
    BY <1>2 DEF WriteResult, Commit, EndTask, TypeOK, reqVars, sessVars
  <2>2. \A r \in Request : ((HasRun(r))' <=> HasRun(r)) /\ ((Merged(r))' => Merged(r))
    BY <2>1 DEF HasRun, Merged
  <2> QED
    BY <2>1, <2>2, BindingsStay DEF TypeOK
<1>3. ASSUME NEW k \in Key, StartTask(k) PROVE BInv'
  <2>1. stage[Head(queue[k])] = "queued" /\ Head(queue[k]) \in Request
    <3>1. queue[k][1] = Head(queue[k]) /\ 1 \in 1..Len(queue[k]) /\ Head(queue[k]) \in Request
      BY <1>3 DEF StartTask, Runnable, TypeOK
    <3> QED
      BY <3>1 DEF QueuesAreSound
  <2>2. /\ \A r \in Request : stage'[r] = stage[r] \/ r = Head(queue[k])
        /\ stage'[Head(queue[k])] = "started"
    BY <1>3, <2>1 DEF StartTask, TypeOK
  <2>3. \A r \in Request : (HasRun(r))' <=> HasRun(r)
    BY <2>1, <2>2 DEF HasRun
  <2>4. \A r \in Request : stage'[r] # "none" => stage[r] # "none"
    BY <2>1, <2>2
  <2> QED
    BY <1>1, <1>3, <2>3, <2>4 DEF StartTask, sessVars
<1>4. ASSUME UNCHANGED <<reqVars, binding, copy, taskVars>> PROVE BInv'
  BY <1>1, <1>4 DEF taskVars, HasRun
<1>5. ASSUME (\E k \in Key : IdlePast(k)) \/ Monitor \/ UNCHANGED vars PROVE BInv'
  BY <1>4, <1>5 DEF IdlePast, Monitor, MonitorHas, MonitorGet, MonitorKill, MonitorRemove,
                    MonitorSleep, vars, sessVars
<1> QED
  BY <1>2, <1>3, <1>5, ReceiveKeepsBindings, HandleKeepsBindings, EvalKeepsBindings
  DEF Next, Call, Quiet

\* At first nothing is bound.
LEMMA InitBInv == Init => BInv
<1> SUFFICES ASSUME Init PROVE BInv
  OBVIOUS
<1>1. \A r \in Request : ~Merged(r) /\ ~HasRun(r) /\ before[r] = {}
  BY DEF Init, Merged, HasRun
<1>2. \A k \in Key : binding[k].names = {}
  BY DEF Init, Empty
<1>3. \A k : Sharing(k) \subseteq Request
  BY DEF Sharing
<1> QED
  BY <1>1, <1>2, <1>3 DEF BInv, BindingsAreShared, CopiesAreTrue, ArgumentsHold

\* BInv is an invariant.
LEMMA BindingsInvariance == Spec => []BInv
  BY InitBInv, NextKeepsBindings, Invariance, DestroyedIsGone, PTL DEF Spec

\* What scripts find bound, whatever workers, session threads and kills do in
\* between: the arguments of isolated requests are their own and stay their own,
\* and clients that send the others of a session one after the other find theirs
\* and all that was bound before.
THEOREM ArgumentsHeld == Spec => []ArgumentsHold
  BY BindingsInvariance, PTL DEF BInv

-----------------------------------------------------------------------------
(***************************************************************************)
(* What the server promises of transactions: a commit makes one script     *)
(* durable and no other, and, as long as no script commits by itself, a    *)
(* script that failed is not in the graph and the server implements        *)
(* AtomicScripts.                                                          *)
(***************************************************************************)
(* What a step leaves alone                                                *)

\* What a script asks for, and whether it has a graph, is settled when its
\* request is taken.
LEMMA ScriptsStay ==
  ASSUME IInv, [Next]_vars, NEW r \in Request, pc[r] # "new", shape[r].kind = "script"
  PROVE  /\ shape'[r] = shape[r] /\ key'[r] = key[r]
         /\ Transactional(r)' <=> Transactional(r)
<1> USE DEF IInv
<1>1. shape'[r] = shape[r] /\ key'[r] = key[r]
  <2>1. ASSUME NEW q \in Request, NEW w \in Worker, Receive(q, w) PROVE q # r
    BY <2>1 DEF Receive
  <2>2. ASSUME NEW q \in Request, OpenSession(q) PROVE q # r
    BY <2>2 DEF OpenSession
  <2>3. ASSUME NEW q \in Request, Handle(q)
        PROVE  shape' = shape /\ (key' = key \/ OpenSession(q))
    BY <2>3 DEF Handle, OpenSession, KillSession, RemoveSession, FindSession, Bind, Submit,
                CallHere, Succeeded, Failed, Reply
  <2>4. ASSUME NEW q \in Request, OpenSession(q)
        PROVE  shape'[r] = shape[r] /\ key'[r] = key[r]
    BY <2>2, <2>4 DEF OpenSession, TypeOK
  <2>5. ASSUME NEW q \in Request, NEW w \in Worker, Receive(q, w)
        PROVE  shape'[r] = shape[r] /\ key'[r] = key[r]
    BY <2>1, <2>5 DEF Receive, TypeOK
  <2>6. ASSUME NEW q \in Request, Handle(q) PROVE shape'[r] = shape[r] /\ key'[r] = key[r]
    BY <2>3, <2>4, <2>6
  <2>7. ASSUME UNCHANGED reqVars \/ UNCHANGED <<shape, key>>
        PROVE  shape'[r] = shape[r] /\ key'[r] = key[r]
    BY <2>7 DEF reqVars
  <2> QED
    BY <2>5, <2>6, <2>7
    DEF Next, Call, Eval, WriteResult, Commit, StartTask, IdlePast, Monitor, MonitorHas,
        MonitorGet, MonitorKill, MonitorRemove, MonitorSleep, Quiet, vars
<1>2. \A k \in Key : life[k] # "none" => hasGraph'[k] = hasGraph[k]
  <2>1. ASSUME NEW q \in Request, OpenSession(q)
        PROVE  \A k \in Key : life[k] # "none" => hasGraph'[k] = hasGraph[k]
    BY <2>1 DEF OpenSession, TypeOK
  <2>2. ASSUME NEW q \in Request, Handle(q), ~OpenSession(q) PROVE hasGraph' = hasGraph
    BY <2>2 DEF Handle, KillSession, RemoveSession, FindSession, Bind, Submit,
                CallHere, Succeeded, Failed, Reply, sessVars
  <2>3. (\E q \in Request : Handle(q)) \/ hasGraph' = hasGraph
    BY DEF Next, Receive, Call, Eval, WriteResult, Commit, StartTask, IdlePast, Monitor,
           MonitorHas, MonitorGet, MonitorKill, MonitorRemove, MonitorSleep, Quiet, vars, sessVars
  <2> QED
    BY <2>1, <2>2, <2>3
<1>3. key[r] \in Key => life[key[r]] # "none"
  BY DEF SessionsAreCreated
<1> QED
  BY <1>1, <1>2, <1>3 DEF Transactional, HasGraph

\* A transaction is touched by the worker whose thread it belongs to, by the
\* task that runs on its thread, or by the start of the next one.
LEMMA WhoTouchesTransactions ==
  ASSUME IInv, [Next]_vars, NEW t \in Thread, tx'[t] # tx[t]
  PROVE  \/ \E q \in Request : Handle(q) /\ by[q] = t
         \/ \E q \in Request : Eval(q) /\ ThreadOf(q) = t
         \/ \E q \in Request : Commit(q) /\ ThreadOf(q) = t
         \/ StartTask(t) /\ t \in Key
<1> USE DEF IInv
<1>1. ASSUME NEW q \in Request, Handle(q) PROVE by[q] = t
  BY <1>1 DEF Handle, OpenSession, KillSession, RemoveSession, FindSession, Bind, Submit,
              CallHere, Succeeded, Failed, Reply, txVars, TypeOK
<1>2. ASSUME NEW q \in Request, Eval(q) \/ Commit(q) PROVE ThreadOf(q) = t
  BY <1>2 DEF Eval, Commit, txVars, TypeOK
<1>3. ASSUME NEW k \in Key, StartTask(k) PROVE k = t
  BY <1>3 DEF StartTask, TypeOK
<1>4. \/ \E q \in Request : Handle(q) \/ Eval(q) \/ Commit(q)
      \/ \E k \in Key : StartTask(k)
  BY DEF Next, Receive, Call, WriteResult, IdlePast, Monitor,
         MonitorHas, MonitorGet, MonitorKill, MonitorRemove, MonitorSleep, Quiet, vars, txVars
<1> QED
  BY <1>1, <1>2, <1>3, <1>4

-----------------------------------------------------------------------------
(* A commit is of one script                                               *)

\* While a task runs, nobody else touches the transaction of its thread.
LEMMA RunningTaskIsAlone ==
  ASSUME IInv, IInv', [Next]_vars, NEW r \in Request,
         Active(r), Active(r)', stage'[r] = stage[r]
  PROVE  tx'[ThreadOf(r)] = tx[ThreadOf(r)]
<1> USE DEF IInv
<1> DEFINE t == ThreadOf(r)
<1>1. pc[r] = "waiting" /\ pc'[r] = "waiting"
  BY DEF TasksAreAwaited, Active
<1>2. t \in Thread
  BY <1>1, TaskHasThread
<1>3. ASSUME NEW q \in Request, Handle(q), by[q] = t PROVE FALSE
  <2>1. by[q] # None
    BY <1>3 DEF Handle, OpenSession, KillSession, RemoveSession, FindSession, Bind, Submit,
                CallHere, Succeeded, Failed, Reply, WorkersAreBusyOnce, TypeOK
  <2>2. q # r => ThreadOf(r) # by[q]
    BY <2>1, WorkerThreadIsOwn
  <2>3. q = r
    BY <1>3, <2>2
  <2> QED
    BY <1>1, <1>3, <2>3 DEF Handle, OpenSession, KillSession, RemoveSession, FindSession, Bind,
       Submit, CallHere, Succeeded, Failed, Reply, Respond, TypeOK
<1>4. ASSUME NEW q \in Request, Eval(q) \/ Commit(q), ThreadOf(q) = t PROVE FALSE
  <2>1. Active(q)
    BY <1>4 DEF Eval, Commit, Active
  <2>2. q = r
    BY <1>4, <2>1, OneTaskPerThread
  <2> QED
    BY <1>4, <2>2 DEF Eval, Commit, EndTask, TypeOK
<1>5. ASSUME t \in Key, StartTask(t) PROVE FALSE
  <2>1. shape[r].inSession
    BY <1>1, <1>5, TaskHasThread, ConstantsAssumption
  <2>2. running[t] = r
    BY <1>1, <2>1, TaskHasThread DEF TasksAreAwaited
  <2> QED
    BY <1>5, <2>2, ConstantsAssumption DEF StartTask, Runnable
<1> QED
  BY <1>2, <1>3, <1>4, <1>5, WhoTouchesTransactions

\* The steps that take the task of r to its next stage.
LEMMA NextStage ==
  ASSUME IInv, IInv', [Next]_vars, NEW r \in Request, Active(r)', stage'[r] # stage[r]
  PROVE  \/ CallHere(r) \/ Eval(r) \/ WriteResult(r)
         \/ \E k \in Key : StartTask(k) /\ Head(queue[k]) = r
<1> USE DEF IInv
<1>1. ASSUME NEW q \in Request, Handle(q) PROVE q = r /\ CallHere(r)
  <2>1. CallHere(q) \/ Submit(q)
    BY <1>1 DEF Handle, OpenSession, KillSession, RemoveSession, FindSession, Bind,
                Succeeded, Failed, Reply, taskVars
  <2>2. q = r
    BY <2>1 DEF CallHere, Submit, TypeOK
  <2> QED
    BY <2>1, <2>2 DEF Submit, Active, TypeOK
<1>2. ASSUME NEW q \in Request, Call(q) PROVE q = r /\ (Eval(r) \/ WriteResult(r))
  <2>1. q = r
    BY <1>2 DEF Call, Eval, WriteResult, Commit, EndTask, TypeOK
  <2> QED
    BY <1>2, <2>1 DEF Call, Commit, EndTask, Active, TypeOK
<1>3. ASSUME NEW k \in Key, StartTask(k) PROVE Head(queue[k]) = r
  BY <1>3 DEF StartTask, TypeOK
<1> QED
  BY <1>1, <1>2, <1>3
  DEF Next, Receive, IdlePast, Monitor, MonitorHas, MonitorGet, MonitorKill, MonitorRemove,
      MonitorSleep, Quiet, vars, taskVars

LEMMA NextKeepsTransactionsOwn ==
  IInv /\ IInv' /\ KilledSessionsAreGone /\ TransactionsAreOwn /\ [Next]_vars
    => TransactionsAreOwn'
<1> SUFFICES ASSUME IInv, IInv', KilledSessionsAreGone, TransactionsAreOwn, [Next]_vars,
                    NEW r \in Request, Transactional(r)', Active(r)'
             PROVE  /\ stage'[r] = "started" => tx'[ThreadOf(r)'] = {}
                    /\ stage'[r] \in {"evaluated", "written"} => tx'[ThreadOf(r)'] \subseteq {r}
  BY DEF TransactionsAreOwn, Active
<1> USE DEF IInv
<1>1. pc'[r] = "waiting"
  BY DEF TasksAreAwaited, Active
<1>2. pc[r] \in {"bound", "waiting"} /\ by'[r] = by[r]
  <2>1. ASSUME NEW q \in Request, NEW w \in Worker, Receive(q, w)
        PROVE  pc[r] \in {"bound", "waiting"} /\ by'[r] = by[r]
    BY <1>1, <2>1 DEF Receive, TypeOK
  <2>2. ASSUME NEW q \in Request, Handle(q)
        PROVE  pc[r] \in {"bound", "waiting"} /\ by'[r] = by[r]
    <3>1. q # r => pc'[r] = pc[r] /\ by'[r] = by[r]
      <4>1. q # r => pc'[r] = pc[r]
        BY <2>2, HandleIsLocal
      <4>2. by' = by \/ by' = [by EXCEPT ![q] = None]
        BY <2>2 DEF Handle, OpenSession, KillSession, RemoveSession, FindSession, Bind, Submit,
                    CallHere, Succeeded, Failed, Reply
      <4> QED
        BY <4>1, <4>2 DEF TypeOK
    <3>2. q = r => Submit(r) \/ CallHere(r)
      BY <1>1, <2>2 DEF Handle, OpenSession, KillSession, RemoveSession, FindSession, Bind,
         Succeeded, Failed, Reply, Respond, TypeOK
    <3> QED
      BY <1>1, <3>1, <3>2 DEF Submit, CallHere
  <2>3. ASSUME UNCHANGED <<pc, by>> PROVE pc[r] \in {"bound", "waiting"} /\ by'[r] = by[r]
    BY <1>1, <2>3
  <2> QED
    BY <2>1, <2>2, <2>3
    DEF Next, Call, Eval, WriteResult, Commit, StartTask, IdlePast, Monitor, MonitorHas,
        MonitorGet, MonitorKill, MonitorRemove, MonitorSleep, Quiet, vars, reqVars
<1>3. /\ shape'[r] = shape[r] /\ key'[r] = key[r]
      /\ Transactional(r) /\ ThreadOf(r)' = ThreadOf(r)
  BY <1>2, ScriptsStay DEF KilledSessionsAreGone, ThreadOf
<1>4. CASE stage'[r] = stage[r]
  <2>1. tx'[ThreadOf(r)] = tx[ThreadOf(r)]
    BY <1>4, RunningTaskIsAlone DEF Active
  <2> QED
    BY <1>3, <1>4, <2>1 DEF TransactionsAreOwn
<1>5. CASE stage'[r] # stage[r]
  <2>1. CASE CallHere(r)
    BY <1>2, <1>3, <2>1 DEF CallHere, AtStart, ThreadOf, Thread, TypeOK, WorkersAreBusyOnce
  <2>2. CASE Eval(r)
    <3>1. tx[ThreadOf(r)] = {} /\ ThreadOf(r) \in Thread
      BY <1>3, <2>2, TaskHasThread DEF TransactionsAreOwn, Eval, TasksAreAwaited, Active
    <3>2. tx'[ThreadOf(r)] \subseteq {r}
      BY <2>2, <3>1 DEF Eval, TypeOK
    <3>3. stage'[r] # "started"
      BY <2>2 DEF Eval, EndTask, TypeOK
    <3> QED
      BY <1>3, <3>2, <3>3
  <2>3. CASE WriteResult(r)
    <3>1. tx' = tx /\ stage[r] = "evaluated" /\ stage'[r] # "started"
      BY <2>3 DEF WriteResult, EndTask, txVars, TypeOK
    <3> QED
      BY <1>3, <3>1 DEF TransactionsAreOwn
  <2>4. ASSUME NEW k \in Key, StartTask(k), Head(queue[k]) = r
        PROVE  stage'[r] = "started" /\ tx'[ThreadOf(r)'] = {}
    <3>1. queue[k][1] = r /\ 1 \in 1..Len(queue[k])
      BY <2>4 DEF StartTask, Runnable, TypeOK
    <3>2. shape[r].inSession /\ key[r] = k
      BY <3>1 DEF QueuesAreSound
    <3> QED
      BY <1>3, <2>4, <3>2 DEF StartTask, AtStart, ThreadOf, Thread, TypeOK
  <2> QED
    BY <1>5, <2>1, <2>2, <2>3, <2>4, NextStage
<1> QED
  BY <1>4, <1>5

\* The transactions of scripts do not mix, whatever the scripts do.
THEOREM TransactionsAreSeparate == Spec => []TransactionsAreOwn
<1>1. Init => TransactionsAreOwn
  BY DEF Init, TransactionsAreOwn
<1> QED
  BY <1>1, Invariance, DestroyedIsGone, NextKeepsTransactionsOwn, PTL DEF Spec

\* A commit makes the script it was asked for durable, and no other: also when
\* scripts before it on the same thread left a transaction open.
THEOREM CommitsAreOwn == Spec => CommitsOwnWritesOnly
<1>1. ASSUME IInv, TransactionsAreOwn, [Next]_vars, NEW r \in Request,
             stage[r] = "written", stage'[r] = "ok"
      PROVE  durable' \ durable \subseteq {r}
  <2>1. Commit(r)
    <3>1. ASSUME NEW q \in Request, Handle(q) PROVE FALSE
      <4>1. stage' = stage \/ Submit(q) \/ CallHere(q)
        BY <3>1 DEF Handle, OpenSession, KillSession, RemoveSession, FindSession, Bind,
                    Succeeded, Failed, Reply, taskVars
      <4> QED
        BY <1>1, <4>1 DEF Submit, CallHere, IInv, TypeOK
    <3>2. ASSUME NEW q \in Request, Call(q) PROVE Commit(r)
      BY <1>1, <3>2 DEF Call, Eval, WriteResult, Commit, EndTask, IInv, TypeOK
    <3>3. ASSUME NEW k \in Key, StartTask(k) PROVE FALSE
      BY <1>1, <3>3 DEF StartTask, IInv, TypeOK
    <3>4. ASSUME UNCHANGED stage PROVE FALSE
      BY <1>1, <3>4
    <3> QED
      BY <1>1, <3>1, <3>2, <3>3, <3>4
      DEF Next, Receive, IdlePast, Monitor, MonitorHas, MonitorGet, MonitorKill, MonitorRemove,
          MonitorSleep, Quiet, vars, taskVars
  <2> QED
    BY <1>1, <2>1 DEF Commit, TransactionsAreOwn, txVars
<1>2. IInv /\ TransactionsAreOwn /\ [Next]_vars =>
        [\A r \in Request :
           stage[r] = "written" /\ stage'[r] = "ok" => durable' \ durable \subseteq {r}]_vars
  BY <1>1
<1> QED
  BY <1>2, Invariance, TransactionsAreSeparate, PTL DEF Spec, CommitsOwnWritesOnly

-----------------------------------------------------------------------------
(* Effects and answers, when scripts leave the commit to the server        *)

\* Steps that make nothing durable and bring no task to a result.
LEMMA NoNewEffects ==
  ASSUME EffectsAreAnswered, shape' = shape, durable' = durable,
         \A r \in Request : stage[r] = "ok" => stage'[r] = "ok",
         \A r \in Request : stage'[r] \in {"written", "ok"} =>
           stage[r] = stage'[r] /\ response'[r] = response[r],
         durable \subseteq Request
  PROVE  EffectsAreAnswered'
  BY DEF EffectsAreAnswered

LEMMA NextKeepsEffectsAnswered ==
  NoSelfCommit /\ IInv /\ TransactionsAreOwn /\ EffectsAreAnswered /\ [Next]_vars
    => EffectsAreAnswered'
<1> SUFFICES ASSUME NoSelfCommit, IInv, TransactionsAreOwn, EffectsAreAnswered, [Next]_vars
             PROVE  EffectsAreAnswered'
  OBVIOUS
<1> USE DEF IInv
<1>1. ASSUME NEW q \in Request, NEW w \in Worker, Receive(q, w) PROVE EffectsAreAnswered'
  BY <1>1 DEF Receive, EffectsAreAnswered, TypeOK, taskVars, txVars
<1>2. ASSUME NEW q \in Request, Handle(q) PROVE EffectsAreAnswered'
  <2>1. CASE OpenSession(q) \/ KillSession(q) \/ RemoveSession(q) \/ FindSession(q) \/ Bind(q)
    <3>1. stage[q] = "none" /\ UNCHANGED <<shape, stage, durable>>
      BY <2>1 DEF OpenSession, KillSession, RemoveSession, FindSession, Bind, taskVars, txVars,
                  TasksAreAwaited
    <3>2. \A r \in Request : r # q => response'[r] = response[r]
      BY <2>1 DEF OpenSession, KillSession, RemoveSession, FindSession, Bind, Respond, TypeOK
    <3> QED
      BY <3>1, <3>2, NoNewEffects DEF TypeOK
  <2>2. CASE Submit(q) \/ CallHere(q)
    <3>1. UNCHANGED <<shape, response, durable>> /\ stage[q] = "none"
      BY <2>2 DEF Submit, CallHere, txVars, TasksAreAwaited
    <3>2. /\ \A r \in Request : r # q => stage'[r] = stage[r]
          /\ stage'[q] \in {"none", "queued", "started"}
      BY <2>2, <3>1 DEF Submit, CallHere, TypeOK
    <3> QED
      BY <3>1, <3>2, NoNewEffects DEF TypeOK
  <2>3. CASE Succeeded(q) \/ Reply(q)
    BY <2>3, NoNewEffects DEF Succeeded, Reply, taskVars, txVars, TypeOK
  <2>4. CASE Failed(q)
    <3>1. stage[q] \in {"none", "failed"} /\ UNCHANGED <<shape, stage, durable>>
      BY <2>4 DEF Failed, taskVars, TasksAreAwaited
    <3>2. \A r \in Request : r # q => response'[r] = response[r]
      BY <2>4 DEF Failed, Respond, TypeOK
    <3> QED
      BY <3>1, <3>2, NoNewEffects DEF TypeOK
  <2> QED
    BY <1>2, <2>1, <2>2, <2>3, <2>4 DEF Handle
<1>3. ASSUME NEW q \in Request, Eval(q) PROVE EffectsAreAnswered'
  <2>1. shape[q].script # "commit"
    BY DEF EffectsAreAnswered, NoSelfCommit, NoShape
  <2>2. /\ UNCHANGED <<shape, response, durable>>
        /\ stage[q] = "started" /\ stage'[q] \in {"evaluated", "failed"}
        /\ \A r \in Request : r # q => stage'[r] = stage[r]
    BY <1>3, <2>1 DEF Eval, EndTask, reqVars, TypeOK
  <2> QED
    BY <2>2, NoNewEffects DEF TypeOK
<1>4. ASSUME NEW q \in Request, WriteResult(q) PROVE EffectsAreAnswered'
  <2>1. /\ UNCHANGED <<shape, durable>>
        /\ stage[q] = "evaluated" /\ stage'[q] \in {"written", "failed"}
        /\ stage'[q] = "written" => response'[q] \in {"result", "serialization"}
        /\ \A r \in Request : r # q => stage'[r] = stage[r] /\ response'[r] = response[r]
    BY <1>4 DEF WriteResult, EndTask, txVars, TypeOK
  <2> QED
    BY <2>1 DEF EffectsAreAnswered, TypeOK
<1>5. ASSUME NEW q \in Request, Commit(q) PROVE EffectsAreAnswered'
  <2>1. /\ UNCHANGED <<shape, response>>
        /\ stage[q] = "written" /\ stage'[q] \in {"ok", "failed"}
        /\ \A r \in Request : r # q => stage'[r] = stage[r]
    BY <1>5 DEF Commit, EndTask, reqVars, TypeOK
  <2>2. durable' = durable \/ (durable' \subseteq durable \cup {q} /\ stage'[q] = "ok")
    BY <1>5 DEF Commit, EndTask, txVars, TransactionsAreOwn, TypeOK
  <2> QED
    BY <2>1, <2>2 DEF EffectsAreAnswered, TypeOK
<1>6. ASSUME NEW k \in Key, StartTask(k) PROVE EffectsAreAnswered'
  <2>1. stage[Head(queue[k])] = "queued"
    <3>1. queue[k][1] = Head(queue[k]) /\ 1 \in 1..Len(queue[k])
      BY <1>6 DEF StartTask, Runnable, TypeOK
    <3> QED
      BY <3>1 DEF QueuesAreSound
  <2>2. \A r \in Request : stage'[r] = stage[r] \/ (r = Head(queue[k]) /\ stage'[r] = "started")
    BY <1>6 DEF StartTask, TypeOK
  <2> QED
    BY <1>6, <2>1, <2>2, NoNewEffects DEF StartTask, reqVars, txVars, TypeOK
<1>7. ASSUME UNCHANGED <<shape, response, stage, durable>> PROVE EffectsAreAnswered'
  BY <1>7, NoNewEffects DEF TypeOK
<1> QED
  BY <1>1, <1>2, <1>3, <1>4, <1>5, <1>6, <1>7
  DEF Next, Call, IdlePast, Monitor, MonitorHas, MonitorGet, MonitorKill, MonitorRemove,
      MonitorSleep, Quiet, vars, reqVars, taskVars, txVars

\* What is durable came from a task that ended well and whose client was not
\* told of a failure.
THEOREM EffectsAnswered == NoSelfCommit => (Spec => []EffectsAreAnswered)
<1> SUFFICES ASSUME NoSelfCommit PROVE Spec => []EffectsAreAnswered
  OBVIOUS
<1>1. Init => EffectsAreAnswered
  BY DEF Init, EffectsAreAnswered
<1>2. IInv /\ TransactionsAreOwn /\ EffectsAreAnswered /\ [Next]_vars => EffectsAreAnswered'
  BY NextKeepsEffectsAnswered
<1> QED
  BY <1>1, <1>2, Invariance, TransactionsAreSeparate, PTL DEF Spec

\* "rolling back if not": as long as no script of the server commits by itself,
\* a client that is told of a failure finds nothing of its script in the graph.
THEOREM FailuresAreRolledBack == NoSelfCommit => (Spec => []FailureMeansRolledBack)
<1> SUFFICES ASSUME NoSelfCommit PROVE Spec => []FailureMeansRolledBack
  OBVIOUS
<1>1. EffectsAreAnswered => FailureMeansRolledBack
  BY DEF EffectsAreAnswered, FailureMeansRolledBack
<1>2. Spec => []EffectsAreAnswered
  BY EffectsAnswered
<1> QED
  BY <1>1, <1>2, PTL

-----------------------------------------------------------------------------
(* The server implements AtomicScripts                                     *)

\* Once a request has been answered nothing about its answer changes.
LEMMA AnswersStay ==
  ASSUME IInv, [Next]_vars, NEW r \in Request, pc[r] = "sent"
  PROVE  pc'[r] = "sent" /\ response'[r] = response[r] /\ Promise(r)' = Promise(r)
<1> USE DEF IInv
<1>1. ASSUME NEW q \in Request, NEW w \in Worker, Receive(q, w)
      PROVE  pc'[r] = pc[r] /\ response'[r] = response[r] /\ shape'[r] = shape[r]
  BY <1>1 DEF Receive, TypeOK
<1>2. ASSUME NEW q \in Request, Handle(q)
      PROVE  pc'[r] = pc[r] /\ response'[r] = response[r] /\ shape'[r] = shape[r]
  <2>1. q # r
    BY <1>2 DEF Handle, OpenSession, KillSession, RemoveSession, FindSession, Bind, Submit,
                CallHere, Succeeded, Failed, Reply
  <2>2. response'[r] = response[r]
    BY <1>2, <2>1 DEF Handle, OpenSession, KillSession, RemoveSession, FindSession, Bind, Submit,
                      CallHere, Succeeded, Failed, Reply, Respond, TypeOK
  <2> QED
    BY <1>2, <2>1, <2>2, HandleIsLocal
<1>3. ASSUME NEW q \in Request, WriteResult(q)
      PROVE  pc'[r] = pc[r] /\ response'[r] = response[r] /\ shape'[r] = shape[r]
  <2>1. q # r
    BY <1>3 DEF WriteResult, TasksAreAwaited, Active
  <2> QED
    BY <1>3, <2>1 DEF WriteResult, TypeOK
<1>4. pc'[r] = pc[r] /\ response'[r] = response[r] /\ shape'[r] = shape[r]
  BY <1>1, <1>2, <1>3
  DEF Next, Call, Eval, Commit, StartTask, IdlePast, Monitor, MonitorHas, MonitorGet,
      MonitorKill, MonitorRemove, MonitorSleep, Quiet, vars, reqVars
<1>5. shape[r].kind = "script" => (Transactional(r)' <=> Transactional(r))
  BY ScriptsStay
<1> QED
  BY <1>4, <1>5 DEF Promise

\* What a client is told is true of the graph.
LEMMA PromisesHold ==
  ASSUME IInv, EffectsAreAnswered, NEW r \in Request, pc[r] \in {"reply", "sent"}
  PROVE  /\ response[r] \notin {"result", "serialization"} => r \notin durable
         /\ response[r] = "result" /\ Transactional(r) => r \in durable
  BY DEF IInv, WritesAreAccounted, EffectsAreAnswered

Called(r) == pc[r] \notin {"new", "sent"}

\* A step that neither takes nor answers a request is seen above only by what it
\* makes durable.
LEMMA StuttersAbove ==
  ASSUME IInv, [Next]_vars,
         \A r \in Request : pc'[r] = pc[r] \/ (Called(r) /\ Called(r)')
  PROVE  UNCHANGED <<Progress, Told>>
<1>1. \A r \in Request : Promise(r)' = Promise(r)
  <2> TAKE r \in Request
  <2>1. CASE pc[r] = "sent"
    BY <2>1, AnswersStay
  <2>2. CASE pc[r] # "sent"
    BY <2>2 DEF Promise, Called
  <2> QED
    BY <2>1, <2>2
<1>2. Told' = Told
  BY <1>1 DEF Told
<1>3. Progress' = Progress
  BY DEF Progress, Called
<1> QED
  BY <1>2, <1>3

\* A request is taken.
LEMMA ReceiveTakes ==
  ASSUME IInv, NEW r \in Request, NEW w \in Worker, Receive(r, w)
  PROVE  Atomic!Take(r)
<1> USE DEF IInv
<1>1. pc[r] = "new" /\ pc' = [pc EXCEPT ![r] = "received"] /\ durable' = durable
  BY DEF Receive, txVars
<1>2. Progress[r] = "idle"
  BY <1>1 DEF Progress
<1>3. Progress' = [Progress EXCEPT ![r] = "called"]
  BY <1>1 DEF Progress, TypeOK
<1>4. Told' = Told
  <2>1. \A q \in Request : q # r => pc'[q] = pc[q]
    BY <1>1 DEF TypeOK
  <2>2. \A q \in Request : Promise(q)' = Promise(q)
    <3> TAKE q \in Request
    <3>1. CASE q = r
      BY <1>1, <3>1 DEF Promise, TypeOK
    <3>2. CASE q # r /\ pc[q] = "sent"
      BY <3>2, AnswersStay DEF Next
    <3>3. CASE q # r /\ pc[q] # "sent"
      BY <2>1, <3>3 DEF Promise
    <3> QED
      BY <3>1, <3>2, <3>3
  <2> QED
    BY <2>2 DEF Told
<1> QED
  BY <1>1, <1>2, <1>3, <1>4 DEF Atomic!Take

\* A request is answered, and the answer is true.
LEMMA ReplyAnswers ==
  ASSUME IInv, EffectsAreAnswered, NEW r \in Request, Reply(r)
  PROVE  Atomic!Answer(r)
<1> USE DEF IInv
<1>1. /\ pc[r] = "reply" /\ pc' = [pc EXCEPT ![r] = "sent"]
      /\ UNCHANGED <<shape, key, response, hasGraph, durable>>
  BY DEF Reply, sessVars, txVars
<1>2. Progress[r] = "called"
  BY <1>1 DEF Progress
<1>3. Progress' = [Progress EXCEPT ![r] = "answered"]
  BY <1>1 DEF Progress, TypeOK
<1>4. \A q \in Request : q # r => Promise(q)' = Promise(q)
  BY <1>1 DEF Promise, Transactional, HasGraph, TypeOK
<1>5. Told' = [Told EXCEPT ![r] = Promise(r)']
  BY <1>4 DEF Told
<1>6. Promise(r)' \in Atomic!Answers \ {"none"}
  BY <1>1 DEF Promise, Atomic!Answers, TypeOK
<1>7. pc'[r] = "sent" /\ (Transactional(r)' <=> Transactional(r))
  BY <1>1 DEF Transactional, HasGraph, TypeOK
<1>8. Promise(r)' = "error" => r \notin durable
  BY <1>1, <1>7, PromisesHold DEF Promise
<1>9. Promise(r)' = "result" => r \in durable
  BY <1>1, <1>7, PromisesHold DEF Promise
<1> QED
  BY <1>1, <1>2, <1>3, <1>5, <1>6, <1>8, <1>9 DEF Atomic!Answer

\* A commit applies the script, or fails and changes nothing.
LEMMA CommitApplies ==
  ASSUME IInv, TransactionsAreOwn, EffectsAreAnswered, NEW r \in Request, Commit(r)
  PROVE  Atomic!Apply(r) \/ UNCHANGED <<Progress, Told, durable>>
<1> USE DEF IInv
<1>1. UNCHANGED <<Progress, Told>>
  BY StuttersAbove DEF Commit, reqVars, Next, Call
<1>2. stage[r] = "written" /\ Progress[r] = "called"
  BY DEF Commit, TasksAreAwaited, Active, Progress
<1>3. r \notin durable
  BY <1>2 DEF EffectsAreAnswered
<1>4. durable' = durable \/ durable' = durable \cup {r}
  BY <1>2, <1>3 DEF Commit, TransactionsAreOwn, WritesAreAccounted, txVars
<1> QED
  BY <1>1, <1>2, <1>3, <1>4 DEF Atomic!Apply

LEMMA NextImplements ==
  NoSelfCommit /\ IInv /\ TransactionsAreOwn /\ EffectsAreAnswered /\ [Next]_vars
    => [Atomic!Next]_<<Progress, Told, durable>>
<1> SUFFICES ASSUME NoSelfCommit, IInv, TransactionsAreOwn, EffectsAreAnswered, [Next]_vars
             PROVE  [Atomic!Next]_<<Progress, Told, durable>>
  OBVIOUS
<1> USE DEF IInv
<1>1. ASSUME NEW r \in Request, NEW w \in Worker, Receive(r, w)
      PROVE  [Atomic!Next]_<<Progress, Told, durable>>
  BY <1>1, ReceiveTakes DEF Atomic!Next
<1>2. ASSUME NEW r \in Request, Handle(r) PROVE [Atomic!Next]_<<Progress, Told, durable>>
  <2>1. CASE Reply(r)
    BY <2>1, ReplyAnswers DEF Atomic!Next
  <2>2. CASE ~Reply(r)
    <3>1. durable' = durable
      BY <1>2, <2>2 DEF Handle, OpenSession, KillSession, RemoveSession, FindSession, Bind,
                        Submit, CallHere, Succeeded, Failed, txVars
    <3>2. Called(r) /\ Called(r)'
      <4>1. Called(r)
        BY <1>2, <2>2 DEF Handle, OpenSession, KillSession, RemoveSession, FindSession, Bind,
                          Submit, CallHere, Succeeded, Failed, Called
      <4>2. pc'[r] \notin {"new", "sent"}
        BY <1>2, <2>2, <4>1 DEF Handle, OpenSession, KillSession, RemoveSession, FindSession,
           Bind, Submit, CallHere, Succeeded, Failed, Respond, TypeOK
      <4> QED
        BY <4>1, <4>2 DEF Called
    <3>3. UNCHANGED <<Progress, Told>>
      BY <1>2, <3>2, HandleIsLocal, StuttersAbove
    <3> QED
      BY <3>1, <3>3
  <2> QED
    BY <2>1, <2>2
<1>3. ASSUME NEW r \in Request, Commit(r) PROVE [Atomic!Next]_<<Progress, Told, durable>>
  BY <1>3, CommitApplies DEF Atomic!Next
<1>4. ASSUME UNCHANGED <<pc, durable>> PROVE [Atomic!Next]_<<Progress, Told, durable>>
  BY <1>4, StuttersAbove
<1>5. ASSUME NEW r \in Request, Eval(r) PROVE UNCHANGED <<pc, durable>>
  BY <1>5 DEF Eval, reqVars, EffectsAreAnswered, NoSelfCommit, NoShape
<1> QED
  BY <1>1, <1>2, <1>3, <1>4, <1>5
  DEF Next, Call, WriteResult, StartTask, IdlePast, Monitor, MonitorHas, MonitorGet,
      MonitorKill, MonitorRemove, MonitorSleep, Quiet, vars, reqVars, txVars

\* As long as no script commits by itself, the workers, the session threads, the
\* monitor and the rollbacks together make each script atomic, and every client
\* is told what became of its own.
THEOREM Refinement == NoSelfCommit => (Spec => ImplementsAtomicScripts)
<1> SUFFICES ASSUME NoSelfCommit PROVE Spec => ImplementsAtomicScripts
  OBVIOUS
<1>1. Init => Atomic!Init
  BY DEF Init, Atomic!Init, Progress, Told, Promise
<1>2. IInv /\ TransactionsAreOwn /\ EffectsAreAnswered /\ [Next]_vars
        => [Atomic!Next]_<<Progress, Told, durable>>
  BY NextImplements
<1>3. Spec => []EffectsAreAnswered
  BY EffectsAnswered
<1> QED
  BY <1>1, <1>2, <1>3, Invariance, TransactionsAreSeparate, PTL
  DEF Spec, ImplementsAtomicScripts, Atomic!Spec

\* Everything that the runs check of the state together, whatever the scripts do.
THEOREM FullInvariance == Spec => []FullInv
<1>1. Init => IInv /\ FullInv
  BY InitIInv, InitBInv DEF Init, FullInv, BInv, KilledSessionsAreGone, TransactionsAreOwn,
                            EffectsAreAnswered
<1>2. IInv /\ IInv' /\ FullInv /\ [Next]_vars => FullInv'
  BY NextKeepsKilledSessionsGone, NextKeepsBindings, NextKeepsTransactionsOwn,
     NextKeepsEffectsAnswered DEF FullInv, BInv
<1> QED
  BY <1>1, <1>2, Invariance, PTL DEF Spec
=============================================================================
