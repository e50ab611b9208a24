---------------------------- MODULE RexProServer ----------------------------
(***************************************************************************)
(* The RexPro server: Grizzly worker threads take requests off the wire    *)
(* and run SessionServer.handleRequest or ScriptServer.handleRequest; a    *)
(* script that belongs to a session is handed to the single thread of that *)
(* session's executor; RexProSessionMonitor destroys idle sessions.        *)
(*                                                                         *)
(* One graph is configured.  Its transactions are bound to threads (that   *)
(* is Blueprints, seen here only through stopTransaction): tx[t] is the    *)
(* set of requests whose writes sit in the open transaction of thread t.   *)
(* A session has exactly one thread, so the thread is named by the key.    *)
(* Every request brings two arguments: one under a name that all of them   *)
(* use and one under a name of its own.  A map of bindings is then which   *)
(* request bound the common name last, and whose own names are in it.      *)
(***************************************************************************)
EXTENDS Naturals, Sequences, FiniteSets

CONSTANTS
  Worker,      \* threads of the Grizzly worker pool
  Key,         \* session keys that UUID.randomUUID may draw, each once
  Request,     \* requests that clients send, each once
  Shape,       \* what those requests may ask for: a subset of ShapeType
  None,        \* no request, no thread, no message
  NoKey,       \* the Session field of a message that carries none
  StaleKey     \* a key no session of this server has

Kind     == {"open", "kill", "script"}
Script   == {"write", "fail", "commit", "unknownLanguage"}
Graph    == {"none", "known", "missing", "illTyped"}
Response == {"none", "session", "emptySession", "result",
             "invalidMessage", "invalidSession", "scriptFailure",
             "graphConfig", "serialization", "unknownError"}
PC       == {"new", "received", "found", "bound", "rejected", "waiting",
             "killed", "reply", "sent"}
Stage    == {"none", "queued", "started", "evaluated", "written", "ok",
             "failed"}
ShapeType == [kind: Kind, inSession: BOOLEAN, isolate: BOOLEAN,
              transaction: BOOLEAN, graph: Graph, script: Script]

ASSUME ConstantsAssumption ==
  /\ Shape \subseteq ShapeType
  /\ \A s \in Shape : s.kind # "script" => ~s.inSession
  /\ Worker \cap Key = {}
  /\ None \notin Request \cup Worker \cup Key
  /\ {NoKey, StaleKey} \cap (Key \cup Worker) = {}

VARIABLES
  \* requests and the worker threads that handle them
  shape, key, by, pc, response,
  before,      \* history: the requests Answered when each was taken
  \* RexProSessions.sessions and the session objects
  sessions, life, hasGraph, idle, binding,
  copy,        \* the map of its own that an isolated request runs with
  \* the executor of each session, and the task made of each request
  queue, running, stage, seen,
  \* the graph
  tx, durable,
  \* RexProSessionMonitor
  mpc, mkey, mseen

reqVars  == <<shape, key, by, pc, response, before>>
sessVars == <<sessions, life, hasGraph, idle, binding, copy>>
taskVars == <<queue, running, stage, seen>>
txVars   == <<tx, durable>>
monVars  == <<mpc, mkey, mseen>>
vars     == <<reqVars, sessVars, taskVars, txVars, monVars>>

Thread == Worker \cup Key
Bindings == [arg: Request \cup {None}, names: SUBSET Request]
Empty == [arg |-> None, names |-> {}]
NoShape == [kind |-> "script", inSession |-> FALSE, isolate |-> TRUE,
            transaction |-> FALSE, graph |-> "none", script |-> "write"]

TypeOK ==
  /\ shape \in [Request -> ShapeType]
  /\ key \in [Request -> Key \cup {NoKey, StaleKey}]
  /\ by \in [Request -> Worker \cup {None}]
  /\ pc \in [Request -> PC]
  /\ response \in [Request -> Response]
  /\ before \in [Request -> SUBSET Request]
  /\ sessions \subseteq Key
  /\ life \in [Key -> {"none", "live", "killed"}]
  /\ hasGraph \in [Key -> BOOLEAN]
  /\ idle \in [Key -> BOOLEAN]
  /\ binding \in [Key -> Bindings]
  /\ copy \in [Request -> Bindings]
  /\ queue \in [Key -> Seq(Request)]
  /\ running \in [Key -> Request \cup {None}]
  /\ stage \in [Request -> Stage]
  /\ seen \in [Request -> Bindings]
  /\ tx \in [Thread -> SUBSET Request]
  /\ durable \subseteq Request
  /\ mpc \in {"pass", "get", "destroy", "remove", "dead"}
  /\ mkey \in Key \cup {None}
  /\ mseen \subseteq Key

Init ==
  /\ shape = [r \in Request |-> NoShape]
  /\ key = [r \in Request |-> NoKey]
  /\ by = [r \in Request |-> None]
  /\ pc = [r \in Request |-> "new"]
  /\ response = [r \in Request |-> "none"]
  /\ before = [r \in Request |-> {}]
  /\ sessions = {}
  /\ life = [k \in Key |-> "none"]
  /\ hasGraph = [k \in Key |-> FALSE]
  /\ idle = [k \in Key |-> FALSE]
  /\ binding = [k \in Key |-> Empty]
  /\ copy = [r \in Request |-> Empty]
  /\ queue = [k \in Key |-> <<>>]
  /\ running = [k \in Key |-> None]
  /\ stage = [r \in Request |-> "none"]
  /\ seen = [r \in Request |-> Empty]
  /\ tx = [t \in Thread |-> {}]
  /\ durable = {}
  /\ mpc = "pass"
  /\ mkey = None
  /\ mseen = {}

-----------------------------------------------------------------------------
(* Reading the state                                                       *)

\* The thread that runs the script of r: the session's, or the worker itself
\* for an EmptySession.
ThreadOf(r) == IF shape[r].inSession THEN key[r] ELSE by[r]

\* The "graph" handed to evaluate: the one the message names, else the
\* session's, else null.
HasGraph(r) ==
  \/ shape[r].graph = "known"
  \/ shape[r].inSession /\ key[r] \in Key /\ hasGraph[key[r]]

\* tryRollbackTransaction and tryCommitTransaction do something for r only if
\* the message asks for a transaction and the graph is not null.
Transactional(r) == shape[r].transaction /\ HasGraph(r)

\* Keys that a client has been told.
Known == {key[r] : r \in {q \in Request : pc[q] = "sent"
                                          /\ response[q] = "session"}}

FreeWorker(w) == \A r \in Request : by[r] # w

\* Requests that are over, of those that may leave something to the next.
Answered == {q \in Request : pc[q] = "sent" /\ shape[q].inSession /\ ~shape[q].isolate}

\* The requests whose scripts run with the bindings of the session k itself.
Sharing(k) == {q \in Request :
  /\ pc[q] # "new" /\ shape[q].kind = "script"
  /\ shape[q].inSession /\ ~shape[q].isolate /\ key[q] = k}

\* Another worker may be in the middle of its putAll into the bindings of the
\* session of r, a HashMap without a lock.
Racing(r) ==
  shape[r].inSession /\ \E q \in Sharing(key[r]) \ {r} : pc[q] = "found"

-----------------------------------------------------------------------------
(* What the code computes                                                  *)

\* Mutant: the rollback at the start is forgotten.
AtStart_Lingering(r) == tx[ThreadOf(r)]

\* What the transaction of the script's thread holds when the script starts:
\* call() rolls back first, so a lingering transaction is not mixed in.
AtStart(r) == IF Transactional(r) THEN {} ELSE tx[ThreadOf(r)]

\* The arguments of r put into a map.
With(b, r) == [arg |-> r, names |-> b.names \cup {r}]

\* What may be left of a map that another thread changes meanwhile.
Torn(b) == [arg: {b.arg, None}, names: SUBSET b.names]

\* Mutant: an isolated request binds into the session itself.
Bound_Shared(r) ==
  {IF shape[r].inSession THEN [binding EXCEPT ![key[r]] = With(binding[key[r]], r)] ELSE binding}

\* The sessions' bindings once r has been bound.  Two merges at a time may lose
\* entries of either.
Bound(r) ==
  IF shape[r].inSession /\ ~shape[r].isolate
  THEN LET b == With(binding[key[r]], r)
       IN {[binding EXCEPT ![key[r]] = c] : c \in IF Racing(r) THEN Torn(b) ELSE {b}}
  ELSE {binding}

\* A request that is isolated, or of no session, has a map of its own: a copy of
\* the session's, if there is one, into which its arguments are put.
Copied(r) ==
  IF shape[r].inSession
  THEN IF shape[r].isolate THEN With(binding[key[r]], r) ELSE Empty
  ELSE With(Empty, r)

\* What the script of r finds: in the session's map whatever is there by now.
Visible(r) ==
  IF shape[r].inSession /\ ~shape[r].isolate
  THEN IF Racing(r) THEN Torn(binding[key[r]]) ELSE {binding[key[r]]}
  ELSE {copy[r]}

\* Mutant: the failure keeps the response that the task had written.
FailureResponse_Kept(r) ==
  IF response[r] = "none" THEN "scriptFailure" ELSE response[r]

\* The response left when evaluate throws: whatever the evaluator had written
\* is replaced.
FailureResponse(r) == "scriptFailure"

\* Mutant: the queue dies with the session, as with shutdownNow().
Runnable_UntilKilled(k) ==
  queue[k] # <<>> /\ running[k] = None /\ life[k] = "live"

\* A session thread can take a task as long as there is one: shutdown() lets
\* tasks that were accepted finish.
Runnable(k) == queue[k] # <<>> /\ running[k] = None

\* Mutant: the executor is never shut down.
Shutdown_Forgotten(k) == life

\* destroySession, first half: the executor is shut down.
Shutdown(k) == [life EXCEPT ![k] = "killed"]

\* Mutant: the killed session stays in the map.
Removed_Forgotten(k) == sessions

\* destroySession, second half.
Removed(k) == sessions \ {k}

\* A finished execute() makes the session fresh again.
Touched(r) == [idle EXCEPT ![key[r]] = FALSE]

-----------------------------------------------------------------------------
(* A worker thread takes a request off the wire                            *)

\* Clients use keys they were told, stale ones, or none.  The number of keys
\* bounds how many sessions are asked for.
Receive(r, w) ==
  /\ pc[r] = "new"
  /\ FreeWorker(w)
  /\ \E s \in Shape, k \in Known \cup {NoKey, StaleKey} :
       /\ s.kind = "open" =>
            /\ k = NoKey
            /\ Cardinality({q \in Request : pc[q] # "new"
                                            /\ shape[q].kind = "open"})
                 < Cardinality(Key)
       /\ s.kind = "script" /\ ~s.inSession => k = NoKey
       /\ shape' = [shape EXCEPT ![r] = s]
       /\ key' = [key EXCEPT ![r] = k]
  /\ by' = [by EXCEPT ![r] = w]
  /\ before' = [before EXCEPT ![r] = Answered]
  /\ pc' = [pc EXCEPT ![r] = "received"]
  /\ UNCHANGED <<response, sessVars, taskVars, txVars, monVars>>

\* The processor filter writes the response that was set last.
Reply(r) ==
  /\ pc[r] = "reply"
  /\ pc' = [pc EXCEPT ![r] = "sent"]
  /\ by' = [by EXCEPT ![r] = None]
  /\ UNCHANGED <<before, shape, key, response, sessVars, taskVars, txVars, monVars>>

Respond(r, what) ==
  /\ response' = [response EXCEPT ![r] = what]
  /\ pc' = [pc EXCEPT ![r] = "reply"]

-----------------------------------------------------------------------------
(* SessionServer.handleRequest                                             *)

\* A fresh UUID, a new session in the map, then its graph.  A graph that does
\* not exist, or a graphName of the wrong type, leaves the session in the map
\* and answers with an error.
OpenSession(r) ==
  /\ pc[r] = "received" /\ shape[r].kind = "open"
  /\ \E k \in Key :
       /\ life[k] = "none"
       /\ life' = [life EXCEPT ![k] = "live"]
       /\ sessions' = sessions \cup {k}
       /\ hasGraph' = [hasGraph EXCEPT ![k] = shape[r].graph = "known"]
       /\ \/ shape[r].graph = "missing" /\ Respond(r, "graphConfig") /\ key' = key
          \/ shape[r].graph = "illTyped" /\ Respond(r, "invalidMessage") /\ key' = key
          \/ /\ shape[r].graph \in {"none", "known"}
             /\ Respond(r, "session") /\ key' = [key EXCEPT ![r] = k]
  /\ UNCHANGED <<before, shape, by, idle, binding, copy, taskVars, txVars, monVars>>

\* destroySession up to kill().  sessionAsUUID of a null key throws out of the
\* handler and process() answers; a key without a session is answered as if
\* the session had been destroyed.
KillSession(r) ==
  /\ pc[r] = "received" /\ shape[r].kind = "kill"
  /\ \/ /\ key[r] = NoKey
        /\ Respond(r, "unknownError")
        /\ UNCHANGED life
     \/ /\ key[r] # NoKey /\ key[r] \notin sessions
        /\ Respond(r, "emptySession")
        /\ UNCHANGED life
     \/ /\ key[r] \in sessions
        /\ life' = Shutdown(key[r])
        /\ pc' = [pc EXCEPT ![r] = "killed"]
        /\ UNCHANGED response
  /\ UNCHANGED <<before, shape, key, by, sessions, hasGraph, idle, binding, copy, taskVars,
                 txVars, monVars>>

RemoveSession(r) ==
  /\ pc[r] = "killed"
  /\ sessions' = Removed(key[r])
  /\ Respond(r, "emptySession")
  /\ UNCHANGED <<before, shape, key, by, life, hasGraph, idle, binding, copy, taskVars,
                 txVars, monVars>>

-----------------------------------------------------------------------------
(* ScriptServer.handleRequest, on the worker thread                        *)

\* Metadata, session and graph checks: the session object is taken from the
\* map here and used in the steps that follow.
FindSession(r) ==
  /\ pc[r] = "received" /\ shape[r].kind = "script"
  /\ LET s == shape[r]
         gone == s.inSession /\ key[r] \notin sessions
         redefined == s.inSession /\ key[r] \in sessions /\ hasGraph[key[r]]
                      /\ s.graph # "none"
     IN \/ /\ s.graph = "illTyped" \/ (gone /\ key[r] = NoKey)
           /\ Respond(r, "scriptFailure")
        \/ /\ s.graph # "illTyped" /\ gone /\ key[r] # NoKey
           /\ Respond(r, "invalidSession")
        \/ /\ s.graph # "illTyped" /\ ~gone
           /\ redefined \/ s.graph = "missing"
           /\ Respond(r, "graphConfig")
        \/ /\ s.graph # "illTyped" /\ ~gone
           /\ ~redefined /\ s.graph # "missing"
           /\ pc' = [pc EXCEPT ![r] = "found"]
           /\ UNCHANGED response
  /\ UNCHANGED <<before, shape, key, by, sessVars, taskVars, txVars, monVars>>

\* evaluate() up to execute(): the engine is looked up, the bindings merged.
\* No such engine, or a map that changes while it is copied: the handler rolls
\* back on the worker thread and answers.
Bind(r) ==
  /\ pc[r] = "found"
  /\ \/ /\ shape[r].script = "unknownLanguage" \/ (shape[r].isolate /\ Racing(r))
        /\ tx' = IF Transactional(r) THEN [tx EXCEPT ![by[r]] = {}] ELSE tx
        /\ Respond(r, FailureResponse(r))
        /\ UNCHANGED <<binding, copy>>
     \/ /\ shape[r].script # "unknownLanguage"
        /\ binding' \in Bound(r)
        /\ copy' = [copy EXCEPT ![r] = Copied(r)]
        /\ pc' = [pc EXCEPT ![r] = "bound"]
        /\ UNCHANGED <<response, tx>>
  /\ UNCHANGED <<before, shape, key, by, sessions, life, hasGraph, idle, taskVars,
                 durable, monVars>>

\* executor.submit: refused once the session has been killed.
Submit(r) ==
  /\ pc[r] = "bound" /\ shape[r].inSession
  /\ \/ /\ life[key[r]] = "live"
        /\ queue' = [queue EXCEPT ![key[r]] = Append(@, r)]
        /\ stage' = [stage EXCEPT ![r] = "queued"]
        /\ pc' = [pc EXCEPT ![r] = "waiting"]
     \/ /\ life[key[r]] # "live"
        /\ pc' = [pc EXCEPT ![r] = "rejected"]
        /\ UNCHANGED <<queue, stage>>
  /\ UNCHANGED <<before, shape, key, by, response, sessVars, running, seen, txVars,
                 monVars>>

\* EmptySession.execute calls the evaluator where it stands.
CallHere(r) ==
  /\ pc[r] = "bound" /\ ~shape[r].inSession
  /\ stage' = [stage EXCEPT ![r] = "started"]
  /\ tx' = [tx EXCEPT ![by[r]] = AtStart(r)]
  /\ pc' = [pc EXCEPT ![r] = "waiting"]
  /\ UNCHANGED <<before, shape, key, by, response, sessVars, queue, running, seen,
                 durable, monVars>>

\* Future.get returned: the response was written by the task.
Succeeded(r) ==
  /\ pc[r] = "waiting" /\ stage[r] = "ok"
  /\ idle' = IF shape[r].inSession THEN Touched(r) ELSE idle
  /\ pc' = [pc EXCEPT ![r] = "reply"]
  /\ UNCHANGED <<before, shape, key, by, response, sessions, life, hasGraph, binding, copy,
                 taskVars, txVars, monVars>>

\* The task failed or was refused.  RexProSession.execute rolls back every
\* graph, and the handler the graph of the request: both on the worker thread.
Failed(r) ==
  /\ pc[r] = "rejected" \/ (pc[r] = "waiting" /\ stage[r] = "failed")
  /\ tx' = IF shape[r].inSession \/ Transactional(r)
           THEN [tx EXCEPT ![by[r]] = {}] ELSE tx
  /\ idle' = IF shape[r].inSession THEN Touched(r) ELSE idle
  /\ Respond(r, FailureResponse(r))
  /\ UNCHANGED <<before, shape, key, by, sessions, life, hasGraph, binding, copy, taskVars,
                 durable, monVars>>

-----------------------------------------------------------------------------
(* Evaluator.call, on the session thread or, sessionless, on the worker    *)

\* The session thread takes the next task and rolls back what is lingering.
StartTask(k) ==
  /\ Runnable(k)
  /\ LET r == Head(queue[k])
     IN /\ running' = [running EXCEPT ![k] = r]
        /\ stage' = [stage EXCEPT ![r] = "started"]
        /\ tx' = [tx EXCEPT ![k] = AtStart(r)]
  /\ queue' = [queue EXCEPT ![k] = Tail(@)]
  /\ UNCHANGED <<reqVars, sessVars, seen, durable, monVars>>

\* The task is over: the session thread is free again.
EndTask(r, how) ==
  /\ stage' = [stage EXCEPT ![r] = how]
  /\ running' = IF shape[r].inSession
                THEN [running EXCEPT ![key[r]] = None] ELSE running

\* The script runs.  It writes to the graph; then it may throw, or commit the
\* transaction of its thread itself.
Eval(r) ==
  /\ stage[r] = "started"
  /\ \E b \in Visible(r) : seen' = [seen EXCEPT ![r] = b]
  /\ LET t == ThreadOf(r)
         written == tx[t] \cup {r}
     IN \/ /\ shape[r].script = "write"
           /\ tx' = [tx EXCEPT ![t] = written]
           /\ stage' = [stage EXCEPT ![r] = "evaluated"]
           /\ UNCHANGED <<durable, running>>
        \/ /\ shape[r].script = "commit"
           /\ tx' = [tx EXCEPT ![t] = {}]
           /\ durable' = durable \cup written
           /\ stage' = [stage EXCEPT ![r] = "evaluated"]
           /\ UNCHANGED running
        \/ /\ shape[r].script = "fail"
           /\ tx' = [tx EXCEPT ![t] = written]
           /\ EndTask(r, "failed")
           /\ UNCHANGED durable
  /\ UNCHANGED <<reqVars, sessVars, queue, monVars>>

\* writeScriptResults: a result that cannot be serialized is replaced by an
\* error and the task goes on; one that cannot be formatted throws.
WriteResult(r) ==
  /\ stage[r] = "evaluated"
  /\ \/ /\ \E what \in {"result", "serialization"} :
             response' = [response EXCEPT ![r] = what]
        /\ stage' = [stage EXCEPT ![r] = "written"]
        /\ UNCHANGED running
     \/ /\ EndTask(r, "failed")
        /\ UNCHANGED response
  /\ UNCHANGED <<before, shape, key, by, pc, sessVars, queue, seen, txVars, monVars>>

\* tryCommitTransaction: the graph may refuse the commit, and then keeps the
\* transaction open or drops it.
Commit(r) ==
  /\ stage[r] = "written"
  /\ LET t == ThreadOf(r)
     IN \/ /\ ~Transactional(r)
           /\ EndTask(r, "ok")
           /\ UNCHANGED txVars
        \/ /\ Transactional(r)
           /\ durable' = durable \cup tx[t]
           /\ tx' = [tx EXCEPT ![t] = {}]
           /\ EndTask(r, "ok")
        \/ /\ Transactional(r)
           /\ \E left \in {{}, tx[t]} : tx' = [tx EXCEPT ![t] = left]
           /\ EndTask(r, "failed")
           /\ UNCHANGED durable
  /\ UNCHANGED <<reqVars, sessVars, queue, seen, monVars>>

-----------------------------------------------------------------------------
(* RexProSessionMonitor.run                                                *)

\* Time passes: the session has not finished a script for session-max-idle.
\* That a script is executing makes no difference to getIdleTime.
IdlePast(k) ==
  /\ life[k] # "none" /\ ~idle[k]
  /\ idle' = [idle EXCEPT ![k] = TRUE]
  /\ UNCHANGED <<reqVars, sessions, life, hasGraph, binding, copy, taskVars, txVars,
                 monVars>>

\* The next key of the pass is still in the map.
MonitorHas(k) ==
  /\ mpc = "pass" /\ k \in sessions \ mseen
  /\ mpc' = "get"
  /\ mkey' = k
  /\ UNCHANGED <<reqVars, sessVars, taskVars, txVars, mseen>>

\* getSession(key).getIdleTime(): null if the session was destroyed meanwhile,
\* and the exception ends the thread.
MonitorGet ==
  /\ mpc = "get"
  /\ \/ /\ mkey \notin sessions
        /\ mpc' = "dead" /\ mkey' = None
        /\ UNCHANGED mseen
     \/ /\ mkey \in sessions /\ idle[mkey]
        /\ mpc' = "destroy"
        /\ UNCHANGED <<mkey, mseen>>
     \/ /\ mkey \in sessions /\ ~idle[mkey]
        /\ mpc' = "pass" /\ mkey' = None
        /\ mseen' = mseen \cup {mkey}
  /\ UNCHANGED <<reqVars, sessVars, taskVars, txVars>>

\* destroySession by the monitor, in its two halves.
MonitorKill ==
  /\ mpc = "destroy"
  /\ \/ /\ mkey \in sessions
        /\ life' = Shutdown(mkey)
        /\ mpc' = "remove"
        /\ UNCHANGED mkey
     \/ /\ mkey \notin sessions
        /\ mpc' = "pass" /\ mkey' = None
        /\ UNCHANGED life
  /\ UNCHANGED <<reqVars, sessions, hasGraph, idle, binding, copy, taskVars, txVars,
                 mseen>>

MonitorRemove ==
  /\ mpc = "remove"
  /\ sessions' = Removed(mkey)
  /\ mpc' = "pass" /\ mkey' = None
  /\ UNCHANGED <<reqVars, life, hasGraph, idle, binding, copy, taskVars, txVars,
                 mseen>>

\* The pass is over; the thread sleeps and starts the next one.
MonitorSleep ==
  /\ mpc = "pass" /\ mseen # {} /\ sessions \subseteq mseen
  /\ mseen' = {}
  /\ UNCHANGED <<reqVars, sessVars, taskVars, txVars, mpc, mkey>>

-----------------------------------------------------------------------------
\* One step of the worker that handles r, once it has taken it.
Handle(r) ==
  \/ OpenSession(r) \/ KillSession(r) \/ RemoveSession(r)
  \/ FindSession(r) \/ Bind(r) \/ Submit(r) \/ CallHere(r)
  \/ Succeeded(r) \/ Failed(r) \/ Reply(r)

\* One step of the task made of r, whichever thread it is on.
Call(r) == Eval(r) \/ WriteResult(r) \/ Commit(r)

Monitor ==
  \/ \E k \in Key : MonitorHas(k)
  \/ MonitorGet \/ MonitorKill \/ MonitorRemove \/ MonitorSleep

\* Every request of the bound has been answered and nothing is left to do but
\* what the monitor does.
Quiet ==
  /\ \A r \in Request : pc[r] = "sent"
  /\ UNCHANGED vars

Next ==
  \/ \E r \in Request, w \in Worker : Receive(r, w)
  \/ \E r \in Request : Handle(r)
  \/ \E r \in Request : Call(r)
  \/ \E k \in Key : StartTask(k)
  \/ \E k \in Key : IdlePast(k)
  \/ Monitor
  \/ Quiet

Spec == Init /\ [][Next]_vars

\* Threads that can take a step take it: workers, session threads, and the
\* monitor, whose pass repeats every second under the default settings.  When
\* a request arrives and when a session grows idle is nobody's duty.
Fairness ==
  /\ \A r \in Request : WF_vars(Handle(r)) /\ WF_vars(Call(r))
  /\ \A k \in Key : WF_vars(StartTask(k))
  /\ WF_vars(Monitor)

FairSpec == Spec /\ Fairness

-----------------------------------------------------------------------------
(* Properties                                                              *)

\* A client that is told the result of a transactional script can rely on its
\* writes being durable: the response is written before the commit, but sent
\* only after it, and replaced if the commit fails.
ResultMeansCommitted ==
  \A r \in Request :
    pc[r] = "sent" /\ response[r] = "result" /\ Transactional(r)
      => r \in durable

\* "rolling back if not": a transactional script that failed leaves nothing in
\* the graph, now or later.
FailureMeansRolledBack ==
  \A r \in Request :
    pc[r] = "sent" /\ response[r] = "scriptFailure" /\ Transactional(r)
      => r \notin durable

\* The commit of a transactional script makes its own writes durable and not
\* what an earlier script left open on the same thread.
CommitsOwnWritesOnly ==
  [][\A r \in Request :
       stage[r] = "written" /\ stage'[r] = "ok" => durable' \ durable \subseteq {r}]_vars

\* Requests of a session that are not isolated come one at a time: the next is
\* sent when the one before has been answered.
OneAtATime(k) ==
  \A q, r \in Sharing(k) : q = r \/ q \in before[r] \/ r \in before[q]

\* The script of r has run.
HasRun(r) == stage[r] \in {"evaluated", "written", "ok", "failed"}

\* What a script finds bound.  An isolated one has its own arguments, whatever
\* runs beside it; nobody ever finds those of another isolated request.  Where
\* the others of a session come one at a time, each finds its own arguments, and
\* every script of the session, isolated or not, those of all scripts without
\* isolation that were answered before; where two of them overlap, the worker of
\* one merges while the session's thread is still to run the other.
ArgumentsHold ==
  \A r \in Request : HasRun(r) =>
    /\ shape[r].isolate \/ ~shape[r].inSession => seen[r].arg = r
    /\ \A q \in seen[r].names : q = r \/ (shape[r].inSession /\ q \in Sharing(key[r]))
    /\ shape[r].inSession /\ OneAtATime(key[r]) =>
         /\ seen[r].arg = r
         /\ \A q \in before[r] \cap Sharing(key[r]) : HasRun(q) => q \in seen[r].names

\* No session thread is forgotten: a session outside the map has been shut
\* down, whoever destroyed it.
NoLeakedExecutor == \A k \in Key : life[k] = "live" => k \in sessions

\* Once a client has been answered that its session is destroyed, a request on
\* that session that is looked up afterwards is refused.
KilledSessionRefuses ==
  [][\A r, q \in Request :
       (/\ shape[q].kind = "kill" /\ pc[q] = "sent" /\ key[q] # NoKey
        /\ shape[r].kind = "script" /\ shape[r].inSession /\ key[r] = key[q]
        /\ pc[r] = "received" /\ pc'[r] # "received")
       => pc'[r] = "reply"]_vars

\* Every request that a worker took is answered, also when the session dies
\* while its task is queued or running.
EveryRequestAnswered ==
  \A r \in Request : pc[r] = "received" ~> pc[r] = "sent"

Idling(k) == k \in sessions /\ idle[k]

\* A session that stays idle is destroyed as long as the monitor's thread lives,
\* whoever else destroys sessions meanwhile, and also if no client was ever told
\* of the session.
MonitorDestroysIdleSessions ==
  \A k \in Key : Idling(k) ~> (~Idling(k) \/ mpc = "dead")

-----------------------------------------------------------------------------
(* The inductive invariant: why the properties above hold                  *)

Active(r) == stage[r] \in {"started", "evaluated", "written"}

\* A worker handles one request at a time, and one it has taken has a worker.
WorkersAreBusyOnce ==
  /\ \A r \in Request : by[r] = None <=> pc[r] \in {"new", "sent"}
  /\ \A r, q \in Request : by[r] # None /\ by[r] = by[q] => r = q

\* Only requests on whose task a worker is waiting have tasks that are
\* queued or running; in a session the task that runs is the one the session
\* thread took.
TasksAreAwaited ==
  /\ \A r \in Request : stage[r] = "queued" \/ Active(r) => pc[r] = "waiting"
  /\ \A r \in Request : pc[r] = "waiting" => stage[r] # "none"
  /\ \A r \in Request : stage[r] # "none" /\ shape[r].inSession => key[r] \in Key
  /\ \A r \in Request : Active(r) /\ shape[r].inSession => running[key[r]] = r
  /\ \A r \in Request : pc[r] \in {"new", "received", "found", "bound", "rejected", "killed"}
       => stage[r] = "none"

\* The tasks in a session's queue are distinct, of that session, and waiting.
QueuesAreSound ==
  \A k \in Key :
    /\ \A i \in 1..Len(queue[k]) :
         LET r == queue[k][i]
         IN stage[r] = "queued" /\ shape[r].inSession /\ key[r] = k
    /\ \A i, j \in 1..Len(queue[k]) : queue[k][i] = queue[k][j] => i = j

\* A session in use has been created, and whoever is about to take it from the
\* map has killed it.
SessionsAreCreated ==
  /\ \A r \in Request : key[r] \in Key => life[key[r]] # "none"
  /\ \A r \in Request : pc[r] \in {"found", "bound", "waiting", "rejected"} /\ shape[r].inSession
       => key[r] \in Key
  /\ \A r \in Request : pc[r] = "killed" => key[r] \in Key /\ life[key[r]] = "killed"
  /\ mpc \in {"get", "destroy", "remove"} => mkey \in Key
  /\ mpc = "remove" => life[mkey] = "killed"
  /\ \A k \in sessions : life[k] # "none"

\* Where the writes of a script are, from the moment it has run until the
\* client is told its result.
WritesAreAccounted ==
  /\ \A r \in Request : stage[r] \in {"evaluated", "written"}
       => r \in tx[ThreadOf(r)] \cup durable
  /\ \A r \in Request : stage[r] = "ok" /\ Transactional(r) => r \in durable
  /\ \A r \in Request : response[r] = "result"
       => stage[r] \in {"written", "ok", "failed"}
  /\ \A r \in Request : pc[r] \in {"reply", "sent"} /\ response[r] = "result"
       => stage[r] = "ok"

IInv ==
  /\ TypeOK
  /\ WorkersAreBusyOnce
  /\ TasksAreAwaited
  /\ QueuesAreSound
  /\ SessionsAreCreated
  /\ WritesAreAccounted
  /\ NoLeakedExecutor

\* The session that a client was told is destroyed is not in the map, and as
\* keys are drawn once it will not be again.
KilledSessionsAreGone ==
  /\ \A r \in Request :
       shape[r].kind = "kill" /\ pc[r] \in {"reply", "sent"} /\ key[r] # NoKey
         => key[r] \notin sessions
  /\ \A r \in Request :
       pc[r] \in {"found", "bound", "rejected", "waiting"} => shape[r].kind = "script"

\* The arguments of q have been put where its script finds them.
Merged(q) == pc[q] \in {"bound", "rejected", "waiting"} \/ stage[q] # "none"

\* What the map of a session holds came from requests that share it; and while
\* those come one at a time, it holds those of all that were bound, the last one
\* in front as long as its script has not run.
BindingsAreShared ==
  /\ \A k \in Key : binding[k].names \subseteq Sharing(k)
  /\ \A r \in Request : \A q \in before[r] : pc[q] = "sent" /\ pc[r] # "new"
  /\ \A k \in Key : OneAtATime(k) =>
       \A q \in Sharing(k) : Merged(q) =>
         /\ q \in binding[k].names
         /\ pc[q] \in {"bound", "waiting"} /\ ~HasRun(q) => binding[k].arg = q

\* What an isolated request has copied.
CopiesAreTrue ==
  \A r \in Request : Merged(r) /\ (shape[r].isolate \/ ~shape[r].inSession) =>
    /\ copy[r].arg = r
    /\ \A q \in copy[r].names : q = r \/ (shape[r].inSession /\ q \in Sharing(key[r]))
    /\ shape[r].inSession /\ OneAtATime(key[r]) =>
         \A q \in before[r] \cap Sharing(key[r]) : HasRun(q) => q \in copy[r].names

\* A transactional script starts on an empty transaction, and until it is
\* committed the transaction of its thread holds no writes but its own.
TransactionsAreOwn ==
  \A r \in Request : Transactional(r) =>
    /\ stage[r] = "started" => tx[ThreadOf(r)] = {}
    /\ stage[r] \in {"evaluated", "written"} => tx[ThreadOf(r)] \subseteq {r}

\* Scripts leave the end of their transactions to the server.
NoSelfCommit == \A s \in Shape : s.script # "commit"

\* Then what is durable comes from tasks that ended well, whose clients are not
\* told of a failure.
EffectsAreAnswered ==
  /\ \A r \in Request : shape[r] \in Shape \cup {NoShape}
  /\ \A r \in durable : stage[r] = "ok"
  /\ \A r \in Request : stage[r] \in {"written", "ok"}
       => response[r] \in {"result", "serialization"}

FullInv ==
  /\ IInv
  /\ KilledSessionsAreGone
  /\ BindingsAreShared /\ CopiesAreTrue /\ ArgumentsHold
  /\ TransactionsAreOwn
  /\ NoSelfCommit => EffectsAreAnswered

-----------------------------------------------------------------------------
(* Refinement of AtomicScripts                                             *)

\* What the answer tells the client about the effect of its script.  Requests
\* whose transaction the server does not manage are told nothing.
Promise(r) ==
  IF pc[r] # "sent" THEN "none"
  ELSE IF shape[r].kind # "script" \/ ~Transactional(r)
          \/ response[r] = "serialization" THEN "unsure"
  ELSE IF response[r] = "result" THEN "result"
  ELSE "error"

Progress == [r \in Request |->
  IF pc[r] = "new" THEN "idle" ELSE IF pc[r] = "sent" THEN "answered" ELSE "called"]

Told == [r \in Request |-> Promise(r)]

Atomic == INSTANCE AtomicScripts WITH state <- Progress, answer <- Told

\* As long as scripts leave the commit to the server, the handlers, the session
\* threads and the rollbacks on either thread together behave like AtomicScripts.
ImplementsAtomicScripts == Atomic!Spec
=============================================================================
