---------------------------- MODULE RexsterClient ----------------------------
(***************************************************************************)
(* RexsterClient.execute: any number of threads call it on any number of   *)
(* clients of one process.  A call registers a queue of capacity one under *)
(* its request id in the static map of responses, sends the request to one *)
(* host after the other until a write succeeds, and polls the queue.       *)
(* Replies are read by the threads of the one transport that all clients   *)
(* share; they look up the queue of the reply's request and put it there.  *)
(*                                                                         *)
(* The servers and the network are seen only through what may come of a    *)
(* write: a write that timed out may have arrived, replies may be lost.    *)
(* Time is not modelled: a timeout may fire whenever the call waits, and a *)
(* caller may be interrupted whenever it waits.                            *)
(***************************************************************************)
EXTENDS Naturals, FiniteSets

CONSTANTS
  Client,    \* RexsterClient objects of the process
  Call,      \* calls of execute, each with a request id of its own
  Owner,     \* the client that a call is made on
  Handler,   \* worker threads of the shared transport
  Hosts,     \* number of hosts that each client is configured with
  Up,        \* the hosts that can be reached
  Retries,   \* message-retry-count of each client
  Closing,   \* the clients that may be closed while calls are under way
  None

ASSUME ClientAssumption ==
  /\ Owner \in [Call -> Client]
  /\ Hosts \in Nat \ {0} /\ Up \subseteq 0 .. Hosts - 1
  /\ Retries \in [Client -> Nat]
  /\ Closing \subseteq Client
  /\ None \notin Call

Tries(c) == Retries[Owner[c]]

VARIABLES
  cpc, tries, outcome,   \* the threads that call execute
  cur, tried,            \* nextConnection: the last host; those a call was given
  responses, queue,      \* the static map and the queues it holds
  hpc, hcall,            \* the threads that read replies
  wire, replies, served, \* messages under way, and what the servers executed
  closing                \* close(): not called, has cleared the map, done

callVars   == <<cpc, tries, outcome>>
hostVars   == <<cur, tried>>
handVars   == <<hpc, hcall>>
netVars    == <<wire, replies, served>>
vars == <<callVars, hostVars, responses, queue, handVars, netVars, closing>>

TypeOK ==
  /\ cpc \in [Call -> {"idle", "sending", "writing", "polling", "polled", "done"}]
  /\ tries \in [Call -> Nat] /\ \A c \in Call : tries[c] <= Tries(c)
  /\ outcome \in [Call -> {"none", "result", "noResult", "notSent", "closed",
                             "interrupted"}]
  /\ cur \in [Client -> 0 .. Hosts - 1]
  /\ tried \in [Call -> SUBSET (0 .. Hosts - 1)]
  /\ responses \subseteq Call
  /\ queue \in [Call -> 0 .. 1]
  /\ hpc \in [Handler -> {"idle", "checked", "putting"}]
  /\ hcall \in [Handler -> Call \cup {None}]
  /\ wire \in [Call -> Nat]
  /\ replies \in [Call -> Nat]
  /\ served \in [Call -> Nat]
  /\ closing \in [Client -> {"open", "cleared", "closed"}]

Init ==
  /\ cpc = [c \in Call |-> "idle"]
  /\ tries = [c \in Call |-> Tries(c)]
  /\ outcome = [c \in Call |-> "none"]
  /\ cur = [k \in Client |-> 0]
  /\ tried = [c \in Call |-> {}]
  /\ responses = {}
  /\ queue = [c \in Call |-> 0]
  /\ hpc = [h \in Handler |-> "idle"]
  /\ hcall = [h \in Handler |-> None]
  /\ wire = [c \in Call |-> 0]
  /\ replies = [c \in Call |-> 0]
  /\ served = [c \in Call |-> 0]
  /\ closing = [k \in Client |-> "open"]

-----------------------------------------------------------------------------
(* What the code computes                                                  *)

\* Mutant: the host is remembered only once it has answered.
NextHost_Sticky(k) == cur[k]

\* nextConnection goes round the hosts, under the lock of the connections.
NextHost(k) == (cur[k] + 1) % Hosts

\* Mutant: a failed send forgets to take its queue out of the map.
AfterFailure_Kept(c) == responses

\* The queue of a call is given up with its last try.
AfterFailure(c) == IF tries[c] = 1 THEN responses \ {c} ELSE responses

\* Replies to requests that nobody waits for any more are dropped.
Awaited(c) == c \in responses

\* Mutant: a queue that holds nothing and hands its element over.
HasRoom_HandOff(c) == cpc[c] = "polling"

\* The capacity of a queue is one.
HasRoom(c) == queue[c] = 0

\* The read timeout passes while the queue is empty.
MayGiveUp(c) == queue[c] = 0

-----------------------------------------------------------------------------
(* The calling thread                                                      *)

Return(c, how) ==
  /\ cpc' = [cpc EXCEPT ![c] = "done"]
  /\ outcome' = [outcome EXCEPT ![c] = how]

\* execute: the queue is registered before anything is sent.
Register(c) ==
  /\ cpc[c] = "idle"
  /\ responses' = responses \cup {c}
  /\ cpc' = [cpc EXCEPT ![c] = "sending"]
  /\ UNCHANGED <<tries, outcome, hostVars, queue, handVars, netVars, closing>>

\* Mutant: a failed try is not counted.
TryFailed_Uncounted(c) ==
  /\ cpc' = [cpc EXCEPT ![c] = "sending"]
  /\ UNCHANGED <<tries, outcome, responses>>

\* One try has failed, and the loop goes on; before another try the thread
\* sleeps (SleepInterrupted).
TryFailed(c) ==
  /\ tries' = [tries EXCEPT ![c] = @ - 1]
  /\ responses' = AfterFailure(c)
  /\ cpc' = [cpc EXCEPT ![c] = "sending"]
  /\ UNCHANGED outcome

\* nextConnection: the connection is open or can be opened, or the try fails, as
\* it may with any host.
Connect(c) ==
  /\ cpc[c] = "sending" /\ tries[c] > 0 /\ closing[Owner[c]] # "closed"
  /\ cur' = [cur EXCEPT ![Owner[c]] = NextHost(Owner[c])]
  /\ tried' = [tried EXCEPT ![c] = @ \cup {NextHost(Owner[c])}]
  /\ \/ /\ NextHost(Owner[c]) \in Up
        /\ cpc' = [cpc EXCEPT ![c] = "writing"]
        /\ wire' = [wire EXCEPT ![c] = @ + 1]
        /\ UNCHANGED <<tries, outcome, responses>>
     \/ TryFailed(c) /\ UNCHANGED wire
  /\ UNCHANGED <<queue, handVars, replies, served, closing>>

\* The loop ends with no try left, or because the client has been closed; in
\* the second case the queue stays in the map.
EndLoop(c) ==
  /\ cpc[c] = "sending"
  /\ \/ closing[Owner[c]] = "closed" /\ Return(c, "closed")
     \/ closing[Owner[c]] # "closed" /\ tries[c] = 0 /\ Return(c, "notSent")
  /\ UNCHANGED <<tries, hostVars, responses, queue, handVars, netVars, closing>>

\* The sleep between two tries is interrupted: the exception leaves sendRequest
\* and execute, and nobody takes the queue out of the map.
SleepInterrupted(c) ==
  /\ cpc[c] = "sending" /\ 0 < tries[c] /\ tries[c] < Tries(c)
  /\ Return(c, "interrupted")
  /\ UNCHANGED <<tries, hostVars, responses, queue, handVars, netVars, closing>>

\* The future of the write completes within write-timeout.
Written(c) ==
  /\ cpc[c] = "writing"
  /\ cpc' = [cpc EXCEPT ![c] = "polling"]
  /\ UNCHANGED <<tries, outcome, hostVars, responses, queue, handVars, netVars,
                 closing>>

\* It does not, or fails, or the thread is interrupted, which counts as a failed
\* try: the message may have left all the same.
WriteFailed(c) ==
  /\ cpc[c] = "writing"
  /\ \/ UNCHANGED wire
     \/ wire[c] > 0 /\ wire' = [wire EXCEPT ![c] = @ - 1]
  /\ TryFailed(c)
  /\ UNCHANGED <<hostVars, queue, handVars, replies, served, closing>>

\* poll returns a reply, or null after read-timeout.
Poll(c) ==
  /\ cpc[c] = "polling"
  /\ \/ /\ queue[c] = 1
        /\ queue' = [queue EXCEPT ![c] = 0]
        /\ outcome' = [outcome EXCEPT ![c] = "result"]
     \/ /\ MayGiveUp(c)
        /\ outcome' = [outcome EXCEPT ![c] = "noResult"]
        /\ UNCHANGED queue
  /\ cpc' = [cpc EXCEPT ![c] = "polled"]
  /\ UNCHANGED <<tries, hostVars, responses, handVars, netVars, closing>>

\* poll is interrupted, whether or not a reply has come: here the queue is taken
\* out all the same.
PollInterrupted(c) ==
  /\ cpc[c] = "polling"
  /\ outcome' = [outcome EXCEPT ![c] = "noResult"]
  /\ cpc' = [cpc EXCEPT ![c] = "polled"]
  /\ UNCHANGED <<tries, hostVars, responses, queue, handVars, netVars, closing>>

Unregister(c) ==
  /\ cpc[c] = "polled"
  /\ responses' = responses \ {c}
  /\ cpc' = [cpc EXCEPT ![c] = "done"]
  /\ UNCHANGED <<tries, outcome, hostVars, queue, handVars, netVars, closing>>

-----------------------------------------------------------------------------
(* The servers, and the threads that read their replies                    *)

\* A server executes a request and replies; the connection may break first.
Serve(c) ==
  /\ wire[c] > 0
  /\ wire' = [wire EXCEPT ![c] = @ - 1]
  /\ served' = [served EXCEPT ![c] = @ + 1]
  /\ \/ replies' = [replies EXCEPT ![c] = @ + 1]
     \/ UNCHANGED replies
  /\ UNCHANGED <<callVars, hostVars, responses, queue, handVars, closing>>

\* putResponse, containsKey: a reply to a request that is not in the map is
\* dropped.
ReadReply(h, c) ==
  /\ hpc[h] = "idle" /\ replies[c] > 0
  /\ replies' = [replies EXCEPT ![c] = @ - 1]
  /\ IF Awaited(c)
     THEN /\ hpc' = [hpc EXCEPT ![h] = "checked"]
          /\ hcall' = [hcall EXCEPT ![h] = c]
     ELSE UNCHANGED handVars
  /\ UNCHANGED <<callVars, hostVars, responses, queue, wire, served, closing>>

\* putResponse, get: the request may have left the map since.
GetQueue(h) ==
  /\ hpc[h] = "checked"
  /\ IF Awaited(hcall[h])
     THEN hpc' = [hpc EXCEPT ![h] = "putting"] /\ UNCHANGED hcall
     ELSE /\ hpc' = [hpc EXCEPT ![h] = "idle"]
          /\ hcall' = [hcall EXCEPT ![h] = None]
  /\ UNCHANGED <<callVars, hostVars, responses, queue, netVars, closing>>

\* putResponse, put: waits for room.
PutReply(h) ==
  /\ hpc[h] = "putting"
  /\ HasRoom(hcall[h])
  /\ queue' = [queue EXCEPT ![hcall[h]] = 1]
  /\ hpc' = [hpc EXCEPT ![h] = "idle"]
  /\ hcall' = [hcall EXCEPT ![h] = None]
  /\ UNCHANGED <<callVars, hostVars, responses, netVars, closing>>

-----------------------------------------------------------------------------
(* close                                                                   *)

\* The map is static: the queues of all clients go.
ClearResponses(k) ==
  /\ k \in Closing /\ closing[k] = "open"
  /\ responses' = {}
  /\ closing' = [closing EXCEPT ![k] = "cleared"]
  /\ UNCHANGED <<callVars, hostVars, queue, handVars, netVars>>

MarkClosed(k) ==
  /\ closing[k] = "cleared"
  /\ closing' = [closing EXCEPT ![k] = "closed"]
  /\ UNCHANGED <<callVars, hostVars, responses, queue, handVars, netVars>>

-----------------------------------------------------------------------------
Execute(c) ==
  \/ Connect(c) \/ EndLoop(c) \/ Written(c) \/ WriteFailed(c)
  \/ Poll(c) \/ Unregister(c)

\* Somebody interrupts the calling thread.
Interrupted(c) == SleepInterrupted(c) \/ PollInterrupted(c)

PutResponse(h) == (\E c \in Call : ReadReply(h, c)) \/ GetQueue(h) \/ PutReply(h)

\* Every call of the bound has returned.
Quiet == (\A c \in Call : cpc[c] = "done") /\ UNCHANGED vars

Next ==
  \/ \E c \in Call : Register(c) \/ Execute(c) \/ Interrupted(c) \/ Serve(c)
  \/ \E h \in Handler : PutResponse(h)
  \/ \E k \in Client : ClearResponses(k) \/ MarkClosed(k)
  \/ Quiet

Spec == Init /\ [][Next]_vars

\* Calling threads and transport threads run.  When a request is made, whether
\* a server answers, and when a client is closed or a caller interrupted is
\* nobody's duty.
Fairness ==
  /\ \A c \in Call : WF_vars(Execute(c))
  /\ \A h \in Handler : WF_vars(PutResponse(h))

FairSpec == Spec /\ Fairness

-----------------------------------------------------------------------------
(* Properties                                                              *)

\* The static map does not grow by calls that have returned: after a reply, a
\* read timeout, an interrupted poll and the last try the queue is taken out
\* (execute 129-134 and 174-181, sendRequest 289-290).  Three ways out leave it
\* behind: the sleep between two tries was interrupted (292), the client was
\* found closed, or it is configured with no try at all.
NothingStaysRegistered ==
  \A c \in Call :
    /\ cpc[c] = "done" /\ outcome[c] \notin {"closed", "interrupted"} /\ Tries(c) > 0
    => c \notin responses

\* The registry of the process and its queues hold calls that are under way or
\* left in one of those three ways, and a queue one reply at most (responses, ArrayBlockingQueue(1)).
RegistryIsTrue == TypeOK /\ NothingStaysRegistered

\* A transport thread that has a reply for a call comes back from the call's
\* queue (putResponse 234), whether or not anybody takes the reply.  It holds
\* for calls that are served once; a second reply waits for ever.
HandlersComeBack ==
  \A h \in Handler, c \in Call :
    hpc[h] = "putting" /\ hcall[h] = c /\ Tries(c) = 1 ~> hpc[h] = "idle"

\* Every call returns, whatever becomes of hosts, messages, replies and of the
\* other clients of the process.
EveryCallReturns == \A c \in Call : cpc[c] = "sending" ~> cpc[c] = "done"

\* Neither the callers nor the transport's threads wait for ever.
NobodyWaitsForEver == EveryCallReturns /\ HandlersComeBack

\* A script is executed no more often than its client tries, though sendRequest
\* tries again after a write that timed out and may have arrived; so a client
\* that tries once never has it executed twice.  A result is that of a script
\* that was executed.
ServedAsTried ==
  \A c \in Call : /\ served[c] + wire[c] <= Tries(c)
                  /\ outcome[c] = "result" => served[c] > 0

\* A call that could not be sent, alone on its client and with as many tries as
\* hosts, has been to every host (nextConnection, "the next available RexPro
\* Server in the list").
GivesUpAfterAllHosts ==
  \A c \in Call :
    /\ outcome[c] = "notSent" /\ Tries(c) >= Hosts
    /\ \A d \in Call \ {c} : Owner[d] # Owner[c]
    => tried[c] = 0 .. Hosts - 1
=============================================================================
