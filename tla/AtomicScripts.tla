---------------------------- MODULE AtomicScripts ----------------------------
(***************************************************************************)
(* What the RexPro server promises of scripts whose transactions it        *)
(* manages: each takes effect at most once, on its own, between the moment *)
(* its request is taken and the moment it is answered, and the answer says *)
(* whether it did.                                                         *)
(***************************************************************************)
CONSTANTS Request

VARIABLES
  state,    \* of each request
  answer,   \* what its client was told
  durable   \* requests whose writes are in the graph

Answers == {"none", "result", "error", "unsure"}

Init ==
  /\ state = [r \in Request |-> "idle"]
  /\ answer = [r \in Request |-> "none"]
  /\ durable = {}

Take(r) ==
  /\ state[r] = "idle"
  /\ state' = [state EXCEPT ![r] = "called"]
  /\ UNCHANGED <<answer, durable>>

\* The writes of one request become durable, all at once and no others.
Apply(r) ==
  /\ state[r] = "called" /\ r \notin durable
  /\ durable' = durable \cup {r}
  /\ UNCHANGED <<state, answer>>

\* "result" promises the effect and "error" its absence; "unsure" is the answer
\* to a script whose result could not be serialized.
Answer(r) ==
  /\ state[r] = "called"
  /\ \E a \in Answers \ {"none"} :
       /\ a = "error" => r \notin durable
       /\ a = "result" => r \in durable
       /\ answer' = [answer EXCEPT ![r] = a]
  /\ state' = [state EXCEPT ![r] = "answered"]
  /\ UNCHANGED durable

Next == \E r \in Request : Take(r) \/ Apply(r) \/ Answer(r)

Spec == Init /\ [][Next]_<<state, answer, durable>>
=============================================================================
