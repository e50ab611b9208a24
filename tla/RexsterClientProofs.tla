------------------------- MODULE RexsterClientProofs -------------------------
(***************************************************************************)
(* Theorems about RexsterClient, for any number of clients, calls, hosts,  *)
(* tries and transport threads.  The argument follows one call: the tries  *)
(* that are left and those that may have come to a server make up the      *)
(* number that is configured; as long as it loops it is registered exactly *)
(* if it has a try left, unless somebody closed a client; and the host a   *)
(* lonely call is at tells how many hosts it has been to.                  *)
(***************************************************************************)
EXTENDS RexsterClient, TLAPS

LEMMA NextHostType ==
  ASSUME NEW k \in Client, cur[k] \in 0 .. Hosts - 1
  PROVE  /\ NextHost(k) \in 0 .. Hosts - 1
         /\ NextHost(k) = IF cur[k] + 1 = Hosts THEN 0 ELSE cur[k] + 1
<1>1. Hosts \in Nat \ {0}
  BY ClientAssumption
<1>2. CASE cur[k] + 1 = Hosts
  BY <1>1, <1>2 DEF NextHost
<1>3. CASE cur[k] + 1 # Hosts
  BY <1>1, <1>3 DEF NextHost
<1> QED
  BY <1>2, <1>3

\* The threads that hold a reply of c.
Carries(c) == \E h \in Handler : hcall[h] = c

\* A handler that is at a queue knows whose.
HandlersKnow == \A h \in Handler : hpc[h] # "idle" => hcall[h] \in Call

\* The tries of c: used up, or perhaps with a server.
Counted(c) ==
  /\ cpc[c] \in {"idle", "sending"} => served[c] + wire[c] + tries[c] <= Tries(c)
  /\ cpc[c] \in {"writing", "polling", "polled"} =>
       /\ served[c] + wire[c] + tries[c] <= Tries(c) + 1
       /\ tries[c] > 0
  /\ served[c] + wire[c] <= Tries(c)

\* Whatever there is of a reply to c has been sent by a server.
FromServer(c) ==
  replies[c] > 0 \/ Carries(c) \/ queue[c] = 1 \/ outcome[c] = "result" => served[c] > 0

Registered(c) ==
  /\ cpc[c] = "idle" => c \notin responses /\ tries[c] = Tries(c)
  /\ cpc[c] = "sending" /\ tries[c] = 0 /\ Tries(c) > 0 => c \notin responses
  /\ cpc[c] # "done" => outcome[c] \in {"none", "noResult", "result"}
  /\ cpc[c] = "done" /\ outcome[c] \notin {"closed", "interrupted"} /\ Tries(c) > 0
     => c \notin responses

\* A call that has the host list of its client for itself.
Alone(c) == \A d \in Call \ {c} : Owner[d] # Owner[c]

\* How often c has asked for a connection, while it loops.
Asked(c) == Tries(c) - tries[c] + (IF cpc[c] = "writing" THEN 1 ELSE 0)

Toured(c) ==
  Alone(c) =>
    /\ cpc[c] \in {"idle", "sending", "writing"} =>
         IF Asked(c) < Hosts
         THEN cur[Owner[c]] = Asked(c) /\ 1 .. Asked(c) \subseteq tried[c]
         ELSE tried[c] = 0 .. Hosts - 1
    /\ outcome[c] = "notSent" /\ Tries(c) >= Hosts => tried[c] = 0 .. Hosts - 1

CallInv(c) == Counted(c) /\ FromServer(c) /\ Registered(c) /\ Toured(c)

CInv == TypeOK /\ HandlersKnow /\ \A c \in Call : CallInv(c)

LEMMA OwnerType ==
  ASSUME NEW c \in Call
  PROVE  Owner[c] \in Client /\ Tries(c) \in Nat /\ c # None
  BY ClientAssumption DEF Tries

LEMMA InitCInv == Init => CInv
<1> SUFFICES ASSUME Init PROVE CInv
  OBVIOUS
<1>1. TypeOK
  BY OwnerType, ClientAssumption DEF Init, TypeOK
<1>2. ASSUME NEW c \in Call PROVE CallInv(c)
  <2>1. Counted(c) /\ FromServer(c) /\ Registered(c)
    BY OwnerType DEF Init, Counted, FromServer, Registered, Carries
  <2>2. Toured(c)
    BY OwnerType, ClientAssumption DEF Init, Toured, Asked
  <2> QED
    BY <2>1, <2>2 DEF CallInv
<1> QED
  BY <1>1, <1>2 DEF CInv, HandlersKnow, Init

-----------------------------------------------------------------------------
(* The calling thread, and the servers                                     *)

\* A step for call c, which leaves the others where they are; only the host of
\* its client is of concern to other calls.
Concerns(c) ==
  /\ \A d \in Call \ {c} :
       /\ cpc'[d] = cpc[d] /\ tries'[d] = tries[d] /\ outcome'[d] = outcome[d]
       /\ tried'[d] = tried[d] /\ queue'[d] = queue[d]
       /\ wire'[d] = wire[d] /\ replies'[d] = replies[d] /\ served'[d] = served[d]
       /\ d \in responses' => d \in responses
  /\ \A k \in Client \ {Owner[c]} : cur'[k] = cur[k]
  /\ UNCHANGED handVars

LEMMA StepKeeps ==
  ASSUME CInv, NEW c \in Call, Concerns(c), TypeOK', CallInv(c)'
  PROVE  CInv'
<1>1. ASSUME NEW d \in Call, d # c PROVE CallInv(d)'
  <2>1. CallInv(d)
    BY DEF CInv
  <2>2. Counted(d)'
    BY <1>1, <2>1 DEF CallInv, Counted, Concerns, Tries
  <2>3. FromServer(d)'
    BY <1>1, <2>1 DEF CallInv, FromServer, Carries, Concerns, handVars
  <2>4. Registered(d)'
    BY <1>1, <2>1 DEF CallInv, Registered, Concerns, Tries
  <2>5. Toured(d)'
    <3>1. Alone(d) => cur'[Owner[d]] = cur[Owner[d]]
      BY <1>1, OwnerType DEF Alone, Concerns
    <3> QED
      BY <1>1, <2>1, <3>1 DEF CallInv, Toured, Alone, Asked, Concerns, Tries
  <2> QED
    BY <2>2, <2>3, <2>4, <2>5 DEF CallInv
<1>2. HandlersKnow'
  BY DEF CInv, HandlersKnow, Concerns, handVars
<1> QED
  BY <1>1, <1>2 DEF CInv

\* What is known of a call that takes a step.
LEMMA Known ==
  ASSUME CInv, NEW c \in Call
  PROVE  /\ TypeOK /\ Counted(c) /\ FromServer(c) /\ Registered(c) /\ Toured(c)
         /\ Tries(c) \in Nat /\ Tries(c)' = Tries(c) /\ Alone(c)' = Alone(c)
         /\ tries[c] \in Nat /\ wire[c] \in Nat /\ replies[c] \in Nat /\ served[c] \in Nat
         /\ tries[c] <= Tries(c) /\ queue[c] \in 0 .. 1
         /\ Owner[c] \in Client /\ cur[Owner[c]] \in 0 .. Hosts - 1
         /\ tried[c] \subseteq 0 .. Hosts - 1 /\ Hosts \in Nat \ {0}
  BY OwnerType, ClientAssumption DEF CInv, CallInv, TypeOK, Tries, Alone

LEMMA RegisterKeeps ==
  ASSUME CInv, NEW c \in Call, Register(c)
  PROVE  CInv'
<1> USE Known DEF Register, callVars, hostVars, handVars, netVars
<1>1. TypeOK' /\ Concerns(c)
  BY DEF TypeOK, Concerns, Tries
<1>2. cpc'[c] = "sending"
  BY DEF TypeOK
<1>3. Counted(c)' /\ FromServer(c)'
  BY <1>2 DEF Counted, FromServer, Carries
<1>4. Registered(c)'
  BY <1>2 DEF Registered
<1>5. Toured(c)'
  BY <1>2 DEF Toured, Asked
<1> QED
  BY <1>1, <1>3, <1>4, <1>5, StepKeeps DEF CallInv

\* A try has failed, of a call that had one left.
LEMMA TryFailedMoves ==
  ASSUME CInv, NEW c \in Call, tries[c] > 0, TryFailed(c)
  PROVE  /\ cpc'[c] = "sending" /\ tries'[c] = tries[c] - 1 /\ outcome' = outcome
         /\ tries[c] = 1 => c \notin responses'
         /\ responses' \subseteq responses
         /\ \A d \in Call \ {c} : cpc'[d] = cpc[d] /\ tries'[d] = tries[d]
         /\ cpc' \in [Call -> {"idle", "sending", "writing", "polling", "polled", "done"}]
         /\ tries' \in [Call -> Nat] /\ \A d \in Call : tries'[d] <= Tries(d)
<1>1. TypeOK /\ tries[c] \in Nat /\ tries[c] <= Tries(c) /\ Tries(c) \in Nat
  BY Known
<1>2. tries[c] - 1 \in Nat /\ tries[c] - 1 <= Tries(c)
  BY <1>1
<1> QED
  BY <1>1, <1>2 DEF TryFailed, AfterFailure, TypeOK

LEMMA ConnectKeeps ==
  ASSUME CInv, NEW c \in Call, Connect(c)
  PROVE  CInv'
<1> DEFINE k == Owner[c]  n == NextHost(Owner[c])
<1> USE Known
<1>1. /\ k \in Client /\ n \in 0 .. Hosts - 1 /\ n = IF cur[k] + 1 = Hosts THEN 0 ELSE cur[k] + 1
  BY NextHostType
<1>2. /\ cpc[c] = "sending" /\ tries[c] > 0
      /\ cur' = [cur EXCEPT ![k] = n] /\ tried' = [tried EXCEPT ![c] = @ \cup {n}]
      /\ UNCHANGED <<queue, handVars, replies, served, closing>>
  BY DEF Connect
<1>3. /\ cur' \in [Client -> 0 .. Hosts - 1] /\ tried' \in [Call -> SUBSET (0 .. Hosts - 1)]
      /\ cur'[k] = n /\ tried'[c] = tried[c] \cup {n}
      /\ \A j \in Client \ {k} : cur'[j] = cur[j]
      /\ \A d \in Call \ {c} : tried'[d] = tried[d]
  BY <1>1, <1>2 DEF TypeOK
\* One more host, and it is the next one.
<1>4. Alone(c) => LET a == Asked(c) + 1
                  IN  IF a < Hosts THEN n = a /\ 1 .. a \subseteq tried'[c]
                                   ELSE tried'[c] = 0 .. Hosts - 1
  <2> SUFFICES ASSUME Alone(c)
               PROVE  LET a == Asked(c) + 1
                      IN  IF a < Hosts THEN n = a /\ 1 .. a \subseteq tried'[c]
                                       ELSE tried'[c] = 0 .. Hosts - 1
    OBVIOUS
  <2>1. Asked(c) \in Nat
    BY <1>2 DEF Asked
  <2>2. CASE Asked(c) < Hosts
    <3>1. cur[k] = Asked(c) /\ 1 .. Asked(c) \subseteq tried[c]
      BY <1>2, <2>2 DEF Toured
    <3>2. CASE Asked(c) + 1 < Hosts
      BY <1>1, <1>3, <2>1, <3>1, <3>2
    <3>3. CASE Asked(c) + 1 >= Hosts
      BY <1>1, <1>3, <2>1, <2>2, <3>1, <3>3
    <3> QED
      BY <2>1, <3>2, <3>3
  <2>3. CASE Asked(c) >= Hosts
    BY <1>1, <1>2, <1>3, <2>1, <2>3 DEF Toured
  <2> QED
    BY <2>1, <2>2, <2>3
<1>5. CASE n \in Up /\ cpc' = [cpc EXCEPT ![c] = "writing"]
  <2>1. /\ cpc' = [cpc EXCEPT ![c] = "writing"] /\ wire' = [wire EXCEPT ![c] = @ + 1]
        /\ UNCHANGED <<tries, outcome, responses>>
    <3>1. ~TryFailed(c)
      BY <1>2, <1>5 DEF TryFailed, TypeOK
    <3> QED
      BY <1>5, <3>1 DEF Connect
  <2>2. TypeOK' /\ Concerns(c) /\ cpc'[c] = "writing" /\ wire'[c] = wire[c] + 1
    BY <1>2, <1>3, <2>1 DEF TypeOK, Concerns, handVars, Tries
  <2>3. Counted(c)' /\ FromServer(c)' /\ Registered(c)'
    BY <1>2, <2>1, <2>2 DEF Counted, FromServer, Carries, Registered, handVars
  <2>4. Toured(c)'
    BY <1>2, <1>3, <1>4, <2>1, <2>2 DEF Toured, Asked
  <2> QED
    BY <2>2, <2>3, <2>4, StepKeeps DEF CallInv
<1>6. CASE TryFailed(c) /\ wire' = wire
  <2>1. TryFailed(c) /\ wire' = wire
    BY <1>6
  <2>2. TypeOK' /\ Concerns(c) /\ cpc'[c] = "sending" /\ tries'[c] = tries[c] - 1
    BY <1>2, <1>3, <2>1, TryFailedMoves DEF TypeOK, Concerns, handVars
  <2>3. Counted(c)' /\ FromServer(c)'
    BY <1>2, <2>1, <2>2, TryFailedMoves DEF Counted, FromServer, Carries, handVars
  <2>4. Registered(c)'
    BY <1>2, <2>1, <2>2, TryFailedMoves DEF Registered
  <2>5. Toured(c)'
    BY <1>2, <1>3, <1>4, <2>1, <2>2, TryFailedMoves DEF Toured, Asked
  <2> QED
    BY <2>2, <2>3, <2>4, <2>5, StepKeeps DEF CallInv
<1> QED
  BY <1>5, <1>6 DEF Connect

LEMMA EndLoopKeeps ==
  ASSUME CInv, NEW c \in Call, EndLoop(c)
  PROVE  CInv'
<1> USE Known DEF EndLoop, Return, hostVars, handVars, netVars
<1>1. PICK how \in {"closed", "notSent"} :
        cpc' = [cpc EXCEPT ![c] = "done"] /\ outcome' = [outcome EXCEPT ![c] = how]
        /\ (how = "notSent" => tries[c] = 0)
  OBVIOUS
<1>2. TypeOK' /\ Concerns(c) /\ cpc'[c] = "done" /\ outcome'[c] = how
  BY <1>1 DEF TypeOK, Concerns, Tries
<1>3. Counted(c)' /\ FromServer(c)'
  BY <1>2 DEF Counted, FromServer, Carries
<1>4. Registered(c)'
  BY <1>1, <1>2 DEF Registered
<1>5. Toured(c)'
  BY <1>1, <1>2 DEF Toured, Asked
<1> QED
  BY <1>2, <1>3, <1>4, <1>5, StepKeeps DEF CallInv

LEMMA WrittenKeeps ==
  ASSUME CInv, NEW c \in Call, Written(c)
  PROVE  CInv'
<1> USE Known DEF Written, hostVars, handVars, netVars
<1>1. TypeOK' /\ Concerns(c) /\ cpc'[c] = "polling"
  BY DEF TypeOK, Concerns, Tries
<1>2. Counted(c)' /\ FromServer(c)'
  BY <1>1 DEF Counted, FromServer, Carries
<1>3. Registered(c)' /\ Toured(c)'
  BY <1>1 DEF Registered, Toured
<1> QED
  BY <1>1, <1>2, <1>3, StepKeeps DEF CallInv

\* The try is used up, and its message may still be under way.
LEMMA WriteFailedKeeps ==
  ASSUME CInv, NEW c \in Call, WriteFailed(c)
  PROVE  CInv'
<1> USE Known
<1>1. cpc[c] = "writing" /\ tries[c] > 0 /\ TryFailed(c)
  BY DEF WriteFailed, Counted
<1>2. /\ wire' \in [Call -> Nat] /\ wire'[c] \in Nat /\ wire'[c] <= wire[c]
      /\ \A d \in Call \ {c} : wire'[d] = wire[d]
      /\ UNCHANGED <<hostVars, queue, handVars, replies, served, closing>>
  BY SMTT(30) DEF WriteFailed, TypeOK
<1>3. TypeOK' /\ Concerns(c) /\ cpc'[c] = "sending" /\ tries'[c] = tries[c] - 1
  BY <1>1, <1>2, TryFailedMoves DEF TypeOK, Concerns, handVars, hostVars
<1>4. Counted(c)' /\ FromServer(c)'
  BY <1>1, <1>2, <1>3, TryFailedMoves DEF Counted, FromServer, Carries, handVars
<1>5. Registered(c)'
  BY <1>1, <1>3, TryFailedMoves DEF Registered
<1>6. Toured(c)'
  BY SMTT(30), <1>1, <1>2, <1>3, TryFailedMoves DEF Toured, Asked, hostVars
<1> QED
  BY <1>3, <1>4, <1>5, <1>6, StepKeeps DEF CallInv

LEMMA PollKeeps ==
  ASSUME CInv, NEW c \in Call, Poll(c)
  PROVE  CInv'
<1> USE Known DEF Poll, hostVars, handVars, netVars
<1>1. PICK how \in {"result", "noResult"} :
        /\ outcome' = [outcome EXCEPT ![c] = how] /\ queue' \in [Call -> 0 .. 1]
        /\ queue'[c] = 0 /\ \A d \in Call \ {c} : queue'[d] = queue[d]
        /\ how = "result" => queue[c] = 1
  <2>1. queue \in [Call -> 0 .. 1]
    BY DEF TypeOK
  <2>2. CASE /\ queue[c] = 1 /\ queue' = [queue EXCEPT ![c] = 0]
             /\ outcome' = [outcome EXCEPT ![c] = "result"]
    BY <2>1, <2>2
  <2>3. CASE /\ MayGiveUp(c) /\ outcome' = [outcome EXCEPT ![c] = "noResult"]
             /\ UNCHANGED queue
    BY <2>1, <2>3 DEF MayGiveUp
  <2> QED
    BY <2>2, <2>3
<1>2. TypeOK' /\ Concerns(c) /\ cpc'[c] = "polled" /\ outcome'[c] = how
  BY <1>1 DEF TypeOK, Concerns, Tries
<1>3. Counted(c)' /\ FromServer(c)'
  BY <1>1, <1>2 DEF Counted, FromServer, Carries
<1>4. Registered(c)' /\ Toured(c)'
  BY <1>2 DEF Registered, Toured
<1> QED
  BY <1>2, <1>3, <1>4, StepKeeps DEF CallInv

\* The queue of a call whose sleep is interrupted stays where it is.
LEMMA InterruptedKeeps ==
  ASSUME CInv, NEW c \in Call, Interrupted(c)
  PROVE  CInv'
<1> USE Known DEF SleepInterrupted, PollInterrupted, Return, hostVars, handVars, netVars
<1>1. CASE SleepInterrupted(c)
  <2>1. TypeOK' /\ Concerns(c) /\ cpc'[c] = "done" /\ outcome'[c] = "interrupted"
    BY <1>1 DEF TypeOK, Concerns, Tries
  <2>2. Counted(c)' /\ FromServer(c)'
    BY <1>1, <2>1 DEF Counted, FromServer, Carries
  <2>3. Registered(c)' /\ Toured(c)'
    BY <1>1, <2>1 DEF Registered, Toured
  <2> QED
    BY <2>1, <2>2, <2>3, StepKeeps DEF CallInv
<1>2. CASE PollInterrupted(c)
  <2>1. TypeOK' /\ Concerns(c) /\ cpc'[c] = "polled" /\ outcome'[c] = "noResult"
    BY <1>2 DEF TypeOK, Concerns, Tries
  <2>2. Counted(c)' /\ FromServer(c)'
    BY <1>2, <2>1 DEF Counted, FromServer, Carries
  <2>3. Registered(c)' /\ Toured(c)'
    BY <1>2, <2>1 DEF Registered, Toured
  <2> QED
    BY <2>1, <2>2, <2>3, StepKeeps DEF CallInv
<1> QED
  BY <1>1, <1>2 DEF Interrupted

LEMMA UnregisterKeeps ==
  ASSUME CInv, NEW c \in Call, Unregister(c)
  PROVE  CInv'
<1> USE Known DEF Unregister, hostVars, handVars, netVars
<1>1. TypeOK' /\ Concerns(c) /\ cpc'[c] = "done" /\ c \notin responses'
  BY DEF TypeOK, Concerns, Tries
<1>2. Counted(c)' /\ FromServer(c)'
  BY <1>1 DEF Counted, FromServer, Carries
<1>3. Registered(c)' /\ Toured(c)'
  BY <1>1 DEF Registered, Toured
<1> QED
  BY <1>1, <1>2, <1>3, StepKeeps DEF CallInv

LEMMA ServeKeeps ==
  ASSUME CInv, NEW c \in Call, Serve(c)
  PROVE  CInv'
<1> USE Known DEF Serve, callVars, hostVars, handVars
<1>1. /\ TypeOK' /\ Concerns(c)
      /\ served'[c] = served[c] + 1 /\ wire'[c] = wire[c] - 1 /\ wire[c] > 0
  BY DEF TypeOK, Concerns, Tries
<1>2. Counted(c)' /\ FromServer(c)'
  BY <1>1 DEF Counted, FromServer
<1>3. Registered(c)' /\ Toured(c)'
  BY DEF Registered, Toured, Asked
<1> QED
  BY <1>1, <1>2, <1>3, StepKeeps DEF CallInv

-----------------------------------------------------------------------------
(* The transport threads, and close                                        *)

\* They and close change nothing of a call but the replies on their way to it
\* and its place in the map, which it may lose.
LEMMA ElsewhereKeeps ==
  ASSUME CInv, TypeOK', HandlersKnow',
         UNCHANGED <<callVars, hostVars, wire, served>>, responses' \subseteq responses,
         \A c \in Call : FromServer(c)'
  PROVE  CInv'
<1>1. ASSUME NEW c \in Call PROVE CallInv(c)'
  <2>1. CallInv(c)
    BY DEF CInv
  <2>2. Counted(c)'
    BY <2>1 DEF CallInv, Counted, callVars
  <2>3. Registered(c)' /\ Toured(c)'
    BY <2>1 DEF CallInv, Registered, Toured, Asked, Alone, callVars, hostVars
  <2> QED
    BY <2>2, <2>3 DEF CallInv
<1> QED
  BY <1>1 DEF CInv

LEMMA PutResponseKeeps ==
  ASSUME CInv, NEW h \in Handler, PutResponse(h)
  PROVE  CInv'
<1>1. TypeOK /\ HandlersKnow /\ \A c \in Call : FromServer(c) /\ c # None
  BY OwnerType DEF CInv, CallInv
<1> USE <1>1 DEF callVars, hostVars, handVars, netVars
<1>2. ASSUME NEW c \in Call, ReadReply(h, c) PROVE CInv'
  <2>1. /\ replies' = [replies EXCEPT ![c] = @ - 1] /\ replies[c] > 0 /\ replies[c] \in Nat
        /\ \/ hpc' = [hpc EXCEPT ![h] = "checked"] /\ hcall' = [hcall EXCEPT ![h] = c]
           \/ UNCHANGED handVars
        /\ UNCHANGED <<callVars, hostVars, responses, queue, wire, served, closing>>
    BY <1>2 DEF ReadReply, TypeOK
  <2>2. TypeOK' /\ HandlersKnow'
    BY <2>1 DEF TypeOK, HandlersKnow, Tries
  <2>3. ASSUME NEW d \in Call PROVE FromServer(d)'
    <3>1. Carries(d)' => Carries(d) \/ d = c
      BY <2>1 DEF Carries, TypeOK
    <3>2. replies'[d] > 0 => replies[d] > 0
      BY <2>1 DEF TypeOK
    <3> QED
      BY <2>1, <3>1, <3>2 DEF FromServer
  <2> QED
    BY <2>1, <2>2, <2>3, ElsewhereKeeps
<1>3. CASE GetQueue(h)
  <2>1. /\ hpc[h] = "checked"
        /\ \/ hpc' = [hpc EXCEPT ![h] = "putting"] /\ UNCHANGED hcall
           \/ hpc' = [hpc EXCEPT ![h] = "idle"] /\ hcall' = [hcall EXCEPT ![h] = None]
        /\ UNCHANGED <<callVars, hostVars, responses, queue, netVars, closing>>
    BY <1>3 DEF GetQueue
  <2>2. TypeOK' /\ HandlersKnow'
    BY <2>1 DEF TypeOK, HandlersKnow, Tries
  <2>3. ASSUME NEW d \in Call PROVE FromServer(d)'
    <3>1. Carries(d)' => Carries(d)
      BY <2>1 DEF Carries, TypeOK
    <3> QED
      BY <2>1, <3>1 DEF FromServer
  <2> QED
    BY <2>1, <2>2, <2>3, ElsewhereKeeps
<1>4. CASE PutReply(h)
  <2>1. /\ hcall[h] \in Call /\ queue' = [queue EXCEPT ![hcall[h]] = 1]
        /\ hpc' = [hpc EXCEPT ![h] = "idle"] /\ hcall' = [hcall EXCEPT ![h] = None]
        /\ UNCHANGED <<callVars, hostVars, responses, netVars, closing>>
    BY <1>4 DEF PutReply, HandlersKnow
  <2>2. TypeOK' /\ HandlersKnow'
    BY <2>1 DEF TypeOK, HandlersKnow, Tries
  <2>3. ASSUME NEW d \in Call PROVE FromServer(d)'
    <3>1. Carries(d)' => Carries(d)
      BY <2>1 DEF Carries, TypeOK
    <3>2. queue'[d] = 1 => queue[d] = 1 \/ Carries(d)
      BY <2>1 DEF Carries, TypeOK
    <3> QED
      BY <2>1, <3>1, <3>2 DEF FromServer
  <2> QED
    BY <2>1, <2>2, <2>3, ElsewhereKeeps
<1> QED
  BY <1>2, <1>3, <1>4 DEF PutResponse

LEMMA CloseKeeps ==
  ASSUME CInv, NEW k \in Client, ClearResponses(k) \/ MarkClosed(k)
  PROVE  CInv'
<1> USE DEF ClearResponses, MarkClosed, callVars, hostVars, handVars, netVars
<1>1. TypeOK' /\ HandlersKnow' /\ responses' \subseteq responses
  BY DEF CInv, TypeOK, HandlersKnow, Tries
<1>2. \A c \in Call : FromServer(c)'
  BY DEF CInv, CallInv, FromServer, Carries
<1> QED
  BY <1>1, <1>2, ElsewhereKeeps

-----------------------------------------------------------------------------
\* The invariant of the client.
LEMMA Invariance == Spec => []CInv
<1>1. CInv /\ [Next]_vars => CInv'
  <2> SUFFICES ASSUME CInv, [Next]_vars PROVE CInv'
    OBVIOUS
  <2>1. ASSUME NEW c \in Call, Register(c) \/ Execute(c) \/ Interrupted(c) \/ Serve(c)
       PROVE  CInv'
    BY <2>1, RegisterKeeps, InterruptedKeeps, ConnectKeeps, EndLoopKeeps, WrittenKeeps, WriteFailedKeeps,
       PollKeeps, UnregisterKeeps, ServeKeeps
    DEF Execute
  <2>2. CASE UNCHANGED vars
    <3>1. TypeOK' /\ HandlersKnow' /\ responses' \subseteq responses
      BY <2>2 DEF vars, callVars, hostVars, handVars, netVars, CInv, TypeOK, HandlersKnow, Tries
    <3>2. \A c \in Call : FromServer(c)'
      BY <2>2 DEF vars, callVars, hostVars, handVars, netVars, CInv, CallInv, FromServer, Carries
    <3> QED
      BY <2>2, <3>1, <3>2, ElsewhereKeeps DEF vars, netVars
  <2> QED
    BY <2>1, <2>2, PutResponseKeeps, CloseKeeps DEF Next, Quiet
<1> QED
  BY <1>1, InitCInv, PTL DEF Spec

\* The static map holds no queue of a call that has returned, unless the call was
\* interrupted between two tries, its client was closed meanwhile or never tries;
\* whatever other clients of the process do.
THEOREM RegistryTrue == Spec => []RegistryIsTrue
<1>1. CInv => RegistryIsTrue
  BY DEF CInv, CallInv, Registered, RegistryIsTrue, NothingStaysRegistered
<1> QED
  BY <1>1, Invariance, PTL

\* A script is executed at most as often as it is tried, however writes time
\* out and replies are lost or late, and a result is that of an execution.
THEOREM ExecutedAsTried == Spec => []ServedAsTried
<1>1. CInv => ServedAsTried
  BY DEF CInv, CallInv, Counted, FromServer, ServedAsTried
<1> QED
  BY <1>1, Invariance, PTL

\* A call alone on its client, with as many tries as hosts, does not give up
\* before it has been to every host.
THEOREM AllHostsTried == Spec => []GivesUpAfterAllHosts
<1>1. CInv => GivesUpAfterAllHosts
  BY DEF CInv, CallInv, Toured, Alone, GivesUpAfterAllHosts
<1> QED
  BY <1>1, Invariance, PTL
=============================================================================
