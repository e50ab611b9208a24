------------------------- MODULE RestResourcesProofs -------------------------
(***************************************************************************)
(* Theorems about RestResources, for every number of threads, requests and *)
(* ids.  The argument: a thread handles one request at a time, so that the *)
(* marks of a request are in the transaction of its own thread or in the   *)
(* graph; whoever commits or rolls back that transaction for another       *)
(* request does so before the request has come or after it has gone.  A    *)
(* step therefore keeps what is known of every other request (OthersKeep), *)
(* and each kind of step a handler is made of is looked at for the request *)
(* that takes it.                                                          *)
(***************************************************************************)
EXTENDS RestResources, TLAPS

Writes == ElementWrites \cup IndexWrites \cup PrefixWrites
Status == {"ok", "badRequest", "notFound", "conflict", "error"}

InHand(r) == pc[r] \notin {"new", "answered"}

\* No trace of r is left that a later commit could bring in.
Nowhere(r) == r \notin durable /\ \A t \in Thread : r \notin tx[t].by

\* A request is in the hands of one thread, which has no other.
Handled(r) ==
  /\ pc[r] # "new" => shape[r] \in ShapeType
  /\ by[r] # None <=> InHand(r)
  /\ \A q \in Request : by[q] = by[r] /\ by[r] # None => q = r

\* Where the marks of r are, by how far its handler has come.
Marks(r) ==
  /\ \A t \in Thread : r \in tx[t].by =>
       /\ pc[r] \notin {"new", "received", "found"}
       /\ IF InHand(r) THEN by[r] = t ELSE ~Clean(shape[r])
  /\ r \in durable => /\ pc[r] \notin {"new", "received", "found", "written"}
                      /\ r \in saved \/ ~Clean(shape[r])
  /\ pc[r] = "written" => r \in tx[by[r]].by
  /\ pc[r] = "committed" => r \in saved /\ r \notin tx[by[r]].by
  /\ r \in saved => r \in durable /\ pc[r] \in {"committed", "answered"}

ElementExtension(r) ==
  shape[r].op \in {"vertexExtension", "edgeExtension"} /\ shape[r].auto

\* What its answer says of r.
Ended(r) ==
  /\ pc[r] = "answered" /\ answer[r] = "ok" /\ shape[r].op \in Writes => r \in durable
  /\ Failed(r) /\ Clean(shape[r]) => Nowhere(r) \/ shape[r].op \in AnswersLate
  /\ pc[r] \in {"new", "received"} => returned[r] = "none"
  /\ pc[r] = "invoked" /\ ElementExtension(r) => r \notin durable
  /\ Failed(r) /\ returned[r] = "error" /\ ElementExtension(r) => Nowhere(r)

ReqInv(r) == Handled(r) /\ Marks(r) /\ Ended(r)

RInv == TypeOK /\ \A r \in Request : ReqInv(r)

-----------------------------------------------------------------------------
(* A step of one request, seen by the others                               *)

\* Only r moves; what its thread does to the transaction concerns r and what
\* was in it.
Moves(r) ==
  /\ InHand(r) /\ shape' = shape
  /\ by'[r] \in {by[r], None}
  /\ \A q \in Request \ {r} :
       /\ pc'[q] = pc[q] /\ by'[q] = by[q]
       /\ answer'[q] = answer[q] /\ returned'[q] = returned[q]
  /\ \A t \in Thread \ {by[r]} : tx'[t] = tx[t]
  /\ tx'[by[r]].by \subseteq tx[by[r]].by \cup {r}
  /\ durable \subseteq durable'
  /\ durable' \subseteq durable \cup tx[by[r]].by \cup {r}
  /\ saved' \in {saved, saved \cup {r}}

LEMMA OthersKeep ==
  ASSUME RInv, NEW r \in Request, Moves(r), NEW q \in Request, q # r
  PROVE  ReqInv(q)'
<1>1. by[r] \in Thread /\ by[q] # by[r]
  BY DEF RInv, ReqInv, Handled, Moves, TypeOK
<1>2. /\ pc'[q] = pc[q] /\ by'[q] = by[q] /\ shape'[q] = shape[q]
      /\ answer'[q] = answer[q] /\ returned'[q] = returned[q]
  BY DEF Moves
<1>3. ReqInv(q)
  BY DEF RInv
<1>4. /\ \A t \in Thread : q \in tx'[t].by => q \in tx[t].by
      /\ q \in durable => q \in durable'
      /\ q \in durable' => q \in durable \/ q \in tx[by[r]].by
      /\ q \in saved' <=> q \in saved
  BY <1>1 DEF Moves
<1>5. Handled(q)'
  <2>1. \A p \in Request : by'[p] = by'[q] /\ by'[q] # None => p = q
    BY <1>1, <1>2, <1>3 DEF ReqInv, Handled, Moves
  <2> QED
    BY <1>2, <1>3, <2>1 DEF ReqInv, Handled, InHand
<1>6. InHand(q) => q \notin tx[by[r]].by
  BY <1>1, <1>3 DEF ReqInv, Marks
<1>7. q \in tx[by[r]].by => pc[q] = "answered" /\ ~Clean(shape[q])
  BY <1>1, <1>3, <1>6 DEF ReqInv, Marks, InHand
<1>8. Marks(q)'
  <2>1. pc[q] = "written" => q \in tx'[by[q]].by
    <3>1. pc[q] = "written" => by[q] \in Thread \ {by[r]}
      BY <1>1, <1>3 DEF ReqInv, Handled, InHand, RInv, TypeOK
    <3> QED
      BY <1>3, <3>1 DEF ReqInv, Marks, Moves
  <2>2. pc[q] = "committed" => q \notin tx'[by[q]].by
    <3>1. pc[q] = "committed" => by[q] \in Thread \ {by[r]}
      BY <1>1, <1>3 DEF ReqInv, Handled, InHand, RInv, TypeOK
    <3> QED
      BY <1>3, <3>1 DEF ReqInv, Marks, Moves
  <2> QED
    BY <1>2, <1>3, <1>4, <1>7, <2>1, <2>2 DEF ReqInv, Marks, InHand
<1>9. Nowhere(q) => Nowhere(q)'
  BY <1>1, <1>4 DEF Nowhere
<1>10. Ended(q)'
  BY <1>2, <1>3, <1>4, <1>7, <1>9 DEF ReqInv, Ended, Failed, ElementExtension, Writes
<1> QED
  BY <1>5, <1>8, <1>10 DEF ReqInv

LEMMA StepKeeps ==
  ASSUME RInv, NEW r \in Request, Moves(r), TypeOK', ReqInv(r)'
  PROVE  RInv'
  BY OthersKeep DEF RInv

\* What is known of the request whose handler takes a step.
LEMMA Hand ==
  ASSUME RInv, NEW r \in Request, InHand(r)
  PROVE  /\ by[r] \in Thread /\ by[r] # None
         /\ shape[r] \in ShapeType
         /\ \A q \in Request : by[q] = by[r] => q = r
         /\ ReqInv(r) /\ TypeOK
  BY DEF RInv, ReqInv, Handled, TypeOK, InHand

-----------------------------------------------------------------------------
(* What a step does to the transaction of the thread                       *)

\* The four ways to stop it or to leave it alone.
Stopped(t) == Untouched \/ TryCommit(t) \/ CommitThrows(t) \/ TryRollback(t)

GraphTypeOK ==
  /\ exists \subseteq Id /\ durable \subseteq Request
  /\ tx \in [Thread -> [by: SUBSET Request, puts: SUBSET Id, cuts: SUBSET Id]]

LEMMA StoppedMoves ==
  ASSUME TypeOK, NEW t \in Thread, Stopped(t)
  PROVE  /\ GraphTypeOK'
         /\ \A u \in Thread \ {t} : tx'[u] = tx[u]
         /\ tx'[t].by \subseteq tx[t].by
         /\ durable \subseteq durable' /\ durable' \subseteq durable \cup tx[t].by
<1> DEFINE TX == [by: SUBSET Request, puts: SUBSET Id, cuts: SUBSET Id]
<1>1. /\ Empty \in TX /\ Empty.by = {} /\ tx[t] \in TX /\ tx \in [Thread -> TX]
      /\ View(t) \subseteq Id /\ tx[t].by \subseteq Request
  BY DEF TypeOK, Empty, View
<1>2. CASE Untouched
  BY <1>1, <1>2 DEF Untouched, TypeOK, GraphTypeOK
<1>3. CASE TryCommit(t)
  BY <1>1, <1>3 DEF TryCommit, TypeOK, GraphTypeOK
<1>4. CASE CommitThrows(t)
  BY <1>1, <1>4 DEF CommitThrows, TypeOK, GraphTypeOK
<1>5. CASE TryRollback(t)
  BY <1>1, <1>5 DEF TryRollback, TypeOK, GraphTypeOK
<1> QED
  BY <1>2, <1>3, <1>4, <1>5 DEF Stopped

\* No commit of another request can bring r in.
Settled(r) == (\A t \in Thread : r \notin tx[t].by) /\ (r \in durable => r \in saved)

\* A step that ends with an answer: what has to be seen to is that an OK is
\* durable, that an error is nowhere where it should be, and that a handler that
\* stops its transaction has done so.
LEMMA AnswerKeeps ==
  ASSUME RInv, NEW r \in Request, InHand(r), Stopped(by[r]),
         NEW status \in Status, Answer(r, status), UNCHANGED <<shape, returned>>,
         had' = had \/ had' \in [Request -> BOOLEAN],
         saved' = saved \/ (saved' = saved \cup {r} /\ r \in durable'),
         Settled(r)' \/ ~Clean(shape[r]),
         status = "ok" /\ shape[r].op \in Writes => r \in durable',
         status # "ok" =>
           \/ Nowhere(r)'
           \/ /\ ~Clean(shape[r]) \/ shape[r].op \in AnswersLate
              /\ ~ElementExtension(r) \/ returned[r] # "error"
  PROVE  RInv'
<1>1. by[r] \in Thread /\ TypeOK /\ ReqInv(r) /\ shape[r] \in ShapeType
  BY Hand
<1>2. pc'[r] = "answered" /\ by'[r] = None /\ answer'[r] = status
  BY <1>1 DEF Answer, TypeOK
<1>3. Moves(r)
  <2>1. \A q \in Request \ {r} :
          pc'[q] = pc[q] /\ by'[q] = by[q] /\ answer'[q] = answer[q] /\ returned'[q] = returned[q]
    BY <1>1 DEF Answer, TypeOK
  <2> QED
    BY <1>1, <1>2, <2>1, StoppedMoves DEF Moves
<1>4. TypeOK'
  <2>1. GraphTypeOK'
    BY <1>1, StoppedMoves
  <2>2. /\ by' \in [Request -> Thread \cup {None}]
        /\ pc' \in [Request -> {"new", "received", "found", "written", "committed",
                                "invoked", "checked", "answered"}]
        /\ answer' \in [Request -> {"none", "ok", "badRequest", "notFound",
                                    "conflict", "error"}]
    BY <1>1 DEF Answer, TypeOK, Status
  <2> QED
    BY <1>1, <2>1, <2>2 DEF TypeOK, GraphTypeOK
<1>5. Handled(r)'
  BY <1>1, <1>2 DEF Handled, InHand
<1>6. Marks(r)'
  <2>1. shape'[r] = shape[r] /\ (r \in saved' => r \in durable')
    BY <1>1, <1>3 DEF ReqInv, Marks, Moves
  <2> QED
    BY <1>2, <2>1 DEF Marks, InHand, Settled
<1>7. Ended(r)'
  BY <1>2 DEF Ended, Failed, ElementExtension
<1> QED
  BY <1>3, <1>4, <1>5, <1>6, <1>7, StepKeeps DEF ReqInv

\* A step that goes on in the same thread: the marks of r are where they
\* should be when it has come to next.
LEMMA GotoKeeps ==
  ASSUME RInv, NEW r \in Request, InHand(r), NEW next, Goto(r, next), shape' = shape,
         next \in {"found", "written", "committed", "invoked", "checked"},
         had' \in [Request -> BOOLEAN], returned' \in [Request -> Outcome \cup {"none"}],
         \A q \in Request \ {r} : returned'[q] = returned[q],
         GraphTypeOK', \A t \in Thread \ {by[r]} : tx'[t] = tx[t],
         tx'[by[r]].by \subseteq tx[by[r]].by \cup {r},
         durable \subseteq durable',
         durable' \subseteq durable \cup tx[by[r]].by \cup {r},
         pc[r] # "committed", saved' = IF next = "committed" THEN saved \cup {r} ELSE saved,
         next = "found" => Nowhere(r)',
         next = "written" => r \notin durable' /\ r \in tx'[by[r]].by,
         next = "committed" => r \in durable' /\ r \notin tx'[by[r]].by,
         next \in {"invoked", "checked"} => ~Clean(shape[r]),
         next = "invoked" /\ ElementExtension(r) => r \notin durable'
  PROVE  RInv'
<1>1. by[r] \in Thread /\ TypeOK /\ ReqInv(r) /\ shape[r] \in ShapeType
  BY Hand
<1>2. pc'[r] = next /\ by' = by /\ answer' = answer
  BY <1>1 DEF Goto, TypeOK
<1>3. Moves(r)
  BY <1>1 DEF Goto, TypeOK, Moves
<1>4. TypeOK'
  <2>1. saved' \subseteq Request
    BY <1>1 DEF TypeOK
  <2> QED
    BY <1>1, <2>1 DEF Goto, TypeOK, GraphTypeOK
<1>5. Handled(r)'
  BY <1>1, <1>2 DEF Handled, InHand, ReqInv
<1>6. Marks(r)'
  <2>1. ASSUME NEW t \in Thread, r \in tx'[t].by
        PROVE  next # "found" /\ by[r] = t
    <3>1. next # "found"
      BY <2>1 DEF Nowhere
    <3>2. t # by[r] => r \notin tx[t].by
      BY <1>1 DEF ReqInv, Marks
    <3> QED
      BY <2>1, <3>1, <3>2
  <2>2. r \notin saved
    BY <1>1 DEF ReqInv, Marks, InHand
  <2> QED
    BY <1>2, <2>1, <2>2 DEF Marks, Nowhere, InHand
<1>7. Ended(r)'
  BY <1>2 DEF Ended, Failed, ElementExtension
<1> QED
  BY <1>3, <1>4, <1>5, <1>6, <1>7, StepKeeps DEF ReqInv

-----------------------------------------------------------------------------
(* The steps that handlers are made of                                     *)

\* Before its first write a request is nowhere, whoever used the thread before.
LEMMA NotYet ==
  ASSUME RInv, NEW r \in Request, pc[r] \in {"received", "found"}
  PROVE  Nowhere(r) /\ InHand(r)
  BY DEF RInv, ReqInv, Marks, Nowhere, InHand

\* To stop the transaction of a thread makes nothing durable that is nowhere.
LEMMA NowhereStays ==
  ASSUME RInv, NEW r \in Request, Nowhere(r), NEW t \in Thread, Stopped(t)
  PROVE  Nowhere(r)'
  BY StoppedMoves DEF RInv, Nowhere

\* What is rolled back before it is committed is nowhere.
LEMMA RolledBackIsNowhere ==
  ASSUME RInv, NEW r \in Request, InHand(r), TryRollback(by[r]), r \notin durable
  PROVE  Nowhere(r)'
<1>1. by[r] \in Thread /\ ReqInv(r) /\ TypeOK
  BY Hand
<1>2. \A t \in Thread : r \in tx[t].by => t = by[r]
  BY <1>1 DEF ReqInv, Marks
<1> QED
  BY <1>1, <1>2 DEF TryRollback, Nowhere, TypeOK, Empty

\* What is nowhere is settled.
LEMMA NowhereIsSettled ==
  ASSUME NEW r \in Request, Nowhere(r)'
  PROVE  Settled(r)'
  BY DEF Nowhere, Settled

\* After its own commit a request is settled, whatever is done to what is left.
LEMMA CommittedIsSettled ==
  ASSUME RInv, NEW r \in Request, pc[r] = "committed", Stopped(by[r]), saved' = saved
  PROVE  Settled(r)' /\ r \in durable' /\ InHand(r)
<1>1. InHand(r) /\ by[r] \in Thread /\ TypeOK /\ ReqInv(r)
  BY Hand DEF InHand
<1>2. \A t \in Thread : r \notin tx[t].by
  BY <1>1 DEF ReqInv, Marks
<1>3. r \in saved /\ r \in durable
  BY <1>1 DEF ReqInv, Marks
<1> QED
  BY <1>1, <1>2, <1>3, StoppedMoves DEF Settled

LEMMA InvalidKeeps ==
  ASSUME RInv, NEW r \in Request, NEW statuses \in SUBSET Status,
         "ok" \in statuses => shape[r].op \notin Writes, Invalid(r, statuses)
  PROVE  RInv'
<1>1. PICK status \in statuses : Answer(r, status)
  BY DEF Invalid
<1>2. Nowhere(r) /\ InHand(r) /\ by[r] \in Thread
  BY NotYet, Hand DEF Invalid
<1>3. Stopped(by[r])
  BY DEF Invalid, Stopped
<1>4. Nowhere(r)' /\ Settled(r)'
  BY <1>2, <1>3, NowhereStays, NowhereIsSettled
<1> QED
  BY <1>1, <1>2, <1>3, <1>4, AnswerKeeps DEF Invalid

LEMMA CaughtKeeps ==
  ASSUME RInv, NEW r \in Request, NEW status \in Status \ {"ok"}, Caught(r, status)
  PROVE  RInv'
<1>1. InHand(r) /\ r \notin durable
  BY DEF Caught, InHand, RInv, ReqInv, Marks
<1>2. Nowhere(r)' /\ Settled(r)'
  BY <1>1, RolledBackIsNowhere, NowhereIsSettled DEF Caught
<1> QED
  BY <1>1, <1>2, AnswerKeeps DEF Caught, Stopped

LEMMA EscapesKeeps ==
  ASSUME RInv, NEW r \in Request, ~Clean(shape[r]), ~ElementExtension(r), Escapes(r)
  PROVE  RInv'
<1>1. InHand(r) /\ Stopped(by[r])
  BY DEF Escapes, InHand, Stopped
<1> QED
  BY <1>1, AnswerKeeps DEF Escapes, Status

LEMMA ReadFinallyKeeps ==
  ASSUME RInv, NEW r \in Request, NEW statuses \in SUBSET Status,
         shape[r].op \notin Writes, ReadFinally(r, statuses)
  PROVE  RInv'
<1>1. Nowhere(r) /\ InHand(r) /\ by[r] \in Thread
  BY NotYet, Hand DEF ReadFinally
<1>2. Stopped(by[r])
  BY DEF ReadFinally, Stopped
<1>3. PICK status \in Status : Answer(r, status)
  BY DEF ReadFinally, Status
<1>4. Nowhere(r)' /\ Settled(r)'
  BY <1>1, <1>2, NowhereStays, NowhereIsSettled
<1> QED
  BY <1>1, <1>2, <1>3, <1>4, AnswerKeeps DEF ReadFinally

LEMMA LookUpKeeps ==
  ASSUME RInv, NEW r \in Request, NEW can, LookUp(r, can)
  PROVE  RInv'
<1>1. Nowhere(r) /\ InHand(r) /\ by[r] \in Thread /\ TypeOK
  BY NotYet, Hand DEF LookUp
<1>2. GraphTypeOK' /\ Nowhere(r)'
  BY <1>1 DEF LookUp, Untouched, GraphTypeOK, TypeOK, Nowhere
<1>3. had' \in [Request -> BOOLEAN] /\ returned' = returned
  BY <1>1 DEF LookUp, TypeOK, Present
<1> QED
  BY <1>1, <1>2, <1>3, GotoKeeps DEF LookUp, Untouched, TypeOK

\* Refuse notes what it has found; it is of no use any more.
LEMMA RefuseKeeps ==
  ASSUME RInv, NEW r \in Request, NEW cannot, NEW status \in Status \ {"ok"},
         Refuse(r, cannot, status)
  PROVE  RInv'
<1>1. Nowhere(r) /\ InHand(r) /\ by[r] \in Thread /\ TypeOK
  BY NotYet, Hand DEF Refuse
<1>2. Stopped(by[r]) /\ UNCHANGED <<shape, returned, saved>> /\ Answer(r, status)
  BY DEF Refuse, Stopped
<1>3. Nowhere(r)' /\ Settled(r)'
  BY <1>1, <1>2, NowhereStays, NowhereIsSettled
<1>4. had' \in [Request -> BOOLEAN]
  BY <1>1 DEF Refuse, TypeOK, Present
<1> QED
  BY <1>1, <1>2, <1>3, <1>4, AnswerKeeps

\* Every write leaves the mark of the request in the transaction of its thread.
LEMMA WriteKeeps ==
  ASSUME RInv, NEW r \in Request, NEW from \in {"received", "found"},
         NEW effect \in {Marked(r), Created(r), Removed(r)}, Write(r, from, effect)
  PROVE  RInv'
<1> DEFINE TX == [by: SUBSET Request, puts: SUBSET Id, cuts: SUBSET Id]
<1>1. Nowhere(r) /\ InHand(r) /\ by[r] \in Thread /\ TypeOK /\ shape[r].id \in Id
  BY NotYet, Hand DEF Write, ShapeType
<1>2. tx[by[r]] \in TX /\ tx \in [Thread -> TX]
  BY <1>1 DEF TypeOK
<1>3. effect \in TX /\ effect.by = tx[by[r]].by \cup {r}
  <2>1. Marked(r) \in TX /\ Marked(r).by = tx[by[r]].by \cup {r}
    BY <1>2 DEF Marked
  <2>2. Created(r) \in TX /\ Created(r).by = Marked(r).by
    BY <1>1, <2>1 DEF Created
  <2>3. Removed(r) \in TX /\ Removed(r).by = Marked(r).by
    BY <1>1, <2>1 DEF Removed
  <2> QED
    BY <2>1, <2>2, <2>3
<1>4. /\ GraphTypeOK' /\ tx'[by[r]] = effect /\ durable' = durable
      /\ \A t \in Thread \ {by[r]} : tx'[t] = tx[t]
  BY <1>1, <1>2, <1>3 DEF Write, TypeOK, GraphTypeOK
<1>5. /\ Goto(r, "written") /\ shape' = shape /\ had' \in [Request -> BOOLEAN]
      /\ returned' = returned /\ returned \in [Request -> Outcome \cup {"none"}]
      /\ saved' = saved /\ pc[r] # "committed"
  BY <1>1 DEF Write, TypeOK
<1> QED
  BY <1>1, <1>3, <1>4, <1>5, GotoKeeps DEF Nowhere

\* A commit takes the mark of the request to the graph.
LEMMA CommitsMark ==
  ASSUME RInv, NEW r \in Request, pc[r] = "written", TryCommit(by[r])
  PROVE  InHand(r) /\ r \in durable' /\ \A t \in Thread : r \notin tx'[t].by
<1>1. InHand(r) /\ by[r] \in Thread /\ TypeOK /\ ReqInv(r)
  BY Hand DEF InHand
<1>2. \A t \in Thread : t # by[r] => r \notin tx[t].by
  BY <1>1 DEF ReqInv, Marks
<1> QED
  BY <1>1, <1>2 DEF ReqInv, Marks, TryCommit, TypeOK, Empty

LEMMA CommitKeeps ==
  ASSUME RInv, NEW r \in Request, Commit(r)
  PROVE  RInv'
<1>1. InHand(r) /\ r \in durable' /\ Stopped(by[r])
  BY CommitsMark DEF Commit, Stopped
<1>2. by[r] \in Thread /\ TypeOK
  BY <1>1, Hand
<1>3. /\ Goto(r, "committed") /\ shape' = shape /\ had' \in [Request -> BOOLEAN]
      /\ returned' = returned /\ returned \in [Request -> Outcome \cup {"none"}]
      /\ saved' = saved \cup {r} /\ pc[r] # "committed"
      /\ r \notin tx'[by[r]].by
  BY <1>2, CommitsMark DEF Commit, TypeOK
<1> QED
  BY <1>1, <1>2, <1>3, StoppedMoves, GotoKeeps

LEMMA CommitAndAnswerKeeps ==
  ASSUME RInv, NEW r \in Request, CommitAndAnswer(r)
  PROVE  RInv'
<1>1. InHand(r) /\ r \in durable' /\ Stopped(by[r])
  BY CommitsMark DEF CommitAndAnswer, Stopped
<1>2. Settled(r)'
  BY <1>1, CommitsMark DEF CommitAndAnswer, Settled
<1> QED
  BY <1>1, <1>2, AnswerKeeps DEF CommitAndAnswer, Status

\* After the commit nothing is left to lose.
LEMMA ConcludeKeeps ==
  ASSUME RInv, NEW r \in Request, Conclude(r)
  PROVE  RInv'
<1>1. InHand(r) /\ r \in durable' /\ Stopped(by[r]) /\ Settled(r)'
  BY CommittedIsSettled DEF Conclude, Stopped
<1> QED
  BY <1>1, AnswerKeeps DEF Conclude, Status

\* Handlers that have their answer to build may fail after their commit.
LEMMA FailsLateKeeps ==
  ASSUME RInv, NEW r \in Request, pc[r] = "committed", Stopped(by[r]), Answer(r, "error"),
         UNCHANGED <<shape, had, returned, saved>>,
         shape[r].op \in AnswersLate, ~ElementExtension(r)
  PROVE  RInv'
<1>1. InHand(r) /\ r \in durable' /\ Settled(r)'
  BY CommittedIsSettled
<1> QED
  BY <1>1, AnswerKeeps DEF Status

-----------------------------------------------------------------------------
(* Extensions                                                              *)

LEMMA ExtensionsAreApart ==
  ASSUME NEW r \in Request, shape[r].op \in Extensions
  PROVE  ~Clean(shape[r]) /\ shape[r].op \notin Writes
  BY DEF Clean, Extensions, Writes, Reads, ElementWrites, IndexWrites, PrefixWrites

LEMMA NotInvokedKeeps ==
  ASSUME RInv, NEW r \in Request, shape[r].op \in Extensions, NotInvoked(r) \/ InvokeThrows(r)
  PROVE  RInv'
<1>1. CASE Invalid(r, {"error", "ok"})
  BY <1>1, ExtensionsAreApart, InvalidKeeps DEF Status
<1>2. CASE Caught(r, "notFound")
  BY <1>2, CaughtKeeps DEF Status
<1>3. CASE Caught(r, "error")
  BY <1>3, CaughtKeeps DEF Status
<1> QED
  BY <1>1, <1>2, <1>3 DEF NotInvoked, InvokeThrows

\* Only an extension that looks after its transaction commits in its method.
LEMMA InvokeKeeps ==
  ASSUME RInv, NEW r \in Request, ~Clean(shape[r]), Invoke(r)
  PROVE  RInv'
<1> DEFINE TX == [by: SUBSET Request, puts: SUBSET Id, cuts: SUBSET Id]
<1>1. Nowhere(r) /\ InHand(r) /\ by[r] \in Thread /\ TypeOK
  BY NotYet, Hand DEF Invoke
<1>2. /\ tx[by[r]] \in TX /\ tx \in [Thread -> TX] /\ Empty \in TX /\ Empty.by = {}
      /\ Marked(r) \in TX /\ Marked(r).by = tx[by[r]].by \cup {r}
      /\ View(by[r]) \subseteq Id
  BY <1>1 DEF TypeOK, Empty, Marked, View
<1>3. /\ Goto(r, "invoked") /\ shape' = shape /\ had' \in [Request -> BOOLEAN]
      /\ saved' = saved /\ pc[r] # "committed"
      /\ returned' \in [Request -> Outcome \cup {"none"}]
      /\ \A q \in Request \ {r} : returned'[q] = returned[q]
  BY <1>1 DEF Invoke, TypeOK
<1>4. CASE Untouched
  BY <1>1, <1>3, <1>4, GotoKeeps DEF Untouched, Nowhere, TypeOK, GraphTypeOK
<1>5. CASE tx' = [tx EXCEPT ![by[r]] = Marked(r)] /\ UNCHANGED <<exists, durable>>
  <2>1. /\ GraphTypeOK' /\ durable' = durable
        /\ \A t \in Thread \ {by[r]} : tx'[t] = tx[t]
        /\ tx'[by[r]].by \subseteq tx[by[r]].by \cup {r}
    BY <1>1, <1>2, <1>5 DEF TypeOK, GraphTypeOK
  <2> QED
    BY <1>1, <1>3, <2>1, GotoKeeps DEF Nowhere
<1>6. CASE /\ ~shape[r].auto
           /\ exists' = View(by[r])
           /\ durable' = durable \cup Marked(r).by
           /\ tx' = [tx EXCEPT ![by[r]] = Empty]
  <2>1. /\ GraphTypeOK' /\ durable \subseteq durable'
        /\ durable' \subseteq durable \cup tx[by[r]].by \cup {r}
        /\ \A t \in Thread \ {by[r]} : tx'[t] = tx[t]
        /\ tx'[by[r]].by \subseteq tx[by[r]].by \cup {r}
    BY <1>1, <1>2, <1>6 DEF TypeOK, GraphTypeOK
  <2> QED
    BY <1>1, <1>3, <1>6, <2>1, GotoKeeps DEF ElementExtension
<1> QED
  BY <1>4, <1>5, <1>6 DEF Invoke

\* The error of a vertex or an edge extension is met before any commit.
LEMMA ErrorReturnedKeeps ==
  ASSUME RInv, NEW r \in Request, shape[r].op \in Extensions,
         NEW from \in {"invoked", "checked"}, ElementExtension(r) => from = "invoked",
         ErrorReturned(r, from)
  PROVE  RInv'
<1>1. InHand(r) /\ Stopped(by[r]) /\ ~Clean(shape[r])
  BY ExtensionsAreApart DEF ErrorReturned, InHand, Stopped
<1>2. CASE ElementExtension(r)
  <2>1. r \notin durable /\ TryRollback(by[r])
    BY <1>2 DEF ErrorReturned, RInv, ReqInv, Ended, ElementExtension
  <2>2. Nowhere(r)'
    BY <1>1, <2>1, RolledBackIsNowhere
  <2> QED
    BY <1>1, <2>2, AnswerKeeps DEF ErrorReturned, Status
<1>3. CASE ~ElementExtension(r)
  BY <1>1, <1>3, AnswerKeeps DEF ErrorReturned, Status
<1> QED
  BY <1>2, <1>3

LEMMA OkReturnedKeeps ==
  ASSUME RInv, NEW r \in Request, shape[r].op \in Extensions,
         NEW from \in {"invoked", "checked"}, OkReturned(r, from)
  PROVE  RInv'
<1>1. InHand(r) /\ Stopped(by[r]) /\ ~Clean(shape[r]) /\ shape[r].op \notin Writes
  BY ExtensionsAreApart DEF OkReturned, InHand, Stopped
<1>2. returned[r] # "error" /\ \E status \in {"ok", "error"} : Answer(r, status)
  BY DEF OkReturned
<1> QED
  BY <1>1, <1>2, AnswerKeeps DEF OkReturned, Status

LEMMA NoResponseKeeps ==
  ASSUME RInv, NEW r \in Request, shape[r].op \in Extensions,
         NEW from \in {"invoked", "checked"}, NoResponseReturned(r, from), Stopped(by[r])
  PROVE  RInv'
<1>1. InHand(r) /\ ~Clean(shape[r]) /\ returned[r] # "error"
  BY ExtensionsAreApart DEF NoResponseReturned, InHand
<1> QED
  BY <1>1, AnswerKeeps DEF NoResponseReturned, Status

\* GraphResource commits what its extension did before it looks at the result.
LEMMA GraphExtensionKeeps ==
  ASSUME RInv, NEW r \in Request, GraphExtension(r)
  PROVE  RInv'
<1>1. shape[r].op \in Extensions /\ ~ElementExtension(r)
  BY DEF GraphExtension, Calls, Extensions, ElementExtension
<1>2. CASE pc[r] = "invoked" /\ UNCHANGED <<shape, had, returned, saved>>
           /\ TryCommit(by[r]) /\ Goto(r, "checked")
  <2>1. InHand(r) /\ Stopped(by[r]) /\ by[r] \in Thread /\ TypeOK
    BY <1>2, Hand DEF InHand, Stopped
  <2>2. had' \in [Request -> BOOLEAN] /\ returned' \in [Request -> Outcome \cup {"none"}]
    BY <1>2, <2>1 DEF TypeOK
  <2> QED
    BY <1>1, <1>2, <2>1, <2>2, StoppedMoves, GotoKeeps, ExtensionsAreApart
<1>3. CASE pc[r] = "invoked" /\ UNCHANGED <<shape, had, returned, saved>>
           /\ TryRollback(by[r]) /\ Answer(r, "error")
  BY <1>1, <1>3, ExtensionsAreApart, AnswerKeeps DEF InHand, Stopped, Status
<1> QED
  BY <1>1, <1>2, <1>3, NotInvokedKeeps, InvokeKeeps, ErrorReturnedKeeps, OkReturnedKeeps,
     NoResponseKeeps, ExtensionsAreApart
  DEF GraphExtension, Stopped

LEMMA ExtendKeeps ==
  ASSUME RInv, NEW r \in Request, Extend(r)
  PROVE  RInv'
<1>1. CASE VertexExtension(r)
  <2>1. shape[r].op \in Extensions
    BY <1>1 DEF VertexExtension, Calls, Extensions
  <2> QED
    BY <1>1, <2>1, NotInvokedKeeps, InvokeKeeps, ErrorReturnedKeeps, OkReturnedKeeps,
       NoResponseKeeps, ExtensionsAreApart
    DEF VertexExtension, Stopped
<1>2. CASE EdgeExtension(r)
  <2>1. shape[r].op \in Extensions
    BY <1>2 DEF EdgeExtension, Calls, Extensions
  <2> QED
    BY <1>2, <2>1, NotInvokedKeeps, InvokeKeeps, ErrorReturnedKeeps, OkReturnedKeeps,
       NoResponseKeeps, ExtensionsAreApart
    DEF EdgeExtension, Stopped
<1> QED
  BY <1>1, <1>2, GraphExtensionKeeps DEF Extend

-----------------------------------------------------------------------------
(* Reads and writes                                                        *)

LEMMA ReadKeeps ==
  ASSUME RInv, NEW r \in Request, Read(r)
  PROVE  RInv'
<1>1. shape[r].op \in Reads /\ shape[r].op \notin Writes
  BY DEF Read, Reads, Writes, ElementWrites, IndexWrites, PrefixWrites, Calls,
         GetVertices, GetSingleVertex, GetVertexEdges, GetAllEdges, GetSingleEdge,
         GetAllIndices, GetElementsFromIndex, GetIndexCount, GetKeyIndices, GetIndexKeys,
         GetPrefixes, GetSinglePrefix
<1>2. PICK statuses \in SUBSET Status : Invalid(r, statuses) \/ ReadFinally(r, statuses)
  BY DEF Read, Status, FoundOrNot,
         GetVertices, GetSingleVertex, GetVertexEdges, GetAllEdges, GetSingleEdge,
         GetAllIndices, GetElementsFromIndex, GetIndexCount, GetKeyIndices, GetIndexKeys,
         GetPrefixes, GetSinglePrefix
<1> QED
  BY <1>1, <1>2, InvalidKeeps, ReadFinallyKeeps

\* The steps of the handlers that write an element.
LEMMA WriteElementKeeps ==
  ASSUME RInv, NEW r \in Request, WriteElement(r)
  PROVE  RInv'
<1>1. shape[r].op \in ElementWrites /\ ~ElementExtension(r)
  BY DEF WriteElement, ElementWrites, Calls, ElementExtension,
         PostVertex, PutVertex, DeleteVertex, PostEdge, PutEdge, DeleteEdge
<1>2. CASE PostVertex(r)
  BY <1>1, <1>2, LookUpKeeps, RefuseKeeps, WriteKeeps, CommitKeeps, ConcludeKeeps,
     FailsLateKeeps, CaughtKeeps
  DEF PostVertex, Status, Calls, FailsLate, Stopped, AnswersLate
<1>3. CASE PutVertex(r)
  BY <1>1, <1>3, LookUpKeeps, RefuseKeeps, WriteKeeps, CommitKeeps, ConcludeKeeps,
     FailsLateKeeps, CaughtKeeps
  DEF PutVertex, Status, Calls, FailsLate, Stopped, AnswersLate
<1>4. CASE DeleteVertex(r)
  BY <1>1, <1>4, LookUpKeeps, RefuseKeeps, WriteKeeps, CommitKeeps, ConcludeKeeps,
     CaughtKeeps
  DEF DeleteVertex, Status, Calls
<1>5. CASE PostEdge(r)
  BY <1>1, <1>5, LookUpKeeps, RefuseKeeps, WriteKeeps, CommitKeeps, ConcludeKeeps,
     FailsLateKeeps, CaughtKeeps
  DEF PostEdge, Status, Calls, FailsLate, Stopped, AnswersLate
<1>6. CASE PutEdge(r)
  BY <1>1, <1>6, LookUpKeeps, RefuseKeeps, WriteKeeps, CommitKeeps, ConcludeKeeps,
     FailsLateKeeps, CaughtKeeps
  DEF PutEdge, Status, Calls, FailsLate, Stopped, AnswersLate
<1>7. CASE DeleteEdge(r)
  BY <1>1, <1>7, LookUpKeeps, RefuseKeeps, WriteKeeps, CommitKeeps, ConcludeKeeps,
     CaughtKeeps
  DEF DeleteEdge, Status, Calls
<1> QED
  BY <1>2, <1>3, <1>4, <1>5, <1>6, <1>7 DEF WriteElement

LEMMA WriteIndexKeeps ==
  ASSUME RInv, NEW r \in Request, WriteIndex(r)
  PROVE  RInv'
<1>1. ~ElementExtension(r)
  BY DEF WriteIndex, Calls, ElementExtension, DeleteIndex, PostIndex, PutElementInIndex,
         DeleteIndexKey, PostIndexKey, DeleteSinglePrefix, PostSinglePrefix
<1>2. CASE DeleteIndex(r)
  <2>1. shape[r].keys => ~Clean(shape[r])
    BY <1>2 DEF DeleteIndex, Calls, Clean, Reads, ElementWrites, PrefixWrites
  <2> QED
    BY <1>1, <1>2, <2>1, InvalidKeeps, WriteKeeps, CommitAndAnswerKeeps, CaughtKeeps,
       EscapesKeeps
    DEF DeleteIndex, Status
<1>3. CASE PostIndex(r)
  BY <1>1, <1>3, InvalidKeeps, WriteKeeps, CommitKeeps, ConcludeKeeps, FailsLateKeeps,
     CaughtKeeps
  DEF PostIndex, Status, Calls, Stopped, AnswersLate
<1>4. CASE PutElementInIndex(r)
  <2>1. ~Clean(shape[r])
    BY <1>4 DEF PutElementInIndex, Calls, Clean, Reads, ElementWrites, PrefixWrites
  <2> QED
    BY <1>1, <1>4, <2>1, InvalidKeeps, WriteKeeps, CommitAndAnswerKeeps, CaughtKeeps,
       EscapesKeeps
    DEF PutElementInIndex, Status
<1>5. CASE DeleteIndexKey(r)
  <2>1. ~Clean(shape[r])
    BY <1>5 DEF DeleteIndexKey, Calls, Clean, Reads, ElementWrites, PrefixWrites
  <2> QED
    BY <1>1, <1>5, <2>1, InvalidKeeps, WriteKeeps, CommitAndAnswerKeeps, CaughtKeeps,
       EscapesKeeps
    DEF DeleteIndexKey, Status
<1>6. CASE PostIndexKey(r)
  <2>1. ~Clean(shape[r])
    BY <1>6 DEF PostIndexKey, Calls, Clean, Reads, ElementWrites, PrefixWrites
  <2> QED
    BY <1>1, <1>6, <2>1, InvalidKeeps, WriteKeeps, CommitAndAnswerKeeps, CaughtKeeps,
       EscapesKeeps
    DEF PostIndexKey, Status
<1>7. CASE DeleteSinglePrefix(r)
  BY <1>7, InvalidKeeps, WriteKeeps, CommitAndAnswerKeeps, CaughtKeeps DEF DeleteSinglePrefix, Status
<1>8. CASE PostSinglePrefix(r)
  BY <1>8, InvalidKeeps, WriteKeeps, CommitAndAnswerKeeps, CaughtKeeps DEF PostSinglePrefix, Status
<1> QED
  BY <1>2, <1>3, <1>4, <1>5, <1>6, <1>7, <1>8 DEF WriteIndex

-----------------------------------------------------------------------------
(* The invariant                                                           *)

\* A free thread takes a request that nobody has.
LEMMA ReceiveKeeps ==
  ASSUME RInv, NEW r \in Request, NEW t \in Thread, Receive(r, t)
  PROVE  RInv'
<1>1. PICK s \in Shape : shape' = [shape EXCEPT ![r] = s]
  BY DEF Receive
<1>2. t # None /\ s \in ShapeType /\ TypeOK /\ ReqInv(r)
  BY RestAssumption DEF RInv
<1>3. /\ shape'[r] = s /\ by'[r] = t /\ pc'[r] = "received" /\ pc[r] = "new"
      /\ returned' = returned /\ answer' = answer /\ tx' = tx /\ durable' = durable
      /\ saved' = saved
      /\ \A q \in Request : q # r =>
           shape'[q] = shape[q] /\ by'[q] = by[q] /\ pc'[q] = pc[q]
      /\ \A q \in Request : by[q] # t
  BY <1>1, <1>2 DEF Receive, TypeOK
<1>4. TypeOK'
  BY <1>1, <1>2 DEF Receive, TypeOK
<1>5. returned[r] = "none"
  BY <1>2, <1>3 DEF ReqInv, Ended
<1>6. ReqInv(r)'
  BY <1>2, <1>3, <1>5 DEF ReqInv, AnswersLate, Handled, Marks, Ended, Failed, InHand, ElementExtension
<1>7. ASSUME NEW q \in Request, q # r PROVE ReqInv(q)'
  BY <1>3, <1>7 DEF RInv, ReqInv, Handled, Marks, Ended, Failed, InHand, ElementExtension,
                    Nowhere, AnswersLate
<1> QED
  BY <1>4, <1>6, <1>7 DEF RInv

\* The invariant of the resources.
LEMMA Invariance == Spec => []RInv
<1>1. Init => RInv
  <2> SUFFICES ASSUME Init PROVE RInv
    OBVIOUS
  <2>1. TypeOK
    BY DEF Init, TypeOK, Empty
  <2>2. ASSUME NEW r \in Request PROVE ReqInv(r)
    BY DEF Init, ReqInv, Handled, Marks, Ended, Failed, InHand, Empty
  <2> QED
    BY <2>1, <2>2 DEF RInv
<1>2. RInv /\ [Next]_vars => RInv'
  <2> SUFFICES ASSUME RInv, [Next]_vars PROVE RInv'
    OBVIOUS
  <2>1. CASE UNCHANGED vars
    BY <2>1 DEF vars, RInv, TypeOK, ReqInv, Handled, Marks, Ended, Failed, InHand,
                ElementExtension, Nowhere
  <2> QED
    BY <2>1, ReceiveKeeps, ReadKeeps, WriteElementKeeps, WriteIndexKeeps, ExtendKeeps
    DEF Next, Quiet
<1> QED
  BY <1>1, <1>2, PTL DEF Spec

\* Whatever the requests are, in whatever order the threads take them and
\* whatever earlier requests left open on them: an OK is durable, and an error
\* of a handler that stops its transaction on every way out is the end of it,
\* unless the handler had committed the write itself.
THEOREM AnswersTell == Spec => []AnswersAreTrue
<1>1. RInv => AnswersAreTrue
  <2> SUFFICES ASSUME RInv PROVE AnswersAreTrue
    OBVIOUS
  <2>1. TypeOK /\ OkMeansDurable
    BY DEF RInv, ReqInv, Ended, Writes, OkMeansDurable
  <2>2. ErrorMeansUndone
    BY DEF RInv, ReqInv, Marks, Ended, Nowhere, ErrorMeansUndone, Failed
  <2>3. NothingIsCarried
    <3>1. durable \subseteq Request /\ \A t \in Thread : tx[t].by \subseteq Request
      BY DEF RInv, TypeOK
    <3> QED
      BY <3>1 DEF RInv, ReqInv, Marks, NothingIsCarried
  <2> QED
    BY <2>1, <2>2, <2>3 DEF AnswersAreTrue
<1> QED
  BY <1>1, Invariance, PTL

-----------------------------------------------------------------------------
\* A step of one request is no step of another.
LEMMA OwnStep ==
  ASSUME TypeOK, NEW q \in Request, NEW r \in Request, q # r,
         Read(q) \/ WriteElement(q) \/ WriteIndex(q) \/ Extend(q)
  PROVE  pc'[r] = pc[r]
<1> USE DEF TypeOK, Answer, Goto, Invalid, Caught
<1>1. CASE Read(q)
  BY <1>1 DEF Read, ReadFinally,
     GetVertices, GetSingleVertex, GetVertexEdges, GetAllEdges, GetSingleEdge,
     GetAllIndices, GetElementsFromIndex, GetIndexCount, GetKeyIndices, GetIndexKeys,
     GetPrefixes, GetSinglePrefix
<1>2. CASE WriteElement(q)
  BY <1>2 DEF WriteElement, PostVertex, PutVertex, DeleteVertex, PostEdge, PutEdge, DeleteEdge,
     LookUp, Refuse, Write, Commit, Conclude, FailsLate
<1>3. CASE WriteIndex(q)
  BY <1>3 DEF WriteIndex, DeleteIndex, PostIndex, PutElementInIndex, DeleteIndexKey,
     PostIndexKey, DeleteSinglePrefix, PostSinglePrefix, Write, Commit, Conclude, CommitAndAnswer, Escapes
<1>4. CASE Extend(q)
  BY <1>4 DEF Extend, VertexExtension, EdgeExtension, GraphExtension, NotInvoked, Invoke,
     InvokeThrows, ErrorReturned, OkReturned, NoResponseReturned
<1> QED
  BY <1>1, <1>2, <1>3, <1>4

\* A vertex or edge extension that looks after its own transaction: what
\* follows its method commits nothing.
LEMMA OwnTransaction ==
  ASSUME NEW r \in Request, pc[r] = "invoked", ~shape[r].auto,
         shape[r].op \in {"vertexExtension", "edgeExtension"},
         Read(r) \/ WriteElement(r) \/ WriteIndex(r) \/ Extend(r)
  PROVE  durable' = durable
<1> USE DEF Calls
<1>1. ~Read(r)
  BY DEF Read,
     GetVertices, GetSingleVertex, GetVertexEdges, GetAllEdges, GetSingleEdge,
     GetAllIndices, GetElementsFromIndex, GetIndexCount, GetKeyIndices, GetIndexKeys,
     GetPrefixes, GetSinglePrefix
<1>2. ~WriteElement(r) /\ ~WriteIndex(r)
  BY DEF WriteElement, PostVertex, PutVertex, DeleteVertex, PostEdge, PutEdge, DeleteEdge,
     WriteIndex, DeleteIndex, PostIndex, PutElementInIndex, DeleteIndexKey,
     PostIndexKey, DeleteSinglePrefix, PostSinglePrefix
<1>3. VertexExtension(r) \/ EdgeExtension(r)
  BY <1>1, <1>2 DEF Extend, GraphExtension
<1> QED
  BY <1>3 DEF VertexExtension, EdgeExtension, NotInvoked, Invoke, InvokeThrows, Invalid, Caught,
     ErrorReturned, OkReturned, NoResponseReturned, Untouched, TryRollback

\* Rexster commits nothing of a vertex or edge extension that returned an error,
\* then or later, nor on behalf of one that looks after its own transaction.
THEOREM ExtensionsHold == Spec => ExtensionTransactions
<1> DEFINE Commits(r) ==
      /\ pc[r] = "invoked" /\ pc'[r] # pc[r]
      /\ shape[r].op \in {"vertexExtension", "edgeExtension"} /\ ~shape[r].auto
<1>1. RInv => ElementExtensionsRollBack
  BY DEF RInv, ReqInv, Ended, Nowhere, ElementExtensionsRollBack, ElementExtension
<1>2. RInv /\ [Next]_vars => [\A r \in Request : Commits(r) => durable' = durable]_vars
  <2> SUFFICES ASSUME RInv, Next, NEW r \in Request, Commits(r) PROVE durable' = durable
    OBVIOUS
  <2>1. ASSUME NEW q \in Request, NEW t \in Thread, Receive(q, t) PROVE durable' = durable
    BY <2>1 DEF Receive
  <2>2. ASSUME NEW q \in Request,
               Read(q) \/ WriteElement(q) \/ WriteIndex(q) \/ Extend(q)
        PROVE  durable' = durable
    <3>1. q = r
      BY <2>2, OwnStep DEF RInv
    <3> QED
      BY <2>2, <3>1, OwnTransaction
  <2> QED
    BY <2>1, <2>2 DEF Next, Quiet, vars
<1> QED
  BY <1>1, <1>2, Invariance, PTL DEF Spec, ExtensionTransactions
=============================================================================
