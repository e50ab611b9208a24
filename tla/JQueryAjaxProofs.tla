-------------------------- MODULE JQueryAjaxProofs --------------------------
(***************************************************************************)
(* Theorems about JQueryAjax, for any number of requests, of handlers and  *)
(* of calls by handlers.  The argument is about two things: what a list    *)
(* still holds of the handlers that were added to it and how many of them  *)
(* were called (Listed), and what the stack of the thread tells about a    *)
(* request (Ends, Tells, Counts).                                          *)
(***************************************************************************)
EXTENDS JQueryAjax, FiniteSetTheorems, TLAPS

-----------------------------------------------------------------------------
(***************************************************************************)
(* The handlers of a list.                                                 *)
(***************************************************************************)
\* list is the end of <<0>> \o a.
EndOf(list, a) ==
  LET off == Len(a) - Len(list) IN
    /\ off >= -1
    /\ \A i \in 1 .. Len(list) : list[i] = IF off + i = 0 THEN 0 ELSE a[off + i]

\* c is the beginning of a, which has no 0.
BeginningOf(c, a) ==
  /\ \A j \in 1 .. Len(a) : a[j] # 0
  /\ Len(c) <= Len(a) /\ \A j \in 1 .. Len(c) : c[j] = a[j]

\* The list has the last of the handlers that were added, the 0 before the
\* first of them included; index tells how many have been called.
Holds(cb, a, c) ==
  LET at == Len(a) - Len(cb.list) + cb.index IN
    /\ EndOf(cb.list, a)
    /\ cb.firing => cb.length = Len(cb.list) /\ cb.index <= cb.length
    /\ Len(c) = IF at = -1 THEN 0 ELSE at

\* a has been added to the list cb, c has been called.
Listed(cb, a, c) ==
  /\ cb.start = 0 /\ BeginningOf(c, a)
  /\ cb.on /\ ~cb.memory => cb.index = 0 /\ ~cb.firing
  /\ cb.on /\ (cb.firing \/ ~cb.memory) => Holds(cb, a, c)
  /\ cb.on /\ ~cb.firing /\ cb.memory =>
       cb.list = <<>> /\ Len(c) = Len(a) /\ cb.index >= cb.length

\* Where a list is, before it is fired.
Unfired(cb) == cb.on /\ ~cb.memory

Other(l) == IF l = "done" THEN "fail" ELSE "done"

Frames(s) == {s[i] : i \in 1 .. Len(s)}

Frame ==
  [k : {"user"}, why : Hook \cup {"handler", "page"}, req : Request]
    \cup [k : {"fire"}, req : Request, list : ListName]
    \cup [k : {"send"}, req : Request, at : {"start", "install", "send"}]
    \cup [k : {"done"}, req : Request, ok : BOOLEAN,
          at : {"settle", "status", "complete", "count"}]

\* TypeOK, with a count that might be negative, and the stack.
Types ==
  /\ option \in [Request -> Options]
  /\ state \in [Request -> -1 .. 2]
  /\ settled \in [Request -> {"pending", "done", "fail"}]
  /\ counted \in [Request -> BOOLEAN] /\ transport \in [Request -> BOOLEAN]
  /\ timer \in [Request -> BOOLEAN] /\ statusCode \in [Request -> BOOLEAN]
  /\ xhr \in [Request -> {"none", "waiting"}]
  /\ callbacks \in [Request -> [ListName -> Callbacks]]
  /\ asked \in [Request -> [ListName -> Seq(Nat)]]
  /\ called \in [Request -> [ListName -> Seq(Nat)]]
  /\ active \in Int /\ added \in Nat /\ calls \in 0 .. MaxCalls
  /\ dones \in [Request -> Nat] /\ threw \in BOOLEAN
  /\ stack \in Seq(Frame)

\* A loop that is on the stack is of a list that was fired, or is disabled.
LoopsFired ==
  \A f \in Frames(stack) : f.k = "fire" =>
    LET cb == callbacks[f.req][f.list] IN ~cb.on \/ cb.memory

\* Of done and fail, the first that is fired disables the other one before it
\* calls a handler; complete is never disabled.
OneOutcome(r) ==
  LET cb == callbacks[r] IN
    /\ cb["complete"].on /\ Len(cb["complete"].list) <= Len(asked[r]["complete"])
    /\ \A l \in {"done", "fail"} :
         /\ ~cb[l].on => called[r][l] = <<>>
         /\ cb[l].on /\ cb[Other(l)].on =>
              cb[l].index = 0 /\ Len(cb[l].list) = Len(asked[r][l]) + 1

ListInv ==
  /\ Types /\ LoopsFired
  /\ \A r \in Request, l \in ListName : Listed(callbacks[r][l], asked[r][l], called[r][l])
  /\ \A r \in Request : OneOutcome(r)
-----------------------------------------------------------------------------
(***************************************************************************)
(* Steps of a list.                                                        *)
(***************************************************************************)
LEMMA Appended ==
  ASSUME NEW s \in Seq(Nat), NEW h \in Nat
  PROVE  /\ Len(s) \in Nat /\ \A j \in 1 .. Len(s) : s[j] \in Nat
         /\ Append(s, h) \in Seq(Nat) /\ Len(Append(s, h)) = Len(s) + 1
         /\ Append(s, h)[Len(s) + 1] = h
         /\ \A j \in 1 .. Len(s) : Append(s, h)[j] = s[j]
OBVIOUS

LEMMA NoList == <<>> \in Seq(Nat) /\ Len(<<>>) = 0
OBVIOUS

LEMMA EndAppended ==
  ASSUME NEW list \in Seq(Nat), NEW a \in Seq(Nat), NEW h \in Nat, EndOf(list, a)
  PROVE  EndOf(Append(list, h), Append(a, h))
<1> DEFINE n == Append(list, h)  d == Append(a, h)  off == Len(a) - Len(list)
<1>1. /\ Len(list) \in Nat /\ Len(n) = Len(list) + 1 /\ n[Len(list) + 1] = h
      /\ \A j \in 1 .. Len(list) : n[j] = list[j]
  BY Appended
<1>2. /\ Len(a) \in Nat /\ Len(d) = Len(a) + 1 /\ d[Len(a) + 1] = h
      /\ \A j \in 1 .. Len(a) : d[j] = a[j]
  BY Appended
<1> HIDE DEF n, d
<1>3. off \in Int /\ off >= -1 /\ off = Len(d) - Len(n)
  BY <1>1, <1>2 DEF EndOf
<1>4. ASSUME NEW i \in 1 .. Len(n)
      PROVE  n[i] = IF off + i = 0 THEN 0 ELSE d[off + i]
  <2>1. CASE i = Len(list) + 1
    <3>1. off + i = Len(a) + 1
      BY <1>1, <1>2, <2>1
    <3> QED
      BY <1>1, <1>2, <2>1, <3>1
  <2>2. CASE i # Len(list) + 1
    <3>1. i \in 1 .. Len(list)
      BY <1>1, <2>2
    <3>2. n[i] = IF off + i = 0 THEN 0 ELSE a[off + i]
      BY <1>1, <3>1 DEF EndOf
    <3>3. off + i = 0 \/ off + i \in 1 .. Len(a)
      BY <1>1, <1>2, <1>3, <3>1
    <3> QED
      BY <1>2, <3>2, <3>3
  <2> QED
    BY <2>1, <2>2
<1>5. EndOf(n, d)
  BY <1>3, <1>4 DEF EndOf
<1> QED
  BY <1>5 DEF n, d

LEMMA EndOne ==
  ASSUME NEW a \in Seq(Nat), NEW h \in Nat
  PROVE  EndOf(<<h>>, Append(a, h))
<1> DEFINE d == Append(a, h)
<1>1. Len(a) \in Nat /\ Len(d) = Len(a) + 1 /\ d[Len(a) + 1] = h
  BY Appended
<1> HIDE DEF d
<1>2. Len(d) - Len(<<h>>) = Len(a) /\ Len(<<h>>) = 1 /\ <<h>>[1] = h
  BY <1>1
<1>3. EndOf(<<h>>, d)
  BY <1>1, <1>2 DEF EndOf
<1> QED
  BY <1>3 DEF d

LEMMA BeginningAppended ==
  ASSUME NEW a \in Seq(Nat), NEW c \in Seq(Nat), NEW h \in Nat, h # 0, BeginningOf(c, a)
  PROVE  BeginningOf(c, Append(a, h))
<1> DEFINE d == Append(a, h)
<1>1. /\ Len(a) \in Nat /\ Len(d) = Len(a) + 1 /\ d[Len(a) + 1] = h
      /\ \A j \in 1 .. Len(a) : d[j] = a[j]
  BY Appended
<1>2. Len(c) \in Nat
  OBVIOUS
<1> HIDE DEF d
<1>3. ASSUME NEW j \in 1 .. Len(d) PROVE d[j] # 0
  <2>1. CASE j = Len(a) + 1
    BY <1>1, <2>1
  <2>2. CASE j # Len(a) + 1
    <3>1. j \in 1 .. Len(a)
      BY <1>1, <2>2
    <3> QED
      BY <1>1, <3>1 DEF BeginningOf
  <2> QED
    BY <2>1, <2>2
<1>4. Len(c) <= Len(d) /\ \A j \in 1 .. Len(c) : c[j] = d[j]
  BY <1>1, <1>2 DEF BeginningOf
<1>5. BeginningOf(c, d)
  BY <1>3, <1>4 DEF BeginningOf
<1> QED
  BY <1>5 DEF d

LEMMA BeginningGrows ==
  ASSUME NEW a \in Seq(Nat), NEW c \in Seq(Nat), BeginningOf(c, a), Len(c) < Len(a)
  PROVE  BeginningOf(Append(c, a[Len(c) + 1]), a)
BY DEF BeginningOf

LEMMA Fields ==
  ASSUME NEW cb \in Callbacks
  PROVE  /\ cb.on \in BOOLEAN /\ cb.memory \in BOOLEAN /\ cb.firing \in BOOLEAN
         /\ cb.list \in Seq(Nat) /\ Len(cb.list) \in Nat
         /\ cb.start \in Nat /\ cb.length \in Nat /\ cb.index \in Nat
BY DEF Callbacks

\* What becomes of a list to which h is added.
LEMMA AddedFields ==
  ASSUME NEW cb \in Callbacks, NEW a \in Seq(Nat), NEW c \in Seq(Nat),
         NEW h \in Nat, cb.start = 0,
         cb.on /\ ~cb.firing /\ cb.memory => cb.list = <<>>
  PROVE  LET b == Added(cb, h) IN
         /\ b \in Callbacks /\ b.start = 0
         /\ b.on = cb.on /\ b.memory = cb.memory
         /\ b.firing = (cb.firing \/ Refires(cb))
         /\ ~cb.on => b = cb
         /\ cb.on => b.list = Append(cb.list, h)
         /\ b.index = IF Refires(cb) THEN 0 ELSE cb.index
         /\ cb.on /\ b.firing => b.length = Len(b.list)
<1>1. /\ Len(cb.list) \in Nat /\ Append(cb.list, h) \in Seq(Nat)
      /\ Len(Append(cb.list, h)) = Len(cb.list) + 1 /\ Len(cb.list) + 1 \in Nat
  BY Fields, Appended
<1>2. CASE ~cb.on
  BY <1>2, Fields DEF Added, Refires
<1>3. CASE cb.on /\ cb.firing
  <2> DEFINE n == Append(cb.list, h)  m == Len(n)
  <2>1. n \in Seq(Nat) /\ m \in Nat
    BY <1>1
  <2>2. Added(cb, h) = [cb EXCEPT !.list = n, !.length = m]
    BY <1>3 DEF Added, Callbacks
  <2> HIDE DEF m
  <2>3. m = Len(n)
    BY DEF m
  <2> HIDE DEF n
  <2>4. Added(cb, h) \in Callbacks
    BY <2>1, <2>2 DEF Callbacks
  <2>5. /\ Added(cb, h).start = cb.start /\ Added(cb, h).on = cb.on
        /\ Added(cb, h).memory = cb.memory /\ Added(cb, h).firing = cb.firing
        /\ Added(cb, h).list = n /\ Added(cb, h).index = cb.index
        /\ Added(cb, h).length = m
    BY <2>2 DEF Callbacks
  <2> QED
    BY <1>3, <2>3, <2>4, <2>5 DEF Refires, n
<1>4. CASE cb.on /\ ~cb.firing /\ ~cb.memory
  <2> DEFINE n == Append(cb.list, h)
  <2>1. n \in Seq(Nat)
    BY <1>1
  <2>2. Added(cb, h) = [cb EXCEPT !.list = n]
    BY <1>4 DEF Added, Callbacks
  <2> HIDE DEF n
  <2>4. Added(cb, h) \in Callbacks
    BY <2>1, <2>2 DEF Callbacks
  <2>5. /\ Added(cb, h).start = cb.start /\ Added(cb, h).on = cb.on
        /\ Added(cb, h).memory = cb.memory /\ Added(cb, h).firing = cb.firing
        /\ Added(cb, h).list = n /\ Added(cb, h).index = cb.index
    BY <2>2 DEF Callbacks
  <2> QED
    BY <1>4, <2>4, <2>5, Fields DEF Refires, n
<1>5. CASE cb.on /\ ~cb.firing /\ cb.memory
  <2> DEFINE n == Append(cb.list, h)  m == Len(n)
  <2>1. n \in Seq(Nat) /\ m \in Nat /\ Len(cb.list) = 0
    BY <1>1, <1>5, NoList
  <2>2. Added(cb, h) = [on |-> TRUE, list |-> n, memory |-> TRUE, firing |-> TRUE,
                        start |-> 0, length |-> m, index |-> 0]
    BY <1>5, <2>1 DEF Added, Fired, Callbacks
  <2> HIDE DEF m
  <2>3. m = Len(n)
    BY DEF m
  <2> HIDE DEF n
  <2>4. Added(cb, h) \in Callbacks
    BY <2>1, <2>2 DEF Callbacks
  <2>5. /\ Added(cb, h).start = 0 /\ Added(cb, h).on /\ Added(cb, h).memory
        /\ Added(cb, h).firing /\ Added(cb, h).list = n /\ Added(cb, h).index = 0
        /\ Added(cb, h).length = m
    BY <2>2
  <2>6. Refires(cb)
    BY <1>5 DEF Refires
  <2>7. /\ Added(cb, h).on \in BOOLEAN /\ Added(cb, h).memory \in BOOLEAN
        /\ Added(cb, h).firing \in BOOLEAN
    BY <2>4, Fields
  <2> QED
    BY <1>5, <2>3, <2>4, <2>5, <2>6, <2>7, Fields DEF n
<1> QED
  BY <1>2, <1>3, <1>4, <1>5, Fields

LEMMA ListAdded ==
  ASSUME NEW cb \in Callbacks, NEW a \in Seq(Nat), NEW c \in Seq(Nat),
         NEW h \in Nat, h # 0, Listed(cb, a, c)
  PROVE  LET b == Added(cb, h) IN
         /\ b \in Callbacks
         /\ Listed(b, Append(a, h), c)
         /\ b.on = cb.on /\ b.memory = cb.memory
         /\ b.firing = (cb.firing \/ Refires(cb))
         /\ cb.on => Len(b.list) = Len(cb.list) + 1
         /\ ~cb.on => b = cb
         /\ cb.index = 0 => b.index = 0
<1> DEFINE b == Added(cb, h)  d == Append(a, h)
<1>1. cb.start = 0 /\ (cb.on /\ ~cb.firing /\ cb.memory => cb.list = <<>>)
  BY DEF Listed
<1>2. /\ b \in Callbacks /\ b.start = 0
      /\ b.on = cb.on /\ b.memory = cb.memory
      /\ b.firing = (cb.firing \/ Refires(cb))
      /\ ~cb.on => b = cb
      /\ cb.on => b.list = Append(cb.list, h)
      /\ b.index = IF Refires(cb) THEN 0 ELSE cb.index
      /\ cb.on /\ b.firing => b.length = Len(b.list)
  BY <1>1, AddedFields
<1>3. /\ BeginningOf(c, d) /\ Len(d) = Len(a) + 1 /\ Len(a) \in Nat /\ Len(c) \in Nat
      /\ EndOf(<<h>>, d)
  BY BeginningAppended, Appended, EndOne DEF Listed
<1>4. Len(Append(cb.list, h)) = Len(cb.list) + 1
  BY Fields, Appended
<1> HIDE DEF b
<1>5. CASE ~cb.on
  <2>1. Listed(b, d, c)
    BY <1>2, <1>3, <1>5 DEF Listed
  <2> QED
    BY <1>2, <1>5, <2>1 DEF b
<1>6. CASE cb.on /\ ~Refires(cb)
  <2>1. b.firing = cb.firing /\ (cb.firing \/ ~cb.memory) /\ b.index = cb.index
    BY <1>2, <1>6, Fields DEF Refires
  <2>2. Holds(cb, a, c) /\ EndOf(cb.list, a)
    BY <1>6, <2>1 DEF Listed, Holds
  <2>3. EndOf(b.list, d)
    BY <1>2, <1>6, <2>2, EndAppended, Fields
  <2> HIDE DEF d
  <2>4. /\ Len(b.list) = Len(cb.list) + 1 /\ Len(cb.list) \in Nat
        /\ Len(d) - Len(b.list) = Len(a) - Len(cb.list)
    <3>1. Len(b.list) = Len(cb.list) + 1 /\ Len(cb.list) \in Nat
      BY <1>2, <1>4, <1>6, Fields
    <3> QED
      BY <1>3, <3>1
  <2>5. Holds(b, d, c)
    <3>1. b.firing => b.length = Len(b.list) /\ b.index <= b.length
      BY SMTT(30), <1>2, <1>6, <2>1, <2>2, <2>4, Fields DEF Holds
    <3> QED
      BY <2>1, <2>2, <2>3, <2>4, <3>1 DEF Holds
  <2>6. Listed(b, d, c)
    BY <1>2, <1>3, <1>6, <2>1, <2>5 DEF Listed
  <2> QED
    BY <1>2, <1>4, <1>6, <2>6 DEF b, d
<1>7. CASE Refires(cb)
  <2>1. cb.on /\ ~cb.firing /\ cb.memory /\ cb.list = <<>> /\ Len(c) = Len(a)
    BY <1>7 DEF Refires, Listed
  <2>2. b.list = <<h>> /\ Len(b.list) = 1 /\ b.firing /\ b.length = 1 /\ b.index = 0
    <3>1. b.list = Append(<<>>, h)
      BY <1>2, <2>1
    <3>2. b.list = <<h>> /\ Len(b.list) = 1
      BY <3>1
    <3> QED
      BY <1>2, <1>7, <2>1, <3>2
  <2>3. Holds(b, d, c)
    BY <1>2, <1>3, <2>1, <2>2 DEF Holds
  <2>4. Listed(b, d, c)
    BY <1>2, <1>3, <2>1, <2>2, <2>3 DEF Listed
  <2> QED
    BY <1>2, <1>4, <1>7, <2>4 DEF b
<1> QED
  BY <1>5, <1>6, <1>7 DEF b

LEMMA ListFired ==
  ASSUME NEW cb \in Callbacks, NEW a \in Seq(Nat), NEW c \in Seq(Nat),
         Listed(cb, a, c), Fires(cb)
  PROVE  LET b == Fired(cb) IN
         /\ b \in Callbacks /\ Listed(b, a, c)
         /\ b.on /\ b.memory /\ b.firing /\ b.index = 0 /\ b.list = cb.list
<1> DEFINE b == Fired(cb)  m == Len(cb.list)
<1>1. /\ cb.on /\ ~cb.firing /\ ~cb.memory /\ cb.start = 0 /\ cb.index = 0
      /\ Holds(cb, a, c) /\ m \in Nat /\ cb.list \in Seq(Nat)
  BY Fields DEF Listed, Fires
<1>2. m = Len(cb.list)
  OBVIOUS
<1> HIDE DEF m
<1>3. b = [cb EXCEPT !.memory = TRUE, !.firing = TRUE, !.index = 0, !.start = 0,
                     !.length = m]
  BY <1>1, <1>2 DEF Fired
<1> HIDE DEF b
<1>4. b \in Callbacks
  BY <1>1, <1>3 DEF Callbacks
<1>5. /\ b.on = cb.on /\ b.memory /\ b.firing /\ b.index = 0 /\ b.list = cb.list
      /\ b.length = m /\ b.start = 0
  BY <1>3 DEF Callbacks
<1>6. Holds(b, a, c)
  BY <1>1, <1>2, <1>5 DEF Holds
<1>7. Listed(b, a, c)
  BY <1>1, <1>5, <1>6 DEF Listed
<1> QED
  BY <1>1, <1>4, <1>5, <1>7 DEF b

LEMMA ListEnds ==
  ASSUME NEW cb \in Callbacks, NEW a \in Seq(Nat), NEW c \in Seq(Nat),
         Listed(cb, a, c), ~cb.on \/ cb.memory, ~cb.on \/ cb.index >= cb.length
  PROVE  LET b == FireEnds(cb) IN
         /\ b \in Callbacks /\ Listed(b, a, c)
         /\ b.on = cb.on /\ b.memory = cb.memory /\ b.index = cb.index /\ ~b.firing
         /\ b.list = IF cb.on THEN <<>> ELSE cb.list
<1> DEFINE b == FireEnds(cb)
<1>1. /\ b \in Callbacks /\ b.on = cb.on /\ b.memory = cb.memory /\ b.index = cb.index
      /\ ~b.firing /\ b.start = cb.start /\ b.length = cb.length
      /\ b.list = IF cb.on THEN <<>> ELSE cb.list
  <2>1. CASE ~cb.on
    <3>1. b = [cb EXCEPT !.firing = FALSE]
      BY <2>1 DEF FireEnds, Callbacks
    <3> QED
      BY <2>1, <3>1 DEF Callbacks
  <2>2. CASE cb.on
    <3>1. b = [cb EXCEPT !.firing = FALSE, !.list = <<>>]
      BY <2>2 DEF FireEnds, Callbacks
    <3> QED
      BY <2>2, <3>1, NoList DEF Callbacks
  <2> QED
    BY <2>1, <2>2
<1> HIDE DEF b
<1>2. Listed(b, a, c)
  <2>1. CASE ~cb.on
    BY <1>1, <2>1 DEF Listed
  <2>2. CASE cb.on
    <3>1. cb.memory /\ cb.index >= cb.length
      BY <2>2
    <3>2. Len(c) = Len(a)
      <4>1. CASE cb.firing
        <5>1. Holds(cb, a, c)
          BY <2>2, <4>1 DEF Listed
        <5>2. cb.index = Len(cb.list) /\ Len(a) \in Nat
          BY <3>1, <4>1, <5>1, Fields DEF Holds
        <5>3. Len(a) - Len(cb.list) + cb.index = Len(a)
          BY <5>2, Fields
        <5> QED
          BY <5>1, <5>2, <5>3 DEF Holds
      <4>2. CASE ~cb.firing
        BY <2>2, <3>1, <4>2 DEF Listed
      <4> QED
        BY <4>1, <4>2
    <3> QED
      BY <1>1, <2>2, <3>1, <3>2 DEF Listed
  <2> QED
    BY <2>1, <2>2
<1> QED
  BY <1>1, <1>2 DEF b

LEMMA Place ==
  ASSUME NEW off \in Int, NEW i \in Nat, NEW n \in Nat, NEW m \in Nat,
         off >= -1, off = m - n, i < n, off + (i + 1) # 0
  PROVE  /\ off + i \in Nat /\ off + i # -1 /\ off + i < m
         /\ off + (i + 1) \in 1 .. m /\ off + (i + 1) = (off + i) + 1
OBVIOUS

LEMMA ListNext ==
  ASSUME NEW cb \in Callbacks, NEW a \in Seq(Nat), NEW c \in Seq(Nat),
         Listed(cb, a, c), cb.on, cb.memory, ~(cb.index >= cb.length)
  PROVE  LET h == cb.list[cb.index + 1]  b == [cb EXCEPT !.index = @ + 1] IN
         /\ b \in Callbacks /\ h \in Nat /\ cb.firing
         /\ b.on /\ b.memory /\ b.firing /\ b.list = cb.list
         /\ h = 0 => /\ Listed(b, a, c)
                     /\ Len(a) - Len(cb.list) = -1 /\ cb.index = 0 /\ c = <<>>
         /\ h # 0 => /\ Listed(b, a, Append(c, h))
                     /\ ~(Len(a) - Len(cb.list) = -1 /\ cb.index = 0)
<1> DEFINE h == cb.list[cb.index + 1]  b == [cb EXCEPT !.index = @ + 1]
           off == Len(a) - Len(cb.list)
<1>1. cb.firing /\ Holds(cb, a, c)
  BY DEF Listed
<1>2. /\ b.on = cb.on /\ b.firing = cb.firing /\ b.memory = cb.memory
      /\ b.list = cb.list /\ b.length = cb.length /\ b.start = cb.start
      /\ b.index = cb.index + 1
  BY DEF Callbacks
<1>3. b \in Callbacks
  <2>1. cb.index + 1 \in Nat
    BY Fields
  <2> QED
    BY <2>1 DEF Callbacks
<1>4. /\ Len(a) \in Nat /\ Len(c) \in Nat /\ off \in Int /\ off >= -1
      /\ off = Len(a) - Len(cb.list)
      /\ cb.index \in Nat /\ cb.index < Len(cb.list) /\ Len(cb.list) \in Nat
  BY <1>1, Fields DEF Holds, EndOf
<1>5. cb.index + 1 \in 1 .. Len(cb.list)
  BY <1>4
<1>6. h \in Nat
  BY <1>5, Fields
<1>7. h = IF off + (cb.index + 1) = 0 THEN 0 ELSE a[off + (cb.index + 1)]
  BY <1>1, <1>5 DEF Holds, EndOf
<1> HIDE DEF h, b, off
<1>8. CASE off + (cb.index + 1) = 0
  <2>1. off = -1 /\ cb.index = 0 /\ h = 0
    BY <1>4, <1>7, <1>8
  <2>2. Len(c) = 0 /\ c = <<>>
    BY <1>1, <2>1 DEF Holds, off
  <2>3. off + b.index = 0 /\ b.index <= b.length /\ b.length = Len(b.list)
    BY <1>1, <1>2, <1>4, <2>1 DEF Holds
  <2>4. Holds(b, a, c)
    BY <1>1, <1>2, <2>2, <2>3 DEF Holds, off
  <2>5. Listed(b, a, c)
    BY <1>1, <1>2, <2>4 DEF Listed
  <2> QED
    BY <1>1, <1>2, <1>3, <2>1, <2>2, <2>5 DEF h, b, off
<1>9. CASE off + (cb.index + 1) # 0
  <2>1. /\ off + cb.index \in Nat /\ off + cb.index # -1
        /\ off + cb.index < Len(a) /\ off + (cb.index + 1) \in 1 .. Len(a)
        /\ off + (cb.index + 1) = (off + cb.index) + 1
    BY <1>4, <1>9, Place
  <2>2. h # 0 /\ h = a[off + (cb.index + 1)]
    BY <1>7, <1>9, <2>1 DEF Listed, BeginningOf
  <2>3. Len(c) = off + cb.index
    BY <1>1, <2>1 DEF Holds, off
  <2>4. Len(c) < Len(a) /\ h = a[Len(c) + 1]
    BY <1>4, <2>1, <2>2, <2>3
  <2>5. BeginningOf(Append(c, h), a)
    BY <2>4, BeginningGrows DEF Listed
  <2>6. /\ Len(Append(c, h)) = off + b.index /\ off + b.index # -1
        /\ b.index <= b.length /\ b.length = Len(b.list)
    <3>1. Len(Append(c, h)) = Len(c) + 1
      BY <1>6
    <3>2. b.index = cb.index + 1
      BY <1>2
    <3>3. Len(Append(c, h)) = off + b.index /\ off + b.index # -1
      BY <1>4, <2>1, <2>3, <3>1, <3>2
    <3>4. cb.length = Len(cb.list)
      BY <1>1 DEF Holds
    <3>5. b.length = Len(b.list)
      BY <1>2, <3>4
    <3>6. b.index <= b.length
      BY <1>2, <1>4, <3>2, <3>4
    <3> QED
      BY <3>3, <3>5, <3>6
  <2>7. Holds(b, a, Append(c, h))
    BY <1>1, <1>2, <2>6 DEF Holds, off
  <2>8. Listed(b, a, Append(c, h))
    BY <1>1, <1>2, <2>5, <2>7 DEF Listed
  <2>9. ~(off = -1 /\ cb.index = 0)
    BY <1>9
  <2> QED
    BY <1>1, <1>2, <1>3, <1>6, <2>2, <2>8, <2>9 DEF h, b, off
<1> QED
  BY <1>8, <1>9

LEMMA ListDisabled ==
  ASSUME NEW cb \in Callbacks, NEW a \in Seq(Nat), NEW c \in Seq(Nat), Listed(cb, a, c)
  PROVE  LET b == Disabled(cb) IN
         /\ b \in Callbacks /\ Listed(b, a, c)
         /\ ~b.on /\ ~b.memory /\ b.list = <<>> /\ b.firing = cb.firing
<1> DEFINE b == Disabled(cb)
<1>1. /\ b \in Callbacks /\ ~b.on /\ ~b.memory /\ b.list = <<>> /\ b.firing = cb.firing
      /\ b.start = cb.start
  BY NoList DEF Disabled, Callbacks
<1> HIDE DEF b
<1>2. Listed(b, a, c)
  BY <1>1 DEF Listed
<1> QED
  BY <1>1, <1>2 DEF b

-----------------------------------------------------------------------------
(***************************************************************************)
(* The frames of a stack.                                                  *)
(***************************************************************************)
LEMMA EmptyStack == <<>> \in Seq(Frame) /\ Frames(<<>>) = {}
BY DEF Frames

LEMMA NoFrames ==
  ASSUME NEW s \in Seq(Frame)
  PROVE  <<>> \in Seq(Frame) /\ Frames(<<>>) = {} /\ <<>> \o s = s
BY DEF Frames

LEMMA JoinedFrames ==
  ASSUME NEW s \in Seq(Frame), NEW t \in Seq(Frame)
  PROVE  s \o t \in Seq(Frame) /\ Frames(s \o t) = Frames(s) \cup Frames(t)
<1> DEFINE u == s \o t
<1>1. /\ Len(s) \in Nat /\ Len(t) \in Nat /\ u \in Seq(Frame) /\ Len(u) = Len(s) + Len(t)
      /\ \A i \in 1 .. Len(s) : u[i] = s[i]
      /\ \A i \in 1 .. Len(t) : u[Len(s) + i] = t[i]
  OBVIOUS
<1> HIDE DEF u
<1>2. ASSUME NEW i \in 1 .. Len(u) PROVE u[i] \in Frames(s) \cup Frames(t)
  <2>1. CASE i <= Len(s)
    BY <1>1, <2>1 DEF Frames
  <2>2. CASE i > Len(s)
    <3>1. i - Len(s) \in 1 .. Len(t) /\ i = Len(s) + (i - Len(s))
      BY <1>1, <2>2
    <3>2. u[i] = t[i - Len(s)]
      BY <1>1, <3>1
    <3> QED
      BY <3>1, <3>2 DEF Frames
  <2> QED
    BY <1>1, <2>1, <2>2
<1>3. ASSUME NEW i \in 1 .. Len(s) PROVE s[i] \in Frames(u)
  BY <1>1 DEF Frames
<1>4. ASSUME NEW i \in 1 .. Len(t) PROVE t[i] \in Frames(u)
  <2>1. Len(s) + i \in 1 .. Len(u)
    BY <1>1
  <2> QED
    BY <1>1, <2>1 DEF Frames
<1>5. Frames(u) \subseteq Frames(s) \cup Frames(t)
  BY <1>2 DEF Frames
<1>6. Frames(s) \subseteq Frames(u) /\ Frames(t) \subseteq Frames(u)
  BY <1>3, <1>4 DEF Frames
<1> QED
  BY <1>1, <1>5, <1>6 DEF u

LEMMA OneFrame ==
  ASSUME NEW f \in Frame
  PROVE  <<f>> \in Seq(Frame) /\ Frames(<<f>>) = {f}
BY DEF Frames

LEMMA PushedFrame ==
  ASSUME NEW f \in Frame, NEW s \in Seq(Frame)
  PROVE  /\ <<f>> \o s \in Seq(Frame) /\ Frames(<<f>> \o s) = {f} \cup Frames(s)
         /\ <<f>> \o s # <<>> /\ Head(<<f>> \o s) = f /\ Tail(<<f>> \o s) = s
<1>1. <<f>> \o s \in Seq(Frame) /\ Frames(<<f>> \o s) = {f} \cup Frames(s)
  BY ZenonT(30), OneFrame, JoinedFrames
<1>2. <<f>> \o s # <<>> /\ Head(<<f>> \o s) = f /\ Tail(<<f>> \o s) = s
  OBVIOUS
<1> QED
  BY <1>1, <1>2

LEMMA FrameBefore ==
  ASSUME NEW p \in Seq(Frame), NEW f \in Frame, NEW s \in Seq(Frame)
  PROVE  /\ (p \o <<f>>) \o s \in Seq(Frame)
         /\ Frames((p \o <<f>>) \o s) = (Frames(p) \cup {f}) \cup Frames(s)
<1>1. p \o <<f>> \in Seq(Frame) /\ Frames(p \o <<f>>) = Frames(p) \cup {f}
  BY ZenonT(30), OneFrame, JoinedFrames
<1> QED
  BY <1>1, JoinedFrames

LEMMA TopFrame ==
  ASSUME NEW s \in Seq(Frame), s # <<>>
  PROVE  /\ Head(s) \in Frame /\ Tail(s) \in Seq(Frame)
         /\ Frames(s) = {Head(s)} \cup Frames(Tail(s))
         /\ Head(s) \in Frames(s)
<1>1. Head(s) \in Frame /\ Tail(s) \in Seq(Frame) /\ s = <<Head(s)>> \o Tail(s)
  OBVIOUS
<1> QED
  BY ZenonT(30), <1>1, PushedFrame

LEMMA FrameTypes ==
  ASSUME NEW r \in Request
  PROVE  /\ \A why \in Hook \cup {"handler", "page"} : User(why, r) \in Frame
         /\ \A l \in ListName : Fire(r, l) \in Frame
         /\ \A at \in {"start", "install", "send"} : Send(r, at) \in Frame
         /\ \A at \in {"settle", "status", "complete", "count"}, ok \in BOOLEAN :
              Done(r, at, ok) \in Frame
BY DEF Frame, User, Fire, Send, Done

LEMMA CallsFrames ==
  ASSUME NEW r \in Request, NEW why \in Hook
  PROVE  Calls(why, r) \in Seq(Frame) /\ \A f \in Frames(Calls(why, r)) : f = User(why, r)
<1>1. User(why, r) \in Frame
  BY FrameTypes
<1> QED
  BY <1>1, OneFrame, NoFrames DEF Calls

LEMMA RunningFrame ==
  ASSUME Types, NEW k, Running(k)
  PROVE  /\ stack # <<>> /\ Me \in Frame /\ Me.k = k /\ Me.req \in Request
         /\ Tail(stack) \in Seq(Frame) /\ Frames(stack) = {Me} \cup Frames(Tail(stack))
         /\ Me \in Frames(stack)
<1>1. stack # <<>> /\ Me.k = k /\ stack \in Seq(Frame)
  BY DEF Running, Types, Me
<1>2. /\ Me \in Frame /\ Tail(stack) \in Seq(Frame)
      /\ Frames(stack) = {Me} \cup Frames(Tail(stack)) /\ Me \in Frames(stack)
  BY <1>1, TopFrame DEF Me
<1>3. Me.req \in Request
  BY <1>2 DEF Frame
<1> QED
  BY <1>1, <1>2, <1>3

-----------------------------------------------------------------------------
(***************************************************************************)
(* CalledInOrder is preserved by every step: the lists.                    *)
(***************************************************************************)
\* A step leaves the list alone, or adds a handler to it.
Grows(r, l) ==
  /\ called'[r][l] = called[r][l]
  /\ \/ callbacks'[r][l] = callbacks[r][l] /\ asked'[r][l] = asked[r][l]
     \/ \E h \in Nat \ {0} : /\ callbacks'[r][l] = Added(callbacks[r][l], h)
                             /\ asked'[r][l] = Append(asked[r][l], h)

\* The loops that the step puts on the stack are of lists that were fired.
NewLoopsFired ==
  \A f \in Frames(stack') : f.k = "fire" =>
    f \in Frames(stack) \/ callbacks[f.req][f.list].memory

LEMMA ListTypes ==
  ASSUME Types, NEW r \in Request, NEW l \in ListName
  PROVE  callbacks[r][l] \in Callbacks /\ asked[r][l] \in Seq(Nat) /\ called[r][l] \in Seq(Nat)
BY DEF Types

LEMMA OtherList ==
  ASSUME NEW l \in {"done", "fail"}
  PROVE  Other(l) \in {"done", "fail"} /\ Other(l) # l /\ Other(Other(l)) = l
         /\ Other(l) \in ListName /\ l \in ListName
BY DEF Other, ListName

LEMMA Shift ==
  ASSUME NEW m \in Nat, NEW n \in Nat, NEW p \in Nat, NEW q \in Nat
  PROVE  /\ p = m + 1 /\ q = n + 1 => p - q = m - n
         /\ p - q = m - n => (m <= n => p <= q) /\ (m = n + 1 => p = q + 1)
OBVIOUS

LEMMA FrameIn ==
  ASSUME NEW s \in Seq(Frame), NEW f \in Frames(s)
  PROVE  f \in Frame /\ f.req \in Request /\ (f.k = "fire" => f.list \in ListName)
<1>1. f \in Frame
  BY DEF Frames
<1> QED
  BY <1>1 DEF Frame

LEMMA GrowsFacts ==
  ASSUME ListInv, NEW r \in Request, NEW l \in ListName, Grows(r, l)
  PROVE  LET cb == callbacks[r][l]  b == callbacks'[r][l]
             a == asked[r][l]  d == asked'[r][l] IN
         /\ b \in Callbacks /\ d \in Seq(Nat) /\ Listed(b, d, called'[r][l])
         /\ b.on = cb.on /\ b.memory = cb.memory
         /\ b.firing => cb.firing \/ Refires(cb)
         /\ cb.firing => b.firing
         /\ cb.on => Len(b.list) - Len(d) = Len(cb.list) - Len(a)
         /\ cb.index = 0 => b.index = 0
<1> DEFINE cb == callbacks[r][l]  b == callbacks'[r][l]  c == called[r][l]
           a == asked[r][l]  d == asked'[r][l]
<1>1. cb \in Callbacks /\ a \in Seq(Nat) /\ c \in Seq(Nat) /\ Listed(cb, a, c)
  BY ListTypes DEF ListInv
<1>2. called'[r][l] = c
  BY DEF Grows
<1> HIDE DEF cb, b, c, a, d
<1>3. CASE b = cb /\ d = a
  BY <1>1, <1>2, <1>3, Fields DEF cb, b, c, a, d
<1>4. ASSUME NEW h \in Nat \ {0}, b = Added(cb, h), d = Append(a, h)
      PROVE  /\ b \in Callbacks /\ d \in Seq(Nat) /\ Listed(b, d, c)
             /\ b.on = cb.on /\ b.memory = cb.memory
             /\ b.firing => cb.firing \/ Refires(cb)
             /\ cb.firing => b.firing
             /\ cb.on => Len(b.list) - Len(d) = Len(cb.list) - Len(a)
             /\ cb.index = 0 => b.index = 0
  <2>1. /\ b \in Callbacks /\ Listed(b, d, c)
        /\ b.on = cb.on /\ b.memory = cb.memory
        /\ b.firing = (cb.firing \/ Refires(cb))
        /\ cb.on => Len(b.list) = Len(cb.list) + 1
        /\ cb.index = 0 => b.index = 0
    BY <1>1, <1>4, ListAdded
  <2>2. /\ d \in Seq(Nat) /\ Len(d) = Len(a) + 1 /\ Len(a) \in Nat
        /\ Len(cb.list) \in Nat
    BY <1>1, <1>4, Appended, Fields
  <2>3. Len(b.list) \in Nat /\ Len(d) \in Nat
    BY <2>1, <2>2, Fields
  <2>4. cb.on => Len(b.list) - Len(d) = Len(cb.list) - Len(a)
    BY <2>1, <2>2, <2>3, Shift
  <2> QED
    BY <2>1, <2>2, <2>4
<1>5. \/ b = cb /\ d = a
      \/ \E h \in Nat \ {0} : b = Added(cb, h) /\ d = Append(a, h)
  BY DEF Grows, cb, b, a, d
<1> QED
  BY <1>2, <1>3, <1>4, <1>5 DEF cb, b, c, a, d

\* OneOutcome of a list that is not fired nor disabled by the step.
LEMMA ListsGrow ==
  ASSUME ListInv, Types', NewLoopsFired,
         \A r \in Request, l \in ListName : Grows(r, l)
  PROVE  ListInv'
<1>1. \A r \in Request, l \in ListName :
        Listed(callbacks[r][l], asked[r][l], called[r][l])'
  BY GrowsFacts
<1>2. LoopsFired'
  <2> SUFFICES ASSUME NEW f \in Frames(stack'), f.k = "fire"
               PROVE  LET b == callbacks'[f.req][f.list] IN ~b.on \/ b.memory
    BY DEF LoopsFired
  <2>1. f.req \in Request /\ f.list \in ListName
    BY FrameIn DEF Types
  <2>2. ~callbacks[f.req][f.list].on \/ callbacks[f.req][f.list].memory
    BY DEF NewLoopsFired, ListInv, LoopsFired
  <2> QED
    BY <2>1, <2>2, GrowsFacts
<1>3. ASSUME NEW r \in Request PROVE OneOutcome(r)'
  <2>1. /\ callbacks'[r]["complete"].on
        /\ Len(callbacks'[r]["complete"].list) <= Len(asked'[r]["complete"])
    <3>1. "complete" \in ListName
      BY DEF ListName
    <3>2. /\ callbacks[r]["complete"].on
          /\ Len(callbacks[r]["complete"].list) <= Len(asked[r]["complete"])
      BY DEF ListInv, OneOutcome
    <3>3. /\ Len(callbacks[r]["complete"].list) \in Nat
          /\ Len(asked[r]["complete"]) \in Nat
      BY <3>1, ListTypes, Fields DEF ListInv
    <3>4. /\ callbacks'[r]["complete"].on = callbacks[r]["complete"].on
          /\ Len(callbacks'[r]["complete"].list) - Len(asked'[r]["complete"])
               = Len(callbacks[r]["complete"].list) - Len(asked[r]["complete"])
          /\ callbacks'[r]["complete"] \in Callbacks /\ asked'[r]["complete"] \in Seq(Nat)
      BY <3>1, <3>2, GrowsFacts
    <3>5. /\ Len(callbacks'[r]["complete"].list) \in Nat
          /\ Len(asked'[r]["complete"]) \in Nat
      BY <3>4, Fields
    <3> DEFINE m == Len(callbacks[r]["complete"].list)  n == Len(asked[r]["complete"])
               p == Len(callbacks'[r]["complete"].list)  q == Len(asked'[r]["complete"])
    <3>6. m \in Nat /\ n \in Nat /\ p \in Nat /\ q \in Nat /\ p - q = m - n /\ m <= n
      BY <3>2, <3>3, <3>4, <3>5
    <3> HIDE DEF m, n, p, q
    <3>7. p <= q
      BY <3>6, Shift
    <3> QED
      BY <3>2, <3>4, <3>7 DEF p, q
  <2>2. ASSUME NEW l \in {"done", "fail"}
        PROVE  /\ ~callbacks'[r][l].on => called'[r][l] = <<>>
               /\ callbacks'[r][l].on /\ callbacks'[r][Other(l)].on =>
                    /\ callbacks'[r][l].index = 0
                    /\ Len(callbacks'[r][l].list) = Len(asked'[r][l]) + 1
    <3>1. l \in ListName /\ Other(l) \in ListName
      BY OtherList
    <3>2. callbacks[r][l] \in Callbacks /\ asked[r][l] \in Seq(Nat)
      BY <3>1, ListTypes DEF ListInv
    <3>3. called'[r][l] = called[r][l]
      BY <3>1 DEF Grows
    <3>4. callbacks'[r][Other(l)].on = callbacks[r][Other(l)].on
      BY <3>1, GrowsFacts
    <3>5. /\ callbacks'[r][l].on = callbacks[r][l].on
          /\ callbacks'[r][l] \in Callbacks /\ asked'[r][l] \in Seq(Nat)
          /\ callbacks[r][l].on => Len(callbacks'[r][l].list) - Len(asked'[r][l])
                                     = Len(callbacks[r][l].list) - Len(asked[r][l])
          /\ callbacks[r][l].index = 0 => callbacks'[r][l].index = 0
      BY <3>1, GrowsFacts
    <3>6. /\ Len(callbacks'[r][l].list) \in Nat /\ Len(asked'[r][l]) \in Nat
          /\ Len(callbacks[r][l].list) \in Nat /\ Len(asked[r][l]) \in Nat
      BY <3>2, <3>5, Fields
    <3>7. /\ ~callbacks[r][l].on => called[r][l] = <<>>
          /\ callbacks[r][l].on /\ callbacks[r][Other(l)].on =>
               callbacks[r][l].index = 0 /\ Len(callbacks[r][l].list) = Len(asked[r][l]) + 1
      BY DEF ListInv, OneOutcome
    <3>8. ASSUME callbacks'[r][l].on /\ callbacks'[r][Other(l)].on
          PROVE  /\ callbacks'[r][l].index = 0
                 /\ Len(callbacks'[r][l].list) = Len(asked'[r][l]) + 1
      <4> DEFINE m == Len(callbacks[r][l].list)  n == Len(asked[r][l])
                 p == Len(callbacks'[r][l].list)  q == Len(asked'[r][l])
      <4>1. callbacks[r][l].on /\ callbacks[r][Other(l)].on
        BY <3>4, <3>5, <3>8
      <4>2. m \in Nat /\ n \in Nat /\ p \in Nat /\ q \in Nat
        BY <3>6
      <4>3. p - q = m - n
        BY <4>1, <3>5
      <4>4. m = n + 1 /\ callbacks'[r][l].index = 0
        BY <4>1, <3>5, <3>7
      <4> HIDE DEF m, n, p, q
      <4>5. p = q + 1
        BY <4>2, <4>3, <4>4, Shift
      <4> QED
        BY <4>4, <4>5 DEF p, q
    <3> QED
      BY <3>3, <3>5, <3>7, <3>8
  <2> QED
    BY <2>1, <2>2 DEF OneOutcome
<1> QED
  BY <1>1, <1>2, <1>3 DEF ListInv

\* A list that is fired for the first time.
LEMMA ListsFire ==
  ASSUME ListInv, Types', NEW r \in Request, NEW l \in ListName,
         Fires(callbacks[r][l]),
         callbacks' = [callbacks EXCEPT ![r][l] = Fired(@)], UNCHANGED <<asked, called>>,
         \A f \in Frames(stack') : f.k = "fire" => f \in Frames(stack) \/ f = Fire(r, l)
  PROVE  ListInv'
<1> DEFINE cb == callbacks[r][l]  b == Fired(cb)
<1>1. cb \in Callbacks /\ asked[r][l] \in Seq(Nat) /\ called[r][l] \in Seq(Nat)
  BY ListTypes DEF ListInv
<1>2. /\ Listed(b, asked[r][l], called[r][l])
      /\ cb.on /\ b.on /\ b.memory /\ b.firing /\ b.index = 0 /\ b.list = cb.list
  BY <1>1, ListFired DEF ListInv, Fires
<1>3. \A q \in Request, m \in ListName :
        callbacks'[q][m] = IF q = r /\ m = l THEN b ELSE callbacks[q][m]
  BY DEF ListInv, Types
<1> HIDE DEF b, cb
<1>4. \A q \in Request, m \in ListName : Listed(callbacks[q][m], asked[q][m], called[q][m])'
  BY <1>2, <1>3 DEF ListInv
<1>5. LoopsFired'
  <2> SUFFICES ASSUME NEW f \in Frames(stack'), f.k = "fire"
               PROVE  LET d == callbacks'[f.req][f.list] IN ~d.on \/ d.memory
    BY DEF LoopsFired
  <2>1. f.req \in Request /\ f.list \in ListName
    BY FrameIn DEF Types
  <2>2. CASE f.req = r /\ f.list = l
    BY <1>2, <1>3, <2>1, <2>2
  <2>3. CASE ~(f.req = r /\ f.list = l)
    <3>1. f \in Frames(stack)
      BY <2>3 DEF Fire
    <3> QED
      BY <1>3, <2>1, <2>3, <3>1 DEF ListInv, LoopsFired
  <2> QED
    BY <2>2, <2>3
<1>6. \A q \in Request : OneOutcome(q)'
  <2> SUFFICES ASSUME NEW q \in Request PROVE OneOutcome(q)'
    OBVIOUS
  <2>1. \A m \in ListName : /\ callbacks'[q][m].on = callbacks[q][m].on
                            /\ callbacks'[q][m].list = callbacks[q][m].list
                            /\ callbacks[q][m].index = 0 => callbacks'[q][m].index = 0
    <3>1. b \in Callbacks
      BY <1>3, ListTypes DEF Types
    <3>2. cb.on = b.on /\ cb = callbacks[r][l]
      BY <1>1, <1>2, <3>1, Fields DEF cb
    <3> SUFFICES ASSUME NEW m \in ListName
                 PROVE  /\ callbacks'[q][m].on = callbacks[q][m].on
                        /\ callbacks'[q][m].list = callbacks[q][m].list
                        /\ callbacks[q][m].index = 0 => callbacks'[q][m].index = 0
      OBVIOUS
    <3>3. CASE q = r /\ m = l
      BY <1>2, <1>3, <3>2, <3>3
    <3>4. CASE ~(q = r /\ m = l)
      BY <1>3, <3>4
    <3> QED
      BY <3>3, <3>4
  <2>2. "complete" \in ListName /\ OneOutcome(q)
    BY DEF ListInv, ListName
  <2> QED
    BY <2>1, <2>2, OtherList DEF OneOutcome
<1> QED
  BY <1>4, <1>5, <1>6 DEF ListInv

LEMMA Loops == ListInv /\ FireStep => ListInv'
<1> SUFFICES ASSUME ListInv, FireStep PROVE ListInv'
  OBVIOUS
<1> DEFINE r == Me.req  l == Me.list  cb == callbacks[r][l]
           a == asked[r][l]  c == called[r][l]
<1>1. /\ Me \in Frame /\ Me.k = "fire" /\ Me \in Frames(stack)
      /\ Tail(stack) \in Seq(Frame) /\ Frames(stack) = {Me} \cup Frames(Tail(stack))
  BY RunningFrame DEF FireStep, ListInv
<1>2. r \in Request /\ l \in ListName
  BY <1>1, FrameIn DEF ListInv, Types
<1>3. /\ cb \in Callbacks /\ a \in Seq(Nat) /\ c \in Seq(Nat)
      /\ Listed(cb, a, c) /\ (~cb.on \/ cb.memory)
  BY <1>1, <1>2, ListTypes DEF ListInv, LoopsFired
<1>4. UNCHANGED <<option, state, counted, transport, xhr, timer, statusCode, active, added,
                  asked, dones, calls, threw>>
  BY DEF FireStep
<1>5. CASE ~cb.on \/ cb.index >= cb.length
  <2> DEFINE b == FireEnds(cb)
  <2>1. /\ callbacks' = [callbacks EXCEPT ![r][l] = b]
        /\ stack' = <<>> \o Tail(stack) /\ UNCHANGED <<settled, called>>
    BY <1>5 DEF FireStep, Goes
  <2>2. /\ b \in Callbacks /\ Listed(b, a, c)
        /\ b.on = cb.on /\ b.memory = cb.memory /\ b.index = cb.index /\ ~b.firing
        /\ b.list = IF cb.on THEN <<>> ELSE cb.list
    BY <1>3, <1>5, ListEnds
  <2>3. \A q \in Request, m \in ListName :
          callbacks'[q][m] = IF q = r /\ m = l THEN b ELSE callbacks[q][m]
    BY <1>2, <2>1 DEF ListInv, Types
  <2>4. stack' = Tail(stack) /\ Frames(stack') \subseteq Frames(stack)
    BY <1>1, <2>1, NoFrames
  <2> HIDE DEF b
  <2>5. Types'
    <3>1. callbacks' \in [Request -> [ListName -> Callbacks]]
      BY <1>2, <2>1, <2>2 DEF ListInv, Types
    <3> QED
      BY <1>1, <1>4, <2>1, <2>4, <3>1 DEF ListInv, Types
  <2>6. LoopsFired'
    <3> SUFFICES ASSUME NEW f \in Frames(stack'), f.k = "fire"
                 PROVE  LET d == callbacks'[f.req][f.list] IN ~d.on \/ d.memory
      BY DEF LoopsFired
    <3>1. f.req \in Request /\ f.list \in ListName
      BY <2>5, FrameIn DEF Types
    <3> QED
      BY <1>3, <2>2, <2>3, <2>4, <3>1 DEF ListInv, LoopsFired
  <2>7. \A q \in Request, m \in ListName : Listed(callbacks[q][m], asked[q][m], called[q][m])'
    BY <1>4, <2>1, <2>2, <2>3 DEF ListInv
  <2>8. ASSUME NEW q \in Request PROVE OneOutcome(q)'
    <3>1. OneOutcome(q) /\ "complete" \in ListName
      BY DEF ListInv, ListName
    <3>2. CASE q # r
      BY <1>4, <2>1, <2>3, <3>1, <3>2, OtherList DEF OneOutcome
    <3>3. CASE q = r
      <4>1. cb.on => Len(b.list) = 0 /\ Len(a) \in Nat
        BY <1>3, <2>2
      <4>2. /\ callbacks'[r]["complete"].on
            /\ Len(callbacks'[r]["complete"].list) <= Len(asked'[r]["complete"])
        BY SMTT(30), <1>3, <1>4, <2>2, <2>3, <3>1, <3>3, <4>1 DEF OneOutcome
      <4>3. ASSUME NEW m \in {"done", "fail"}
            PROVE  /\ ~callbacks'[r][m].on => called'[r][m] = <<>>
                   /\ callbacks'[r][m].on /\ callbacks'[r][Other(m)].on =>
                        /\ callbacks'[r][m].index = 0
                        /\ Len(callbacks'[r][m].list) = Len(asked'[r][m]) + 1
        <5>1. m \in ListName /\ Other(m) \in ListName /\ Other(m) # m
              /\ Other(m) \in {"done", "fail"} /\ Other(Other(m)) = m
          BY OtherList
        <5>2. /\ callbacks'[r][m].on = callbacks[r][m].on
              /\ callbacks'[r][Other(m)].on = callbacks[r][Other(m)].on
          BY <1>2, <2>2, <2>3, <5>1
        <5>3. /\ ~callbacks[r][m].on => called[r][m] = <<>>
              /\ callbacks[r][m].on /\ callbacks[r][Other(m)].on =>
                   callbacks[r][m].index = 0 /\ Len(callbacks[r][m].list) = Len(asked[r][m]) + 1
          BY <1>2, <3>1, <3>3 DEF OneOutcome
        <5>4. CASE m # l
          BY <1>2, <1>4, <2>1, <2>3, <5>1, <5>2, <5>3, <5>4
        <5>5. CASE m = l
          <6>1. ~(cb.on /\ callbacks[r][Other(l)].on)
            <7> SUFFICES ASSUME cb.on, callbacks[r][Other(l)].on PROVE FALSE
              OBVIOUS
            <7>1. cb.index = 0 /\ Len(cb.list) = Len(a) + 1
              BY <5>3, <5>5
            <7>2. cb.index >= cb.length /\ cb.memory
              BY <1>3, <1>5
            <7>3. Len(a) \in Nat /\ Len(cb.list) \in Nat
              BY <1>3, Fields
            <7>4. CASE cb.firing
              BY <1>3, <7>1, <7>2, <7>3, <7>4 DEF Listed, Holds
            <7>5. CASE ~cb.firing
              <8>1. Len(cb.list) = 0
                BY <1>3, <7>2, <7>5, NoList DEF Listed
              <8> QED
                BY <7>1, <7>3, <8>1
            <7> QED
              BY <7>4, <7>5
          <6> QED
            BY <1>2, <2>1, <5>2, <5>3, <5>5, <6>1
        <5> QED
          BY <5>4, <5>5
      <4> QED
        BY <3>3, <4>2, <4>3 DEF OneOutcome
    <3> QED
      BY <3>2, <3>3
  <2> QED
    BY <2>5, <2>6, <2>7, <2>8 DEF ListInv
<1>6. CASE ~(~cb.on \/ cb.index >= cb.length)
  <2> DEFINE h == cb.list[cb.index + 1]  b == [cb EXCEPT !.index = @ + 1]
             onward == [callbacks EXCEPT ![r][l].index = @ + 1]
  <2>1. IF h = 0
        THEN /\ settled' = [settled EXCEPT ![r] = l]
             /\ callbacks' = [onward EXCEPT ![r][Other(l)] = Disabled(@)]
             /\ UNCHANGED <<called, stack>>
        ELSE /\ callbacks' = onward
             /\ called' = [called EXCEPT ![r][l] = Append(@, h)]
             /\ stack' = <<User("handler", r)>> \o stack
             /\ UNCHANGED settled
    BY <1>6 DEF FireStep, Other
  <2>2. cb.on /\ cb.memory /\ ~(cb.index >= cb.length)
    BY <1>3, <1>6
  <2>3. /\ b \in Callbacks /\ h \in Nat /\ cb.firing
        /\ b.on /\ b.memory /\ b.firing /\ b.list = cb.list
        /\ h = 0 => /\ Listed(b, a, c)
                    /\ Len(a) - Len(cb.list) = -1 /\ cb.index = 0 /\ c = <<>>
        /\ h # 0 => /\ Listed(b, a, Append(c, h))
                    /\ ~(Len(a) - Len(cb.list) = -1 /\ cb.index = 0)
    BY <1>3, <2>2, ListNext
  <2>4. /\ onward \in [Request -> [ListName -> Callbacks]]
        /\ \A q \in Request, m \in ListName :
             onward[q][m] = IF q = r /\ m = l THEN b ELSE callbacks[q][m]
    <3>1. onward = [callbacks EXCEPT ![r][l] = b]
      BY <1>2 DEF ListInv, Types
    <3> HIDE DEF b, onward
    <3> QED
      BY <1>2, <2>3, <3>1 DEF ListInv, Types
  <2>5. Len(cb.list) \in Nat /\ Len(a) \in Nat /\ OneOutcome(r) /\ "complete" \in ListName
    BY <1>2, <1>3, Fields DEF ListInv, ListName
  <2> HIDE DEF b, onward, h
  <2>6. CASE h = 0
    <3>1. /\ settled' = [settled EXCEPT ![r] = l] /\ UNCHANGED <<called, stack>>
          /\ callbacks' = [onward EXCEPT ![r][Other(l)] = Disabled(@)]
      BY <2>1, <2>6
    <3>2. l \in {"done", "fail"}
      <4>1. l # "complete"
        BY <2>3, <2>5, <2>6 DEF OneOutcome
      <4> QED
        BY <1>2, <4>1 DEF ListName
    <3>3. /\ Other(l) \in ListName /\ Other(l) # l /\ Other(l) \in {"done", "fail"}
          /\ Other(Other(l)) = l
      BY <3>2, OtherList
    <3> DEFINE e == callbacks[r][Other(l)]  d == Disabled(e)
    <3>4. /\ d \in Callbacks /\ Listed(d, asked[r][Other(l)], called[r][Other(l)])
          /\ ~d.on /\ ~d.memory
      BY <1>2, <3>3, ListTypes, ListDisabled DEF ListInv
    <3>5. \A q \in Request, m \in ListName :
            callbacks'[q][m] = IF q = r /\ m = l THEN b
                               ELSE IF q = r /\ m = Other(l) THEN d ELSE callbacks[q][m]
      BY <1>2, <2>4, <3>1, <3>3
    <3>6. callbacks' \in [Request -> [ListName -> Callbacks]]
      BY <1>2, <2>4, <3>1, <3>3, <3>4
    <3> HIDE DEF d, e
    <3>7. Types'
      BY <1>2, <1>4, <3>1, <3>2, <3>6 DEF ListInv, Types
    <3>8. LoopsFired'
      <4> SUFFICES ASSUME NEW f \in Frames(stack'), f.k = "fire"
                   PROVE  LET g == callbacks'[f.req][f.list] IN ~g.on \/ g.memory
        BY DEF LoopsFired
      <4>1. f.req \in Request /\ f.list \in ListName /\ f \in Frames(stack)
        BY <3>1, <3>7, FrameIn DEF Types
      <4> QED
        BY <2>3, <3>4, <3>5, <4>1 DEF ListInv, LoopsFired
    <3>9. \A q \in Request, m \in ListName : Listed(callbacks[q][m], asked[q][m], called[q][m])'
      BY <1>4, <2>3, <2>6, <3>1, <3>4, <3>5 DEF ListInv
    <3>10. called[r][Other(l)] = <<>>
      <4>1. CASE e.on
        <5>1. e.index = 0 /\ Len(e.list) = Len(asked[r][Other(l)]) + 1
          BY <2>2, <2>5, <3>3, <4>1 DEF OneOutcome, e
        <5>2. /\ e \in Callbacks /\ asked[r][Other(l)] \in Seq(Nat)
              /\ called[r][Other(l)] \in Seq(Nat)
              /\ Listed(e, asked[r][Other(l)], called[r][Other(l)])
          BY <1>2, <3>3, ListTypes DEF ListInv, e
        <5>3. Len(asked[r][Other(l)]) \in Nat /\ e.list # <<>>
          BY <5>1, <5>2, NoList
        <5>4. Holds(e, asked[r][Other(l)], called[r][Other(l)])
          BY <4>1, <5>2, <5>3 DEF Listed
        <5>5. Len(called[r][Other(l)]) = 0
          BY <5>1, <5>3, <5>4 DEF Holds
        <5> QED
          BY <5>2, <5>5
      <4>2. CASE ~e.on
        BY <2>5, <3>3, <4>2 DEF OneOutcome, e
      <4> QED
        BY <4>1, <4>2
    <3>11. ASSUME NEW q \in Request PROVE OneOutcome(q)'
      <4>1. OneOutcome(q)
        BY DEF ListInv
      <4>2. CASE q # r
        BY SMTT(30), <1>4, <2>5, <3>1, <3>5, <4>1, <4>2, OtherList DEF OneOutcome
      <4>3. CASE q = r
        <5>1. "complete" # l /\ "complete" # Other(l)
          BY <3>2, <3>3
        <5>2. callbacks'[r]["complete"] = callbacks[r]["complete"]
          BY <1>2, <2>5, <3>5, <5>1
        <5>3. \A m \in {"done", "fail"} : m = l \/ m = Other(l)
          BY <3>2 DEF Other
        <5>4. callbacks'[r][l] = b /\ callbacks'[r][Other(l)] = d
          BY <1>2, <3>3, <3>5
        <5> QED
          BY <1>4, <2>3, <3>1, <3>3, <3>4, <3>10, <4>1, <4>3, <5>2, <5>3, <5>4 DEF OneOutcome
      <4> QED
        BY <4>2, <4>3
    <3> QED
      BY <3>7, <3>8, <3>9, <3>11 DEF ListInv
  <2>7. CASE h # 0
    <3>1. /\ callbacks' = onward /\ called' = [called EXCEPT ![r][l] = Append(c, h)]
          /\ stack' = <<User("handler", r)>> \o stack /\ UNCHANGED settled
      BY <1>2, <2>1, <2>7 DEF ListInv, Types
    <3>2. Append(c, h) \in Seq(Nat)
      BY <1>3, <2>3, Appended
    <3>3. \A q \in Request, m \in ListName :
            called'[q][m] = IF q = r /\ m = l THEN Append(c, h) ELSE called[q][m]
      BY <1>2, <3>1 DEF ListInv, Types
    <3>4. called' \in [Request -> [ListName -> Seq(Nat)]]
      BY <1>2, <3>1, <3>2 DEF ListInv, Types
    <3>5. /\ stack' \in Seq(Frame)
          /\ Frames(stack') = {User("handler", r)} \cup Frames(stack)
      BY <1>2, <3>1, FrameTypes, PushedFrame DEF ListInv, Types
    <3>6. Types'
      BY <1>4, <2>4, <3>1, <3>4, <3>5 DEF ListInv, Types
    <3>7. LoopsFired'
      <4> SUFFICES ASSUME NEW f \in Frames(stack'), f.k = "fire"
                   PROVE  LET g == callbacks'[f.req][f.list] IN ~g.on \/ g.memory
        BY DEF LoopsFired
      <4>1. f.req \in Request /\ f.list \in ListName /\ f \in Frames(stack)
        BY <3>5, <3>6, FrameIn DEF Types, User
      <4> QED
        BY ZenonT(30), <2>3, <2>4, <3>1, <4>1 DEF ListInv, LoopsFired
    <3>8. \A q \in Request, m \in ListName : Listed(callbacks[q][m], asked[q][m], called[q][m])'
      BY SMTT(30), <1>4, <2>3, <2>4, <2>7, <3>1, <3>3 DEF ListInv
    <3>9. ASSUME NEW q \in Request PROVE OneOutcome(q)'
      <4>1. OneOutcome(q)
        BY DEF ListInv
      <4>2. CASE q # r
        BY <1>4, <2>4, <2>5, <3>1, <3>3, <4>1, <4>2, OtherList DEF OneOutcome
      <4>3. CASE q = r
        <5>1. \A m \in ListName : /\ callbacks'[r][m].on <=> callbacks[r][m].on
                                  /\ callbacks'[r][m].list = callbacks[r][m].list
          BY <1>2, <2>2, <2>3, <2>4, <3>1
        <5>2. /\ callbacks'[r]["complete"].on
              /\ Len(callbacks'[r]["complete"].list) <= Len(asked'[r]["complete"])
          BY <1>4, <2>5, <5>1 DEF OneOutcome
        <5>3. ASSUME NEW m \in {"done", "fail"}
              PROVE  /\ ~callbacks'[r][m].on => called'[r][m] = <<>>
                     /\ callbacks'[r][m].on /\ callbacks'[r][Other(m)].on =>
                          /\ callbacks'[r][m].index = 0
                          /\ Len(callbacks'[r][m].list) = Len(asked'[r][m]) + 1
          <6>1. /\ m \in ListName /\ Other(m) \in ListName /\ Other(m) # m
                /\ Other(m) \in {"done", "fail"} /\ Other(Other(m)) = m
            BY OtherList
          <6>2. CASE m # l
            <7>1. /\ callbacks'[r][m] = callbacks[r][m] /\ called'[r][m] = called[r][m]
                  /\ callbacks'[r][Other(m)].on <=> callbacks[r][Other(m)].on
              BY <1>2, <2>4, <3>1, <3>3, <5>1, <6>1, <6>2
            <7> QED
              BY <1>4, <2>5, <6>1, <7>1 DEF OneOutcome
          <6>3. CASE m = l
            <7>1. ~callbacks[r][Other(l)].on
              <8> SUFFICES ASSUME callbacks[r][Other(l)].on PROVE FALSE
                OBVIOUS
              <8>1. cb.index = 0 /\ Len(cb.list) = Len(a) + 1
                BY <2>2, <2>5, <6>1, <6>3 DEF OneOutcome
              <8>2. Len(a) - Len(cb.list) = -1
                BY <2>5, <8>1
              <8> QED
                BY <2>3, <2>7, <8>1, <8>2
            <7>2. callbacks'[r][l].on /\ ~callbacks'[r][Other(l)].on
              BY <1>2, <2>2, <5>1, <6>1, <6>3, <7>1
            <7> QED
              BY <6>3, <7>2
          <6> QED
            BY <6>2, <6>3
        <5> QED
          BY <4>3, <5>2, <5>3 DEF OneOutcome
      <4> QED
        BY <4>2, <4>3
    <3> QED
      BY <3>6, <3>7, <3>8, <3>9 DEF ListInv
  <2> QED
    BY <2>6, <2>7
<1> QED
  BY <1>5, <1>6

LEMMA ListsKept ==
  ASSUME ListInv, Types', NewLoopsFired, UNCHANGED <<callbacks, asked, called>>
  PROVE  ListInv'
<1>1. \A r \in Request, l \in ListName : Grows(r, l)
  BY DEF Grows
<1> QED
  BY <1>1, ListsGrow

LEMMA DoneFacts ==
  ASSUME Types, NEW r \in Request, NEW ok \in BOOLEAN, NEW s \in Seq(Frame),
         CallsDone(r, ok, s)
  PROVE  /\ state' \in [Request -> -1 .. 2] /\ timer' \in [Request -> BOOLEAN]
         /\ transport' \in [Request -> BOOLEAN] /\ dones' \in [Request -> Nat]
         /\ stack' \in Seq(Frame)
         /\ \A f \in Frames(stack') : f \in Frames(s) \/ f = Done(r, "settle", ok)
<1>1. CASE DoneCalled(r)
  <2>1. Done(r, "settle", ok) \in Frame
    BY FrameTypes
  <2>2. /\ state' = [state EXCEPT ![r] = 2] /\ timer' = [timer EXCEPT ![r] = FALSE]
        /\ transport' = [transport EXCEPT ![r] = FALSE]
        /\ dones' = [dones EXCEPT ![r] = @ + 1]
        /\ stack' = <<Done(r, "settle", ok)>> \o s
    BY <1>1 DEF CallsDone
  <2>3. /\ stack' \in Seq(Frame)
        /\ Frames(stack') = {Done(r, "settle", ok)} \cup Frames(s)
    BY <2>1, <2>2, PushedFrame
  <2>4. /\ state' \in [Request -> -1 .. 2] /\ timer' \in [Request -> BOOLEAN]
        /\ transport' \in [Request -> BOOLEAN] /\ dones' \in [Request -> Nat]
    BY <2>2 DEF Types
  <2> QED
    BY <2>3, <2>4
<1>2. CASE ~DoneCalled(r)
  BY <1>2 DEF CallsDone, Types
<1> QED
  BY <1>1, <1>2

LEMMA AbortKeepsLists ==
  ASSUME ListInv, NEW r \in Request, NEW s \in Seq(Frame), Frames(s) \subseteq Frames(stack),
         Aborts(r, s), calls' \in 0 .. MaxCalls, threw' \in BOOLEAN
  PROVE  ListInv'
<1>1. /\ CallsDone(r, FALSE, s)
      /\ UNCHANGED <<option, settled, counted, callbacks, statusCode, active, added, asked,
                     called>>
      /\ xhr' \in [Request -> {"none", "waiting"}]
  BY DEF Aborts, ListInv, Types
<1>2. Types'
  BY <1>1, DoneFacts DEF ListInv, Types
<1>3. \A f \in Frames(stack') : f \in Frames(s) \/ f = Done(r, "settle", FALSE)
  BY <1>1, DoneFacts DEF ListInv
<1>4. NewLoopsFired
  BY <1>3 DEF NewLoopsFired, Done
<1> QED
  BY <1>1, <1>2, <1>4, ListsKept

LEMMA HandlersKeepLists ==
  ASSUME ListInv, Handler
  PROVE  ListInv'
<1>1. Running("user") /\ Types
  BY DEF Handler, Asks, CallsAbort, AddsHandler, MayCall, Returns, ReturnsFalse, Throws, ListInv
<1>2. /\ stack \in Seq(Frame) /\ Me.req \in Request /\ Tail(stack) \in Seq(Frame)
      /\ Frames(Tail(stack)) \subseteq Frames(stack)
  BY <1>1, RunningFrame DEF Types
<1>3. calls < MaxCalls /\ calls' = calls + 1 => calls' \in 0 .. MaxCalls
  BY <1>1, AjaxAssumption DEF Types
<1>4. ASSUME NEW r \in Request, Asks(r) PROVE ListInv'
  <2>1. /\ Send(r, "start") \in Frame /\ stack' = <<Send(r, "start")>> \o stack
        /\ state' = [state EXCEPT ![r] = 0] /\ threw' = threw
        /\ UNCHANGED <<option, settled, counted, transport, xhr, timer, callbacks, statusCode,
                       active, added, asked, called, dones>>
    BY <1>4, FrameTypes DEF Asks, MayCall
  <2>2. stack' \in Seq(Frame) /\ Frames(stack') = {Send(r, "start")} \cup Frames(stack)
    BY <1>2, <2>1, PushedFrame
  <2>3. Types'
    BY <1>1, <1>3, <1>4, <2>1, <2>2 DEF Types, Asks, MayCall
  <2>4. NewLoopsFired
    BY <2>2 DEF NewLoopsFired, Send
  <2> QED
    BY <2>1, <2>3, <2>4, ListsKept
<1>5. ASSUME NEW r \in Request, CallsAbort(r) PROVE ListInv'
  BY <1>1, <1>2, <1>3, <1>5, AbortKeepsLists DEF CallsAbort, MayCall, Types
<1>6. ASSUME NEW r \in Request, NEW l \in ListName, AddsHandler(r, l) PROVE ListInv'
  <2> DEFINE h == added + 1
  <2>1. /\ calls' = calls + 1 /\ calls < MaxCalls /\ threw' = threw /\ added' = h
        /\ asked' = [asked EXCEPT ![r][l] = Append(@, h)]
        /\ callbacks' = [callbacks EXCEPT ![r][l] = Added(@, h)]
        /\ stack' = (IF Refires(callbacks[r][l]) THEN <<Fire(r, l)>> ELSE <<>>) \o stack
        /\ UNCHANGED <<requestVars, active, called>>
    BY <1>6 DEF AddsHandler, MayCall
  <2>2. h \in Nat \ {0}
    BY <1>1 DEF Types
  <2> HIDE DEF h
  <2>3. /\ callbacks[r][l] \in Callbacks /\ asked[r][l] \in Seq(Nat)
        /\ called[r][l] \in Seq(Nat) /\ Listed(callbacks[r][l], asked[r][l], called[r][l])
    BY <1>1, ListTypes DEF ListInv
  <2>4. Added(callbacks[r][l], h) \in Callbacks /\ Append(asked[r][l], h) \in Seq(Nat)
    BY <2>2, <2>3, ListAdded, Appended
  <2>5. /\ stack' \in Seq(Frame)
        /\ \A f \in Frames(stack') :
             f \in Frames(stack) \/ (f = Fire(r, l) /\ callbacks[r][l].memory)
    <3>1. CASE Refires(callbacks[r][l])
      BY <1>2, <2>1, <3>1, FrameTypes, PushedFrame DEF Refires
    <3>2. CASE ~Refires(callbacks[r][l])
      BY <1>2, <2>1, <3>2, NoFrames
    <3> QED
      BY <3>1, <3>2
  <2>6. Types'
    <3>1. /\ callbacks' \in [Request -> [ListName -> Callbacks]]
          /\ asked' \in [Request -> [ListName -> Seq(Nat)]]
      BY <1>1, <2>1, <2>4 DEF Types
    <3> QED
      BY <1>1, <1>3, <2>1, <2>2, <2>5, <3>1 DEF Types, requestVars
  <2>7. NewLoopsFired
    BY <2>5 DEF NewLoopsFired, Fire
  <2>8. \A q \in Request, m \in ListName : Grows(q, m)
    BY <1>1, <2>1, <2>2 DEF Grows, Types
  <2> QED
    BY <2>6, <2>7, <2>8, ListsGrow
<1>7. CASE Returns
  <2>1. stack' = Tail(stack)
    BY <1>2, <1>7, NoFrames DEF Returns, Goes
  <2>2. Types' /\ NewLoopsFired /\ UNCHANGED <<callbacks, asked, called>>
    BY <1>1, <1>2, <1>7, <2>1 DEF Returns, Types, requestVars, NewLoopsFired
  <2> QED
    BY <2>2, ListsKept
<1>8. CASE ReturnsFalse
  BY <1>1, <1>2, <1>8, AbortKeepsLists DEF ReturnsFalse, Types
<1>9. CASE Throws
  <2>1. stack' = <<>> /\ <<>> \in Seq(Frame) /\ Frames(stack') = {}
    BY <1>2, <1>9, NoFrames DEF Throws
  <2>2. Types' /\ NewLoopsFired /\ UNCHANGED <<callbacks, asked, called>>
    BY <1>1, <1>3, <1>9, <2>1 DEF Throws, Types, requestVars, NewLoopsFired
  <2> QED
    BY <2>2, ListsKept
<1> QED
  BY <1>4, <1>5, <1>6, <1>7, <1>8, <1>9 DEF Handler

\* The lists of a request whose done list, fail list and list of the end are
\* added to.
LEMMA InstallKeepsLists ==
  ASSUME ListInv, SendInstalls
  PROVE  /\ ListInv'
         /\ \A q \in Request, l \in ListName :
              Grows(q, l) /\ (q # Me.req => callbacks'[q][l] = callbacks[q][l])
<1> DEFINE r == Me.req
<1>1. /\ Types /\ r \in Request /\ Tail(stack) \in Seq(Frame) /\ stack \in Seq(Frame)
      /\ Frames(Tail(stack)) \subseteq Frames(stack)
  BY RunningFrame DEF SendInstalls, ListInv, Types
<1>2. UNCHANGED <<option, settled, counted, xhr, statusCode, active, called, calls, threw>>
  BY DEF SendInstalls
<1>3. CASE state[r] = 2
  <2>1. stack' = Tail(stack)
    BY <1>1, <1>3, NoFrames DEF SendInstalls, Goes
  <2>2. UNCHANGED <<state, transport, timer, dones, callbacks, added, asked>>
    BY <1>3 DEF SendInstalls
  <2>3. Types' /\ NewLoopsFired
    BY <1>1, <1>2, <2>1, <2>2 DEF Types, NewLoopsFired
  <2>4. \A q \in Request, l \in ListName : Grows(q, l)
    BY <1>2, <2>2 DEF Grows
  <2> QED
    BY <1>2, <2>2, <2>3, <2>4, ListsKept
<1>4. CASE state[r] # 2
  <2> DEFINE x == added + 1  y == added + 2  z == added + 3
  <2>1. /\ added' = z
        /\ asked' = [asked EXCEPT ![r].done = Append(@, x), ![r].fail = Append(@, y),
                                  ![r].complete = Append(@, z)]
        /\ callbacks' = [callbacks EXCEPT ![r].done = Added(@, x), ![r].fail = Added(@, y),
                                          ![r].complete = Added(@, z)]
    BY <1>4 DEF SendInstalls
  <2>2. x \in Nat \ {0} /\ y \in Nat \ {0} /\ z \in Nat \ {0}
    BY <1>1 DEF Types
  <2> HIDE DEF x, y, z
  <2>3. /\ \A q \in Request : q # r => asked'[q] = asked[q] /\ callbacks'[q] = callbacks[q]
        /\ asked'[r]["done"] = Append(asked[r]["done"], x)
        /\ asked'[r]["fail"] = Append(asked[r]["fail"], y)
        /\ asked'[r]["complete"] = Append(asked[r]["complete"], z)
        /\ callbacks'[r]["done"] = Added(callbacks[r]["done"], x)
        /\ callbacks'[r]["fail"] = Added(callbacks[r]["fail"], y)
        /\ callbacks'[r]["complete"] = Added(callbacks[r]["complete"], z)
    <3> DEFINE A1 == [asked EXCEPT ![r]["done"] = Append(@, x)]
               A2 == [A1 EXCEPT ![r]["fail"] = Append(@, y)]
               B1 == [callbacks EXCEPT ![r]["done"] = Added(@, x)]
               B2 == [B1 EXCEPT ![r]["fail"] = Added(@, y)]
    <3>1. /\ asked' = [A2 EXCEPT ![r]["complete"] = Append(@, z)]
          /\ callbacks' = [B2 EXCEPT ![r]["complete"] = Added(@, z)]
      BY <2>1
    <3>2. /\ DOMAIN asked = Request /\ DOMAIN callbacks = Request
          /\ DOMAIN asked[r] = ListName /\ DOMAIN callbacks[r] = ListName
      BY <1>1 DEF Types
    <3>3. /\ DOMAIN A1 = Request /\ DOMAIN B1 = Request
          /\ DOMAIN A1[r] = ListName /\ DOMAIN B1[r] = ListName
          /\ \A q \in Request : q # r => A1[q] = asked[q] /\ B1[q] = callbacks[q]
          /\ A1[r]["done"] = Append(asked[r]["done"], x)
          /\ B1[r]["done"] = Added(callbacks[r]["done"], x)
          /\ \A m \in ListName : m # "done" => A1[r][m] = asked[r][m] /\ B1[r][m] = callbacks[r][m]
      BY <1>1, <3>2 DEF ListName
    <3> HIDE DEF A1, B1
    <3>4. /\ DOMAIN A2 = Request /\ DOMAIN B2 = Request
          /\ DOMAIN A2[r] = ListName /\ DOMAIN B2[r] = ListName
          /\ \A q \in Request : q # r => A2[q] = asked[q] /\ B2[q] = callbacks[q]
          /\ A2[r]["done"] = A1[r]["done"] /\ A2[r]["fail"] = Append(asked[r]["fail"], y)
          /\ B2[r]["done"] = B1[r]["done"] /\ B2[r]["fail"] = Added(callbacks[r]["fail"], y)
          /\ A2[r]["complete"] = asked[r]["complete"] /\ B2[r]["complete"] = callbacks[r]["complete"]
      BY <1>1, <3>3 DEF ListName
    <3> HIDE DEF A2, B2
    <3> QED
      BY <1>1, <3>1, <3>3, <3>4 DEF ListName
  <2>4. \A l \in ListName : \A h \in Nat \ {0} :
          /\ Added(callbacks[r][l], h) \in Callbacks
          /\ Append(asked[r][l], h) \in Seq(Nat)
    BY <1>1, ListTypes, ListAdded, Appended DEF ListInv
  <2>5. /\ callbacks' \in [Request -> [ListName -> Callbacks]]
        /\ asked' \in [Request -> [ListName -> Seq(Nat)]]
    BY <1>1, <2>1, <2>2, <2>4 DEF Types, ListName
  <2>6. \A q \in Request, l \in ListName : Grows(q, l)
    <3> SUFFICES ASSUME NEW q \in Request, NEW l \in ListName PROVE Grows(q, l)
      OBVIOUS
    <3>1. CASE q = r
      BY <1>2, <2>2, <2>3, <3>1 DEF Grows, ListName
    <3>2. CASE q # r
      BY <1>2, <2>3, <3>2 DEF Grows
    <3> QED
      BY <3>1, <3>2
  <2>7. /\ state' \in [Request -> -1 .. 2] /\ timer' \in [Request -> BOOLEAN]
        /\ transport' \in [Request -> BOOLEAN] /\ dones' \in [Request -> Nat]
        /\ stack' \in Seq(Frame)
        /\ \A f \in Frames(stack') : f.k = "fire" => f \in Frames(stack)
    <3>1. CASE option[r].how = "cross"
      <4>1. CallsDone(r, FALSE, Tail(stack))
        BY <1>4, <3>1 DEF SendInstalls
      <4>2. \A f \in Frames(stack') : f \in Frames(Tail(stack)) \/ f = Done(r, "settle", FALSE)
        BY <1>1, <4>1, DoneFacts
      <4>3. \A f \in Frames(stack') : f.k = "fire" => f \in Frames(stack)
        BY <1>1, <4>2 DEF Done
      <4> QED
        BY <1>1, <4>1, <4>3, DoneFacts
    <3>2. CASE option[r].how # "cross"
      <4> DEFINE p == IF counted[r] THEN Calls("ajaxSend", r) ELSE <<>>
      <4>1. /\ transport' = [transport EXCEPT ![r] = TRUE]
            /\ stack' = (p \o <<Send(r, "send")>>) \o Tail(stack)
            /\ UNCHANGED <<state, timer, dones>>
        BY <1>4, <3>2 DEF SendInstalls, Goes
      <4>2. p \in Seq(Frame) /\ \A f \in Frames(p) : f = User("ajaxSend", r)
        BY <1>1, CallsFrames, NoFrames DEF Hook
      <4>3. Send(r, "send") \in Frame
        BY <1>1, FrameTypes
      <4> HIDE DEF p
      <4>4. /\ stack' \in Seq(Frame)
            /\ Frames(stack') = (Frames(p) \cup {Send(r, "send")}) \cup Frames(Tail(stack))
        <5> DEFINE f == Send(r, "send")  t == Tail(stack)
        <5>1. f \in Frame /\ t \in Seq(Frame) /\ stack' = (p \o <<f>>) \o t
          BY <1>1, <4>1, <4>3
        <5> HIDE DEF f, t
        <5>2. stack' \in Seq(Frame) /\ Frames(stack') = (Frames(p) \cup {f}) \cup Frames(t)
          BY <4>2, <5>1, FrameBefore
        <5> QED
          BY <5>2 DEF f, t
      <4>5. \A f \in Frames(stack') : f.k = "fire" => f \in Frames(stack)
        BY <1>1, <4>2, <4>4 DEF User, Send
      <4>6. /\ state' \in [Request -> -1 .. 2] /\ timer' \in [Request -> BOOLEAN]
            /\ transport' \in [Request -> BOOLEAN] /\ dones' \in [Request -> Nat]
        BY <1>1, <4>1 DEF Types
      <4> QED
        BY <4>4, <4>5, <4>6
    <3> QED
      BY <3>1, <3>2
  <2>8. Types'
    BY <1>1, <1>2, <2>1, <2>2, <2>5, <2>7 DEF Types
  <2>9. NewLoopsFired
    BY <2>7 DEF NewLoopsFired
  <2> QED
    BY <2>3, <2>6, <2>8, <2>9, ListsGrow
<1> QED
  BY <1>3, <1>4

LEMMA StartKeepsLists == ListInv /\ SendStarts => ListInv'
<1> SUFFICES ASSUME ListInv, SendStarts PROVE ListInv'
  OBVIOUS
<1> DEFINE r == Me.req
           p == IF option[r].global /\ active = 0 THEN Calls("ajaxStart", r) ELSE <<>>
           q == Calls("beforeSend", r)
<1>1. /\ Types /\ r \in Request /\ Tail(stack) \in Seq(Frame)
      /\ Frames(Tail(stack)) \subseteq Frames(stack)
  BY RunningFrame DEF SendStarts, ListInv
<1>2. /\ counted' = [counted EXCEPT ![r] = option[r].global]
      /\ active' = IF option[r].global THEN active + 1 ELSE active
      /\ stack' = ((p \o q) \o <<Send(r, "install")>>) \o Tail(stack)
      /\ UNCHANGED <<option, state, settled, transport, xhr, timer, callbacks, statusCode,
                     added, asked, called, dones, calls, threw>>
  BY DEF SendStarts, Goes
<1>3. /\ p \in Seq(Frame) /\ \A f \in Frames(p) : f = User("ajaxStart", r)
      /\ q \in Seq(Frame) /\ \A f \in Frames(q) : f = User("beforeSend", r)
  BY <1>1, CallsFrames, NoFrames DEF Hook
<1>4. option[r].global \in BOOLEAN
  BY <1>1, AjaxAssumption DEF Types, Option
<1>5. Send(r, "install") \in Frame
  BY <1>1, FrameTypes
<1> HIDE DEF p, q
<1>6. /\ stack' \in Seq(Frame)
      /\ Frames(stack') = ((Frames(p) \cup Frames(q)) \cup {Send(r, "install")})
                            \cup Frames(Tail(stack))
  <2>1. p \o q \in Seq(Frame) /\ Frames(p \o q) = Frames(p) \cup Frames(q)
    BY <1>3, JoinedFrames
  <2> DEFINE f == Send(r, "install")  t == Tail(stack)  u == p \o q
  <2>2. f \in Frame /\ t \in Seq(Frame) /\ stack' = (u \o <<f>>) \o t /\ u \in Seq(Frame)
    BY <1>1, <1>2, <1>5, <2>1
  <2> HIDE DEF f, t, u
  <2>3. stack' \in Seq(Frame) /\ Frames(stack') = (Frames(u) \cup {f}) \cup Frames(t)
    BY <2>2, FrameBefore
  <2> QED
    BY <2>1, <2>3 DEF f, t, u
<1>7. Types'
  <2>1. counted' \in [Request -> BOOLEAN] /\ active' \in Int
    BY <1>1, <1>2, <1>4 DEF Types
  <2> QED
    BY <1>1, <1>2, <1>6, <2>1 DEF Types
<1>8. NewLoopsFired
  BY <1>1, <1>3, <1>6 DEF NewLoopsFired, User, Send
<1> QED
  BY <1>2, <1>7, <1>8, ListsKept

LEMMA SendKeepsLists == ListInv /\ SendSends => ListInv'
<1> SUFFICES ASSUME ListInv, SendSends PROVE ListInv'
  OBVIOUS
<1> DEFINE r == Me.req
           timed == [timer EXCEPT ![r] = option[r].how = "async" /\ option[r].timeout]
<1>1. /\ Types /\ r \in Request /\ Tail(stack) \in Seq(Frame)
      /\ Frames(Tail(stack)) \subseteq Frames(stack)
  BY RunningFrame DEF SendSends, ListInv
<1>2. UNCHANGED <<option, settled, counted, callbacks, statusCode, active, added, asked,
                  called, calls, threw>>
  BY DEF SendSends
<1>3. timed \in [Request -> BOOLEAN]
  <2>1. option[r].timeout \in BOOLEAN
    BY <1>1, AjaxAssumption DEF Types, Option
  <2>2. (option[r].how = "async" /\ option[r].timeout) \in BOOLEAN
    OBVIOUS
  <2> QED
    BY <1>1, <2>2 DEF Types
<1>4. CASE /\ state' = [state EXCEPT ![r] = 1] /\ timer' = timed
           /\ xhr' = [xhr EXCEPT ![r] = "waiting"]
           /\ Goes(<<>>) /\ UNCHANGED <<transport, dones>>
  <2>1. stack' = Tail(stack)
    BY <1>1, <1>4, NoFrames DEF Goes
  <2>2. Types' /\ NewLoopsFired
    BY <1>1, <1>2, <1>3, <1>4, <2>1 DEF Types, NewLoopsFired
  <2> QED
    BY <1>2, <2>2, ListsKept
<1>5. ASSUME NEW ok \in BOOLEAN,
             state' = [state EXCEPT ![r] = 2], timer' = [timed EXCEPT ![r] = FALSE],
             transport' = [transport EXCEPT ![r] = FALSE],
             dones' = [dones EXCEPT ![r] = @ + 1],
             Goes(<<Done(r, "settle", ok)>>), UNCHANGED xhr
      PROVE  ListInv'
  <2>1. Done(r, "settle", ok) \in Frame
    BY <1>1, FrameTypes
  <2>2. /\ stack' \in Seq(Frame)
        /\ Frames(stack') = {Done(r, "settle", ok)} \cup Frames(Tail(stack))
    BY <1>1, <1>5, <2>1, PushedFrame DEF Goes
  <2>3. NewLoopsFired
    BY <1>1, <2>2 DEF NewLoopsFired, Done
  <2> HIDE DEF timed
  <2>4. Types'
    <3>1. timer' \in [Request -> BOOLEAN]
      BY <1>3, <1>5
    <3>2. /\ state' \in [Request -> -1 .. 2] /\ transport' \in [Request -> BOOLEAN]
          /\ dones' \in [Request -> Nat]
      BY <1>1, <1>5 DEF Types
    <3> QED
      BY <1>1, <1>2, <1>5, <2>2, <3>1, <3>2 DEF Types
  <2> QED
    BY <1>2, <2>3, <2>4, ListsKept
<1> QED
  BY <1>4, <1>5 DEF SendSends

LEMMA FiresListFacts ==
  ASSUME ListInv, NEW r \in Request, NEW l \in ListName, NEW next \in Seq(Frame),
         Running("done"), FiresList(r, l, next),
         \A f \in Frames(next) : f.k # "fire",
         UNCHANGED <<requestVars, active, added, asked, called, calls, threw>>
  PROVE  ListInv'
<1>1. Types /\ Tail(stack) \in Seq(Frame) /\ Frames(Tail(stack)) \subseteq Frames(stack)
  BY RunningFrame DEF ListInv
<1>2. CASE Fires(callbacks[r][l])
  <2>1. /\ callbacks' = [callbacks EXCEPT ![r][l] = Fired(@)]
        /\ stack' = (<<Fire(r, l)>> \o next) \o Tail(stack)
    BY <1>2 DEF FiresList, Goes
  <2>2. /\ stack' \in Seq(Frame)
        /\ Frames(stack') = ({Fire(r, l)} \cup Frames(next)) \cup Frames(Tail(stack))
    <3> DEFINE u == <<Fire(r, l)>> \o next  t == Tail(stack)
    <3>1. u \in Seq(Frame) /\ Frames(u) = {Fire(r, l)} \cup Frames(next)
      BY FrameTypes, PushedFrame
    <3>2. t \in Seq(Frame) /\ stack' = u \o t
      BY <1>1, <2>1
    <3> HIDE DEF u, t
    <3>3. stack' \in Seq(Frame) /\ Frames(stack') = Frames(u) \cup Frames(t)
      BY <3>1, <3>2, JoinedFrames
    <3> QED
      BY <3>1, <3>3 DEF t
  <2>3. Fired(callbacks[r][l]) \in Callbacks
    BY <1>1, <1>2, ListTypes, ListFired DEF ListInv
  <2>4. callbacks' \in [Request -> [ListName -> Callbacks]]
    BY <1>1, <2>1, <2>3 DEF Types
  <2>5. Types'
    BY <1>1, <2>2, <2>4 DEF Types, requestVars
  <2>6. \A f \in Frames(stack') : f.k = "fire" => f \in Frames(stack) \/ f = Fire(r, l)
    BY <1>1, <2>2
  <2> QED
    BY <1>2, <2>1, <2>5, <2>6, ListsFire
<1>3. CASE ~Fires(callbacks[r][l])
  <2>1. stack' = next \o Tail(stack) /\ UNCHANGED callbacks
    BY <1>3 DEF FiresList, Goes
  <2>2. stack' \in Seq(Frame) /\ Frames(stack') = Frames(next) \cup Frames(Tail(stack))
    BY <1>1, <2>1, JoinedFrames
  <2>3. Types' /\ NewLoopsFired
    BY <1>1, <2>1, <2>2 DEF Types, requestVars, NewLoopsFired
  <2> QED
    BY <2>1, <2>3, ListsKept
<1> QED
  BY <1>2, <1>3

LEMMA EndKeepsLists ==
  ASSUME ListInv, DoneSettles \/ DoneCompletes
  PROVE  ListInv'
<1> DEFINE r == Me.req
<1>1. /\ Types /\ Running("done") /\ r \in Request /\ Me \in Frame /\ Me.k = "done"
  BY RunningFrame DEF DoneSettles, DoneCompletes, ListInv
<1>2. Me.ok \in BOOLEAN
  BY <1>1 DEF Frame
<1>3. CASE DoneSettles
  <2> DEFINE l == IF Me.ok THEN "done" ELSE "fail"  next == <<Done(r, "status", Me.ok)>>
  <2>1. l \in ListName
    BY DEF ListName
  <2>2. next \in Seq(Frame) /\ \A f \in Frames(next) : f.k # "fire"
    <3>1. Done(r, "status", Me.ok) \in Frame
      BY <1>1, <1>2, FrameTypes
    <3> QED
      BY <3>1, OneFrame DEF Done
  <2>3. /\ FiresList(r, l, next)
        /\ UNCHANGED <<requestVars, active, added, asked, called, calls, threw>>
    BY <1>3 DEF DoneSettles
  <2> HIDE DEF l, next
  <2> QED
    BY <1>1, <2>1, <2>2, <2>3, FiresListFacts
<1>4. CASE DoneCompletes
  <2> DEFINE p == IF counted[r] THEN Calls("ajaxComplete", r) ELSE <<>>
             next == p \o <<Done(r, "count", Me.ok)>>
  <2>1. "complete" \in ListName
    BY DEF ListName
  <2>2. next \in Seq(Frame) /\ \A f \in Frames(next) : f.k # "fire"
    <3>1. Done(r, "count", Me.ok) \in Frame
      BY <1>1, <1>2, FrameTypes
    <3>2. p \in Seq(Frame) /\ \A f \in Frames(p) : f = User("ajaxComplete", r)
      BY <1>1, CallsFrames, NoFrames DEF Hook
    <3> HIDE DEF p
    <3>3. /\ next \in Seq(Frame)
          /\ Frames(next) = Frames(p) \cup {Done(r, "count", Me.ok)}
      BY <3>1, <3>2, OneFrame, JoinedFrames
    <3> QED
      BY <3>2, <3>3 DEF Done, User
  <2>3. /\ FiresList(r, "complete", next)
        /\ UNCHANGED <<requestVars, active, added, asked, called, calls, threw>>
    BY <1>4 DEF DoneCompletes
  <2> HIDE DEF next
  <2> QED
    BY <1>1, <2>1, <2>2, <2>3, FiresListFacts
<1> QED
  BY <1>3, <1>4

LEMMA StatusKeepsLists ==
  ASSUME ListInv, DoneStatus
  PROVE  /\ ListInv'
         /\ \A q \in Request, l \in ListName :
              /\ Grows(q, l)
              /\ q # Me.req \/ l = "complete" \/ ~statusCode[Me.req] =>
                   callbacks'[q][l] = callbacks[q][l] /\ asked'[q][l] = asked[q][l]
<1> DEFINE r == Me.req  ok == Me.ok
           again == {l \in {"done", "fail"} : Refires(callbacks[r][l])}
           p == IF statusCode[r] /\ again # {}
                THEN <<Fire(r, CHOOSE l \in again : TRUE)>> ELSE <<>>
           c == IF counted[r] THEN Calls(IF ok THEN "ajaxSuccess" ELSE "ajaxError", r)
                ELSE <<>>
           x == added + 1
<1>1. /\ Types /\ r \in Request /\ Me \in Frame /\ Me.k = "done"
      /\ Tail(stack) \in Seq(Frame) /\ Frames(Tail(stack)) \subseteq Frames(stack)
  BY RunningFrame DEF DoneStatus, ListInv
<1>2. ok \in BOOLEAN
  BY <1>1 DEF Frame
<1>3. /\ statusCode' = [statusCode EXCEPT ![r] = FALSE]
      /\ IF statusCode[r]
         THEN /\ added' = x
              /\ asked' = [asked EXCEPT ![r].done = Append(@, x), ![r].fail = Append(@, x)]
              /\ callbacks' = [callbacks EXCEPT ![r].done = Added(@, x),
                                                ![r].fail = Added(@, x)]
         ELSE UNCHANGED <<added, asked, callbacks>>
      /\ stack' = ((p \o c) \o <<Done(r, "complete", ok)>>) \o Tail(stack)
      /\ UNCHANGED <<option, state, settled, counted, transport, xhr, timer, dones,
                     active, called, calls, threw>>
  BY DEF DoneStatus, Goes
<1>4. x \in Nat \ {0}
  BY <1>1 DEF Types
<1>5. p \in Seq(Frame) /\ \A f \in Frames(p) : f.k = "fire" => callbacks[f.req][f.list].memory
  <2>1. CASE statusCode[r] /\ again # {}
    <3> DEFINE l == CHOOSE m \in again : TRUE
    <3>1. l \in again
      BY <2>1
    <3> HIDE DEF l
    <3>2. l \in ListName /\ callbacks[r][l].memory
      BY <3>1 DEF Refires, ListName
    <3>3. Fire(r, l) \in Frame /\ Fire(r, l).req = r /\ Fire(r, l).list = l
      BY <1>1, <3>2, FrameTypes DEF Fire
    <3>4. <<Fire(r, l)>> \in Seq(Frame) /\ Frames(<<Fire(r, l)>>) = {Fire(r, l)}
      BY <3>3, OneFrame
    <3>5. p = <<Fire(r, l)>>
      BY <2>1 DEF l
    <3> QED
      BY <3>2, <3>3, <3>4, <3>5
  <2>2. CASE ~(statusCode[r] /\ again # {})
    BY <1>1, <2>2, NoFrames
  <2> QED
    BY <2>1, <2>2
<1>6. c \in Seq(Frame) /\ \A f \in Frames(c) : f.k = "user"
  BY <1>1, CallsFrames, NoFrames DEF Hook, User
<1>7. Done(r, "complete", ok) \in Frame
  BY <1>1, <1>2, FrameTypes
<1> HIDE DEF p, c, x, again
<1>8. /\ stack' \in Seq(Frame)
      /\ Frames(stack') = ((Frames(p) \cup Frames(c)) \cup {Done(r, "complete", ok)})
                            \cup Frames(Tail(stack))
  <2>1. p \o c \in Seq(Frame) /\ Frames(p \o c) = Frames(p) \cup Frames(c)
    BY <1>5, <1>6, JoinedFrames
  <2> DEFINE f == Done(r, "complete", ok)  t == Tail(stack)  u == p \o c
  <2>2. f \in Frame /\ t \in Seq(Frame) /\ stack' = (u \o <<f>>) \o t /\ u \in Seq(Frame)
    BY <1>1, <1>3, <1>7, <2>1
  <2> HIDE DEF f, t, u
  <2>3. stack' \in Seq(Frame) /\ Frames(stack') = (Frames(u) \cup {f}) \cup Frames(t)
    BY <2>2, FrameBefore
  <2> QED
    BY <2>1, <2>3 DEF f, t, u
<1>9. NewLoopsFired
  BY <1>1, <1>5, <1>6, <1>8 DEF NewLoopsFired, Done
<1>10. CASE statusCode[r]
  <2>1. /\ \A q \in Request : q # r => asked'[q] = asked[q] /\ callbacks'[q] = callbacks[q]
        /\ asked'[r]["done"] = Append(asked[r]["done"], x)
        /\ asked'[r]["fail"] = Append(asked[r]["fail"], x)
        /\ asked'[r]["complete"] = asked[r]["complete"]
        /\ callbacks'[r]["done"] = Added(callbacks[r]["done"], x)
        /\ callbacks'[r]["fail"] = Added(callbacks[r]["fail"], x)
        /\ callbacks'[r]["complete"] = callbacks[r]["complete"]
    <3> DEFINE A1 == [asked EXCEPT ![r]["done"] = Append(@, x)]
               B1 == [callbacks EXCEPT ![r]["done"] = Added(@, x)]
    <3>0. /\ asked' = [asked EXCEPT ![r].done = Append(@, x), ![r].fail = Append(@, x)]
          /\ callbacks' = [callbacks EXCEPT ![r].done = Added(@, x), ![r].fail = Added(@, x)]
      BY <1>3, <1>10
    <3>1. /\ asked' = [A1 EXCEPT ![r]["fail"] = Append(@, x)]
          /\ callbacks' = [B1 EXCEPT ![r]["fail"] = Added(@, x)]
      BY <3>0
    <3>2. /\ DOMAIN asked = Request /\ DOMAIN callbacks = Request
          /\ DOMAIN asked[r] = ListName /\ DOMAIN callbacks[r] = ListName
      BY <1>1 DEF Types
    <3>3. /\ DOMAIN A1 = Request /\ DOMAIN B1 = Request
          /\ DOMAIN A1[r] = ListName /\ DOMAIN B1[r] = ListName
          /\ \A q \in Request : q # r => A1[q] = asked[q] /\ B1[q] = callbacks[q]
          /\ A1[r]["done"] = Append(asked[r]["done"], x)
          /\ B1[r]["done"] = Added(callbacks[r]["done"], x)
          /\ \A m \in ListName : m # "done" => A1[r][m] = asked[r][m] /\ B1[r][m] = callbacks[r][m]
      BY <1>1, <3>2 DEF ListName
    <3> HIDE DEF A1, B1
    <3> QED
      BY <1>1, <3>1, <3>3 DEF ListName
  <2>2. \A l \in ListName : \A h \in Nat \ {0} :
          /\ Added(callbacks[r][l], h) \in Callbacks
          /\ Append(asked[r][l], h) \in Seq(Nat)
    BY <1>1, ListTypes, ListAdded, Appended DEF ListInv
  <2>3. /\ callbacks' \in [Request -> [ListName -> Callbacks]]
        /\ asked' \in [Request -> [ListName -> Seq(Nat)]]
    <3>1. /\ asked' = [asked EXCEPT ![r].done = Append(@, x), ![r].fail = Append(@, x)]
          /\ callbacks' = [callbacks EXCEPT ![r].done = Added(@, x), ![r].fail = Added(@, x)]
      BY <1>3, <1>10
    <3> QED
      BY <1>1, <1>4, <2>2, <3>1 DEF Types, ListName
  <2>4. \A q \in Request, l \in ListName : Grows(q, l)
    <3> SUFFICES ASSUME NEW q \in Request, NEW l \in ListName PROVE Grows(q, l)
      OBVIOUS
    <3>1. CASE q = r
      BY <1>3, <1>4, <2>1, <3>1 DEF Grows, ListName
    <3>2. CASE q # r
      BY <1>3, <2>1, <3>2 DEF Grows
    <3> QED
      BY <3>1, <3>2
  <2>5. Types'
    BY <1>1, <1>3, <1>4, <1>8, <1>10, <2>3 DEF Types
  <2> QED
    BY <1>9, <1>10, <2>1, <2>4, <2>5, ListsGrow
<1>11. CASE ~statusCode[r]
  <2>1. UNCHANGED <<added, asked, callbacks>>
    BY <1>3, <1>11
  <2>2. Types'
    BY <1>1, <1>3, <1>8, <2>1 DEF Types
  <2>3. \A q \in Request, l \in ListName : Grows(q, l)
    BY <1>3, <2>1 DEF Grows
  <2> QED
    BY <1>3, <1>9, <2>1, <2>2, <2>3, ListsKept
<1> QED
  BY <1>10, <1>11

LEMMA CountKeepsLists == ListInv /\ DoneCounts => ListInv'
<1> SUFFICES ASSUME ListInv, DoneCounts PROVE ListInv'
  OBVIOUS
<1> DEFINE r == Me.req
           p == IF counted[r] /\ active' = 0 THEN Calls("ajaxStop", r) ELSE <<>>
<1>1. /\ Types /\ r \in Request /\ Tail(stack) \in Seq(Frame)
      /\ Frames(Tail(stack)) \subseteq Frames(stack)
  BY RunningFrame DEF DoneCounts, ListInv
<1>2. /\ active' = active - (IF counted[r] THEN 1 ELSE 0)
      /\ stack' = p \o Tail(stack)
      /\ UNCHANGED <<requestVars, callbacks, added, asked, called, calls, threw>>
  BY DEF DoneCounts, Goes, Uncounted
<1>3. p \in Seq(Frame) /\ \A f \in Frames(p) : f.k = "user"
  BY <1>1, CallsFrames, NoFrames DEF Hook, User
<1> HIDE DEF p
<1>4. stack' \in Seq(Frame) /\ Frames(stack') = Frames(p) \cup Frames(Tail(stack))
  BY <1>1, <1>2, <1>3, JoinedFrames
<1>5. active' \in Int
  BY <1>1, <1>2 DEF Types
<1>6. Types' /\ NewLoopsFired
  BY <1>1, <1>2, <1>3, <1>4, <1>5 DEF Types, NewLoopsFired, requestVars
<1> QED
  BY <1>2, <1>6, ListsKept

LEMMA BrowserKeepsLists ==
  ASSUME ListInv, PageRuns \/ \E r \in Request : Answer(r) \/ TimesOut(r)
  PROVE  ListInv'
<1>1. Types /\ stack = <<>> /\ stack \in Seq(Frame) /\ Frames(stack) = {}
  BY EmptyStack DEF ListInv, Types, PageRuns, Answer, TimesOut, Idle
<1>2. CASE PageRuns
  <2> DEFINE q == CHOOSE r \in Request : TRUE
  <2>1. CASE Request # {}
    <3>1. q \in Request
      BY <2>1
    <3> HIDE DEF q
    <3>2. User("page", q) \in Frame
      BY <3>1, FrameTypes
    <3>3. stack' = <<User("page", q)>>
      BY <1>2 DEF PageRuns, q
    <3>4. stack' \in Seq(Frame) /\ Frames(stack') = {User("page", q)}
      BY <3>2, <3>3, OneFrame
    <3>5. UNCHANGED <<requestVars, callbacks, active, added, asked, called, calls, threw>>
      BY <1>2 DEF PageRuns
    <3>6. Types'
      BY <1>1, <3>4, <3>5 DEF Types, requestVars
    <3>7. NewLoopsFired
      BY <3>4 DEF NewLoopsFired, User
    <3> QED
      BY <3>5, <3>6, <3>7, ListsKept
  <2> QED
    BY <2>1, AjaxAssumption
<1>3. ASSUME NEW r \in Request, Answer(r) PROVE ListInv'
  <2>1. PICK ok \in BOOLEAN : CallsDone(r, ok, <<>>)
    BY <1>3 DEF Answer
  <2>2. /\ xhr' = [xhr EXCEPT ![r] = "none"]
        /\ UNCHANGED <<option, settled, counted, callbacks, statusCode, active, added, asked,
                       called, calls, threw>>
    BY <1>3 DEF Answer
  <2>3. \A f \in Frames(stack') : f = Done(r, "settle", ok)
    BY <1>1, <2>1, DoneFacts
  <2>4. Types'
    BY <1>1, <2>1, <2>2, DoneFacts DEF Types
  <2>5. NewLoopsFired
    BY <2>3 DEF NewLoopsFired, Done
  <2> QED
    BY <2>2, <2>4, <2>5, ListsKept
<1>4. ASSUME NEW r \in Request, TimesOut(r) PROVE ListInv'
  BY <1>1, <1>4, AbortKeepsLists DEF TimesOut, Types
<1> QED
  BY <1>2, <1>3, <1>4

LEMMA InitLists == Init => ListInv
<1> SUFFICES ASSUME Init PROVE ListInv
  OBVIOUS
<1>1. Frames(stack) = {} /\ stack \in Seq(Frame)
  BY EmptyStack DEF Init
<1>2. NewLists \in [ListName -> Callbacks] /\ <<>> \in Seq(Nat) /\ <<0>> \in Seq(Nat)
      /\ Len(<<0>>) = 1 /\ <<0>>[1] = 0 /\ Len(<<>>) = 0
  BY NoList DEF NewLists, NewCallbacks, Callbacks, ListName
<1>3. \A r \in Request, l \in ListName :
        /\ asked[r][l] = <<>> /\ called[r][l] = <<>>
        /\ callbacks[r][l] = NewCallbacks(IF l = "complete" THEN <<>> ELSE <<0>>)
  BY DEF Init, NewLists
<1>4. Types
  <2>1. statusCode \in [Request -> BOOLEAN]
    BY AjaxAssumption DEF Init, Option
  <2>2. /\ callbacks \in [Request -> [ListName -> Callbacks]]
        /\ asked \in [Request -> [ListName -> Seq(Nat)]]
        /\ called \in [Request -> [ListName -> Seq(Nat)]]
    <3> HIDE DEF NewLists
    <3> QED
      BY <1>2 DEF Init
  <2>3. /\ option \in [Request -> Options] /\ state \in [Request -> -1 .. 2]
        /\ settled \in [Request -> {"pending", "done", "fail"}]
        /\ counted \in [Request -> BOOLEAN] /\ transport \in [Request -> BOOLEAN]
        /\ timer \in [Request -> BOOLEAN] /\ xhr \in [Request -> {"none", "waiting"}]
        /\ dones \in [Request -> Nat]
    BY DEF Init
  <2>4. active \in Int /\ added \in Nat /\ calls \in 0 .. MaxCalls /\ threw \in BOOLEAN
    <3>1. active = 0 /\ added = 0 /\ calls = 0 /\ threw = FALSE
      BY DEF Init
    <3>2. MaxCalls \in Nat
      BY AjaxAssumption
    <3>3. 0 \in 0 .. MaxCalls
      BY <3>2
    <3>4. threw \in BOOLEAN
      BY <3>1
    <3>5. active \in Int /\ added \in Nat /\ calls \in 0 .. MaxCalls
      BY <3>1, <3>3
    <3> QED
      BY <3>4, <3>5
  <2> QED
    BY <1>1, <2>1, <2>2, <2>3, <2>4 DEF Types
<1>5. LoopsFired
  BY <1>1 DEF LoopsFired
<1>6. ASSUME NEW r \in Request, NEW l \in ListName
      PROVE  Listed(callbacks[r][l], asked[r][l], called[r][l])
  <2> DEFINE list == IF l = "complete" THEN <<>> ELSE <<0>>
             cb == callbacks[r][l]
  <2>1. /\ asked[r][l] = <<>> /\ called[r][l] = <<>> /\ Len(<<>>) = 0
        /\ cb.on /\ ~cb.memory /\ ~cb.firing /\ cb.start = 0 /\ cb.index = 0
        /\ cb.list = list
    <3>1. cb = NewCallbacks(list) /\ asked[r][l] = <<>> /\ called[r][l] = <<>>
      BY <1>3
    <3> HIDE DEF cb, list
    <3> QED
      BY <1>2, <3>1 DEF NewCallbacks
  <2> HIDE DEF cb
  <2>2. CASE l = "complete"
    BY <1>2, <2>1, <2>2 DEF Listed, BeginningOf, Holds, EndOf, cb
  <2>3. CASE l # "complete"
    <3>1. cb.list = <<0>> /\ Len(cb.list) = 1 /\ Len(<<>>) - Len(cb.list) = -1
          /\ cb.list[1] = 0
      BY <1>2, <2>1, <2>3
    <3>2. EndOf(cb.list, <<>>)
      BY <3>1 DEF EndOf
    <3>3. Holds(cb, <<>>, <<>>)
      BY <2>1, <3>1, <3>2 DEF Holds
    <3> QED
      BY <2>1, <3>3 DEF Listed, BeginningOf, cb
  <2> QED
    BY <2>2, <2>3
<1>7. ASSUME NEW r \in Request PROVE OneOutcome(r)
  <2>1. /\ "complete" \in ListName /\ callbacks[r]["complete"].on
        /\ Len(callbacks[r]["complete"].list) = 0 /\ Len(asked[r]["complete"]) = 0
    BY <1>2, <1>3 DEF NewCallbacks, ListName
  <2>2. ASSUME NEW l \in {"done", "fail"}
        PROVE  /\ called[r][l] = <<>> /\ callbacks[r][l].index = 0
               /\ Len(callbacks[r][l].list) = Len(asked[r][l]) + 1
    <3>1. callbacks[r][l] = NewCallbacks(<<0>>) /\ asked[r][l] = <<>> /\ called[r][l] = <<>>
      BY <1>3 DEF ListName
    <3>2. callbacks[r][l].index = 0 /\ callbacks[r][l].list = <<0>>
      BY <3>1 DEF NewCallbacks
    <3> QED
      BY <1>2, <3>1, <3>2
  <2> QED
    BY <2>1, <2>2 DEF OneOutcome
<1> QED
  BY <1>4, <1>5, <1>6, <1>7 DEF ListInv

LEMMA ListStep == ListInv /\ [Next]_vars => ListInv'
<1> SUFFICES ASSUME ListInv, [Next]_vars PROVE ListInv'
  OBVIOUS
<1>1. CASE Handler
  BY <1>1, HandlersKeepLists
<1>2. CASE JQuery
  BY <1>2, Loops, StartKeepsLists, InstallKeepsLists, SendKeepsLists, EndKeepsLists,
     StatusKeepsLists, CountKeepsLists DEF JQuery
<1>3. CASE PageRuns \/ \E r \in Request : Answer(r) \/ TimesOut(r)
  BY <1>3, BrowserKeepsLists
<1>4. CASE UNCHANGED vars
  <2>1. Types' /\ NewLoopsFired /\ UNCHANGED <<callbacks, asked, called>>
    BY <1>4 DEF vars, ListInv, Types, NewLoopsFired
  <2> QED
    BY <2>1, ListsKept
<1> QED
  BY <1>1, <1>2, <1>3, <1>4 DEF Next

LEMMA ListInvariance == Spec => []ListInv
BY InitLists, ListStep, PTL DEF Spec

\* The handlers of a list are called in the order in which they were added,
\* and each at most once: those that are added while the list is fired, those
\* that are added by other handlers, after an abort or after a handler threw.
THEOREM InOrder == Spec => []CalledInOrder
<1>1. ListInv => CalledInOrder
  <2> SUFFICES ASSUME ListInv, NEW r \in Request, NEW l \in ListName
               PROVE  called[r][l] = SubSeq(asked[r][l], 1, Len(called[r][l]))
    BY DEF CalledInOrder
  <2> DEFINE a == asked[r][l]  c == called[r][l]
  <2>1. /\ a \in Seq(Nat) /\ c \in Seq(Nat) /\ Len(c) <= Len(a)
        /\ \A j \in 1 .. Len(c) : c[j] = a[j]
    BY ListTypes DEF ListInv, Listed, BeginningOf
  <2> HIDE DEF a, c
  <2>2. c = SubSeq(a, 1, Len(c))
    BY <2>1
  <2> QED
    BY <2>2 DEF a, c
<1> QED
  BY <1>1, ListInvariance, PTL

-----------------------------------------------------------------------------
(***************************************************************************)
(* The end of a request.                                                   *)
(***************************************************************************)
\* Nothing in s is about to start, or to send, a request.
Plain(s) == \A f \in Frames(s) : f.k = "send" => f.at = "install"

\* A request is started, and sent, by the frame on top, and by no other.
SendsOnTop ==
  stack # <<>> =>
    /\ Plain(Tail(stack))
    /\ Me.k = "send" =>
         /\ Me.at = "start" => state[Me.req] = 0 /\ ~counted[Me.req]
         /\ Me.at = "send" => state[Me.req] # 2

\* The frames of s that end a request.
Endings(s) == {f \in Frames(s) : f.k = "done"}

Ending(s, r) == \E f \in Endings(s) : f.req = r
EndingAt(s, r, at) == \E f \in Endings(s) : f.req = r /\ f.at \in at

\* At most one frame of s ends the same request.
OneEnding(s) ==
  \A i, j \in 1 .. Len(s) :
    s[i].k = "done" /\ s[j].k = "done" /\ s[i].req = s[j].req => i = j

\* done has gone on once for a request that is done, and its lists are fired
\* by the frame that ends it.
Ends(r) ==
  /\ dones[r] = IF state[r] = 2 THEN 1 ELSE 0
  /\ state[r] = -1 => ~counted[r]
  /\ Ending(stack, r) => state[r] = 2
  /\ state[r] # 2 \/ EndingAt(stack, r, {"settle"}) =>
       \A l \in ListName : Unfired(callbacks[r][l])
  /\ EndingAt(stack, r, {"status", "complete"}) => Unfired(callbacks[r]["complete"])

\* The state of the Deferred is the list that was fired.
Settles(r) ==
  \A l \in {"done", "fail"} :
    /\ settled[r] = l =>
         /\ callbacks[r][l].on /\ callbacks[r][l].memory
         /\ ~callbacks[r][Other(l)].on
    /\ settled[r] = "pending" => callbacks[r][l].on

\* If no handler has thrown, what is left to call is on the stack.
Tells(r) ==
  /\ state[r] = 2 /\ ~EndingAt(stack, r, {"settle"}) =>
       \E l \in {"done", "fail"} :
         /\ callbacks[r][l].on /\ callbacks[r][l].memory
         /\ settled[r] = "pending" => callbacks[r][l].firing
  /\ state[r] = 2 /\ ~EndingAt(stack, r, {"settle", "status", "complete"}) =>
       callbacks[r]["complete"].memory
  /\ \A l \in ListName : callbacks[r][l].firing => Fire(r, l) \in Frames(stack)

\* The requests that are in the count.
UnderWay == {r \in Request : counted[r] /\ (state[r] # 2 \/ Ending(stack, r))}

Counts ==
  /\ IsFiniteSet(UnderWay) /\ active >= Cardinality(UnderWay)
  /\ ~threw => active = Cardinality(UnderWay)

EndInv ==
  /\ ListInv /\ SendsOnTop /\ OneEnding(stack) /\ Counts
  /\ \A r \in Request : Ends(r) /\ Settles(r)
  /\ ~threw => \A r \in Request : Tells(r)

LEMMA EndingsFacts ==
  ASSUME NEW s \in Seq(Frame), NEW t \in Seq(Frame)
  PROVE  /\ Endings(<<>>) = {} /\ OneEnding(<<>>) /\ Plain(<<>>)
         /\ Endings(s \o t) = Endings(s) \cup Endings(t)
         /\ Plain(s) /\ Plain(t) => Plain(s \o t)
         /\ Endings(s) = {} => OneEnding(s)
<1>1. Frames(s \o t) = Frames(s) \cup Frames(t) /\ Frames(<<>>) = {} /\ Len(<<>>) = 0
  BY JoinedFrames, EmptyStack
<1>2. Endings(s) = {} => OneEnding(s)
  BY DEF Endings, OneEnding, Frames
<1> QED
  BY <1>1, <1>2 DEF Endings, Plain, OneEnding

LEMMA JoinedEndings ==
  ASSUME NEW s \in Seq(Frame), NEW t \in Seq(Frame), OneEnding(s), OneEnding(t),
         \A f \in Endings(s), g \in Endings(t) : f.req # g.req
  PROVE  OneEnding(s \o t)
<1> DEFINE u == s \o t
<1>1. /\ Len(s) \in Nat /\ Len(t) \in Nat /\ Len(u) = Len(s) + Len(t)
      /\ \A i \in 1 .. Len(s) : u[i] = s[i]
      /\ \A i \in 1 .. Len(t) : u[Len(s) + i] = t[i]
  OBVIOUS
<1> HIDE DEF u
<1>2. ASSUME NEW i \in 1 .. Len(u)
      PROVE  \/ i \in 1 .. Len(s) /\ u[i] = s[i]
             \/ i - Len(s) \in 1 .. Len(t) /\ u[i] = t[i - Len(s)]
  <2>1. CASE i <= Len(s)
    BY <1>1, <2>1
  <2>2. CASE i > Len(s)
    <3>1. i - Len(s) \in 1 .. Len(t) /\ i = Len(s) + (i - Len(s))
      BY <1>1, <2>2
    <3>2. u[i] = t[i - Len(s)]
      BY <1>1, <3>1
    <3> QED
      BY <3>1, <3>2
  <2> QED
    BY <1>1, <2>1, <2>2
<1>3. SUFFICES ASSUME NEW i \in 1 .. Len(u), NEW j \in 1 .. Len(u),
                      u[i].k = "done", u[j].k = "done", u[i].req = u[j].req
               PROVE  i = j
  BY DEF OneEnding, u
<1>4. \/ i \in 1 .. Len(s) /\ u[i] = s[i]
      \/ i - Len(s) \in 1 .. Len(t) /\ u[i] = t[i - Len(s)]
  BY <1>2
<1>5. \/ j \in 1 .. Len(s) /\ u[j] = s[j]
      \/ j - Len(s) \in 1 .. Len(t) /\ u[j] = t[j - Len(s)]
  BY <1>2
<1>6. CASE i \in 1 .. Len(s) /\ u[i] = s[i] /\ j \in 1 .. Len(s) /\ u[j] = s[j]
  BY <1>3, <1>6 DEF OneEnding
<1>7. CASE /\ i - Len(s) \in 1 .. Len(t) /\ u[i] = t[i - Len(s)]
           /\ j - Len(s) \in 1 .. Len(t) /\ u[j] = t[j - Len(s)]
  <2>1. i - Len(s) = j - Len(s)
    BY <1>3, <1>7 DEF OneEnding
  <2> QED
    BY <1>1, <2>1
<1>8. CASE /\ i \in 1 .. Len(s) /\ u[i] = s[i]
           /\ j - Len(s) \in 1 .. Len(t) /\ u[j] = t[j - Len(s)]
  BY <1>3, <1>8 DEF Endings, Frames
<1>9. CASE /\ j \in 1 .. Len(s) /\ u[j] = s[j]
           /\ i - Len(s) \in 1 .. Len(t) /\ u[i] = t[i - Len(s)]
  BY <1>3, <1>9 DEF Endings, Frames
<1> QED
  BY <1>4, <1>5, <1>6, <1>7, <1>8, <1>9

LEMMA TailEndings ==
  ASSUME NEW s \in Seq(Frame), s # <<>>, OneEnding(s)
  PROVE  /\ OneEnding(Tail(s))
         /\ Endings(s) = Endings(Tail(s)) \cup (IF Head(s).k = "done" THEN {Head(s)} ELSE {})
         /\ Head(s).k = "done" => \A f \in Endings(Tail(s)) : f.req # Head(s).req
<1> DEFINE t == Tail(s)
<1>1. /\ t \in Seq(Frame) /\ Len(s) \in Nat /\ Len(t) = Len(s) - 1 /\ Len(s) >= 1
      /\ \A i \in 1 .. Len(t) : t[i] = s[i + 1]
      /\ Head(s) = s[1]
  OBVIOUS
<1>2. Frames(s) = {Head(s)} \cup Frames(t)
  BY TopFrame
<1> HIDE DEF t
<1>3. OneEnding(t)
  <2> SUFFICES ASSUME NEW i \in 1 .. Len(t), NEW j \in 1 .. Len(t),
                      t[i].k = "done", t[j].k = "done", t[i].req = t[j].req
               PROVE  i = j
    BY DEF OneEnding
  <2>1. i + 1 \in 1 .. Len(s) /\ j + 1 \in 1 .. Len(s) /\ t[i] = s[i + 1] /\ t[j] = s[j + 1]
    BY <1>1
  <2>2. i + 1 = j + 1
    BY <2>1 DEF OneEnding
  <2> QED
    BY <1>1, <2>2
<1>4. ASSUME Head(s).k = "done", NEW f \in Endings(t), f.req = Head(s).req PROVE FALSE
  <2>1. PICK i \in 1 .. Len(t) : f = t[i]
    BY DEF Endings, Frames
  <2>2. i + 1 \in 1 .. Len(s) /\ 1 \in 1 .. Len(s) /\ f = s[i + 1] /\ f.k = "done"
    BY <1>1, <2>1 DEF Endings
  <2>3. i + 1 = 1
    BY <1>1, <1>4, <2>2 DEF OneEnding
  <2> QED
    BY <2>3
<1> QED
  BY <1>2, <1>3, <1>4 DEF Endings, t

\* s with a frame for the end of a request that has none.
LEMMA NewEnding ==
  ASSUME NEW f \in Frame, f.k = "done", NEW s \in Seq(Frame), OneEnding(s), ~Ending(s, f.req)
  PROVE  OneEnding(<<f>> \o s) /\ Endings(<<f>> \o s) = {f} \cup Endings(s)
<1>1. <<f>> \in Seq(Frame) /\ Frames(<<f>>) = {f}
  BY OneFrame
<1>2. OneEnding(<<f>>) /\ Endings(<<f>>) = {f}
  BY <1>1 DEF OneEnding, Endings
<1> QED
  BY <1>1, <1>2, JoinedEndings, EndingsFacts DEF Ending

\* s with frames before it that end nothing.
LEMMA OtherFrames ==
  ASSUME NEW p \in Seq(Frame), Endings(p) = {}, NEW s \in Seq(Frame), OneEnding(s)
  PROVE  OneEnding(p \o s) /\ Endings(p \o s) = Endings(s)
<1>1. OneEnding(p) /\ Endings(p \o s) = Endings(p) \cup Endings(s)
  BY EndingsFacts
<1> QED
  BY <1>1, JoinedEndings

-----------------------------------------------------------------------------
(***************************************************************************)
(* Every request has one end: the kinds of steps.                          *)
(***************************************************************************)
\* The loop of every list that is being fired is on the stack.
LoopsOnStack ==
  \A r \in Request, l \in ListName : callbacks[r][l].firing => Fire(r, l) \in Frames(stack)

\* What a step that adds to lists leaves of a request: what its lists are.
LEMMA GrowsKeeps ==
  ASSUME ListInv, NEW r \in Request, \A l \in ListName : Grows(r, l)
  PROVE  /\ \A l \in ListName : /\ callbacks'[r][l].on = callbacks[r][l].on
                                /\ callbacks'[r][l].memory = callbacks[r][l].memory
                                /\ callbacks[r][l].firing => callbacks'[r][l].firing
                                /\ Unfired(callbacks[r][l]) => Unfired(callbacks'[r][l])
BY GrowsFacts DEF Unfired

\* The loops of the lists of r are on the stack.
LoopsOf(r) == \A l \in ListName : callbacks[r][l].firing => Fire(r, l) \in Frames(stack)

\* A step that begins no end of r, goes on with none and comes to none.
LEMMA EndKept ==
  ASSUME EndInv, NEW r \in Request,
         Ending(stack, r)' <=> Ending(stack, r),
         \A at : EndingAt(stack', r, at) <=> EndingAt(stack, r, at),
         settled'[r] = settled[r], dones'[r] = dones[r], state'[r] = 2 <=> state[r] = 2,
         state'[r] = -1 => ~counted'[r],
         \A l \in ListName : Grows(r, l),
         ~threw' => ~threw /\ LoopsOf(r)'
  PROVE  Ends(r)' /\ Settles(r)' /\ (~threw' => Tells(r)')
<1>1. Ends(r) /\ Settles(r) /\ (~threw => Tells(r)) /\ ListInv
  BY DEF EndInv
<1>2. \A l \in ListName : /\ callbacks'[r][l].on = callbacks[r][l].on
                          /\ callbacks'[r][l].memory = callbacks[r][l].memory
                          /\ callbacks[r][l].firing => callbacks'[r][l].firing
                          /\ Unfired(callbacks[r][l]) => Unfired(callbacks'[r][l])
  BY <1>1, GrowsKeeps
<1>3. "complete" \in ListName /\ "done" \in ListName /\ "fail" \in ListName
  BY DEF ListName
<1>4. Ends(r)'
  BY <1>1, <1>2, <1>3 DEF Ends
<1>5. Settles(r)'
  BY <1>1, <1>2, OtherList DEF Settles
<1>6. ~threw' => Tells(r)'
  BY <1>1, <1>2, <1>3 DEF Tells, LoopsOf
<1> QED
  BY <1>4, <1>5, <1>6

LEMMA EndsKept ==
  ASSUME EndInv, Endings(stack') = Endings(stack), settled' = settled, dones' = dones,
         \A r \in Request : /\ state'[r] = 2 <=> state[r] = 2
                            /\ state'[r] = -1 => ~counted'[r],
         \A r \in Request, l \in ListName : Grows(r, l),
         ~threw' => ~threw /\ LoopsOnStack'
  PROVE  /\ \A r \in Request : Ends(r)' /\ Settles(r)'
         /\ ~threw' => \A r \in Request : Tells(r)'
<1> SUFFICES ASSUME NEW r \in Request
             PROVE  Ends(r)' /\ Settles(r)' /\ (~threw' => Tells(r)')
  OBVIOUS
<1>1. /\ Ending(stack, r)' <=> Ending(stack, r)
      /\ \A at : EndingAt(stack', r, at) <=> EndingAt(stack, r, at)
  BY DEF Ending, EndingAt
<1>2. ~threw' => ~threw /\ LoopsOf(r)'
  BY DEF LoopsOnStack, LoopsOf
<1> QED
  BY <1>1, <1>2, EndKept

\* A step that begins the end of r.
LEMMA EndBegins ==
  ASSUME EndInv, NEW r \in Request, state[r] # 2, NEW ok \in BOOLEAN,
         Endings(stack') = {Done(r, "settle", ok)} \cup Endings(stack),
         settled' = settled, counted' = counted,
         dones' = [dones EXCEPT ![r] = @ + 1], state' = [state EXCEPT ![r] = 2],
         \A q \in Request, l \in ListName : Grows(q, l),
         ~threw' => ~threw /\ LoopsOnStack'
  PROVE  /\ \A q \in Request : Ends(q)' /\ Settles(q)'
         /\ ~threw' => \A q \in Request : Tells(q)'
         /\ UnderWay' = UnderWay
<1> DEFINE f == Done(r, "settle", ok)
<1>1. f.k = "done" /\ f.req = r /\ f.at = "settle"
  BY DEF Done
<1>2. /\ dones \in [Request -> Nat] /\ state \in [Request -> -1 .. 2]
      /\ dones'[r] = dones[r] + 1 /\ state'[r] = 2
      /\ \A q \in Request : q # r => dones'[q] = dones[q] /\ state'[q] = state[q]
  BY DEF EndInv, ListInv, Types
<1> HIDE DEF f
<1>3. Endings(stack') = {f} \cup Endings(stack)
  BY DEF f
<1>4. ASSUME NEW q \in Request
      PROVE  /\ q # r => /\ Ending(stack', q) <=> Ending(stack, q)
                         /\ \A at : EndingAt(stack', q, at) <=> EndingAt(stack, q, at)
             /\ q = r => /\ Ending(stack', q)
                         /\ \A at : "settle" \in at => EndingAt(stack', q, at)
  BY <1>1, <1>3 DEF Ending, EndingAt
<1>5. "complete" \in ListName /\ "done" \in ListName /\ "fail" \in ListName
  BY DEF ListName
<1>6. ASSUME NEW q \in Request PROVE Ends(q)' /\ Settles(q)' /\ (~threw' => Tells(q)')
  <2>1. Ends(q) /\ Settles(q) /\ (~threw => Tells(q)) /\ ListInv
    BY DEF EndInv
  <2>2. \A l \in ListName : /\ callbacks'[q][l].on = callbacks[q][l].on
                            /\ callbacks'[q][l].memory = callbacks[q][l].memory
                            /\ callbacks[q][l].firing => callbacks'[q][l].firing
                            /\ Unfired(callbacks[q][l]) => Unfired(callbacks'[q][l])
    BY <2>1, GrowsKeeps
  <2>3. Settles(q)'
    BY <2>1, <2>2, OtherList DEF Settles
  <2>4. CASE q # r
    <3>1. Ends(q)'
      BY <1>2, <1>4, <1>5, <2>1, <2>2, <2>4 DEF Ends
    <3>2. ~threw' => Tells(q)'
      BY <1>2, <1>4, <1>5, <2>1, <2>2, <2>4 DEF Tells, LoopsOnStack
    <3> QED
      BY <2>3, <3>1, <3>2
  <2>5. CASE q = r
    <3>1. Ends(q)'
      BY <1>2, <1>4, <1>5, <2>1, <2>2, <2>5 DEF Ends
    <3>2. ~threw' => Tells(q)'
      BY <1>2, <1>4, <1>5, <2>2, <2>5 DEF Tells, LoopsOnStack
    <3> QED
      BY <2>3, <3>1, <3>2
  <2> QED
    BY <2>4, <2>5
<1>7. UnderWay' = UnderWay
  <2>1. ASSUME NEW q \in Request
        PROVE  (state'[q] # 2 \/ Ending(stack', q)) <=> (state[q] # 2 \/ Ending(stack, q))
    BY <1>2, <1>4
  <2> QED
    BY <2>1 DEF UnderWay
<1> QED
  BY <1>6, <1>7

LEMMA CountsKept ==
  ASSUME Counts, UnderWay' = UnderWay, active' = active, ~threw' => ~threw
  PROVE  Counts'
BY DEF Counts

\* The same, of a step that changes neither the states nor the ends.
LEMMA UnderWayKept ==
  ASSUME Endings(stack') = Endings(stack), counted' = counted,
         \A r \in Request : state'[r] = 2 <=> state[r] = 2
  PROVE  UnderWay' = UnderWay
<1>1. ASSUME NEW r \in Request
      PROVE  (state'[r] # 2 \/ Ending(stack', r)) <=> (state[r] # 2 \/ Ending(stack, r))
  BY DEF Ending
<1> QED
  BY <1>1 DEF UnderWay

LEMMA SendsKept ==
  ASSUME stack' \in Seq(Frame), Plain(stack')
  PROVE  SendsOnTop'
<1> SUFFICES ASSUME stack' # <<>>
             PROVE  Plain(Tail(stack')) /\ (Head(stack').k = "send" => Head(stack').at = "install")
  BY DEF SendsOnTop, Me
<1> QED
  BY TopFrame DEF Plain

LEMMA PlainStack ==
  ASSUME EndInv
  PROVE  /\ stack # <<>> => Plain(Tail(stack))
         /\ stack # <<>> /\ Me.k # "send" => Plain(stack)
         /\ stack = <<>> => Plain(stack)
<1>1. stack \in Seq(Frame) /\ SendsOnTop
  BY DEF EndInv, ListInv, Types
<1>2. ASSUME stack # <<>> PROVE Frames(stack) = {Me} \cup Frames(Tail(stack))
  BY <1>1, <1>2, TopFrame DEF Me
<1> QED
  BY <1>1, <1>2, EndingsFacts DEF SendsOnTop, Plain

\* A step of which done is the last call; s is the rest of the stack.
LEMMA CallsDoneKeeps ==
  ASSUME EndInv, ListInv', NEW r \in Request, NEW ok \in BOOLEAN, NEW s \in Seq(Frame),
         CallsDone(r, ok, s), OneEnding(s), Endings(s) = Endings(stack), Plain(s),
         UNCHANGED <<settled, counted, active, threw>>,
         \A q \in Request, l \in ListName : Grows(q, l),
         ~threw => \A q \in Request, l \in ListName :
                     callbacks'[q][l].firing => Fire(q, l) \in Frames(s)
  PROVE  EndInv'
<1> DEFINE f == Done(r, "settle", ok)
<1>1. f \in Frame /\ f.k = "done" /\ f.req = r
  BY FrameTypes DEF Done
<1>2. stack' \in Seq(Frame) /\ stack \in Seq(Frame)
  BY DEF EndInv, ListInv, Types
<1>3. /\ Ends(r) /\ Counts
      /\ \A q \in Request : Ends(q)
  BY DEF EndInv
<1>4. CASE DoneCalled(r)
  <2>1. /\ state' = [state EXCEPT ![r] = 2] /\ dones' = [dones EXCEPT ![r] = @ + 1]
        /\ stack' = <<f>> \o s /\ state[r] # 2
    BY <1>4 DEF CallsDone, DoneCalled
  <2> HIDE DEF f
  <2>2. ~Ending(s, r)
    BY <1>3, <2>1 DEF Ends, Ending
  <2>3. /\ OneEnding(stack') /\ Endings(stack') = {f} \cup Endings(stack)
        /\ Frames(stack') = {f} \cup Frames(s)
    BY <1>1, <2>1, <2>2, NewEnding, PushedFrame
  <2>4. Plain(stack')
    BY <1>1, <2>3 DEF Plain
  <2>5. ~threw' => ~threw /\ LoopsOnStack'
    BY <2>3 DEF LoopsOnStack
  <2>6. /\ \A q \in Request : Ends(q)' /\ Settles(q)'
        /\ ~threw' => \A q \in Request : Tells(q)'
        /\ UnderWay' = UnderWay
    BY <2>1, <2>3, <2>5, EndBegins DEF f
  <2>7. Counts'
    BY <1>3, <2>6, CountsKept
  <2>8. SendsOnTop'
    BY <1>2, <2>4, SendsKept
  <2> QED
    BY <2>3, <2>6, <2>7, <2>8 DEF EndInv
<1>5. CASE ~DoneCalled(r)
  <2>1. stack' = s /\ UNCHANGED <<state, dones>>
    BY <1>5 DEF CallsDone
  <2>2. ~threw' => ~threw /\ LoopsOnStack'
    BY <2>1 DEF LoopsOnStack
  <2>3. \A q \in Request : /\ state'[q] = 2 <=> state[q] = 2
                           /\ state'[q] = -1 => ~counted'[q]
    BY <1>3, <2>1 DEF Ends
  <2>4. /\ \A q \in Request : Ends(q)' /\ Settles(q)'
        /\ ~threw' => \A q \in Request : Tells(q)'
    BY <2>1, <2>2, <2>3, EndsKept
  <2>5. Counts'
    BY <1>3, <2>1, <2>3, UnderWayKept, CountsKept
  <2>6. SendsOnTop'
    BY <1>2, <2>1, SendsKept
  <2> QED
    BY <2>1, <2>4, <2>5, <2>6 DEF EndInv
<1> QED
  BY <1>4, <1>5

\* A step after which the stack has the same frames that end requests.
LEMMA PlainStep ==
  ASSUME EndInv, ListInv', Endings(stack') = Endings(stack), OneEnding(stack'),
         SendsOnTop', UNCHANGED <<settled, dones, counted, active>>,
         \A r \in Request : /\ state'[r] = 2 <=> state[r] = 2
                            /\ state'[r] = -1 => state[r] = -1,
         \A r \in Request, l \in ListName : Grows(r, l),
         threw' = threw, ~threw => LoopsOnStack'
  PROVE  EndInv'
<1>1. \A r \in Request : state'[r] = -1 => ~counted'[r]
  BY DEF EndInv, Ends
<1>2. /\ \A r \in Request : Ends(r)' /\ Settles(r)'
      /\ ~threw' => \A r \in Request : Tells(r)'
  BY <1>1, EndsKept
<1>3. Counts'
  BY UnderWayKept, CountsKept DEF EndInv
<1> QED
  BY <1>2, <1>3 DEF EndInv

LEMMA HandlersKeepEnds ==
  ASSUME EndInv, ListInv', Handler
  PROVE  EndInv'
<1>1. Running("user") /\ Types /\ ListInv
  BY DEF Handler, Asks, CallsAbort, AddsHandler, MayCall, Returns, ReturnsFalse, Throws,
         EndInv, ListInv
<1>2. /\ stack \in Seq(Frame) /\ stack # <<>> /\ Me.k = "user" /\ Me.req \in Request
      /\ Tail(stack) \in Seq(Frame) /\ Frames(stack) = {Me} \cup Frames(Tail(stack))
      /\ stack' \in Seq(Frame)
  BY <1>1, RunningFrame DEF Types, ListInv
<1>3. /\ OneEnding(stack) /\ Plain(stack) /\ Plain(Tail(stack)) /\ OneEnding(Tail(stack))
      /\ Endings(Tail(stack)) = Endings(stack)
  <2>1. OneEnding(stack) /\ Plain(stack) /\ Plain(Tail(stack))
    BY <1>2, PlainStack DEF EndInv
  <2>2. Head(stack).k # "done"
    BY <1>2 DEF Me
  <2>3. /\ OneEnding(Tail(stack))
        /\ Endings(stack) = Endings(Tail(stack))
                              \cup (IF Head(stack).k = "done" THEN {Head(stack)} ELSE {})
    BY <1>2, <2>1, TailEndings
  <2> QED
    BY <2>1, <2>2, <2>3
<1>4. \A r \in Request, l \in ListName :
        /\ Fire(r, l) \in Frames(stack) => Fire(r, l) \in Frames(Tail(stack))
        /\ ~threw => (callbacks[r][l].firing => Fire(r, l) \in Frames(stack))
  <2> SUFFICES ASSUME NEW r \in Request, NEW l \in ListName
               PROVE  /\ Fire(r, l) \in Frames(stack) => Fire(r, l) \in Frames(Tail(stack))
                      /\ ~threw => (callbacks[r][l].firing => Fire(r, l) \in Frames(stack))
    OBVIOUS
  <2>1. Fire(r, l).k = "fire"
    BY DEF Fire
  <2>2. ~threw => Tells(r)
    BY DEF EndInv
  <2> QED
    BY <1>2, <2>1, <2>2 DEF Tells
<1>5. ASSUME UNCHANGED <<callbacks, asked, called>>
      PROVE  \A r \in Request, l \in ListName : Grows(r, l)
  BY <1>5 DEF Grows
<1>6. ASSUME NEW r \in Request, Asks(r) PROVE EndInv'
  <2>1. /\ Send(r, "start") \in Frame /\ stack' = <<Send(r, "start")>> \o stack
        /\ state' = [state EXCEPT ![r] = 0] /\ threw' = threw /\ state[r] = -1
        /\ UNCHANGED <<option, settled, counted, transport, xhr, timer, callbacks, statusCode,
                       active, added, asked, called, dones>>
    BY <1>6, FrameTypes DEF Asks, MayCall, Made
  <2>2. /\ Frames(stack') = {Send(r, "start")} \cup Frames(stack)
        /\ stack' # <<>> /\ Head(stack') = Send(r, "start") /\ Tail(stack') = stack
    BY <1>2, <2>1, PushedFrame
  <2>3. Endings(stack') = Endings(stack) /\ OneEnding(stack')
    <3>1. /\ <<Send(r, "start")>> \in Seq(Frame)
          /\ Frames(<<Send(r, "start")>>) = {Send(r, "start")}
      BY <2>1, OneFrame
    <3>2. Endings(<<Send(r, "start")>>) = {}
      BY <3>1 DEF Endings, Send
    <3> QED
      BY <1>2, <1>3, <2>1, <3>1, <3>2, OtherFrames
  <2>4. \A q \in Request : /\ state'[q] = 2 <=> state[q] = 2
                           /\ state'[q] = -1 => state[q] = -1
    BY <1>1, <2>1 DEF Types
  <2>5. SendsOnTop'
    <3>1. state'[r] = 0 /\ ~counted'[r]
      BY <1>1, <2>1 DEF Types, EndInv, Ends
    <3> DEFINE f == Send(r, "start")
    <3>2. f.k = "send" /\ f.at = "start" /\ f.req = r
      BY DEF Send
    <3> HIDE DEF f
    <3>3. Head(stack') = f /\ Tail(stack') = stack
      BY <2>2 DEF f
    <3> QED
      BY <1>3, <3>1, <3>2, <3>3 DEF SendsOnTop, Me
  <2>6. ~threw => LoopsOnStack'
    BY <1>4, <2>1, <2>2 DEF LoopsOnStack
  <2> QED
    BY <1>5, <2>1, <2>3, <2>4, <2>5, <2>6, PlainStep
<1>7. ASSUME NEW r \in Request, CallsAbort(r) PROVE EndInv'
  <2>1. /\ CallsDone(r, FALSE, stack) /\ threw' = threw
        /\ UNCHANGED <<option, settled, counted, callbacks, statusCode, active, added, asked,
                       called>>
    BY <1>7 DEF CallsAbort, Aborts, MayCall
  <2> QED
    BY <1>2, <1>3, <1>4, <1>5, <2>1, CallsDoneKeeps
<1>8. ASSUME NEW r \in Request, NEW l \in ListName, AddsHandler(r, l) PROVE EndInv'
  <2> DEFINE p == IF Refires(callbacks[r][l]) THEN <<Fire(r, l)>> ELSE <<>>
             h == added + 1
  <2>1. /\ threw' = threw
        /\ asked' = [asked EXCEPT ![r][l] = Append(@, h)]
        /\ callbacks' = [callbacks EXCEPT ![r][l] = Added(@, h)]
        /\ stack' = p \o stack
        /\ UNCHANGED <<requestVars, active, called>>
    BY <1>8 DEF AddsHandler, MayCall
  <2>2. h \in Nat \ {0}
    BY <1>1 DEF Types
  <2> HIDE DEF h
  <2>3. \A q \in Request, m \in ListName : Grows(q, m)
    BY <1>1, <2>1, <2>2 DEF Grows, Types
  <2>4. /\ p \in Seq(Frame) /\ Plain(p) /\ Endings(p) = {}
        /\ Refires(callbacks[r][l]) => Fire(r, l) \in Frames(p)
    <3>1. Fire(r, l) \in Frame
      BY FrameTypes
    <3>2. <<Fire(r, l)>> \in Seq(Frame) /\ Frames(<<Fire(r, l)>>) = {Fire(r, l)}
      BY <3>1, OneFrame
    <3>3. <<>> \in Seq(Frame) /\ Frames(<<>>) = {}
      BY EmptyStack
    <3> QED
      BY <3>2, <3>3 DEF Plain, Endings, Fire
  <2> HIDE DEF p
  <2>5. /\ Frames(stack') = Frames(p) \cup Frames(stack) /\ Plain(stack')
        /\ OneEnding(stack') /\ Endings(stack') = Endings(stack)
    BY <1>2, <1>3, <2>1, <2>4, JoinedFrames, EndingsFacts, OtherFrames
  <2>6. SendsOnTop'
    BY <1>2, <2>5, SendsKept
  <2>7. ~threw => LoopsOnStack'
    <3> SUFFICES ASSUME ~threw, NEW q \in Request, NEW m \in ListName,
                        callbacks'[q][m].firing
                 PROVE  Fire(q, m) \in Frames(stack')
      BY DEF LoopsOnStack
    <3>1. CASE q = r /\ m = l
      <4>1. callbacks[r][l].firing \/ Refires(callbacks[r][l])
        BY <1>1, <2>3, <3>1, GrowsFacts
      <4> QED
        BY <1>4, <2>4, <2>5, <3>1, <4>1
    <3>2. CASE ~(q = r /\ m = l)
      <4>1. callbacks'[q][m] = callbacks[q][m]
        BY <1>1, <2>1, <3>2 DEF Types
      <4> QED
        BY <1>4, <2>5, <4>1
    <3> QED
      BY <3>1, <3>2
  <2>8. UNCHANGED <<settled, dones, counted, active, state>>
    BY <2>1 DEF requestVars
  <2> QED
    BY <2>1, <2>3, <2>5, <2>6, <2>7, <2>8, PlainStep
<1>9. CASE Returns
  <2>1. stack' = Tail(stack)
    BY <1>2, <1>9, NoFrames DEF Returns, Goes
  <2>2. UNCHANGED <<settled, dones, counted, active, state, callbacks, asked, called, threw>>
    BY <1>9 DEF Returns, requestVars
  <2>3. SendsOnTop'
    BY <1>2, <1>3, <2>1, SendsKept
  <2>4. ~threw => LoopsOnStack'
    BY <1>4, <2>1, <2>2 DEF LoopsOnStack
  <2> QED
    BY <1>3, <1>5, <2>1, <2>2, <2>3, <2>4, PlainStep
<1>10. CASE ReturnsFalse
  <2>1. /\ CallsDone(Me.req, FALSE, Tail(stack)) /\ threw' = threw
        /\ UNCHANGED <<option, settled, counted, callbacks, statusCode, active, added, asked,
                       called>>
    BY <1>10 DEF ReturnsFalse, Aborts
  <2> QED
    BY <1>2, <1>3, <1>4, <1>5, <2>1, CallsDoneKeeps
<1>11. CASE Throws
  <2>1. /\ stack' = <<>> /\ threw' = TRUE
        /\ UNCHANGED <<settled, dones, counted, active, state, callbacks, asked, called>>
    BY <1>11 DEF Throws, requestVars
  <2>2. Endings(stack') = {} /\ OneEnding(stack') /\ Plain(stack')
    BY <1>2, <2>1, EndingsFacts
  <2>3. ASSUME NEW r \in Request PROVE Ends(r)' /\ Settles(r)'
    <3>1. Ends(r) /\ Settles(r)
      BY DEF EndInv
    <3> QED
      BY <2>1, <2>2, <3>1 DEF Ends, Settles, Ending, EndingAt
  <2>4. Counts'
    <3>1. UnderWay' \in SUBSET UnderWay
      BY <2>1, <2>2 DEF UnderWay, Ending
    <3>2. /\ IsFiniteSet(UnderWay) /\ active >= Cardinality(UnderWay) /\ active \in Int
      BY <1>1 DEF EndInv, Counts, Types
    <3>3. IsFiniteSet(UnderWay') /\ Cardinality(UnderWay') <= Cardinality(UnderWay)
      BY <3>1, <3>2, FS_Subset
    <3>4. Cardinality(UnderWay) \in Nat /\ Cardinality(UnderWay') \in Nat
      BY <3>2, <3>3, FS_CardinalityType
    <3>5. active' >= Cardinality(UnderWay')
      BY <2>1, <3>2, <3>3, <3>4
    <3> QED
      BY <2>1, <3>3, <3>5 DEF Counts
  <2>5. SendsOnTop'
    BY <1>2, <2>2, SendsKept
  <2> QED
    BY <2>1, <2>2, <2>3, <2>4, <2>5 DEF EndInv
<1> QED
  BY <1>6, <1>7, <1>8, <1>9, <1>10, <1>11 DEF Handler

LEMMA BrowserKeepsEnds ==
  ASSUME EndInv, ListInv', PageRuns \/ \E r \in Request : Answer(r) \/ TimesOut(r)
  PROVE  EndInv'
<1>1. /\ Types /\ ListInv /\ stack = <<>> /\ stack \in Seq(Frame) /\ Frames(stack) = {}
      /\ stack' \in Seq(Frame) /\ Endings(stack) = {} /\ OneEnding(stack) /\ Plain(stack)
  BY EmptyStack, EndingsFacts DEF EndInv, ListInv, Types, PageRuns, Answer, TimesOut, Idle
<1>2. \A r \in Request, l \in ListName :
        ~threw => (callbacks[r][l].firing => Fire(r, l) \in Frames(stack))
  BY DEF EndInv, Tells
<1>3. ASSUME UNCHANGED <<callbacks, asked, called>>
      PROVE  \A r \in Request, l \in ListName : Grows(r, l)
  BY <1>3 DEF Grows
<1>4. CASE PageRuns
  <2> DEFINE q == CHOOSE r \in Request : TRUE
  <2>1. q \in Request
    BY AjaxAssumption
  <2>2. stack' = <<User("page", q)>>
    BY <1>4 DEF PageRuns
  <2> HIDE DEF q
  <2>3. User("page", q) \in Frame
    BY <2>1, FrameTypes
  <2>4. Frames(stack') = {User("page", q)}
    BY <2>2, <2>3, OneFrame
  <2>5. Endings(stack') = {} /\ Plain(stack')
    BY <2>4 DEF Endings, Plain, User
  <2>6. OneEnding(stack') /\ SendsOnTop'
    BY <1>1, <2>5, EndingsFacts, SendsKept
  <2>7. UNCHANGED <<settled, dones, counted, active, state, callbacks, asked, called, threw>>
    BY <1>4 DEF PageRuns, requestVars
  <2>8. ~threw => LoopsOnStack'
    BY <1>1, <1>2, <2>7 DEF LoopsOnStack
  <2> QED
    BY <1>1, <1>3, <2>5, <2>6, <2>7, <2>8, PlainStep
<1>5. ASSUME NEW r \in Request, Answer(r) PROVE EndInv'
  <2>1. PICK ok \in BOOLEAN : CallsDone(r, ok, <<>>)
    BY <1>5 DEF Answer
  <2>2. UNCHANGED <<settled, counted, callbacks, active, asked, called, threw>>
    BY <1>5 DEF Answer
  <2> QED
    BY <1>1, <1>2, <1>3, <2>1, <2>2, CallsDoneKeeps
<1>6. ASSUME NEW r \in Request, TimesOut(r) PROVE EndInv'
  <2>1. /\ CallsDone(r, FALSE, <<>>)
        /\ UNCHANGED <<settled, counted, callbacks, active, asked, called, threw>>
    BY <1>6 DEF TimesOut, Aborts
  <2> QED
    BY <1>1, <1>2, <1>3, <2>1, CallsDoneKeeps
<1> QED
  BY <1>4, <1>5, <1>6


-----------------------------------------------------------------------------
(***************************************************************************)
(* Every request has one end: the steps of jQuery.                         *)
(***************************************************************************)
\* The running frame goes on as the frames u.
LEMMA Becomes ==
  ASSUME EndInv, stack # <<>>, NEW u \in Seq(Frame), OneEnding(u),
         \A g \in Endings(u) : Me.k = "done" /\ g.req = Me.req,
         stack' = u \o Tail(stack)
  PROVE  /\ stack' \in Seq(Frame) /\ OneEnding(stack')
         /\ Frames(stack') = Frames(u) \cup Frames(Tail(stack))
         /\ Endings(stack') = Endings(u) \cup Endings(Tail(stack))
         /\ Plain(u) => Plain(stack') /\ SendsOnTop'
<1> DEFINE t == Tail(stack)
<1>1. stack \in Seq(Frame) /\ OneEnding(stack)
  BY DEF EndInv, ListInv, Types
<1>2. t \in Seq(Frame) /\ OneEnding(t) /\ Plain(t)
      /\ (Me.k = "done" => \A f \in Endings(t) : f.req # Me.req)
  BY <1>1, TopFrame, TailEndings, PlainStack DEF Me
<1>3. stack' = u \o t
  OBVIOUS
<1> HIDE DEF t
<1>4. \A f \in Endings(u), g \in Endings(t) : f.req # g.req
  BY <1>2
<1>5. OneEnding(stack') /\ Endings(stack') = Endings(u) \cup Endings(t)
      /\ stack' \in Seq(Frame) /\ Frames(stack') = Frames(u) \cup Frames(t)
  <2>1. OneEnding(stack')
    BY <1>2, <1>3, <1>4, JoinedEndings
  <2>2. Endings(stack') = Endings(u) \cup Endings(t)
    BY <1>2, <1>3, EndingsFacts
  <2>3. stack' \in Seq(Frame) /\ Frames(stack') = Frames(u) \cup Frames(t)
    BY <1>2, <1>3, JoinedFrames
  <2> QED
    BY <2>1, <2>2, <2>3
<1>6. Plain(u) => Plain(stack')
  BY <1>2, <1>5 DEF Plain
<1> QED
  BY <1>5, <1>6, SendsKept DEF t

\* p goes before f.
LEMMA Before ==
  ASSUME NEW p \in Seq(Frame), \A g \in Frames(p) : g.k \in {"user", "fire"}, NEW f \in Frame
  PROVE  LET u == p \o <<f>> IN
         /\ u \in Seq(Frame) /\ Frames(u) = Frames(p) \cup {f} /\ OneEnding(u)
         /\ Endings(u) = IF f.k = "done" THEN {f} ELSE {}
         /\ f.k # "send" \/ f.at = "install" => Plain(u)
<1> DEFINE u == p \o <<f>>
<1>1. <<f>> \in Seq(Frame) /\ Frames(<<f>>) = {f}
  BY OneFrame
<1>2. u \in Seq(Frame) /\ Frames(u) = Frames(p) \cup {f}
  BY <1>1, JoinedFrames
<1>3. Endings(p) = {} /\ OneEnding(<<f>>)
  BY DEF Endings, OneEnding
<1>4. OneEnding(u)
  BY <1>1, <1>3, OtherFrames
<1> HIDE DEF u
<1>5. Endings(u) = IF f.k = "done" THEN {f} ELSE {}
  BY <1>2 DEF Endings
<1>6. f.k # "send" \/ f.at = "install" => Plain(u)
  BY <1>2 DEF Plain
<1> QED
  BY <1>2, <1>4, <1>5, <1>6 DEF u

\* The loops stay on the stack, and a list that is fired anew gets one.
LEMMA LoopsKept ==
  ASSUME EndInv, ~threw, NEW s \in Seq(Frame),
         \A q \in Request, l \in ListName :
           /\ Grows(q, l)
           /\ \/ callbacks'[q][l] = callbacks[q][l]
              \/ ~Refires(callbacks[q][l])
              \/ Fire(q, l) \in Frames(s)
           /\ Fire(q, l) \in Frames(stack) => Fire(q, l) \in Frames(s)
  PROVE  \A q \in Request, l \in ListName :
           callbacks'[q][l].firing => Fire(q, l) \in Frames(s)
<1> SUFFICES ASSUME NEW q \in Request, NEW l \in ListName, callbacks'[q][l].firing
             PROVE  Fire(q, l) \in Frames(s)
  OBVIOUS
<1>1. ListInv /\ Tells(q)
  BY DEF EndInv
<1>2. callbacks[q][l].firing \/ Refires(callbacks[q][l])
  BY <1>1, GrowsFacts
<1>3. callbacks[q][l].firing => Fire(q, l) \in Frames(s)
  BY <1>1 DEF Tells
<1>4. callbacks'[q][l] = callbacks[q][l] => Fire(q, l) \in Frames(s)
  BY <1>3
<1> QED
  BY <1>2, <1>3, <1>4

LEMMA StartKeepsEnds ==
  ASSUME EndInv, ListInv', SendStarts
  PROVE  EndInv'
<1> DEFINE r == Me.req
           a == IF option[r].global /\ active = 0 THEN Calls("ajaxStart", r) ELSE <<>>
           b == Calls("beforeSend", r)
           p == a \o b
           f == Send(r, "install")
           u == p \o <<f>>
<1>1. /\ Types /\ ListInv /\ r \in Request /\ stack # <<>> /\ Me.k = "send" /\ Me.at = "start"
      /\ Frames(stack) = {Me} \cup Frames(Tail(stack)) /\ stack \in Seq(Frame)
  BY RunningFrame DEF SendStarts, EndInv, ListInv, Types
<1>2. /\ counted' = [counted EXCEPT ![r] = option[r].global]
      /\ active' = IF option[r].global THEN active + 1 ELSE active
      /\ stack' = u \o Tail(stack)
      /\ UNCHANGED <<option, state, settled, transport, xhr, timer, callbacks, statusCode,
                     added, asked, called, dones, calls, threw>>
  BY DEF SendStarts, Goes
<1>3. state[r] = 0 /\ counted[r] = FALSE
  BY <1>1 DEF EndInv, SendsOnTop, Types
<1>4. option[r].global \in BOOLEAN
  BY <1>1, AjaxAssumption DEF Types, Option
<1>5. /\ a \in Seq(Frame) /\ \A g \in Frames(a) : g = User("ajaxStart", r)
      /\ b \in Seq(Frame) /\ \A g \in Frames(b) : g = User("beforeSend", r)
  BY <1>1, CallsFrames, NoFrames DEF Hook
<1>6. f \in Frame /\ f.k = "send" /\ f.at = "install"
  BY <1>1, FrameTypes DEF Send
<1> HIDE DEF a, b, f
<1>7. p \in Seq(Frame) /\ Frames(p) = Frames(a) \cup Frames(b)
  BY <1>5, JoinedFrames
<1> HIDE DEF p
<1>8. \A g \in Frames(p) : g.k \in {"user", "fire"}
  BY <1>5, <1>7 DEF User
<1>9. u \in Seq(Frame) /\ OneEnding(u) /\ Endings(u) = {} /\ Plain(u)
  BY <1>6, <1>7, <1>8, Before
<1> HIDE DEF u
<1>10. /\ stack' \in Seq(Frame) /\ OneEnding(stack') /\ SendsOnTop'
       /\ Frames(stack') = Frames(u) \cup Frames(Tail(stack))
       /\ Endings(stack') = Endings(Tail(stack))
  BY <1>1, <1>2, <1>9, Becomes
<1>11. Endings(stack') = Endings(stack)
  BY <1>1, <1>10 DEF Endings
<1>12. \A q \in Request, l \in ListName : Grows(q, l)
  BY <1>2 DEF Grows
<1>13. ~threw' => ~threw /\ LoopsOnStack'
  <2> SUFFICES ASSUME ~threw PROVE LoopsOnStack'
    BY <1>2
  <2>1. \A q \in Request, l \in ListName :
          Fire(q, l) \in Frames(stack) => Fire(q, l) \in Frames(stack')
    BY <1>1, <1>10 DEF Fire
  <2> QED
    BY <1>2, <1>10, <1>12, <2>1, LoopsKept DEF LoopsOnStack
<1>14. \A q \in Request : /\ state'[q] = 2 <=> state[q] = 2
                          /\ state'[q] = -1 => ~counted'[q]
  <2> SUFFICES ASSUME NEW q \in Request, state'[q] = -1 PROVE ~counted'[q]
    BY <1>2
  <2>1. state[q] = -1 /\ q # r
    BY <1>2, <1>3
  <2> QED
    BY <1>1, <1>2, <2>1 DEF EndInv, Ends, Types
<1>15. /\ \A q \in Request : Ends(q)' /\ Settles(q)'
       /\ ~threw' => \A q \in Request : Tells(q)'
  BY <1>2, <1>11, <1>12, <1>13, <1>14, EndsKept
<1>16. Counts'
  <2>1. r \notin UnderWay /\ Counts /\ active \in Int
    BY <1>1, <1>3 DEF UnderWay, EndInv, Types
  <2>2. UnderWay' = IF option[r].global THEN UnderWay \cup {r} ELSE UnderWay
    <3>1. ASSUME NEW q \in Request
          PROVE  (state'[q] # 2 \/ Ending(stack', q)) <=> (state[q] # 2 \/ Ending(stack, q))
      BY <1>2, <1>11 DEF Ending
    <3>2. /\ counted'[r] = option[r].global /\ state'[r] # 2
          /\ \A q \in Request : q # r => counted'[q] = counted[q]
      BY <1>1, <1>2, <1>3 DEF Types
    <3> QED
      BY <1>1, <1>3, <1>4, <3>1, <3>2 DEF UnderWay
  <2>3. CASE option[r].global
    <3>1. /\ IsFiniteSet(UnderWay') /\ Cardinality(UnderWay') = Cardinality(UnderWay) + 1
          /\ Cardinality(UnderWay) \in Nat
      BY <2>1, <2>2, <2>3, FS_AddElement, FS_CardinalityType DEF Counts
    <3>2. active' = active + 1 /\ threw' = threw
      BY <1>2, <2>3
    <3> QED
      BY <2>1, <3>1, <3>2 DEF Counts
  <2>4. CASE ~option[r].global
    BY <1>2, <2>1, <2>2, <2>4, CountsKept
  <2> QED
    BY <2>3, <2>4
<1> QED
  BY <1>10, <1>15, <1>16 DEF EndInv

LEMMA InstallKeepsEnds ==
  ASSUME "ajaxSend" \notin Hooks, EndInv, ListInv', SendInstalls
  PROVE  EndInv'
<1> DEFINE r == Me.req
<1>1. /\ Types /\ ListInv /\ r \in Request /\ stack # <<>> /\ Me.k = "send" /\ Me.at = "install"
      /\ Frames(stack) = {Me} \cup Frames(Tail(stack)) /\ stack \in Seq(Frame)
      /\ Tail(stack) \in Seq(Frame)
  BY RunningFrame DEF SendInstalls, EndInv, ListInv, Types
<1>2. UNCHANGED <<option, settled, counted, xhr, statusCode, active, called, calls, threw>>
  BY DEF SendInstalls
<1>3. \A q \in Request, l \in ListName :
        Grows(q, l) /\ (q # r => callbacks'[q][l] = callbacks[q][l])
  BY <1>1, InstallKeepsLists
<1>4. /\ OneEnding(Tail(stack)) /\ Endings(Tail(stack)) = Endings(stack) /\ Plain(Tail(stack))
  <2>1. OneEnding(stack) /\ Head(stack).k # "done"
    BY <1>1 DEF EndInv, Me
  <2>2. /\ OneEnding(Tail(stack))
        /\ Endings(stack) = Endings(Tail(stack))
                              \cup (IF Head(stack).k = "done" THEN {Head(stack)} ELSE {})
    BY <1>1, <2>1, TailEndings
  <2>3. Plain(Tail(stack))
    BY <1>1, PlainStack
  <2> QED
    BY <2>1, <2>2, <2>3
<1>5. \A q \in Request, l \in ListName :
        Fire(q, l) \in Frames(stack) => Fire(q, l) \in Frames(Tail(stack))
  BY <1>1 DEF Fire
<1>6. CASE state[r] = 2
  <2>1. stack' = Tail(stack) /\ UNCHANGED <<state, transport, timer, dones, callbacks>>
    BY <1>1, <1>6, NoFrames DEF SendInstalls, Goes
  <2>2. ~threw => LoopsOnStack'
    BY <1>1, <1>3, <1>5, <2>1, LoopsKept DEF LoopsOnStack
  <2>3. SendsOnTop'
    BY <1>1, <1>4, <2>1, SendsKept
  <2> QED
    BY <1>2, <1>3, <1>4, <2>1, <2>2, <2>3, PlainStep
<1>7. CASE state[r] # 2
  <2>1. \A l \in ListName : ~Refires(callbacks[r][l])
    BY <1>1, <1>7 DEF EndInv, Ends, Unfired, Refires
  <2>2. ~threw => \A q \in Request, l \in ListName :
                    callbacks'[q][l].firing => Fire(q, l) \in Frames(Tail(stack))
    BY <1>1, <1>3, <1>5, <2>1, LoopsKept
  <2>3. CASE option[r].how = "cross"
    <3>1. CallsDone(r, FALSE, Tail(stack))
      BY <1>7, <2>3 DEF SendInstalls
    <3> QED
      BY <1>1, <1>2, <1>3, <1>4, <2>2, <3>1, CallsDoneKeeps
  <2>4. CASE option[r].how # "cross"
    <3> DEFINE f == Send(r, "send")
    <3>1. f \in Frame /\ f.k = "send" /\ f.at = "send" /\ f.req = r
      BY <1>1, FrameTypes DEF Send
    <3>2. stack' = <<f>> \o Tail(stack) /\ UNCHANGED <<state, timer, dones>>
      <4>1. (IF counted[r] THEN Calls("ajaxSend", r) ELSE <<>>) = <<>>
        BY DEF Calls
      <4>2. /\ stack' = ((IF counted[r] THEN Calls("ajaxSend", r) ELSE <<>>) \o <<f>>)
                          \o Tail(stack)
            /\ UNCHANGED <<state, timer, dones>>
        BY <1>7, <2>4 DEF SendInstalls, Goes
      <4>3. <<>> \o <<f>> = <<f>>
        BY <3>1, OneFrame, NoFrames
      <4> QED
        BY <4>1, <4>2, <4>3
    <3> HIDE DEF f
    <3>3. /\ Frames(stack') = {f} \cup Frames(Tail(stack)) /\ stack' # <<>>
          /\ Head(stack') = f /\ Tail(stack') = Tail(stack) /\ <<f>> \in Seq(Frame)
          /\ Frames(<<f>>) = {f}
      BY <1>1, <3>1, <3>2, PushedFrame, OneFrame
    <3>4. Endings(<<f>>) = {}
      BY <3>1, <3>3 DEF Endings
    <3>5. Endings(stack') = Endings(stack) /\ OneEnding(stack')
      BY <1>1, <1>4, <3>2, <3>3, <3>4, OtherFrames
    <3>6. SendsOnTop'
      BY <1>1, <1>4, <1>7, <3>1, <3>2, <3>3 DEF SendsOnTop, Me
    <3>7. ~threw => LoopsOnStack'
      BY <2>2, <3>3 DEF LoopsOnStack
    <3> QED
      BY <1>2, <1>3, <3>2, <3>5, <3>6, <3>7, PlainStep
  <2> QED
    BY <2>3, <2>4
<1> QED
  BY <1>6, <1>7

LEMMA SendKeepsEnds ==
  ASSUME EndInv, ListInv', SendSends
  PROVE  EndInv'
<1> DEFINE r == Me.req  t == Tail(stack)
<1>1. /\ Types /\ ListInv /\ r \in Request /\ stack # <<>> /\ Me.k = "send" /\ Me.at = "send"
      /\ Frames(stack) = {Me} \cup Frames(t) /\ stack \in Seq(Frame) /\ t \in Seq(Frame)
  BY RunningFrame DEF SendSends, EndInv, ListInv, Types
<1>2. UNCHANGED <<option, settled, counted, callbacks, statusCode, active, added, asked,
                  called, calls, threw>>
  BY DEF SendSends
<1>3. \A q \in Request, l \in ListName : Grows(q, l)
  BY <1>2 DEF Grows
<1>4. /\ OneEnding(t) /\ Endings(t) = Endings(stack) /\ Plain(t)
  <2>1. OneEnding(stack) /\ Head(stack).k # "done"
    BY <1>1 DEF EndInv, Me
  <2>2. /\ OneEnding(Tail(stack))
        /\ Endings(stack) = Endings(Tail(stack))
                              \cup (IF Head(stack).k = "done" THEN {Head(stack)} ELSE {})
    BY <1>1, <2>1, TailEndings
  <2>3. Plain(Tail(stack))
    BY <1>1, PlainStack
  <2> QED
    BY <2>1, <2>2, <2>3
<1>5. \A q \in Request, l \in ListName :
        Fire(q, l) \in Frames(stack) => Fire(q, l) \in Frames(t)
  BY <1>1 DEF Fire
<1>6. state[r] # 2
  BY <1>1 DEF EndInv, SendsOnTop
<1>7. ~threw => \A q \in Request, l \in ListName :
                  callbacks'[q][l].firing => Fire(q, l) \in Frames(t)
  BY <1>1, <1>2, <1>3, <1>5, LoopsKept
<1>8. CASE /\ state' = [state EXCEPT ![r] = 1] /\ Goes(<<>>) /\ UNCHANGED dones
  <2>1. stack' = t
    BY <1>1, <1>8, NoFrames DEF Goes
  <2> HIDE DEF t
  <2>2. SendsOnTop' /\ (~threw => LoopsOnStack')
    BY <1>1, <1>4, <1>7, <2>1, SendsKept DEF LoopsOnStack
  <2>3. \A q \in Request : /\ state'[q] = 2 <=> state[q] = 2
                           /\ state'[q] = -1 => state[q] = -1
    BY <1>1, <1>6, <1>8 DEF Types
  <2> QED
    BY <1>2, <1>3, <1>4, <1>8, <2>1, <2>2, <2>3, PlainStep
<1>9. ASSUME NEW ok \in BOOLEAN, state' = [state EXCEPT ![r] = 2],
             dones' = [dones EXCEPT ![r] = @ + 1], Goes(<<Done(r, "settle", ok)>>)
      PROVE  EndInv'
  <2> DEFINE f == Done(r, "settle", ok)
  <2>2. f \in Frame /\ f.k = "done" /\ f.req = r /\ stack' = <<f>> \o t
    BY <1>1, <1>9, FrameTypes DEF Done, Goes
  <2> HIDE DEF f, t
  <2>3. ~Ending(t, r)
    BY <1>1, <1>4, <1>6 DEF EndInv, Ends, Ending
  <2>4. /\ OneEnding(stack') /\ Endings(stack') = {f} \cup Endings(stack)
        /\ Frames(stack') = {f} \cup Frames(t) /\ stack' \in Seq(Frame)
    BY <1>1, <1>4, <2>2, <2>3, NewEnding, PushedFrame
  <2>5. SendsOnTop'
    <3>1. Plain(stack')
      BY <1>4, <2>2, <2>4 DEF Plain
    <3> QED
      BY <2>4, <3>1, SendsKept
  <2>6. ~threw' => ~threw /\ LoopsOnStack'
    BY <1>2, <1>7, <2>4 DEF LoopsOnStack
  <2>7. /\ \A q \in Request : Ends(q)' /\ Settles(q)'
        /\ ~threw' => \A q \in Request : Tells(q)'
        /\ UnderWay' = UnderWay
    BY <1>1, <1>2, <1>3, <1>6, <1>9, <2>4, <2>6, EndBegins DEF f
  <2>8. Counts'
    BY <1>2, <2>7, CountsKept DEF EndInv
  <2> QED
    BY <2>4, <2>5, <2>7, <2>8 DEF EndInv
<1> QED
  BY <1>8, <1>9 DEF SendSends

\* The end of the request of the running frame goes on as the frames u.
LEMMA DoneStep ==
  ASSUME EndInv, ListInv', Running("done"), NEW r \in Request, r = Me.req, NEW u \in Seq(Frame), OneEnding(u), Plain(u),
         \A g \in Endings(u) : g.req = r, stack' = u \o Tail(stack),
         \/ Endings(u) # {} /\ active' = active
         \/ Endings(u) = {} /\ active' = active - (IF counted[r] THEN 1 ELSE 0),
         UNCHANGED <<state, settled, dones, counted, threw>>,
         \A q \in Request, l \in ListName : q # r =>
           /\ callbacks'[q][l] = callbacks[q][l] /\ asked'[q][l] = asked[q][l]
           /\ called'[q][l] = called[q][l],
         Ends(r)', Settles(r)', ~threw => Tells(r)'
  PROVE  EndInv'
<1> DEFINE t == Tail(stack)
<1>1. /\ Types /\ ListInv /\ r \in Request /\ stack # <<>> /\ Me.k = "done" /\ Me \in Frame
      /\ Frames(stack) = {Me} \cup Frames(t) /\ stack \in Seq(Frame) /\ t \in Seq(Frame)
  BY RunningFrame DEF EndInv, ListInv, Types
<1>2. /\ OneEnding(stack') /\ SendsOnTop' /\ Frames(stack') = Frames(u) \cup Frames(t)
      /\ Endings(stack') = Endings(u) \cup Endings(t)
  BY <1>1, Becomes
<1>3. Endings(stack) = Endings(t) \cup {Me} /\ \A f \in Endings(t) : f.req # r
  BY <1>1, TailEndings DEF EndInv, Me
<1> HIDE DEF t
<1>4. ASSUME NEW q \in Request, q # r
      PROVE  /\ Ending(stack', q) <=> Ending(stack, q)
             /\ \A at : EndingAt(stack', q, at) <=> EndingAt(stack, q, at)
  BY <1>2, <1>3, <1>4 DEF Ending, EndingAt
<1>5. Ending(stack, r) /\ (Ending(stack', r) <=> Endings(u) # {})
  BY <1>2, <1>3 DEF Ending
<1>6. ASSUME NEW q \in Request, q # r PROVE Ends(q)' /\ Settles(q)' /\ (~threw' => Tells(q)')
  <2>1. \A l \in ListName : Grows(q, l)
    BY <1>6 DEF Grows
  <2>2. ~threw' => ~threw /\ LoopsOf(q)'
    <3> SUFFICES ASSUME ~threw, NEW l \in ListName, callbacks'[q][l].firing
                 PROVE  Fire(q, l) \in Frames(stack')
      BY DEF LoopsOf
    <3>1. Fire(q, l) \in Frames(stack)
      BY <1>6 DEF EndInv, Tells
    <3> QED
      BY <1>1, <1>2, <3>1 DEF Fire
  <2>3. state'[q] = -1 => ~counted'[q]
    BY DEF EndInv, Ends
  <2> QED
    BY <1>4, <1>6, <2>1, <2>2, <2>3, EndKept
<1>7. Counts'
  <2>1. Counts /\ active \in Int /\ state[r] = 2
    BY <1>1, <1>5 DEF EndInv, Types, Ends
  <2>2. CASE Endings(u) # {}
    <3>1. \A q \in Request : Ending(stack', q) <=> Ending(stack, q)
      BY <1>4, <1>5, <2>2
    <3>2. UnderWay' = UnderWay
      BY <3>1 DEF UnderWay
    <3> QED
      BY <2>1, <2>2, <3>2, CountsKept
  <2>3. CASE Endings(u) = {}
    <3>1. UnderWay' = UnderWay \ {r}
      BY <1>4, <1>5, <2>1, <2>3 DEF UnderWay
    <3>2. counted[r] \in BOOLEAN /\ (counted[r] <=> r \in UnderWay)
      BY <1>1, <1>5 DEF UnderWay, Types
    <3>3. /\ IsFiniteSet(UnderWay') /\ Cardinality(UnderWay) \in Nat
          /\ Cardinality(UnderWay') =
               IF r \in UnderWay THEN Cardinality(UnderWay) - 1 ELSE Cardinality(UnderWay)
      BY <2>1, <3>1, FS_RemoveElement, FS_CardinalityType DEF Counts
    <3>4. active' = IF r \in UnderWay THEN active - 1 ELSE active
      BY <2>1, <2>3, <3>2
    <3>5. ~threw' => active = Cardinality(UnderWay)
      BY <2>1 DEF Counts
    <3>6. active >= Cardinality(UnderWay)
      BY <2>1 DEF Counts
    <3>7. active' >= Cardinality(UnderWay') /\ (~threw' => active' = Cardinality(UnderWay'))
      <4>1. CASE r \in UnderWay
        BY <2>1, <3>3, <3>4, <3>5, <3>6, <4>1
      <4>2. CASE r \notin UnderWay
        BY <2>1, <3>3, <3>4, <3>5, <3>6, <4>2
      <4> QED
        BY <4>1, <4>2
    <3> QED
      BY <3>3, <3>7 DEF Counts
  <2> QED
    BY <2>2, <2>3
<1> QED
  BY <1>2, <1>6, <1>7 DEF EndInv

\* What the running frame of the end of a request knows.
LEMMA EndingFrame ==
  ASSUME EndInv, Running("done")
  PROVE  LET r == Me.req IN
         /\ Types /\ ListInv /\ r \in Request /\ Me \in Frame /\ Me.ok \in BOOLEAN
         /\ Tail(stack) \in Seq(Frame) /\ Frames(stack) = {Me} \cup Frames(Tail(stack))
         /\ state[r] = 2 /\ Ends(r) /\ Settles(r) /\ (~threw => Tells(r))
         /\ \A at : EndingAt(stack, r, at) <=> Me.at \in at
         /\ \A u \in Seq(Frame) : stack' = u \o Tail(stack) =>
              /\ Frames(stack') = Frames(u) \cup Frames(Tail(stack))
              /\ \A at : EndingAt(stack', r, at) <=> EndingAt(u, r, at)
         /\ \A l \in ListName : Fire(r, l) \in Frames(stack) =>
              Fire(r, l) \in Frames(Tail(stack))
<1> DEFINE r == Me.req  t == Tail(stack)
<1>1. /\ Types /\ ListInv /\ r \in Request /\ stack # <<>> /\ Me.k = "done" /\ Me \in Frame
      /\ Frames(stack) = {Me} \cup Frames(t) /\ stack \in Seq(Frame) /\ t \in Seq(Frame)
      /\ OneEnding(stack)
  BY RunningFrame DEF EndInv, ListInv, Types
<1>2. Me.ok \in BOOLEAN
  BY <1>1 DEF Frame
<1>3. Endings(stack) = Endings(t) \cup {Me} /\ \A f \in Endings(t) : f.req # r
  BY <1>1, TailEndings DEF Me
<1>4. Ends(r) /\ Settles(r) /\ (~threw => Tells(r))
  BY <1>1 DEF EndInv
<1>5. state[r] = 2 /\ \A at : EndingAt(stack, r, at) <=> Me.at \in at
  BY <1>3, <1>4 DEF Ends, Ending, EndingAt
<1>6. ASSUME NEW u \in Seq(Frame), stack' = u \o t
      PROVE  /\ Frames(stack') = Frames(u) \cup Frames(t)
             /\ \A at : EndingAt(stack', r, at) <=> EndingAt(u, r, at)
  <2>1. /\ Frames(stack') = Frames(u) \cup Frames(t)
        /\ Endings(stack') = Endings(u) \cup Endings(t)
    BY <1>1, <1>6, JoinedFrames, EndingsFacts
  <2> QED
    BY <1>3, <2>1 DEF EndingAt
<1>7. \A l \in ListName : Fire(r, l) \in Frames(stack) => Fire(r, l) \in Frames(t)
  BY <1>1 DEF Fire
<1> QED
  BY <1>1, <1>2, <1>4, <1>5, <1>6, <1>7

LEMMA SettleKeepsEnds ==
  ASSUME EndInv, ListInv', DoneSettles
  PROVE  EndInv'
<1>1. Running("done") /\ Me.at = "settle"
  BY DEF DoneSettles
<1>0. PICK r \in Request : r = Me.req
  BY <1>1, EndingFrame
<1> DEFINE l == IF Me.ok THEN "done" ELSE "fail"
           f == Done(r, "status", Me.ok)
           u == <<Fire(r, l)>> \o <<f>>
<1>2. /\ Types /\ ListInv /\ r \in Request /\ Me.ok \in BOOLEAN /\ Tail(stack) \in Seq(Frame)
      /\ state[r] = 2 /\ Ends(r) /\ Settles(r)
      /\ \A at : EndingAt(stack, r, at) <=> Me.at \in at
  BY <1>0, <1>1, EndingFrame
<1>3. l \in {"done", "fail"} /\ l \in ListName
  BY DEF ListName
<1>4. \A m \in ListName : Unfired(callbacks[r][m])
  BY <1>1, <1>2 DEF Ends
<1>5. \A m \in ListName : ~callbacks[r][m].firing
  BY <1>2, <1>4 DEF ListInv, Listed, Unfired
<1>6. Fires(callbacks[r][l])
  BY <1>3, <1>4, <1>5 DEF Fires, Unfired
<1>7. /\ callbacks' = [callbacks EXCEPT ![r][l] = Fired(@)] /\ stack' = u \o Tail(stack)
      /\ UNCHANGED <<requestVars, active, added, asked, called, calls, threw>>
  BY <1>0, <1>6 DEF DoneSettles, FiresList, Goes
<1>8. f \in Frame /\ f.k = "done" /\ f.req = r /\ f.at = "status"
  BY <1>2, FrameTypes DEF Done
<1>9. /\ <<Fire(r, l)>> \in Seq(Frame) /\ Frames(<<Fire(r, l)>>) = {Fire(r, l)}
      /\ \A g \in Frames(<<Fire(r, l)>>) : g.k \in {"user", "fire"}
  <2>1. Fire(r, l) \in Frame /\ Fire(r, l).k = "fire"
    BY <1>2, <1>3, FrameTypes DEF Fire
  <2> QED
    BY <2>1, OneFrame
<1> HIDE DEF f, l
<1>10. /\ u \in Seq(Frame) /\ Frames(u) = {Fire(r, l)} \cup {f} /\ OneEnding(u) /\ Plain(u)
       /\ Endings(u) = {f}
  BY <1>8, <1>9, Before
<1> HIDE DEF u
<1>11. /\ Frames(stack') = Frames(u) \cup Frames(Tail(stack))
       /\ \A at : EndingAt(stack', r, at) <=> EndingAt(u, r, at)
  BY <1>0, <1>1, <1>7, <1>10, EndingFrame
<1>12. \A at : EndingAt(stack', r, at) <=> "status" \in at
  BY <1>8, <1>10, <1>11 DEF EndingAt
<1>13. /\ callbacks[r][l] \in Callbacks
       /\ callbacks'[r][l] = Fired(callbacks[r][l])
       /\ callbacks'[r][l].on /\ callbacks'[r][l].memory /\ callbacks'[r][l].firing
       /\ \A q \in Request, m \in ListName : q # r \/ m # l =>
            callbacks'[q][m] = callbacks[q][m]
  <2>1. callbacks'[r][l] = Fired(callbacks[r][l])
    BY <1>2, <1>3, <1>7 DEF Types
  <2>2. /\ callbacks[r][l] \in Callbacks /\ asked[r][l] \in Seq(Nat) /\ called[r][l] \in Seq(Nat)
        /\ Listed(callbacks[r][l], asked[r][l], called[r][l])
    BY <1>2, <1>3, ListTypes DEF ListInv
  <2>3. /\ Fired(callbacks[r][l]).on /\ Fired(callbacks[r][l]).memory
        /\ Fired(callbacks[r][l]).firing
    BY <1>6, <2>2, ListFired
  <2>4. \A q \in Request, m \in ListName : q # r \/ m # l =>
          callbacks'[q][m] = callbacks[q][m]
    BY <1>2, <1>3, <1>7 DEF Types
  <2> QED
    BY <2>1, <2>2, <2>3, <2>4
<1>14. "complete" \in ListName /\ l # "complete" /\ "done" \in ListName /\ "fail" \in ListName
  BY <1>3 DEF ListName
<1>15. UNCHANGED <<state, settled, dones, counted>>
  BY <1>7 DEF requestVars
<1>16. Ends(r)'
  <2>1. Unfired(callbacks'[r]["complete"])
    BY <1>2, <1>4, <1>13, <1>14
  <2> QED
    BY <1>2, <1>12, <1>15, <2>1 DEF Ends
<1>17. Settles(r)'
  <2>1. settled[r] = "pending"
    BY <1>2, <1>4, <1>14 DEF Settles, Unfired, Types
  <2>2. \A m \in {"done", "fail"} : callbacks'[r][m].on
    BY <1>2, <1>4, <1>13, <1>14 DEF Unfired
  <2> QED
    BY <1>15, <2>1, <2>2 DEF Settles
<1>18. Tells(r)'
  <2>1. \A m \in ListName : callbacks'[r][m].firing => Fire(r, m) \in Frames(stack')
    <3> SUFFICES ASSUME NEW m \in ListName, callbacks'[r][m].firing
                 PROVE  Fire(r, m) \in Frames(stack')
      OBVIOUS
    <3>1. m = l
      BY <1>2, <1>5, <1>13
    <3> QED
      BY <1>10, <1>11, <3>1
  <2> QED
    BY <1>3, <1>12, <1>13, <2>1 DEF Tells
<1> QED
  BY <1>0, <1>1, <1>7, <1>8, <1>10, <1>13, <1>15, <1>16, <1>17, <1>18, DoneStep

LEMMA StatusKeepsEnds ==
  ASSUME EndInv, ListInv', DoneStatus
  PROVE  EndInv'
<1>1. Running("done") /\ Me.at = "status"
  BY DEF DoneStatus
<1>0. PICK r \in Request : r = Me.req
  BY <1>1, EndingFrame
<1> DEFINE again == {m \in {"done", "fail"} : Refires(callbacks[r][m])}
           o == CHOOSE m \in again : TRUE
           a == IF statusCode[r] /\ again # {} THEN <<Fire(r, o)>> ELSE <<>>
           b == IF counted[r] THEN Calls(IF Me.ok THEN "ajaxSuccess" ELSE "ajaxError", r)
                ELSE <<>>
           f == Done(r, "complete", Me.ok)
           p == a \o b
           u == p \o <<f>>
<1>2. /\ Types /\ ListInv /\ r \in Request /\ Me.ok \in BOOLEAN /\ Tail(stack) \in Seq(Frame)
      /\ state[r] = 2 /\ Ends(r) /\ Settles(r) /\ (~threw => Tells(r))
      /\ \A at : EndingAt(stack, r, at) <=> Me.at \in at
  BY <1>0, <1>1, EndingFrame
<1>3. /\ stack' = u \o Tail(stack) /\ active' = active
      /\ UNCHANGED <<state, settled, dones, counted, called, threw>>
  BY SMTT(30), <1>0 DEF DoneStatus, Goes
<1>4. \A q \in Request, m \in ListName :
        /\ Grows(q, m)
        /\ q # r \/ m = "complete" \/ ~statusCode[r] =>
             callbacks'[q][m] = callbacks[q][m] /\ asked'[q][m] = asked[q][m]
  BY <1>0, <1>2, StatusKeepsLists
<1>5. \A m \in again : o = m
  <2> SUFFICES ASSUME NEW m \in again, o # m PROVE FALSE
    OBVIOUS
  <2>1. o \in again
    OBVIOUS
  <2> HIDE DEF o
  <2>2. m \in {"done", "fail"} /\ o = Other(m) /\ Refires(callbacks[r][m])
        /\ Refires(callbacks[r][Other(m)])
    BY <2>1 DEF Other
  <2>3. Len(callbacks[r][m].list) = Len(asked[r][m]) + 1 /\ m \in ListName
    BY <1>2, <2>2, OtherList DEF ListInv, OneOutcome, Refires
  <2>4. /\ callbacks[r][m].list = <<>> /\ asked[r][m] \in Seq(Nat)
    BY <1>2, <2>2, <2>3, ListTypes DEF ListInv, Listed, Refires
  <2>5. Len(callbacks[r][m].list) = 0 /\ Len(asked[r][m]) \in Nat
    BY <2>4, NoList
  <2> QED
    BY <2>3, <2>5
<1>6. /\ a \in Seq(Frame) /\ \A g \in Frames(a) : g.k = "fire"
      /\ statusCode[r] => \A m \in again : Fire(r, m) \in Frames(a)
  <2>1. CASE statusCode[r] /\ again # {}
    <3>1. o \in again
      BY <2>1
    <3>2. a = <<Fire(r, o)>>
      BY <2>1
    <3> HIDE DEF a, o
    <3>3. Fire(r, o) \in Frame /\ Fire(r, o).k = "fire"
      BY <1>2, <3>1, FrameTypes DEF Fire, ListName
    <3> QED
      BY <1>5, <3>2, <3>3, OneFrame
  <2>2. CASE ~(statusCode[r] /\ again # {})
    <3>1. a = <<>>
      BY <2>2
    <3> HIDE DEF a, again
    <3> QED
      BY <2>2, <3>1, EmptyStack
  <2> QED
    BY <2>1, <2>2
<1>7. b \in Seq(Frame) /\ \A g \in Frames(b) : g.k = "user"
  BY <1>2, CallsFrames, NoFrames DEF Hook, User
<1>8. f \in Frame /\ f.k = "done" /\ f.req = r /\ f.at = "complete"
  BY <1>2, FrameTypes DEF Done
<1> HIDE DEF a, b, f
<1>9. p \in Seq(Frame) /\ Frames(p) = Frames(a) \cup Frames(b)
  BY <1>6, <1>7, JoinedFrames
<1> HIDE DEF p
<1>10. \A g \in Frames(p) : g.k \in {"user", "fire"}
  BY <1>6, <1>7, <1>9
<1>11. /\ u \in Seq(Frame) /\ Frames(u) = Frames(p) \cup {f} /\ OneEnding(u) /\ Plain(u)
       /\ Endings(u) = {f}
  BY <1>8, <1>9, <1>10, Before
<1> HIDE DEF u
<1>12. /\ Frames(stack') = Frames(u) \cup Frames(Tail(stack))
       /\ \A at : EndingAt(stack', r, at) <=> EndingAt(u, r, at)
  BY <1>0, <1>1, <1>3, <1>11, EndingFrame
<1>13. \A at : EndingAt(stack', r, at) <=> "complete" \in at
  BY <1>8, <1>11, <1>12 DEF EndingAt
<1>14. \A m \in ListName : /\ callbacks'[r][m].on = callbacks[r][m].on
                           /\ callbacks'[r][m].memory = callbacks[r][m].memory
                           /\ callbacks[r][m].firing => callbacks'[r][m].firing
                           /\ Unfired(callbacks[r][m]) => Unfired(callbacks'[r][m])
  BY <1>2, <1>4, GrowsKeeps
<1>15. "complete" \in ListName /\ "done" \in ListName /\ "fail" \in ListName
  BY DEF ListName
<1>16. Unfired(callbacks[r]["complete"]) /\ Ends(r)'
  <2>1. Unfired(callbacks[r]["complete"])
    BY <1>1, <1>2 DEF Ends
  <2> QED
    BY <1>2, <1>3, <1>13, <1>14, <1>15, <2>1 DEF Ends
<1>17. Settles(r)'
  BY <1>2, <1>3, <1>14, OtherList DEF Settles
<1>18. ASSUME ~threw PROVE Tells(r)'
  <2>1. ASSUME NEW m \in ListName, callbacks'[r][m].firing
        PROVE  Fire(r, m) \in Frames(stack')
    <3>1. callbacks[r][m].firing \/ Refires(callbacks[r][m])
      BY <1>2, <1>4, <2>1, GrowsFacts
    <3>2. CASE callbacks[r][m].firing
      <4>1. Fire(r, m) \in Frames(stack)
        BY <1>2, <1>18, <3>2 DEF Tells
      <4>2. Fire(r, m) \in Frames(Tail(stack))
        BY <1>0, <1>1, <4>1, EndingFrame
      <4> QED
        BY <1>12, <4>2
    <3>3. CASE Refires(callbacks[r][m]) /\ ~callbacks[r][m].firing
      <4>1. m # "complete"
        BY <1>16, <3>3 DEF Refires, Unfired
      <4>2. m \in again
        BY <3>3, <4>1 DEF ListName
      <4>3. statusCode[r]
        BY <1>2, <1>4, <2>1, <3>3
      <4> QED
        BY <1>6, <1>9, <1>11, <1>12, <4>2, <4>3
    <3> QED
      BY <3>1, <3>2, <3>3
  <2>2. Tells(r) /\ ~EndingAt(stack, r, {"settle"})
    BY <1>1, <1>2, <1>18
  <2> QED
    BY <1>2, <1>3, <1>13, <1>14, <1>15, <2>1, <2>2 DEF Tells
<1> QED
  BY <1>0, <1>1, <1>3, <1>4, <1>8, <1>11, <1>16, <1>17, <1>18, DoneStep

LEMMA CompleteKeepsEnds ==
  ASSUME EndInv, ListInv', DoneCompletes
  PROVE  EndInv'
<1>1. Running("done") /\ Me.at = "complete"
  BY DEF DoneCompletes
<1>0. PICK r \in Request : r = Me.req
  BY <1>1, EndingFrame
<1> DEFINE l == "complete"
           b == IF counted[r] THEN Calls("ajaxComplete", r) ELSE <<>>
           f == Done(r, "count", Me.ok)
           v == b \o <<f>>
           u == <<Fire(r, l)>> \o v
<1>2. /\ Types /\ ListInv /\ r \in Request /\ Me.ok \in BOOLEAN /\ Tail(stack) \in Seq(Frame)
      /\ state[r] = 2 /\ Ends(r) /\ Settles(r) /\ (~threw => Tells(r))
      /\ \A at : EndingAt(stack, r, at) <=> Me.at \in at
  BY <1>0, <1>1, EndingFrame
<1>3. l \in ListName /\ l # "done" /\ l # "fail"
  BY DEF ListName
<1>4. Unfired(callbacks[r][l])
  BY <1>1, <1>2 DEF Ends
<1>5. Fires(callbacks[r][l])
  BY <1>2, <1>3, <1>4 DEF ListInv, Listed, Unfired, Fires
<1>6. /\ callbacks' = [callbacks EXCEPT ![r][l] = Fired(@)] /\ stack' = u \o Tail(stack)
      /\ UNCHANGED <<requestVars, active, added, asked, called, calls, threw>>
  BY <1>0, <1>5 DEF DoneCompletes, FiresList, Goes
<1>7. f \in Frame /\ f.k = "done" /\ f.req = r /\ f.at = "count"
  BY <1>2, FrameTypes DEF Done
<1>8. b \in Seq(Frame) /\ \A g \in Frames(b) : g.k \in {"user", "fire"}
  BY <1>2, CallsFrames, NoFrames DEF Hook, User
<1>9. Fire(r, l) \in Frame /\ Fire(r, l).k = "fire"
  BY <1>2, <1>3, FrameTypes DEF Fire
<1> HIDE DEF f, l, b
<1>10. v \in Seq(Frame) /\ OneEnding(v) /\ Plain(v) /\ Endings(v) = {f}
  BY <1>7, <1>8, Before
<1> HIDE DEF v
<1>11. /\ u \in Seq(Frame) /\ Fire(r, l) \in Frames(u) /\ OneEnding(u) /\ Plain(u)
       /\ Endings(u) = {f}
  <2>1. /\ <<Fire(r, l)>> \in Seq(Frame) /\ Frames(<<Fire(r, l)>>) = {Fire(r, l)}
        /\ Frames(u) = {Fire(r, l)} \cup Frames(v) /\ u \in Seq(Frame)
    BY <1>9, <1>10, OneFrame, PushedFrame
  <2>2. Endings(<<Fire(r, l)>>) = {}
    BY <1>9, <2>1 DEF Endings
  <2>3. OneEnding(u) /\ Endings(u) = {f}
    BY <1>10, <2>1, <2>2, OtherFrames
  <2>4. Plain(u)
    BY <1>9, <1>10, <2>1 DEF Plain
  <2> QED
    BY <2>1, <2>3, <2>4
<1> HIDE DEF u
<1>12. /\ Frames(stack') = Frames(u) \cup Frames(Tail(stack))
       /\ \A at : EndingAt(stack', r, at) <=> EndingAt(u, r, at)
  BY <1>0, <1>1, <1>6, <1>11, EndingFrame
<1>13. \A at : EndingAt(stack', r, at) <=> "count" \in at
  BY <1>7, <1>11, <1>12 DEF EndingAt
<1>14. /\ callbacks'[r][l].on /\ callbacks'[r][l].memory /\ callbacks'[r][l].firing
       /\ \A q \in Request, m \in ListName : q # r \/ m # l =>
            callbacks'[q][m] = callbacks[q][m]
  <2>1. callbacks'[r][l] = Fired(callbacks[r][l])
    BY <1>2, <1>3, <1>6 DEF Types
  <2>2. /\ callbacks[r][l] \in Callbacks /\ asked[r][l] \in Seq(Nat) /\ called[r][l] \in Seq(Nat)
        /\ Listed(callbacks[r][l], asked[r][l], called[r][l])
    BY <1>2, <1>3, ListTypes DEF ListInv
  <2>3. /\ Fired(callbacks[r][l]).on /\ Fired(callbacks[r][l]).memory
        /\ Fired(callbacks[r][l]).firing
    BY <1>5, <2>2, ListFired
  <2>4. \A q \in Request, m \in ListName : q # r \/ m # l =>
          callbacks'[q][m] = callbacks[q][m]
    BY <1>2, <1>3, <1>6 DEF Types
  <2> QED
    BY <2>1, <2>3, <2>4
<1>15. "done" \in ListName /\ "fail" \in ListName
  BY DEF ListName
<1>16. UNCHANGED <<state, settled, dones, counted>>
  BY <1>6 DEF requestVars
<1>17. Ends(r)'
  BY <1>2, <1>13, <1>16 DEF Ends
<1>18. \A m \in {"done", "fail"} : callbacks'[r][m] = callbacks[r][m]
  BY <1>2, <1>3, <1>14, <1>15
<1>19. Settles(r)'
  BY <1>2, <1>16, <1>18, OtherList DEF Settles
<1>20. ASSUME ~threw PROVE Tells(r)'
  <2>1. ASSUME NEW m \in ListName, callbacks'[r][m].firing
        PROVE  Fire(r, m) \in Frames(stack')
    <3>1. CASE m = l
      BY <1>11, <1>12, <3>1
    <3>2. CASE m # l
      <4>1. callbacks[r][m].firing
        BY <1>2, <1>14, <2>1, <3>2
      <4>2. Fire(r, m) \in Frames(stack)
        BY <1>2, <1>20, <4>1 DEF Tells
      <4>3. Fire(r, m) \in Frames(Tail(stack))
        BY <1>0, <1>1, <4>2, EndingFrame
      <4> QED
        BY <1>12, <4>3
    <3> QED
      BY <3>1, <3>2
  <2>2. Tells(r) /\ ~EndingAt(stack, r, {"settle"})
    BY <1>1, <1>2, <1>20
  <2>3. callbacks'[r]["complete"].memory
    BY <1>14 DEF l
  <2>4. \E m \in {"done", "fail"} :
          /\ callbacks'[r][m].on /\ callbacks'[r][m].memory
          /\ settled'[r] = "pending" => callbacks'[r][m].firing
    BY <1>2, <1>16, <1>18, <2>2 DEF Tells
  <2> QED
    BY <2>1, <2>3, <2>4 DEF Tells
<1> QED
  BY <1>0, <1>1, <1>6, <1>7, <1>11, <1>14, <1>16, <1>17, <1>19, <1>20, DoneStep

LEMMA CountKeepsEnds ==
  ASSUME EndInv, ListInv', DoneCounts
  PROVE  EndInv'
<1>1. Running("done") /\ Me.at = "count"
  BY DEF DoneCounts
<1>0. PICK r \in Request : r = Me.req
  BY <1>1, EndingFrame
<1> DEFINE u == IF counted[r] /\ active' = 0 THEN Calls("ajaxStop", r) ELSE <<>>
<1>2. /\ Types /\ ListInv /\ r \in Request /\ Tail(stack) \in Seq(Frame)
      /\ state[r] = 2 /\ Ends(r) /\ Settles(r) /\ (~threw => Tells(r))
      /\ \A at : EndingAt(stack, r, at) <=> Me.at \in at
  BY <1>0, <1>1, EndingFrame
<1>3. /\ active' = active - (IF counted[r] THEN 1 ELSE 0) /\ stack' = u \o Tail(stack)
      /\ UNCHANGED <<requestVars, callbacks, added, asked, called, calls, threw>>
  BY <1>0 DEF DoneCounts, Goes, Uncounted
<1>4. u \in Seq(Frame) /\ \A g \in Frames(u) : g.k = "user"
  BY <1>2, CallsFrames, NoFrames DEF Hook, User
<1> HIDE DEF u
<1>5. Endings(u) = {} /\ Plain(u) /\ OneEnding(u)
  <2>1. Endings(u) = {} /\ Plain(u)
    BY <1>4 DEF Endings, Plain
  <2> QED
    BY <1>4, <2>1, EndingsFacts
<1>6. /\ Frames(stack') = Frames(u) \cup Frames(Tail(stack))
      /\ \A at : EndingAt(stack', r, at) <=> EndingAt(u, r, at)
  BY <1>0, <1>1, <1>3, <1>4, EndingFrame
<1>7. \A at : ~EndingAt(stack', r, at)
  BY <1>5, <1>6 DEF EndingAt
<1>8. UNCHANGED <<state, settled, dones, counted, callbacks>>
  BY <1>3 DEF requestVars
<1>9. Ends(r)' /\ Settles(r)'
  BY <1>2, <1>7, <1>8 DEF Ends, Settles
<1>10. ASSUME ~threw PROVE Tells(r)'
  <2>1. /\ Tells(r) /\ ~EndingAt(stack, r, {"settle"})
        /\ ~EndingAt(stack, r, {"settle", "status", "complete"})
    BY <1>1, <1>2, <1>10
  <2>2. ASSUME NEW m \in ListName, callbacks'[r][m].firing
        PROVE  Fire(r, m) \in Frames(stack')
    <3>1. Fire(r, m) \in Frames(stack)
      BY <1>8, <2>1, <2>2 DEF Tells
    <3>2. Fire(r, m) \in Frames(Tail(stack))
      BY <1>0, <1>1, <3>1, EndingFrame
    <3> QED
      BY <1>6, <3>2
  <2> QED
    BY <1>2, <1>8, <2>1, <2>2 DEF Tells
<1> QED
  BY <1>0, <1>1, <1>3, <1>4, <1>5, <1>8, <1>9, <1>10, DoneStep

\* The loop of fire ends, marks the outcome, or calls a handler.
LEMMA FireCases ==
  ASSUME ListInv, FireStep, NEW r \in Request, NEW l \in ListName, r = Me.req, l = Me.list
  PROVE  LET cb == callbacks[r][l] IN
    /\ ~cb.on \/ cb.memory
    /\ \/ /\ ~cb.on \/ cb.index >= cb.length
          /\ stack' = Tail(stack) /\ settled' = settled
          /\ \A q \in Request, m \in ListName : callbacks'[q][m] =
               IF q = r /\ m = l THEN FireEnds(cb) ELSE callbacks[q][m]
          /\ ~FireEnds(cb).firing
          /\ FireEnds(cb).on = cb.on /\ FireEnds(cb).memory = cb.memory
       \/ /\ cb.on /\ l \in {"done", "fail"}
          /\ stack' = stack /\ settled' = [settled EXCEPT ![r] = l]
          /\ \A q \in Request, m \in ListName :
               /\ callbacks'[q][m].firing = callbacks[q][m].firing
               /\ q # r \/ m # Other(l) =>
                    /\ callbacks'[q][m].on = callbacks[q][m].on
                    /\ callbacks'[q][m].memory = callbacks[q][m].memory
          /\ ~callbacks'[r][Other(l)].on
       \/ /\ stack' = <<User("handler", r)>> \o stack /\ settled' = settled
          /\ \A q \in Request, m \in ListName :
               /\ callbacks'[q][m].on = callbacks[q][m].on
               /\ callbacks'[q][m].memory = callbacks[q][m].memory
               /\ callbacks'[q][m].firing = callbacks[q][m].firing
<1> DEFINE cb == callbacks[r][l]  a == asked[r][l]  c == called[r][l]
<1>1. /\ Me \in Frame /\ Me.k = "fire" /\ Me \in Frames(stack) /\ Types
      /\ Tail(stack) \in Seq(Frame)
  BY RunningFrame DEF FireStep, ListInv
<1>2. /\ cb \in Callbacks /\ a \in Seq(Nat) /\ c \in Seq(Nat)
      /\ Listed(cb, a, c) /\ (~cb.on \/ cb.memory)
  BY <1>1, ListTypes DEF ListInv, LoopsFired
<1>3. CASE ~cb.on \/ cb.index >= cb.length
  <2> DEFINE b == FireEnds(cb)
  <2>1. /\ callbacks' = [callbacks EXCEPT ![r][l] = b]
        /\ stack' = <<>> \o Tail(stack) /\ settled' = settled
    BY <1>3 DEF FireStep, Goes
  <2>2. b.on = cb.on /\ b.memory = cb.memory /\ ~b.firing
    BY <1>2, <1>3, ListEnds
  <2>3. stack' = Tail(stack)
    BY <1>1, <2>1, NoFrames
  <2> HIDE DEF b
  <2>4. \A q \in Request, m \in ListName :
          callbacks'[q][m] = IF q = r /\ m = l THEN b ELSE callbacks[q][m]
    BY <1>1, <2>1 DEF Types
  <2> QED
    BY <1>2, <1>3, <2>1, <2>2, <2>3, <2>4 DEF b
<1>4. CASE ~(~cb.on \/ cb.index >= cb.length)
  <2> DEFINE h == cb.list[cb.index + 1]  b == [cb EXCEPT !.index = @ + 1]
             onward == [callbacks EXCEPT ![r][l].index = @ + 1]
  <2>1. IF h = 0
        THEN /\ settled' = [settled EXCEPT ![r] = l]
             /\ callbacks' = [onward EXCEPT ![r][Other(l)] = Disabled(@)]
             /\ stack' = stack
        ELSE /\ callbacks' = onward
             /\ stack' = <<User("handler", r)>> \o stack
             /\ settled' = settled
    BY <1>4 DEF FireStep, Other
  <2>2. cb.on /\ cb.memory /\ ~(cb.index >= cb.length)
    BY <1>2, <1>4
  <2>3. /\ b \in Callbacks /\ h \in Nat /\ cb.firing /\ b.on /\ b.memory /\ b.firing
        /\ h = 0 => Len(a) - Len(cb.list) = -1
    BY <1>2, <2>2, ListNext
  <2>4. /\ onward \in [Request -> [ListName -> Callbacks]]
        /\ \A q \in Request, m \in ListName :
             onward[q][m] = IF q = r /\ m = l THEN b ELSE callbacks[q][m]
    <3>1. onward = [callbacks EXCEPT ![r][l] = b]
      BY <1>1 DEF Types
    <3> HIDE DEF b, onward
    <3> QED
      BY <1>1, <2>3, <3>1 DEF Types
  <2>5. /\ b.on = cb.on /\ b.memory = cb.memory /\ b.firing = cb.firing
    BY <1>2, <2>2, <2>3, Fields
  <2> HIDE DEF b, onward, h
  <2>6. CASE h = 0
    <3>1. l \in {"done", "fail"}
      <4>1. Len(cb.list) \in Nat /\ Len(a) \in Nat /\ OneOutcome(r)
        BY <1>2, Fields DEF ListInv
      <4>2. l # "complete"
        BY SMTT(30), <2>3, <2>6, <4>1 DEF OneOutcome
      <4> QED
        BY <4>2 DEF ListName
    <3>2. Other(l) \in ListName /\ Other(l) # l
      BY <3>1, OtherList
    <3> DEFINE e == callbacks[r][Other(l)]  d == Disabled(e)
    <3>3. ~d.on /\ d.firing = e.firing
      BY <1>1, <3>2, ListTypes, ListDisabled DEF ListInv
    <3>4. \A q \in Request, m \in ListName :
            callbacks'[q][m] = IF q = r /\ m = l THEN b
                               ELSE IF q = r /\ m = Other(l) THEN d ELSE callbacks[q][m]
      BY <2>1, <2>4, <2>6, <3>2
    <3> HIDE DEF d
    <3>5. ASSUME NEW q \in Request, NEW m \in ListName
          PROVE  /\ callbacks'[q][m].firing = callbacks[q][m].firing
                 /\ q # r \/ m # Other(l) =>
                      /\ callbacks'[q][m].on = callbacks[q][m].on
                      /\ callbacks'[q][m].memory = callbacks[q][m].memory
      <4>1. CASE q = r /\ m = l
        BY <2>5, <3>4, <4>1
      <4>2. CASE q = r /\ m = Other(l)
        BY <3>2, <3>3, <3>4, <4>2
      <4>3. CASE ~(q = r /\ m = l) /\ ~(q = r /\ m = Other(l))
        BY <3>4, <4>3
      <4> QED
        BY <4>1, <4>2, <4>3
    <3>6. ~callbacks'[r][Other(l)].on
      BY <3>2, <3>3, <3>4
    <3> HIDE DEF cb
    <3>7. /\ cb.on /\ stack' = stack /\ settled' = [settled EXCEPT ![r] = l]
      BY <2>1, <2>2, <2>6
    <3> QED
      BY <1>2, <3>1, <3>5, <3>6, <3>7 DEF cb
  <2>7. CASE h # 0
    <3>1. /\ callbacks' = onward /\ stack' = <<User("handler", r)>> \o stack
          /\ settled' = settled
      BY <2>1, <2>7
    <3>2. \A q \in Request, m \in ListName :
            /\ callbacks'[q][m].on = callbacks[q][m].on
            /\ callbacks'[q][m].memory = callbacks[q][m].memory
            /\ callbacks'[q][m].firing = callbacks[q][m].firing
      BY <2>4, <2>5, <3>1
    <3> QED
      BY <1>2, <3>1, <3>2
  <2> QED
    BY <2>6, <2>7
<1> QED
  BY <1>3, <1>4

\* A list of which the loop ends was not the only one that tells an outcome
\* that is pending still.
LEMMA NotPending ==
  ASSUME ListInv, NEW r \in Request, NEW l \in {"done", "fail"}, Settles(r),
         callbacks[r][l].memory, callbacks[r][l].index >= callbacks[r][l].length,
         callbacks[r][l].firing
  PROVE  settled[r] # "pending"
<1> SUFFICES ASSUME settled[r] = "pending" PROVE FALSE
  OBVIOUS
<1> DEFINE cb == callbacks[r][l]  a == asked[r][l]
<1>1. l \in ListName /\ Other(l) \in {"done", "fail"}
  BY OtherList
<1>2. cb.on /\ callbacks[r][Other(l)].on
  BY <1>1 DEF Settles
<1>3. cb.index = 0 /\ Len(cb.list) = Len(a) + 1
  BY <1>2 DEF ListInv, OneOutcome
<1>4. cb \in Callbacks /\ a \in Seq(Nat) /\ Listed(cb, a, called[r][l])
  BY <1>1, ListTypes DEF ListInv
<1>5. cb.length = Len(cb.list) /\ Len(a) \in Nat
  BY <1>2, <1>4 DEF Listed, Holds
<1> QED
  BY <1>3, <1>5

LEMMA FireKeepsEnds ==
  ASSUME EndInv, ListInv', FireStep
  PROVE  EndInv'
<1>1. /\ Types /\ ListInv /\ stack # <<>> /\ Me.k = "fire" /\ Me \in Frame
      /\ Me.req \in Request /\ Me \in Frames(stack)
      /\ Frames(stack) = {Me} \cup Frames(Tail(stack)) /\ stack \in Seq(Frame)
      /\ Tail(stack) \in Seq(Frame)
  BY RunningFrame DEF FireStep, EndInv, ListInv, Types
<1>2. PICK r \in Request, l \in ListName : r = Me.req /\ l = Me.list
  BY <1>1, FrameIn
<1> DEFINE cb == callbacks[r][l]
<1>3. UNCHANGED <<state, counted, active, dones, threw>>
  BY DEF FireStep
<1>4. /\ OneEnding(stack) /\ OneEnding(Tail(stack)) /\ Plain(stack) /\ Plain(Tail(stack))
      /\ Endings(Tail(stack)) = Endings(stack)
  <2>1. OneEnding(stack) /\ Head(stack).k # "done"
    BY <1>1 DEF EndInv, Me
  <2>2. /\ OneEnding(Tail(stack))
        /\ Endings(stack) = Endings(Tail(stack))
                              \cup (IF Head(stack).k = "done" THEN {Head(stack)} ELSE {})
    BY <1>1, <2>1, TailEndings
  <2>3. Plain(stack) /\ Plain(Tail(stack))
    BY <1>1, PlainStack
  <2> QED
    BY <2>1, <2>2, <2>3
<1> DEFINE
     E == /\ ~cb.on \/ cb.index >= cb.length
          /\ stack' = Tail(stack) /\ settled' = settled
          /\ \A q \in Request, m \in ListName : callbacks'[q][m] =
               IF q = r /\ m = l THEN FireEnds(cb) ELSE callbacks[q][m]
          /\ ~FireEnds(cb).firing
          /\ FireEnds(cb).on = cb.on /\ FireEnds(cb).memory = cb.memory
     M == /\ cb.on /\ l \in {"done", "fail"}
          /\ stack' = stack /\ settled' = [settled EXCEPT ![r] = l]
          /\ \A q \in Request, m \in ListName :
               /\ callbacks'[q][m].firing = callbacks[q][m].firing
               /\ q # r \/ m # Other(l) =>
                    /\ callbacks'[q][m].on = callbacks[q][m].on
                    /\ callbacks'[q][m].memory = callbacks[q][m].memory
          /\ ~callbacks'[r][Other(l)].on
     C == /\ stack' = <<User("handler", r)>> \o stack /\ settled' = settled
          /\ \A q \in Request, m \in ListName :
               /\ callbacks'[q][m].on = callbacks[q][m].on
               /\ callbacks'[q][m].memory = callbacks[q][m].memory
               /\ callbacks'[q][m].firing = callbacks[q][m].firing
<1>5. (~cb.on \/ cb.memory) /\ (E \/ M \/ C)
  BY <1>1, <1>2, FireCases
<1>6. /\ Endings(stack') = Endings(stack) /\ OneEnding(stack') /\ Plain(stack')
      /\ stack' \in Seq(Frame)
      /\ \A q \in Request, m \in ListName : q # r \/ m # l =>
           (Fire(q, m) \in Frames(stack) => Fire(q, m) \in Frames(stack'))
      /\ M \/ C => Frames(stack) \subseteq Frames(stack')
  <2>1. CASE E
    <3>1. stack' = Tail(stack)
      BY <2>1
    <3>2. \A q \in Request, m \in ListName : q # r \/ m # l => Fire(q, m) # Me
      BY <1>2 DEF Fire
    <3>3. M \/ C => Frames(stack) \subseteq Frames(stack')
      <4>1. stack' # stack
        <5>1. Len(Tail(stack)) # Len(stack)
          BY <1>1
        <5> QED
          BY <3>1, <5>1
      <4>2. stack' # <<User("handler", r)>> \o stack
        <5>1. Len(Tail(stack)) = Len(stack) - 1 /\ Len(stack) \in Nat
          BY <1>1
        <5>2. <<User("handler", r)>> \in Seq(Frame)
          BY FrameTypes, OneFrame
        <5>3. Len(<<User("handler", r)>> \o stack) = 1 + Len(stack)
          BY <1>1, <5>2
        <5> QED
          BY <3>1, <5>1, <5>3
      <4> QED
        BY <4>1, <4>2
    <3> HIDE DEF E, M, C
    <3> QED
      BY <1>1, <1>4, <3>1, <3>2, <3>3
  <2>2. CASE M
    BY <1>1, <1>4, <2>2
  <2>3. CASE C
    <3> DEFINE f == User("handler", r)
    <3>1. stack' = <<f>> \o stack
      BY <2>3
    <3>2. f \in Frame /\ f.k = "user"
      BY FrameTypes DEF User
    <3> HIDE DEF f, E, M, C
    <3>3. /\ stack' \in Seq(Frame) /\ Frames(stack') = {f} \cup Frames(stack)
          /\ <<f>> \in Seq(Frame) /\ Frames(<<f>>) = {f}
      BY <1>1, <3>1, <3>2, PushedFrame, OneFrame
    <3>4. Endings(<<f>>) = {}
      BY <3>2, <3>3 DEF Endings
    <3>5. OneEnding(stack') /\ Endings(stack') = Endings(stack)
      BY <1>1, <1>4, <3>1, <3>3, <3>4, OtherFrames
    <3>6. Plain(stack')
      BY <1>4, <3>2, <3>3 DEF Plain
    <3> QED
      BY <3>3, <3>5, <3>6
  <2> QED
    BY <1>5, <2>1, <2>2, <2>3
<1>7. ASSUME NEW q \in Request
      PROVE  /\ Ending(stack', q) <=> Ending(stack, q)
             /\ \A at : EndingAt(stack', q, at) <=> EndingAt(stack, q, at)
  BY <1>6 DEF Ending, EndingAt
<1>8. ASSUME NEW q \in Request, NEW m \in ListName, M => q # r \/ m # Other(l)
      PROVE  /\ callbacks'[q][m].on = callbacks[q][m].on
             /\ callbacks'[q][m].memory = callbacks[q][m].memory
  <2>1. CASE E
    BY <1>2, <2>1
  <2>2. CASE M
    BY <1>8, <2>2
  <2>3. CASE C
    BY <2>3
  <2> QED
    BY <1>5, <2>1, <2>2, <2>3
<1>9. ASSUME NEW q \in Request, NEW m \in ListName, E => q # r \/ m # l
      PROVE  callbacks'[q][m].firing = callbacks[q][m].firing
  <2>1. CASE E
    BY <1>9, <2>1
  <2>2. CASE M
    BY <2>2
  <2>3. CASE C
    BY <2>3
  <2> QED
    BY <1>5, <2>1, <2>2, <2>3
<1>10. E => ~callbacks'[r][l].firing
  <2> SUFFICES ASSUME E PROVE ~callbacks'[r][l].firing
    OBVIOUS
  <2>1. callbacks'[r][l] = FireEnds(cb) /\ ~FireEnds(cb).firing
    BY <1>2
  <2> QED
    BY <2>1
<1>11. M => /\ l \in {"done", "fail"} /\ Other(l) \in {"done", "fail"} /\ Other(l) # l
            /\ Other(Other(l)) = l /\ settled' = [settled EXCEPT ![r] = l] /\ cb.on
            /\ ~callbacks'[r][Other(l)].on /\ Other(l) # "complete"
  BY OtherList DEF M
<1>12. /\ E => ~cb.on \/ cb.index >= cb.length
       /\ ~M => settled' = settled
  BY <1>5
<1>13. "complete" \in ListName /\ "done" \in ListName /\ "fail" \in ListName
  BY DEF ListName
<1> HIDE DEF E, M, C
<1>14. ASSUME NEW q \in Request PROVE Ends(q)'
  <2>1. Ends(q)
    BY DEF EndInv
  <2>2. state[q] # 2 \/ EndingAt(stack, q, {"settle"}) => q # r
    BY <1>2, <1>5, <2>1 DEF Ends, Unfired
  <2>3. q # r => \A m \in ListName : Unfired(callbacks[q][m]) => Unfired(callbacks'[q][m])
    BY <1>8 DEF Unfired
  <2>4. Unfired(callbacks[q]["complete"]) => Unfired(callbacks'[q]["complete"])
    BY <1>8, <1>11, <1>13 DEF Unfired
  <2> QED
    BY <1>3, <1>7, <2>1, <2>2, <2>3, <2>4 DEF Ends
<1>15. ASSUME NEW q \in Request PROVE Settles(q)'
  <2>1. Settles(q)
    BY DEF EndInv
  <2>2. CASE M /\ q = r
    <3>1. settled'[r] = l
      BY <1>1, <1>11, <2>2 DEF Types
    <3>2. callbacks'[r][l].on /\ callbacks'[r][l].memory
      BY <1>2, <1>5, <1>8, <1>11, <2>2
    <3>3. l # "pending" /\ \A m \in {"done", "fail"} : m = l \/ settled'[r] # m
      BY <1>11, <2>2, <3>1
    <3> QED
      BY <1>11, <2>2, <3>1, <3>2, <3>3 DEF Settles
  <2>3. CASE ~(M /\ q = r)
    <3>1. settled'[q] = settled[q]
      BY <1>1, <1>11, <1>12, <2>3 DEF Types
    <3>2. \A m \in ListName : /\ callbacks'[q][m].on = callbacks[q][m].on
                              /\ callbacks'[q][m].memory = callbacks[q][m].memory
      BY <1>8, <2>3
    <3> QED
      BY <2>1, <3>1, <3>2, OtherList DEF Settles
  <2> QED
    BY <2>2, <2>3
<1>16. ASSUME ~threw, NEW q \in Request PROVE Tells(q)'
  <2>1. Tells(q) /\ Settles(q)
    BY <1>16 DEF EndInv
  <2>2. \A m \in ListName : callbacks'[q][m].firing => Fire(q, m) \in Frames(stack')
    <3> SUFFICES ASSUME NEW m \in ListName, callbacks'[q][m].firing
                 PROVE  Fire(q, m) \in Frames(stack')
      OBVIOUS
    <3>1. E => q # r \/ m # l
      BY <1>10
    <3>2. callbacks[q][m].firing
      BY <1>9, <3>1
    <3>3. Fire(q, m) \in Frames(stack)
      BY <2>1, <3>2 DEF Tells
    <3> QED
      BY <1>5, <1>6, <3>1, <3>3
  <2>3. callbacks[q]["complete"].memory => callbacks'[q]["complete"].memory
    BY <1>8, <1>11, <1>13
  <2>4. ASSUME NEW m \in {"done", "fail"}, callbacks[q][m].on, callbacks[q][m].memory,
               settled[q] = "pending" => callbacks[q][m].firing
        PROVE  \E o \in {"done", "fail"} :
                 /\ callbacks'[q][o].on /\ callbacks'[q][o].memory
                 /\ settled'[q] = "pending" => callbacks'[q][o].firing
    <3>1. CASE M /\ q = r
      <4>1. settled'[r] = l /\ l # "pending"
        BY <1>1, <1>11, <3>1 DEF Types
      <4>2. callbacks'[r][l].on /\ callbacks'[r][l].memory
        BY <1>2, <1>5, <1>8, <1>11, <3>1
      <4> QED
        BY <1>11, <3>1, <4>1, <4>2
    <3>2. CASE ~(M /\ q = r)
      <4>1. settled'[q] = settled[q]
        BY <1>1, <1>11, <1>12, <3>2 DEF Types
      <4>2. callbacks'[q][m].on /\ callbacks'[q][m].memory
        BY <1>8, <2>4, <3>2, <1>13
      <4>3. settled[q] = "pending" => callbacks'[q][m].firing
        <5> SUFFICES ASSUME settled[q] = "pending" PROVE callbacks'[q][m].firing
          OBVIOUS
        <5>1. E => q # r \/ m # l
          <6> SUFFICES ASSUME E, q = r, m = l PROVE FALSE
            OBVIOUS
          <6>1. cb.index >= cb.length
            BY <1>12, <2>4
          <6> QED
            BY <1>1, <2>1, <2>4, <6>1, NotPending
        <5> QED
          BY <1>9, <1>13, <2>4, <5>1
      <4> QED
        BY <4>1, <4>2, <4>3
    <3> QED
      BY <3>1, <3>2
  <2> QED
    BY <1>3, <1>7, <2>1, <2>2, <2>3, <2>4 DEF Tells
<1>17. Counts'
  BY <1>3, <1>6, UnderWayKept, CountsKept DEF EndInv
<1>18. SendsOnTop'
  BY <1>6, SendsKept
<1> QED
  BY <1>3, <1>6, <1>14, <1>15, <1>16, <1>17, <1>18 DEF EndInv

-----------------------------------------------------------------------------
(***************************************************************************)
(* Every request has one end.                                              *)
(***************************************************************************)
LEMMA InitEnds == Init => EndInv
<1> SUFFICES ASSUME Init PROVE EndInv
  OBVIOUS
<1>1. ListInv /\ stack = <<>> /\ stack \in Seq(Frame)
  BY InitLists DEF ListInv, Types, Init
<1>2. OneEnding(stack) /\ Endings(stack) = {}
  BY <1>1, EndingsFacts
<1>3. ASSUME NEW r \in Request, NEW l \in ListName
      PROVE  Unfired(callbacks[r][l]) /\ ~callbacks[r][l].firing
  BY DEF Init, NewLists, NewCallbacks, Unfired
<1>4. "complete" \in ListName /\ "done" \in ListName /\ "fail" \in ListName
  BY DEF ListName
<1>5. ASSUME NEW r \in Request PROVE Ends(r) /\ Settles(r) /\ Tells(r)
  <2>1. state[r] = -1 /\ settled[r] = "pending" /\ ~counted[r] /\ dones[r] = 0
    BY DEF Init
  <2> QED
    BY <1>2, <1>3, <1>4, <2>1 DEF Ends, Settles, Tells, Ending, EndingAt, Unfired
<1>6. Counts
  <2>1. UnderWay = {}
    BY DEF Init, UnderWay
  <2>2. IsFiniteSet(UnderWay) /\ Cardinality(UnderWay) = 0
    BY <2>1, FS_EmptySet
  <2> QED
    BY <2>2 DEF Counts, Init
<1> QED
  BY <1>1, <1>2, <1>5, <1>6 DEF EndInv, SendsOnTop

LEMMA EndStep ==
  ASSUME "ajaxSend" \notin Hooks, EndInv, [Next]_vars
  PROVE  EndInv'
<1>1. ListInv'
  BY ListStep DEF EndInv
<1>2. CASE Handler
  BY <1>1, <1>2, HandlersKeepEnds
<1>3. CASE JQuery
  BY <1>1, <1>3, FireKeepsEnds, StartKeepsEnds, InstallKeepsEnds, SendKeepsEnds,
     SettleKeepsEnds, StatusKeepsEnds, CompleteKeepsEnds, CountKeepsEnds DEF JQuery
<1>4. CASE PageRuns \/ \E r \in Request : Answer(r) \/ TimesOut(r)
  BY <1>1, <1>4, BrowserKeepsEnds
<1>5. CASE UNCHANGED vars
  <2>1. UNCHANGED <<settled, dones, counted, active, state, threw, stack, callbacks,
                    asked, called>>
    BY <1>5 DEF vars
  <2>2. \A r \in Request, l \in ListName : Grows(r, l)
    BY <2>1 DEF Grows
  <2>3. ~threw => LoopsOnStack'
    BY <2>1 DEF EndInv, Tells, LoopsOnStack
  <2>4. SendsOnTop' /\ OneEnding(stack')
    BY <2>1 DEF EndInv, SendsOnTop, Me
  <2> QED
    BY <1>1, <2>1, <2>2, <2>3, <2>4, PlainStep
<1> QED
  BY <1>2, <1>3, <1>4, <1>5 DEF Next

LEMMA EndsTold == EndInv => OneEnd
<1> SUFFICES ASSUME EndInv PROVE OneEnd
  OBVIOUS
<1>1. Types /\ ListInv /\ Counts
  BY DEF EndInv, ListInv
<1>2. active \in Nat
  <2>1. Cardinality(UnderWay) \in Nat /\ active >= Cardinality(UnderWay) /\ active \in Int
    BY <1>1, FS_CardinalityType DEF Counts, Types
  <2> QED
    BY <2>1
<1>3. TypeOK
  BY <1>1, <1>2 DEF Types, TypeOK
<1>4. EndsOnce
  <2> SUFFICES ASSUME NEW r \in Request
               PROVE  dones[r] <= 1 /\ (called[r]["done"] = <<>> \/ called[r]["fail"] = <<>>)
    BY DEF EndsOnce
  <2>1. dones[r] <= 1
    BY DEF EndInv, Ends
  <2>2. /\ OneOutcome(r) /\ "done" \in ListName /\ "fail" \in ListName
        /\ Other("done") = "fail" /\ Other("fail") = "done"
    BY <1>1 DEF ListInv, ListName, Other
  <2>3. CASE callbacks[r]["done"].on /\ callbacks[r]["fail"].on
    <3> DEFINE cb == callbacks[r]["done"]  a == asked[r]["done"]  c == called[r]["done"]
    <3>1. cb.index = 0 /\ Len(cb.list) = Len(a) + 1
      BY <2>2, <2>3 DEF OneOutcome
    <3>2. /\ cb \in Callbacks /\ a \in Seq(Nat) /\ c \in Seq(Nat) /\ Listed(cb, a, c)
      BY <1>1, <2>2, ListTypes DEF ListInv
    <3>3. Len(a) \in Nat /\ cb.list # <<>>
      BY <3>1, <3>2, NoList
    <3>4. Holds(cb, a, c)
      BY <2>3, <3>2, <3>3 DEF Listed
    <3>5. Len(c) = 0
      BY <3>1, <3>3, <3>4 DEF Holds
    <3> QED
      BY <2>1, <3>2, <3>5
  <2>4. CASE ~(callbacks[r]["done"].on /\ callbacks[r]["fail"].on)
    BY <2>1, <2>2, <2>4 DEF OneOutcome
  <2> QED
    BY <2>3, <2>4
<1>5. NoneForgotten
  <2> SUFFICES ASSUME Idle, ~threw
               PROVE  /\ active = Cardinality({r \in Request : counted[r] /\ state[r] # 2})
                      /\ \A r \in Request : state[r] = 2 =>
                           /\ settled[r] # "pending"
                           /\ called[r][settled[r]] = asked[r][settled[r]]
                           /\ called[r]["complete"] = asked[r]["complete"]
    BY DEF NoneForgotten
  <2>1. Frames(stack) = {} /\ Endings(stack) = {}
    BY EmptyStack, EndingsFacts DEF Idle
  <2>2. active = Cardinality({r \in Request : counted[r] /\ state[r] # 2})
    <3>1. UnderWay = {r \in Request : counted[r] /\ state[r] # 2}
      BY <2>1 DEF UnderWay, Ending
    <3> QED
      BY <1>1, <3>1 DEF Counts
  <2>3. ASSUME NEW r \in Request, NEW l \in ListName, callbacks[r][l].on,
               callbacks[r][l].memory
        PROVE  called[r][l] = asked[r][l]
    <3> DEFINE cb == callbacks[r][l]  a == asked[r][l]  c == called[r][l]
    <3>1. ~cb.firing
      BY <2>1 DEF EndInv, Tells
    <3>2. a \in Seq(Nat) /\ c \in Seq(Nat) /\ Listed(cb, a, c)
      BY <1>1, ListTypes DEF ListInv
    <3>3. BeginningOf(c, a) /\ Len(c) = Len(a)
      BY <2>3, <3>1, <3>2 DEF Listed
    <3>4. Len(c) = Len(a) /\ \A j \in 1 .. Len(c) : c[j] = a[j]
      BY <3>3 DEF BeginningOf
    <3> HIDE DEF a, c
    <3>5. c = a
      BY SMTT(30), <3>2, <3>4
    <3> QED
      BY <3>5 DEF a, c
  <2>4. ASSUME NEW r \in Request, state[r] = 2
        PROVE  /\ settled[r] # "pending"
               /\ called[r][settled[r]] = asked[r][settled[r]]
               /\ called[r]["complete"] = asked[r]["complete"]
    <3>1. Tells(r) /\ Settles(r) /\ \A at : ~EndingAt(stack, r, at)
      BY <2>1 DEF EndInv, EndingAt
    <3>2. PICK l \in {"done", "fail"} :
            /\ callbacks[r][l].on /\ callbacks[r][l].memory
            /\ settled[r] = "pending" => callbacks[r][l].firing
      BY <2>4, <3>1 DEF Tells
    <3>3. l \in ListName /\ "complete" \in ListName /\ callbacks[r]["complete"].on
          /\ callbacks[r]["complete"].memory
      BY <1>1, <2>4, <3>1, OtherList DEF ListInv, OneOutcome, Tells, ListName
    <3>4. settled[r] # "pending"
      BY <2>1, <3>1, <3>2, <3>3 DEF Tells
    <3>5. settled[r] \in {"done", "fail"}
      BY <1>1, <3>4 DEF Types
    <3>6. /\ settled[r] \in ListName /\ callbacks[r][settled[r]].on
          /\ callbacks[r][settled[r]].memory
      BY <3>1, <3>5 DEF Settles, ListName
    <3> QED
      BY <2>3, <3>3, <3>4, <3>6
  <2> QED
    BY <2>2, <2>4
<1> QED
  BY <1>3, <1>4, <1>5 DEF OneEnd

\* A request ends once and is told to all who asked for it, whatever the
\* handlers do, on every page that has no handler of ajaxSend: one that aborts
\* the request there ends it a second time, as ajax sends it all the same.
THEOREM EndToldOnce ==
  ASSUME "ajaxSend" \notin Hooks
  PROVE  Spec => []OneEnd
<1>1. EndInv /\ [Next]_vars => EndInv'
  BY EndStep
<1>2. Spec => []EndInv
  BY <1>1, InitEnds, PTL DEF Spec
<1> QED
  BY <1>2, EndsTold, PTL
=============================================================================
