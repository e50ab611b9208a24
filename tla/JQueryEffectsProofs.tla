------------------------ MODULE JQueryEffectsProofs ------------------------
(***************************************************************************)
(* The proofs for jQuery's effects: PromisesKept and QueuesRun, at the end *)
(* of this module, from the invariants of JQueryEffectsInv.  First what    *)
(* the operations do, then that each step preserves StepInv, then who      *)
(* takes the queues on (CareInv), who waits (WaitInv) and the order of the *)
(* entries (QueueInv, TurnInv).                                            *)
(***************************************************************************)
EXTENDS JQueryEffectsInv, FiniteSetTheorems, TLAPS
-----------------------------------------------------------------------------
(***************************************************************************)
(* Sequences.                                                              *)
(***************************************************************************)
LEMMA Pushed ==
  ASSUME NEW S, NEW s \in Seq(S), NEW x \in S
  PROVE  LET n == <<x>> \o s IN
           /\ n \in Seq(S) /\ n # <<>> /\ Len(n) = Len(s) + 1 /\ Head(n) = x /\ Tail(n) = s
           /\ n[1] = x /\ \A j \in 1 .. Len(s) : n[j + 1] = s[j]
           /\ Among(n) = {x} \cup Among(s)
<1> DEFINE n == <<x>> \o s
<1>1. n \in Seq(S) /\ Len(n) = Len(s) + 1 /\ n[1] = x /\ \A j \in 1 .. Len(s) : n[j + 1] = s[j]
  OBVIOUS
<1>2. n # <<>> /\ Head(n) = x /\ Tail(n) = s
  OBVIOUS
<1> HIDE DEF n
<1>3. Len(s) \in Nat
  OBVIOUS
<1>4. \A y \in Among(n) : y \in {x} \cup Among(s)
  <2> TAKE y \in Among(n)
  <2>1. PICK i \in 1 .. Len(n) : y = n[i]
    BY DEF Among
  <2>2. CASE i = 1
    BY <1>1, <2>1, <2>2
  <2>3. CASE i # 1
    <3>1. i - 1 \in 1 .. Len(s) /\ i = (i - 1) + 1
      BY <1>1, <1>3, <2>3
    <3> QED
      BY <1>1, <2>1, <3>1 DEF Among
  <2> QED
    BY <2>2, <2>3
<1>5. \A y \in Among(s) : y \in Among(n)
  <2> TAKE y \in Among(s)
  <2>1. PICK j \in 1 .. Len(s) : y = s[j]
    BY DEF Among
  <2>2. j + 1 \in 1 .. Len(n) /\ n[j + 1] = y
    BY <1>1, <1>3, <2>1
  <2> QED
    BY <2>2 DEF Among
<1>6. x \in Among(n)
  <2>1. 1 \in 1 .. Len(n)
    BY <1>1, <1>3
  <2> QED
    BY <1>1, <2>1 DEF Among
<1>7. Among(n) = {x} \cup Among(s)
  BY <1>4, <1>5, <1>6
<1> QED
  BY <1>1, <1>2, <1>7 DEF n

LEMMA Popped ==
  ASSUME NEW S, NEW s \in Seq(S), s # <<>>
  PROVE  /\ Head(s) \in S /\ Tail(s) \in Seq(S) /\ s = <<Head(s)>> \o Tail(s)
         /\ Len(s) \in Nat /\ Len(s) = Len(Tail(s)) + 1
         /\ Head(s) = s[1] /\ \A j \in 1 .. Len(Tail(s)) : Tail(s)[j] = s[j + 1]
         /\ Among(s) = {Head(s)} \cup Among(Tail(s))
<1>1. Head(s) \in S /\ Tail(s) \in Seq(S) /\ Len(s) \in Nat /\ Len(s) = Len(Tail(s)) + 1
  OBVIOUS
<1>2. s = <<Head(s)>> \o Tail(s)
  OBVIOUS
<1>3. Head(s) = s[1] /\ \A j \in 1 .. Len(Tail(s)) : Tail(s)[j] = s[j + 1]
  OBVIOUS
<1>4. Among(s) = {Head(s)} \cup Among(Tail(s))
  BY <1>1, <1>2, Pushed
<1> QED
  BY <1>1, <1>2, <1>3, <1>4

LEMMA Appended ==
  ASSUME NEW S, NEW s \in Seq(S), NEW x \in S
  PROVE  LET n == Append(s, x) IN
           /\ n \in Seq(S) /\ n # <<>> /\ Len(s) \in Nat /\ Len(n) = Len(s) + 1
           /\ n[Len(s) + 1] = x /\ \A j \in 1 .. Len(s) : n[j] = s[j]
           /\ Among(n) = {x} \cup Among(s)
<1> DEFINE n == Append(s, x)
<1>1. /\ n \in Seq(S) /\ n # <<>> /\ Len(s) \in Nat /\ Len(n) = Len(s) + 1 /\ n[Len(s) + 1] = x
      /\ \A j \in 1 .. Len(s) : n[j] = s[j]
  OBVIOUS
<1> HIDE DEF n
<1>2. \A y \in Among(n) : y \in {x} \cup Among(s)
  <2> TAKE y \in Among(n)
  <2>1. PICK i \in 1 .. Len(n) : y = n[i]
    BY DEF Among
  <2>2. i = Len(s) + 1 \/ i \in 1 .. Len(s)
    BY <1>1
  <2> QED
    BY <1>1, <2>1, <2>2 DEF Among
<1>3. \A y \in Among(s) : y \in Among(n)
  <2> TAKE y \in Among(s)
  <2>1. PICK j \in 1 .. Len(s) : y = s[j]
    BY DEF Among
  <2>2. j \in 1 .. Len(n) /\ n[j] = y
    BY <1>1, <2>1
  <2> QED
    BY <2>2 DEF Among
<1>4. x \in Among(n)
  <2>1. Len(s) + 1 \in 1 .. Len(n)
    BY <1>1
  <2> QED
    BY <1>1, <2>1 DEF Among
<1>5. Among(n) = {x} \cup Among(s)
  BY <1>2, <1>3, <1>4
<1> QED
  BY <1>1, <1>5 DEF n

LEMMA Joined ==
  ASSUME NEW S, NEW u \in Seq(S), NEW v \in Seq(S)
  PROVE  /\ u \o v \in Seq(S) /\ Len(u \o v) = Len(u) + Len(v)
         /\ \A j \in 1 .. Len(u) + Len(v) :
              (u \o v)[j] = IF j <= Len(u) THEN u[j] ELSE v[j - Len(u)]
<1>1. u \o v \in Seq(S)
  OBVIOUS
<1>2. Len(u \o v) = Len(u) + Len(v)
  OBVIOUS
<1>3. ASSUME NEW j \in 1 .. Len(u) + Len(v)
      PROVE  (u \o v)[j] = IF j <= Len(u) THEN u[j] ELSE v[j - Len(u)]
  OBVIOUS
<1> QED
  BY <1>1, <1>2, <1>3

LEMMA Removed ==
  ASSUME NEW S, NEW s \in Seq(S), NEW i \in 1 .. Len(s)
  PROVE  LET n == RemoveAt(s, i) IN
           /\ n \in Seq(S) /\ Len(s) \in Nat /\ Len(n) \in Nat /\ Len(n) = Len(s) - 1
           /\ \A j \in 1 .. Len(n) : n[j] = IF j < i THEN s[j] ELSE s[j + 1]
<1> DEFINE u == SubSeq(s, 1, i - 1)  v == SubSeq(s, i + 1, Len(s))
<1>1. Len(s) \in Nat /\ i \in Nat /\ i >= 1 /\ i <= Len(s)
  OBVIOUS
<1>2. u \in Seq(S) /\ Len(u) = i - 1 /\ \A j \in 1 .. Len(u) : u[j] = s[j]
  BY <1>1
<1>3. v \in Seq(S) /\ Len(v) = Len(s) - i /\ \A j \in 1 .. Len(v) : v[j] = s[i + j]
  BY <1>1
<1>4. RemoveAt(s, i) = u \o v
  BY DEF RemoveAt
<1> HIDE DEF u, v
<1>5. /\ u \o v \in Seq(S) /\ Len(u \o v) = Len(u) + Len(v)
      /\ \A j \in 1 .. Len(u) + Len(v) : (u \o v)[j] = IF j <= Len(u) THEN u[j] ELSE v[j - Len(u)]
  BY <1>2, <1>3, Joined
<1>6. ASSUME NEW j \in 1 .. Len(u) + Len(v)
      PROVE  (u \o v)[j] = IF j < i THEN s[j] ELSE s[j + 1]
  <2>1. CASE j < i
    BY <1>1, <1>2, <1>3, <1>5, <2>1
  <2>2. CASE ~(j < i)
    <3>1. j - Len(u) \in 1 .. Len(v) /\ i + (j - Len(u)) = j + 1 /\ ~(j <= Len(u))
      BY <1>1, <1>2, <1>3, <2>2
    <3> QED
      BY <1>3, <1>5, <2>2, <3>1
  <2> QED
    BY <2>1, <2>2
<1> QED
  BY <1>1, <1>2, <1>3, <1>4, <1>5, <1>6

LEMMA Nothing0 ==
  ASSUME NEW S, NEW s \in Seq(S)
  PROVE  /\ <<>> \o s = s /\ Among(<<>>) = {} /\ Len(s) \in Nat
         /\ (s = <<>> <=> Len(s) = 0) /\ \A j \in 1 .. Len(s) : s[j] \in S
  BY DEF Among

LEMMA SeqSame ==
  ASSUME NEW S, NEW s \in Seq(S), NEW t \in Seq(S), Len(s) = Len(t),
         \A j \in 1 .. Len(s) : s[j] = t[j]
  PROVE  s = t
  OBVIOUS
LEMMA Two ==
  ASSUME NEW S, NEW s \in Seq(S), NEW x \in S, NEW y \in S
  PROVE  <<x, y>> \o s = <<x>> \o (<<y>> \o s)
<1> DEFINE u == <<y>> \o s  v == <<x>> \o u  w == <<x, y>> \o s
<1>1. u \in Seq(S) /\ Len(u) = Len(s) + 1 /\ u[1] = y /\ \A j \in 1 .. Len(s) : u[j + 1] = s[j]
  BY Pushed
<1>2. v \in Seq(S) /\ Len(v) = Len(u) + 1 /\ v[1] = x /\ \A j \in 1 .. Len(u) : v[j + 1] = u[j]
  <2> HIDE DEF u
  <2> QED BY <1>1, Pushed
<1>3. /\ w \in Seq(S) /\ Len(w) = Len(s) + 2
      /\ \A j \in 1 .. 2 + Len(s) : w[j] = IF j <= 2 THEN <<x, y>>[j] ELSE s[j - 2]
  <2>1. <<x, y>> \in Seq(S) /\ Len(<<x, y>>) = 2
    OBVIOUS
  <2> QED
    BY <2>1, Joined
<1>4. Len(s) \in Nat
  OBVIOUS
<1> HIDE DEF u, v, w
<1>5. ASSUME NEW j \in 1 .. Len(w) PROVE w[j] = v[j]
  <2>1. CASE j = 1
    BY <1>1, <1>2, <1>3, <1>4, <2>1
  <2>2. CASE j = 2
    BY <1>1, <1>2, <1>3, <1>4, <2>2
  <2>3. CASE j > 2
    <3>1. j - 2 \in 1 .. Len(s) /\ j - 1 \in 1 .. Len(u) /\ (j - 2) + 1 = j - 1 /\ (j - 1) + 1 = j
      BY <1>1, <1>2, <1>3, <1>4, <2>3
    <3>2. w[j] = s[j - 2]
      BY <1>3, <1>4, <2>3
    <3>3. u[(j - 2) + 1] = s[j - 2]
      BY <1>1, <3>1
    <3>4. v[(j - 1) + 1] = u[j - 1]
      BY <1>2, <3>1
    <3> QED
      BY <3>1, <3>2, <3>3, <3>4
  <2> QED
    BY <1>3, <1>4, <2>1, <2>2, <2>3
<1>6. w = v
  BY <1>1, <1>2, <1>3, <1>4, <1>5, SeqSame
<1> QED
  BY <1>6 DEF u, v, w

-----------------------------------------------------------------------------
(***************************************************************************)
(* Frames.                                                                 *)
(***************************************************************************)
LEMMA FrameIs ==
  ASSUME NEW f \in Frame
  PROVE  /\ f.k \in {"user", "dequeue", "dequeued", "show", "begin", "custom", "complete",
                     "completed", "tick", "ticked", "stop", "stopped"}
         /\ f.k = "user" => f.elem \in Element /\ f = User(f.elem)
         /\ f.k \in {"dequeue", "dequeued", "show"} => f.elem \in Element
         /\ f.k = "begin" => f.elem \in Element /\ f.entry \in AnimEntry
         /\ f.k = "custom" => f.anim \in Nat /\ f.prop \in Prop /\ f = Custom(f.anim, f.prop)
         /\ f.k = "complete" => f.anim \in Nat /\ f = Complete(f.anim)
         /\ f.k = "completed" => f.anim \in Nat /\ f = Completed(f.anim)
         /\ f.k = "tick" => f.i \in Nat \ {0}
         /\ f.k = "ticked" => f.i \in Nat \ {0} /\ f.timer \in Timer
         /\ f.k = "stop" => /\ f.elem \in Element /\ f.gotoEnd \in BOOLEAN
                            /\ f.i \in Nat /\ f.had \in BOOLEAN
         /\ f.k = "stopped" => f.elem \in Element /\ f.i \in Nat \ {0}
  BY DEF Frame, User, Custom, Complete, Completed

LEMMA FrameMade ==
  /\ \A e \in Element : /\ User(e) \in Frame /\ Dequeue(e) \in Frame /\ Dequeued(e) \in Frame
                        /\ Show(e) \in Frame /\ \A c \in AnimEntry : Begin(e, c) \in Frame
  /\ \A a \in Nat : /\ Complete(a) \in Frame /\ Completed(a) \in Frame
                    /\ \A p \in Prop : Custom(a, p) \in Frame
  /\ \A i \in Nat \ {0} : /\ Tick(i) \in Frame /\ \A t \in Timer : Ticked(i, t) \in Frame
                          /\ \A e \in Element : Stopped(e, i) \in Frame
  /\ \A e \in Element, b, h \in BOOLEAN, i \in Nat : Stop(e, b, i, h) \in Frame
  BY DEF Frame, User, Dequeue, Dequeued, Show, Begin, Complete, Completed, Custom, Tick, Ticked,
         Stopped, Stop

LEMMA Top ==
  ASSUME Types, stack # <<>>
  PROVE  /\ Me \in Frame /\ Tail(stack) \in Seq(Frame) /\ Me \in Among(stack)
         /\ Among(stack) = {Me} \cup Among(Tail(stack)) /\ stack[1] = Me
  BY Popped DEF Types, Me

LEMMA OrderTail ==
  ASSUME NEW s \in Seq(Frame), s # <<>>, NEW an, Order(s, an)
  PROVE  /\ Order(Tail(s), an) /\ \A g \in Among(Tail(s)) : Over(Head(s), g, an)
         /\ Tail(s) # <<>> /\ Tail(s)[1].k = "completed" => Head(s) = User(an[Tail(s)[1].anim].elem)
<1>1. /\ Len(s) \in Nat /\ Len(s) = Len(Tail(s)) + 1 /\ Head(s) = s[1] /\ Tail(s) \in Seq(Frame)
      /\ \A j \in 1 .. Len(Tail(s)) : Tail(s)[j] = s[j + 1]
  BY Popped
<1>2. Len(Tail(s)) \in Nat /\ (Tail(s) = <<>> <=> Len(Tail(s)) = 0)
  BY <1>1, Nothing0
<1> DEFINE t == Tail(s)
<1> HIDE DEF t
<1>3. ASSUME NEW i \in 1 .. Len(t), NEW j \in 1 .. Len(t), i < j PROVE Over(t[i], t[j], an)
  <2>1. i + 1 \in 1 .. Len(s) /\ j + 1 \in 1 .. Len(s) /\ i + 1 < j + 1
    BY <1>1, <1>2, <1>3 DEF t
  <2> QED
    BY <1>1, <2>1 DEF Order, t
<1>4. ASSUME NEW j \in 2 .. Len(t), t[j].k = "completed"
      PROVE  t[j - 1] = User(an[t[j].anim].elem)
  <2>1. j + 1 \in 2 .. Len(s) /\ j - 1 \in 1 .. Len(t) /\ (j - 1) + 1 = j /\ (j + 1) - 1 = j
        /\ j \in 1 .. Len(t)
    BY <1>1, <1>2 DEF t
  <2>2. t[j] = s[j + 1] /\ t[j - 1] = s[j]
    BY <1>1, <2>1 DEF t
  <2>3. s[j + 1].k = "completed" => s[(j + 1) - 1] = User(an[s[j + 1].anim].elem)
    BY <2>1 DEF Order
  <2> QED
    BY <1>4, <2>1, <2>2, <2>3
<1>5. ASSUME NEW g \in Among(t) PROVE Over(Head(s), g, an)
  <2>1. PICK j \in 1 .. Len(t) : g = t[j]
    BY DEF Among
  <2>2. 1 \in 1 .. Len(s) /\ j + 1 \in 1 .. Len(s) /\ 1 < j + 1
    BY <1>1, <1>2 DEF t
  <2> QED
    BY <1>1, <2>1, <2>2 DEF Order, t
<1>6. ASSUME t # <<>>, t[1].k = "completed" PROVE Head(s) = User(an[t[1].anim].elem)
  <2>1. 2 \in 2 .. Len(s) /\ 1 \in 1 .. Len(t) /\ 1 + 1 = 2 /\ 2 - 1 = 1
    BY <1>1, <1>2, <1>6 DEF t
  <2>2. t[1] = s[2]
    BY <1>1, <2>1 DEF t
  <2>3. s[2].k = "completed" => s[2 - 1] = User(an[s[2].anim].elem)
    BY <2>1 DEF Order
  <2> QED
    BY <1>1, <1>6, <2>1, <2>2, <2>3
<1>7. Order(t, an)
  BY <1>3, <1>4 DEF Order
<1> QED
  BY <1>5, <1>6, <1>7 DEF t

LEMMA OrderPush ==
  ASSUME NEW t \in Seq(Frame), NEW f \in Frame, NEW an, Order(t, an),
         \A g \in Among(t) : Over(f, g, an),
         t # <<>> /\ t[1].k = "completed" => f = User(an[t[1].anim].elem)
  PROVE  Order(<<f>> \o t, an)
<1> DEFINE s == <<f>> \o t
<1>1. /\ Len(s) = Len(t) + 1 /\ s[1] = f /\ \A j \in 1 .. Len(t) : s[j + 1] = t[j]
  BY Pushed
<1>2. Len(t) \in Nat /\ (t = <<>> <=> Len(t) = 0)
  BY Nothing0
<1> HIDE DEF s
<1>3. ASSUME NEW i \in 1 .. Len(s), NEW j \in 1 .. Len(s), i < j PROVE Over(s[i], s[j], an)
  <2>1. j - 1 \in 1 .. Len(t) /\ (j - 1) + 1 = j
    BY <1>1, <1>2, <1>3
  <2>2. s[j] = t[j - 1] /\ t[j - 1] \in Among(t)
    BY <1>1, <2>1 DEF Among
  <2>3. CASE i = 1
    BY <1>1, <2>2, <2>3
  <2>4. CASE i # 1
    <3>1. i - 1 \in 1 .. Len(t) /\ (i - 1) + 1 = i /\ i - 1 < j - 1
      BY <1>1, <1>2, <1>3, <2>4
    <3>2. s[i] = t[i - 1]
      BY <1>1, <3>1
    <3> QED
      BY <2>1, <2>2, <3>1, <3>2 DEF Order
  <2> QED
    BY <2>3, <2>4
<1>4. ASSUME NEW j \in 2 .. Len(s), s[j].k = "completed"
      PROVE  s[j - 1] = User(an[s[j].anim].elem)
  <2>1. j - 1 \in 1 .. Len(t) /\ (j - 1) + 1 = j
    BY <1>1, <1>2
  <2>2. s[j] = t[j - 1]
    BY <1>1, <2>1
  <2>3. CASE j = 2
    BY <1>1, <1>2, <1>4, <2>1, <2>2, <2>3
  <2>4. CASE j # 2
    <3>1. j - 1 \in 2 .. Len(t) /\ j - 2 \in 1 .. Len(t) /\ (j - 2) + 1 = j - 1 /\ (j - 1) - 1 = j - 2
      BY <1>1, <1>2, <2>4
    <3>2. s[j - 1] = t[j - 2]
      BY <1>1, <3>1
    <3>3. t[(j - 1) - 1] = User(an[t[j - 1].anim].elem)
      BY <1>4, <2>2, <3>1 DEF Order
    <3> QED
      BY <2>2, <3>1, <3>2, <3>3
  <2> QED
    BY <2>3, <2>4
<1>5. Order(s, an)
  BY <1>3, <1>4 DEF Order
<1> QED
  BY <1>5 DEF s

LEMMA OrderKept ==
  ASSUME NEW s \in Seq(Frame), NEW an, NEW bn, Order(s, an),
         \A g \in Among(s) : g.k = "completed" => bn[g.anim].elem = an[g.anim].elem
  PROVE  Order(s, bn)
<1>1. ASSUME NEW i \in 1 .. Len(s), NEW j \in 1 .. Len(s), i < j PROVE Over(s[i], s[j], bn)
  <2>1. Over(s[i], s[j], an) /\ s[j] \in Among(s)
    BY <1>1 DEF Order, Among
  <2> QED
    BY <2>1 DEF Over
<1>2. ASSUME NEW j \in 2 .. Len(s), s[j].k = "completed"
      PROVE  s[j - 1] = User(bn[s[j].anim].elem)
  <2>1. j \in 1 .. Len(s)
    BY Nothing0
  <2>2. s[j] \in Among(s) /\ s[j - 1] = User(an[s[j].anim].elem)
    BY <1>2, <2>1 DEF Order, Among
  <2> QED
    BY <1>2, <2>2
<1> QED
  BY <1>1, <1>2 DEF Order

\* What runs on top in the place of another one.
LEMMA OverAs ==
  ASSUME NEW f, NEW h, NEW g, NEW an, Over(f, g, an), f.k \notin {"custom", "show"},
         h.k \notin {"tick", "ticked"},
         h.k \in {"stop", "stopped"} => f.k \in {"stop", "stopped"} /\ h.elem = f.elem,
         h.k = "completed" => h # g
  PROVE  Over(h, g, an)
  BY DEF Over

LEMMA OrderAs ==
  ASSUME Types, stack # <<>>, Order(stack, anim), NEW h \in Frame,
         Me.k \notin {"custom", "show", "user"}, h.k \notin {"tick", "ticked"},
         h.k \in {"stop", "stopped"} => Me.k \in {"stop", "stopped"} /\ h.elem = Me.elem,
         h.k = "completed" => h \notin Among(Tail(stack))
  PROVE  Order(<<h>> \o Tail(stack), anim)
<1>1. /\ Order(Tail(stack), anim) /\ \A g \in Among(Tail(stack)) : Over(Me, g, anim)
      /\ Tail(stack) # <<>> => Tail(stack)[1].k # "completed"
  BY OrderTail DEF Types, Me, User
<1>2. \A g \in Among(Tail(stack)) : Over(h, g, anim)
  BY <1>1, OverAs
<1> QED
  BY <1>1, <1>2, Top, OrderPush

-----------------------------------------------------------------------------
(***************************************************************************)
(* What the functions change.                                              *)
(***************************************************************************)
LEMMA UnmarkedIs ==
  ASSUME NEW e \in Element, NEW force \in BOOLEAN, Becomes(Unmarked(Page, e, force)), Types
  PROVE  /\ UNCHANGED <<world, queue, hooks, sleeping, timers, anim, ticking, look, defer, waits,
                        asked, begun, called, cut, stuck, missed>>
         /\ mark' = [mark EXCEPT ![e] = IF force \/ mark[e] = 0 THEN 0 ELSE mark[e] - 1]
         /\ checks' = IF mark'[e] = 0 /\ defer[e] # 0 /\ queue[e] = <<>>
                      THEN Append(checks, [elem |-> e, defer |-> defer[e]]) ELSE checks
<1> DEFINE n == IF force \/ mark[e] = 0 THEN 0 ELSE mark[e] - 1
           v == [Page EXCEPT !.mark[e] = n]
           u == [v EXCEPT !.checks = Append(@, [elem |-> e, defer |-> defer[e]])]
           told == n = 0 /\ defer[e] # 0 /\ queue[e] = <<>>
<1>1. [mark EXCEPT ![e] = n][e] = n
  BY DEF Types
<1>2. Unmarked(Page, e, force) = IF told THEN u ELSE v
  BY <1>1, SMT DEF Unmarked, HandleQueueMarkDefer, Page
<1> HIDE DEF n
<1> DEFINE Kept == UNCHANGED <<world, queue, hooks, sleeping, timers, anim, ticking, look, defer,
                               waits, asked, begun, called, cut, stuck, missed>>
           more == Append(checks, [elem |-> e, defer |-> defer[e]])
<1>3. Becomes(u) => mark' = [mark EXCEPT ![e] = n] /\ checks' = more /\ Kept
  BY ZenonT(40) DEF Becomes, Page
<1>4. Becomes(v) => mark' = [mark EXCEPT ![e] = n] /\ checks' = checks /\ Kept
  BY ZenonT(40) DEF Becomes, Page
<1> HIDE DEF u, v
<1>5. mark' = [mark EXCEPT ![e] = n] /\ Kept /\ checks' = IF told THEN more ELSE checks
  <2> HIDE DEF told, more, Kept
  <2> QED
    BY <1>2, <1>3, <1>4
<1>6. mark'[e] = n
  BY <1>1, <1>5
<1> HIDE DEF more
<1>7. /\ mark' = [mark EXCEPT ![e] = n] /\ Kept
      /\ checks' = IF mark'[e] = 0 /\ defer[e] # 0 /\ queue[e] = <<>> THEN more ELSE checks
  BY <1>5, <1>6
<1> QED
  BY <1>7 DEF n, more

LEMMA QueueRemovedIs ==
  ASSUME NEW e \in Element, Becomes(QueueRemoved(Page, e)), Types
  PROVE  /\ UNCHANGED <<world, sleeping, timers, anim, ticking, mark, look, defer, waits,
                        asked, begun, called, cut, stuck, missed>>
         /\ queue' = [queue EXCEPT ![e] = <<>>] /\ hooks' = [hooks EXCEPT ![e] = 0]
         /\ checks' = IF mark[e] = 0 /\ defer[e] # 0
                      THEN Append(checks, [elem |-> e, defer |-> defer[e]]) ELSE checks
  BY ZenonT(40) DEF Types, QueueRemoved, HandleQueueMarkDefer, Becomes, Page

LEMMA DequeueIs ==
  ASSUME Types, DequeueStep
  PROVE  LET e == Me.elem  rest == After(e) IN
    /\ stack # <<>> /\ Me.k = "dequeue" /\ e \in Element
    /\ UNCHANGED <<world, timers, anim, ticking, mark, look, defer, waits, asked, called, cut,
                   stuck, missed, threw, count>>
    /\ \/ /\ rest = <<>> /\ stack' = Tail(stack)
          /\ queue' = [queue EXCEPT ![e] = <<>>] /\ hooks' = [hooks EXCEPT ![e] = 0]
          /\ checks' = IF mark[e] = 0 /\ defer[e] # 0
                       THEN Append(checks, [elem |-> e, defer |-> defer[e]]) ELSE checks
          /\ UNCHANGED <<sleeping, begun>>
       \/ /\ rest # <<>>
          /\ queue' = [queue EXCEPT ![e] = <<Sentinel>> \o Tail(rest)]
          /\ begun' = [begun EXCEPT ![e] = Append(begun[e], Head(rest).id)] /\ checks' = checks
          /\ \/ /\ Head(rest).k = "delay" /\ stack' = Tail(stack)
                /\ hooks' = [hooks EXCEPT ![e] = Head(rest).id]
                /\ sleeping' = sleeping \cup {[id |-> Head(rest).id, elem |-> e]}
             \/ /\ Head(rest).k # "delay"
                /\ stack' = <<Begin(e, Head(rest)), Dequeued(e)>> \o Tail(stack)
                /\ hooks' = [hooks EXCEPT ![e] = 0] /\ sleeping' = sleeping
<1> DEFINE e == Me.elem  rest == After(e)
<1>1. stack # <<>> /\ Me.k = "dequeue" /\ e \in Element
  BY Top, FrameIs, Zenon DEF DequeueStep, Running, Me
<1>2. \A f : Goes(f, <<>>) => stack' = Tail(stack)
  BY <1>1, Top, Nothing0 DEF Goes
<1>3. CASE rest = <<>>
  <2>1. Goes(QueueRemoved(Page, e), <<>>)
    BY Zenon, <1>3 DEF DequeueStep, After
  <2> QED
    BY <1>1, <1>2, <1>3, <2>1, QueueRemovedIs DEF Goes
<1> DEFINE w == [Taken(Page, e, rest) EXCEPT !.begun[e] = Append(@, Head(rest).id)]
           d == [w EXCEPT !.hooks[e] = Head(rest).id,
                          !.sleeping = @ \cup {[id |-> Head(rest).id, elem |-> e]}]
<1>4. rest # <<>> /\ Head(rest).k = "delay" => Goes(d, <<>>)
  BY DEF DequeueStep, After
<1>5. rest # <<>> /\ Head(rest).k # "delay" => Goes(w, <<Begin(e, Head(rest)), Dequeued(e)>>)
  BY Zenon DEF DequeueStep, After
<1>6. /\ d.queue = [queue EXCEPT ![e] = <<Sentinel>> \o Tail(rest)]
      /\ d.hooks = [[hooks EXCEPT ![e] = 0] EXCEPT ![e] = Head(rest).id]
      /\ d.begun = [begun EXCEPT ![e] = Append(begun[e], Head(rest).id)]
      /\ d.sleeping = sleeping \cup {[id |-> Head(rest).id, elem |-> e]}
      /\ d.timers = timers /\ d.anim = anim /\ d.ticking = ticking /\ d.mark = mark
      /\ d.look = look /\ d.defer = defer /\ d.checks = checks /\ d.waits = waits
      /\ d.asked = asked /\ d.called = called /\ d.cut = cut /\ d.stuck = stuck
      /\ d.missed = missed
  BY DEF Page, Taken
<1>7. [[hooks EXCEPT ![e] = 0] EXCEPT ![e] = Head(rest).id] = [hooks EXCEPT ![e] = Head(rest).id]
  BY <1>1 DEF Types
<1>8. /\ w.queue = [queue EXCEPT ![e] = <<Sentinel>> \o Tail(rest)]
      /\ w.hooks = [hooks EXCEPT ![e] = 0]
      /\ w.begun = [begun EXCEPT ![e] = Append(begun[e], Head(rest).id)]
      /\ w.sleeping = sleeping
      /\ w.timers = timers /\ w.anim = anim /\ w.ticking = ticking /\ w.mark = mark
      /\ w.look = look /\ w.defer = defer /\ w.checks = checks /\ w.waits = waits
      /\ w.asked = asked /\ w.called = called /\ w.cut = cut /\ w.stuck = stuck
      /\ w.missed = missed
  BY DEF Page, Taken
<1> HIDE DEF w, d, e, rest
<1>9. CASE rest # <<>> /\ Head(rest).k = "delay"
  BY <1>1, <1>2, <1>4, <1>6, <1>7, <1>9 DEF Goes, Becomes, e, rest
<1>10. CASE rest # <<>> /\ Head(rest).k # "delay"
  BY <1>1, <1>5, <1>8, <1>10 DEF Goes, Becomes, e, rest
<1> HIDE DEF w, d, e, rest
<1> QED
  BY <1>1, <1>3, <1>9, <1>10 DEF e, rest

LEMMA DequeueEndsIs ==
  ASSUME Types, DequeueEnds
  PROVE  /\ stack # <<>> /\ Me.k = "dequeued" /\ Me.elem \in Element
         /\ UNCHANGED <<world, sleeping, timers, anim, ticking, mark, look, defer, waits,
                        asked, begun, called, cut, stuck, missed, queue, threw, count>>
         /\ stack' = Tail(stack)
         /\ hooks' = hooks \/ (queue[Me.elem] = <<>> /\ hooks' = [hooks EXCEPT ![Me.elem] = 0])
         /\ checks' = checks \/ \E c \in Waiter : checks' = Append(checks, c)
<1>1. stack # <<>> /\ Me.k = "dequeued" /\ Me.elem \in Element
  BY Top, FrameIs DEF DequeueEnds, Running, Me
<1>2. \A f : Goes(f, <<>>) => stack' = Tail(stack)
  BY <1>1, Top, Nothing0 DEF Goes
<1>3. CASE queue[Me.elem] = <<>>
  <2>1. Goes(QueueRemoved(Page, Me.elem), <<>>)
    BY <1>3 DEF DequeueEnds
  <2>2. queue' = queue
    <3>1. queue' = [queue EXCEPT ![Me.elem] = <<>>]
      BY <1>1, <2>1, QueueRemovedIs, Zenon DEF Goes
    <3> QED
      BY <1>1, <1>3, <3>1 DEF Types
  <2>3. [elem |-> Me.elem, defer |-> defer[Me.elem]] \in Waiter
    BY <1>1 DEF Types, Waiter
  <2> QED
    BY <1>1, <1>2, <1>3, <2>1, <2>2, <2>3, QueueRemovedIs DEF Goes
<1>4. CASE queue[Me.elem] # <<>>
  BY <1>1, <1>2, <1>4, Zenon DEF DequeueEnds, Goes, Becomes, Page
<1> QED
  BY <1>3, <1>4

\* The property p of the animation id has come to its end.
AnimEnds(id, p) ==
  /\ IsFcn(anim') /\ DOMAIN anim' = DOMAIN anim
  /\ \A x \in DOMAIN anim : x # id => anim'[x] = anim[x]
  /\ IsAnim(anim'[id])
  /\ anim'[id].elem = anim[id].elem /\ anim'[id].queued = anim[id].queued
  /\ anim'[id].props = anim[id].props /\ anim'[id].done = anim[id].done \cup {p}
  /\ anim'[id].complete <=> anim[id].complete /\ ~Finished(anim'[id])

CallFrames(id) == IF Finished(anim'[id]) /\ anim[id].complete THEN <<Complete(id)>> ELSE <<>>

LEMMA EndedIs ==
  ASSUME NEW id \in DOMAIN anim, NEW p \in anim[id].props, Becomes(Ended(Page, id, p)), Types
  PROVE  /\ UNCHANGED <<world, queue, hooks, sleeping, timers, ticking, mark, defer, checks, waits,
                        asked, begun, called, cut, stuck, missed>>
         /\ AnimEnds(id, p) /\ Calls(Page, id, p) = CallFrames(id)
<1> DEFINE b == [anim[id] EXCEPT !.done = @ \cup {p}]
           c == [b EXCEPT !.complete = FALSE]
<1>1. IsAnim(anim[id])
  BY DEF Types
<1>2. /\ IsAnim(b) /\ b.elem = anim[id].elem /\ b.queued = anim[id].queued
      /\ b.props = anim[id].props /\ b.done = anim[id].done \cup {p}
      /\ b.complete = anim[id].complete
  BY <1>1 DEF IsAnim
<1>3. /\ IsAnim(c) /\ c.elem = b.elem /\ c.queued = b.queued
      /\ c.props = b.props /\ c.done = b.done /\ c.complete = FALSE
  <2> HIDE DEF b
  <2> QED
    BY <1>2 DEF IsAnim
<1>4. /\ UNCHANGED <<world, queue, hooks, sleeping, timers, ticking, mark, defer, checks, waits,
                     asked, begun, called, cut, stuck, missed>>
      /\ anim' = [anim EXCEPT ![id] = IF Finished(b) THEN c ELSE b]
  BY ZenonT(40) DEF Types, Ended, Becomes, Page
<1>9. Calls(Page, id, p) = IF Finished(b) /\ anim[id].complete THEN <<Complete(id)>> ELSE <<>>
  BY DEF Calls, Page
<1> HIDE DEF b, c
<1>5. /\ IsFcn(anim') /\ DOMAIN anim' = DOMAIN anim
      /\ \A x \in DOMAIN anim : x # id => anim'[x] = anim[x]
      /\ anim'[id] = IF Finished(b) THEN c ELSE b
  BY <1>4 DEF Types, IsFcn
<1>6. IsAnim(anim'[id])
  BY <1>2, <1>3, <1>5
<1>7. /\ anim'[id].elem = anim[id].elem /\ anim'[id].queued = anim[id].queued
      /\ anim'[id].props = anim[id].props /\ anim'[id].done = anim[id].done \cup {p}
  BY <1>2, <1>3, <1>5
<1>8. anim'[id].complete <=> anim[id].complete /\ ~Finished(anim'[id])
  BY <1>2, <1>3, <1>5 DEF Finished
<1>10. Finished(anim'[id]) <=> Finished(b)
  BY <1>2, <1>3, <1>5 DEF Finished
<1> QED
  BY <1>4, <1>5, <1>6, <1>7, <1>8, <1>9, <1>10 DEF AnimEnds, CallFrames

entryVars == <<queue, hooks, sleeping, asked, begun>>
waitVars == <<mark, defer, checks, waits, missed>>

\* What a step of jQuery's leaves alone that is not about the stack.
LEMMA Keeps ==
  ASSUME Types, stack # <<>>, NEW f, Goes(Page, f)
  PROVE  /\ UNCHANGED <<world, entryVars, waitVars, timers, anim, ticking, look, called, cut, stuck,
                        threw, count>>
         /\ stack' = f \o Tail(stack)
  BY DEF Goes, Becomes, Page, entryVars, waitVars

LEMMA Quit ==
  ASSUME Types, stack # <<>>
  PROVE  <<>> \o Tail(stack) = Tail(stack)
  BY Top, Nothing0

LEMMA BeginIs ==
  ASSUME Types, BeginStep
  PROVE  LET e == Me.elem  c == Me.entry IN
    /\ stack # <<>> /\ Me.k = "begin" /\ e \in Element /\ c \in AnimEntry
    /\ UNCHANGED <<world, entryVars, waitVars, timers, ticking, called, cut, stuck, threw, count>>
    /\ IsFcn(anim') /\ DOMAIN anim' = DOMAIN anim \cup {c.id}
    /\ \A x \in DOMAIN anim : x # c.id => anim'[x] = anim[x]
    /\ IsAnim(anim'[c.id]) /\ anim'[c.id].elem = e /\ anim'[c.id].queued = c.queued
    /\ anim'[c.id].props = c.props /\ anim'[c.id].done = {}
    /\ IF anim'[c.id].complete
       THEN \E h, o \in {<<>>, <<Show(e)>>} :
              stack' = ((IF "height" \in c.props THEN <<Custom(c.id, "height")>> \o h ELSE <<>>)
                        \o (<<Custom(c.id, "opacity")>> \o o)) \o Tail(stack)
       ELSE stack' = <<Complete(c.id)>> \o Tail(stack)
<1> DEFINE e == Me.elem  c == Me.entry  l == look[e]
           idle == (c.val = "hide" /\ ~l.shown) \/ (c.val = "show" /\ l.shown)
           Method(p) == IF l.toggle[p] # "undefined" THEN l.toggle[p]
                        ELSE IF c.val = "toggle" THEN IF l.shown THEN "hide" ELSE "show"
                        ELSE c.val
           Noted(p) == p \in c.props /\ (l.toggle[p] # "undefined" \/ c.val = "toggle")
           Was(p) == IF l.fxshow[p] # "undefined" THEN l.fxshow[p] ELSE l.size[p]
           method == [p \in c.props |-> Method(p)]
           a == [elem |-> e, queued |-> c.queued, props |-> c.props, method |-> method,
                 orig |-> [p \in c.props |-> Was(p)],
                 start |-> [p \in c.props |->
                              IF method[p] = "show" /\ l.fxshow[p] = "undefined" THEN "none"
                              ELSE l.size[p]],
                 end |-> [p \in c.props |-> IF method[p] = "hide" THEN "none" ELSE Was(p)],
                 done |-> {}, due |-> c.instant, complete |-> ~idle]
           Steps(p) == IF p \notin c.props THEN <<>>
                       ELSE <<Custom(c.id, p)>> \o (IF method[p] = "show" THEN <<Show(e)>> ELSE <<>>)
           w == [Page EXCEPT !.anim = With(@, c.id, a)]
           toggle == [p \in Prop |-> IF Noted(p) THEN IF Method(p) = "show" THEN "hide" ELSE "show"
                                     ELSE l.toggle[p]]
           v == [w EXCEPT !.look[e].toggle = toggle]
<1>1. stack # <<>> /\ Me.k = "begin" /\ e \in Element /\ c \in AnimEntry
  BY Top, FrameIs, Zenon DEF BeginStep, Running, Me
<1>2. IF idle THEN Goes(w, <<Complete(c.id)>>) ELSE Goes(v, Steps("height") \o Steps("opacity"))
  BY Zenon DEF BeginStep
<1>3. /\ w.anim = With(anim, c.id, a) /\ w.queue = queue /\ w.hooks = hooks
      /\ w.begun = begun /\ w.sleeping = sleeping /\ w.timers = timers /\ w.ticking = ticking
      /\ w.mark = mark /\ w.defer = defer /\ w.checks = checks /\ w.waits = waits
      /\ w.asked = asked /\ w.called = called /\ w.cut = cut /\ w.stuck = stuck
      /\ w.missed = missed
  <2> HIDE DEF a, idle
  <2> QED
    BY DEF Page
<1>4. /\ v.anim = With(anim, c.id, a) /\ v.queue = queue /\ v.hooks = hooks
      /\ v.begun = begun /\ v.sleeping = sleeping /\ v.timers = timers /\ v.ticking = ticking
      /\ v.mark = mark /\ v.defer = defer /\ v.checks = checks /\ v.waits = waits
      /\ v.asked = asked /\ v.called = called /\ v.cut = cut /\ v.stuck = stuck
      /\ v.missed = missed
  <2> HIDE DEF a, idle, toggle
  <2> QED
    BY DEF Page
<1>5. /\ IsAnim(a) /\ a.elem = e /\ a.queued = c.queued /\ a.props = c.props /\ a.done = {}
      /\ a.complete = ~idle
  <2> HIDE DEF method, idle, l
  <2> QED
    BY <1>1 DEF IsAnim, AnimEntry
<1> HIDE DEF a
<1>6. \A f : Goes(w, f) \/ Goes(v, f) =>
        /\ UNCHANGED <<world, entryVars, waitVars, timers, ticking, called, cut, stuck, threw, count>>
        /\ anim' = With(anim, c.id, a) /\ stack' = f \o Tail(stack)
  <2> HIDE DEF w, v
  <2> QED
    BY <1>3, <1>4 DEF Goes, Becomes, entryVars, waitVars
<1> HIDE DEF w, v
<1>7. /\ anim' = With(anim, c.id, a)
      /\ UNCHANGED <<world, entryVars, waitVars, timers, ticking, called, cut, stuck, threw, count>>
      /\ stack' = (IF idle THEN <<Complete(c.id)>> ELSE Steps("height") \o Steps("opacity"))
                  \o Tail(stack)
  <2> HIDE DEF idle, Steps
  <2>1. CASE idle
    BY <1>2, <1>6, <2>1
  <2>2. CASE ~idle
    BY <1>2, <1>6, <2>2, Zenon
  <2> QED
    BY <2>1, <2>2
<1>8. /\ IsFcn(anim') /\ DOMAIN anim' = DOMAIN anim \cup {c.id} /\ anim'[c.id] = a
      /\ \A x \in DOMAIN anim : x # c.id => anim'[x] = anim[x]
  <2> HIDE DEF c
  <2> QED
    BY <1>7, Zenon DEF With, IsFcn
<1>9. \E h, o \in {<<>>, <<Show(e)>>} :
        Steps("height") \o Steps("opacity")
          = (IF "height" \in c.props THEN <<Custom(c.id, "height")>> \o h ELSE <<>>)
            \o (<<Custom(c.id, "opacity")>> \o o)
  <2>1. "opacity" \in c.props
    BY <1>1 DEF AnimEntry, PropSets, Prop
  <2>2. PICK h \in {<<>>, <<Show(e)>>} : h = IF method["height"] = "show" THEN <<Show(e)>> ELSE <<>>
    OBVIOUS
  <2>3. PICK o \in {<<>>, <<Show(e)>>} : o = IF method["opacity"] = "show" THEN <<Show(e)>> ELSE <<>>
    OBVIOUS
  <2> HIDE DEF c, method, e
  <2> QED
    BY <2>1, <2>2, <2>3
<1> HIDE DEF Steps, idle
<1>10. CASE idle
  BY <1>1, <1>5, <1>7, <1>8, <1>10
<1>11. CASE ~idle
  BY <1>1, <1>5, <1>7, <1>8, <1>9, <1>11
<1> QED
  BY <1>10, <1>11, Zenon

LEMMA CustomIs ==
  ASSUME Types, CustomStep, Me.anim \in DOMAIN anim, Me.prop \in anim[Me.anim].props
  PROVE  /\ stack # <<>> /\ Me.k = "custom" /\ Me = Custom(Me.anim, Me.prop)
         /\ UNCHANGED <<world, entryVars, waitVars, called, cut, stuck, threw, count>>
         /\ \/ /\ UNCHANGED <<timers, ticking>> /\ AnimEnds(Me.anim, Me.prop)
               /\ stack' = CallFrames(Me.anim) \o Tail(stack)
            \/ /\ anim' = anim /\ timers' = Append(timers, TimerOf(Me.anim, Me.prop))
               /\ ticking' = TRUE /\ stack' = Tail(stack)
<1> DEFINE id == Me.anim  p == Me.prop  a == anim[id]
           w == [Page EXCEPT !.look[a.elem].size[p] = a.start[p],
                             !.timers = Append(@, [anim |-> id, prop |-> p]),
                             !.ticking = TRUE]
<1>1. stack # <<>> /\ Me.k = "custom" /\ Me = Custom(Me.anim, Me.prop)
  BY Top, FrameIs DEF CustomStep, Running, Me
<1>2. IF a.due THEN Goes(Ended(Page, id, p), Calls(Page, id, p)) ELSE Goes(w, <<>>)
  BY DEF CustomStep
<1>3. CASE a.due
  BY <1>1, <1>2, <1>3, EndedIs DEF Goes, entryVars, waitVars
<1>4. /\ w.timers = Append(timers, TimerOf(id, p)) /\ w.ticking = TRUE
      /\ w.anim = anim /\ w.queue = queue /\ w.hooks = hooks
      /\ w.begun = begun /\ w.sleeping = sleeping
      /\ w.mark = mark /\ w.defer = defer /\ w.checks = checks /\ w.waits = waits
      /\ w.asked = asked /\ w.called = called /\ w.cut = cut /\ w.stuck = stuck
      /\ w.missed = missed
  BY DEF Page, TimerOf
<1> HIDE DEF w
<1>5. CASE ~a.due
  BY <1>1, <1>2, <1>4, <1>5, Quit DEF Goes, Becomes, entryVars, waitVars
<1> QED
  BY <1>3, <1>5

LEMMA ShowIs ==
  ASSUME Types, ShowStep
  PROVE  /\ stack # <<>> /\ Me.k = "show"
         /\ UNCHANGED <<world, entryVars, waitVars, timers, anim, ticking, called, cut, stuck,
                        threw, count>>
         /\ stack' = Tail(stack)
<1>1. stack # <<>> /\ Me.k = "show"
  BY DEF ShowStep, Running, Me
<1> QED
  BY <1>1, Quit DEF ShowStep, Goes, Becomes, Page, entryVars, waitVars

LEMMA CompleteIs ==
  ASSUME Types, CompleteStep
  PROVE  LET a == Me.anim IN
         /\ stack # <<>> /\ Me = Complete(a) /\ a \in Nat
         /\ UNCHANGED <<world, entryVars, waitVars, timers, anim, ticking, cut, stuck, threw, count>>
         /\ a \notin DOMAIN called =>
              /\ IsFcn(called') /\ DOMAIN called' = DOMAIN called \cup {a} /\ called'[a] = 1
              /\ \A x \in DOMAIN called : called'[x] = called[x]
         /\ stack' = <<User(anim[a].elem), Completed(a)>> \o Tail(stack)
<1>1. stack # <<>> /\ Me = Complete(Me.anim) /\ Me.anim \in Nat
  BY Top, FrameIs DEF CompleteStep, Running, Me
<1>2. /\ UNCHANGED <<world, entryVars, waitVars, timers, anim, ticking, cut, stuck, threw, count>>
      /\ called' = With(called, Me.anim, IF Me.anim \in DOMAIN called THEN called[Me.anim] + 1 ELSE 1)
      /\ stack' = <<User(anim[Me.anim].elem), Completed(Me.anim)>> \o Tail(stack)
  BY DEF CompleteStep, Goes, Becomes, Page, entryVars, waitVars
<1> QED
  BY <1>1, <1>2 DEF With, IsFcn, Types

LEMMA CompleteEndsIs ==
  ASSUME Types, CompleteEnds, Me.anim \in DOMAIN anim
  PROVE  LET a == Me.anim  e == anim[a].elem IN
    /\ stack # <<>> /\ Me = Completed(a) /\ a \in Nat /\ e \in Element
    /\ UNCHANGED <<world, entryVars, timers, anim, ticking, look, defer, waits, called, cut, stuck,
                   missed, threw, count>>
    /\ IF anim[a].queued
       THEN stack' = <<Dequeue(e)>> \o Tail(stack) /\ UNCHANGED <<mark, checks>>
       ELSE /\ stack' = Tail(stack)
            /\ mark' = [mark EXCEPT ![e] = IF mark[e] = 0 THEN 0 ELSE mark[e] - 1]
            /\ checks' = IF mark'[e] = 0 /\ defer[e] # 0 /\ queue[e] = <<>>
                         THEN Append(checks, [elem |-> e, defer |-> defer[e]]) ELSE checks
<1> DEFINE e == anim[Me.anim].elem
<1>1. stack # <<>> /\ Me = Completed(Me.anim) /\ Me.anim \in Nat
  BY Top, FrameIs DEF CompleteEnds, Running, Me
<1>2. e \in Element
  BY DEF Types, IsAnim
<1>3. CASE anim[Me.anim].queued
  <2>1. Goes(Page, <<Dequeue(e)>>)
    BY <1>3 DEF CompleteEnds
  <2> QED
    BY <1>1, <1>2, <1>3, <2>1, Keeps DEF entryVars, waitVars
<1>4. CASE ~anim[Me.anim].queued
  <2>1. Goes(Unmarked(Page, e, FALSE), <<>>)
    BY <1>4 DEF CompleteEnds
  <2>2. Becomes(Unmarked(Page, e, FALSE)) /\ stack' = Tail(stack) /\ UNCHANGED <<threw, count>>
    BY <1>1, <2>1, Quit DEF Goes
  <2> QED
    BY <1>1, <1>2, <1>4, <2>2, UnmarkedIs DEF entryVars
<1> QED
  BY <1>3, <1>4

LEMMA IntervalIs ==
  ASSUME Types, NEW due, Interval(due)
  PROVE  /\ stack = <<>> /\ stack' = <<Tick(1)>>
         /\ UNCHANGED <<world, entryVars, waitVars, timers, ticking, called, cut, stuck, threw, count>>
         /\ IsFcn(anim') /\ DOMAIN anim' = DOMAIN anim
         /\ \A x \in DOMAIN anim :
              /\ IsAnim(anim'[x]) /\ anim'[x].elem = anim[x].elem
              /\ anim'[x].queued = anim[x].queued /\ anim'[x].props = anim[x].props
              /\ anim'[x].done = anim[x].done /\ anim'[x].complete = anim[x].complete
<1> DEFINE f == [x \in DOMAIN anim |-> [anim[x] EXCEPT !.due = @ \/ x \in due]]
<1>1. /\ stack = <<>> /\ stack' = <<Tick(1)>>
      /\ UNCHANGED <<world, entryVars, waitVars, timers, ticking, called, cut, stuck, threw, count>>
      /\ anim' = f
  <2>1. Becomes([Page EXCEPT !.anim = f])
    BY DEF Interval, Page
  <2> HIDE DEF f
  <2> QED
    BY <2>1 DEF Interval, Idle, Becomes, Page, entryVars, waitVars
<1>2. ASSUME NEW x \in DOMAIN anim
      PROVE  /\ IsAnim(anim'[x]) /\ anim'[x].elem = anim[x].elem
             /\ anim'[x].queued = anim[x].queued /\ anim'[x].props = anim[x].props
             /\ anim'[x].done = anim[x].done /\ anim'[x].complete = anim[x].complete
  <2>1. IsAnim(anim[x]) /\ anim'[x] = [anim[x] EXCEPT !.due = @ \/ x \in due]
    BY <1>1 DEF Types
  <2> QED
    BY <2>1 DEF IsAnim
<1> QED
  BY <1>1, <1>2 DEF IsFcn

\* The timers are those of animations.
TimersOfAnims ==
  \A i \in 1 .. Len(timers) :
    timers[i].anim \in DOMAIN anim /\ timers[i].prop \in anim[timers[i].anim].props

LEMMA LenNat ==
  ASSUME Types
  PROVE  Len(timers) \in Nat
  BY DEF Types

LEMMA TickIs ==
  ASSUME Types, TickStep, TimersOfAnims
  PROVE  LET i == Me.i  t == timers[i] IN
    /\ stack # <<>> /\ Me.k = "tick" /\ i \in Nat \ {0}
    /\ UNCHANGED <<world, entryVars, waitVars, timers, called, cut, stuck, threw, count>>
    /\ \/ /\ i > Len(timers) /\ ticking' = (timers # <<>>) /\ anim' = anim
          /\ stack' = Tail(stack)
       \/ /\ i \in 1 .. Len(timers) /\ ticking' = ticking /\ AnimEnds(t.anim, t.prop)
          /\ stack' = (CallFrames(t.anim) \o <<Ticked(i, t)>>) \o Tail(stack)
       \/ /\ i \in 1 .. Len(timers) /\ ticking' = ticking /\ anim' = anim
          /\ stack' = <<Tick(i + 1)>> \o Tail(stack)
<1> DEFINE i == Me.i  t == timers[i]  a == anim[t.anim]
           w == [Page EXCEPT !.look[a.elem].size[t.prop] =
                    IF a.start[t.prop] = a.end[t.prop] THEN @ ELSE "part"]
<1>1. stack # <<>> /\ Me.k = "tick" /\ i \in Nat \ {0} /\ Len(timers) \in Nat
  <2>1. stack # <<>> /\ Me.k = "tick"
    BY Zenon DEF TickStep, Running, Me
  <2> QED
    BY <2>1, Top, FrameIs, LenNat
<1>2. CASE i > Len(timers)
  <2>1. Goes([Page EXCEPT !.ticking = timers # <<>>], <<>>)
    BY <1>2, Zenon DEF TickStep
  <2> QED
    BY <1>1, <1>2, <2>1, Quit DEF Goes, Becomes, Page, entryVars, waitVars
<1>3. ~(i > Len(timers)) => i \in 1 .. Len(timers)
  BY <1>1
<1>4. CASE ~(i > Len(timers)) /\ a.due
  <2>1. Goes(Ended(Page, t.anim, t.prop), Calls(Page, t.anim, t.prop) \o <<Ticked(i, t)>>)
    BY <1>4 DEF TickStep
  <2>2. t.anim \in DOMAIN anim /\ t.prop \in a.props
    BY <1>3, <1>4 DEF TimersOfAnims
  <2> QED
    BY <1>1, <1>3, <1>4, <2>1, <2>2, EndedIs, Zenon DEF Goes, entryVars, waitVars
<1>5. ~(i > Len(timers)) /\ ~a.due => Goes(w, <<Tick(i + 1)>>)
  BY Zenon DEF TickStep
<1>6. /\ w.timers = timers /\ w.ticking = ticking
      /\ w.anim = anim /\ w.queue = queue /\ w.hooks = hooks
      /\ w.begun = begun /\ w.sleeping = sleeping
      /\ w.mark = mark /\ w.defer = defer /\ w.checks = checks /\ w.waits = waits
      /\ w.asked = asked /\ w.called = called /\ w.cut = cut /\ w.stuck = stuck
      /\ w.missed = missed
  BY DEF Page
<1> HIDE DEF w
<1>7. CASE ~(i > Len(timers)) /\ ~a.due
  BY <1>1, <1>3, <1>5, <1>6, <1>7 DEF Goes, Becomes, entryVars, waitVars
<1> QED
  BY <1>2, <1>4, <1>7, Zenon

LEMMA TickGoesOnIs ==
  ASSUME Types, TickGoesOn
  PROVE  /\ stack # <<>> /\ Me.k = "ticked" /\ Me.i \in Nat \ {0} /\ Me.timer \in Timer
         /\ UNCHANGED <<world, entryVars, waitVars, anim, ticking, called, cut, stuck, threw, count>>
         /\ \/ /\ Me.i \in 1 .. Len(timers) /\ timers[Me.i] = Me.timer
               /\ timers' = RemoveAt(timers, Me.i) /\ stack' = <<Tick(Me.i)>> \o Tail(stack)
            \/ /\ ~(Me.i \in 1 .. Len(timers) /\ timers[Me.i] = Me.timer)
               /\ timers' = timers /\ stack' = <<Tick(Me.i + 1)>> \o Tail(stack)
<1>1. /\ stack # <<>> /\ Me.k = "ticked" /\ Me.i \in Nat \ {0} /\ Me.timer \in Timer
      /\ Len(timers) \in Nat
  <2>1. stack # <<>> /\ Me.k = "ticked"
    BY Zenon DEF TickGoesOn, Running, Me
  <2> QED
    BY <2>1, Top, FrameIs, LenNat
<1>2. StillThere(Me.i, Me.timer) <=> Me.i \in 1 .. Len(timers) /\ timers[Me.i] = Me.timer
  BY <1>1 DEF StillThere
<1>3. CASE StillThere(Me.i, Me.timer)
  <2>1. Goes([Page EXCEPT !.timers = RemoveAt(@, Me.i)], <<Tick(Me.i)>>)
    BY <1>3 DEF TickGoesOn
  <2> QED
    BY <1>1, <1>2, <1>3, <2>1 DEF Goes, Becomes, Page, entryVars, waitVars
<1>4. CASE ~StillThere(Me.i, Me.timer)
  <2>1. Goes(Page, <<Tick(Me.i + 1)>>)
    BY <1>4 DEF TickGoesOn
  <2> QED
    BY <1>1, <1>2, <1>4, <2>1, Keeps
<1> QED
  BY <1>3, <1>4

LEMMA StopIs ==
  ASSUME Types, StopStep, TimersOfAnims, Me.i <= Len(timers)
  PROVE  LET e == Me.elem  i == Me.i  t == timers[i] IN
    /\ stack # <<>> /\ Me.k = "stop" /\ e \in Element /\ i \in Nat
    /\ Me.gotoEnd \in BOOLEAN /\ Me.had \in BOOLEAN
    /\ UNCHANGED <<world, entryVars, waitVars, ticking, called, stuck, threw, count>>
    /\ \/ /\ i = 0 /\ UNCHANGED <<timers, anim>>
          /\ stack' = (IF Me.gotoEnd /\ Me.had THEN <<>> ELSE <<Dequeue(e)>>) \o Tail(stack)
       \/ /\ i \in 1 .. Len(timers) /\ anim[t.anim].elem # e /\ UNCHANGED <<timers, anim>>
          /\ stack' = <<Stop(e, Me.gotoEnd, i - 1, Me.had)>> \o Tail(stack)
       \/ /\ i \in 1 .. Len(timers) /\ anim[t.anim].elem = e /\ Me.gotoEnd
          /\ UNCHANGED timers /\ AnimEnds(t.anim, t.prop)
          /\ stack' = (CallFrames(t.anim) \o <<Stopped(e, i)>>) \o Tail(stack)
       \/ /\ i \in 1 .. Len(timers) /\ anim[t.anim].elem = e /\ ~Me.gotoEnd
          /\ timers' = RemoveAt(timers, i) /\ UNCHANGED anim
          /\ stack' = <<Stop(e, FALSE, i - 1, TRUE)>> \o Tail(stack)
<1> DEFINE e == Me.elem  i == Me.i  t == timers[i]
<1>1. /\ stack # <<>> /\ Me.k = "stop" /\ e \in Element /\ i \in Nat
      /\ Me.gotoEnd \in BOOLEAN /\ Me.had \in BOOLEAN /\ Len(timers) \in Nat
  <2>1. stack # <<>> /\ Me.k = "stop"
    BY Zenon DEF StopStep, Running, Me
  <2> QED
    BY <2>1, Top, FrameIs, LenNat
<1>2. i # 0 => i \in 1 .. Len(timers)
  BY <1>1
<1>3. CASE i = 0
  <2>1. Goes(Page, IF Me.gotoEnd /\ Me.had THEN <<>> ELSE <<Dequeue(e)>>)
    BY <1>3 DEF StopStep
  <2> QED
    BY <1>1, <1>3, <2>1, Keeps
<1>4. CASE i # 0 /\ anim[t.anim].elem # e
  <2>1. Goes(Page, <<Stop(e, Me.gotoEnd, i - 1, Me.had)>>)
    BY <1>4 DEF StopStep
  <2> QED
    BY <1>1, <1>2, <1>4, <2>1, Keeps, Zenon
<1>5. CASE i # 0 /\ anim[t.anim].elem = e /\ Me.gotoEnd
  <2>1. Goes(Ended(Page, t.anim, t.prop), Calls(Page, t.anim, t.prop) \o <<Stopped(e, i)>>)
    BY <1>5 DEF StopStep
  <2>2. t.anim \in DOMAIN anim /\ t.prop \in anim[t.anim].props
    BY Zenon, <1>2, <1>5 DEF TimersOfAnims
  <2> QED
    BY <1>1, <1>2, <1>5, <2>1, <2>2, EndedIs, Zenon DEF Goes, entryVars, waitVars
<1>6. CASE i # 0 /\ anim[t.anim].elem = e /\ ~Me.gotoEnd
  <2> DEFINE w == [SaveState(Page, t) EXCEPT !.timers = RemoveAt(@, i)]
  <2>1. Goes(w, <<Stop(e, FALSE, i - 1, TRUE)>>)
    BY <1>6 DEF StopStep
  <2>2. /\ w.timers = RemoveAt(timers, i) /\ w.ticking = ticking
        /\ w.anim = anim /\ w.queue = queue /\ w.hooks = hooks
        /\ w.begun = begun /\ w.sleeping = sleeping
        /\ w.mark = mark /\ w.defer = defer /\ w.checks = checks /\ w.waits = waits
        /\ w.asked = asked /\ w.called = called /\ w.stuck = stuck
        /\ w.missed = missed
    BY ZenonT(40) DEF Page, SaveState
  <2> HIDE DEF w
  <2> QED
    BY <1>1, <1>2, <1>6, <2>1, <2>2 DEF Goes, Becomes, entryVars, waitVars
<1> QED
  BY <1>3, <1>4, <1>5, <1>6

LEMMA StopGoesOnIs ==
  ASSUME Types, FrameInv, StopGoesOn
  PROVE  /\ stack # <<>> /\ Me.k = "stopped" /\ Me.elem \in Element /\ Me.i \in Nat \ {0}
         /\ UNCHANGED <<world, entryVars, waitVars, anim, ticking, called, cut, stuck, threw, count>>
         /\ timers' = RemoveAt(timers, Me.i)
         /\ stack' = <<Stop(Me.elem, TRUE, Me.i - 1, TRUE)>> \o Tail(stack)
<1>1. stack # <<>> /\ Me.k = "stopped" /\ Me.elem \in Element /\ Me.i \in Nat \ {0}
  BY Top, FrameIs DEF StopGoesOn, Running, Me
<1>2. Me.i <= Len(timers)
  BY <1>1, Top DEF FrameInv, FrameOk
<1>3. ~(Me.i > Len(timers))
  BY <1>1, <1>2 DEF Types
<1> DEFINE w == [Page EXCEPT !.timers = RemoveAt(@, Me.i),
                             !.lost = IF timers[Me.i].prop \in anim[timers[Me.i].anim].done THEN @
                                      ELSE @ \cup {anim[timers[Me.i].anim].elem}]
<1>4. Goes(w, <<Stop(Me.elem, TRUE, Me.i - 1, TRUE)>>)
  BY <1>3, Zenon DEF StopGoesOn
<1> QED
  BY <1>1, <1>4 DEF Goes, Becomes, Page, entryVars, waitVars

-----------------------------------------------------------------------------
\* Where the page, or a callback of its, may call jQuery.
LEMMA MayIs ==
  ASSUME Types, NEW op, May(op)
  PROVE  /\ stack = <<>> \/ (stack # <<>> /\ Me.k = "user")
         /\ count' = count + 1 /\ threw' = threw /\ op \in world.ops
  BY EffectsAssumption DEF May, Idle, Running, Me, Types

LEMMA QueuedIs ==
  ASSUME Types, NEW e \in Element, NEW c, Becomes(Queued(Page, e, c))
  PROVE  /\ UNCHANGED <<world, hooks, sleeping, begun, waitVars, timers, anim, ticking, called, cut,
                        stuck>>
         /\ queue' = [queue EXCEPT ![e] = Append(queue[e], c)]
         /\ asked' = [asked EXCEPT ![e] = Append(asked[e], c)]
  BY DEF Queued, Becomes, Page, waitVars

LEMMA AnimateIs ==
  ASSUME Types, NEW e \in Element, NEW c \in Choice, Animate(e, c)
  PROVE  /\ stack = <<>> \/ (stack # <<>> /\ Me.k = "user")
         /\ count' = count + 1 /\ threw' = threw
         /\ UNCHANGED <<world, hooks, sleeping, begun, defer, checks, waits, missed, timers, anim,
                        ticking, called, cut, stuck>>
         /\ \E en \in AnimEntry :
              /\ en.id = count + 1
              /\ \/ /\ en.queued /\ mark' = mark
                    /\ queue' = [queue EXCEPT ![e] = Append(queue[e], en)]
                    /\ asked' = [asked EXCEPT ![e] = Append(asked[e], en)]
                    /\ stack' = Starts(e) \o stack
                 \/ /\ ~en.queued /\ mark' = [mark EXCEPT ![e] = mark[e] + 1]
                    /\ UNCHANGED <<queue, asked>>
                    /\ stack' = <<Begin(e, en)>> \o stack
<1> DEFINE en == Entry(c)
<1>1. en \in AnimEntry /\ en.id = count + 1 /\ en.queued = c.queued /\ en.queued \in BOOLEAN
  BY DEF Entry, AnimEntry, Choice, PropSets, Types
<1>2. IF c.queued THEN Does(Queued(Page, e, en), Starts(e))
      ELSE Does([Page EXCEPT !.mark[e] = @ + 1], <<Begin(e, en)>>)
  BY DEF Animate
<1> HIDE DEF en
<1>3. CASE c.queued
  <2>1. Becomes(Queued(Page, e, en)) /\ stack' = Starts(e) \o stack
    BY <1>2, <1>3 DEF Does
  <2> QED
    BY <1>1, <1>3, <2>1, QueuedIs, MayIs DEF Animate, waitVars
<1>4. CASE ~c.queued
  <2>1. Does([Page EXCEPT !.mark[e] = @ + 1], <<Begin(e, en)>>)
    BY <1>2, <1>4
  <2>2. /\ UNCHANGED <<world, entryVars, defer, checks, waits, missed, timers, anim,
                       ticking, called, cut, stuck>>
        /\ mark' = [mark EXCEPT ![e] = mark[e] + 1]
        /\ stack' = <<Begin(e, en)>> \o stack
    BY <2>1 DEF Does, Becomes, Page, entryVars
  <2> QED
    BY <1>1, <1>4, <2>2, MayIs DEF Animate, entryVars
<1> QED
  BY <1>3, <1>4

LEMMA DelayIs ==
  ASSUME Types, NEW e \in Element, Delay(e)
  PROVE  LET en == [k |-> "delay", id |-> count + 1] IN
         /\ stack = <<>> \/ (stack # <<>> /\ Me.k = "user")
         /\ count' = count + 1 /\ threw' = threw
         /\ UNCHANGED <<world, hooks, sleeping, begun, waitVars, timers, anim, ticking, called, cut,
                        stuck>>
         /\ queue' = [queue EXCEPT ![e] = Append(queue[e], en)]
         /\ asked' = [asked EXCEPT ![e] = Append(asked[e], en)]
         /\ stack' = Starts(e) \o stack
  BY QueuedIs, MayIs DEF Delay, Does

LEMMA ClearQueueIs ==
  ASSUME Types, NEW e \in Element, ClearQueue(e)
  PROVE  /\ stack = <<>> \/ (stack # <<>> /\ Me.k = "user")
         /\ count' = count + 1 /\ threw' = threw /\ Clears
         /\ UNCHANGED <<world, sleeping, timers, anim, ticking, mark, defer, waits,
                        asked, begun, called, cut, stuck, missed>>
         /\ queue' = [queue EXCEPT ![e] = <<>>] /\ hooks' = [hooks EXCEPT ![e] = 0]
         /\ checks' = IF mark[e] = 0 /\ defer[e] # 0
                      THEN Append(checks, [elem |-> e, defer |-> defer[e]]) ELSE checks
         /\ stack' = stack
<1>1. stack' = stack /\ Becomes(QueueRemoved(Page, e))
  BY Nothing0 DEF ClearQueue, Does, Types
<1> QED
  BY <1>1, QueueRemovedIs, MayIs DEF ClearQueue, Clears

\* A page, whatever it holds.
IsPage(w) ==
  DOMAIN w = {"queue", "hooks", "sleeping", "timers", "anim", "ticking", "mark", "look", "defer",
              "checks", "waits", "asked", "begun", "called", "cut", "stuck", "missed", "lost"}

\* All but the queue, its delay, the marks and the checks.
SameRest(v, w) ==
  /\ v.sleeping = w.sleeping /\ v.timers = w.timers /\ v.anim = w.anim /\ v.ticking = w.ticking
  /\ v.look = w.look /\ v.defer = w.defer /\ v.waits = w.waits /\ v.asked = w.asked
  /\ v.begun = w.begun /\ v.called = w.called /\ v.cut = w.cut /\ v.stuck = w.stuck
  /\ v.missed = w.missed

LEMMA HandleIs ==
  ASSUME NEW w, IsPage(w), NEW e, NEW src
  PROVE  LET v == HandleQueueMarkDefer(w, e, src) IN
           /\ IsPage(v) /\ SameRest(v, w)
           /\ v.queue = w.queue /\ v.hooks = w.hooks /\ v.mark = w.mark
           /\ v.checks = IF w.defer[e] # 0 /\ (src = "queue" \/ w.queue[e] = <<>>)
                            /\ (src = "mark" \/ w.mark[e] = 0)
                         THEN Append(w.checks, [elem |-> e, defer |-> w.defer[e]]) ELSE w.checks
  BY DEF HandleQueueMarkDefer, IsPage, SameRest

LEMMA RemovedIs ==
  ASSUME NEW w, IsPage(w), NEW e
  PROVE  LET v == QueueRemoved(w, e) IN
           /\ IsPage(v) /\ SameRest(v, w)
           /\ v.queue = [w.queue EXCEPT ![e] = <<>>] /\ v.hooks = [w.hooks EXCEPT ![e] = 0]
           /\ v.mark = w.mark
           /\ v.checks = IF w.defer[e] # 0 /\ w.mark[e] = 0
                         THEN Append(w.checks, [elem |-> e, defer |-> w.defer[e]]) ELSE w.checks
<1> DEFINE u == [w EXCEPT !.queue[e] = <<>>, !.hooks[e] = 0]
<1>1. /\ IsPage(u) /\ SameRest(u, w) /\ u.queue = [w.queue EXCEPT ![e] = <<>>]
      /\ u.hooks = [w.hooks EXCEPT ![e] = 0] /\ u.mark = w.mark /\ u.checks = w.checks
  BY DEF IsPage, SameRest
<1>2. QueueRemoved(w, e) = HandleQueueMarkDefer(u, e, "queue")
  BY DEF QueueRemoved
<1> HIDE DEF u
<1>3. /\ IsPage(QueueRemoved(w, e)) /\ SameRest(QueueRemoved(w, e), u)
      /\ QueueRemoved(w, e).queue = u.queue /\ QueueRemoved(w, e).hooks = u.hooks
      /\ QueueRemoved(w, e).mark = u.mark
      /\ QueueRemoved(w, e).checks = IF u.defer[e] # 0 /\ u.mark[e] = 0
           THEN Append(u.checks, [elem |-> e, defer |-> u.defer[e]]) ELSE u.checks
  BY <1>1, <1>2, HandleIs
<1> QED
  BY <1>1, <1>3 DEF SameRest

LEMMA AllUnmarkedIs ==
  ASSUME NEW w, IsPage(w), NEW e
  PROVE  LET v == Unmarked(w, e, TRUE) IN
           /\ IsPage(v) /\ SameRest(v, w)
           /\ v.queue = w.queue /\ v.hooks = w.hooks /\ v.mark = [w.mark EXCEPT ![e] = 0]
           /\ v.checks = IF w.defer[e] # 0 /\ w.queue[e] = <<>>
                         THEN Append(w.checks, [elem |-> e, defer |-> w.defer[e]]) ELSE w.checks
<1> DEFINE u == [w EXCEPT !.mark[e] = 0]
<1>1. /\ IsPage(u) /\ SameRest(u, w) /\ u.mark = [w.mark EXCEPT ![e] = 0]
      /\ u.hooks = w.hooks /\ u.queue = w.queue /\ u.checks = w.checks
  BY DEF IsPage, SameRest
<1>2. Unmarked(w, e, TRUE) = HandleQueueMarkDefer(u, e, "mark")
  BY DEF Unmarked
<1> HIDE DEF u
<1>3. LET v == HandleQueueMarkDefer(u, e, "mark") IN
        /\ IsPage(v) /\ SameRest(v, u) /\ v.queue = u.queue /\ v.hooks = u.hooks
        /\ v.mark = u.mark
        /\ v.checks = IF u.defer[e] # 0 /\ ("mark" = "queue" \/ u.queue[e] = <<>>)
                         /\ ("mark" = "mark" \/ u.mark[e] = 0)
                      THEN Append(u.checks, [elem |-> e, defer |-> u.defer[e]]) ELSE u.checks
  BY <1>1, HandleIs
<1>4. u.defer = w.defer
  BY <1>1 DEF SameRest
<1>5. LET v == HandleQueueMarkDefer(u, e, "mark") IN
        v.checks = IF w.defer[e] # 0 /\ w.queue[e] = <<>>
                   THEN Append(w.checks, [elem |-> e, defer |-> w.defer[e]]) ELSE w.checks
  BY <1>1, <1>3, <1>4
<1> QED
  BY <1>1, <1>2, <1>3, <1>5 DEF SameRest

LEMMA StopBeginsIs ==
  ASSUME Types, NEW e \in Element, NEW clear \in BOOLEAN, NEW gotoEnd \in BOOLEAN,
         Becomes(StopBegins(Page, e, clear, gotoEnd))
  PROVE  /\ UNCHANGED <<world, timers, anim, ticking, defer, waits, asked, begun, called, cut,
                        missed>>
         /\ queue' = IF clear THEN [queue EXCEPT ![e] = <<>>] ELSE queue
         /\ mark' = IF gotoEnd THEN mark ELSE [mark EXCEPT ![e] = 0]
         /\ hooks' = [hooks EXCEPT ![e] = 0]
         /\ sleeping' = IF clear \/ hooks[e] = 0 THEN sleeping ELSE {s \in sleeping : s.id # hooks[e]}
         /\ stuck' = IF ~clear /\ hooks[e] # 0 /\ gotoEnd /\ Moves(e) THEN stuck \cup {e} ELSE stuck
         /\ checks' \in Seq(Waiter) /\ Among(checks) \subseteq Among(checks')
         /\ clear \/ ~gotoEnd =>
              defer[e] = 0 \/ queue'[e] # <<>> \/ mark'[e] # 0
              \/ [elem |-> e, defer |-> defer[e]] \in Among(checks')
<1> DEFINE c == [elem |-> e, defer |-> defer[e]]
           v == IF clear THEN QueueRemoved(Page, e) ELSE Page
           u == IF gotoEnd THEN v ELSE Unmarked(v, e, TRUE)
           moves == \E i \in 1 .. Len(Page.timers) : Page.anim[Page.timers[i].anim].elem = e
           s == IF u.hooks[e] = 0 THEN u
                ELSE [u EXCEPT !.sleeping = {x \in @ : x.id # u.hooks[e]}, !.hooks[e] = 0,
                               !.stuck = IF gotoEnd /\ moves THEN @ \cup {e} ELSE @]
<1>1. Becomes(s)
  BY DEF StopBegins
<1>2. moves <=> Moves(e)
  BY DEF Moves, Page
<1>3. IsPage(Page)
  BY DEF IsPage, Page
<1>4. c \in Waiter
  BY DEF Types, Waiter
<1> HIDE DEF moves
<1>5. /\ IsPage(v) /\ SameRest(v, Page)
      /\ v.queue = IF clear THEN [Page.queue EXCEPT ![e] = <<>>] ELSE Page.queue
      /\ v.hooks = IF clear THEN [Page.hooks EXCEPT ![e] = 0] ELSE Page.hooks
      /\ v.mark = Page.mark
      /\ v.checks = IF clear /\ Page.defer[e] # 0 /\ Page.mark[e] = 0
                    THEN Append(Page.checks, [elem |-> e, defer |-> Page.defer[e]]) ELSE Page.checks
  <2>1. CASE clear
    BY <1>3, <2>1, RemovedIs
  <2>2. CASE ~clear
    BY <1>3, <2>2 DEF SameRest
  <2> QED
    BY <2>1, <2>2
<1> HIDE DEF v
<1>6. /\ IsPage(u) /\ SameRest(u, v) /\ u.queue = v.queue /\ u.hooks = v.hooks
      /\ u.mark = IF gotoEnd THEN v.mark ELSE [v.mark EXCEPT ![e] = 0]
      /\ u.checks = IF ~gotoEnd /\ v.defer[e] # 0 /\ v.queue[e] = <<>>
                    THEN Append(v.checks, [elem |-> e, defer |-> v.defer[e]]) ELSE v.checks
  <2>1. CASE gotoEnd
    <3>1. u = v
      BY <2>1
    <3> HIDE DEF u
    <3>2. SameRest(u, v)
      BY <3>1 DEF SameRest
    <3> QED
      BY <1>5, <2>1, <3>1, <3>2
  <2>2. CASE ~gotoEnd
    <3>1. u = Unmarked(v, e, TRUE)
      BY <2>2
    <3> HIDE DEF u
    <3>2. LET y == Unmarked(v, e, TRUE) IN
           /\ IsPage(y) /\ SameRest(y, v)
           /\ y.queue = v.queue /\ y.hooks = v.hooks /\ y.mark = [v.mark EXCEPT ![e] = 0]
           /\ y.checks = IF v.defer[e] # 0 /\ v.queue[e] = <<>>
                         THEN Append(v.checks, [elem |-> e, defer |-> v.defer[e]]) ELSE v.checks
      BY <1>5, AllUnmarkedIs
    <3> QED
      BY <2>2, <3>1, <3>2
  <2> QED
    BY <2>1, <2>2
<1> HIDE DEF u
<1>7. /\ s.queue = u.queue /\ s.mark = u.mark /\ s.checks = u.checks
      /\ s.hooks = IF u.hooks[e] = 0 THEN u.hooks ELSE [u.hooks EXCEPT ![e] = 0]
      /\ s.sleeping = IF u.hooks[e] = 0 THEN u.sleeping
                      ELSE {x \in u.sleeping : x.id # u.hooks[e]}
      /\ s.stuck = IF u.hooks[e] # 0 /\ gotoEnd /\ moves THEN u.stuck \cup {e} ELSE u.stuck
      /\ s.timers = u.timers /\ s.anim = u.anim /\ s.ticking = u.ticking
      /\ s.defer = u.defer /\ s.waits = u.waits /\ s.asked = u.asked /\ s.begun = u.begun
      /\ s.called = u.called /\ s.cut = u.cut /\ s.missed = u.missed
  BY <1>6 DEF IsPage
<1> HIDE DEF s
<1>8. /\ Page.queue = queue /\ Page.hooks = hooks /\ Page.mark = mark /\ Page.checks = checks
      /\ Page.sleeping = sleeping /\ Page.stuck = stuck /\ Page.timers = timers
      /\ Page.anim = anim /\ Page.ticking = ticking /\ Page.defer = defer /\ Page.waits = waits
      /\ Page.asked = asked /\ Page.begun = begun /\ Page.called = called /\ Page.cut = cut
      /\ Page.missed = missed
  BY DEF Page
<1>9. /\ UNCHANGED <<world, timers, anim, ticking, defer, waits, asked, begun, called, cut, missed>>
      /\ queue' = v.queue /\ mark' = u.mark /\ checks' = u.checks
      /\ hooks' = s.hooks /\ sleeping' = s.sleeping /\ stuck' = s.stuck
  BY <1>1, <1>5, <1>6, <1>7, <1>8 DEF Becomes, SameRest
<1>10. /\ queue' = IF clear THEN [queue EXCEPT ![e] = <<>>] ELSE queue
       /\ mark' = IF gotoEnd THEN mark ELSE [mark EXCEPT ![e] = 0]
  BY <1>5, <1>6, <1>8, <1>9
<1>11. /\ u.hooks[e] = IF clear THEN 0 ELSE hooks[e]
       /\ hooks' = [hooks EXCEPT ![e] = 0]
  <2>1. u.hooks = IF clear THEN [hooks EXCEPT ![e] = 0] ELSE hooks
    BY <1>5, <1>6, <1>8
  <2>2. hooks' = IF u.hooks[e] = 0 THEN u.hooks ELSE [u.hooks EXCEPT ![e] = 0]
    BY <1>7, <1>9
  <2>3. hooks \in [Element -> Nat]
    BY DEF Types
  <2> QED
    BY <2>1, <2>2, <2>3
<1>12. /\ sleeping' = IF clear \/ hooks[e] = 0 THEN sleeping ELSE {x \in sleeping : x.id # hooks[e]}
       /\ stuck' = IF ~clear /\ hooks[e] # 0 /\ gotoEnd /\ Moves(e) THEN stuck \cup {e} ELSE stuck
  <2>1. u.sleeping = sleeping /\ u.stuck = stuck
    BY <1>5, <1>6, <1>8 DEF SameRest
  <2>2. /\ sleeping' = IF u.hooks[e] = 0 THEN sleeping ELSE {x \in sleeping : x.id # u.hooks[e]}
        /\ stuck' = IF u.hooks[e] # 0 /\ gotoEnd /\ Moves(e) THEN stuck \cup {e} ELSE stuck
    BY <1>2, <1>7, <1>9, <2>1
  <2>3. CASE clear
    <3>1. u.hooks[e] = 0
      BY <1>11, <2>3
    <3> QED
      BY <2>2, <2>3, <3>1
  <2>4. CASE ~clear
    <3>1. u.hooks[e] = hooks[e]
      BY <1>11, <2>4
    <3> QED
      BY <2>2, <2>4, <3>1
  <2> QED
    BY <2>3, <2>4
<1>13. /\ v.checks = IF clear /\ defer[e] # 0 /\ mark[e] = 0 THEN Append(checks, c) ELSE checks
       /\ checks' = IF ~gotoEnd /\ defer[e] # 0 /\ queue'[e] = <<>> THEN Append(v.checks, c)
                    ELSE v.checks
  BY <1>5, <1>6, <1>8, <1>9 DEF SameRest
<1>14. /\ v.checks \in Seq(Waiter) /\ Among(checks) \subseteq Among(v.checks)
       /\ clear /\ defer[e] # 0 /\ mark[e] = 0 => c \in Among(v.checks)
  <2>1. checks \in Seq(Waiter)
    BY DEF Types
  <2> QED
    BY <1>4, <1>13, <2>1, Appended
<1>15. /\ checks' \in Seq(Waiter) /\ Among(v.checks) \subseteq Among(checks')
       /\ ~gotoEnd /\ defer[e] # 0 /\ queue'[e] = <<>> => c \in Among(checks')
  <2> DEFINE t == v.checks
  <2>1. t \in Seq(Waiter)
    BY <1>14
  <2> HIDE DEF t, c
  <2>2. Append(t, c) \in Seq(Waiter) /\ Among(Append(t, c)) = {c} \cup Among(t)
    BY <1>4, <2>1, Appended
  <2>3. checks' = IF ~gotoEnd /\ defer[e] # 0 /\ queue'[e] = <<>> THEN Append(t, c) ELSE t
    BY <1>13 DEF t
  <2>4. CASE ~gotoEnd /\ defer[e] # 0 /\ queue'[e] = <<>>
    BY <2>2, <2>3, <2>4 DEF t
  <2>5. CASE ~(~gotoEnd /\ defer[e] # 0 /\ queue'[e] = <<>>)
    BY <2>1, <2>3, <2>5 DEF t
  <2> QED
    BY <2>4, <2>5
<1>16. clear \/ ~gotoEnd => defer[e] = 0 \/ queue'[e] # <<>> \/ mark'[e] # 0 \/ c \in Among(checks')
  BY <1>10, <1>14, <1>15 DEF Types
<1> QED
  BY <1>9, <1>10, <1>11, <1>12, <1>14, <1>15, <1>16

LEMMA StopNowIs ==
  ASSUME Types, NEW e \in Element, NEW clear \in BOOLEAN, NEW gotoEnd \in BOOLEAN,
         StopFree(e, clear, gotoEnd)
  PROVE  /\ stack = <<>> \/ (stack # <<>> /\ Me.k = "user")
         /\ count' = count + 1 /\ threw' = threw /\ (clear => Clears) /\ Free(e)
         /\ stack' = <<Stop(e, gotoEnd, Len(timers), FALSE)>> \o stack
         /\ Becomes(StopBegins(Page, e, clear, gotoEnd))
  BY MayIs DEF StopFree, StopNow, Does, Clears

LEMMA NowIs ==
  ASSUME Types, NEW e \in Element, NEW shown, ShowOrHideNow(e, shown)
  PROVE  /\ UNCHANGED <<world, entryVars, waitVars, timers, anim, ticking, called, cut, stuck,
                        threw, stack>>
         /\ count' = count + 1
  BY MayIs, Nothing0 DEF ShowOrHideNow, Does, Becomes, Page, entryVars, waitVars, Types

LEMMA PromiseIs ==
  ASSUME Types, NEW s \in SUBSET Element, Promise(s)
  PROVE  LET me == count + 1
             of == {e \in s : defer[e] # 0 \/ queue[e] # <<>> \/ mark[e] # 0} IN
         /\ UNCHANGED <<world, entryVars, mark, checks, missed, timers, anim, ticking, called, cut,
                        stuck, threw, stack>>
         /\ count' = me
         /\ defer' = [e \in Element |-> IF e \in of /\ defer[e] = 0 THEN me ELSE defer[e]]
         /\ IsFcn(waits') /\ DOMAIN waits' = DOMAIN waits \cup {me}
         /\ waits'[me] = {[elem |-> e, defer |-> defer'[e]] : e \in of}
         /\ \A p \in DOMAIN waits : p # me => waits'[p] = waits[p]
<1> DEFINE me == count + 1
           of == {e \in s : defer[e] # 0 \/ queue[e] # <<>> \/ mark[e] # 0}
           d == [e \in Element |-> IF e \in of /\ defer[e] = 0 THEN me ELSE defer[e]]
           ws == {[elem |-> e, defer |-> d[e]] : e \in of}
           w == [Page EXCEPT !.defer = [e \in Element |->
                  IF e \in of /\ @[e] = 0 THEN me ELSE @[e]]]
           v == [w EXCEPT !.waits = With(@, me, {[elem |-> e, defer |-> w.defer[e]] : e \in of})]
<1>1. May("promise") /\ Becomes(v) /\ stack' = stack
  BY Nothing0 DEF Promise, Does, Types
<1>2. w.defer = d /\ w.waits = waits
  BY DEF Page
<1>3. /\ v.defer = d /\ v.waits = With(waits, me, {[elem |-> e, defer |-> w.defer[e]] : e \in of})
      /\ v.anim = anim /\ v.queue = queue /\ v.hooks = hooks /\ v.timers = timers
      /\ v.begun = begun /\ v.sleeping = sleeping /\ v.ticking = ticking
      /\ v.mark = mark /\ v.checks = checks
      /\ v.asked = asked /\ v.called = called /\ v.cut = cut /\ v.stuck = stuck
      /\ v.missed = missed
  <2> HIDE DEF d, of
  <2> QED
    BY <1>2 DEF Page
<1> HIDE DEF v, w
<1>4. /\ UNCHANGED <<world, entryVars, mark, checks, missed, timers, anim, ticking, called, cut,
                     stuck, threw, stack>>
      /\ count' = me /\ defer' = d
  BY <1>1, <1>3, MayIs DEF Becomes, entryVars
<1>5. waits' = With(waits, me, ws)
  BY <1>1, <1>2, <1>3 DEF Becomes
<1> HIDE DEF ws, d, of
<1>6. /\ IsFcn(waits') /\ DOMAIN waits' = DOMAIN waits \cup {me} /\ waits'[me] = ws
      /\ \A p \in DOMAIN waits : p # me => waits'[p] = waits[p]
  BY <1>5 DEF With, IsFcn
<1> QED
  BY <1>4, <1>6 DEF ws, d, of

LEMMA ReturnsIs ==
  ASSUME Types, Returns
  PROVE  /\ stack # <<>> /\ Me.k = "user" /\ stack' = Tail(stack)
         /\ UNCHANGED <<world, entryVars, waitVars, timers, anim, ticking, called, cut, stuck,
                        threw, count>>
<1>1. stack # <<>> /\ Me.k = "user"
  BY DEF Returns, Running, Me
<1> QED
  BY <1>1, Keeps, Quit DEF Returns

LEMMA ThrowsIs ==
  ASSUME Types, Throws
  PROVE  /\ threw' = TRUE /\ stack' = <<>>
         /\ UNCHANGED <<world, entryVars, waitVars, timers, anim, ticking, called, cut, stuck, count>>
  BY DEF Throws, Breaks, Becomes, Page, entryVars, waitVars

LEMMA WakesIs ==
  ASSUME Types, NEW d \in sleeping, Wakes(d)
  PROVE  /\ stack = <<>> /\ stack' = <<Dequeue(d.elem)>> /\ sleeping' = sleeping \ {d}
         /\ UNCHANGED <<world, queue, hooks, asked, begun, waitVars, timers, anim, ticking, called,
                        cut, stuck, threw, count>>
  BY DEF Wakes, Idle, Becomes, Page, waitVars

LEMMA CheckIs ==
  ASSUME Types, Check
  PROVE  LET c == Head(checks)
             later == {[elem |-> c.elem, defer |-> defer[c.elem]]} \ {c} IN
         /\ stack = <<>> /\ checks # <<>> /\ checks' = Tail(checks)
         /\ UNCHANGED <<world, entryVars, mark, timers, anim, ticking, called, cut, stuck, threw,
                        count, stack>>
         /\ \/ /\ queue[c.elem] = <<>> /\ mark[c.elem] = 0
               /\ defer' = [defer EXCEPT ![c.elem] = 0] /\ missed' = missed \cup later
               /\ waits' = [p \in DOMAIN waits |-> waits[p] \ {c}]
            \/ /\ ~(queue[c.elem] = <<>> /\ mark[c.elem] = 0)
               /\ UNCHANGED <<defer, missed, waits>>
<1> DEFINE c == Head(checks)
           later == {[elem |-> c.elem, defer |-> defer[c.elem]]} \ {c}
           w == [Page EXCEPT !.checks = Tail(@)]
           v == [w EXCEPT !.defer[c.elem] = 0, !.missed = @ \cup later,
                          !.waits = [p \in DOMAIN @ |-> @[p] \ {c}]]
<1>1. stack = <<>> /\ checks # <<>> /\ UNCHANGED <<threw, count, stack>>
  BY DEF Check, Idle
<1>2. Becomes(IF queue[c.elem] = <<>> /\ mark[c.elem] = 0 THEN v ELSE w)
  BY DEF Check
<1>3. /\ v.checks = Tail(checks) /\ w.checks = Tail(checks)
      /\ v.anim = anim /\ v.queue = queue /\ v.hooks = hooks /\ v.timers = timers
      /\ v.begun = begun /\ v.sleeping = sleeping /\ v.ticking = ticking
      /\ v.mark = mark /\ v.asked = asked /\ v.called = called /\ v.cut = cut /\ v.stuck = stuck
      /\ w.anim = anim /\ w.queue = queue /\ w.hooks = hooks /\ w.timers = timers
      /\ w.begun = begun /\ w.sleeping = sleeping /\ w.ticking = ticking
      /\ w.mark = mark /\ w.asked = asked /\ w.called = called /\ w.cut = cut /\ w.stuck = stuck
  <2> HIDE DEF later, c
  <2> QED
    BY DEF Page
<1>4. /\ w.defer = defer /\ w.missed = missed /\ w.waits = waits
      /\ v.defer = [defer EXCEPT ![c.elem] = 0] /\ v.missed = missed \cup later
      /\ v.waits = [p \in DOMAIN waits |-> waits[p] \ {c}]
  <2> HIDE DEF later, c
  <2> QED
    BY DEF Page
<1> HIDE DEF v, w
<1>5. CASE queue[c.elem] = <<>> /\ mark[c.elem] = 0
  BY <1>1, <1>2, <1>3, <1>4, <1>5 DEF Becomes, entryVars
<1>6. CASE ~(queue[c.elem] = <<>> /\ mark[c.elem] = 0)
  BY <1>1, <1>2, <1>3, <1>4, <1>6 DEF Becomes, entryVars
<1> QED
  BY <1>5, <1>6

-----------------------------------------------------------------------------
(***************************************************************************)
(* Every step keeps the stack in order.                                    *)
(***************************************************************************)
LEMMA Frames ==
  ASSUME StepInv
  PROVE  /\ TimersOfAnims
         /\ stack # <<>> => /\ Me \in Frame /\ Me \in Among(stack)
                            /\ Me.k \in {"custom", "complete", "completed"} => Me.anim \in DOMAIN anim
                            /\ Me.k = "custom" => /\ Me.prop \in anim[Me.anim].props
                                                  /\ Me.prop \in Rest(Me.anim)
                            /\ Me.k \in {"stop", "stopped"} => Me.i <= Len(timers)
  BY Top DEF StepInv, TimersOfAnims, TimerInv, FrameInv, FrameOk, Rest

\* The loop of the interval has nothing below it.
LEMMA Bottom ==
  ASSUME StepInv, stack # <<>>, Me.k \in {"tick", "ticked"}
  PROVE  Tail(stack) = <<>>
<1>1. \A g \in Among(Tail(stack)) : FALSE
  BY OrderTail DEF StepInv, Types, Over, Me
<1>2. Tail(stack) \in Seq(Frame)
  BY Top DEF StepInv
<1>3. Len(Tail(stack)) \in Nat
  BY <1>2
<1>4. CASE Len(Tail(stack)) # 0
  <2> DEFINE n == Len(Tail(stack))
  <2>0. n \in Nat /\ n # 0
    BY <1>3, <1>4
  <2> HIDE DEF n
  <2>3. 1 \in 1 .. n
    BY <2>0
  <2>1. 1 \in 1 .. Len(Tail(stack))
    BY <2>3 DEF n
  <2>2. Tail(stack)[1] \in Among(Tail(stack))
    BY <2>1 DEF Among
  <2> QED
    BY <1>1, <2>2
<1> QED
  BY <1>2, <1>3, <1>4, Nothing0

LEMMA FramePushed ==
  ASSUME NEW s \in Seq(Frame), NEW x \in Frame, NEW n, n = <<x>> \o s
  PROVE  /\ n \in Seq(Frame) /\ n # <<>> /\ Head(n) = x /\ Tail(n) = s /\ n[1] = x
         /\ Among(n) = {x} \cup Among(s)
  BY Pushed

LEMMA OrderTop ==
  ASSUME NEW f \in Frame, NEW an
  PROVE  <<f>> \in Seq(Frame) /\ Order(<<f>>, an) /\ Among(<<f>>) = {f}
<1>1. <<f>> \in Seq(Frame) /\ Len(<<f>>) = 1 /\ <<f>>[1] = f
  OBVIOUS
<1> QED
  BY <1>1 DEF Order, Among

\* The frame on top goes.
LEMMA Pops ==
  ASSUME StepInv, stack # <<>>, stack' = Tail(stack),
         \A a \in DOMAIN anim : anim'[a].elem = anim[a].elem
  PROVE  stack' \in Seq(Frame) /\ Order(stack', anim')
<1>1. Tail(stack) \in Seq(Frame) /\ Order(Tail(stack), anim)
  BY Top, OrderTail DEF StepInv, Types
<1>2. \A g \in Among(Tail(stack)) : g.k = "completed" => anim'[g.anim].elem = anim[g.anim].elem
  BY Top DEF StepInv, FrameInv, FrameOk
<1> QED
  BY <1>1, <1>2, OrderKept

\* It goes on as another one.
LEMMA GoesOn ==
  ASSUME StepInv, stack # <<>>, NEW h \in Frame, stack' = <<h>> \o Tail(stack),
         Me.k \notin {"custom", "show", "user"}, h.k \notin {"tick", "ticked"},
         h.k \in {"stop", "stopped"} => Me.k \in {"stop", "stopped"} /\ h.elem = Me.elem,
         h.k = "completed" => h \notin Among(Tail(stack)),
         \A a \in DOMAIN anim : anim'[a].elem = anim[a].elem,
         h.k = "completed" => h.anim \in DOMAIN anim
  PROVE  stack' \in Seq(Frame) /\ Order(stack', anim')
<1>1. Tail(stack) \in Seq(Frame) /\ Order(stack', anim)
  BY Top, OrderAs DEF StepInv
<1>2. stack' \in Seq(Frame) /\ Among(stack') = {h} \cup Among(Tail(stack))
  BY <1>1, FramePushed
<1>3. \A g \in Among(stack') : g.k = "completed" => anim'[g.anim].elem = anim[g.anim].elem
  BY <1>2, Top DEF StepInv, FrameInv, FrameOk
<1> QED
  BY <1>1, <1>2, <1>3, OrderKept

\* Two frames on top.
LEMMA TwoPushed ==
  ASSUME NEW u \in Seq(Frame), NEW f \in Frame, NEW h \in Frame
  PROVE  LET n == <<f, h>> \o u IN
         /\ n = <<f>> \o (<<h>> \o u)
         /\ n \in Seq(Frame) /\ n # <<>> /\ Head(n) = f /\ Tail(n) = <<h>> \o u /\ n[1] = f
         /\ Among(n) = {f, h} \cup Among(u)
<1>1. <<f, h>> \o u = <<f>> \o (<<h>> \o u)
  BY Two
<1>2. PICK t : t = <<h>> \o u
  OBVIOUS
<1>3. t \in Seq(Frame) /\ Among(t) = {h} \cup Among(u)
  BY <1>2, FramePushed
<1>4. LET n == <<f>> \o t IN
      /\ n \in Seq(Frame) /\ n # <<>> /\ Head(n) = f /\ Tail(n) = t /\ n[1] = f
      /\ Among(n) = {f} \cup Among(t)
  BY <1>3, Pushed
<1> QED
  BY <1>1, <1>2, <1>3, <1>4

LEMMA TwoAmong ==
  ASSUME NEW u \in Seq(Frame), NEW f \in Frame, NEW h \in Frame
  PROVE  /\ <<f, h>> \o u \in Seq(Frame)
         /\ Among(<<f, h>> \o u) = {f, h} \cup Among(u)
  BY TwoPushed, Zenon

LEMMA OrderTwo ==
  ASSUME NEW u \in Seq(Frame), NEW f \in Frame, NEW h \in Frame, NEW n, n = <<f, h>> \o u,
         NEW an, Order(<<h>> \o u, an), \A g \in Among(u) : Over(f, g, an), Over(f, h, an),
         h.k = "completed" => f = User(an[h.anim].elem)
  PROVE  Order(n, an)
<1>1. n = <<f>> \o (<<h>> \o u)
  BY Two
<1>2. PICK t : t = <<h>> \o u
  OBVIOUS
<1>3. t \in Seq(Frame) /\ Among(t) = {h} \cup Among(u) /\ t[1] = h
  BY <1>2, FramePushed
<1> QED
  BY <1>1, <1>2, <1>3, OrderPush

\* It goes on as h, and f runs first.
LEMMA GoesOnWith ==
  ASSUME StepInv, stack # <<>>, NEW h \in Frame, NEW f \in Frame,
         stack' = <<f, h>> \o Tail(stack),
         Me.k \notin {"custom", "show", "user"}, h.k \notin {"tick", "ticked"},
         h.k \in {"stop", "stopped"} => Me.k \in {"stop", "stopped"} /\ h.elem = Me.elem,
         h.k = "completed" => h \notin Among(Tail(stack)),
         \A a \in DOMAIN anim : anim'[a].elem = anim[a].elem,
         h.k = "completed" => h.anim \in DOMAIN anim /\ f = User(anim[h.anim].elem),
         f.k \in {"begin", "complete", "user"}, Over(f, h, anim)
  PROVE  stack' \in Seq(Frame) /\ Order(stack', anim')
<1>1. /\ Tail(stack) \in Seq(Frame) /\ Order(<<h>> \o Tail(stack), anim)
      /\ \A g \in Among(Tail(stack)) : Over(Me, g, anim)
  BY Top, OrderAs, OrderTail DEF StepInv, Types, Me
<1>2. \A g \in Among(Tail(stack)) : Over(f, g, anim)
  BY <1>1, OverAs
<1>3. Order(stack', anim)
  BY <1>1, <1>2, OrderTwo
<1>4. stack' \in Seq(Frame) /\ Among(stack') = {f, h} \cup Among(Tail(stack))
  <2>1. /\ <<f, h>> \o Tail(stack) \in Seq(Frame)
        /\ Among(<<f, h>> \o Tail(stack)) = {f, h} \cup Among(Tail(stack))
    BY <1>1, TwoAmong
  <2> QED
    BY <2>1
<1>5. \A g \in Among(stack') : g.k = "completed" => anim'[g.anim].elem = anim[g.anim].elem
  BY <1>4, Top DEF StepInv, FrameInv, FrameOk
<1> QED
  BY <1>3, <1>4, <1>5, OrderKept

\* What a page or a callback calls.
LEMMA CallsOn ==
  ASSUME StepInv, stack # <<>> => Me.k = "user", NEW f \in Frame, stack' = <<f>> \o stack,
         f.k \in {"dequeue", "begin", "stop"}, f.k = "stop" => Free(f.elem),
         anim' = anim
  PROVE  stack' \in Seq(Frame) /\ Order(stack', anim')
<1>1. stack \in Seq(Frame) /\ Order(stack, anim) /\ Len(stack) \in Nat
  BY DEF StepInv, Types
<1>2. ASSUME NEW g \in Among(stack) PROVE Over(f, g, anim)
  <2>1. PICK j \in 1 .. Len(stack) : g = stack[j]
    BY <1>2 DEF Among
  <2>2. stack # <<>> /\ Me = stack[1] /\ Me.k = "user"
    BY <2>1, Top DEF StepInv
  <2>3. CASE j = 1
    BY <2>1, <2>2, <2>3 DEF Over
  <2>4. CASE j # 1
    <3>1. 1 \in 1 .. Len(stack) /\ 1 < j /\ j \in 2 .. Len(stack) /\ j - 1 \in 1 .. Len(stack)
      BY <1>1, <2>1, <2>4
    <3>2. Over(Me, g, anim)
      BY <1>1, <2>1, <2>2, <3>1 DEF Order
    <3>3. g.k = "completed" => stack[j - 1] = User(anim[g.anim].elem)
      BY <1>1, <2>1, <3>1 DEF Order
    <3>4. f.k = "stop" /\ g.k = "completed" => anim[g.anim].elem # f.elem
      BY <3>1, <3>3 DEF Free, InCallbackOf, Finishing, User
    <3>5. f.k = "stop" => g.k # "stopped"
      BY <2>1 DEF Free, InCallbackOf, Finishing
    <3> QED
      BY <2>2, <3>2, <3>4, <3>5 DEF Over
  <2> QED
    BY <2>3, <2>4
<1>3. stack # <<>> => stack[1].k = "user"
  BY Top DEF StepInv
<1>4. Order(stack', anim)
  BY <1>1, <1>2, <1>3, OrderPush
<1> QED
  BY <1>1, <1>4, Pushed

AnimTypes == IsFcn(anim) /\ \A a \in DOMAIN anim : a \in Nat /\ IsAnim(anim[a])
Ordered == Types /\ Order(stack, anim)

LEMMA Put ==
  ASSUME NEW S, NEW f \in [Element -> S], NEW e \in Element, NEW v \in S
  PROVE  /\ [f EXCEPT ![e] = v] \in [Element -> S] /\ [f EXCEPT ![e] = v][e] = v
         /\ \A x \in Element : x # e => [f EXCEPT ![e] = v][x] = f[x]
  OBVIOUS

LEMMA ChecksTyped ==
  ASSUME Types, NEW e \in Element, NEW b,
         checks' = IF b THEN Append(checks, [elem |-> e, defer |-> defer[e]]) ELSE checks
  PROVE  checks' \in Seq(Waiter)
<1>1. [elem |-> e, defer |-> defer[e]] \in Waiter /\ checks \in Seq(Waiter)
  BY DEF Types, Waiter
<1>2. Append(checks, [elem |-> e, defer |-> defer[e]]) \in Seq(Waiter)
  BY <1>1, Appended
<1> QED
  BY <1>1, <1>2

LEMMA TypesAs ==
  ASSUME Types, UNCHANGED <<world, entryVars, waitVars, called, stuck, count>>,
         threw' \in BOOLEAN, ticking' \in BOOLEAN, timers' \in Seq(Timer), AnimTypes',
         stack' \in Seq(Frame)
  PROVE  Types'
  BY DEF Types, entryVars, waitVars, AnimTypes

\* The same with the animations as they are.
LEMMA TypesSame ==
  ASSUME Types, UNCHANGED <<world, entryVars, waitVars, called, stuck, count, timers, anim, ticking>>,
         threw' \in BOOLEAN, stack' \in Seq(Frame)
  PROVE  Types'
  BY DEF Types, entryVars, waitVars

LEMMA AnimEndsTypes ==
  ASSUME Types, NEW id \in DOMAIN anim, NEW p, AnimEnds(id, p)
  PROVE  AnimTypes' /\ \A a \in DOMAIN anim : anim'[a].elem = anim[a].elem
<1>1. IsFcn(anim') /\ DOMAIN anim' = DOMAIN anim /\ anim'[id].elem = anim[id].elem
      /\ \A x \in DOMAIN anim : x # id => anim'[x] = anim[x]
  BY DEF AnimEnds
<1>2. \A a \in DOMAIN anim : a \in Nat /\ IsAnim(anim[a])
  BY DEF Types
<1>3. IsAnim(anim'[id])
  BY DEF AnimEnds
<1>4. ASSUME NEW a \in DOMAIN anim
      PROVE  a \in Nat /\ IsAnim(anim'[a]) /\ anim'[a].elem = anim[a].elem
  <2>1. CASE a = id
    BY <1>1, <1>2, <1>3, <2>1
  <2>2. CASE a # id
    BY <1>1, <1>2, <2>2
  <2> QED
    BY <2>1, <2>2
<1> QED
  BY <1>1, <1>4 DEF AnimTypes

LEMMA AfterIs ==
  ASSUME StepInv, NEW e \in Element
  PROVE  LET rest == After(e)  c == Head(rest) IN
         /\ rest \in Seq(Queueable)
         /\ rest # <<>> => /\ c \in Queueable /\ Tail(rest) \in Seq(Queueable) /\ c.id \in Nat
                          /\ (c.k # "delay" => c \in AnimEntry /\ c.queued)
<1> DEFINE rest == After(e)  c == Head(rest)
<1>1. Types
  BY DEF StepInv
<1>2. e \in Element
  OBVIOUS
<1>3. rest \in Seq(Queueable)
  <2>1. queue[e] \in Seq(Queueable \cup {Sentinel})
    BY <1>1, <1>2 DEF Types
  <2> DEFINE q == queue[e]
  <2>2. \A j \in 2 .. Len(q) : q[j] \in Queueable
    <3> SUFFICES ASSUME NEW j \in 2 .. Len(q) PROVE q[j] \in Queueable
      OBVIOUS
    <3>1. Len(q) \in Nat /\ 1 \in 1 .. Len(q) /\ j \in 1 .. Len(q) /\ 1 < j
      BY <2>1
    <3>2. IsEntry(q[j])
      BY <1>2, <3>1 DEF StepInv, EntryInv, Apart
    <3>3. q[j] \in Queueable \cup {Sentinel}
      BY <2>1, <3>1
    <3> QED
      BY <3>2, <3>3 DEF IsEntry, Sentinel
  <2> HIDE DEF q
  <2>3. CASE InProgress(q)
    <3>1. q # <<>> /\ q \in Seq(Queueable \cup {Sentinel})
      BY <2>1, <2>3 DEF InProgress, q
    <3>2. /\ Tail(q) \in Seq(Queueable \cup {Sentinel}) /\ Len(q) = Len(Tail(q)) + 1
          /\ \A j \in 1 .. Len(Tail(q)) : Tail(q)[j] = q[j + 1]
      BY <3>1, Popped
    <3>3. \A j \in 1 .. Len(Tail(q)) : Tail(q)[j] \in Queueable
      <4> SUFFICES ASSUME NEW j \in 1 .. Len(Tail(q)) PROVE Tail(q)[j] \in Queueable
        OBVIOUS
      <4>1. Len(Tail(q)) \in Nat
        BY <3>2
      <4>2. j + 1 \in 2 .. Len(q)
        BY <3>2, <4>1
      <4> QED
        BY <2>2, <3>2, <4>2
    <3>4. Tail(q) \in Seq(Queueable)
      <4>1. PICK r : r = Tail(q)
        OBVIOUS
      <4>2. r \in Seq(Queueable \cup {Sentinel}) /\ \A j \in 1 .. Len(r) : r[j] \in Queueable
        BY <3>2, <3>3, <4>1
      <4>3. r \in Seq(Queueable)
        <5>1. PICK S : S = Queueable \cup {Sentinel}
          OBVIOUS
        <5>2. r \in Seq(S) /\ \A j \in 1 .. Len(r) : r[j] \in Queueable
          BY <4>2, <5>1
        <5> QED
          BY <5>2, SMTT(30)
      <4> QED
        BY <4>1, <4>3
    <3> QED
      BY <2>3, <3>4 DEF After, q
  <2>4. CASE ~InProgress(q)
    <3>1. q \in Seq(Queueable \cup {Sentinel})
      BY <2>1 DEF q
    <3>2. \A j \in 1 .. Len(q) : q[j] \in Queueable
      <4> SUFFICES ASSUME NEW j \in 1 .. Len(q) PROVE q[j] \in Queueable
        OBVIOUS
      <4>1. Len(q) \in Nat
        BY <3>1
      <4>2. CASE j = 1
        <5>1. q # <<>> /\ q[1] \in Queueable \cup {Sentinel} /\ q[1] = Head(q)
          BY <3>1, <4>1, <4>2
        <5> QED
          BY <2>4, <4>2, <5>1 DEF InProgress
      <4>3. CASE j # 1
        <5>1. j \in 2 .. Len(q)
          BY <4>1, <4>3
        <5> QED
          BY <2>2, <5>1
      <4> QED
        BY <4>2, <4>3
    <3>3. q \in Seq(Queueable)
      BY <3>1, <3>2
    <3> QED
      BY <2>4, <3>3 DEF After, q
  <2> QED
    BY <2>3, <2>4
<1>4. rest # <<>> => c \in Queueable /\ Tail(rest) \in Seq(Queueable) /\ c.id \in Nat
                     /\ (c.k # "delay" => c \in AnimEntry /\ c.queued)
  <2> HIDE DEF rest
  <2>1. rest # <<>> => c \in Queueable /\ Tail(rest) \in Seq(Queueable)
    BY <1>3
  <2> QED
    BY <2>1 DEF Queueable, AnimEntry
<1> QED
  BY <1>3, <1>4

LEMMA DequeueOrder ==
  ASSUME StepInv, DequeueStep
  PROVE  Ordered'
<1> DEFINE e == Me.elem  rest == After(e)  c == Head(rest)
<1>1. Types /\ Order(stack, anim)
  BY DEF StepInv
<1>2. /\ stack # <<>> /\ Me.k = "dequeue" /\ e \in Element
      /\ UNCHANGED <<world, timers, anim, ticking, mark, look, defer, waits, asked, called, cut,
                     stuck, missed, threw, count>>
  BY <1>1, DequeueIs
<1>3. rest \in Seq(Queueable)
  BY <1>2, AfterIs
<1>4. rest # <<>> => c \in Queueable /\ Tail(rest) \in Seq(Queueable) /\ c.id \in Nat
                     /\ (c.k # "delay" => c \in AnimEntry /\ c.queued)
  BY <1>2, AfterIs
<1> HIDE DEF e, rest, c
<1>5. CASE rest = <<>>
  <2>1. /\ stack' = Tail(stack)
        /\ queue' = [queue EXCEPT ![e] = <<>>] /\ hooks' = [hooks EXCEPT ![e] = 0]
        /\ checks' = IF mark[e] = 0 /\ defer[e] # 0
                     THEN Append(checks, [elem |-> e, defer |-> defer[e]]) ELSE checks
        /\ UNCHANGED <<sleeping, begun>>
    BY <1>1, <1>5, DequeueIs DEF e, rest
  <2>2. stack' \in Seq(Frame) /\ Order(stack', anim')
    BY <1>2, <2>1, Pops
  <2>3. checks' \in Seq(Waiter)
    <3>1. checks' = IF mark[e] = 0 /\ defer[e] # 0
                    THEN Append(checks, [elem |-> e, defer |-> defer[e]]) ELSE checks
      BY <2>1
    <3> QED
      BY <1>1, <1>2, <3>1, ChecksTyped
  <2>4. queue' \in [Element -> Seq(Queueable \cup {Sentinel})] /\ hooks' \in [Element -> Nat]
    <3>1. queue \in [Element -> Seq(Queueable \cup {Sentinel})] /\ hooks \in [Element -> Nat]
      BY <1>1 DEF Types
    <3>2. <<>> \in Seq(Queueable \cup {Sentinel})
      OBVIOUS
    <3> QED
      BY <1>2, <2>1, <3>1, <3>2
  <2>5. begun' = begun /\ sleeping' = sleeping
    BY <2>1
  <2> QED
    BY <1>1, <1>2, <2>2, <2>3, <2>4, <2>5 DEF Types, Ordered
<1>6. CASE rest # <<>>
  <2>1. /\ queue' = [queue EXCEPT ![e] = <<Sentinel>> \o Tail(rest)]
        /\ begun' = [begun EXCEPT ![e] = Append(begun[e], c.id)] /\ checks' = checks
        /\ \/ /\ c.k = "delay" /\ stack' = Tail(stack)
              /\ hooks' = [hooks EXCEPT ![e] = c.id]
              /\ sleeping' = sleeping \cup {[id |-> c.id, elem |-> e]}
           \/ /\ c.k # "delay"
              /\ stack' = <<Begin(e, c), Dequeued(e)>> \o Tail(stack)
              /\ hooks' = [hooks EXCEPT ![e] = 0] /\ sleeping' = sleeping
    BY <1>1, <1>6, DequeueIs DEF e, rest, c
  <2>2. c \in Queueable /\ Tail(rest) \in Seq(Queueable) /\ c.id \in Nat
    BY <1>4, <1>6
  <2>3. <<Sentinel>> \o Tail(rest) \in Seq(Queueable \cup {Sentinel})
    <3>1. Tail(rest) \in Seq(Queueable \cup {Sentinel})
      BY <2>2
    <3> QED
      BY <3>1, Pushed
  <2>4. queue' \in [Element -> Seq(Queueable \cup {Sentinel})] /\ begun' \in [Element -> Seq(Nat)]
    BY <1>1, <1>2, <2>1, <2>2, <2>3 DEF Types
  <2>5. hooks' \in [Element -> Nat] /\ sleeping' \subseteq [id : Nat, elem : Element]
    <3>1. hooks \in [Element -> Nat] /\ 0 \in Nat /\ sleeping \subseteq [id : Nat, elem : Element]
      BY <1>1 DEF Types
    <3>2. /\ [hooks EXCEPT ![e] = 0] \in [Element -> Nat]
          /\ [hooks EXCEPT ![e] = c.id] \in [Element -> Nat]
      BY <1>2, <2>2, <3>1, Put
    <3>3. [id |-> c.id, elem |-> e] \in [id : Nat, elem : Element]
      BY <1>2, <2>2
    <3> QED
      BY <2>1, <3>1, <3>2, <3>3
  <2>6. stack' \in Seq(Frame) /\ Order(stack', anim')
    <3>1. CASE c.k = "delay"
      BY <1>2, <2>1, <3>1, Pops
    <3>2. CASE c.k # "delay"
      <4>1. c \in AnimEntry /\ Begin(e, c) \in Frame /\ Dequeued(e) \in Frame
        BY <1>2, <1>4, <1>6, <3>2, FrameMade
      <4>2. Begin(e, c).k = "begin" /\ Dequeued(e).k = "dequeued"
        BY DEF Begin, Dequeued
      <4>3. Over(Begin(e, c), Dequeued(e), anim)
        BY <4>2 DEF Over
      <4>4. stack' = <<Begin(e, c), Dequeued(e)>> \o Tail(stack)
        BY <2>1, <3>2
      <4> QED
        BY <1>2, <4>1, <4>2, <4>3, <4>4, GoesOnWith
    <3> QED
      BY <3>1, <3>2
  <2> QED
    BY <1>1, <1>2, <2>1, <2>4, <2>5, <2>6 DEF Types, Ordered
<1> QED
  BY <1>5, <1>6

LEMMA DequeueEndsOrder ==
  ASSUME StepInv, DequeueEnds
  PROVE  Ordered'
<1>1. Types
  BY DEF StepInv
<1>2. /\ stack # <<>> /\ Me.k = "dequeued" /\ Me.elem \in Element
      /\ UNCHANGED <<world, sleeping, timers, anim, ticking, mark, look, defer, waits,
                     asked, begun, called, cut, stuck, missed, queue, threw, count>>
      /\ stack' = Tail(stack)
      /\ hooks' = hooks \/ hooks' = [hooks EXCEPT ![Me.elem] = 0]
      /\ checks' = checks \/ \E c \in Waiter : checks' = Append(checks, c)
  BY <1>1, DequeueEndsIs
<1>3. stack' \in Seq(Frame) /\ Order(stack', anim')
  BY <1>2, Pops
<1>4. hooks' \in [Element -> Nat]
  <2>1. hooks \in [Element -> Nat] /\ 0 \in Nat
    BY <1>1 DEF Types
  <2>2. [hooks EXCEPT ![Me.elem] = 0] \in [Element -> Nat]
    BY <1>2, <2>1, Put
  <2> QED
    BY <1>2, <2>1, <2>2
<1>5. checks' \in Seq(Waiter)
  <2>1. checks \in Seq(Waiter)
    BY <1>1 DEF Types
  <2>2. \A c \in Waiter : Append(checks, c) \in Seq(Waiter)
    BY <2>1, Appended
  <2> QED
    BY <1>2, <2>1, <2>2
<1> QED
  BY <1>1, <1>2, <1>3, <1>4, <1>5 DEF Types, Ordered

LEMMA ShowOrder ==
  ASSUME StepInv, ShowStep
  PROVE  Ordered'
<1>1. Types
  BY DEF StepInv
<1>2. stack' \in Seq(Frame) /\ Order(stack', anim')
  BY <1>1, ShowIs, Pops
<1> QED
  BY <1>1, <1>2, ShowIs, TypesSame DEF Ordered, Types

LEMMA ReturnsOrder ==
  ASSUME StepInv, Returns
  PROVE  Ordered'
<1>1. Types
  BY DEF StepInv
<1>2. stack' \in Seq(Frame) /\ Order(stack', anim')
  BY <1>1, ReturnsIs, Pops
<1> QED
  BY <1>1, <1>2, ReturnsIs, TypesSame DEF Ordered, Types

LEMMA CompleteOrder ==
  ASSUME StepInv, CompleteStep
  PROVE  Ordered'
<1> DEFINE a == Me.anim
<1>1. Types
  BY DEF StepInv
<1>2. /\ stack # <<>> /\ Me = Complete(a) /\ a \in Nat
      /\ UNCHANGED <<world, entryVars, waitVars, timers, anim, ticking, cut, stuck, threw, count>>
      /\ a \notin DOMAIN called =>
           /\ IsFcn(called') /\ DOMAIN called' = DOMAIN called \cup {a} /\ called'[a] = 1
           /\ \A x \in DOMAIN called : called'[x] = called[x]
      /\ stack' = <<User(anim[a].elem), Completed(a)>> \o Tail(stack)
  BY <1>1, CompleteIs
<1>3. Me.k = "complete" /\ a \in DOMAIN anim /\ a \notin DOMAIN called
  BY <1>2, Frames DEF Complete, StepInv, FrameInv, FrameOk
<1>4. anim[a].elem \in Element
  BY <1>1, <1>3 DEF Types, IsAnim
<1> HIDE DEF a
<1>5. User(anim[a].elem) \in Frame /\ Completed(a) \in Frame
  BY <1>2, <1>4, FrameMade
<1>6. /\ User(anim[a].elem).k = "user" /\ Completed(a).k = "completed" /\ Completed(a).anim = a
  BY DEF User, Completed
<1>7. Completed(a) \notin Among(Tail(stack))
  <2>1. Completed(a) \in Among(stack) => a \in DOMAIN called
    BY <1>6 DEF StepInv, FrameInv, FrameOk
  <2> QED
    BY <1>1, <1>2, <1>3, <2>1, Top
<1>8. Over(User(anim[a].elem), Completed(a), anim)
  BY <1>6 DEF Over
<1>9. stack' \in Seq(Frame) /\ Order(stack', anim')
  <2>1. Me.k \notin {"custom", "show", "user"}
    BY <1>3
  <2>2. \A x \in DOMAIN anim : anim'[x].elem = anim[x].elem
    BY <1>2
  <2> QED
    BY <1>2, <1>3, <1>5, <1>6, <1>7, <1>8, <2>1, <2>2, GoesOnWith
<1>10. IsFcn(called') /\ \A x \in DOMAIN called' : called'[x] \in Nat
  BY <1>1, <1>2, <1>3 DEF Types
<1> QED
  BY <1>1, <1>2, <1>9, <1>10 DEF Types, Ordered, entryVars, waitVars

LEMMA CompleteEndsOrder ==
  ASSUME StepInv, CompleteEnds
  PROVE  Ordered'
<1> DEFINE a == Me.anim  e == anim[a].elem
<1>1. Types
  BY DEF StepInv
<1>2. stack # <<>> /\ Me.k = "completed"
  BY DEF CompleteEnds, Running, Me
<1>3. a \in DOMAIN anim
  BY <1>2, Frames
<1>4. /\ e \in Element
      /\ UNCHANGED <<world, entryVars, timers, anim, ticking, look, defer, waits, called, cut, stuck,
                     missed, threw, count>>
      /\ IF anim[a].queued
         THEN stack' = <<Dequeue(e)>> \o Tail(stack) /\ UNCHANGED <<mark, checks>>
         ELSE /\ stack' = Tail(stack)
              /\ mark' = [mark EXCEPT ![e] = IF mark[e] = 0 THEN 0 ELSE mark[e] - 1]
              /\ checks' = IF mark'[e] = 0 /\ defer[e] # 0 /\ queue[e] = <<>>
                           THEN Append(checks, [elem |-> e, defer |-> defer[e]]) ELSE checks
  BY <1>1, <1>3, CompleteEndsIs
<1> HIDE DEF a, e
<1>5. stack' \in Seq(Frame) /\ Order(stack', anim')
  <2>1. CASE anim[a].queued
    <3>1. Dequeue(e) \in Frame /\ Dequeue(e).k = "dequeue"
      BY <1>4, FrameMade DEF Dequeue
    <3>2. stack' = <<Dequeue(e)>> \o Tail(stack)
      BY <1>4, <2>1
    <3> QED
      BY <1>2, <1>4, <3>1, <3>2, GoesOn
  <2>2. CASE ~anim[a].queued
    BY <1>2, <1>4, <2>2, Pops
  <2> QED
    BY <2>1, <2>2
<1>6. checks' \in Seq(Waiter)
  <2>1. CASE anim[a].queued
    BY <1>1, <1>4, <2>1 DEF Types
  <2>2. CASE ~anim[a].queued
    <3>1. checks' = IF mark'[e] = 0 /\ defer[e] # 0 /\ queue[e] = <<>>
                    THEN Append(checks, [elem |-> e, defer |-> defer[e]]) ELSE checks
      BY <1>4, <2>2
    <3> QED
      BY <1>1, <1>4, <3>1, ChecksTyped
  <2> QED
    BY <2>1, <2>2
<1>7. mark' \in [Element -> Nat]
  <2>1. CASE anim[a].queued
    BY <1>1, <1>4, <2>1 DEF Types
  <2>2. CASE ~anim[a].queued
    <3>1. mark \in [Element -> Nat] /\ mark[e] \in Nat
      BY <1>1, <1>4 DEF Types
    <3>2. (IF mark[e] = 0 THEN 0 ELSE mark[e] - 1) \in Nat
      BY <3>1
    <3> QED
      BY <1>4, <2>2, <3>1, <3>2, Put
  <2> QED
    BY <2>1, <2>2
<1> QED
  BY <1>1, <1>4, <1>5, <1>6, <1>7 DEF Types, Ordered, entryVars

LEMMA IntervalOrder ==
  ASSUME StepInv, NEW due, Interval(due)
  PROVE  Ordered'
<1>1. Types
  BY DEF StepInv
<1>2. Tick(1) \in Frame
  BY FrameMade
<1>3. stack' \in Seq(Frame) /\ Order(stack', anim')
  BY <1>1, <1>2, IntervalIs, OrderTop
<1>4. AnimTypes'
  BY <1>1, IntervalIs DEF AnimTypes, Types
<1> QED
  BY <1>1, <1>3, <1>4, IntervalIs, TypesAs DEF Ordered, Types

LEMMA ThrowsOrder ==
  ASSUME StepInv, Throws
  PROVE  Ordered'
<1>1. Types
  BY DEF StepInv
<1>2. stack' \in Seq(Frame) /\ Order(stack', anim')
  BY <1>1, ThrowsIs DEF Order
<1> QED
  BY <1>1, <1>2, ThrowsIs, TypesSame DEF Ordered

LEMMA WakesOrder ==
  ASSUME StepInv, NEW d \in sleeping, Wakes(d)
  PROVE  Ordered'
<1>1. Types
  BY DEF StepInv
<1>2. d.elem \in Element /\ Dequeue(d.elem) \in Frame
  BY <1>1, FrameMade DEF Types
<1>3. stack' \in Seq(Frame) /\ Order(stack', anim')
  BY <1>1, <1>2, WakesIs, OrderTop
<1> QED
  BY <1>1, <1>3, WakesIs DEF Ordered, Types, waitVars

LEMMA CheckOrder ==
  ASSUME StepInv, Check
  PROVE  Ordered'
<1> DEFINE c == Head(checks)
           later == {[elem |-> c.elem, defer |-> defer[c.elem]]} \ {c}
<1>1. Types /\ Order(stack, anim)
  BY DEF StepInv
<1>2. /\ stack = <<>> /\ checks # <<>> /\ checks' = Tail(checks)
      /\ UNCHANGED <<world, entryVars, mark, timers, anim, ticking, called, cut, stuck, threw,
                     count, stack>>
      /\ \/ /\ queue[c.elem] = <<>> /\ mark[c.elem] = 0
            /\ defer' = [defer EXCEPT ![c.elem] = 0] /\ missed' = missed \cup later
            /\ waits' = [p \in DOMAIN waits |-> waits[p] \ {c}]
         \/ /\ ~(queue[c.elem] = <<>> /\ mark[c.elem] = 0)
            /\ UNCHANGED <<defer, missed, waits>>
  BY <1>1, CheckIs
<1>3. c \in Waiter /\ c.elem \in Element /\ checks' \in Seq(Waiter)
  <2>1. checks \in Seq(Waiter)
    BY <1>1 DEF Types
  <2>2. c \in Waiter /\ Tail(checks) \in Seq(Waiter)
    BY <1>2, <2>1, Popped
  <2> QED
    BY <1>2, <2>2 DEF Waiter
<1> HIDE DEF c, later
<1>4. defer' \in [Element -> Nat]
  BY <1>1, <1>2, <1>3 DEF Types
<1>5. IsFcn(waits') /\ \A p \in DOMAIN waits' : waits'[p] \subseteq Waiter
  BY <1>1, <1>2 DEF Types, IsFcn
<1> QED
  BY <1>1, <1>2, <1>3, <1>4, <1>5 DEF Types, Ordered, entryVars

LEMMA Assoc ==
  ASSUME NEW S, NEW u \in Seq(S), NEW v \in Seq(S), NEW w \in Seq(S)
  PROVE  (u \o v) \o w = u \o (v \o w)
  OBVIOUS

LEMMA Pair ==
  ASSUME NEW x, NEW y
  PROVE  <<x>> \o <<y>> = <<x, y>> /\ <<>> \o <<y>> = <<y>>
<1> DEFINE S == {x, y}  n == <<x>> \o <<y>>  m == <<x, y>>
<1>1. <<x>> \in Seq(S) /\ Len(<<x>>) = 1 /\ <<y>> \in Seq(S) /\ Len(<<y>>) = 1
  OBVIOUS
<1>2. m \in Seq(S) /\ Len(m) = 2 /\ m[1] = x /\ m[2] = y
  OBVIOUS
<1>3. /\ n \in Seq(S) /\ Len(n) = 2
      /\ \A j \in 1 .. 2 : n[j] = IF j <= 1 THEN <<x>>[j] ELSE <<y>>[j - 1]
  BY <1>1, Joined
<1>4. <<x>>[1] = x /\ <<y>>[1] = y
  OBVIOUS
<1> HIDE DEF n, m
<1>5. n[1] = x /\ n[2] = y
  <2>1. n[1] = <<x>>[1]
    BY <1>3
  <2>2. n[2] = <<y>>[1]
    BY <1>3
  <2> QED
    BY <1>4, <2>1, <2>2
<1>6. ASSUME NEW j \in 1 .. 2 PROVE n[j] = m[j]
  <2>1. j = 1 \/ j = 2
    OBVIOUS
  <2> QED
    BY <1>2, <1>5, <2>1
<1>7. n = m
  BY <1>2, <1>3, <1>6, SeqSame
<1> QED
  BY <1>1, <1>7, Nothing0 DEF n, m

LEMMA CallThen ==
  ASSUME NEW id, NEW f
  PROVE  \/ /\ Finished(anim'[id]) /\ anim[id].complete
            /\ CallFrames(id) \o <<f>> = <<Complete(id), f>>
         \/ /\ ~(Finished(anim'[id]) /\ anim[id].complete)
            /\ CallFrames(id) \o <<f>> = <<f>>
<1>1. <<Complete(id)>> \o <<f>> = <<Complete(id), f>> /\ <<>> \o <<f>> = <<f>>
  BY Pair
<1> QED
  BY <1>1 DEF CallFrames

LEMMA FramesJoined ==
  ASSUME NEW u \in Seq(Frame), NEW v \in Seq(Frame), NEW w \in Seq(Frame)
  PROVE  (u \o v) \o w = u \o (v \o w)
  BY Assoc

LEMMA FramePut ==
  ASSUME NEW s \in Seq(Frame), NEW x \in Frame
  PROVE  LET n == <<x>> \o s IN
         /\ n \in Seq(Frame) /\ n # <<>> /\ Head(n) = x /\ n[1] = x
         /\ Among(n) = {x} \cup Among(s)
<1>1. PICK n : n = <<x>> \o s
  OBVIOUS
<1>2. /\ n \in Seq(Frame) /\ n # <<>> /\ Head(n) = x /\ n[1] = x
      /\ Among(n) = {x} \cup Among(s)
  BY <1>1, FramePushed
<1> QED
  BY <1>1, <1>2

\* The frames that a beginning animation leaves.
LEMMA BeginFrames ==
  ASSUME StepInv, BeginStep
  PROVE  LET e == Me.elem  c == Me.entry IN
    /\ stack' \in Seq(Frame) /\ Order(stack', anim') /\ stack' # <<>>
    /\ IF anim'[c.id].complete
       THEN /\ Me'.k = "custom"
            /\ \E S \in SUBSET {Show(e)} : Among(stack') =
                 {Custom(c.id, p) : p \in c.props} \cup S \cup Among(Tail(stack))
       ELSE Me' = Complete(c.id) /\ Among(stack') = {Complete(c.id)} \cup Among(Tail(stack))
<1> DEFINE e == Me.elem  c == Me.entry  t == Tail(stack)
<1>1. Types /\ Order(stack, anim)
  BY DEF StepInv
<1>2. /\ stack # <<>> /\ Me.k = "begin" /\ e \in Element /\ c \in AnimEntry
      /\ DOMAIN anim' = DOMAIN anim \cup {c.id}
      /\ \A x \in DOMAIN anim : x # c.id => anim'[x] = anim[x]
      /\ IF anim'[c.id].complete
         THEN \E h, o \in {<<>>, <<Show(e)>>} :
                stack' = ((IF "height" \in c.props THEN <<Custom(c.id, "height")>> \o h ELSE <<>>)
                          \o (<<Custom(c.id, "opacity")>> \o o)) \o t
         ELSE stack' = <<Complete(c.id)>> \o t
  BY Zenon, <1>1, BeginIs
<1>3. c.id \notin DOMAIN anim
  BY <1>2 DEF StepInv, EntryInv, Running, Me
<1>4. \A x \in DOMAIN anim : anim'[x].elem = anim[x].elem
  BY Zenon, <1>2, <1>3
<1>5. /\ t \in Seq(Frame) /\ Order(t, anim) /\ \A g \in Among(t) : Over(Me, g, anim)
      /\ t # <<>> => t[1].k # "completed"
  BY <1>1, <1>2, Top, OrderTail DEF Me, User
<1>6. Order(t, anim')
  <2>1. \A g \in Among(t) : g.k = "completed" => anim'[g.anim].elem = anim[g.anim].elem
    BY <1>1, <1>2, <1>4, Top DEF StepInv, FrameInv, FrameOk
  <2> QED
    BY <1>5, <2>1, OrderKept
<1>7. c.id \in Nat /\ c.props \in PropSets
  BY <1>2 DEF AnimEntry
<1> DEFINE H == Custom(c.id, "height")  O == Custom(c.id, "opacity")  W == Show(e)
           C == Complete(c.id)
<1>8. /\ H \in Frame /\ O \in Frame /\ W \in Frame /\ C \in Frame
      /\ H.k = "custom" /\ O.k = "custom" /\ W.k = "show" /\ C.k = "complete"
      /\ H.anim = c.id /\ O.anim = c.id /\ H.prop = "height" /\ O.prop = "opacity"
  <2>1. c.id \in Nat /\ "height" \in Prop /\ "opacity" \in Prop
    BY <1>7 DEF Prop
  <2>2. H \in Frame /\ O \in Frame /\ W \in Frame /\ C \in Frame
    BY <1>2, <2>1, FrameMade
  <2> QED
    BY <2>2 DEF Custom, Show, Complete
<1> HIDE DEF H, O, W, C, c, e, t
<1>9. \A f \in {H, O, W, C} : \A g \in Among(t) : Over(f, g, anim')
  <2> SUFFICES ASSUME NEW f \in {H, O, W, C}, NEW g \in Among(t) PROVE Over(f, g, anim')
    OBVIOUS
  <2>1. Over(Me, g, anim)
    BY <1>5
  <2> QED
    BY <1>2, <1>8, <2>1 DEF Over
<1>10. Over(W, O, anim') /\ Over(H, O, anim') /\ Over(W, H, anim') /\ Over(H, W, anim') /\ Over(O, W, anim')
  BY <1>8 DEF Over
<1>11. CASE ~anim'[c.id].complete
  <2>1. stack' = <<C>> \o t
    BY <1>2, <1>11 DEF C
  <2>2. Order(<<C>> \o t, anim')
    BY <1>5, <1>6, <1>8, <1>9, OrderPush
  <2>3. stack' \in Seq(Frame) /\ stack' # <<>> /\ Head(stack') = C /\ Among(stack') = {C} \cup Among(t)
    BY ZenonT(40), <1>5, <1>8, <2>1, FramePushed
  <2> QED
    BY <1>11, <2>1, <2>2, <2>3 DEF Me, C, c, t
<1>12. CASE anim'[c.id].complete
  <2>1. PICK h, o \in {<<>>, <<W>>} :
          stack' = ((IF "height" \in c.props THEN <<H>> \o h ELSE <<>>) \o (<<O>> \o o)) \o t
    BY <1>2, <1>12 DEF W, H, O
  <2>2. h \in Seq(Frame) /\ o \in Seq(Frame)
    <3>1. <<>> \in Seq(Frame) /\ <<W>> \in Seq(Frame)
      BY <1>8
    <3>2. h = <<>> \/ h = <<W>>
      OBVIOUS
    <3>3. o = <<>> \/ o = <<W>>
      OBVIOUS
    <3> QED
      BY <3>1, <3>2, <3>3
  <2>3. <<O>> \o o \in Seq(Frame) /\ <<H>> \o h \in Seq(Frame)
    BY <1>8, <2>2, Pushed
  \* what is above t, from below.
  <2>4. PICK t1 : t1 = o \o t
    OBVIOUS
  <2>5. /\ t1 \in Seq(Frame) /\ Order(t1, anim') /\ (t1 # <<>> => t1[1].k # "completed")
        /\ \E S \in SUBSET {W} : Among(t1) = S \cup Among(t)
    <3>1. CASE o = <<>>
      <4>1. t1 = t
        BY <1>5, <2>4, <3>1, Nothing0
      <4>2. {} \in SUBSET {W} /\ Among(t) = {} \cup Among(t)
        OBVIOUS
      <4> QED
        BY <1>5, <1>6, <4>1, <4>2
    <3>2. CASE o = <<W>>
      <4>1. t1 = <<W>> \o t
        BY <2>4, <3>2
      <4>2. Order(<<W>> \o t, anim')
        BY <1>5, <1>6, <1>8, <1>9, OrderPush
      <4>3. t1 \in Seq(Frame) /\ t1[1] = W /\ Among(t1) = {W} \cup Among(t)
        BY ZenonT(40), <1>5, <1>8, <4>1, FramePushed
      <4> QED
        BY <1>8, <4>1, <4>2, <4>3
    <3> QED
      BY <3>1, <3>2
  <2>6. PICK t2 : t2 = <<O>> \o t1
    OBVIOUS
  <2>7. /\ t2 \in Seq(Frame) /\ Order(t2, anim') /\ t2 # <<>> /\ t2[1] = O /\ Head(t2) = O
        /\ \E S \in SUBSET {W} : Among(t2) = {O} \cup S \cup Among(t)
    <3>1. \A g \in Among(t1) : Over(O, g, anim')
      BY <1>9, <1>10, <2>5
    <3>2. Order(<<O>> \o t1, anim')
      BY <1>8, <2>5, <3>1, OrderPush
    <3>3. /\ t2 \in Seq(Frame) /\ t2 # <<>> /\ t2[1] = O /\ Head(t2) = O
          /\ Among(t2) = {O} \cup Among(t1)
      <4>1. t1 \in Seq(Frame) /\ O \in Frame
        BY <1>8, <2>5
      <4> QED
        BY <2>6, <4>1, FramePushed
    <3>4. PICK S \in SUBSET {W} : Among(t1) = S \cup Among(t)
      BY <2>5
    <3>5. Among(t2) = {O} \cup S \cup Among(t)
      BY <3>3, <3>4
    <3> QED
      BY <2>6, <3>2, <3>3, <3>5
  <2>8. (<<O>> \o o) \o t = t2
    <3>1. <<O>> \in Seq(Frame)
      BY <1>8
    <3>2. (<<O>> \o o) \o t = <<O>> \o (o \o t)
      BY <1>5, <2>2, <3>1, Assoc
    <3> QED
      BY <2>4, <2>6, <3>2
  <2>9. CASE "height" \notin c.props
    <3>1. stack' = (<<>> \o (<<O>> \o o)) \o t
      BY <2>1, <2>9
    <3>2. <<>> \o (<<O>> \o o) = <<O>> \o o
      BY <2>3, Nothing0
    <3>3. stack' = t2
      BY <2>8, <3>1, <3>2
    <3>4. c.props = {"opacity"}
      BY <1>7, <2>9 DEF PropSets, Prop
    <3>5. {Custom(c.id, p) : p \in c.props} = {O}
      BY <3>4 DEF O
    <3> QED
      BY <1>8, <1>12, <2>7, <3>3, <3>5 DEF Me, c, t, e, W
  <2>10. CASE "height" \in c.props
    <3>1. stack' = ((<<H>> \o h) \o (<<O>> \o o)) \o t
      BY <2>1, <2>10
    <3>2. stack' = (<<H>> \o h) \o t2
      <4>1. PICK x, y : x = <<H>> \o h /\ y = <<O>> \o o
        OBVIOUS
      <4>2. x \in Seq(Frame) /\ y \in Seq(Frame)
        BY <2>3, <4>1
      <4>3. (x \o y) \o t = x \o (y \o t)
        BY <1>5, <4>2, FramesJoined
      <4> QED
        BY <2>8, <3>1, <4>1, <4>3
    <3>3. stack' = <<H>> \o (h \o t2)
      <4>1. <<H>> \in Seq(Frame)
        BY <1>8
      <4> QED
        BY SMTT(30), <2>2, <2>7, <3>2, <4>1, Assoc
    <3>4. PICK t3 : t3 = h \o t2
      OBVIOUS
    <3>5. /\ t3 \in Seq(Frame) /\ Order(t3, anim') /\ (t3 # <<>> => t3[1].k # "completed")
          /\ \E S \in SUBSET {W} : Among(t3) = {O} \cup S \cup Among(t)
      <4>1. CASE h = <<>>
        <5>1. t3 = t2
          BY <2>7, <3>4, <4>1, Nothing0
        <5> QED
          BY <1>8, <2>7, <5>1
      <4>2. CASE h = <<W>>
        <5>1. t3 = <<W>> \o t2
          BY <3>4, <4>2
        <5>2. PICK S \in SUBSET {W} : Among(t2) = {O} \cup S \cup Among(t)
          BY <2>7
        <5>3. \A g \in Among(t2) : Over(W, g, anim')
          <6>1. Over(W, W, anim')
            BY <1>8 DEF Over
          <6> QED
            BY <1>9, <1>10, <5>2, <6>1
        <5>4. Order(<<W>> \o t2, anim')
          BY <1>8, <2>7, <5>3, OrderPush
        <5>5. t3 \in Seq(Frame) /\ t3[1] = W /\ Among(t3) = {W} \cup Among(t2)
          <6>1. /\ <<W>> \o t2 \in Seq(Frame) /\ (<<W>> \o t2)[1] = W
                /\ Among(<<W>> \o t2) = {W} \cup Among(t2)
            BY <1>8, <2>7, FramePut
          <6> QED
            BY <5>1, <6>1
        <5>6. Among(t3) = {O} \cup {W} \cup Among(t)
          BY <5>2, <5>5
        <5> QED
          BY <1>8, <5>1, <5>4, <5>5, <5>6
      <4> QED
        BY <4>1, <4>2
    <3>6. PICK S \in SUBSET {W} : Among(t3) = {O} \cup S \cup Among(t)
      BY <3>5
    <3>7. \A g \in Among(t3) : Over(H, g, anim')
      BY <1>9, <1>10, <3>6
    <3>8. Order(<<H>> \o t3, anim')
      BY <1>8, <3>5, <3>7, OrderPush
    <3>9. stack' \in Seq(Frame) /\ stack' # <<>> /\ Head(stack') = H /\ Among(stack') = {H} \cup Among(t3)
      <4>1. /\ <<H>> \o t3 \in Seq(Frame) /\ <<H>> \o t3 # <<>> /\ Head(<<H>> \o t3) = H
            /\ Among(<<H>> \o t3) = {H} \cup Among(t3)
        BY <1>8, <3>5, FramePut
      <4> QED
        BY <3>3, <3>4, <4>1
    <3>10. c.props = {"height", "opacity"}
      BY <1>7, <2>10 DEF PropSets, Prop
    <3>11. {Custom(c.id, p) : p \in c.props} = {H, O}
      BY <3>10 DEF H, O
    <3>12. Among(stack') = {Custom(c.id, p) : p \in c.props} \cup S \cup Among(t)
      BY <3>6, <3>9, <3>11
    <3>13. Order(stack', anim')
      BY <3>3, <3>4, <3>8
    <3> QED
      BY <1>8, <1>12, <3>6, <3>9, <3>12, <3>13 DEF Me, c, t, e, W
  <2> QED
    BY <2>9, <2>10
<1> QED
  BY <1>11, <1>12 DEF c

LEMMA BeginOrder ==
  ASSUME StepInv, BeginStep
  PROVE  Ordered'
<1>1. Types
  BY DEF StepInv
<1>2. stack' \in Seq(Frame) /\ Order(stack', anim')
  BY BeginFrames
<1>3. Me.entry.id \in Nat /\ AnimTypes
  BY <1>1, BeginIs DEF AnimEntry, AnimTypes, Types
<1>4. AnimTypes'
  <2> DEFINE id == Me.entry.id
  <2>1. /\ IsFcn(anim') /\ DOMAIN anim' = DOMAIN anim \cup {id} /\ IsAnim(anim'[id])
        /\ \A x \in DOMAIN anim : x # id => anim'[x] = anim[x]
    BY <1>1, BeginIs
  <2> HIDE DEF id
  <2> QED
    BY <1>3, <2>1 DEF AnimTypes, id
<1>5. UNCHANGED <<world, entryVars, waitVars, timers, ticking, called, stuck, threw, count>>
  BY <1>1, BeginIs
<1> QED
  BY <1>1, <1>2, <1>4, <1>5, TypesAs DEF Ordered, Types

LEMMA CustomOrder ==
  ASSUME StepInv, CustomStep
  PROVE  Ordered'
<1> DEFINE a == Me.anim  p == Me.prop
<1>1. Types /\ Order(stack, anim)
  BY DEF StepInv
<1>2. stack # <<>> /\ Me.k = "custom"
  BY DEF CustomStep, Running, Me
<1>3. a \in DOMAIN anim /\ p \in anim[a].props /\ p \in Rest(a) /\ a \in Nat /\ p \in Prop
      /\ Me = Custom(a, p)
  BY <1>1, <1>2, Frames, FrameIs
<1>4. /\ UNCHANGED <<world, entryVars, waitVars, called, cut, stuck, threw, count>>
      /\ \/ /\ UNCHANGED <<timers, ticking>> /\ AnimEnds(a, p)
            /\ stack' = CallFrames(a) \o Tail(stack)
         \/ /\ anim' = anim /\ timers' = Append(timers, TimerOf(a, p))
            /\ ticking' = TRUE /\ stack' = Tail(stack)
  BY <1>1, <1>3, CustomIs
<1> DEFINE t == Tail(stack)
<1>5. /\ t \in Seq(Frame) /\ Order(t, anim) /\ \A g \in Among(t) : Over(Me, g, anim)
      /\ t # <<>> => t[1].k # "completed"
  BY <1>1, <1>2, Top, OrderTail DEF Me, User
<1> HIDE DEF a, p, t
<1>6. CASE AnimEnds(a, p) /\ UNCHANGED <<timers, ticking>> /\ stack' = CallFrames(a) \o t
  <2>1. AnimTypes' /\ \A x \in DOMAIN anim : anim'[x].elem = anim[x].elem
    BY <1>1, <1>3, <1>6, AnimEndsTypes
  <2>2. stack' \in Seq(Frame) /\ Order(stack', anim')
    <3>1. CASE CallFrames(a) = <<>>
      <4>1. stack' = t
        BY <1>5, <1>6, <3>1, Nothing0
      <4> QED
        BY <1>2, <2>1, <4>1, Pops DEF t
    <3>2. CASE CallFrames(a) # <<>>
      <4>1. Finished(anim'[a]) /\ stack' = <<Complete(a)>> \o t
        BY <1>6, <3>2 DEF CallFrames
      <4>2. \A g \in Among(t) : g.k # "custom"
        <5> SUFFICES ASSUME NEW g \in Among(t), g.k = "custom" PROVE FALSE
          OBVIOUS
        <5>1. g # Me /\ g.anim = a /\ g \in Among(stack) /\ g \in Frame
          <6>1. g \in Among(stack)
            BY <1>1, <1>2, Top DEF t
          <6>2. g \in Frame
            BY <1>5 DEF Among
          <6> QED
            BY <1>2, <1>5, <6>1, <6>2 DEF Over, a
        <5>2. g = Custom(a, g.prop) /\ g.prop \in Rest(a)
          BY <5>1, FrameIs DEF StepInv, FrameInv, FrameOk
        <5>3. g.prop # p
          BY <1>3, <5>1, <5>2
        <5> QED
          BY <1>6, <4>1, <5>2, <5>3 DEF AnimEnds, Rest, Finished
      <4>3. Complete(a) \in Frame /\ Complete(a).k = "complete"
        BY <1>3, FrameMade DEF Complete
      <4>4. \A g \in Among(t) : Over(Complete(a), g, anim)
        <5> SUFFICES ASSUME NEW g \in Among(t) PROVE Over(Complete(a), g, anim)
          OBVIOUS
        <5>1. Over(Me, g, anim) /\ g.k # "custom"
          BY <1>5, <4>2
        <5> QED
          BY <4>3, <5>1 DEF Over
      <4>5. Order(<<Complete(a)>> \o t, anim)
        BY <1>5, <4>3, <4>4, OrderPush
      <4>6. /\ <<Complete(a)>> \o t \in Seq(Frame)
            /\ Among(<<Complete(a)>> \o t) = {Complete(a)} \cup Among(t)
        BY <1>5, <4>3, FramePut
      <4>7. \A g \in Among(stack') : g.k = "completed" => anim'[g.anim].elem = anim[g.anim].elem
        BY <1>1, <1>2, <2>1, <4>1, <4>3, <4>6, Top DEF StepInv, FrameInv, FrameOk, t
      <4> QED
        BY <4>1, <4>5, <4>6, <4>7, OrderKept
    <3> QED
      BY <3>1, <3>2
  <2> QED
    BY <1>1, <1>4, <1>6, <2>1, <2>2, TypesAs DEF Ordered, Types
<1>7. CASE /\ anim' = anim /\ timers' = Append(timers, TimerOf(a, p))
           /\ ticking' = TRUE /\ stack' = t
  <2>1. stack' \in Seq(Frame) /\ Order(stack', anim')
    BY <1>2, <1>7, Pops DEF t
  <2>2. timers' \in Seq(Timer)
    <3>1. TimerOf(a, p) \in Timer /\ timers \in Seq(Timer)
      BY <1>1, <1>3 DEF Types, Timer, TimerOf
    <3> QED
      BY <1>7, <3>1, Appended
  <2>3. AnimTypes'
    BY <1>1, <1>7 DEF Types, AnimTypes
  <2> QED
    BY <1>1, <1>4, <1>7, <2>1, <2>2, <2>3, TypesAs DEF Ordered, Types
<1> QED
  BY <1>4, <1>6, <1>7 DEF t

LEMMA NoTail ==
  ASSUME NEW s \in Seq(Frame)
  PROVE  s \o <<>> = s
  OBVIOUS

\* The frames of a timer that has come to its end, above what goes on after it.
LEMMA CallsFrames ==
  ASSUME StepInv, stack # <<>>, Me.k \in {"tick", "stop"}, NEW h \in Frame,
         NEW a \in DOMAIN anim, NEW p, AnimEnds(a, p),
         \/ h.k = "ticked" /\ Me.k = "tick"
         \/ h.k = "stopped" /\ Me.k = "stop" /\ h.elem = Me.elem,
         stack' = (CallFrames(a) \o <<h>>) \o Tail(stack)
  PROVE  /\ stack' \in Seq(Frame) /\ Order(stack', anim') /\ stack' # <<>>
         /\ \/ /\ Finished(anim'[a]) /\ anim[a].complete
               /\ Me' = Complete(a) /\ Among(stack') = {Complete(a), h} \cup Among(Tail(stack))
            \/ /\ ~(Finished(anim'[a]) /\ anim[a].complete)
               /\ Me' = h /\ Among(stack') = {h} \cup Among(Tail(stack))
<1>1. Types
  BY DEF StepInv
<1>2. AnimTypes' /\ \A x \in DOMAIN anim : anim'[x].elem = anim[x].elem
  BY <1>1, AnimEndsTypes
<1>3. Tail(stack) \in Seq(Frame) /\ a \in Nat /\ Complete(a) \in Frame /\ Complete(a).k = "complete"
  BY <1>1, Top, FrameMade DEF Types, Complete
<1>4. Over(Complete(a), h, anim)
  BY <1>3 DEF Over
<1>5. CASE /\ Finished(anim'[a]) /\ anim[a].complete /\ CallFrames(a) \o <<h>> = <<Complete(a), h>>
  <2>1. stack' = <<Complete(a), h>> \o Tail(stack)
    BY <1>5
  <2>2. /\ <<Complete(a), h>> \o Tail(stack) # <<>> /\ Head(<<Complete(a), h>> \o Tail(stack)) = Complete(a)
        /\ <<Complete(a), h>> \o Tail(stack) \in Seq(Frame)
        /\ Among(<<Complete(a), h>> \o Tail(stack)) = {Complete(a), h} \cup Among(Tail(stack))
    <3>1. PICK c, t : c = Complete(a) /\ t = Tail(stack)
      OBVIOUS
    <3>2. c \in Frame /\ t \in Seq(Frame)
      BY <1>3, <3>1
    <3>3. /\ <<c, h>> \o t \in Seq(Frame) /\ Among(<<c, h>> \o t) = {c, h} \cup Among(t)
      BY <3>2, TwoAmong
    <3>4. <<c, h>> \o t # <<>> /\ Head(<<c, h>> \o t) = c
      BY <3>2, TwoPushed
    <3> QED
      BY <3>1, <3>3, <3>4
  <2>3. CASE Me.k = "stop"
    <3>1. stack' \in Seq(Frame) /\ Order(stack', anim')
      BY <1>2, <1>3, <1>4, <2>1, <2>3, GoesOnWith
    <3> QED
      BY <1>5, <2>1, <2>2, <3>1 DEF Me
  <2>4. CASE Me.k = "tick"
    <3>1. Tail(stack) = <<>>
      BY <2>4, Bottom
    <3>2. Order(<<h>>, anim') /\ Among(<<h>>) = {h} /\ <<h>> \in Seq(Frame)
      BY OrderTop
    <3>3. Over(Complete(a), h, anim')
      BY <1>3, <2>4 DEF Over
    <3>4. <<h>>[1] = h /\ h.k # "completed"
      BY <2>4
    <3>5. Order(<<Complete(a)>> \o <<h>>, anim')
      BY <1>3, <3>2, <3>3, <3>4, OrderPush
    <3>6. <<Complete(a)>> \o <<h>> = <<Complete(a), h>>
      BY Pair
    <3>7. stack' = <<Complete(a), h>>
      <4>1. <<Complete(a), h>> \in Seq(Frame)
        BY <1>3
      <4> QED
        BY <2>1, <3>1, <4>1, NoTail
    <3> QED
      BY <1>5, <2>1, <2>2, <3>5, <3>6, <3>7 DEF Me
  <2> QED
    BY <2>3, <2>4
<1>6. CASE /\ ~(Finished(anim'[a]) /\ anim[a].complete) /\ CallFrames(a) \o <<h>> = <<h>>
  <2>1. stack' = <<h>> \o Tail(stack)
    BY <1>6
  <2>2. /\ <<h>> \o Tail(stack) \in Seq(Frame) /\ <<h>> \o Tail(stack) # <<>>
        /\ Head(<<h>> \o Tail(stack)) = h
        /\ Among(<<h>> \o Tail(stack)) = {h} \cup Among(Tail(stack))
    BY <1>3, FramePut
  <2>3. CASE Me.k = "stop"
    <3>1. stack' \in Seq(Frame) /\ Order(stack', anim')
      BY <1>2, <2>1, <2>3, GoesOn
    <3> QED
      BY <1>6, <2>1, <2>2, <3>1 DEF Me
  <2>4. CASE Me.k = "tick"
    <3>1. Tail(stack) = <<>>
      BY <2>4, Bottom
    <3>2. Order(<<h>>, anim') /\ <<h>> \in Seq(Frame)
      BY OrderTop
    <3>3. stack' = <<h>>
      BY <2>1, <3>1, <3>2, NoTail
    <3> QED
      BY <1>6, <2>1, <2>2, <3>2, <3>3 DEF Me
  <2> QED
    BY <2>3, <2>4
<1> QED
  BY <1>5, <1>6, CallThen

\* The loop of the interval goes on.
LEMMA TickTop ==
  ASSUME StepInv, stack # <<>>, Me.k \in {"tick", "ticked"}, NEW h \in Frame,
         stack' = <<h>> \o Tail(stack)
  PROVE  stack' \in Seq(Frame) /\ Order(stack', anim') /\ stack' = <<h>> /\ Among(stack') = {h}
<1>1. Tail(stack) = <<>>
  BY Bottom
<1>2. Order(<<h>>, anim') /\ <<h>> \in Seq(Frame) /\ Among(<<h>>) = {h}
  BY OrderTop
<1>3. stack' = <<h>>
  BY <1>1, <1>2, NoTail
<1> QED
  BY <1>2, <1>3

LEMMA TickOrder ==
  ASSUME StepInv, TickStep
  PROVE  Ordered'
<1> DEFINE i == Me.i  t == timers[i]
<1>1. Types /\ TimersOfAnims
  BY Frames DEF StepInv
<1>2. /\ stack # <<>> /\ Me.k = "tick" /\ i \in Nat \ {0}
      /\ UNCHANGED <<world, entryVars, waitVars, timers, called, cut, stuck, threw, count>>
      /\ \/ /\ i > Len(timers) /\ ticking' = (timers # <<>>) /\ anim' = anim
            /\ stack' = Tail(stack)
         \/ /\ i \in 1 .. Len(timers) /\ ticking' = ticking /\ AnimEnds(t.anim, t.prop)
            /\ stack' = (CallFrames(t.anim) \o <<Ticked(i, t)>>) \o Tail(stack)
         \/ /\ i \in 1 .. Len(timers) /\ ticking' = ticking /\ anim' = anim
            /\ stack' = <<Tick(i + 1)>> \o Tail(stack)
  BY <1>1, TickIs
<1>3. timers' \in Seq(Timer) /\ threw' \in BOOLEAN /\ ticking \in BOOLEAN
  BY <1>1, <1>2 DEF Types
<1>4. anim' = anim => AnimTypes'
  BY <1>1 DEF Types, AnimTypes
<1>5. CASE i > Len(timers) /\ ticking' = (timers # <<>>) /\ anim' = anim /\ stack' = Tail(stack)
  <2>1. stack' \in Seq(Frame) /\ Order(stack', anim')
    BY <1>2, <1>5, Pops
  <2> QED
    BY <1>1, <1>2, <1>3, <1>4, <1>5, <2>1, TypesAs DEF Ordered
<1>6. CASE /\ i \in 1 .. Len(timers) /\ ticking' = ticking /\ AnimEnds(t.anim, t.prop)
           /\ stack' = (CallFrames(t.anim) \o <<Ticked(i, t)>>) \o Tail(stack)
  <2>1. t.anim \in DOMAIN anim /\ t \in Timer
    BY <1>1, <1>6 DEF TimersOfAnims, Types
  <2>2. Ticked(i, t) \in Frame /\ Ticked(i, t).k = "ticked"
    BY <1>2, <2>1, FrameMade DEF Ticked
  <2>3. stack' \in Seq(Frame) /\ Order(stack', anim')
    <3>1. PICK h, a, p : h = Ticked(i, t) /\ a = t.anim /\ p = t.prop
      OBVIOUS
    <3>2. /\ h \in Frame /\ h.k = "ticked" /\ a \in DOMAIN anim /\ AnimEnds(a, p)
          /\ stack' = (CallFrames(a) \o <<h>>) \o Tail(stack)
      BY <1>6, <2>1, <2>2, <3>1
    <3> QED
      BY <1>2, <3>2, CallsFrames, Zenon
  <2>4. AnimTypes'
    BY Zenon, <1>1, <1>6, <2>1, AnimEndsTypes
  <2> QED
    BY <1>1, <1>2, <1>3, <1>6, <2>3, <2>4, TypesAs, Zenon DEF Ordered
<1>7. CASE /\ i \in 1 .. Len(timers) /\ ticking' = ticking /\ anim' = anim
           /\ stack' = <<Tick(i + 1)>> \o Tail(stack)
  <2>1. Tick(i + 1) \in Frame
    BY <1>2, FrameMade
  <2>2. stack' \in Seq(Frame) /\ Order(stack', anim')
    BY <1>2, <1>7, <2>1, TickTop
  <2> QED
    BY <1>1, <1>2, <1>3, <1>4, <1>7, <2>2, TypesAs DEF Ordered
<1> QED
  BY Zenon, <1>2, <1>5, <1>6, <1>7

LEMMA TickGoesOnOrder ==
  ASSUME StepInv, TickGoesOn
  PROVE  Ordered'
<1>1. Types
  BY DEF StepInv
<1>2. /\ stack # <<>> /\ Me.k = "ticked" /\ Me.i \in Nat \ {0} /\ Me.timer \in Timer
      /\ UNCHANGED <<world, entryVars, waitVars, anim, ticking, called, cut, stuck, threw, count>>
      /\ \/ /\ Me.i \in 1 .. Len(timers)
            /\ timers' = RemoveAt(timers, Me.i) /\ stack' = <<Tick(Me.i)>> \o Tail(stack)
         \/ timers' = timers /\ stack' = <<Tick(Me.i + 1)>> \o Tail(stack)
  BY <1>1, TickGoesOnIs
<1>3. timers \in Seq(Timer) /\ threw' \in BOOLEAN /\ ticking' \in BOOLEAN /\ AnimTypes'
  BY <1>1, <1>2 DEF Types, AnimTypes
<1>4. timers' \in Seq(Timer)
  BY <1>2, <1>3, Removed
<1>5. Tick(Me.i) \in Frame /\ Tick(Me.i + 1) \in Frame
  BY <1>2, FrameMade
<1>6. stack' \in Seq(Frame) /\ Order(stack', anim')
  BY <1>2, <1>5, TickTop
<1> QED
  BY <1>1, <1>2, <1>3, <1>4, <1>6, TypesAs DEF Ordered

LEMMA StopOrder ==
  ASSUME StepInv, StopStep
  PROVE  Ordered'
<1> DEFINE e == Me.elem  i == Me.i  t == timers[i]
<1>1. Types /\ TimersOfAnims
  BY Frames DEF StepInv
<1>2. i <= Len(timers)
  BY Frames DEF StopStep, Running, Me
<1>3. /\ stack # <<>> /\ Me.k = "stop" /\ e \in Element /\ i \in Nat
      /\ Me.gotoEnd \in BOOLEAN /\ Me.had \in BOOLEAN
      /\ UNCHANGED <<world, entryVars, waitVars, ticking, called, stuck, threw, count>>
      /\ \/ /\ i = 0 /\ UNCHANGED <<timers, anim>>
            /\ stack' = (IF Me.gotoEnd /\ Me.had THEN <<>> ELSE <<Dequeue(e)>>) \o Tail(stack)
         \/ /\ i \in 1 .. Len(timers) /\ anim[t.anim].elem # e /\ UNCHANGED <<timers, anim>>
            /\ stack' = <<Stop(e, Me.gotoEnd, i - 1, Me.had)>> \o Tail(stack)
         \/ /\ i \in 1 .. Len(timers) /\ anim[t.anim].elem = e /\ Me.gotoEnd
            /\ UNCHANGED timers /\ AnimEnds(t.anim, t.prop)
            /\ stack' = (CallFrames(t.anim) \o <<Stopped(e, i)>>) \o Tail(stack)
         \/ /\ i \in 1 .. Len(timers) /\ anim[t.anim].elem = e /\ ~Me.gotoEnd
            /\ timers' = RemoveAt(timers, i) /\ UNCHANGED anim
            /\ stack' = <<Stop(e, FALSE, i - 1, TRUE)>> \o Tail(stack)
  BY <1>1, <1>2, StopIs
<1>4. timers \in Seq(Timer) /\ threw' \in BOOLEAN /\ ticking' \in BOOLEAN /\ AnimTypes
  BY <1>1, <1>3 DEF Types, AnimTypes
<1>5. CASE /\ i = 0 /\ UNCHANGED <<timers, anim>>
           /\ stack' = (IF Me.gotoEnd /\ Me.had THEN <<>> ELSE <<Dequeue(e)>>) \o Tail(stack)
  <2>1. stack' \in Seq(Frame) /\ Order(stack', anim')
    <3>1. CASE Me.gotoEnd /\ Me.had
      <4>1. stack' = Tail(stack)
        BY <1>1, <1>3, <1>5, <3>1, Quit
      <4> QED
        BY <1>3, <1>5, <4>1, Pops
    <3>2. CASE ~(Me.gotoEnd /\ Me.had)
      <4>1. stack' = <<Dequeue(e)>> \o Tail(stack) /\ Dequeue(e) \in Frame /\ Dequeue(e).k = "dequeue"
        BY <1>3, <1>5, <3>2, FrameMade DEF Dequeue
      <4> QED
        BY <1>3, <1>5, <4>1, GoesOn
    <3> QED
      BY <3>1, <3>2
  <2> QED
    BY <1>1, <1>3, <1>4, <1>5, <2>1, TypesSame DEF Ordered
<1>6. ASSUME NEW h \in Frame, h.k = "stop", h.elem = e, stack' = <<h>> \o Tail(stack), anim' = anim
      PROVE  stack' \in Seq(Frame) /\ Order(stack', anim')
  BY <1>3, <1>6, GoesOn, Zenon
<1>7. CASE /\ i \in 1 .. Len(timers) /\ anim[t.anim].elem # e /\ UNCHANGED <<timers, anim>>
           /\ stack' = <<Stop(e, Me.gotoEnd, i - 1, Me.had)>> \o Tail(stack)
  <2> DEFINE h == Stop(e, Me.gotoEnd, i - 1, Me.had)
  <2>1. h \in Frame /\ h.k = "stop" /\ h.elem = e
    <3>1. i - 1 \in Nat
      BY <1>7
    <3> QED
      BY <1>3, <3>1, FrameMade DEF Stop
  <2> HIDE DEF h
  <2>2. stack' \in Seq(Frame) /\ Order(stack', anim')
    BY Zenon, <1>6, <1>7, <2>1 DEF h
  <2> QED
    BY <1>1, <1>3, <1>4, <1>7, <2>2, TypesSame, Zenon DEF Ordered
<1>8. CASE /\ i \in 1 .. Len(timers) /\ anim[t.anim].elem = e /\ ~Me.gotoEnd
           /\ timers' = RemoveAt(timers, i) /\ UNCHANGED anim
           /\ stack' = <<Stop(e, FALSE, i - 1, TRUE)>> \o Tail(stack)
  <2> DEFINE h == Stop(e, FALSE, i - 1, TRUE)
  <2>1. h \in Frame /\ h.k = "stop" /\ h.elem = e
    <3>1. i - 1 \in Nat
      BY <1>8
    <3> QED
      BY <1>3, <3>1, FrameMade DEF Stop
  <2> HIDE DEF h
  <2>2. stack' \in Seq(Frame) /\ Order(stack', anim')
    BY <1>6, <1>8, <2>1 DEF h
  <2>3. timers' \in Seq(Timer) /\ AnimTypes'
    BY <1>4, <1>8, Removed DEF AnimTypes
  <2> QED
    BY Zenon, <1>1, <1>3, <1>4, <2>2, <2>3, TypesAs DEF Ordered
<1>9. CASE /\ i \in 1 .. Len(timers) /\ anim[t.anim].elem = e /\ Me.gotoEnd
           /\ UNCHANGED timers /\ AnimEnds(t.anim, t.prop)
           /\ stack' = (CallFrames(t.anim) \o <<Stopped(e, i)>>) \o Tail(stack)
  <2>1. t.anim \in DOMAIN anim
    BY Zenon, <1>1, <1>9 DEF TimersOfAnims
  <2>2. Stopped(e, i) \in Frame /\ Stopped(e, i).k = "stopped" /\ Stopped(e, i).elem = e
    <3>1. i \in Nat \ {0}
      BY <1>9
    <3> QED
      BY <1>3, <3>1, FrameMade DEF Stopped
  <2>3. stack' \in Seq(Frame) /\ Order(stack', anim')
    BY <1>3, <1>9, <2>1, <2>2, CallsFrames, Zenon
  <2>4. AnimTypes'
    BY <1>1, <1>9, <2>1, AnimEndsTypes
  <2> QED
    BY <1>1, <1>3, <1>4, <1>9, <2>3, <2>4, TypesAs, Zenon DEF Ordered
<1> QED
  BY <1>3, <1>5, <1>7, <1>8, <1>9, Zenon

LEMMA StopGoesOnOrder ==
  ASSUME StepInv, StopGoesOn
  PROVE  Ordered'
<1>1. Types
  BY DEF StepInv
<1>2. /\ stack # <<>> /\ Me.k = "stopped" /\ Me.elem \in Element /\ Me.i \in Nat \ {0}
      /\ UNCHANGED <<world, entryVars, waitVars, anim, ticking, called, cut, stuck, threw, count>>
      /\ timers' = RemoveAt(timers, Me.i)
      /\ stack' = <<Stop(Me.elem, TRUE, Me.i - 1, TRUE)>> \o Tail(stack)
  BY <1>1, StopGoesOnIs DEF StepInv
<1>3. timers \in Seq(Timer) /\ threw' \in BOOLEAN /\ ticking' \in BOOLEAN /\ AnimTypes'
  BY <1>1, <1>2 DEF Types, AnimTypes
<1>4. Me.i \in 1 .. Len(timers)
  <2>1. Me.i <= Len(timers) /\ Len(timers) \in Nat
    BY <1>1, <1>2, Frames DEF Types
  <2> QED
    BY <1>2, <2>1
<1>5. timers' \in Seq(Timer)
  BY <1>2, <1>3, <1>4, Removed
<1> DEFINE h == Stop(Me.elem, TRUE, Me.i - 1, TRUE)
<1>6. h \in Frame /\ h.k = "stop" /\ h.elem = Me.elem
  <2>1. Me.i - 1 \in Nat
    BY <1>2
  <2> QED
    BY <1>2, <2>1, FrameMade DEF Stop
<1> HIDE DEF h
<1>7. stack' \in Seq(Frame) /\ Order(stack', anim')
  BY <1>2, <1>6, GoesOn DEF h
<1> QED
  BY <1>1, <1>2, <1>3, <1>5, <1>7, TypesAs DEF Ordered

\* An entry is queued, and its queue is begun if nothing of it runs.
LEMMA QueuedOrder ==
  ASSUME StepInv, stack # <<>> => Me.k = "user", NEW e \in Element, NEW c \in Queueable,
         count' = count + 1,
         UNCHANGED <<world, hooks, sleeping, begun, waitVars, timers, anim, ticking, called, cut,
                     stuck, threw>>,
         queue' = [queue EXCEPT ![e] = Append(queue[e], c)],
         asked' = [asked EXCEPT ![e] = Append(asked[e], c)],
         stack' = Starts(e) \o stack
  PROVE  Ordered'
<1>1. Types /\ Order(stack, anim) /\ stack \in Seq(Frame)
  BY DEF StepInv, Types
<1>2. stack' \in Seq(Frame) /\ Order(stack', anim')
  <2>1. CASE InProgress(queue[e])
    BY <1>1, <2>1, Nothing0 DEF Starts
  <2>2. CASE ~InProgress(queue[e])
    <3>1. stack' = <<Dequeue(e)>> \o stack /\ Dequeue(e) \in Frame /\ Dequeue(e).k = "dequeue"
      BY <2>2, FrameMade DEF Starts, Dequeue
    <3> QED
      BY <3>1, CallsOn
  <2> QED
    BY <2>1, <2>2
<1>3. queue' \in [Element -> Seq(Queueable \cup {Sentinel})]
  <2>1. queue \in [Element -> Seq(Queueable \cup {Sentinel})] /\ queue[e] \in Seq(Queueable \cup {Sentinel})
    BY <1>1 DEF Types
  <2>2. Append(queue[e], c) \in Seq(Queueable \cup {Sentinel})
    BY <2>1, Appended
  <2> QED
    BY <2>1, <2>2, Put
<1>4. asked' \in [Element -> Seq(Queueable)]
  <2>1. asked \in [Element -> Seq(Queueable)] /\ asked[e] \in Seq(Queueable)
    BY <1>1 DEF Types
  <2>2. Append(asked[e], c) \in Seq(Queueable)
    BY <2>1, Appended
  <2> QED
    BY <2>1, <2>2, Put
<1>5. count' \in Nat
  BY <1>1 DEF Types
<1> QED
  BY <1>1, <1>2, <1>3, <1>4, <1>5 DEF Types, Ordered, waitVars

LEMMA AnimateOrder ==
  ASSUME StepInv, NEW e \in Element, NEW c \in Choice, Animate(e, c)
  PROVE  Ordered'
<1>1. Types
  BY DEF StepInv
<1>2. /\ stack = <<>> \/ (stack # <<>> /\ Me.k = "user")
      /\ count' = count + 1 /\ threw' = threw
      /\ UNCHANGED <<world, hooks, sleeping, begun, defer, checks, waits, missed, timers, anim,
                     ticking, called, cut, stuck>>
  BY <1>1, AnimateIs
<1>3. PICK en \in AnimEntry :
        /\ en.id = count + 1
        /\ \/ /\ en.queued /\ mark' = mark
              /\ queue' = [queue EXCEPT ![e] = Append(queue[e], en)]
              /\ asked' = [asked EXCEPT ![e] = Append(asked[e], en)]
              /\ stack' = Starts(e) \o stack
           \/ /\ ~en.queued /\ mark' = [mark EXCEPT ![e] = mark[e] + 1]
              /\ UNCHANGED <<queue, asked>>
              /\ stack' = <<Begin(e, en)>> \o stack
  BY <1>1, AnimateIs
<1>4. CASE en.queued
  <2>1. en \in Queueable
    BY <1>4 DEF Queueable
  <2>2. UNCHANGED <<world, hooks, sleeping, begun, waitVars, timers, anim, ticking, called, cut,
                    stuck, threw>>
    BY <1>2, <1>3, <1>4 DEF waitVars
  <2> QED
    BY <1>2, <1>3, <1>4, <2>1, <2>2, QueuedOrder
<1>5. CASE ~en.queued
  <2>1. /\ mark' = [mark EXCEPT ![e] = mark[e] + 1]
        /\ UNCHANGED <<queue, asked>> /\ stack' = <<Begin(e, en)>> \o stack
    BY <1>3, <1>5
  <2>2. Begin(e, en) \in Frame /\ Begin(e, en).k = "begin"
    BY FrameMade DEF Begin
  <2>3. stack' \in Seq(Frame) /\ Order(stack', anim')
    BY <1>2, <2>1, <2>2, CallsOn
  <2>4. mark' \in [Element -> Nat]
    <3>1. mark \in [Element -> Nat] /\ mark[e] + 1 \in Nat
      BY <1>1 DEF Types
    <3> QED
      BY <2>1, <3>1, Put
  <2>5. count' \in Nat
    BY <1>1, <1>2 DEF Types
  <2> QED
    BY <1>1, <1>2, <2>1, <2>3, <2>4, <2>5 DEF Types, Ordered
<1> QED
  BY <1>4, <1>5

LEMMA DelayOrder ==
  ASSUME StepInv, NEW e \in Element, Delay(e)
  PROVE  Ordered'
<1> DEFINE en == [k |-> "delay", id |-> count + 1]
<1>1. Types
  BY DEF StepInv
<1>2. en \in Queueable
  BY <1>1 DEF Queueable, Types
<1>3. /\ stack = <<>> \/ (stack # <<>> /\ Me.k = "user")
      /\ count' = count + 1 /\ threw' = threw
      /\ UNCHANGED <<world, hooks, sleeping, begun, waitVars, timers, anim, ticking, called, cut,
                     stuck>>
      /\ queue' = [queue EXCEPT ![e] = Append(queue[e], en)]
      /\ asked' = [asked EXCEPT ![e] = Append(asked[e], en)]
      /\ stack' = Starts(e) \o stack
  BY <1>1, DelayIs
<1> HIDE DEF en
<1> QED
  BY <1>2, <1>3, QueuedOrder

LEMMA ClearQueueOrder ==
  ASSUME StepInv, NEW e \in Element, ClearQueue(e)
  PROVE  Ordered'
<1>1. Types /\ Order(stack, anim)
  BY DEF StepInv
<1>2. /\ count' = count + 1 /\ threw' = threw
      /\ UNCHANGED <<world, sleeping, timers, anim, ticking, mark, defer, waits,
                     asked, begun, called, cut, stuck, missed>>
      /\ queue' = [queue EXCEPT ![e] = <<>>] /\ hooks' = [hooks EXCEPT ![e] = 0]
      /\ checks' = IF mark[e] = 0 /\ defer[e] # 0
                   THEN Append(checks, [elem |-> e, defer |-> defer[e]]) ELSE checks
      /\ stack' = stack
  BY <1>1, ClearQueueIs
<1>3. checks' \in Seq(Waiter)
  <2>1. checks' = IF mark[e] = 0 /\ defer[e] # 0
                  THEN Append(checks, [elem |-> e, defer |-> defer[e]]) ELSE checks
    BY <1>2
  <2> QED
    BY <1>1, <2>1, ChecksTyped
<1>4. queue' \in [Element -> Seq(Queueable \cup {Sentinel})] /\ hooks' \in [Element -> Nat]
  BY SMTT(30), <1>1, <1>2 DEF Types
<1>5. count' \in Nat
  BY <1>1, <1>2 DEF Types
<1>6. UNCHANGED <<world, sleeping, timers, anim, ticking, mark, defer, waits,
                  asked, begun, called, stuck, threw, stack>>
  BY <1>2
<1> QED
  BY <1>1, <1>3, <1>4, <1>5, <1>6 DEF Types, Ordered

LEMMA NowOrder ==
  ASSUME StepInv, NEW e \in Element, NEW shown, ShowOrHideNow(e, shown)
  PROVE  Ordered'
<1>1. Types /\ Order(stack, anim)
  BY DEF StepInv
<1>2. /\ UNCHANGED <<world, entryVars, waitVars, timers, anim, ticking, called, stuck,
                     threw, stack>>
      /\ count' = count + 1
  BY <1>1, NowIs
<1>3. count' \in Nat
  BY <1>1, <1>2 DEF Types
<1>4. UNCHANGED <<world, queue, hooks, sleeping, asked, begun, mark, defer, checks, waits,
                  timers, anim, ticking, called, stuck, threw, stack>>
  BY <1>2 DEF entryVars, waitVars
<1> QED
  BY <1>1, <1>3, <1>4 DEF Types, Ordered

LEMMA PromiseOrder ==
  ASSUME StepInv, NEW s \in SUBSET Element, Promise(s)
  PROVE  Ordered'
<1> DEFINE me == count + 1
           of == {e \in s : defer[e] # 0 \/ queue[e] # <<>> \/ mark[e] # 0}
<1>1. Types /\ Order(stack, anim)
  BY DEF StepInv
<1>2. /\ UNCHANGED <<world, entryVars, mark, checks, missed, timers, anim, ticking, called, cut,
                     stuck, threw, stack>>
      /\ count' = me
      /\ defer' = [e \in Element |-> IF e \in of /\ defer[e] = 0 THEN me ELSE defer[e]]
      /\ IsFcn(waits') /\ DOMAIN waits' = DOMAIN waits \cup {me}
      /\ waits'[me] = {[elem |-> e, defer |-> defer'[e]] : e \in of}
      /\ \A p \in DOMAIN waits : p # me => waits'[p] = waits[p]
  BY <1>1, PromiseIs
<1>3. me \in Nat /\ of \subseteq Element
  BY <1>1 DEF Types
<1> HIDE DEF me, of
<1>4. defer' \in [Element -> Nat]
  BY <1>1, <1>2, <1>3 DEF Types
<1>5. waits'[me] \subseteq Waiter
  BY <1>2, <1>3, <1>4 DEF Waiter
<1>6. \A p \in DOMAIN waits' : waits'[p] \subseteq Waiter
  BY <1>1, <1>2, <1>5 DEF Types
<1> QED
  BY <1>1, <1>2, <1>3, <1>4, <1>6 DEF Types, Ordered, entryVars

LEMMA StopNowOrder ==
  ASSUME StepInv, NEW e \in Element, NEW clear \in BOOLEAN, NEW gotoEnd \in BOOLEAN,
         StopFree(e, clear, gotoEnd)
  PROVE  Ordered'
<1>1. Types /\ Order(stack, anim)
  BY DEF StepInv
<1> DEFINE h == Stop(e, gotoEnd, Len(timers), FALSE)
<1>2. /\ stack = <<>> \/ (stack # <<>> /\ Me.k = "user")
      /\ count' = count + 1 /\ threw' = threw /\ Free(e)
      /\ stack' = <<h>> \o stack
      /\ Becomes(StopBegins(Page, e, clear, gotoEnd))
  BY <1>1, StopNowIs
<1>3. h \in Frame /\ h.k = "stop" /\ h.elem = e
  <2>1. Len(timers) \in Nat
    BY <1>1 DEF Types
  <2> QED
    BY <2>1, FrameMade DEF Stop
<1> HIDE DEF h
<1>4. /\ UNCHANGED <<world, timers, anim, ticking, defer, waits, asked, begun, called, cut,
                     missed>>
      /\ queue' = IF clear THEN [queue EXCEPT ![e] = <<>>] ELSE queue
      /\ mark' = IF gotoEnd THEN mark ELSE [mark EXCEPT ![e] = 0]
      /\ hooks' = [hooks EXCEPT ![e] = 0]
      /\ sleeping' = IF clear \/ hooks[e] = 0 THEN sleeping ELSE {s \in sleeping : s.id # hooks[e]}
      /\ stuck' = IF ~clear /\ hooks[e] # 0 /\ gotoEnd /\ Moves(e) THEN stuck \cup {e} ELSE stuck
      /\ checks' \in Seq(Waiter)
  BY <1>1, <1>2, StopBeginsIs
<1>5. stack' \in Seq(Frame) /\ Order(stack', anim')
  BY <1>2, <1>3, <1>4, CallsOn
<1>6. queue' \in [Element -> Seq(Queueable \cup {Sentinel})]
  BY SMTT(30), <1>1, <1>4 DEF Types
<1>7. mark' \in [Element -> Nat] /\ hooks' \in [Element -> Nat]
  BY <1>1, <1>4 DEF Types
<1>8. sleeping' \subseteq [id : Nat, elem : Element] /\ stuck' \subseteq Element
  BY <1>1, <1>4 DEF Types
<1>9. count' \in Nat
  BY <1>1, <1>2 DEF Types
<1>10. UNCHANGED <<world, timers, anim, ticking, defer, waits, asked, begun, called, threw>>
       /\ checks' \in Seq(Waiter)
  BY <1>2, <1>4
<1> QED
  BY <1>1, <1>5, <1>6, <1>7, <1>8, <1>9, <1>10 DEF Types, Ordered

-----------------------------------------------------------------------------
(***************************************************************************)
(* Timers, animations and the frames that are about them.                  *)
(***************************************************************************)
TimesInv == AnimInv /\ TimerInv /\ FrameInv /\ CalledInv

\* What a stop has still to go through.
StopOk(f) ==
  /\ f.i <= Len(timers)
  /\ ~f.gotoEnd \/ ~f.had =>
       \A j \in 1 .. Len(timers) : f.i < j => anim[timers[j].anim].elem # f.elem

SameAnims ==
  /\ DOMAIN anim' = DOMAIN anim
  /\ \A x \in DOMAIN anim :
       /\ anim'[x].elem = anim[x].elem /\ anim'[x].queued = anim[x].queued
       /\ anim'[x].props = anim[x].props /\ anim'[x].done = anim[x].done
       /\ anim'[x].complete = anim[x].complete

\* The frames that are new are not about animations, and the first steps stay.
FramesKept ==
  /\ \A f \in Among(stack') :
       \/ f \in Among(stack)
       \/ /\ f.k \notin {"custom", "complete", "completed", "ticked", "stopped"}
          /\ f.k = "stop" => StopOk(f)
  /\ \A f \in Among(stack) : f.k = "custom" => f \in Among(stack')

LEMMA AnimsKept ==
  ASSUME StepInv, UNCHANGED timers, count' = count \/ count' = count + 1, SameAnims,
         \A a, p : Custom(a, p) \in Among(stack') <=> Custom(a, p) \in Among(stack),
         \A a \in DOMAIN anim : Stopping(anim[a].elem) => Stopping(anim[a].elem)' \/ ~Live(a),
         \A j \in 1 .. Len(timers) : AtEnd(j) => AtEnd(j)'
  PROVE  AnimInv' /\ TimerInv'
<1>1. Types /\ AnimInv /\ TimerInv /\ FrameInv /\ CalledInv
  BY DEF StepInv
<1>2. \A a \in DOMAIN anim : /\ (Finished(anim'[a]) <=> Finished(anim[a])) /\ Rest(a)' = Rest(a)
  BY DEF SameAnims, Finished, Rest
<1>3. \A a \in DOMAIN anim : \A p \in Rest(a) : Held(a, p)' <=> Held(a, p)
  BY DEF Held
<1>4. \A a \in DOMAIN anim : Live(a)' <=> Live(a)
  BY <1>2, <1>3 DEF Live, SameAnims
<1>5. AnimInv'
  <2> SUFFICES ASSUME NEW a \in DOMAIN anim'
               PROVE  /\ a \in 1 .. count'
                      /\ anim'[a].complete => ~Finished(anim'[a])
                      /\ Live(a)' => (\A p \in Rest(a)' : Held(a, p)') \/ Stopping(anim[a].elem)'
    BY DEF AnimInv
  <2>1. a \in DOMAIN anim
    BY DEF SameAnims
  <2>2. a \in 1 .. count'
    BY <1>1, <2>1 DEF AnimInv, Types
  <2>3. anim'[a].complete => ~Finished(anim'[a])
    BY <1>1, <1>2, <2>1 DEF AnimInv, SameAnims
  <2>4. Live(a)' => (\A p \in Rest(a)' : Held(a, p)') \/ Stopping(anim[a].elem)'
    BY <1>1, <1>2, <1>3, <1>4, <2>1 DEF AnimInv
  <2> QED
    BY <2>2, <2>3, <2>4
<1>6. TimerInv'
  <2>1. \A i, j \in 1 .. Len(timers') : timers'[i] = timers'[j] => i = j
    BY <1>1 DEF TimerInv
  <2>2. ASSUME NEW i \in 1 .. Len(timers')
        PROVE  LET t == timers'[i]  a == anim'[t.anim] IN
                 /\ t.anim \in DOMAIN anim' /\ t.prop \in a.props
                 /\ a.complete \/ Finished(a)
                 /\ t.prop \in a.done => Finished(a) \/ AtEnd(i)'
    <3>1. i \in 1 .. Len(timers) /\ timers'[i] = timers[i]
      OBVIOUS
    <3>2. LET t == timers[i]  a == anim[t.anim] IN
                 /\ t.anim \in DOMAIN anim /\ t.prop \in a.props
                 /\ a.complete \/ Finished(a)
                 /\ t.prop \in a.done => Finished(a) \/ AtEnd(i)
      BY <1>1, <3>1 DEF TimerInv
    <3> QED
      BY <1>2, <3>1, <3>2 DEF SameAnims
  <2> QED
    BY <2>1, <2>2 DEF TimerInv
<1> QED
  BY <1>5, <1>6

LEMMA TimesKept ==
  ASSUME StepInv, UNCHANGED <<timers, called>>, count' = count \/ count' = count + 1, SameAnims,
         FramesKept,
         \A a \in DOMAIN anim : Stopping(anim[a].elem) => Stopping(anim[a].elem)' \/ ~Live(a),
         \A j \in 1 .. Len(timers) : AtEnd(j) => AtEnd(j)'
  PROVE  TimesInv'
<1>1. Types /\ AnimInv /\ TimerInv /\ FrameInv /\ CalledInv
  BY DEF StepInv
<1>2. \A a \in DOMAIN anim : Rest(a)' = Rest(a)
  BY DEF SameAnims, Rest
<1>3. \A a, p : Custom(a, p) \in Among(stack') <=> Custom(a, p) \in Among(stack)
  BY DEF FramesKept, Custom
<1>4. AnimInv' /\ TimerInv'
  BY <1>3, AnimsKept
<1>7. FrameInv'
  <2> SUFFICES ASSUME NEW f \in Among(stack')
               PROVE  FrameOk(f)'
    BY DEF FrameInv
  <2>0. \A j \in 1 .. Len(timers) : timers[j].anim \in DOMAIN anim
    BY <1>1 DEF TimerInv
  <2>1. CASE f \in Among(stack)
    <3>1. FrameOk(f)
      BY <1>1, <2>1 DEF FrameInv
    <3>2. f.k = "stopped" => f.i \in 1 .. Len(timers)
      <4>1. f \in Frame /\ Len(timers) \in Nat
        BY <1>1, <2>1 DEF Types, Among
      <4> QED
        BY <3>1, <4>1, FrameIs DEF FrameOk
    <3> QED
      BY <1>2, <2>0, <3>1, <3>2 DEF SameAnims, FrameOk
  <2>2. CASE f \notin Among(stack)
    <3>1. /\ f.k \notin {"custom", "complete", "completed", "ticked", "stopped"}
          /\ f.k = "stop" => StopOk(f)
      BY <2>2 DEF FramesKept
    <3> QED
      BY <2>0, <3>1 DEF SameAnims, StopOk, FrameOk
  <2> QED
    BY <2>1, <2>2
<1>8. CalledInv'
  BY <1>1 DEF CalledInv, SameAnims
<1> QED
  BY <1>4, <1>7, <1>8 DEF TimesInv

\* First steps are on top only, below the one that shows the element.
LEMMA NoCustoms ==
  ASSUME StepInv, stack # <<>> => Me.k \notin {"custom", "show"}
  PROVE  \A g \in Among(stack) : g.k # "custom"
<1>1. CASE stack = <<>>
  BY <1>1 DEF Among
<1>2. CASE stack # <<>>
  <2>1. \A g \in Among(Tail(stack)) : Over(Me, g, anim)
    BY <1>2, OrderTail DEF StepInv, Types, Me
  <2>2. Among(stack) = {Me} \cup Among(Tail(stack))
    BY <1>2, Top DEF StepInv
  <2> QED
    BY <1>2, <2>1, <2>2 DEF Over
<1> QED
  BY <1>1, <1>2

\* The same, of a step that is neither of an animation's beginning nor of a timer's end.
LEMMA TimesSame ==
  ASSUME StepInv, UNCHANGED <<timers, called, anim>>, count' = count \/ count' = count + 1,
         stack # <<>> => Me.k \notin {"custom", "show", "ticked", "stopped", "stop"},
         \A f \in Among(stack') :
           \/ f \in Among(stack)
           \/ /\ f.k \notin {"custom", "complete", "completed", "ticked", "stopped"}
              /\ f.k = "stop" => StopOk(f)
  PROVE  TimesInv'
<1>1. \A g \in Among(stack) : g.k # "custom"
  BY NoCustoms
<1>2. FramesKept
  BY <1>1 DEF FramesKept
<1>3. SameAnims
  BY DEF SameAnims
<1>4. \A e : ~Stopping(e)
  BY DEF Stopping, Running, Me
<1>5. \A j : ~AtEnd(j)
  BY DEF AtEnd, Running, Me
<1> QED
  BY <1>2, <1>3, <1>4, <1>5, TimesKept

LEMMA Tails ==
  ASSUME StepInv, stack # <<>>
  PROVE  /\ Tail(stack) \in Seq(Frame) /\ Among(stack) = {Me} \cup Among(Tail(stack)) /\ Me \in Frame
         /\ \A h \in Frame : Among(<<h>> \o Tail(stack)) = {h} \cup Among(Tail(stack))
<1>1. Tail(stack) \in Seq(Frame) /\ Among(stack) = {Me} \cup Among(Tail(stack)) /\ Me \in Frame
  BY Top DEF StepInv
<1>2. \A h \in Frame : Among(<<h>> \o Tail(stack)) = {h} \cup Among(Tail(stack))
  BY <1>1, FramePut
<1> QED
  BY <1>1, <1>2

LEMMA DequeueTimes ==
  ASSUME StepInv, DequeueStep
  PROVE  TimesInv'
<1> DEFINE e == Me.elem  rest == After(e)  c == Head(rest)
<1>1. /\ stack # <<>> /\ Me.k = "dequeue" /\ e \in Element
      /\ UNCHANGED <<timers, anim, called, count>>
  BY DequeueIs DEF StepInv
<1>3. \/ stack' = Tail(stack)
      \/ rest # <<>> /\ c.k # "delay" /\ stack' = <<Begin(e, c), Dequeued(e)>> \o Tail(stack)
  BY DequeueIs DEF StepInv
<1>4. rest # <<>> /\ c.k # "delay" => c \in AnimEntry
  BY <1>1, AfterIs
<1> HIDE DEF e, rest, c
<1>2. \A f \in Among(stack') : f \in Among(stack) \/ f.k \in {"begin", "dequeued"}
  <2>1. CASE stack' = Tail(stack)
    BY <1>1, <2>1, Tails
  <2>2. CASE c \in AnimEntry /\ stack' = <<Begin(e, c), Dequeued(e)>> \o Tail(stack)
    <3> DEFINE b == Begin(e, c)  d == Dequeued(e)
    <3>1. b \in Frame /\ d \in Frame /\ b.k = "begin" /\ d.k = "dequeued"
      BY <1>1, <2>2, FrameMade DEF Begin, Dequeued
    <3> HIDE DEF b, d
    <3>2. Tail(stack) \in Seq(Frame) /\ Among(Tail(stack)) \subseteq Among(stack)
      BY <1>1, Tails
    <3>3. Among(<<b, d>> \o Tail(stack)) = {b, d} \cup Among(Tail(stack))
      BY <3>1, <3>2, TwoAmong
    <3> QED
      BY <2>2, <3>1, <3>2, <3>3 DEF b, d
  <2> QED
    BY <1>3, <1>4, <2>1, <2>2
<1> QED
  BY <1>1, <1>2, TimesSame

LEMMA PopTimes ==
  ASSUME StepInv, UNCHANGED <<timers, anim, called>>, count' = count, stack # <<>>,
         Me.k \notin {"custom", "show", "ticked", "stopped", "stop"}, stack' = Tail(stack)
  PROVE  TimesInv'
<1>1. \A f \in Among(stack') : f \in Among(stack)
  BY Tails
<1> QED
  BY <1>1, TimesSame

LEMMA DequeueEndsTimes ==
  ASSUME StepInv, DequeueEnds
  PROVE  TimesInv'
<1>1. /\ stack # <<>> /\ Me.k = "dequeued" /\ stack' = Tail(stack)
      /\ UNCHANGED <<timers, anim, called, count>>
  BY DequeueEndsIs DEF StepInv
<1> QED
  BY <1>1, PopTimes

LEMMA ReturnsTimes ==
  ASSUME StepInv, Returns
  PROVE  TimesInv'
<1>1. /\ stack # <<>> /\ Me.k = "user" /\ stack' = Tail(stack)
      /\ UNCHANGED <<timers, anim, called, count>>
  BY ReturnsIs DEF StepInv
<1> QED
  BY <1>1, PopTimes

LEMMA ShowTimes ==
  ASSUME StepInv, ShowStep
  PROVE  TimesInv'
<1>1. /\ stack # <<>> /\ Me.k = "show" /\ stack' = Tail(stack)
      /\ UNCHANGED <<timers, anim, called, count>>
  BY ShowIs DEF StepInv
<1>2. FramesKept
  <2>1. Among(stack) = {Me} \cup Among(stack')
    BY <1>1, Tails
  <2> QED
    BY <1>1, <2>1 DEF FramesKept
<1>3. SameAnims
  BY <1>1 DEF SameAnims
<1>4. \A e : ~Stopping(e)
  BY <1>1 DEF Stopping, Running, Me
<1>5. \A j : ~AtEnd(j)
  BY <1>1 DEF AtEnd, Running, Me
<1> QED
  BY <1>1, <1>2, <1>3, <1>4, <1>5, TimesKept

LEMMA CompleteEndsTimes ==
  ASSUME StepInv, CompleteEnds
  PROVE  TimesInv'
<1> DEFINE e == anim[Me.anim].elem
<1>1. stack # <<>> /\ Me.k = "completed"
  BY DEF CompleteEnds, Running, Me
<1>2. /\ UNCHANGED <<timers, anim, called, count>> /\ e \in Element
      /\ stack' = Tail(stack) \/ stack' = <<Dequeue(e)>> \o Tail(stack)
  BY <1>1, Frames, CompleteEndsIs DEF StepInv
<1> HIDE DEF e
<1>3. CASE stack' = Tail(stack)
  BY <1>1, <1>2, <1>3, PopTimes
<1>4. CASE stack' = <<Dequeue(e)>> \o Tail(stack)
  <2>1. Dequeue(e) \in Frame /\ Dequeue(e).k = "dequeue"
    BY <1>2, FrameMade DEF Dequeue
  <2>2. \A f \in Among(stack') : f \in Among(stack) \/ f.k = "dequeue"
    BY <1>1, <1>4, <2>1, Tails
  <2> QED
    BY <1>1, <1>2, <2>2, TimesSame
<1> QED
  BY <1>2, <1>3, <1>4

\* A call of the page.
LEMMA CallTimes ==
  ASSUME StepInv, stack # <<>> => Me.k = "user", NEW f \in Frame,
         stack' = stack \/ stack' = <<f>> \o stack,
         f.k \in {"dequeue", "begin"} \/ (f.k = "stop" /\ f.i = Len(timers)),
         count' = count + 1, UNCHANGED <<timers, anim, called>>
  PROVE  TimesInv'
<1>1. Among(<<f>> \o stack) = {f} \cup Among(stack) /\ Len(timers) \in Nat
  BY FramePut DEF StepInv, Types
<1>2. f.k = "stop" => StopOk(f)
  BY <1>1 DEF StopOk
<1>3. \A g \in Among(stack') :
           \/ g \in Among(stack)
           \/ /\ g.k \notin {"custom", "complete", "completed", "ticked", "stopped"}
              /\ g.k = "stop" => StopOk(g)
  BY <1>1, <1>2
<1> QED
  BY <1>3, TimesSame

LEMMA AnimateTimes ==
  ASSUME StepInv, NEW e \in Element, NEW c \in Choice, Animate(e, c)
  PROVE  TimesInv'
<1>1. Types
  BY DEF StepInv
<1>2. /\ stack = <<>> \/ (stack # <<>> /\ Me.k = "user")
      /\ count' = count + 1 /\ UNCHANGED <<timers, anim, called>>
  BY <1>1, AnimateIs
<1>3. PICK en \in AnimEntry :
        stack' = Starts(e) \o stack \/ stack' = <<Begin(e, en)>> \o stack
  BY <1>1, AnimateIs
<1>4. /\ Begin(e, en) \in Frame /\ Begin(e, en).k = "begin"
      /\ Dequeue(e) \in Frame /\ Dequeue(e).k = "dequeue"
  BY FrameMade DEF Begin, Dequeue
<1>5. Starts(e) \o stack = stack \/ Starts(e) \o stack = <<Dequeue(e)>> \o stack
  BY <1>1, Nothing0 DEF Starts, Types
<1>6. CASE stack' = Starts(e) \o stack
  BY <1>2, <1>4, <1>5, <1>6, CallTimes
<1>7. CASE stack' = <<Begin(e, en)>> \o stack
  BY <1>2, <1>4, <1>7, CallTimes
<1> QED
  BY <1>3, <1>6, <1>7

LEMMA DelayTimes ==
  ASSUME StepInv, NEW e \in Element, Delay(e)
  PROVE  TimesInv'
<1>1. Types
  BY DEF StepInv
<1>2. /\ stack = <<>> \/ (stack # <<>> /\ Me.k = "user")
      /\ count' = count + 1 /\ UNCHANGED <<timers, anim, called>>
      /\ stack' = Starts(e) \o stack
  BY <1>1, DelayIs
<1>3. Dequeue(e) \in Frame /\ Dequeue(e).k = "dequeue"
  BY FrameMade DEF Dequeue
<1>4. Starts(e) \o stack = stack \/ Starts(e) \o stack = <<Dequeue(e)>> \o stack
  BY <1>1, Nothing0 DEF Starts, Types
<1> QED
  BY <1>2, <1>3, <1>4, CallTimes

LEMMA StopNowTimes ==
  ASSUME StepInv, NEW e \in Element, NEW clear \in BOOLEAN, NEW gotoEnd \in BOOLEAN,
         StopFree(e, clear, gotoEnd)
  PROVE  TimesInv'
<1> DEFINE h == Stop(e, gotoEnd, Len(timers), FALSE)
<1>1. Types
  BY DEF StepInv
<1>2. /\ stack = <<>> \/ (stack # <<>> /\ Me.k = "user")
      /\ count' = count + 1 /\ stack' = <<h>> \o stack
      /\ Becomes(StopBegins(Page, e, clear, gotoEnd))
  BY <1>1, StopNowIs
<1>3. UNCHANGED <<timers, anim, called>>
  BY <1>1, <1>2, StopBeginsIs
<1>4. h \in Frame /\ h.k = "stop" /\ h.i = Len(timers)
  <2>1. Len(timers) \in Nat
    BY <1>1 DEF Types
  <2> QED
    BY <2>1, FrameMade DEF Stop
<1> HIDE DEF h
<1> QED
  BY <1>2, <1>3, <1>4, CallTimes

\* A call or a timeout that leaves the stack alone.
LEMMA SameTimes ==
  ASSUME StepInv, stack' = stack, count' = count \/ count' = count + 1,
         UNCHANGED <<timers, anim, called>>
  PROVE  TimesInv'
<1>1. FramesKept /\ SameAnims
  BY DEF FramesKept, SameAnims
<1>2. \A e : Stopping(e) => Stopping(e)'
  BY DEF Stopping, Running, Me
<1>3. \A j : AtEnd(j) => AtEnd(j)'
  BY DEF AtEnd, Running, Me
<1>4. \A a \in DOMAIN anim : Stopping(anim[a].elem) => Stopping(anim[a].elem)'
  BY DEF Stopping, Running, Me
<1> QED
  BY <1>1, <1>2, <1>3, <1>4, TimesKept

LEMMA ThrowsTimes ==
  ASSUME StepInv, Throws
  PROVE  TimesInv'
<1>1. UNCHANGED <<timers, anim, called, count>> /\ stack' = <<>> /\ stack # <<>> /\ Me.k = "user"
  BY ThrowsIs DEF StepInv, Throws, Running, Me
<1>2. Among(stack') = {}
  BY <1>1 DEF Among
<1> QED
  BY <1>1, <1>2, TimesSame

LEMMA WakesTimes ==
  ASSUME StepInv, NEW d \in sleeping, Wakes(d)
  PROVE  TimesInv'
<1>1. UNCHANGED <<timers, anim, called, count>> /\ stack = <<>> /\ stack' = <<Dequeue(d.elem)>>
  BY WakesIs DEF StepInv
<1>2. Dequeue(d.elem) \in Frame /\ Dequeue(d.elem).k = "dequeue"
  BY FrameMade DEF Dequeue, StepInv, Types
<1>3. Among(stack') = {Dequeue(d.elem)}
  BY <1>1, <1>2, OrderTop
<1> QED
  BY <1>1, <1>2, <1>3, TimesSame

LEMMA IntervalTimes ==
  ASSUME StepInv, NEW due, Interval(due)
  PROVE  TimesInv'
<1>1. Types
  BY DEF StepInv
<1>2. UNCHANGED <<timers, called, count>> /\ stack = <<>> /\ stack' = <<Tick(1)>> /\ SameAnims
  BY <1>1, IntervalIs DEF SameAnims
<1>3. Tick(1) \in Frame /\ Tick(1).k = "tick"
  BY FrameMade DEF Tick
<1>4. Among(stack') = {Tick(1)} /\ Among(stack) = {}
  BY <1>2, <1>3, OrderTop DEF Among
<1>5. FramesKept
  BY <1>3, <1>4 DEF FramesKept
<1>6. /\ \A e : ~Stopping(e)
      /\ \A j : ~AtEnd(j)
  BY <1>2 DEF Stopping, AtEnd, Running
<1> QED
  BY <1>2, <1>5, <1>6, TimesKept

LEMMA CompleteTimes ==
  ASSUME StepInv, CompleteStep
  PROVE  TimesInv'
<1> DEFINE a == Me.anim
<1>1. Types /\ AnimInv /\ TimerInv /\ FrameInv /\ CalledInv
  BY DEF StepInv
<1>2. /\ stack # <<>> /\ Me = Complete(a) /\ a \in Nat
      /\ UNCHANGED <<timers, anim, count>>
      /\ stack' = <<User(anim[a].elem), Completed(a)>> \o Tail(stack)
  BY <1>1, CompleteIs
<1>3. Me.k = "complete"
  BY <1>2 DEF Complete
<1>4. a \in DOMAIN anim /\ ~anim[a].complete /\ a \notin DOMAIN called
  BY <1>1, <1>2, <1>3, Tails DEF FrameInv, FrameOk
<1>5. /\ DOMAIN called' = DOMAIN called \cup {a} /\ called'[a] = 1
      /\ \A x \in DOMAIN called : called'[x] = called[x]
  BY <1>1, <1>4, CompleteIs
<1>6. anim[a].elem \in Element
  BY <1>1, <1>4 DEF Types, IsAnim
<1> DEFINE u == User(anim[a].elem)  c == Completed(a)
<1>7. u \in Frame /\ c \in Frame /\ u.k = "user" /\ c.k = "completed" /\ c.anim = a
  BY <1>2, <1>6, FrameMade DEF User, Completed
<1> HIDE DEF u, c
<1>8. stack' = <<u, c>> \o Tail(stack)
  BY <1>2 DEF u, c
<1> HIDE DEF a
<1>9. Among(<<u, c>> \o Tail(stack)) = {u, c} \cup Among(Tail(stack))
  <2>1. Tail(stack) \in Seq(Frame)
    BY <1>2, Tails
  <2>2. PICK t \in Seq(Frame) : t = Tail(stack)
    BY <2>1
  <2>3. Among(<<u, c>> \o t) = {u, c} \cup Among(t)
    BY <1>7, TwoAmong
  <2> QED
    BY <2>2, <2>3
<1>10. Among(stack') = {u, c} \cup Among(Tail(stack)) /\ Among(stack) = {Me} \cup Among(Tail(stack))
  BY <1>2, <1>8, <1>9, Tails
<1>11. \A g \in Among(Tail(stack)) : g.k # "custom" /\ g.k # "complete" /\ g.k # "stop"
  <2>1. \A g \in Among(Tail(stack)) : Over(Me, g, anim)
    BY <1>2, OrderTail DEF StepInv, Types, Me
  <2> QED
    BY <1>3, <2>1 DEF Over
<1>12. AnimInv' /\ TimerInv'
  <2>1. \A x, p : Custom(x, p) \notin Among(stack') /\ Custom(x, p) \notin Among(stack)
    <3>1. \A x, p : Custom(x, p).k = "custom"
      BY DEF Custom
    <3> QED
      BY <1>3, <1>7, <1>10, <1>11, <3>1
  <2>2. SameAnims
    BY <1>2 DEF SameAnims
  <2>3. \A e : ~Stopping(e)
    BY <1>3 DEF Stopping, Running, Me
  <2>4. \A j : ~AtEnd(j)
    BY <1>3 DEF AtEnd, Running, Me
  <2> QED
    BY <1>2, <2>1, <2>2, <2>3, <2>4, AnimsKept
<1>13. FrameInv'
  <2>1. \A f \in Among(Tail(stack)) : f \in Among(stack)
    BY <1>10
  <2> QED
    BY <1>1, <1>2, <1>4, <1>5, <1>7, <1>10, <1>11, <2>1 DEF FrameInv, FrameOk
<1>14. CalledInv'
  BY <1>1, <1>2, <1>4, <1>5 DEF CalledInv
<1> QED
  BY <1>12, <1>13, <1>14 DEF TimesInv

\* The last step of the timer at i.
LEMMA EndsTimes ==
  ASSUME StepInv, stack # <<>>, Me.k \in {"tick", "stop"}, Me.k = "stop" => Me.gotoEnd,
         NEW i \in 1 .. Len(timers), AnimEnds(timers[i].anim, timers[i].prop),
         UNCHANGED <<timers, called, count>>, NEW h \in Frame,
         \/ h = Ticked(i, timers[i]) /\ Me.k = "tick"
         \/ h = Stopped(Me.elem, i) /\ Me.k = "stop",
         stack' = (CallFrames(timers[i].anim) \o <<h>>) \o Tail(stack)
  PROVE  TimesInv'
<1> DEFINE a == timers[i].anim  p == timers[i].prop
<1>1. Types /\ AnimInv /\ TimerInv /\ FrameInv /\ CalledInv
  BY DEF StepInv
<1>2. a \in DOMAIN anim /\ p \in anim[a].props /\ (anim[a].complete \/ Finished(anim[a]))
  BY <1>1 DEF TimerInv
<1>3. \/ h.k = "ticked" /\ Me.k = "tick" /\ h.i = i /\ h.timer = timers[i]
      \/ h.k = "stopped" /\ Me.k = "stop" /\ h.elem = Me.elem /\ h.i = i
  BY DEF Ticked, Stopped
<1>4. AnimEnds(a, p)
  BY Zenon
<1>5. /\ DOMAIN anim' = DOMAIN anim
      /\ \A x \in DOMAIN anim : x # a => anim'[x] = anim[x]
      /\ anim'[a].elem = anim[a].elem
      /\ anim'[a].props = anim[a].props /\ anim'[a].done = anim[a].done \cup {p}
      /\ anim'[a].complete <=> anim[a].complete /\ ~Finished(anim'[a])
  BY <1>4 DEF AnimEnds
<1>6. stack' = (CallFrames(a) \o <<h>>) \o Tail(stack)
  OBVIOUS
<1> HIDE DEF a, p
<1>7. /\ stack' # <<>>
      /\ \/ /\ Finished(anim'[a]) /\ anim[a].complete
            /\ Me' = Complete(a) /\ Among(stack') = {Complete(a), h} \cup Among(Tail(stack))
         \/ /\ ~(Finished(anim'[a]) /\ anim[a].complete)
            /\ Me' = h /\ Among(stack') = {h} \cup Among(Tail(stack))
  BY <1>2, <1>3, <1>4, <1>6, CallsFrames
<1>8. \A g \in Among(stack) : g.k # "custom"
  BY NoCustoms
<1>9. \A f \in Among(Tail(stack)) : f \in Among(stack) /\ f.k \notin {"custom", "complete", "stop", "stopped"}
  <2>1. \A g \in Among(Tail(stack)) : Over(Me, g, anim)
    BY OrderTail DEF StepInv, Types, Me
  <2>2. CASE Me.k = "tick"
    <3>1. Tail(stack) = <<>>
      BY <2>2, Bottom
    <3>2. Among(<<>>) = {}
      BY DEF Among
    <3>3. Among(Tail(stack)) = {}
      BY <3>1, <3>2
    <3> QED
      BY <3>3
  <2>3. CASE Me.k = "stop"
    BY <1>8, <2>1, <2>3, Tails DEF Over
  <2> QED
    BY <2>2, <2>3
<1>10. Complete(a).k = "complete" /\ Complete(a).anim = a
  BY DEF Complete
<1>11. \A f \in Among(stack') : f.k # "custom"
  BY <1>3, <1>7, <1>9, <1>10
<1>12. \A x, q : (Held(x, q) <=> TimerOf(x, q) \in Among(timers)) /\ (Held(x, q)' <=> Held(x, q))
  <2>1. \A x, q : Custom(x, q).k = "custom"
    BY DEF Custom
  <2> QED
    BY <1>8, <1>11, <2>1 DEF Held
<1>13. (\A e : ~Stopping(e)) /\ (\A j : ~AtEnd(j))
  BY DEF Stopping, AtEnd, Running, Me
<1>14. AnimInv'
  <2> SUFFICES ASSUME NEW x \in DOMAIN anim'
               PROVE  /\ x \in 1 .. count'
                      /\ anim'[x].complete => ~Finished(anim'[x])
                      /\ Live(x)' => \A q \in Rest(x)' : Held(x, q)'
    BY DEF AnimInv
  <2>1. x \in 1 .. count /\ (anim[x].complete => ~Finished(anim[x]))
        /\ (Live(x) => \A q \in Rest(x) : Held(x, q))
    BY <1>1, <1>5, <1>13 DEF AnimInv
  <2>2. CASE x # a
    <3>1. anim'[x] = anim[x]
      BY <1>5, <2>2
    <3>2. Rest(x)' = Rest(x)
      BY <3>1 DEF Rest
    <3> QED
      BY <1>12, <2>1, <3>1, <3>2 DEF Live
  <2>3. CASE x = a
    <3>0. anim'[x].done = anim[x].done \cup {p} /\ anim'[x].props = anim[x].props
          /\ (anim'[x].complete <=> anim[x].complete /\ ~Finished(anim'[x]))
      BY <1>5, <2>3
    <3>1. Rest(x)' \subseteq Rest(x)
      BY <3>0 DEF Rest
    <3>2. Live(x)' => Live(x)
      BY <1>12, <3>0, <3>1 DEF Live
    <3> QED
      BY <1>12, <2>1, <3>0, <3>1, <3>2
  <2> QED
    BY <2>2, <2>3
<1>15. Finished(anim[a]) => Finished(anim'[a])
  BY <1>2, <1>5 DEF Finished
<1>16. TimerInv'
  <2>1. \A j, k \in 1 .. Len(timers') : timers'[j] = timers'[k] => j = k
    BY <1>1 DEF TimerInv
  <2>2. ASSUME NEW j \in 1 .. Len(timers)
        PROVE  LET t == timers[j]  b == anim'[t.anim] IN
                 /\ t.anim \in DOMAIN anim' /\ t.prop \in b.props
                 /\ b.complete \/ Finished(b)
                 /\ t.prop \in b.done => Finished(b) \/ AtEnd(j)'
    <3>1. LET t == timers[j]  b == anim[t.anim] IN
                 /\ t.anim \in DOMAIN anim /\ t.prop \in b.props
                 /\ b.complete \/ Finished(b)
                 /\ t.prop \in b.done => Finished(b)
      BY <1>1, <1>13 DEF TimerInv
    <3>2. CASE timers[j].anim # a
      BY <1>5, <3>1, <3>2
    <3>3. CASE timers[j].anim = a
      <4>1. anim'[a].complete \/ Finished(anim'[a])
        BY <1>2, <1>5, <1>15
      <4>2. ASSUME timers[j].prop \in anim'[a].done PROVE Finished(anim'[a]) \/ AtEnd(j)'
        <5>1. CASE timers[j].prop \in anim[a].done
          BY <1>15, <3>1, <3>3, <5>1
        <5>2. CASE timers[j].prop = p
          <6>1. timers[i] \in Timer /\ timers[j] \in Timer
            BY <1>1 DEF Types
          <6>2. timers[i] = timers[j]
            BY <3>3, <5>2, <6>1 DEF Timer, a, p
          <6>3. i = j
            BY <1>1, <6>2 DEF TimerInv
          <6>4. CASE Finished(anim'[a])
            BY <6>4
          <6>5. CASE ~Finished(anim'[a])
            <7>1. Me' = h /\ stack' # <<>>
              BY <1>7, <6>5
            <7> QED
              BY <1>3, <6>3, <7>1 DEF AtEnd, Running, Me
          <6> QED
            BY <6>4, <6>5
        <5> QED
          BY <1>5, <4>2, <5>1, <5>2
      <4> QED
        BY <1>5, <3>1, <3>3, <4>1, <4>2
    <3> QED
      BY <3>2, <3>3
  <2> QED
    BY <2>1, <2>2 DEF TimerInv
<1>17. FrameInv'
  <2>1. \A f \in Among(Tail(stack)) :
          /\ f.k \in {"custom", "complete", "completed"} => f.anim \in DOMAIN anim
          /\ f.k = "completed" => ~anim[f.anim].complete
          /\ f.k = "completed" => f.anim \in DOMAIN called
          /\ f.k = "ticked" => f.timer.anim \in DOMAIN anim /\ f.timer.prop \in anim[f.timer.anim].done
    BY <1>1, <1>9 DEF FrameInv, FrameOk
  <2>2. \A x \in DOMAIN anim : (~anim[x].complete => ~anim'[x].complete) /\ anim[x].done \subseteq anim'[x].done
    BY <1>5
  <2>3. anim[a].complete => a \notin DOMAIN called
    BY <1>1 DEF CalledInv
  <2>4. i <= Len(timers) /\ timers[i].anim = a /\ timers[i].prop \in anim'[a].done
    BY <1>5 DEF a, p
  <2>5. Finished(anim'[a]) => ~anim'[a].complete
    BY <1>5
  <2>6. ASSUME NEW f \in Among(stack')
        PROVE  /\ f.k \in {"custom", "complete", "completed"} => f.anim \in DOMAIN anim'
               /\ f.k # "custom"
               /\ f.k \in {"complete", "completed"} => ~anim'[f.anim].complete
               /\ f.k = "complete" => f.anim \notin DOMAIN called'
               /\ f.k = "completed" => f.anim \in DOMAIN called'
               /\ f.k = "ticked" => /\ f.timer.anim \in DOMAIN anim'
                                    /\ f.timer.prop \in anim'[f.timer.anim].done
               /\ f.k = "stopped" =>
                    /\ f.i <= Len(timers')
                    /\ timers'[f.i].prop \in anim'[timers'[f.i].anim].done
               /\ f.k # "stop"
    <3>1. CASE f \in Among(Tail(stack))
      BY <1>5, <1>9, <2>1, <2>2, <3>1
    <3>2. CASE f = h
      BY <1>2, <1>3, <1>5, <2>4, <3>2
    <3>3. CASE f = Complete(a) /\ Finished(anim'[a]) /\ anim[a].complete
      BY <1>2, <1>5, <1>10, <2>3, <2>5, <3>3
    <3> QED
      BY <1>7, <3>1, <3>2, <3>3
  <2> QED
    BY <2>6 DEF FrameInv, FrameOk
<1>18. CalledInv'
  BY <1>1, <1>5 DEF CalledInv
<1> QED
  BY <1>14, <1>16, <1>17, <1>18 DEF TimesInv

LEMMA RemovedOne ==
  ASSUME NEW S, NEW s \in Seq(S), NEW i \in 1 .. Len(s),
         \A j, k \in 1 .. Len(s) : s[j] = s[k] => j = k
  PROVE  LET n == RemoveAt(s, i) IN
         /\ n \in Seq(S) /\ Len(s) \in Nat /\ Len(n) = Len(s) - 1
         /\ Among(n) = Among(s) \ {s[i]}
         /\ \A j \in 1 .. Len(n) : \E k \in 1 .. Len(s) : k # i /\ n[j] = s[k] /\ (i <= j => i < k)
         /\ \A j, k \in 1 .. Len(n) : n[j] = n[k] => j = k
<1> DEFINE n == RemoveAt(s, i)
<1>1. /\ n \in Seq(S) /\ Len(s) \in Nat /\ Len(n) \in Nat /\ Len(n) = Len(s) - 1
      /\ \A j \in 1 .. Len(n) : n[j] = IF j < i THEN s[j] ELSE s[j + 1]
  BY Removed
<1> HIDE DEF n
<1>2. ASSUME NEW j \in 1 .. Len(n)
      PROVE  LET k == IF j < i THEN j ELSE j + 1 IN
             k \in 1 .. Len(s) /\ k # i /\ n[j] = s[k] /\ (i <= j => i < k)
  <2>1. CASE j < i
    BY <1>1, <2>1
  <2>2. CASE ~(j < i)
    BY <1>1, <2>2
  <2> QED
    BY <2>1, <2>2
<1>3. ASSUME NEW j \in 1 .. Len(n), NEW k \in 1 .. Len(n), n[j] = n[k] PROVE j = k
  <2>1. (IF j < i THEN j ELSE j + 1) = (IF k < i THEN k ELSE k + 1)
    BY <1>2, <1>3
  <2> QED
    BY <1>1, <2>1
<1>4. \A y \in Among(n) : y \in Among(s) \ {s[i]}
  <2> TAKE y \in Among(n)
  <2>1. PICK j \in 1 .. Len(n) : y = n[j]
    BY DEF Among
  <2>2. PICK k \in 1 .. Len(s) : k # i /\ y = s[k]
    BY <1>2, <2>1
  <2> QED
    BY <2>2 DEF Among
<1>5. \A y \in Among(s) \ {s[i]} : y \in Among(n)
  <2> TAKE y \in Among(s) \ {s[i]}
  <2>1. PICK k \in 1 .. Len(s) : y = s[k]
    BY DEF Among
  <2>2. CASE k < i
    <3>1. k \in 1 .. Len(n) /\ n[k] = s[k]
      BY <1>1, <2>2
    <3> QED
      BY <2>1, <3>1 DEF Among
  <2>3. CASE ~(k < i)
    <3>1. k # i
      BY <2>1
    <3>2. k - 1 \in 1 .. Len(n) /\ ~(k - 1 < i) /\ (k - 1) + 1 = k
      BY <1>1, <2>3, <3>1
    <3>3. n[k - 1] = s[k]
      BY <1>1, <3>2
    <3> QED
      BY <2>1, <3>2, <3>3 DEF Among
  <2> QED
    BY <2>2, <2>3
<1>6. Among(n) = Among(s) \ {s[i]}
  BY <1>4, <1>5
<1>7. \A j \in 1 .. Len(n) : \E k \in 1 .. Len(s) : k # i /\ n[j] = s[k] /\ (i <= j => i < k)
  BY <1>2
<1> QED
  BY <1>1, <1>3, <1>6, <1>7 DEF n

\* The timer at i is removed: it has come to its end, or its element is stopped.
LEMMA TimerGone ==
  ASSUME StepInv, stack # <<>>, NEW i \in 1 .. Len(timers), timers' = RemoveAt(timers, i),
         UNCHANGED <<anim, called, count>>,
         NEW h \in Frame, stack' = <<h>> \o Tail(stack), Me.i = i,
         \/ /\ Me.k \in {"ticked", "stopped"}
            /\ timers[i].prop \in anim[timers[i].anim].done
         \/ /\ Me.k = "stop" /\ ~Me.gotoEnd /\ anim[timers[i].anim].elem = Me.elem
            /\ h.k = "stop" /\ ~h.gotoEnd,
         h.k \in {"tick", "stop"},
         h.k = "stop" => /\ h.i = i - 1 /\ h.elem = Me.elem
                         /\ ~h.gotoEnd \/ ~h.had =>
                              \A j \in 1 .. Len(timers) : i < j => anim[timers[j].anim].elem # h.elem
  PROVE  TimesInv'
<1>1. Types /\ AnimInv /\ TimerInv /\ FrameInv /\ CalledInv
  BY DEF StepInv
<1>2. timers \in Seq(Timer)
  BY <1>1 DEF Types
<1>3. \A j, k \in 1 .. Len(timers) : timers[j] = timers[k] => j = k
  BY <1>1 DEF TimerInv
<1>4. LET n == RemoveAt(timers, i) IN
      /\ n \in Seq(Timer) /\ Len(timers) \in Nat /\ Len(n) = Len(timers) - 1
      /\ Among(n) = Among(timers) \ {timers[i]}
      /\ \A j \in 1 .. Len(n) : \E k \in 1 .. Len(timers) :
           k # i /\ n[j] = timers[k] /\ (i <= j => i < k)
      /\ \A j, k \in 1 .. Len(n) : n[j] = n[k] => j = k
  <2> DEFINE Unlike(s) == \A j, k \in 1 .. Len(s) : s[j] = s[k] => j = k
             Gone(s, x, n) ==
               /\ n \in Seq(Timer) /\ Len(s) \in Nat /\ Len(n) = Len(s) - 1
               /\ Among(n) = Among(s) \ {s[x]}
               /\ \A j \in 1 .. Len(n) : \E k \in 1 .. Len(s) :
                    k # x /\ n[j] = s[k] /\ (x <= j => x < k)
               /\ \A j, k \in 1 .. Len(n) : n[j] = n[k] => j = k
  <2>1. ASSUME NEW s \in Seq(Timer), NEW x \in 1 .. Len(s), Unlike(s)
        PROVE  Gone(s, x, RemoveAt(s, x))
    BY <2>1, RemovedOne
  <2>2. Unlike(timers)
    BY <1>3
  <2> HIDE DEF Unlike, Gone
  <2>3. Gone(timers, i, RemoveAt(timers, i))
    BY <1>2, <2>1, <2>2
  <2> QED
    BY <2>3 DEF Gone
<1>5. /\ timers' \in Seq(Timer) /\ Len(timers) \in Nat /\ Len(timers') = Len(timers) - 1
      /\ Among(timers') = Among(timers) \ {timers[i]}
      /\ \A j \in 1 .. Len(timers') : \E k \in 1 .. Len(timers) :
           k # i /\ timers'[j] = timers[k] /\ (i <= j => i < k)
      /\ \A j, k \in 1 .. Len(timers') : timers'[j] = timers'[k] => j = k
  BY <1>4
<1>6. Among(stack') = {h} \cup Among(Tail(stack)) /\ Among(stack) = {Me} \cup Among(Tail(stack))
  BY Tails
<1>7. stack' # <<>> /\ Me' = h
  BY Tails, FramePut DEF Me
<1>8. \A g \in Among(stack) : g.k # "custom"
  BY NoCustoms
<1>9. \A g \in Among(Tail(stack)) : g \in Among(stack) /\ g.k \notin {"custom", "stop", "stopped"}
  <2>1. \A g \in Among(Tail(stack)) : Over(Me, g, anim)
    BY OrderTail DEF StepInv, Types, Me
  <2>2. CASE Me.k = "ticked"
    <3>1. Tail(stack) = <<>>
      BY <2>2, Bottom
    <3>2. Among(<<>>) = {}
      BY DEF Among
    <3>3. Among(Tail(stack)) = {}
      BY <3>1, <3>2
    <3> QED
      BY <3>3
  <2>3. CASE Me.k \in {"stop", "stopped"}
    BY <1>6, <1>8, <2>1, <2>3 DEF Over
  <2> QED
    BY <2>2, <2>3
<1>10. \A f \in Among(stack') : f.k # "custom"
  BY <1>6, <1>9
<1>11. \A x, q : /\ (Held(x, q) <=> TimerOf(x, q) \in Among(timers))
                 /\ (Held(x, q)' <=> TimerOf(x, q) \in Among(timers'))
  <2>1. \A x, q : Custom(x, q).k = "custom"
    BY DEF Custom
  <2> QED
    BY <1>8, <1>10, <2>1 DEF Held
<1>12. timers[i] = TimerOf(timers[i].anim, timers[i].prop)
  <2>1. timers[i] \in Timer
    BY <1>2
  <2> QED
    BY <2>1 DEF Timer, TimerOf
<1>13. \A x, q : TimerOf(x, q).anim = x /\ TimerOf(x, q).prop = q
  BY DEF TimerOf
<1>14. AnimInv'
  <2> SUFFICES ASSUME NEW x \in DOMAIN anim
               PROVE  /\ x \in 1 .. count
                      /\ anim[x].complete => ~Finished(anim[x])
                      /\ Live(x)' => (\A q \in Rest(x) : Held(x, q)') \/ Stopping(anim[x].elem)'
    BY DEF AnimInv, Rest
  <2>1. /\ x \in 1 .. count /\ (anim[x].complete => ~Finished(anim[x]))
        /\ Live(x) => (\A q \in Rest(x) : Held(x, q)) \/ Stopping(anim[x].elem)
    BY <1>1 DEF AnimInv
  <2>2. \A q : Held(x, q)' => Held(x, q)
    BY <1>5, <1>11
  <2>3. Live(x)' => Live(x)
    BY <2>2 DEF Live, Rest
  <2>4. CASE Me.k \in {"ticked", "stopped"}
    <3>1. \A q \in Rest(x) : TimerOf(x, q) # timers[i]
      BY <1>13, <2>4 DEF Rest
    <3>2. ~Stopping(anim[x].elem)
      BY <2>4 DEF Stopping, Running, Me
    <3> QED
      BY <1>5, <1>11, <2>1, <2>3, <3>1, <3>2
  <2>5. CASE Me.k = "stop"
    <3>1. ~h.gotoEnd /\ h.k = "stop" /\ h.elem = Me.elem /\ anim[timers[i].anim].elem = Me.elem
      BY <2>5
    <3>2. CASE anim[x].elem = Me.elem
      <4>1. Stopping(anim[x].elem)'
        BY <1>7, <3>1, <3>2 DEF Stopping, Running, Me
      <4> QED
        BY <2>1, <4>1
    <3>3. CASE anim[x].elem # Me.elem
      <4>1. ~Stopping(anim[x].elem)
        BY <3>3 DEF Stopping
      <4>2. \A q : TimerOf(x, q) # timers[i]
        BY <1>13, <3>1, <3>3
      <4> QED
        BY <1>5, <1>11, <2>1, <2>3, <4>1, <4>2
    <3> QED
      BY <3>2, <3>3
  <2> QED
    BY <2>4, <2>5
<1>15. TimerInv'
  <2> SUFFICES ASSUME NEW j \in 1 .. Len(timers')
               PROVE  LET t == timers'[j]  b == anim[t.anim] IN
                 /\ t.anim \in DOMAIN anim /\ t.prop \in b.props
                 /\ b.complete \/ Finished(b)
                 /\ t.prop \in b.done => Finished(b)
    BY <1>5 DEF TimerInv
  <2>1. PICK k \in 1 .. Len(timers) : k # i /\ timers'[j] = timers[k]
    BY <1>5
  <2>2. ~AtEnd(k)
    BY <2>1 DEF AtEnd, Running, Me
  <2>3. LET t == timers[k]  b == anim[t.anim] IN
                 /\ t.anim \in DOMAIN anim /\ t.prop \in b.props
                 /\ b.complete \/ Finished(b)
                 /\ t.prop \in b.done => Finished(b)
    BY <1>1, <2>2 DEF TimerInv
  <2> QED
    BY <2>1, <2>3
<1>16. h.k = "stop" => StopOk(h)'
  <2> SUFFICES ASSUME h.k = "stop"
               PROVE  /\ h.i <= Len(timers')
                      /\ ~h.gotoEnd \/ ~h.had =>
                           \A j \in 1 .. Len(timers') : h.i < j => anim[timers'[j].anim].elem # h.elem
    BY DEF StopOk
  <2>1. h.i = i - 1 /\ h.i <= Len(timers')
    BY <1>5
  <2>2. ASSUME ~h.gotoEnd \/ ~h.had, NEW j \in 1 .. Len(timers'), h.i < j
        PROVE  anim[timers'[j].anim].elem # h.elem
    <3>1. i <= j
      BY <1>5, <2>1, <2>2
    <3>2. PICK k \in 1 .. Len(timers) : timers'[j] = timers[k] /\ i < k
      BY <1>5, <3>1
    <3> QED
      BY <2>2, <3>2
  <2> QED
    BY <2>1, <2>2
<1>17. FrameInv'
  <2> SUFFICES ASSUME NEW f \in Among(stack')
        PROVE  /\ f.k # "custom" /\ f.k # "stopped"
               /\ f.k \in {"complete", "completed"} => f.anim \in DOMAIN anim /\ ~anim[f.anim].complete
               /\ f.k = "complete" => f.anim \notin DOMAIN called
               /\ f.k = "completed" => f.anim \in DOMAIN called
               /\ f.k = "ticked" => f.timer.anim \in DOMAIN anim /\ f.timer.prop \in anim[f.timer.anim].done
               /\ f.k = "stop" => StopOk(f)'
    BY DEF FrameInv, FrameOk, StopOk
  <2>1. CASE f = h
    BY <1>16, <2>1
  <2>2. CASE f \in Among(Tail(stack))
    BY <1>1, <1>9, <2>2 DEF FrameInv, FrameOk
  <2> QED
    BY <1>6, <2>1, <2>2
<1>18. CalledInv'
  BY Zenon, <1>1 DEF CalledInv
<1> QED
  BY <1>14, <1>15, <1>17, <1>18 DEF TimesInv

LEMMA TickTimes ==
  ASSUME StepInv, TickStep
  PROVE  TimesInv'
<1> DEFINE i == Me.i  t == timers[i]
<1>1. TimersOfAnims /\ Types
  BY Frames DEF StepInv
<1>2. /\ stack # <<>> /\ Me.k = "tick" /\ i \in Nat \ {0} /\ UNCHANGED <<timers, called, count>>
      /\ \/ /\ i > Len(timers) /\ anim' = anim /\ stack' = Tail(stack)
         \/ /\ i \in 1 .. Len(timers) /\ AnimEnds(t.anim, t.prop)
            /\ stack' = (CallFrames(t.anim) \o <<Ticked(i, t)>>) \o Tail(stack)
         \/ /\ i \in 1 .. Len(timers) /\ anim' = anim /\ stack' = <<Tick(i + 1)>> \o Tail(stack)
  BY <1>1, TickIs
<1>3. CASE i > Len(timers) /\ anim' = anim /\ stack' = Tail(stack)
  BY <1>2, <1>3, PopTimes
<1>4. CASE /\ i \in 1 .. Len(timers) /\ AnimEnds(t.anim, t.prop)
           /\ stack' = (CallFrames(t.anim) \o <<Ticked(i, t)>>) \o Tail(stack)
  <2>1. t \in Timer
    BY <1>1, <1>4 DEF Types
  <2>2. Ticked(i, t) \in Frame
    BY Zenon, <1>2, <2>1, FrameMade
  <2> QED
    BY <1>2, <1>4, <2>2, EndsTimes, Zenon
<1>5. CASE anim' = anim /\ stack' = <<Tick(i + 1)>> \o Tail(stack)
  <2>1. Tick(i + 1) \in Frame /\ Tick(i + 1).k = "tick"
    BY <1>2, FrameMade DEF Tick
  <2> DEFINE h == Tick(i + 1)
  <2> HIDE DEF h
  <2>2. Among(stack') = {h} \cup Among(Tail(stack)) /\ Among(stack) = {Me} \cup Among(Tail(stack))
    BY <1>2, <1>5, <2>1, Tails DEF h
  <2>3. h.k = "tick"
    BY <2>1 DEF h
  <2> QED
    BY <1>2, <1>5, <2>2, <2>3, TimesSame
<1> QED
  BY Zenon, <1>2, <1>3, <1>4, <1>5

LEMMA TickGoesOnTimes ==
  ASSUME StepInv, TickGoesOn
  PROVE  TimesInv'
<1> DEFINE i == Me.i
<1>1. Types /\ FrameInv
  BY DEF StepInv
<1>2. /\ stack # <<>> /\ Me.k = "ticked" /\ i \in Nat \ {0} /\ Me.timer \in Timer
      /\ UNCHANGED <<anim, called, count>>
      /\ \/ /\ i \in 1 .. Len(timers) /\ timers[i] = Me.timer
            /\ timers' = RemoveAt(timers, i) /\ stack' = <<Tick(i)>> \o Tail(stack)
         \/ /\ ~(i \in 1 .. Len(timers) /\ timers[i] = Me.timer)
            /\ timers' = timers /\ stack' = <<Tick(i + 1)>> \o Tail(stack)
  BY <1>1, TickGoesOnIs
<1>3. Me \in Among(stack) /\ \A g \in Among(stack) : g.k # "custom"
  BY <1>1, <1>2, Top, NoCustoms
<1>4. CASE /\ i \in 1 .. Len(timers) /\ timers[i] = Me.timer
           /\ timers' = RemoveAt(timers, i) /\ stack' = <<Tick(i)>> \o Tail(stack)
  <2>1. timers[i].prop \in anim[timers[i].anim].done
    BY <1>1, <1>2, <1>3, <1>4 DEF FrameInv, FrameOk
  <2>2. Tick(i) \in Frame /\ Tick(i).k = "tick"
    BY <1>2, FrameMade DEF Tick
  <2> QED
    BY <1>2, <1>4, <2>1, <2>2, TimerGone
<1>5. CASE /\ ~(i \in 1 .. Len(timers) /\ timers[i] = Me.timer)
           /\ timers' = timers /\ stack' = <<Tick(i + 1)>> \o Tail(stack)
  <2>1. Tick(i + 1) \in Frame /\ Tick(i + 1).k = "tick"
    BY <1>2, FrameMade DEF Tick
  <2> DEFINE h == Tick(i + 1)
  <2> HIDE DEF h
  <2>2. Among(stack') = {h} \cup Among(Tail(stack)) /\ Among(stack) = {Me} \cup Among(Tail(stack))
    BY <1>2, <1>5, <2>1, Tails DEF h
  <2>3. FramesKept
    BY <1>3, <2>1, <2>2 DEF FramesKept, h
  <2>4. SameAnims
    BY <1>2 DEF SameAnims
  <2>5. \A e : ~Stopping(e)
    BY <1>2 DEF Stopping, Running, Me
  <2>6. \A j \in 1 .. Len(timers) : ~AtEnd(j)
    BY <1>2, <1>5 DEF AtEnd, Running, Me
  <2> QED
    BY <1>2, <1>5, <2>3, <2>4, <2>5, <2>6, TimesKept
<1> QED
  BY <1>2, <1>4, <1>5

LEMMA StopTimes ==
  ASSUME StepInv, StopStep
  PROVE  TimesInv'
<1> DEFINE e == Me.elem  i == Me.i  t == timers[i]
<1>1. TimersOfAnims /\ Types /\ FrameInv
  BY Frames DEF StepInv
<1>2. stack # <<>> /\ Me.k = "stop"
  BY DEF StopStep, Running, Me
<1>3. Me \in Among(stack) /\ \A g \in Among(stack) : g.k # "custom"
  BY <1>1, <1>2, Top, NoCustoms
<1>4. /\ i <= Len(timers)
      /\ ~Me.gotoEnd \/ ~Me.had => \A j \in 1 .. Len(timers) : i < j => anim[timers[j].anim].elem # e
  BY <1>1, <1>2, <1>3 DEF FrameInv, FrameOk
<1>5. /\ e \in Element /\ i \in Nat /\ Me.gotoEnd \in BOOLEAN /\ Me.had \in BOOLEAN
      /\ UNCHANGED <<called, count>>
      /\ \/ /\ i = 0 /\ UNCHANGED <<timers, anim>>
            /\ stack' = (IF Me.gotoEnd /\ Me.had THEN <<>> ELSE <<Dequeue(e)>>) \o Tail(stack)
         \/ /\ i \in 1 .. Len(timers) /\ anim[t.anim].elem # e /\ UNCHANGED <<timers, anim>>
            /\ stack' = <<Stop(e, Me.gotoEnd, i - 1, Me.had)>> \o Tail(stack)
         \/ /\ i \in 1 .. Len(timers) /\ anim[t.anim].elem = e /\ Me.gotoEnd
            /\ UNCHANGED timers /\ AnimEnds(t.anim, t.prop)
            /\ stack' = (CallFrames(t.anim) \o <<Stopped(e, i)>>) \o Tail(stack)
         \/ /\ i \in 1 .. Len(timers) /\ anim[t.anim].elem = e /\ ~Me.gotoEnd
            /\ timers' = RemoveAt(timers, i) /\ UNCHANGED anim
            /\ stack' = <<Stop(e, FALSE, i - 1, TRUE)>> \o Tail(stack)
  BY <1>1, <1>4, StopIs
<1>11. Len(timers) \in Nat /\ i \in Nat
  BY <1>1, <1>5 DEF Types
<1>6. \A j : ~AtEnd(j)
  BY <1>2 DEF AtEnd, Running, Me
<1>7. CASE /\ i = 0 /\ UNCHANGED <<timers, anim>>
           /\ stack' = (IF Me.gotoEnd /\ Me.had THEN <<>> ELSE <<Dequeue(e)>>) \o Tail(stack)
  <2>1. \/ Among(stack') = Among(Tail(stack))
        \/ Among(stack') = {Dequeue(e)} \cup Among(Tail(stack))
    BY <1>1, <1>2, <1>5, <1>7, Tails, Quit, FrameMade
  <2>2. Dequeue(e).k = "dequeue"
    BY DEF Dequeue
  <2>3. Among(stack) = {Me} \cup Among(Tail(stack))
    BY <1>2, Tails
  <2>4. FramesKept
    BY <1>3, <2>1, <2>2, <2>3 DEF FramesKept
  <2>5. SameAnims
    BY <1>7 DEF SameAnims
  <2>6. ASSUME NEW a \in DOMAIN anim, Stopping(anim[a].elem) PROVE ~Live(a)
    <3>1. ~Me.gotoEnd /\ anim[a].elem = e
      BY <2>6 DEF Stopping
    <3>2. \A j \in 1 .. Len(timers) : anim[timers[j].anim].elem # e
      BY <1>4, <1>7, <3>1
    <3>3. \A p : TimerOf(a, p) \notin Among(timers)
      BY <3>1, <3>2 DEF Among, TimerOf
    <3>4. \A p : Custom(a, p).k = "custom"
      BY DEF Custom
    <3> QED
      BY <1>3, <3>3, <3>4 DEF Live, Held
  <2> QED
    BY <1>5, <1>6, <1>7, <2>4, <2>5, <2>6, TimesKept
<1>8. CASE /\ i \in 1 .. Len(timers) /\ anim[t.anim].elem # e /\ UNCHANGED <<timers, anim>>
           /\ stack' = <<Stop(e, Me.gotoEnd, i - 1, Me.had)>> \o Tail(stack)
  <2> DEFINE h == Stop(e, Me.gotoEnd, i - 1, Me.had)
  <2>0. i - 1 \in Nat /\ i - 1 <= Len(timers) /\ \A j \in 1 .. Len(timers) : i - 1 < j => j = i \/ i < j
    <3>1. i \in 1 .. Len(timers)
      BY <1>8
    <3> HIDE DEF i, t
    <3> QED
      BY <1>11, <3>1
  <2> DEFINE m == i - 1
  <2> HIDE DEF m
  <2>1. /\ h \in Frame /\ h.k = "stop" /\ h.elem = e /\ h.gotoEnd = Me.gotoEnd /\ h.had = Me.had
        /\ h.i = i - 1
    <3>1. m \in Nat /\ h = Stop(e, Me.gotoEnd, m, Me.had)
      BY Zenon, <2>0 DEF m
    <3> HIDE DEF h
    <3>2. h \in Frame
      BY <1>5, <3>1, FrameMade
    <3>3. h.k = "stop" /\ h.elem = e /\ h.gotoEnd = Me.gotoEnd /\ h.had = Me.had /\ h.i = m
      BY <3>1 DEF Stop
    <3> QED
      BY <3>2, <3>3 DEF m
  <2>2. StopOk(h)
    <3>1. ASSUME ~Me.gotoEnd \/ ~Me.had, NEW j \in 1 .. Len(timers), i - 1 < j
          PROVE  anim[timers[j].anim].elem # e
      BY <1>4, <1>8, <2>0, <3>1
    <3> QED
      BY <2>0, <2>1, <3>1 DEF StopOk
  <2> HIDE DEF h
  <2>3. stack' = <<h>> \o Tail(stack)
    BY <1>8 DEF h
  <2>4. Among(stack') = {h} \cup Among(Tail(stack)) /\ Among(stack) = {Me} \cup Among(Tail(stack))
    BY <1>2, <2>1, <2>3, Tails
  <2>5. stack' # <<>> /\ Me' = h
    BY <1>2, <2>1, <2>3, Tails, FramePut DEF Me
  <2>6. FramesKept
    BY <1>3, <2>1, <2>2, <2>4 DEF FramesKept
  <2>7. SameAnims
    BY <1>8 DEF SameAnims
  <2>8. \A x : Stopping(x) => Stopping(x)'
    BY <2>1, <2>5 DEF Stopping, Running, Me
  <2>9. \A a \in DOMAIN anim : Stopping(anim[a].elem) => Stopping(anim[a].elem)' \/ ~Live(a)
    <3>1. ASSUME NEW a \in DOMAIN anim, Stopping(anim[a].elem) PROVE Stopping(anim[a].elem)'
      BY <1>8, <2>1, <2>5, <3>1 DEF Stopping, Running, Me
    <3> QED
      BY <3>1
  <2> QED
    BY <1>5, <1>6, <1>8, <2>6, <2>7, <2>9, TimesKept, Zenon
<1>9. CASE /\ i \in 1 .. Len(timers) /\ anim[t.anim].elem = e /\ Me.gotoEnd
           /\ UNCHANGED timers /\ AnimEnds(t.anim, t.prop)
           /\ stack' = (CallFrames(t.anim) \o <<Stopped(e, i)>>) \o Tail(stack)
  <2>1. Stopped(e, i) \in Frame
    <3>1. i \in Nat \ {0}
      <4>1. i \in 1 .. Len(timers)
        BY <1>9
      <4> HIDE DEF i, t
      <4> QED
        BY <1>11, <4>1
    <3> QED
      BY <1>5, <3>1, FrameMade
  <2> QED
    BY <1>2, <1>5, <1>9, <2>1, EndsTimes, Zenon
<1>10. CASE /\ i \in 1 .. Len(timers) /\ anim[t.anim].elem = e /\ ~Me.gotoEnd
            /\ timers' = RemoveAt(timers, i) /\ UNCHANGED anim
            /\ stack' = <<Stop(e, FALSE, i - 1, TRUE)>> \o Tail(stack)
  <2> DEFINE h == Stop(e, FALSE, i - 1, TRUE)
  <2> DEFINE m == i - 1
  <2>0. m \in Nat
    BY <1>5, <1>10
  <2> HIDE DEF m
  <2>1. h \in Frame /\ h.k = "stop" /\ h.elem = e /\ ~h.gotoEnd /\ h.i = i - 1
    <3>1. h = Stop(e, FALSE, m, TRUE)
      BY Zenon DEF m
    <3> HIDE DEF h
    <3>2. h \in Frame
      BY <1>5, <2>0, <3>1, FrameMade
    <3>3. h.k = "stop" /\ h.elem = e /\ ~h.gotoEnd /\ h.i = m
      BY <3>1 DEF Stop
    <3> QED
      BY <3>2, <3>3 DEF m
  <2> HIDE DEF h
  <2>2. stack' = <<h>> \o Tail(stack)
    BY <1>10 DEF h
  <2>3. \A j \in 1 .. Len(timers) : i < j => anim[timers[j].anim].elem # h.elem
    BY <1>4, <1>10, <2>1
  <2> QED
    BY <1>2, <1>5, <1>10, <2>1, <2>2, <2>3, TimerGone, Zenon
<1> QED
  BY <1>5, <1>7, <1>8, <1>9, <1>10, Zenon

LEMMA StopGoesOnTimes ==
  ASSUME StepInv, StopGoesOn
  PROVE  TimesInv'
<1> DEFINE e == Me.elem  i == Me.i  h == Stop(e, TRUE, i - 1, TRUE)
<1>1. Types /\ FrameInv
  BY DEF StepInv
<1>2. /\ stack # <<>> /\ Me.k = "stopped" /\ e \in Element /\ i \in Nat \ {0}
      /\ UNCHANGED <<anim, called, count>> /\ timers' = RemoveAt(timers, i)
      /\ stack' = <<h>> \o Tail(stack)
  BY <1>1, StopGoesOnIs
<1>3. h \in Frame /\ h.k = "stop" /\ h.elem = e /\ h.gotoEnd /\ h.had /\ h.i = i - 1
  <2> DEFINE m == i - 1
  <2>1. m \in Nat /\ h = Stop(e, TRUE, m, TRUE)
    BY <1>2
  <2> HIDE DEF m, h
  <2>2. h \in Frame
    BY <1>2, <2>1, FrameMade
  <2>3. h.k = "stop" /\ h.elem = e /\ h.gotoEnd /\ h.had /\ h.i = m
    BY <2>1 DEF Stop
  <2> QED
    BY <2>2, <2>3 DEF m
<1>4. Me \in Among(stack)
  BY <1>1, <1>2, Top
<1>5. i <= Len(timers) /\ timers[i].prop \in anim[timers[i].anim].done
  BY <1>1, <1>2, <1>4 DEF FrameInv, FrameOk
<1>6. i \in 1 .. Len(timers)
  BY <1>1, <1>2, <1>5 DEF Types
<1> HIDE DEF h
<1> QED
  BY <1>2, <1>3, <1>5, <1>6, TimerGone

LEMMA BeginTimes ==
  ASSUME StepInv, BeginStep
  PROVE  TimesInv'
<1> DEFINE e == Me.elem  c == Me.entry
<1>0. PICK id : id = c.id
  OBVIOUS
<1>1. Types /\ AnimInv /\ TimerInv /\ FrameInv /\ CalledInv /\ EntryInv
  BY Zenon DEF StepInv
<1>2. /\ stack # <<>> /\ Me.k = "begin" /\ c \in AnimEntry
      /\ UNCHANGED <<timers, called, count>>
      /\ DOMAIN anim' = DOMAIN anim \cup {id}
      /\ \A x \in DOMAIN anim : x # id => anim'[x] = anim[x]
      /\ anim'[id].props = c.props /\ anim'[id].done = {}
  BY <1>0, <1>1, BeginIs
<1>3. id \in 1 .. count /\ id \notin DOMAIN anim
  BY <1>0, <1>1, <1>2 DEF EntryInv, Running, Me
<1>4. IF anim'[id].complete
      THEN \E S \in SUBSET {Show(e)} : Among(stack') =
             {Custom(id, p) : p \in c.props} \cup S \cup Among(Tail(stack))
      ELSE Among(stack') = {Complete(id)} \cup Among(Tail(stack))
  BY <1>0, BeginFrames
<1>5. c.props # {}
  <2>1. c.props \in PropSets
    BY <1>2 DEF AnimEntry
  <2> QED
    BY <2>1 DEF PropSets, Prop
<1> HIDE DEF c, e
<1>6. Among(stack) = {Me} \cup Among(Tail(stack)) /\ \A g \in Among(stack) : g.k # "custom"
  BY <1>2, Tails, NoCustoms
<1>7. \A f \in Among(stack') :
        \/ f \in Among(stack) /\ f.k # "custom"
        \/ anim'[id].complete /\ \E p \in c.props : f = Custom(id, p)
        \/ f = Show(e)
        \/ ~anim'[id].complete /\ f = Complete(id)
  BY <1>4, <1>6
<1>8. anim'[id].complete => \A p \in c.props : Custom(id, p) \in Among(stack')
  BY <1>4
<1>9. /\ \A x, p : Custom(x, p).k = "custom" /\ Custom(x, p).anim = x /\ Custom(x, p).prop = p
      /\ Show(e).k = "show" /\ Complete(id).k = "complete" /\ Complete(id).anim = id
  BY DEF Custom, Show, Complete
<1>10. \A x \in DOMAIN anim : \A p : Custom(x, p) \notin Among(stack') /\ Custom(x, p) \notin Among(stack)
  BY <1>3, <1>6, <1>7, <1>9
<1>11. (\A x : ~Stopping(x)) /\ (\A j : ~AtEnd(j))
  BY <1>2 DEF Stopping, AtEnd, Running, Me
<1>12. \A j \in 1 .. Len(timers) : timers[j].anim \in DOMAIN anim /\ timers[j].anim # id
  BY <1>1, <1>3 DEF TimerInv
<1>13. Rest(id)' = c.props /\ ~Finished(anim'[id])
  BY <1>2, <1>5 DEF Rest, Finished
<1>14. AnimInv'
  <2> SUFFICES ASSUME NEW x \in DOMAIN anim'
               PROVE  /\ x \in 1 .. count
                      /\ anim'[x].complete => ~Finished(anim'[x])
                      /\ Live(x)' => \A q \in Rest(x)' : Held(x, q)'
    BY <1>2 DEF AnimInv
  <2>1. CASE x \in DOMAIN anim
    <3>1. anim'[x] = anim[x]
      BY <1>2, <1>3, <2>1
    <3>2. Rest(x)' = Rest(x)
      BY <3>1 DEF Rest
    <3>3. \A q : Held(x, q)' <=> Held(x, q)
      BY <1>2, <1>10, <2>1 DEF Held
    <3>4. Live(x)' => Live(x)
      BY <3>1, <3>2, <3>3 DEF Live
    <3>5. /\ x \in 1 .. count /\ (anim[x].complete => ~Finished(anim[x]))
          /\ Live(x) => \A q \in Rest(x) : Held(x, q)
      BY <1>1, <1>11, <2>1 DEF AnimInv
    <3> QED
      BY <3>1, <3>2, <3>3, <3>4, <3>5
  <2>2. CASE x = id
    <3>1. Rest(x)' = c.props /\ ~Finished(anim'[x])
      BY <1>13, <2>2
    <3>2. anim'[x].complete => \A q \in c.props : Held(x, q)'
      BY <1>8, <2>2 DEF Held
    <3>3. Live(x)' => anim'[x].complete
      BY DEF Live
    <3> QED
      BY <1>3, <2>2, <3>1, <3>2, <3>3
  <2> QED
    BY <1>2, <2>1, <2>2
<1>15. TimerInv'
  BY <1>1, <1>2, <1>11, <1>12 DEF TimerInv
<1>16. FrameInv'
  <2> SUFFICES ASSUME NEW f \in Among(stack')
               PROVE  FrameOk(f)'
    BY DEF FrameInv
  <2>1. CASE f \in Among(stack) /\ f.k # "custom"
    <3>1. FrameOk(f)
      BY <1>1, <2>1 DEF FrameInv
    <3>2. f.k = "stopped" => f.i \in 1 .. Len(timers)
      <4>1. f \in Frame /\ Len(timers) \in Nat
        BY <1>1, <2>1 DEF Types, Among
      <4> QED
        BY <3>1, <4>1, FrameIs DEF FrameOk
    <3> QED
      BY <1>2, <1>3, <1>12, <2>1, <3>1, <3>2 DEF FrameOk
  <2>2. ASSUME NEW p \in c.props, f = Custom(id, p), anim'[id].complete
        PROVE  FrameOk(f)'
    <3>1. f.k = "custom" /\ f.anim = id /\ f.prop = p
      BY <1>9, <2>2
    <3>2. TimerOf(id, p) \notin Among(timers)
      BY <1>12 DEF TimerOf, Among
    <3>3. p \in Rest(id)'
      BY <1>13
    <3>4. Rest(f.anim)' = Rest(id)'
      BY <3>1 DEF Rest
    <3> QED
      BY <1>2, <2>2, <3>1, <3>2, <3>3, <3>4 DEF FrameOk
  <2>3. CASE f = Show(e)
    BY <1>9, <2>3 DEF FrameOk
  <2>4. CASE ~anim'[id].complete /\ f = Complete(id)
    <3>1. id \notin DOMAIN called
      BY <1>1, <1>3 DEF CalledInv
    <3> QED
      BY <1>2, <1>9, <2>4, <3>1 DEF FrameOk
  <2>5. CASE anim'[id].complete /\ \E p \in c.props : f = Custom(id, p)
    BY <2>2, <2>5
  <2> QED
    BY <1>7, <2>1, <2>3, <2>4, <2>5
<1>17. CalledInv'
  BY <1>1, <1>2, <1>3 DEF CalledInv
<1> QED
  BY <1>14, <1>15, <1>16, <1>17 DEF TimesInv

\* What is below the first step of a property.
LEMMA BelowCustom ==
  ASSUME StepInv, stack # <<>>, Me.k = "custom"
  PROVE  \A g \in Among(Tail(stack)) :
           /\ g \in Among(stack) /\ g.k \notin {"stop", "complete", "tick"} /\ g # Me
           /\ g.k = "custom" => g.anim = Me.anim /\ g.prop # Me.prop
<1>1. \A g \in Among(Tail(stack)) : Over(Me, g, anim)
  BY OrderTail DEF StepInv, Types, Me
<1>2. Among(stack) = {Me} \cup Among(Tail(stack)) /\ Me \in Frame /\ Tail(stack) \in Seq(Frame)
  BY Tails
<1>3. \A g \in Among(Tail(stack)) : g \in Frame
  BY <1>2 DEF Among
<1>4. \A g \in Among(Tail(stack)) : g.k = "custom" => g.anim = Me.anim /\ g.prop # Me.prop
  <2> TAKE g \in Among(Tail(stack))
  <2> HAVE g.k = "custom"
  <2>1. g # Me /\ g.anim = Me.anim
    BY <1>1 DEF Over
  <2>2. g = Custom(g.anim, g.prop) /\ Me = Custom(Me.anim, Me.prop)
    BY <1>2, <1>3, FrameIs
  <2> QED
    BY <2>1, <2>2
<1> QED
  BY <1>1, <1>2, <1>4 DEF Over

LEMMA CustomEnds ==
  ASSUME StepInv, stack # <<>>, NEW a, NEW p, Me = Custom(a, p),
         AnimEnds(a, p), UNCHANGED <<timers, called, count>>,
         stack' = CallFrames(a) \o Tail(stack)
  PROVE  TimesInv'
<1>1. Types /\ AnimInv /\ TimerInv /\ FrameInv /\ CalledInv
  BY DEF StepInv
<1>2. Me.k = "custom" /\ Me.anim = a /\ Me.prop = p
  BY DEF Custom
<1>3. Me \in Frame /\ Me \in Among(stack) /\ Among(stack) = {Me} \cup Among(Tail(stack))
  BY <1>1, Top
<1>4. /\ a \in DOMAIN anim /\ anim[a].complete /\ p \in Rest(a)
      /\ TimerOf(a, p) \notin Among(timers)
  BY <1>1, <1>2, <1>3 DEF FrameInv, FrameOk
<1>5. /\ DOMAIN anim' = DOMAIN anim
      /\ \A x \in DOMAIN anim : x # a => anim'[x] = anim[x]
      /\ anim'[a].elem = anim[a].elem
      /\ anim'[a].props = anim[a].props /\ anim'[a].done = anim[a].done \cup {p}
      /\ anim'[a].complete <=> anim[a].complete /\ ~Finished(anim'[a])
  BY DEF AnimEnds
<1>6. \A g \in Among(Tail(stack)) :
        /\ g \in Among(stack) /\ g.k \notin {"stop", "complete", "tick"} /\ g # Me
        /\ g.k = "custom" => g.anim = a /\ g.prop # p
  BY <1>2, BelowCustom
<1>7. \/ Finished(anim'[a]) /\ Among(stack') = {Complete(a)} \cup Among(Tail(stack))
      \/ ~Finished(anim'[a]) /\ Among(stack') = Among(Tail(stack))
  <2>1. a \in Nat
    BY <1>1, <1>4 DEF Types
  <2>2. CASE Finished(anim'[a])
    <3>1. stack' = <<Complete(a)>> \o Tail(stack)
      BY <1>4, <2>2 DEF CallFrames
    <3> QED
      BY <2>1, <2>2, <3>1, Tails, FrameMade
  <2>3. CASE ~Finished(anim'[a])
    <3>1. stack' = <<>> \o Tail(stack)
      BY <2>3 DEF CallFrames
    <3> QED
      BY <1>1, <2>3, <3>1, Quit
  <2> QED
    BY <2>2, <2>3
<1>8. /\ \A x, q : Custom(x, q).k = "custom" /\ Custom(x, q).anim = x /\ Custom(x, q).prop = q
      /\ Complete(a).k = "complete" /\ Complete(a).anim = a
  BY DEF Custom, Complete
<1>9. \A x, q : x # a \/ q # p => (Held(x, q)' <=> Held(x, q))
  <2>1. \A x, q : x # a \/ q # p =>
          (Custom(x, q) \in Among(stack') <=> Custom(x, q) \in Among(stack))
    BY <1>2, <1>3, <1>7, <1>8
  <2> QED
    BY <2>1 DEF Held
<1>10. (\A x : ~Stopping(x)) /\ (\A j : ~AtEnd(j))
  BY <1>2 DEF Stopping, AtEnd, Running, Me
<1>11. Live(a)
  <2>1. Held(a, p)
    BY <1>3 DEF Held
  <2> QED
    BY <1>4, <2>1 DEF Live
<1>12. \A q \in Rest(a) : Held(a, q)
  BY <1>1, <1>4, <1>10, <1>11 DEF AnimInv
<1>13. AnimInv'
  <2> SUFFICES ASSUME NEW x \in DOMAIN anim
               PROVE  /\ x \in 1 .. count
                      /\ anim'[x].complete => ~Finished(anim'[x])
                      /\ Live(x)' => \A q \in Rest(x)' : Held(x, q)'
    BY <1>5 DEF AnimInv
  <2>1. /\ x \in 1 .. count /\ (anim[x].complete => ~Finished(anim[x]))
        /\ Live(x) => \A q \in Rest(x) : Held(x, q)
    BY <1>1, <1>10 DEF AnimInv
  <2>2. CASE x # a
    <3>1. anim'[x] = anim[x]
      BY <1>5, <2>2
    <3>2. Rest(x)' = Rest(x)
      BY <3>1 DEF Rest
    <3>3. Live(x)' <=> Live(x)
      BY <1>9, <2>2, <3>1, <3>2 DEF Live
    <3> QED
      BY <1>9, <2>1, <2>2, <3>1, <3>2, <3>3
  <2>3. CASE x = a
    <3>1. Rest(a)' = Rest(a) \ {p}
      BY <1>5 DEF Rest
    <3> QED
      BY <1>5, <1>9, <1>12, <2>1, <2>3, <3>1
  <2> QED
    BY <2>2, <2>3
<1>14. TimerInv'
  <2> SUFFICES ASSUME NEW j \in 1 .. Len(timers)
               PROVE  LET t == timers[j]  b == anim'[t.anim] IN
                 /\ t.anim \in DOMAIN anim /\ t.prop \in b.props
                 /\ b.complete \/ Finished(b)
                 /\ t.prop \in b.done => Finished(b)
    BY <1>1, <1>5 DEF TimerInv
  <2>1. LET t == timers[j]  b == anim[t.anim] IN
                 /\ t.anim \in DOMAIN anim /\ t.prop \in b.props
                 /\ b.complete \/ Finished(b)
                 /\ t.prop \in b.done => Finished(b)
    BY <1>1, <1>10 DEF TimerInv
  <2>2. CASE timers[j].anim # a
    BY <1>5, <2>1, <2>2
  <2>3. CASE timers[j].anim = a
    <3>1. timers[j].prop # p
      <4>1. timers[j] \in Timer /\ timers[j] \in Among(timers)
        BY <1>1 DEF Types, Among
      <4>2. timers[j] = TimerOf(timers[j].anim, timers[j].prop)
        BY <4>1 DEF Timer, TimerOf
      <4> QED
        BY <1>4, <2>3, <4>1, <4>2
    <3>2. ~Finished(anim[a])
      BY <1>1, <1>4 DEF AnimInv
    <3> QED
      BY <1>4, <1>5, <2>1, <2>3, <3>1, <3>2
  <2> QED
    BY <2>2, <2>3
<1>15. FrameInv'
  <2>1. a \notin DOMAIN called
    BY <1>1, <1>4 DEF CalledInv
  <2>2. \A x \in DOMAIN anim : (~anim[x].complete => ~anim'[x].complete) /\ anim[x].done \subseteq anim'[x].done
    BY <1>5
  <2>3. \A j \in 1 .. Len(timers) : timers[j].anim \in DOMAIN anim
    BY <1>1 DEF TimerInv
  <2> SUFFICES ASSUME NEW f \in Among(stack')
               PROVE  FrameOk(f)'
    BY DEF FrameInv
  <2>4. CASE f \in Among(Tail(stack))
    <3>1. FrameOk(f) /\ f.k # "stop" /\ f.k # "complete"
      BY <1>1, <1>6, <2>4 DEF FrameInv
    <3>2. f.k = "stopped" => f.i \in 1 .. Len(timers)
      <4>1. f \in Frame /\ Len(timers) \in Nat
        BY <1>1, <1>6, <2>4 DEF Types, Among
      <4> QED
        BY <3>1, <4>1, FrameIs DEF FrameOk
    <3>3. f.k = "custom" => anim'[f.anim].complete /\ f.prop \in Rest(f.anim)'
      <4> SUFFICES ASSUME f.k = "custom" PROVE anim'[f.anim].complete /\ f.prop \in Rest(f.anim)'
        OBVIOUS
      <4>1. f.anim = a /\ f.prop # p
        BY <1>6, <2>4
      <4>2. f.prop \in anim[a].props /\ f.prop \notin anim[a].done
        BY <3>1, <4>1 DEF Rest, FrameOk
      <4>3. ~Finished(anim'[a])
        BY <1>5, <4>1, <4>2 DEF Finished
      <4>4. f.prop \in anim'[a].props \ anim'[a].done
        BY <1>5, <4>1, <4>2
      <4> QED
        BY <1>4, <1>5, <4>1, <4>3, <4>4 DEF Rest
    <3> QED
      BY <1>5, <2>2, <2>3, <3>1, <3>2, <3>3 DEF FrameOk
  <2>5. CASE Finished(anim'[a]) /\ f = Complete(a)
    BY <1>4, <1>5, <1>8, <2>1, <2>5 DEF FrameOk
  <2> QED
    BY <1>7, <2>4, <2>5
<1>16. CalledInv'
  BY <1>1, <1>5 DEF CalledInv
<1> QED
  BY <1>13, <1>14, <1>15, <1>16 DEF TimesInv

LEMMA CustomTimed ==
  ASSUME StepInv, stack # <<>>, NEW a, NEW p, Me = Custom(a, p),
         UNCHANGED <<anim, called, count>>, timers' = Append(timers, TimerOf(a, p)),
         stack' = Tail(stack)
  PROVE  TimesInv'
<1>1. Types /\ AnimInv /\ TimerInv /\ FrameInv /\ CalledInv
  BY DEF StepInv
<1>2. Me.k = "custom" /\ Me.anim = a /\ Me.prop = p
  BY DEF Custom
<1>3. Me \in Frame /\ Me \in Among(stack) /\ Among(stack) = {Me} \cup Among(stack')
  BY <1>1, Top
<1>4. /\ a \in DOMAIN anim /\ anim[a].complete /\ p \in Rest(a)
      /\ TimerOf(a, p) \notin Among(timers)
  BY <1>1, <1>2, <1>3 DEF FrameInv, FrameOk
<1>5. \A g \in Among(stack') :
        /\ g \in Among(stack) /\ g.k \notin {"stop", "complete", "tick"} /\ g # Me
        /\ g.k = "custom" => g.anim = a /\ g.prop # p
  BY <1>2, BelowCustom
<1>6. TimerOf(a, p) \in Timer
  BY <1>1, <1>2, <1>3, FrameIs DEF Timer, TimerOf
<1>7. /\ timers' \in Seq(Timer) /\ Len(timers) \in Nat /\ Len(timers') = Len(timers) + 1
      /\ timers'[Len(timers) + 1] = TimerOf(a, p) /\ \A j \in 1 .. Len(timers) : timers'[j] = timers[j]
      /\ Among(timers') = {TimerOf(a, p)} \cup Among(timers)
  BY <1>1, <1>6, Appended DEF Types
<1>8. \A x, q : /\ Custom(x, q).k = "custom" /\ Custom(x, q).anim = x /\ Custom(x, q).prop = q
                /\ TimerOf(x, q).anim = x /\ TimerOf(x, q).prop = q
  BY DEF Custom, TimerOf
<1>9. \A x, q : Held(x, q)' <=> Held(x, q)
  BY <1>3, <1>7, <1>8 DEF Held
<1>10. (\A x : ~Stopping(x)) /\ (\A j : ~AtEnd(j))
  BY <1>2 DEF Stopping, AtEnd, Running, Me
<1>11. \A x : Rest(x)' = Rest(x)
  BY DEF Rest
<1>12. AnimInv'
  <2>1. \A x \in DOMAIN anim : Live(x)' <=> Live(x)
    BY <1>9, <1>11 DEF Live
  <2>2. \A x \in DOMAIN anim : Live(x)' => \A q \in Rest(x)' : Held(x, q)'
    BY <1>1, <1>9, <1>10, <1>11, <2>1 DEF AnimInv
  <2> QED
    BY <1>1, <2>2 DEF AnimInv
<1>13. TimerInv'
  <2>1. ASSUME NEW j \in 1 .. Len(timers')
        PROVE  LET t == timers'[j]  b == anim[t.anim] IN
                 /\ t.anim \in DOMAIN anim /\ t.prop \in b.props
                 /\ b.complete \/ Finished(b)
                 /\ t.prop \in b.done => Finished(b)
    <3>1. CASE j \in 1 .. Len(timers)
      <4>1. timers'[j] = timers[j]
        BY <1>7, <3>1
      <4> QED
        BY <1>1, <1>10, <3>1, <4>1 DEF TimerInv
    <3>2. CASE j = Len(timers) + 1
      BY <1>4, <1>7, <1>8, <3>2 DEF Rest
    <3> QED
      BY <1>7, <3>1, <3>2
  <2>2. ASSUME NEW j \in 1 .. Len(timers'), NEW k \in 1 .. Len(timers'), timers'[j] = timers'[k]
        PROVE  j = k
    <3>1. \A m \in 1 .. Len(timers) : timers'[m] \in Among(timers)
      BY <1>7 DEF Among
    <3>2. \A m \in 1 .. Len(timers') : m \in 1 .. Len(timers) \/ m = Len(timers) + 1
      BY <1>7
    <3>3. CASE j \in 1 .. Len(timers) /\ k \in 1 .. Len(timers)
      BY <1>1, <1>7, <2>2, <3>3 DEF TimerInv
    <3> QED
      BY <1>4, <1>7, <2>2, <3>1, <3>2, <3>3
  <2> QED
    BY <2>1, <2>2 DEF TimerInv
<1>14. FrameInv'
  <2> SUFFICES ASSUME NEW f \in Among(stack')
               PROVE  FrameOk(f)'
    BY DEF FrameInv
  <2>1. f \in Among(stack) /\ f.k # "stop"
    BY <1>5
  <2>2. FrameOk(f)
    BY <1>1, <2>1 DEF FrameInv
  <2>3. f.k = "stopped" => f.i \in 1 .. Len(timers)
    <3>1. f \in Frame /\ Len(timers) \in Nat
      BY <1>1, <2>1 DEF Types, Among
    <3> QED
      BY <2>2, <3>1, FrameIs DEF FrameOk
  <2>4. f.k = "stopped" => f.i <= Len(timers') /\ timers'[f.i] = timers[f.i]
    BY <1>7, <2>3
  <2>5. f.k = "custom" => TimerOf(f.anim, f.prop) # TimerOf(a, p)
    BY <1>5, <1>8
  <2> QED
    BY <1>7, <1>11, <2>1, <2>2, <2>4, <2>5 DEF FrameOk
<1>15. CalledInv'
  BY <1>1 DEF CalledInv
<1> QED
  BY <1>12, <1>13, <1>14, <1>15 DEF TimesInv

LEMMA CustomTimes ==
  ASSUME StepInv, CustomStep
  PROVE  TimesInv'
<1>1. stack # <<>> /\ Me.k = "custom" /\ Types
  BY DEF CustomStep, Running, Me, StepInv
<1>2. Me.anim \in DOMAIN anim /\ Me.prop \in anim[Me.anim].props
  BY <1>1, Frames
<1>3. PICK a, p : a = Me.anim /\ p = Me.prop
  OBVIOUS
<1>4. /\ Me = Custom(a, p) /\ UNCHANGED <<called, count>>
      /\ \/ /\ timers' = timers /\ AnimEnds(a, p) /\ stack' = CallFrames(a) \o Tail(stack)
         \/ /\ anim' = anim /\ timers' = Append(timers, TimerOf(a, p)) /\ stack' = Tail(stack)
  BY <1>1, <1>2, <1>3, CustomIs
<1> QED
  BY <1>1, <1>4, CustomEnds, CustomTimed

-----------------------------------------------------------------------------
(***************************************************************************)
(* Entries.                                                                *)
(***************************************************************************)
\* An animation that begins is on top.
LEMMA NoBegins ==
  ASSUME StepInv, stack # <<>>
  PROVE  \A g \in Among(Tail(stack)) : g \in Among(stack) /\ g.k # "begin"
<1>1. \A g \in Among(Tail(stack)) : Over(Me, g, anim)
  BY OrderTail DEF StepInv, Types, Me
<1>2. Among(stack) = {Me} \cup Among(Tail(stack))
  BY Tails
<1> QED
  BY <1>1, <1>2 DEF Over

LEMMA TopAmong ==
  ASSUME NEW s \in Seq(Frame), s # <<>>
  PROVE  Head(s) \in Among(s)
  BY Popped

LEMMA EntryLess ==
  ASSUME StepInv, Types', asked' = asked, count' = count \/ count' = count + 1,
         DOMAIN anim' = DOMAIN anim,
         \A e \in Element : /\ queue'[e] = queue[e] \/ queue'[e] = <<>>
                            /\ hooks'[e] = hooks[e] \/ hooks'[e] = 0,
         sleeping' \subseteq sleeping, ~Running("begin")'
  PROVE  EntryInv'
<1>1. EntryInv /\ Types
  BY DEF StepInv
<1>2. \A e \in Element : Ids(e)' = Ids(e)
  BY DEF Ids
<1>3. \A e \in Element : QueueIds(e)' \subseteq QueueIds(e)
  <2> TAKE e \in Element
  <2>1. CASE queue'[e] = queue[e]
    BY <2>1 DEF QueueIds
  <2>2. CASE queue'[e] = <<>>
    <3>1. Among(queue'[e]) = {}
      BY <2>2 DEF Among
    <3> QED
      BY <3>1 DEF QueueIds
  <2> QED
    BY <2>1, <2>2
<1>4. 1 .. count \subseteq 1 .. count'
  BY <1>1 DEF Types
<1>5. ASSUME NEW e \in Element
      PROVE  /\ Ids(e)' \subseteq 1 .. count'
             /\ QueueIds(e)' \subseteq Ids(e)' \ DOMAIN anim'
             /\ hooks'[e] # 0 => hooks'[e] \in Ids(e)'
             /\ Apart(queue'[e])
  <2>1. /\ Ids(e) \subseteq 1 .. count
        /\ QueueIds(e) \subseteq Ids(e) \ DOMAIN anim
        /\ hooks[e] # 0 => hooks[e] \in Ids(e)
        /\ Apart(queue[e])
    BY <1>1 DEF EntryInv
  <2>2. Apart(queue'[e])
    <3>1. CASE queue'[e] = queue[e]
      BY <2>1, <3>1
    <3>2. CASE queue'[e] = <<>>
      BY <3>2 DEF Apart
    <3> QED
      BY <3>1, <3>2
  <2> QED
    BY <1>2, <1>3, <1>4, <2>1, <2>2
<1>6. \A e, x \in Element : e # x => Ids(e)' \cap Ids(x)' = {}
  BY <1>1, <1>2 DEF EntryInv
<1>7. \A d \in sleeping' : d.id \in Ids(d.elem)' /\ d.id \notin QueueIds(d.elem)' \cup DOMAIN anim'
  <2>1. \A d \in sleeping : d.elem \in Element
    BY <1>1 DEF Types
  <2> QED
    BY <1>1, <1>2, <1>3, <2>1 DEF EntryInv
<1> QED
  BY <1>5, <1>6, <1>7 DEF EntryInv

\* What leaves the entries alone, and begins none.
LEMMA EntrySame ==
  ASSUME StepInv, Ordered', UNCHANGED <<asked, queue, hooks, sleeping>>,
         count' = count \/ count' = count + 1, DOMAIN anim' = DOMAIN anim,
         \A f \in Among(stack') : f.k # "begin"
  PROVE  EntryInv'
<1>1. Types' /\ stack' \in Seq(Frame)
  BY DEF Ordered, Types
<1>2. ~Running("begin")'
  BY <1>1, TopAmong DEF Running
<1> QED
  BY <1>1, <1>2, EntryLess

LEMMA EntryPop ==
  ASSUME StepInv, Ordered', UNCHANGED <<asked, queue, hooks, sleeping>>, count' = count,
         DOMAIN anim' = DOMAIN anim, stack # <<>>, stack' = Tail(stack)
  PROVE  EntryInv'
  BY NoBegins, EntrySame

LEMMA EntryGoesOn ==
  ASSUME StepInv, Ordered', UNCHANGED <<asked, queue, hooks, sleeping>>, count' = count,
         DOMAIN anim' = DOMAIN anim, stack # <<>>, NEW h \in Frame, h.k # "begin",
         stack' = <<h>> \o Tail(stack)
  PROVE  EntryInv'
<1>1. Among(stack') = {h} \cup Among(Tail(stack))
  BY Tails
<1> QED
  BY <1>1, NoBegins, EntrySame

\* A timer comes to its end.
LEMMA EntryEnds ==
  ASSUME StepInv, Ordered', UNCHANGED <<asked, queue, hooks, sleeping>>, count' = count,
         stack # <<>>, Me.k \in {"tick", "stop"}, NEW h \in Frame,
         NEW a \in DOMAIN anim, NEW p, AnimEnds(a, p),
         \/ h.k = "ticked" /\ Me.k = "tick"
         \/ h.k = "stopped" /\ Me.k = "stop" /\ h.elem = Me.elem,
         stack' = (CallFrames(a) \o <<h>>) \o Tail(stack)
  PROVE  EntryInv'
<1>1. Among(stack') \subseteq {Complete(a), h} \cup Among(Tail(stack))
  BY CallsFrames
<1>2. Complete(a).k = "complete" /\ DOMAIN anim' = DOMAIN anim
  BY DEF Complete, AnimEnds
<1> QED
  BY <1>1, <1>2, NoBegins, EntrySame

LEMMA ShowEntries ==
  ASSUME StepInv, ShowStep
  PROVE  EntryInv'
  BY ShowIs, ShowOrder, EntryPop DEF StepInv, entryVars

LEMMA CompleteEntries ==
  ASSUME StepInv, CompleteStep
  PROVE  EntryInv'
<1>1. Types /\ Ordered'
  BY CompleteOrder DEF StepInv
<1> DEFINE a == Me.anim
<1>2. /\ stack # <<>> /\ Me = Complete(a) /\ a \in Nat
      /\ UNCHANGED <<entryVars, anim, count>>
      /\ stack' = <<User(anim[a].elem), Completed(a)>> \o Tail(stack)
  BY <1>1, CompleteIs
<1>3. Me.k = "complete"
  BY <1>2 DEF Complete
<1>4. anim[a].elem \in Element
  BY <1>1, <1>2, <1>3, Frames DEF Types, IsAnim
<1> DEFINE u == User(anim[a].elem)  c == Completed(a)
<1>5. u \in Frame /\ c \in Frame /\ u.k = "user" /\ c.k = "completed"
  BY <1>2, <1>4, FrameMade DEF User, Completed
<1> HIDE DEF u, c
<1>6. PICK t \in Seq(Frame) : t = Tail(stack)
  BY <1>2, Tails
<1>7. Among(<<u, c>> \o t) = {u, c} \cup Among(t)
  BY <1>5, TwoAmong
<1>8. Among(stack') = {u, c} \cup Among(Tail(stack))
  BY <1>2, <1>6, <1>7 DEF u, c
<1> QED
  BY <1>1, <1>2, <1>5, <1>8, NoBegins, EntrySame DEF entryVars

LEMMA CompleteEndsEntries ==
  ASSUME StepInv, CompleteEnds
  PROVE  EntryInv'
<1>1. Types /\ Ordered'
  BY CompleteEndsOrder DEF StepInv
<1>2. stack # <<>> /\ Me.k = "completed"
  BY DEF CompleteEnds, Running, Me
<1>3. Me.anim \in DOMAIN anim
  BY <1>2, Frames
<1>4. /\ anim[Me.anim].elem \in Element /\ UNCHANGED <<entryVars, anim, count>>
      /\ stack' = Tail(stack) \/ stack' = <<Dequeue(anim[Me.anim].elem)>> \o Tail(stack)
  BY <1>1, <1>3, CompleteEndsIs
<1>5. Dequeue(anim[Me.anim].elem) \in Frame /\ Dequeue(anim[Me.anim].elem).k = "dequeue"
  BY <1>4, FrameMade DEF Dequeue
<1> QED
  BY <1>1, <1>2, <1>4, <1>5, EntryPop, EntryGoesOn DEF entryVars

LEMMA IntervalEntries ==
  ASSUME StepInv, NEW due, Interval(due)
  PROVE  EntryInv'
<1>1. Types /\ Ordered'
  BY IntervalOrder DEF StepInv
<1>2. /\ stack' = <<Tick(1)>> /\ UNCHANGED <<entryVars, count>> /\ DOMAIN anim' = DOMAIN anim
  BY <1>1, IntervalIs
<1>3. Tick(1) \in Frame /\ Tick(1).k = "tick"
  BY FrameMade DEF Tick
<1>4. Among(stack') = {Tick(1)}
  BY Zenon, <1>2, <1>3, OrderTop
<1> QED
  BY <1>1, <1>2, <1>3, <1>4, EntrySame DEF entryVars

LEMMA TickEntries ==
  ASSUME StepInv, TickStep
  PROVE  EntryInv'
<1> DEFINE i == Me.i  t == timers[i]
<1>1. TimersOfAnims /\ Types /\ Ordered'
  BY Frames, TickOrder DEF StepInv
<1>2. /\ stack # <<>> /\ Me.k = "tick" /\ i \in Nat \ {0} /\ UNCHANGED <<entryVars, count>>
      /\ \/ anim' = anim /\ stack' = Tail(stack)
         \/ /\ i \in 1 .. Len(timers) /\ AnimEnds(t.anim, t.prop)
            /\ stack' = (CallFrames(t.anim) \o <<Ticked(i, t)>>) \o Tail(stack)
         \/ anim' = anim /\ stack' = <<Tick(i + 1)>> \o Tail(stack)
  BY <1>1, TickIs
<1>3. CASE anim' = anim /\ stack' = Tail(stack)
  BY <1>1, <1>2, <1>3, EntryPop DEF entryVars
<1>4. CASE /\ i \in 1 .. Len(timers) /\ AnimEnds(t.anim, t.prop)
           /\ stack' = (CallFrames(t.anim) \o <<Ticked(i, t)>>) \o Tail(stack)
  <2>1. t \in Timer /\ t.anim \in DOMAIN anim
    BY <1>1, <1>4 DEF Types, TimersOfAnims
  <2>2. Ticked(i, t) \in Frame /\ Ticked(i, t).k = "ticked"
    BY <1>2, <2>1, FrameMade DEF Ticked
  <2> HIDE DEF i, t
  <2> QED
    BY <1>1, <1>2, <1>4, <2>1, <2>2, EntryEnds DEF entryVars
<1>5. CASE anim' = anim /\ stack' = <<Tick(i + 1)>> \o Tail(stack)
  <2>1. Tick(i + 1) \in Frame /\ Tick(i + 1).k = "tick"
    BY <1>2, FrameMade DEF Tick
  <2> QED
    BY <1>1, <1>2, <1>5, <2>1, EntryGoesOn DEF entryVars
<1> QED
  BY <1>2, <1>3, <1>4, <1>5

LEMMA TickGoesOnEntries ==
  ASSUME StepInv, TickGoesOn
  PROVE  EntryInv'
<1>1. Types /\ Ordered'
  BY TickGoesOnOrder DEF StepInv
<1>2. /\ stack # <<>> /\ Me.i \in Nat \ {0} /\ UNCHANGED <<entryVars, anim, count>>
      /\ stack' = <<Tick(Me.i)>> \o Tail(stack) \/ stack' = <<Tick(Me.i + 1)>> \o Tail(stack)
  BY <1>1, TickGoesOnIs
<1>3. \A i \in Nat \ {0} : Tick(i) \in Frame /\ Tick(i).k = "tick"
  BY FrameMade, Zenon DEF Tick
<1>4. PICK i \in Nat \ {0} : stack' = <<Tick(i)>> \o Tail(stack)
  BY SMTT(30), <1>2
<1> QED
  BY <1>1, <1>2, <1>3, <1>4, EntryGoesOn DEF entryVars

LEMMA StopEntries ==
  ASSUME StepInv, StopStep
  PROVE  EntryInv'
<1> DEFINE e == Me.elem  i == Me.i  t == timers[i]
<1>1. TimersOfAnims /\ Types /\ Ordered'
  BY Frames, StopOrder DEF StepInv
<1>2. stack # <<>> /\ Me.k = "stop"
  BY DEF StopStep, Running, Me
<1>3. i <= Len(timers) /\ Len(timers) \in Nat
  BY <1>1, <1>2, Frames DEF Types
<1>4. /\ e \in Element /\ i \in Nat /\ Me.gotoEnd \in BOOLEAN /\ Me.had \in BOOLEAN
      /\ UNCHANGED <<entryVars, count>>
      /\ \/ /\ anim' = anim
            /\ stack' = (IF Me.gotoEnd /\ Me.had THEN <<>> ELSE <<Dequeue(e)>>) \o Tail(stack)
         \/ /\ i \in 1 .. Len(timers) /\ anim' = anim
            /\ \/ stack' = <<Stop(e, Me.gotoEnd, i - 1, Me.had)>> \o Tail(stack)
               \/ stack' = <<Stop(e, FALSE, i - 1, TRUE)>> \o Tail(stack)
         \/ /\ i \in 1 .. Len(timers) /\ AnimEnds(t.anim, t.prop)
            /\ stack' = (CallFrames(t.anim) \o <<Stopped(e, i)>>) \o Tail(stack)
  BY <1>1, <1>3, StopIs
<1>5. CASE /\ anim' = anim
           /\ stack' = (IF Me.gotoEnd /\ Me.had THEN <<>> ELSE <<Dequeue(e)>>) \o Tail(stack)
  <2>1. Dequeue(e) \in Frame /\ Dequeue(e).k = "dequeue"
    BY <1>4, FrameMade DEF Dequeue
  <2>2. stack' = Tail(stack) \/ stack' = <<Dequeue(e)>> \o Tail(stack)
    BY Zenon, <1>1, <1>2, <1>5, Quit
  <2> QED
    BY Zenon, <1>1, <1>2, <1>4, <1>5, <2>1, <2>2, EntryPop, EntryGoesOn DEF entryVars
<1>6. CASE /\ i \in 1 .. Len(timers) /\ anim' = anim
           /\ \/ stack' = <<Stop(e, Me.gotoEnd, i - 1, Me.had)>> \o Tail(stack)
              \/ stack' = <<Stop(e, FALSE, i - 1, TRUE)>> \o Tail(stack)
  <2>1. PICK m : m = i - 1
    OBVIOUS
  <2>2. m \in Nat
    <3>1. i \in 1 .. Len(timers)
      BY Zenon, <1>6
    <3> HIDE DEF i
    <3> QED
      BY <1>3, <2>1, <3>1
  <2>3. \A b, h \in BOOLEAN : Stop(e, b, m, h) \in Frame /\ Stop(e, b, m, h).k = "stop"
    BY Zenon, <1>4, <2>2, FrameMade DEF Stop
  <2>4. PICK b \in BOOLEAN, h \in BOOLEAN : stack' = <<Stop(e, b, m, h)>> \o Tail(stack)
    BY Zenon, <1>4, <1>6, <2>1
  <2> QED
    BY <1>1, <1>2, <1>4, <1>6, <2>3, <2>4, EntryGoesOn DEF entryVars
<1>7. CASE /\ i \in 1 .. Len(timers) /\ AnimEnds(t.anim, t.prop)
           /\ stack' = (CallFrames(t.anim) \o <<Stopped(e, i)>>) \o Tail(stack)
  <2>1. t.anim \in DOMAIN anim
    BY <1>1, <1>7 DEF TimersOfAnims
  <2>2. i \in Nat \ {0}
    <3>1. i \in 1 .. Len(timers)
      BY Zenon, <1>7
    <3> HIDE DEF i
    <3> QED
      BY <1>3, <3>1
  <2>3. Stopped(e, i) \in Frame /\ Stopped(e, i).k = "stopped" /\ Stopped(e, i).elem = Me.elem
    BY <1>4, <2>2, FrameMade DEF Stopped
  <2> HIDE DEF i, t, e
  <2> QED
    BY <1>1, <1>2, <1>4, <1>7, <2>1, <2>3, EntryEnds DEF entryVars
<1> QED
  BY <1>4, <1>5, <1>6, <1>7

LEMMA StopGoesOnEntries ==
  ASSUME StepInv, StopGoesOn
  PROVE  EntryInv'
<1>1. Types /\ Ordered'
  BY StopGoesOnOrder DEF StepInv
<1>2. /\ stack # <<>> /\ Me.elem \in Element /\ Me.i \in Nat \ {0}
      /\ UNCHANGED <<entryVars, anim, count>>
      /\ stack' = <<Stop(Me.elem, TRUE, Me.i - 1, TRUE)>> \o Tail(stack)
  BY <1>1, StopGoesOnIs DEF StepInv
<1>3. PICK m \in Nat : m = Me.i - 1
  BY <1>2
<1>4. Stop(Me.elem, TRUE, m, TRUE) \in Frame /\ Stop(Me.elem, TRUE, m, TRUE).k = "stop"
  BY <1>2, FrameMade DEF Stop
<1> QED
  BY <1>1, <1>2, <1>3, <1>4, EntryGoesOn DEF entryVars

LEMMA CustomEntries ==
  ASSUME StepInv, CustomStep
  PROVE  EntryInv'
<1>1. stack # <<>> /\ Me.k = "custom" /\ Types /\ Ordered'
  BY CustomOrder DEF CustomStep, Running, Me, StepInv
<1>2. Me.anim \in DOMAIN anim /\ Me.prop \in anim[Me.anim].props
  BY <1>1, Frames
<1>3. PICK a, p : a = Me.anim /\ p = Me.prop
  OBVIOUS
<1>4. /\ UNCHANGED <<entryVars, count>>
      /\ \/ AnimEnds(a, p) /\ stack' = CallFrames(a) \o Tail(stack)
         \/ anim' = anim /\ stack' = Tail(stack)
  BY <1>1, <1>2, <1>3, CustomIs
<1>5. a \in Nat
  BY <1>1, <1>2, <1>3 DEF Types
<1>6. Complete(a) \in Frame /\ Complete(a).k = "complete"
  BY <1>5, FrameMade DEF Complete
<1>7. stack' = Tail(stack) \/ stack' = <<Complete(a)>> \o Tail(stack)
  BY <1>1, <1>4, Quit DEF CallFrames
<1>8. DOMAIN anim' = DOMAIN anim
  BY <1>4 DEF AnimEnds
<1> QED
  BY <1>1, <1>4, <1>6, <1>7, <1>8, EntryPop, EntryGoesOn DEF entryVars

LEMMA ReturnsEntries ==
  ASSUME StepInv, Returns
  PROVE  EntryInv'
  BY ReturnsIs, ReturnsOrder, EntryPop DEF StepInv, entryVars

LEMMA ThrowsEntries ==
  ASSUME StepInv, Throws
  PROVE  EntryInv'
<1>1. Types /\ Ordered'
  BY ThrowsOrder DEF StepInv
<1>2. stack' = <<>> /\ UNCHANGED <<entryVars, anim, count>>
  BY <1>1, ThrowsIs
<1>3. Among(<<>>) = {}
  BY DEF Among
<1> QED
  BY <1>1, <1>2, <1>3, EntrySame DEF entryVars

LEMMA NotBegin ==
  ASSUME Ordered', \A f \in Among(stack') : f.k # "begin"
  PROVE  ~Running("begin")'
  BY TopAmong DEF Running, Ordered, Types

\* Where the page or a callback calls, nothing begins.
LEMMA CallNoBegins ==
  ASSUME StepInv, stack # <<>> => Me.k = "user"
  PROVE  \A g \in Among(stack) : g.k # "begin"
<1>1. Among(<<>>) = {}
  BY DEF Among
<1>2. CASE stack # <<>>
  <2>1. Among(stack) = {Me} \cup Among(Tail(stack))
    BY <1>2, Tails
  <2> QED
    BY <1>2, <2>1, NoBegins
<1> QED
  BY <1>1, <1>2

LEMMA DequeueEndsEntries ==
  ASSUME StepInv, DequeueEnds
  PROVE  EntryInv'
<1>1. Types /\ Ordered'
  BY DequeueEndsOrder DEF StepInv
<1>2. /\ stack # <<>> /\ Me.elem \in Element /\ UNCHANGED <<asked, queue, sleeping, anim, count>>
      /\ stack' = Tail(stack) /\ (hooks' = hooks \/ hooks' = [hooks EXCEPT ![Me.elem] = 0])
  BY <1>1, DequeueEndsIs
<1>3. ~Running("begin")'
  BY <1>1, <1>2, NoBegins, NotBegin
<1>4. hooks \in [Element -> Nat]
  BY <1>1 DEF Types
<1>5. \A e \in Element : hooks'[e] = hooks[e] \/ hooks'[e] = 0
  BY <1>2, <1>4
<1> QED
  BY <1>1, <1>2, <1>3, <1>5, EntryLess DEF Ordered

LEMMA ClearQueueEntries ==
  ASSUME StepInv, NEW e \in Element, ClearQueue(e)
  PROVE  EntryInv'
<1>1. Types /\ Ordered'
  BY ClearQueueOrder DEF StepInv
<1>2. /\ stack = <<>> \/ (stack # <<>> /\ Me.k = "user")
      /\ count' = count + 1 /\ UNCHANGED <<asked, sleeping, anim>> /\ stack' = stack
      /\ queue' = [queue EXCEPT ![e] = <<>>] /\ hooks' = [hooks EXCEPT ![e] = 0]
  BY <1>1, ClearQueueIs
<1>3. ~Running("begin")'
  BY <1>1, <1>2, CallNoBegins, NotBegin
<1>4. hooks \in [Element -> Nat] /\ DOMAIN queue = Element
  BY <1>1 DEF Types
<1>5. \A x \in Element : /\ hooks'[x] = hooks[x] \/ hooks'[x] = 0
                         /\ queue'[x] = queue[x] \/ queue'[x] = <<>>
  BY <1>2, <1>4
<1> QED
  BY <1>1, <1>2, <1>3, <1>5, EntryLess DEF Ordered

LEMMA StopNowEntries ==
  ASSUME StepInv, NEW e \in Element, NEW clear \in BOOLEAN, NEW gotoEnd \in BOOLEAN,
         StopFree(e, clear, gotoEnd)
  PROVE  EntryInv'
<1>1. Types /\ Ordered'
  BY StopNowOrder DEF StepInv
<1>2. /\ stack = <<>> \/ (stack # <<>> /\ Me.k = "user")
      /\ count' = count + 1
      /\ stack' = <<Stop(e, gotoEnd, Len(timers), FALSE)>> \o stack
      /\ Becomes(StopBegins(Page, e, clear, gotoEnd))
  BY <1>1, StopNowIs
<1>3. /\ UNCHANGED <<asked, anim>>
      /\ queue' = IF clear THEN [queue EXCEPT ![e] = <<>>] ELSE queue
      /\ hooks' = [hooks EXCEPT ![e] = 0]
      /\ sleeping' = IF clear \/ hooks[e] = 0 THEN sleeping ELSE {s \in sleeping : s.id # hooks[e]}
  BY <1>1, <1>2, StopBeginsIs
<1> DEFINE h == Stop(e, gotoEnd, Len(timers), FALSE)
<1>4. h \in Frame /\ h.k = "stop"
  <2>1. Len(timers) \in Nat
    BY <1>1 DEF Types
  <2> QED
    BY <2>1, FrameMade DEF Stop
<1> HIDE DEF h
<1>5. Among(stack') = {h} \cup Among(stack)
  <2>1. stack \in Seq(Frame) /\ stack' = <<h>> \o stack
    BY <1>1, <1>2 DEF Types, h
  <2> QED
    BY <1>4, <2>1, FramePut
<1>6. ~Running("begin")'
  BY <1>1, <1>2, <1>4, <1>5, CallNoBegins, NotBegin
<1>7. hooks \in [Element -> Nat] /\ DOMAIN queue = Element
  BY <1>1 DEF Types
<1>8. \A x \in Element : /\ hooks'[x] = hooks[x] \/ hooks'[x] = 0
                         /\ queue'[x] = queue[x] \/ queue'[x] = <<>>
  BY <1>3, <1>7
<1>9. sleeping' \subseteq sleeping
  BY <1>3
<1> QED
  BY <1>1, <1>2, <1>3, <1>6, <1>8, <1>9, EntryLess DEF Ordered

LEMMA WakesEntries ==
  ASSUME StepInv, NEW d \in sleeping, Wakes(d)
  PROVE  EntryInv'
<1>1. Types /\ Ordered'
  BY WakesOrder DEF StepInv
<1>2. /\ stack' = <<Dequeue(d.elem)>> /\ sleeping' = sleeping \ {d}
      /\ UNCHANGED <<queue, hooks, asked, anim, count>>
  BY <1>1, WakesIs
<1>3. Dequeue(d.elem) \in Frame /\ Dequeue(d.elem).k = "dequeue"
  BY <1>1, FrameMade DEF Types, Dequeue
<1>4. Among(stack') = {Dequeue(d.elem)}
  BY <1>2, <1>3, OrderTop
<1>5. ~Running("begin")'
  BY <1>1, <1>3, <1>4, NotBegin
<1> QED
  BY <1>1, <1>2, <1>5, EntryLess DEF Ordered

LEMMA SameEntries ==
  ASSUME StepInv, Ordered', stack # <<>> => Me.k = "user", stack' = stack,
         count' = count \/ count' = count + 1, UNCHANGED <<asked, queue, hooks, sleeping, anim>>
  PROVE  EntryInv'
  BY CallNoBegins, EntrySame

LEMMA NowEntries ==
  ASSUME StepInv, NEW e \in Element, NEW shown, ShowOrHideNow(e, shown)
  PROVE  EntryInv'
<1>1. Types /\ Ordered'
  BY NowOrder DEF StepInv
<1>2. stack # <<>> => Me.k = "user"
  BY <1>1, MayIs DEF ShowOrHideNow
<1> QED
  BY <1>1, <1>2, NowIs, SameEntries DEF entryVars

LEMMA PromiseEntries ==
  ASSUME StepInv, NEW s \in SUBSET Element, Promise(s)
  PROVE  EntryInv'
<1>1. Types /\ Ordered'
  BY PromiseOrder DEF StepInv
<1>2. stack # <<>> => Me.k = "user"
  BY <1>1, MayIs DEF Promise
<1>3. UNCHANGED <<entryVars, anim, stack>> /\ count' = count + 1
  BY <1>1, PromiseIs
<1> QED
  BY <1>1, <1>2, <1>3, SameEntries DEF entryVars

LEMMA CheckEntries ==
  ASSUME StepInv, Check
  PROVE  EntryInv'
<1>1. Types /\ Ordered'
  BY CheckOrder DEF StepInv
<1>2. stack = <<>> /\ UNCHANGED <<entryVars, anim, stack, count>>
  BY <1>1, CheckIs
<1> QED
  BY <1>1, <1>2, SameEntries DEF entryVars

LEMMA BeginEntries ==
  ASSUME StepInv, BeginStep
  PROVE  EntryInv'
<1> DEFINE e == Me.elem  c == Me.entry
<1>0. PICK id : id = c.id
  OBVIOUS
<1>1. Types /\ EntryInv /\ Ordered'
  BY Zenon, BeginOrder DEF StepInv
<1>2. /\ stack # <<>> /\ Me.k = "begin" /\ UNCHANGED <<entryVars, count>>
      /\ DOMAIN anim' = DOMAIN anim \cup {id}
  BY <1>0, <1>1, BeginIs
<1>3. /\ \A x \in Element : id \notin QueueIds(x)
      /\ \A d \in sleeping : d.id # id
  BY <1>0, <1>1, <1>2 DEF EntryInv, Running, Me
<1>4. \A f \in Among(stack') : f.k # "begin"
  <2>1. \A f \in Among(stack') :
          \/ f \in Among(Tail(stack)) \/ \E p : f = Custom(id, p)
          \/ f = Show(e) \/ f = Complete(id)
    BY <1>0, BeginFrames
  <2>2. /\ \A p : Custom(id, p).k = "custom"
        /\ Show(e).k = "show" /\ Complete(id).k = "complete"
    BY DEF Custom, Show, Complete
  <2> QED
    BY <1>2, <2>1, <2>2, NoBegins
<1>5. ~Running("begin")'
  BY <1>1, <1>4, NotBegin
<1>6. \A x \in Element : Ids(x)' = Ids(x) /\ QueueIds(x)' = QueueIds(x)
  BY <1>2 DEF Ids, QueueIds, entryVars
<1>7. \A d \in sleeping : d.elem \in Element
  BY <1>1 DEF Types
<1> QED
  BY <1>1, <1>2, <1>3, <1>5, <1>6, <1>7 DEF EntryInv, entryVars

LEMMA StartsFrames ==
  ASSUME StepInv, NEW e \in Element
  PROVE  /\ Starts(e) \o stack \in Seq(Frame)
         /\ InProgress(queue[e]) => Starts(e) \o stack = stack
         /\ ~InProgress(queue[e]) =>
              /\ Starts(e) \o stack = <<Dequeue(e)>> \o stack
              /\ Among(Starts(e) \o stack) = {Dequeue(e)} \cup Among(stack)
<1>1. stack \in Seq(Frame) /\ Dequeue(e) \in Frame
  BY FrameMade DEF StepInv, Types
<1>2. CASE InProgress(queue[e])
  <2>1. <<>> \o stack = stack
    BY <1>1, Nothing0
  <2> QED
    BY <1>1, <1>2, <2>1 DEF Starts
<1>3. CASE ~InProgress(queue[e])
  <2>1. Starts(e) \o stack = <<Dequeue(e)>> \o stack
    BY <1>3 DEF Starts
  <2> QED
    BY <1>1, <1>3, <2>1, FramePut
<1> QED
  BY <1>2, <1>3

LEMMA QueuedEntries ==
  ASSUME StepInv, Ordered', stack # <<>> => Me.k = "user", NEW e \in Element, NEW c \in Queueable,
         c.id = count + 1, count' = count + 1, UNCHANGED <<hooks, sleeping, anim>>,
         queue' = [queue EXCEPT ![e] = Append(queue[e], c)],
         asked' = [asked EXCEPT ![e] = Append(asked[e], c)],
         stack' = Starts(e) \o stack
  PROVE  EntryInv'
<1>1. Types /\ EntryInv /\ AnimInv
  BY DEF StepInv
<1>2. IsEntry(c)
  BY DEF IsEntry, Queueable, AnimEntry
<1>3. ~Running("begin")'
  <2>1. \A f \in Among(stack') : f.k # "begin"
    <3>1. Dequeue(e).k = "dequeue"
      BY DEF Dequeue
    <3> QED
      BY <3>1, StartsFrames, CallNoBegins
  <2> QED
    BY <2>1, NotBegin
<1>4. queue'[e] = Append(queue[e], c) /\ asked'[e] = Append(asked[e], c)
  BY <1>1 DEF Types
<1>5. \A x \in Element : x # e => queue'[x] = queue[x] /\ asked'[x] = asked[x]
  BY <1>1 DEF Types
<1>6. \A x \in Element : x # e => Ids(x)' = Ids(x) /\ QueueIds(x)' = QueueIds(x)
  BY <1>5 DEF Ids, QueueIds
<1>7. Ids(e)' = Ids(e) \cup {count + 1}
  <2> DEFINE s == asked[e]  n == Append(s, c)
  <2>1. s \in Seq(Queueable)
    BY <1>1 DEF Types
  <2> HIDE DEF s
  <2>2. /\ Len(s) \in Nat /\ Len(n) = Len(s) + 1
        /\ n[Len(s) + 1] = c /\ \A j \in 1 .. Len(s) : n[j] = s[j]
    BY <2>1, Appended
  <2> HIDE DEF n
  <2>3. {n[i].id : i \in 1 .. Len(n)} = {s[i].id : i \in 1 .. Len(s)} \cup {c.id}
    <3>1. \A i \in 1 .. Len(n) : i \in 1 .. Len(s) \/ i = Len(s) + 1
      BY <2>2
    <3>2. \A i \in 1 .. Len(s) : i \in 1 .. Len(n)
      BY <2>2
    <3>3. Len(s) + 1 \in 1 .. Len(n)
      BY <2>2
    <3> QED
      BY <2>2, <3>1, <3>2, <3>3
  <2>4. asked'[e] = n
    BY <1>4 DEF n, s
  <2>5. Ids(e)' = {n[i].id : i \in 1 .. Len(n)}
    BY <2>4 DEF Ids
  <2>6. Ids(e) = {s[i].id : i \in 1 .. Len(s)}
    BY DEF Ids, s
  <2> QED
    BY <2>3, <2>5, <2>6
<1> DEFINE q == queue[e]
<1>18. PICK m : m = Append(q, c)
  OBVIOUS
<1>8. /\ Len(q) \in Nat /\ Len(m) = Len(q) + 1
      /\ m[Len(q) + 1] = c /\ \A j \in 1 .. Len(q) : m[j] = q[j]
      /\ Among(m) = {c} \cup Among(q)
  <2>1. q \in Seq(Queueable \cup {Sentinel})
    BY <1>1 DEF Types
  <2> HIDE DEF q
  <2>2. c \in Queueable \cup {Sentinel}
    OBVIOUS
  <2> DEFINE n == Append(q, c)
  <2>3. /\ Len(q) \in Nat /\ Len(n) = Len(q) + 1
        /\ n[Len(q) + 1] = c /\ \A j \in 1 .. Len(q) : n[j] = q[j]
        /\ Among(n) = {c} \cup Among(q)
    BY <2>1, <2>2, Appended
  <2> QED
    BY <1>18, <2>3
<1>9. queue'[e] = m
  BY <1>4, <1>18
<1>10. QueueIds(e)' = QueueIds(e) \cup {count + 1}
  BY <1>2, <1>8, <1>9 DEF QueueIds
<1>11. /\ \A x \in Element : /\ Ids(x) \subseteq 1 .. count
                             /\ QueueIds(x) \subseteq Ids(x) \ DOMAIN anim
                             /\ hooks[x] # 0 => hooks[x] \in Ids(x)
       /\ \A x, y \in Element : x # y => Ids(x) \cap Ids(y) = {}
       /\ \A d \in sleeping : d.id \in Ids(d.elem) /\ d.id \notin QueueIds(d.elem) \cup DOMAIN anim
  BY <1>1 DEF EntryInv
<1>12. count + 1 \notin 1 .. count /\ 1 .. count \subseteq 1 .. count' /\ count + 1 \in 1 .. count'
  BY <1>1 DEF Types
<1>13. count + 1 \notin DOMAIN anim
  BY <1>1, <1>12 DEF AnimInv
<1>14. Apart(m)
  <2> SUFFICES ASSUME NEW i \in 1 .. Len(m), NEW j \in 1 .. Len(m), i < j
               PROVE  IsEntry(m[j]) /\ (IsEntry(m[i]) => m[i].id # m[j].id)
    BY DEF Apart
  <2>1. i \in 1 .. Len(q) /\ m[i] = q[i]
    BY <1>8
  <2>2. CASE j \in 1 .. Len(q)
    <3>1. m[j] = q[j]
      BY <1>8, <2>2
    <3>2. IsEntry(q[j]) /\ (IsEntry(q[i]) => q[i].id # q[j].id)
      BY <1>1, <2>1, <2>2 DEF EntryInv, Apart
    <3> QED
      BY <2>1, <3>1, <3>2
  <2>3. CASE j = Len(q) + 1
    <3>1. m[j] = c
      BY <1>8, <2>3
    <3>2. IsEntry(q[i]) => q[i].id \in 1 .. count
      <4>1. IsEntry(q[i]) => q[i].id \in QueueIds(e)
        BY <2>1 DEF QueueIds, Among
      <4> QED
        BY <1>11, <4>1
    <3> QED
      BY <1>2, <1>12, <2>1, <3>1, <3>2
  <2> QED
    BY <1>8, <2>2, <2>3
<1>15. ASSUME NEW x \in Element
       PROVE  /\ Ids(x)' \subseteq 1 .. count'
              /\ QueueIds(x)' \subseteq Ids(x)' \ DOMAIN anim'
              /\ hooks'[x] # 0 => hooks'[x] \in Ids(x)'
              /\ Apart(queue'[x])
  <2>1. CASE x = e
    <3>1. Ids(e)' \subseteq 1 .. count' /\ QueueIds(e)' \subseteq Ids(e)' \ DOMAIN anim'
          /\ (hooks'[e] # 0 => hooks'[e] \in Ids(e)')
      BY <1>7, <1>10, <1>11, <1>12, <1>13
    <3>2. Apart(queue'[e])
      BY <1>9, <1>14
    <3> QED
      BY <2>1, <3>1, <3>2
  <2>2. CASE x # e
    <3>1. Apart(queue[x])
      BY <1>1 DEF EntryInv
    <3> QED
      BY <1>5, <1>6, <1>11, <1>12, <2>2, <3>1
  <2> QED
    BY <2>1, <2>2
<1>16. \A x, y \in Element : x # y => Ids(x)' \cap Ids(y)' = {}
  <2>1. \A x \in Element : count + 1 \notin Ids(x)
    BY <1>11, <1>12
  <2>2. \A x \in Element : Ids(x)' = IF x = e THEN Ids(e) \cup {count + 1} ELSE Ids(x)
    BY <1>6, <1>7
  <2> QED
    BY <1>11, <2>1, <2>2
<1>17. \A d \in sleeping' : d.id \in Ids(d.elem)' /\ d.id \notin QueueIds(d.elem)' \cup DOMAIN anim'
  <2> SUFFICES ASSUME NEW d \in sleeping
               PROVE  d.id \in Ids(d.elem)' /\ d.id \notin QueueIds(d.elem)' \cup DOMAIN anim'
    OBVIOUS
  <2>1. d.elem \in Element
    BY <1>1 DEF Types
  <2>2. d.id \in Ids(d.elem) /\ d.id \notin QueueIds(d.elem) \cup DOMAIN anim /\ d.id # count + 1
    BY <1>11, <1>12, <2>1
  <2>3. CASE d.elem = e
    <3>1. PICK x : x = d.elem
      OBVIOUS
    <3> QED
      BY <1>7, <1>10, <2>2, <2>3
  <2>4. CASE d.elem # e
    BY <1>6, <2>1, <2>2, <2>4
  <2> QED
    BY <2>3, <2>4
<1> QED
  BY <1>3, <1>15, <1>16, <1>17 DEF EntryInv

LEMMA AnimateEntries ==
  ASSUME StepInv, NEW e \in Element, NEW ch \in Choice, Animate(e, ch)
  PROVE  EntryInv'
<1>1. Types /\ EntryInv /\ AnimInv /\ Ordered'
  BY AnimateOrder DEF StepInv
<1>2. /\ stack # <<>> => Me.k = "user"
      /\ count' = count + 1 /\ UNCHANGED <<hooks, sleeping, anim>>
  BY <1>1, AnimateIs
<1>3. PICK en \in AnimEntry :
           /\ en.id = count + 1
           /\ \/ /\ en.queued
                 /\ queue' = [queue EXCEPT ![e] = Append(queue[e], en)]
                 /\ asked' = [asked EXCEPT ![e] = Append(asked[e], en)]
                 /\ stack' = Starts(e) \o stack
              \/ /\ ~en.queued /\ UNCHANGED <<queue, asked>>
                 /\ stack' = <<Begin(e, en)>> \o stack
  BY <1>1, AnimateIs
<1>4. CASE /\ en.queued
           /\ queue' = [queue EXCEPT ![e] = Append(queue[e], en)]
           /\ asked' = [asked EXCEPT ![e] = Append(asked[e], en)]
           /\ stack' = Starts(e) \o stack
  <2>1. en \in Queueable
    BY <1>4 DEF Queueable
  <2> QED
    BY <1>1, <1>2, <1>3, <1>4, <2>1, QueuedEntries
<1>5. CASE /\ ~en.queued /\ UNCHANGED <<queue, asked>>
           /\ stack' = <<Begin(e, en)>> \o stack
  <2>1. stack \in Seq(Frame) /\ Begin(e, en) \in Frame
    BY <1>1, FrameMade DEF Types
  <2>2. Me' = Begin(e, en)
    BY <1>5, <2>1, FramePut DEF Me
  <2>3. Me'.entry = en /\ Me'.elem = e
    BY <2>2 DEF Begin
  <2>4. count + 1 \notin 1 .. count /\ 1 .. count \subseteq 1 .. count' /\ count + 1 \in 1 .. count'
    BY <1>1, <1>2 DEF Types
  <2>5. \A x \in Element : Ids(x)' = Ids(x) /\ QueueIds(x)' = QueueIds(x)
    BY <1>5 DEF Ids, QueueIds
  <2>6. /\ \A x \in Element : Ids(x) \subseteq 1 .. count /\ QueueIds(x) \subseteq Ids(x)
        /\ \A d \in sleeping : d.elem \in Element /\ d.id \in Ids(d.elem)
    BY <1>1 DEF EntryInv, Types
  <2>7. /\ en.id \in 1 .. count' \ DOMAIN anim
        /\ \A x \in Element : en.id \notin Ids(x) /\ en.id \notin QueueIds(x)
        /\ \A d \in sleeping : d.id # en.id
    BY <1>1, <1>3, <2>4, <2>6 DEF AnimInv
  <2>8. ASSUME NEW x \in Element
        PROVE  /\ Ids(x)' \subseteq 1 .. count'
               /\ QueueIds(x)' \subseteq Ids(x)' \ DOMAIN anim'
               /\ hooks'[x] # 0 => hooks'[x] \in Ids(x)'
               /\ Apart(queue'[x])
    <3>1. /\ QueueIds(x) \subseteq Ids(x) \ DOMAIN anim
          /\ hooks[x] # 0 => hooks[x] \in Ids(x)
          /\ Apart(queue[x])
      BY <1>1 DEF EntryInv
    <3> QED
      BY <1>2, <1>5, <2>4, <2>5, <2>6, <3>1
  <2>9. \A x, y \in Element : x # y => Ids(x)' \cap Ids(y)' = {}
    BY <1>1, <2>5 DEF EntryInv
  <2>10. \A d \in sleeping' : d.id \in Ids(d.elem)' /\ d.id \notin QueueIds(d.elem)' \cup DOMAIN anim'
    BY <1>1, <1>2, <2>5, <2>6 DEF EntryInv
  <2>11. PICK f : f = Me'
    OBVIOUS
  <2>12. f.entry = en /\ f.elem = e
    BY <2>3, <2>11
  <2>13. LET c == f.entry IN
         /\ c.id \in 1 .. count' \ DOMAIN anim' /\ ~c.queued
         /\ ~c.queued => \A x \in Element : c.id \notin Ids(x)'
         /\ \A x \in Element : c.id \notin QueueIds(x)'
         /\ \A d \in sleeping' : d.id # c.id
    BY <1>2, <1>5, <2>5, <2>7, <2>12
  <2> QED
    BY <2>8, <2>9, <2>10, <2>11, <2>13 DEF EntryInv
<1> QED
  BY <1>3, <1>4, <1>5

LEMMA DelayEntries ==
  ASSUME StepInv, NEW e \in Element, Delay(e)
  PROVE  EntryInv'
<1>1. Types /\ Ordered'
  BY DelayOrder DEF StepInv
<1> DEFINE en == [k |-> "delay", id |-> count + 1]
<1>2. /\ stack # <<>> => Me.k = "user"
      /\ count' = count + 1 /\ UNCHANGED <<hooks, sleeping, anim>>
      /\ queue' = [queue EXCEPT ![e] = Append(queue[e], en)]
      /\ asked' = [asked EXCEPT ![e] = Append(asked[e], en)]
      /\ stack' = Starts(e) \o stack
  BY <1>1, DelayIs
<1>3. en \in Queueable /\ en.id = count + 1
  BY <1>1 DEF Queueable, Types
<1> HIDE DEF en
<1> QED
  BY <1>1, <1>2, <1>3, QueuedEntries

IdsOf(q) == {c.id : c \in {x \in Among(q) : IsEntry(x)}}

\* The next entry is taken.
LEMMA RestIs ==
  ASSUME StepInv, NEW e \in Element, After(e) # <<>>
  PROVE  LET rest == After(e)  c == Head(rest)  q == <<Sentinel>> \o Tail(rest) IN
         /\ c.id \in QueueIds(e) /\ Apart(q) /\ IdsOf(q) \subseteq QueueIds(e) \ {c.id}
         /\ q \in Seq(Queueable \cup {Sentinel}) /\ InProgress(q)
<1>1. Types /\ EntryInv
  BY DEF StepInv
<1>2. PICK rest : rest = After(e)
  OBVIOUS
<1>3. rest \in Seq(Queueable) /\ rest # <<>> /\ Head(rest) \in Queueable /\ Tail(rest) \in Seq(Queueable)
  BY <1>2, AfterIs
<1>4. PICK c : c = Head(rest)
  OBVIOUS
<1>5. PICK z : z = queue[e]
  OBVIOUS
<1>6. z \in Seq(Queueable \cup {Sentinel}) /\ Apart(z) /\ Len(z) \in Nat
  BY <1>1, <1>5 DEF Types, EntryInv
<1>7. /\ Len(rest) \in Nat /\ Len(rest) = Len(Tail(rest)) + 1 /\ c = rest[1] /\ Len(Tail(rest)) \in Nat
      /\ \A j \in 1 .. Len(Tail(rest)) : Tail(rest)[j] = rest[j + 1]
      /\ \A j \in 1 .. Len(rest) : rest[j] \in Queueable
  BY <1>3, <1>4, Popped
<1>8. PICK o \in {0, 1} : Len(z) = Len(rest) + o /\ \A j \in 1 .. Len(rest) : rest[j] = z[j + o]
  <2>1. CASE InProgress(z)
    <3>1. z # <<>> /\ rest = Tail(z)
      BY <1>2, <1>5, <2>1 DEF After, InProgress
    <3>2. Len(z) = Len(Tail(z)) + 1 /\ \A j \in 1 .. Len(Tail(z)) : Tail(z)[j] = z[j + 1]
      BY <1>6, <3>1, Popped
    <3> QED
      BY <3>1, <3>2
  <2>2. CASE ~InProgress(z)
    <3>1. rest = z
      BY <1>2, <1>5, <2>2 DEF After
    <3>2. Len(z) = Len(rest) + 0 /\ \A j \in 1 .. Len(rest) : rest[j] = z[j + 0]
      BY <1>6, <3>1
    <3> QED
      BY <3>2
  <2> QED
    BY <2>1, <2>2
<1>9. \A x \in Queueable : IsEntry(x)
  BY DEF Queueable, AnimEntry, IsEntry
<1>10. ASSUME NEW i \in 1 .. Len(rest), NEW j \in 1 .. Len(rest), i < j
       PROVE  IsEntry(rest[i]) /\ IsEntry(rest[j]) /\ rest[i].id # rest[j].id
  <2>1. i + o \in 1 .. Len(z) /\ j + o \in 1 .. Len(z) /\ i + o < j + o
    BY <1>7, <1>8, <1>10
  <2>2. rest[i] = z[i + o] /\ rest[j] = z[j + o]
    BY <1>8
  <2> QED
    BY <1>6, <1>7, <1>9, <2>1, <2>2 DEF Apart
<1>11. ASSUME NEW j \in 1 .. Len(rest) PROVE rest[j].id \in QueueIds(e)
  <2>1. j + o \in 1 .. Len(z) /\ rest[j] = z[j + o]
    BY <1>7, <1>8
  <2>2. rest[j] \in Among(queue[e]) /\ IsEntry(rest[j])
    BY <1>5, <1>7, <1>9, <2>1 DEF Among
  <2> QED
    BY <2>2 DEF QueueIds
<1>12. PICK t : t = Tail(rest)
  OBVIOUS
<1>13. PICK q : q = <<Sentinel>> \o t
  OBVIOUS
<1>14. /\ q \in Seq(Queueable \cup {Sentinel}) /\ Len(q) = Len(rest) /\ q[1] = Sentinel
       /\ q # <<>> /\ Head(q) = Sentinel
       /\ \A j \in 1 .. Len(t) : q[j + 1] = t[j]
  <2>1. PICK S : S = Queueable \cup {Sentinel}
    OBVIOUS
  <2>2. t \in Seq(Queueable) /\ Queueable \subseteq S /\ Sentinel \in S
    BY <1>3, <1>12, <2>1
  <2>3. t \in Seq(S)
    BY <2>2
  <2> DEFINE n == <<Sentinel>> \o t
  <2>4. /\ n \in Seq(S) /\ n # <<>> /\ Len(n) = Len(t) + 1 /\ Head(n) = Sentinel /\ n[1] = Sentinel
        /\ \A j \in 1 .. Len(t) : n[j + 1] = t[j]
    BY <2>2, <2>3, Pushed
  <2> QED
    BY <1>7, <1>12, <1>13, <2>1, <2>4
<1>15. ASSUME NEW j \in 1 .. Len(q), j # 1 PROVE j \in 1 .. Len(rest) /\ q[j] = rest[j]
  <2>1. j - 1 \in 1 .. Len(t) /\ (j - 1) + 1 = j
    BY <1>7, <1>12, <1>14, <1>15
  <2>2. q[j] = t[j - 1]
    BY <1>14, <2>1
  <2>3. t[j - 1] = rest[j]
    BY <1>7, <1>12, <2>1
  <2> QED
    BY <1>14, <2>2, <2>3
<1>16. ~IsEntry(Sentinel)
  BY DEF IsEntry, Sentinel
<1>17. Apart(q)
  <2> SUFFICES ASSUME NEW i \in 1 .. Len(q), NEW j \in 1 .. Len(q), i < j
               PROVE  IsEntry(q[j]) /\ (IsEntry(q[i]) => q[i].id # q[j].id)
    BY DEF Apart
  <2>1. j # 1
    OBVIOUS
  <2>2. q[j] = rest[j] /\ j \in 1 .. Len(rest) /\ i \in 1 .. Len(rest)
    BY <1>14, <1>15, <2>1
  <2>3. CASE i = 1
    BY <1>7, <1>9, <1>14, <1>16, <2>2, <2>3
  <2>4. CASE i # 1
    BY <1>10, <1>15, <2>2, <2>4
  <2> QED
    BY <2>3, <2>4
<1>18. IdsOf(q) \subseteq QueueIds(e) \ {c.id}
  <2> SUFFICES ASSUME NEW x \in Among(q), IsEntry(x) PROVE x.id \in QueueIds(e) \ {c.id}
    BY DEF IdsOf
  <2>1. PICK j \in 1 .. Len(q) : x = q[j]
    BY DEF Among
  <2>2. j # 1
    BY <1>14, <1>16, <2>1
  <2>3. x = rest[j] /\ j \in 1 .. Len(rest)
    BY <1>15, <2>1, <2>2
  <2>4. 1 \in 1 .. Len(rest) /\ 1 < j
    BY <1>7, <2>2, <2>3
  <2>5. x.id # c.id
    BY <1>7, <1>10, <2>3, <2>4
  <2> QED
    BY <1>11, <2>3, <2>5
<1>19. c.id \in QueueIds(e)
  <2>1. 1 \in 1 .. Len(rest)
    BY <1>7
  <2> QED
    BY <1>7, <1>11, <2>1
<1> QED
  BY <1>2, <1>4, <1>12, <1>13, <1>14, <1>17, <1>18, <1>19 DEF InProgress

LEMMA DequeueEntries ==
  ASSUME StepInv, DequeueStep
  PROVE  EntryInv'
<1> DEFINE e == Me.elem  rest == After(e)  q == <<Sentinel>> \o Tail(rest)
<1>1. Types /\ EntryInv /\ Ordered'
  BY DequeueOrder DEF StepInv
<1>2. /\ stack # <<>> /\ Me.k = "dequeue" /\ e \in Element /\ UNCHANGED <<anim, asked, count>>
      /\ \/ /\ stack' = Tail(stack) /\ queue' = [queue EXCEPT ![e] = <<>>]
            /\ hooks' = [hooks EXCEPT ![e] = 0] /\ sleeping' = sleeping
         \/ /\ rest # <<>> /\ queue' = [queue EXCEPT ![e] = q]
            /\ \/ /\ stack' = Tail(stack) /\ hooks' = [hooks EXCEPT ![e] = Head(rest).id]
                  /\ sleeping' = sleeping \cup {[id |-> Head(rest).id, elem |-> e]}
               \/ /\ Head(rest).k # "delay"
                  /\ stack' = <<Begin(e, Head(rest)), Dequeued(e)>> \o Tail(stack)
                  /\ hooks' = [hooks EXCEPT ![e] = 0] /\ sleeping' = sleeping
  BY <1>1, DequeueIs
<1>3. PICK el \in Element : el = e
  BY <1>2
<1>4. CASE /\ stack' = Tail(stack) /\ queue' = [queue EXCEPT ![e] = <<>>]
           /\ hooks' = [hooks EXCEPT ![e] = 0] /\ sleeping' = sleeping
  <2>1. ~Running("begin")'
    BY <1>1, <1>2, <1>4, NoBegins, NotBegin
  <2>2. hooks \in [Element -> Nat] /\ DOMAIN queue = Element
    BY <1>1 DEF Types
  <2>3. \A x \in Element : /\ hooks'[x] = hooks[x] \/ hooks'[x] = 0
                           /\ queue'[x] = queue[x] \/ queue'[x] = <<>>
    BY <1>3, <1>4, <2>2
  <2> QED
    BY <1>1, <1>2, <1>4, <2>1, <2>3, EntryLess DEF Ordered
<1>5. ASSUME rest # <<>>, NEW id, id = Head(rest).id, NEW h \in {0, id},
             queue' = [queue EXCEPT ![e] = q], hooks' = [hooks EXCEPT ![e] = h]
      PROVE  /\ id \in QueueIds(el) /\ id \in Ids(el) /\ id \in 1 .. count /\ id \notin DOMAIN anim
             /\ \A x \in Element : Ids(x)' = Ids(x)
             /\ \A x \in Element : id \notin QueueIds(x)' /\ QueueIds(x)' \subseteq QueueIds(x)
             /\ \A x \in Element :
                  /\ Ids(x)' \subseteq 1 .. count'
                  /\ QueueIds(x)' \subseteq Ids(x)' \ DOMAIN anim'
                  /\ hooks'[x] # 0 => hooks'[x] \in Ids(x)'
                  /\ Apart(queue'[x])
             /\ \A x, y \in Element : x # y => Ids(x)' \cap Ids(y)' = {}
             /\ \A d \in sleeping : d.elem \in Element /\ d.id # id
             /\ \A d \in sleeping : d.id \in Ids(d.elem)' /\ d.id \notin QueueIds(d.elem)' \cup DOMAIN anim'
  <2>1. PICK z : z = q
    OBVIOUS
  <2>2. id \in QueueIds(el) /\ Apart(z) /\ IdsOf(z) \subseteq QueueIds(el) \ {id}
    BY <1>2, <1>3, <1>5, <2>1, RestIs
  <2>3. queue'[el] = z /\ hooks'[el] = h
    BY <1>1, <1>3, <1>5, <2>1 DEF Types
  <2>4. \A x \in Element : x # el => queue'[x] = queue[x] /\ hooks'[x] = hooks[x]
    BY <1>1, <1>3, <1>5 DEF Types
  <2>5. \A x \in Element : x # el => QueueIds(x)' = QueueIds(x)
    BY <2>4 DEF QueueIds
  <2>6. QueueIds(el)' = IdsOf(z)
    BY <2>3 DEF QueueIds, IdsOf
  <2>7. \A x \in Element : Ids(x)' = Ids(x)
    BY <1>2 DEF Ids
  <2>8. /\ \A x \in Element : /\ Ids(x) \subseteq 1 .. count
                              /\ QueueIds(x) \subseteq Ids(x) \ DOMAIN anim
                              /\ hooks[x] # 0 => hooks[x] \in Ids(x)
                              /\ Apart(queue[x])
        /\ \A x, y \in Element : x # y => Ids(x) \cap Ids(y) = {}
        /\ \A d \in sleeping : d.id \in Ids(d.elem) /\ d.id \notin QueueIds(d.elem) \cup DOMAIN anim
    BY <1>1 DEF EntryInv
  <2>9. \A d \in sleeping : d.elem \in Element
    BY <1>1 DEF Types
  <2>10. id \in Ids(el) /\ id \in 1 .. count /\ id \notin DOMAIN anim
    BY <2>2, <2>8
  <2>11. \A x \in Element : id \notin QueueIds(x)' /\ QueueIds(x)' \subseteq QueueIds(x)
    <3> SUFFICES ASSUME NEW x \in Element
                 PROVE  id \notin QueueIds(x)' /\ QueueIds(x)' \subseteq QueueIds(x)
      OBVIOUS
    <3>1. CASE x = el
      BY <2>2, <2>6, <3>1
    <3>2. CASE x # el
      BY <2>5, <2>8, <2>10, <3>2
    <3> QED
      BY <3>1, <3>2
  <2>12. \A d \in sleeping : d.id # id
    <3> TAKE d \in sleeping
    <3>1. CASE d.elem = el
      BY <2>2, <2>8, <3>1
    <3>2. CASE d.elem # el
      BY <2>8, <2>9, <2>10, <3>2
    <3> QED
      BY <3>1, <3>2
  <2>13. ASSUME NEW x \in Element
         PROVE  /\ Ids(x)' \subseteq 1 .. count'
                /\ QueueIds(x)' \subseteq Ids(x)' \ DOMAIN anim'
                /\ hooks'[x] # 0 => hooks'[x] \in Ids(x)'
                /\ Apart(queue'[x])
    <3>1. CASE x = el
      <4>1. Ids(x)' = Ids(x) /\ Ids(x) \subseteq 1 .. count /\ count' = count /\ anim' = anim
        BY <1>2, <2>7, <2>8
      <4>2. hooks'[x] # 0 => hooks'[x] \in Ids(x)
        BY <2>3, <2>10, <3>1
      <4>3. Apart(queue'[x])
        BY <2>2, <2>3, <3>1
      <4>4. QueueIds(x)' \subseteq Ids(x) \ DOMAIN anim
        BY <2>8, <2>11
      <4> QED
        BY <4>1, <4>2, <4>3, <4>4
    <3>2. CASE x # el
      BY <1>2, <2>4, <2>7, <2>8, <2>11, <3>2
    <3> QED
      BY <3>1, <3>2
  <2>14. \A d \in sleeping : d.id \in Ids(d.elem)' /\ d.id \notin QueueIds(d.elem)' \cup DOMAIN anim'
    BY <1>2, <2>7, <2>8, <2>9, <2>11
  <2>15. \A x, y \in Element : x # y => Ids(x)' \cap Ids(y)' = {}
    BY <2>7, <2>8
  <2> QED
    BY <2>2, <2>7, <2>9, <2>10, <2>11, <2>12, <2>13, <2>14, <2>15
<1>6. PICK id : id = Head(rest).id
  OBVIOUS
<1>7. CASE /\ rest # <<>> /\ queue' = [queue EXCEPT ![e] = q]
           /\ stack' = Tail(stack) /\ hooks' = [hooks EXCEPT ![e] = Head(rest).id]
           /\ sleeping' = sleeping \cup {[id |-> Head(rest).id, elem |-> e]}
  <2>1. ~Running("begin")'
    BY <1>1, <1>2, <1>7, NoBegins, NotBegin
  <2>2. /\ id \in Ids(el) /\ id \notin DOMAIN anim
        /\ \A x \in Element : Ids(x)' = Ids(x)
        /\ \A x \in Element : id \notin QueueIds(x)'
        /\ \A x \in Element :
                  /\ Ids(x)' \subseteq 1 .. count'
                  /\ QueueIds(x)' \subseteq Ids(x)' \ DOMAIN anim'
                  /\ hooks'[x] # 0 => hooks'[x] \in Ids(x)'
                  /\ Apart(queue'[x])
        /\ \A x, y \in Element : x # y => Ids(x)' \cap Ids(y)' = {}
        /\ \A d \in sleeping : d.id \in Ids(d.elem)' /\ d.id \notin QueueIds(d.elem)' \cup DOMAIN anim'
    BY <1>5, <1>6, <1>7
  <2>3. PICK n : n = [id |-> id, elem |-> el]
    OBVIOUS
  <2>4. sleeping' = sleeping \cup {n} /\ n.id = id /\ n.elem = el
    BY <1>3, <1>6, <1>7, <2>3
  <2>5. n.id \in Ids(n.elem)' /\ n.id \notin QueueIds(n.elem)' \cup DOMAIN anim'
    BY <1>2, <2>2, <2>4
  <2>6. \A d \in sleeping' : d.id \in Ids(d.elem)' /\ d.id \notin QueueIds(d.elem)' \cup DOMAIN anim'
    BY <2>2, <2>4, <2>5
  <2> QED
    BY <2>1, <2>2, <2>6 DEF EntryInv
<1>8. CASE /\ rest # <<>> /\ queue' = [queue EXCEPT ![e] = q]
           /\ Head(rest).k # "delay"
           /\ stack' = <<Begin(e, Head(rest)), Dequeued(e)>> \o Tail(stack)
           /\ hooks' = [hooks EXCEPT ![e] = 0] /\ sleeping' = sleeping
  <2>1. PICK c : c = Head(rest)
    OBVIOUS
  <2>2. c \in AnimEntry /\ c.queued
    BY <1>2, <1>8, <2>1, AfterIs
  <2>3. Begin(el, c) \in Frame /\ Dequeued(el) \in Frame
    BY <2>2, FrameMade
  <2>4. stack' = <<Begin(el, c), Dequeued(el)>> \o Tail(stack)
    BY <1>3, <1>8, <2>1
  <2>5. Me' = Begin(el, c)
    <3> DEFINE f == Begin(el, c)  g == Dequeued(el)
    <3> HIDE DEF f, g
    <3>1. PICK t \in Seq(Frame) : t = Tail(stack)
      BY <1>2, Tails
    <3>2. Head(<<f, g>> \o t) = f
      BY <2>3, <3>1, TwoPushed DEF f, g
    <3> QED
      BY <2>4, <3>1, <3>2 DEF f, g, Me
  <2>6. PICK f : f = Me'
    OBVIOUS
  <2>7. f.entry = c /\ f.elem = el
    BY <2>5, <2>6 DEF Begin
  <2>8. /\ id \in Ids(el) /\ id \notin DOMAIN anim /\ id \in 1 .. count
        /\ \A x \in Element : Ids(x)' = Ids(x)
        /\ \A x \in Element : id \notin QueueIds(x)'
        /\ \A x \in Element :
                  /\ Ids(x)' \subseteq 1 .. count'
                  /\ QueueIds(x)' \subseteq Ids(x)' \ DOMAIN anim'
                  /\ hooks'[x] # 0 => hooks'[x] \in Ids(x)'
                  /\ Apart(queue'[x])
        /\ \A x, y \in Element : x # y => Ids(x)' \cap Ids(y)' = {}
        /\ \A d \in sleeping : d.id # id
        /\ \A d \in sleeping : d.id \in Ids(d.elem)' /\ d.id \notin QueueIds(d.elem)' \cup DOMAIN anim'
    BY <1>5, <1>6, <1>8
  <2>9. LET k == f.entry IN
         /\ k.id \in 1 .. count' \ DOMAIN anim' /\ k.queued
         /\ k.id \in Ids(f.elem)'
         /\ \A x \in Element : k.id \notin QueueIds(x)'
         /\ \A d \in sleeping' : d.id # k.id
    BY <1>2, <1>6, <1>8, <2>1, <2>2, <2>7, <2>8
  <2> QED
    BY <1>8, <2>6, <2>8, <2>9 DEF EntryInv
<1> QED
  BY Zenon, <1>2, <1>4, <1>7, <1>8

-----------------------------------------------------------------------------
LEMMA Together ==
  ASSUME Ordered', TimesInv', EntryInv'
  PROVE  StepInv'
  BY DEF StepInv, Ordered, TimesInv

LEMMA StepInvKept ==
  ASSUME StepInv, [PlainNext]_vars
  PROVE  StepInv'
<1>1. CASE DequeueStep
  BY <1>1, DequeueOrder, DequeueTimes, DequeueEntries, Together
<1>2. CASE DequeueEnds
  BY <1>2, DequeueEndsOrder, DequeueEndsTimes, DequeueEndsEntries, Together
<1>3. CASE BeginStep
  BY <1>3, BeginOrder, BeginTimes, BeginEntries, Together
<1>4. CASE CustomStep
  BY <1>4, CustomOrder, CustomTimes, CustomEntries, Together
<1>5. CASE ShowStep
  BY <1>5, ShowOrder, ShowTimes, ShowEntries, Together
<1>6. CASE CompleteStep
  BY <1>6, CompleteOrder, CompleteTimes, CompleteEntries, Together
<1>7. CASE CompleteEnds
  BY <1>7, CompleteEndsOrder, CompleteEndsTimes, CompleteEndsEntries, Together
<1>8. CASE TickStep
  BY <1>8, TickOrder, TickTimes, TickEntries, Together
<1>9. CASE TickGoesOn
  BY <1>9, TickGoesOnOrder, TickGoesOnTimes, TickGoesOnEntries, Together
<1>10. CASE StopStep
  BY <1>10, StopOrder, StopTimes, StopEntries, Together
<1>11. CASE StopGoesOn
  BY <1>11, StopGoesOnOrder, StopGoesOnTimes, StopGoesOnEntries, Together
<1>12. CASE Returns
  BY <1>12, ReturnsOrder, ReturnsTimes, ReturnsEntries, Together
<1>13. CASE Throws
  BY <1>13, ThrowsOrder, ThrowsTimes, ThrowsEntries, Together
<1>14. ASSUME Check PROVE StepInv'
  <2>1. UNCHANGED <<timers, anim, called, stack, count>>
    BY <1>14, CheckIs DEF StepInv
  <2> QED
    BY <1>14, <2>1, SameTimes, CheckOrder, CheckEntries, Together
<1>15. ASSUME NEW e \in Element, NEW c \in world.choices, Animate(e, c) PROVE StepInv'
  <2>1. c \in Choice
    BY EffectsAssumption DEF StepInv, Types
  <2> QED
    BY <2>1, <1>15, AnimateOrder, AnimateTimes, AnimateEntries, Together
<1>16. ASSUME NEW e \in Element, Delay(e) PROVE StepInv'
  BY <1>16, DelayOrder, DelayTimes, DelayEntries, Together
<1>17. ASSUME NEW e \in Element, ClearQueue(e) PROVE StepInv'
  <2>1. UNCHANGED <<timers, anim, called, stack>> /\ count' = count + 1
    BY <1>17, ClearQueueIs DEF StepInv
  <2> QED
    BY <1>17, <2>1, SameTimes, ClearQueueOrder, ClearQueueEntries, Together
<1>18. ASSUME NEW e \in Element, NEW clear \in BOOLEAN, NEW gotoEnd \in BOOLEAN, StopFree(e, clear, gotoEnd) PROVE StepInv'
  BY <1>18, StopNowOrder, StopNowTimes, StopNowEntries, Together
<1>19. ASSUME NEW e \in Element, NEW shown, ShowOrHideNow(e, shown) PROVE StepInv'
  <2>1. UNCHANGED <<timers, anim, called, stack>> /\ count' = count + 1
    BY <1>19, NowIs DEF StepInv
  <2> QED
    BY <1>19, <2>1, SameTimes, NowOrder, NowEntries, Together
<1>20. ASSUME NEW s \in SUBSET Element, Promise(s) PROVE StepInv'
  <2>1. UNCHANGED <<timers, anim, called, stack>> /\ count' = count + 1
    BY <1>20, PromiseIs DEF StepInv
  <2> QED
    BY <1>20, <2>1, SameTimes, PromiseOrder, PromiseEntries, Together
<1>21. ASSUME NEW due, Interval(due) PROVE StepInv'
  BY <1>21, IntervalOrder, IntervalTimes, IntervalEntries, Together
<1>22. ASSUME NEW d \in sleeping, Wakes(d) PROVE StepInv'
  BY <1>22, WakesOrder, WakesTimes, WakesEntries, Together
<1>23. CASE UNCHANGED vars
  <2>0. /\ world' = world /\ queue' = queue /\ hooks' = hooks /\ sleeping' = sleeping
        /\ timers' = timers /\ anim' = anim /\ ticking' = ticking /\ mark' = mark
        /\ defer' = defer /\ checks' = checks /\ waits' = waits /\ asked' = asked
        /\ begun' = begun /\ called' = called /\ stuck' = stuck /\ missed' = missed
        /\ threw' = threw /\ count' = count /\ stack' = stack
    BY <1>23 DEF vars
  <2>1. Types'
    BY <2>0 DEF StepInv, Types
  <2>2. Order(stack, anim)'
    BY <2>0 DEF StepInv
  <2>3. CalledInv'
    BY <2>0 DEF StepInv, CalledInv
  <2>4. TimesInv'
    BY <2>0, SameTimes
  <2>5. EntryInv'
    <3>1. /\ \A e : Ids(e)' = Ids(e) /\ QueueIds(e)' = QueueIds(e)
      BY <2>0 DEF Ids, QueueIds
    <3>2. PICK f : f = Me
      OBVIOUS
    <3>3. Me' = f /\ (Running("begin")' <=> Running("begin"))
      BY <2>0, <3>2 DEF Me, Running
    <3> QED
      BY <2>0, <3>1, <3>2, <3>3 DEF StepInv, EntryInv
  <2> QED
    BY <2>1, <2>2, <2>4, <2>5, Together DEF Ordered
<1> QED
  BY <1>1, <1>2, <1>3, <1>4, <1>5, <1>6, <1>7, <1>8, <1>9, <1>10, <1>11, <1>12, <1>13, <1>14, <1>15, <1>16, <1>17, <1>18, <1>19, <1>20, <1>21, <1>22, <1>23 DEF PlainNext, NoStop, Call, JQuery, ToggleNow

-----------------------------------------------------------------------------
(***************************************************************************)
(* What is under way.                                                      *)
(***************************************************************************)
LEMMA TokensOf ==
  ASSUME StepInv, count' = count \/ count' = count + 1, DOMAIN anim' = DOMAIN anim, NEW e,
         \A a \in DOMAIN anim :
           /\ anim'[a].elem = anim[a].elem /\ anim'[a].queued = anim[a].queued
           /\ anim[a].elem = e => (UnderWay(a)' <=> UnderWay(a)),
         ~Running("begin"), ~Running("begin")'
  PROVE  \A q : Tokens(e, q)' = Tokens(e, q)
<1> TAKE q
<1>1. \A a \in DOMAIN anim : a \in 1 .. count
  BY DEF StepInv, AnimInv
<1>2. count \in Nat
  BY DEF StepInv, Types
<1>3. \A a : IsToken(a, e, q) <=>
             a \in DOMAIN anim /\ anim[a].elem = e /\ anim[a].queued = q /\ UnderWay(a)
  BY DEF IsToken, Begins
<1>4. \A a : IsToken(a, e, q)' <=>
             a \in DOMAIN anim' /\ anim'[a].elem = e /\ anim'[a].queued = q /\ UnderWay(a)'
  BY DEF IsToken, Begins
<1>5. \A a : IsToken(a, e, q)' <=> IsToken(a, e, q)
  BY <1>3, <1>4
<1>6. \A a : IsToken(a, e, q) => a \in 1 .. count
  BY <1>1, <1>3
<1>7. \A a : (a \in 1 .. count' /\ IsToken(a, e, q)') <=> (a \in 1 .. count /\ IsToken(a, e, q))
  BY <1>2, <1>5, <1>6
<1> QED
  BY <1>7 DEF Tokens

LEMMA TokensWhen ==
  ASSUME StepInv, count' = count \/ count' = count + 1, DOMAIN anim' = DOMAIN anim,
         \A a \in DOMAIN anim : /\ anim'[a].elem = anim[a].elem /\ anim'[a].queued = anim[a].queued
                                /\ UnderWay(a)' <=> UnderWay(a),
         ~Running("begin"), ~Running("begin")'
  PROVE  \A e, q : Tokens(e, q)' = Tokens(e, q)
  BY TokensOf

LEMMA SameLive ==
  ASSUME UNCHANGED timers, SameAnims,
         \A a, p : Custom(a, p) \in Among(stack') <=> Custom(a, p) \in Among(stack)
  PROVE  \A a \in DOMAIN anim : Live(a)' <=> Live(a)
<1>1. \A a, p : Held(a, p)' <=> Held(a, p)
  BY DEF Held
<1>2. \A a \in DOMAIN anim : Rest(a)' = Rest(a)
  BY DEF SameAnims, Rest
<1>3. \A a \in DOMAIN anim : anim'[a].complete <=> anim[a].complete
  BY DEF SameAnims
<1> QED
  BY <1>1, <1>2, <1>3 DEF Live

IsPlain(f) == f.k \notin {"begin", "custom", "complete", "completed"}

\* A step that is neither of a beginning, nor of the end of a timer or an animation.
LEMMA TokensPlain ==
  ASSUME StepInv, StepInv', UNCHANGED timers, count' = count \/ count' = count + 1, SameAnims,
         \A f \in Among(stack') : f \in Among(stack) \/ IsPlain(f),
         \A f \in Among(stack) : f \in Among(stack') \/ IsPlain(f),
         \A f \in Among(stack) : f.k # "begin"
  PROVE  \A e, q : Tokens(e, q)' = Tokens(e, q)
<1>1. \A a, p : Custom(a, p) \in Among(stack') <=> Custom(a, p) \in Among(stack)
  BY DEF Custom, IsPlain
<1>2. \A a : /\ Complete(a) \in Among(stack') <=> Complete(a) \in Among(stack)
             /\ Completed(a) \in Among(stack') <=> Completed(a) \in Among(stack)
  BY DEF Complete, Completed, IsPlain
<1>3. \A a \in DOMAIN anim : Live(a)' <=> Live(a)
  BY <1>1, SameLive
<1>4. \A a \in DOMAIN anim : UnderWay(a)' <=> UnderWay(a)
  BY <1>2, <1>3 DEF UnderWay
<1>5. ~Running("begin")
  <2>1. stack # <<>> => Me \in Among(stack)
    BY Frames
  <2> QED
    BY <2>1 DEF Running, Me
<1>6. ~Running("begin")'
  <2>1. \A f \in Among(stack') : f.k # "begin"
    BY DEF IsPlain
  <2> QED
    BY <2>1, NotBegin DEF StepInv, Ordered
<1> QED
  BY <1>4, <1>5, <1>6, TokensWhen DEF SameAnims

LEMMA SameAnim ==
  ASSUME anim' = anim
  PROVE  SameAnims
  BY DEF SameAnims

\* The frame on top goes, or goes on as another one.
LEMMA TokensPop ==
  ASSUME StepInv, StepInv', UNCHANGED timers, count' = count, SameAnims, stack # <<>>,
         IsPlain(Me), stack' = Tail(stack)
  PROVE  \A e, q : Tokens(e, q)' = Tokens(e, q)
<1>1. Among(stack) = {Me} \cup Among(stack')
  BY Tails
<1>2. \A f \in Among(stack) : f.k # "begin"
  BY <1>1, NoBegins DEF IsPlain
<1> QED
  BY <1>1, <1>2, TokensPlain

LEMMA TokensGoOn ==
  ASSUME StepInv, StepInv', UNCHANGED timers, count' = count, SameAnims, stack # <<>>,
         IsPlain(Me), NEW h \in Frame, IsPlain(h), stack' = <<h>> \o Tail(stack)
  PROVE  \A e, q : Tokens(e, q)' = Tokens(e, q)
<1>1. Among(stack) = {Me} \cup Among(Tail(stack)) /\ Among(stack') = {h} \cup Among(Tail(stack))
  BY Tails
<1>2. \A f \in Among(stack) : f.k # "begin"
  BY <1>1, NoBegins DEF IsPlain
<1> QED
  BY <1>1, <1>2, TokensPlain

\* What a page or a callback calls.
LEMMA TokensCall ==
  ASSUME StepInv, StepInv', UNCHANGED timers, count' = count \/ count' = count + 1, SameAnims,
         stack # <<>> => Me.k = "user",
         \/ stack' = stack
         \/ \E h \in Frame : IsPlain(h) /\ stack' = <<h>> \o stack
  PROVE  \A e, q : Tokens(e, q)' = Tokens(e, q)
<1>1. \A f \in Among(stack) : f.k # "begin"
  BY CallNoBegins
<1>2. stack \in Seq(Frame)
  BY DEF StepInv, Types
<1>3. CASE stack' = stack
  BY <1>1, <1>3, TokensPlain
<1>4. CASE \E h \in Frame : IsPlain(h) /\ stack' = <<h>> \o stack
  <2>1. PICK h \in Frame : IsPlain(h) /\ stack' = <<h>> \o stack
    BY <1>4
  <2>2. Among(stack') = {h} \cup Among(stack)
    BY <1>2, <2>1, FramePut
  <2> QED
    BY <1>1, <2>1, <2>2, TokensPlain
<1> QED
  BY <1>3, <1>4

\* A property comes to its end: the animation goes on with the others, or completes.
LEMMA EndsUnderWay ==
  ASSUME StepInv, NEW a \in DOMAIN anim, NEW p \in anim[a].props, AnimEnds(a, p),
         anim[a].complete => p \in Rest(a) /\ Held(a, p) /\ \A q \in Rest(a) : Held(a, q),
         \A x, q : x # a \/ q # p => (Held(x, q)' <=> Held(x, q)),
         \A x : Complete(x) \in Among(stack') <=>
                  Complete(x) \in Among(stack) \/ (x = a /\ Finished(anim'[a]) /\ anim[a].complete),
         \A x : Completed(x) \in Among(stack') <=> Completed(x) \in Among(stack)
  PROVE  \A x \in DOMAIN anim :
           /\ anim'[x].elem = anim[x].elem /\ anim'[x].queued = anim[x].queued
           /\ UnderWay(x)' <=> UnderWay(x)
<1>1. /\ \A x \in DOMAIN anim : x # a => anim'[x] = anim[x]
      /\ anim'[a].elem = anim[a].elem /\ anim'[a].queued = anim[a].queued
      /\ anim'[a].props = anim[a].props /\ anim'[a].done = anim[a].done \cup {p}
      /\ anim'[a].complete <=> anim[a].complete /\ ~Finished(anim'[a])
  BY DEF AnimEnds
<1>2. anim[a].done \subseteq anim[a].props
  BY DEF StepInv, Types, IsAnim
<1>3. ASSUME NEW x \in DOMAIN anim, x # a PROVE UnderWay(x)' <=> UnderWay(x)
  <2>1. Rest(x)' = Rest(x) /\ (anim'[x].complete <=> anim[x].complete)
    BY <1>1, <1>3 DEF Rest
  <2>2. \A q : Held(x, q)' <=> Held(x, q)
    BY <1>3
  <2>3. Live(x)' <=> Live(x)
    BY <2>1, <2>2 DEF Live
  <2> QED
    BY <1>3, <2>3 DEF UnderWay
<1>4. Rest(a)' = Rest(a) \ {p}
  BY <1>1 DEF Rest
<1>5. UnderWay(a)' <=> UnderWay(a)
  <2>1. CASE ~anim[a].complete
    <3>1. ~Live(a) /\ ~Live(a)'
      BY <1>1, <2>1 DEF Live
    <3> QED
      BY <2>1, <3>1 DEF UnderWay
  <2>2. CASE anim[a].complete /\ Finished(anim'[a])
    <3>1. UnderWay(a)'
      BY <2>2 DEF UnderWay
    <3>2. Live(a)
      BY <2>2 DEF Live
    <3> QED
      BY <3>1, <3>2 DEF UnderWay
  <2>3. CASE anim[a].complete /\ ~Finished(anim'[a])
    <3>1. Live(a)
      BY <2>3 DEF Live
    <3>2. PICK q \in anim[a].props : q \notin anim'[a].done
      BY <1>1, <1>2, <2>3 DEF Finished
    <3>3. q \in Rest(a) /\ q # p
      BY <1>1, <3>2 DEF Rest
    <3>4. Held(a, q)' /\ q \in Rest(a)'
      BY <1>4, <2>3, <3>3
    <3>5. Live(a)'
      BY <1>1, <2>3, <3>4 DEF Live
    <3> QED
      BY <3>1, <3>5 DEF UnderWay
  <2> QED
    BY <2>1, <2>2, <2>3
<1> QED
  BY <1>1, <1>3, <1>5

LEMMA TokensEnd ==
  ASSUME StepInv, StepInv', stack # <<>>, Me.k \in {"tick", "stop"}, Me.k = "stop" => Me.gotoEnd,
         NEW i \in 1 .. Len(timers), AnimEnds(timers[i].anim, timers[i].prop),
         UNCHANGED <<timers, count>>, NEW h \in Frame,
         \/ h.k = "ticked" /\ Me.k = "tick"
         \/ h.k = "stopped" /\ Me.k = "stop" /\ h.elem = Me.elem,
         stack' = (CallFrames(timers[i].anim) \o <<h>>) \o Tail(stack)
  PROVE  \A e, q : Tokens(e, q)' = Tokens(e, q)
<1> DEFINE a == timers[i].anim  p == timers[i].prop
<1>1. Types /\ AnimInv /\ TimerInv
  BY DEF StepInv
<1>2. a \in DOMAIN anim /\ p \in anim[a].props /\ (anim[a].complete \/ Finished(anim[a]))
      /\ (p \in anim[a].done => Finished(anim[a]) \/ AtEnd(i)) /\ timers[i] = TimerOf(a, p)
  <2>1. timers[i] \in Timer
    BY <1>1 DEF Types
  <2> QED
    BY <1>1, <2>1 DEF TimerInv, TimerOf, Timer
<1>3. AnimEnds(a, p) /\ DOMAIN anim' = DOMAIN anim
  BY DEF AnimEnds
<1>4. stack' = (CallFrames(a) \o <<h>>) \o Tail(stack)
  OBVIOUS
<1>5. TimerOf(a, p) \in Among(timers)
  BY <1>2 DEF Among
<1> HIDE DEF a, p
<1>6. /\ stack' # <<>>
      /\ \/ /\ Finished(anim'[a]) /\ anim[a].complete
            /\ Me' = Complete(a) /\ Among(stack') = {Complete(a), h} \cup Among(Tail(stack))
         \/ /\ ~(Finished(anim'[a]) /\ anim[a].complete)
            /\ Me' = h /\ Among(stack') = {h} \cup Among(Tail(stack))
  BY <1>2, <1>3, <1>4, CallsFrames
<1>7. Among(stack) = {Me} \cup Among(Tail(stack))
  BY Tails
<1>8. (\A e : ~Stopping(e)) /\ ~AtEnd(i) /\ ~Running("begin")
  BY DEF Stopping, AtEnd, Running, Me
<1>9. \A x, q : /\ Custom(x, q).k = "custom" /\ Complete(x).k = "complete"
                /\ Completed(x).k = "completed"
  BY DEF Custom, Complete, Completed
<1>10. \A x, q : Held(x, q)' <=> Held(x, q)
  <2>1. \A x, q : Custom(x, q) \in Among(stack') <=> Custom(x, q) \in Among(stack)
    BY <1>6, <1>7, <1>9
  <2> QED
    BY <2>1 DEF Held
<1>11. anim[a].complete => p \in Rest(a) /\ Held(a, p) /\ \A q \in Rest(a) : Held(a, q)
  <2> HAVE anim[a].complete
  <2>1. ~Finished(anim[a])
    BY <1>1, <1>2 DEF AnimInv
  <2>2. p \in Rest(a) /\ Held(a, p)
    BY <1>2, <1>5, <1>8, <2>1 DEF Rest, Held
  <2>3. Live(a)
    BY <2>2 DEF Live
  <2> QED
    BY <1>1, <1>2, <1>8, <2>2, <2>3 DEF AnimInv
<1>12. \A x : Complete(x) \in Among(stack') <=>
                Complete(x) \in Among(stack) \/ (x = a /\ Finished(anim'[a]) /\ anim[a].complete)
  <2>1. \A x : Complete(x) = Complete(a) <=> x = a
    BY DEF Complete
  <2>2. \A x : Complete(x) # h /\ Complete(x) # Me
    BY <1>9
  <2> QED
    BY <1>6, <1>7, <2>1, <2>2
<1>13. \A x : Completed(x) \in Among(stack') <=> Completed(x) \in Among(stack)
  <2>1. \A x : Completed(x) # h /\ Completed(x) # Me /\ Completed(x) # Complete(a)
    BY <1>9
  <2> QED
    BY <1>6, <1>7, <2>1
<1>14. ~Running("begin")'
  BY <1>6, <1>9 DEF Running, Me
<1> QED
  BY <1>2, <1>3, <1>8, <1>10, <1>11, <1>12, <1>13, <1>14, EndsUnderWay, TokensWhen

\* The timer at i is removed, whose property has come to its end.
LEMMA TokensGone ==
  ASSUME StepInv, StepInv', stack # <<>>, IsPlain(Me), NEW i \in 1 .. Len(timers),
         timers' = RemoveAt(timers, i), UNCHANGED <<anim, count>>,
         timers[i].prop \in anim[timers[i].anim].done,
         NEW h \in Frame, IsPlain(h), stack' = <<h>> \o Tail(stack)
  PROVE  \A e, q : Tokens(e, q)' = Tokens(e, q)
<1> DEFINE a == timers[i].anim  p == timers[i].prop
<1>1. p \in anim[a].done /\ timers[i] = TimerOf(a, p)
  <2>1. timers[i] \in Timer
    BY DEF StepInv, Types
  <2> QED
    BY <2>1 DEF Timer, TimerOf
<1>2. Among(timers') = Among(timers) \ {timers[i]}
  <2> DEFINE Unlike(s) == \A j, k \in 1 .. Len(s) : s[j] = s[k] => j = k
             Less(s, x, n) == Among(n) = Among(s) \ {s[x]}
  <2>1. ASSUME NEW s \in Seq(Timer), NEW x \in 1 .. Len(s), Unlike(s)
        PROVE  Less(s, x, RemoveAt(s, x))
    BY <2>1, RemovedOne
  <2>2. timers \in Seq(Timer) /\ Unlike(timers)
    BY DEF StepInv, Types, TimerInv
  <2> HIDE DEF Unlike, Less
  <2>3. Less(timers, i, timers')
    BY <2>1, <2>2
  <2> QED
    BY <2>3 DEF Less
<1> HIDE DEF a, p
<1>3. Among(stack) = {Me} \cup Among(Tail(stack)) /\ Among(stack') = {h} \cup Among(Tail(stack))
  BY Tails
<1>4. \A x, q : /\ Custom(x, q).k = "custom" /\ Complete(x).k = "complete"
                /\ Completed(x).k = "completed"
  BY DEF Custom, Complete, Completed
<1>5. \A f : f.k \in {"custom", "complete", "completed"} => (f \in Among(stack') <=> f \in Among(stack))
  BY <1>3 DEF IsPlain
<1>6. \A x : Rest(x)' = Rest(x)
  BY DEF Rest
<1>7. ASSUME NEW x \in DOMAIN anim PROVE Live(x)' <=> Live(x)
  <2>1. \A q \in Rest(x) : TimerOf(x, q) # timers[i]
    <3> TAKE q \in Rest(x)
    <3>1. CASE x = a
      <4>1. q # p
        BY <1>1, <3>1 DEF Rest
      <4> QED
        BY <1>1, <4>1 DEF TimerOf
    <3>2. CASE x # a
      BY <1>1, <3>2 DEF TimerOf
    <3> QED
      BY <3>1, <3>2
  <2>2. \A q \in Rest(x) : Held(x, q)' <=> Held(x, q)
    BY <1>2, <1>4, <1>5, <2>1 DEF Held
  <2> QED
    BY <1>6, <2>2 DEF Live
<1>8. \A x \in DOMAIN anim : UnderWay(x)' <=> UnderWay(x)
  BY <1>4, <1>5, <1>7 DEF UnderWay
<1>9. \A f \in Among(stack') : f.k # "begin"
  BY <1>3, NoBegins DEF IsPlain
<1>10. ~Running("begin") /\ ~Running("begin")'
  <2>1. ~Running("begin")
    BY DEF Running, Me, IsPlain
  <2>2. ~Running("begin")'
    BY <1>9, NotBegin DEF StepInv, Ordered
  <2> QED
    BY <2>1, <2>2
<1> QED
  BY <1>8, <1>10, TokensWhen

\* The callback of an animation is called.
LEMMA CompleteTokens ==
  ASSUME StepInv, StepInv', CompleteStep
  PROVE  \A e, q : Tokens(e, q)' = Tokens(e, q)
<1>1. Types
  BY DEF StepInv
<1>2. PICK a : a = Me.anim
  OBVIOUS
<1>3. /\ stack # <<>> /\ Me = Complete(a) /\ a \in Nat /\ UNCHANGED <<anim, timers, count>>
      /\ stack' = <<User(anim[a].elem), Completed(a)>> \o Tail(stack)
  BY <1>1, <1>2, CompleteIs
<1>4. Me.k = "complete"
  BY <1>3 DEF Complete
<1>5. anim[a].elem \in Element
  BY <1>1, <1>2, <1>3, <1>4, Frames DEF Types, IsAnim
<1> DEFINE u == User(anim[a].elem)  c == Completed(a)
<1>6. u \in Frame /\ c \in Frame /\ u.k = "user" /\ c.k = "completed" /\ c = Completed(a)
  BY <1>3, <1>5, FrameMade DEF User, Completed
<1>7. stack' = <<u, c>> \o Tail(stack)
  BY <1>3
<1> HIDE DEF u, c
<1>8. PICK t \in Seq(Frame) : t = Tail(stack)
  BY <1>3, Tails
<1>9. Among(<<u, c>> \o t) = {u, c} \cup Among(t)
  BY <1>6, TwoAmong
<1>10. Among(stack') = {u, c} \cup Among(Tail(stack)) /\ Among(stack) = {Me} \cup Among(Tail(stack))
  BY <1>3, <1>7, <1>8, <1>9, Tails
<1>11. \A x, q : /\ Custom(x, q).k = "custom" /\ Complete(x).k = "complete" /\ Complete(x).anim = x
                 /\ Completed(x).k = "completed" /\ Completed(x).anim = x
  BY DEF Custom, Complete, Completed
<1>12. \A x, q : Custom(x, q) \in Among(stack') <=> Custom(x, q) \in Among(stack)
  BY <1>4, <1>6, <1>10, <1>11
<1>13. \A x \in DOMAIN anim : Live(x)' <=> Live(x)
  BY <1>3, <1>12, SameLive, SameAnim
<1>14. \A x : x # a => /\ Complete(x) \in Among(stack') <=> Complete(x) \in Among(stack)
                       /\ Completed(x) \in Among(stack') <=> Completed(x) \in Among(stack)
  <2> TAKE x
  <2> HAVE x # a
  <2>1. Complete(x) # u /\ Complete(x) # c /\ Complete(x) # Me
    BY <1>3, <1>6, <1>11
  <2>2. Completed(x) # u /\ Completed(x) # c /\ Completed(x) # Me
    BY <1>4, <1>6, <1>11
  <2> QED
    BY <1>10, <2>1, <2>2
<1>15. \A x \in DOMAIN anim : UnderWay(x)' <=> UnderWay(x)
  <2>1. UnderWay(a) /\ UnderWay(a)'
    BY <1>3, <1>6, <1>10 DEF UnderWay
  <2> QED
    BY <1>13, <1>14, <2>1 DEF UnderWay
<1>16. \A f \in Among(stack') : f.k # "begin"
  BY <1>3, <1>6, <1>10, NoBegins
<1>17. ~Running("begin") /\ ~Running("begin")'
  <2>1. ~Running("begin")
    BY <1>4 DEF Running, Me
  <2>2. ~Running("begin")'
    BY <1>16, NotBegin DEF StepInv, Ordered
  <2> QED
    BY <2>1, <2>2
<1> QED
  BY <1>3, <1>15, <1>17, TokensWhen

\* The first step of a property.
LEMMA CustomTokens ==
  ASSUME StepInv, StepInv', CustomStep
  PROVE  \A e, q : Tokens(e, q)' = Tokens(e, q)
<1>1. stack # <<>> /\ Me.k = "custom" /\ Types /\ AnimInv /\ FrameInv
  BY DEF CustomStep, Running, Me, StepInv
<1>2. Me.anim \in DOMAIN anim /\ Me.prop \in anim[Me.anim].props
  BY <1>1, Frames
<1>3. PICK a, p : a = Me.anim /\ p = Me.prop
  OBVIOUS
<1>4. /\ Me = Custom(a, p) /\ UNCHANGED count /\ a \in DOMAIN anim /\ p \in anim[a].props
      /\ \/ /\ timers' = timers /\ AnimEnds(a, p) /\ stack' = CallFrames(a) \o Tail(stack)
         \/ /\ anim' = anim /\ timers' = Append(timers, TimerOf(a, p)) /\ stack' = Tail(stack)
  BY <1>1, <1>2, <1>3, CustomIs
<1>5. Me \in Frame /\ Me \in Among(stack) /\ Among(stack) = {Me} \cup Among(Tail(stack))
  BY <1>1, Top
<1>6. anim[a].complete /\ p \in Rest(a)
  BY <1>1, <1>3, <1>5 DEF FrameInv, FrameOk
<1>7. \A g \in Among(Tail(stack)) :
        /\ g \in Among(stack) /\ g.k \notin {"stop", "complete", "tick", "begin"} /\ g # Me
  BY <1>1, BelowCustom, NoBegins
<1>8. \A x, q : /\ Custom(x, q).k = "custom" /\ Custom(x, q).anim = x /\ Custom(x, q).prop = q
                /\ Complete(x).k = "complete" /\ Complete(x).anim = x
                /\ Completed(x).k = "completed"
  BY DEF Custom, Complete, Completed
<1>9. ~Running("begin") /\ \A x : ~Stopping(x)
  BY <1>1 DEF Running, Me, Stopping
<1>10. CASE timers' = timers /\ AnimEnds(a, p) /\ stack' = CallFrames(a) \o Tail(stack)
  <2>1. \/ Finished(anim'[a]) /\ Among(stack') = {Complete(a)} \cup Among(Tail(stack))
        \/ ~Finished(anim'[a]) /\ Among(stack') = Among(Tail(stack))
    <3>1. a \in Nat
      BY <1>1, <1>4 DEF Types
    <3>2. CASE Finished(anim'[a])
      <4>1. stack' = <<Complete(a)>> \o Tail(stack)
        BY <1>6, <1>10, <3>2 DEF CallFrames
      <4> QED
        BY <1>1, <3>1, <3>2, <4>1, Tails, FrameMade
    <3>3. CASE ~Finished(anim'[a])
      <4>1. stack' = <<>> \o Tail(stack)
        BY <1>10, <3>3 DEF CallFrames
      <4> QED
        BY <1>1, <3>3, <4>1, Quit
    <3> QED
      BY <3>2, <3>3
  <2>2. \A x, q : x # a \/ q # p => (Held(x, q)' <=> Held(x, q))
    <3>1. \A x, q : x # a \/ q # p =>
            (Custom(x, q) \in Among(stack') <=> Custom(x, q) \in Among(stack))
      BY <1>3, <1>5, <1>8, <2>1
    <3> QED
      BY <1>10, <3>1 DEF Held
  <2>3. Held(a, p)
    BY <1>4, <1>5 DEF Held
  <2>4. \A q \in Rest(a) : Held(a, q)
    <3>1. Live(a)
      BY <1>6, <2>3 DEF Live
    <3> QED
      BY <1>1, <1>4, <1>9, <3>1 DEF AnimInv
  <2>5. \A x : Complete(x) \in Among(stack') <=>
                 Complete(x) \in Among(stack) \/ (x = a /\ Finished(anim'[a]) /\ anim[a].complete)
    <3>1. \A x : Complete(x) = Complete(a) <=> x = a
      BY DEF Complete
    <3>2. \A x : Complete(x) # Me
      BY <1>1, <1>8
    <3> QED
      BY <1>5, <1>6, <2>1, <3>1, <3>2
  <2>6. \A x : Completed(x) \in Among(stack') <=> Completed(x) \in Among(stack)
    <3>1. \A x : Completed(x) # Me /\ Completed(x) # Complete(a)
      BY <1>1, <1>8
    <3> QED
      BY <1>5, <2>1, <3>1
  <2>7. ~Running("begin")'
    <3>1. \A f \in Among(stack') : f.k # "begin"
      BY <1>7, <1>8, <2>1
    <3> QED
      BY <3>1, NotBegin DEF StepInv, Ordered
  <2>8. DOMAIN anim' = DOMAIN anim
    BY <1>10 DEF AnimEnds
  <2>9. \A x \in DOMAIN anim :
           /\ anim'[x].elem = anim[x].elem /\ anim'[x].queued = anim[x].queued
           /\ UnderWay(x)' <=> UnderWay(x)
    BY <1>4, <1>6, <1>10, <2>2, <2>3, <2>4, <2>5, <2>6, EndsUnderWay
  <2> QED
    BY <1>4, <1>9, <2>7, <2>8, <2>9, TokensWhen
<1>11. CASE anim' = anim /\ timers' = Append(timers, TimerOf(a, p)) /\ stack' = Tail(stack)
  <2>1. TimerOf(a, p) \in Timer
    BY <1>1, <1>3, <1>5, FrameIs DEF Timer, TimerOf
  <2>2. Among(timers') = {TimerOf(a, p)} \cup Among(timers)
    BY <1>1, <1>11, <2>1, Appended DEF Types
  <2>3. \A x, q : Held(x, q)' <=> Held(x, q)
    <3>1. \A x, q : x # a \/ q # p =>
            /\ Custom(x, q) \in Among(stack') <=> Custom(x, q) \in Among(stack)
            /\ TimerOf(x, q) \in Among(timers') <=> TimerOf(x, q) \in Among(timers)
      <4>1. \A x, q : x # a \/ q # p => Custom(x, q) # Me /\ TimerOf(x, q) # TimerOf(a, p)
        BY <1>3, <1>8 DEF TimerOf
      <4> QED
        BY <1>5, <1>11, <2>2, <4>1
    <3>2. Held(a, p) /\ Held(a, p)'
      BY <1>4, <1>5, <2>2 DEF Held
    <3> QED
      BY <3>1, <3>2 DEF Held
  <2>4. \A x : Rest(x)' = Rest(x)
    BY <1>11 DEF Rest
  <2>5. \A x \in DOMAIN anim : Live(x)' <=> Live(x)
    BY <1>11, <2>3, <2>4 DEF Live
  <2>6. \A x : /\ Complete(x) \in Among(stack') <=> Complete(x) \in Among(stack)
               /\ Completed(x) \in Among(stack') <=> Completed(x) \in Among(stack)
    BY <1>1, <1>5, <1>8, <1>11
  <2>7. \A x \in DOMAIN anim : UnderWay(x)' <=> UnderWay(x)
    BY <2>5, <2>6 DEF UnderWay
  <2>8. ~Running("begin")'
    <3>1. \A f \in Among(stack') : f.k # "begin"
      BY <1>7, <1>11
    <3> QED
      BY <3>1, NotBegin DEF StepInv, Ordered
  <2> QED
    BY <1>4, <1>9, <1>11, <2>7, <2>8, TokensWhen
<1> QED
  BY <1>4, <1>10, <1>11

\* An animation begins.
LEMMA BeginTokens ==
  ASSUME StepInv, StepInv', BeginStep
  PROVE  \A e, q : Tokens(e, q)' = Tokens(e, q)
<1>0. PICK id, el, qu : id = Me.entry.id /\ el = Me.elem /\ qu = Me.entry.queued
  OBVIOUS
<1> DEFINE c == Me.entry
<1>1. Types /\ AnimInv /\ EntryInv
  BY Zenon DEF StepInv
<1>2. /\ stack # <<>> /\ Me.k = "begin" /\ c \in AnimEntry
      /\ UNCHANGED <<timers, count>>
      /\ DOMAIN anim' = DOMAIN anim \cup {id}
      /\ \A x \in DOMAIN anim : x # id => anim'[x] = anim[x]
      /\ anim'[id].props = c.props /\ anim'[id].done = {}
      /\ anim'[id].elem = el /\ anim'[id].queued = qu
  BY Zenon, <1>0, <1>1, BeginIs
<1>3. id \in 1 .. count /\ id \notin DOMAIN anim
  BY <1>0, <1>1, <1>2 DEF EntryInv, Running, Me
<1>4. IF anim'[id].complete
      THEN \E S \in SUBSET {Show(el)} : Among(stack') =
             {Custom(id, p) : p \in c.props} \cup S \cup Among(Tail(stack))
      ELSE Among(stack') = {Complete(id)} \cup Among(Tail(stack))
  BY <1>0, BeginFrames
<1>5. "opacity" \in c.props
  <2>1. c.props \in PropSets
    BY <1>2 DEF AnimEntry
  <2> QED
    BY <2>1 DEF PropSets, Prop
<1> HIDE DEF c
<1>6. Among(stack) = {Me} \cup Among(Tail(stack)) /\ \A g \in Among(Tail(stack)) : g.k # "begin"
  BY <1>2, Tails, NoBegins
<1>7. \A f : \/ f \in Among(stack') <=> f \in Among(Tail(stack))
             \/ \E p \in c.props : f = Custom(id, p)
             \/ f = Show(el) \/ f = Complete(id)
  BY <1>4
<1>8. \A x, p : /\ Custom(x, p).k = "custom" /\ Custom(x, p).anim = x
                /\ Complete(x).k = "complete" /\ Complete(x).anim = x
                /\ Completed(x).k = "completed" /\ Show(el).k = "show"
  BY DEF Custom, Show, Complete, Completed
<1>9. \A x \in DOMAIN anim :
        /\ \A p : Custom(x, p) \in Among(stack') <=> Custom(x, p) \in Among(stack)
        /\ Complete(x) \in Among(stack') <=> Complete(x) \in Among(stack)
        /\ Completed(x) \in Among(stack') <=> Completed(x) \in Among(stack)
  BY <1>2, <1>3, <1>6, <1>7, <1>8
<1>10. ASSUME NEW x \in DOMAIN anim PROVE UnderWay(x)' <=> UnderWay(x)
  <2>1. anim'[x] = anim[x]
    BY <1>2, <1>3
  <2>2. Rest(x)' = Rest(x)
    BY <2>1 DEF Rest
  <2>3. \A p : Held(x, p)' <=> Held(x, p)
    BY <1>2, <1>9 DEF Held
  <2>4. Live(x)' <=> Live(x)
    BY <2>1, <2>2, <2>3 DEF Live
  <2> QED
    BY <1>9, <2>4 DEF UnderWay
<1>11. UnderWay(id)'
  <2>1. CASE anim'[id].complete
    <3>1. Custom(id, "opacity") \in Among(stack')
      BY <1>4, <1>5, <2>1
    <3>2. "opacity" \in Rest(id)'
      BY <1>2, <1>5 DEF Rest
    <3>3. Live(id)'
      BY <2>1, <3>1, <3>2 DEF Live, Held
    <3> QED
      BY <3>3 DEF UnderWay
  <2>2. CASE ~anim'[id].complete
    BY <1>4, <2>2 DEF UnderWay
  <2> QED
    BY <2>1, <2>2
<1>12. ~Running("begin")'
  <2>1. \A f \in Among(stack') : f.k # "begin"
    BY <1>6, <1>7, <1>8
  <2> QED
    BY <2>1, NotBegin DEF StepInv, Ordered
<1>13. \A x, e, q : Begins(x, e, q) <=> x = id /\ e = el /\ q = qu
  BY <1>0, <1>2 DEF Begins, Running, Me
<1>14. ASSUME NEW x, NEW e, NEW q PROVE IsToken(x, e, q)' <=> IsToken(x, e, q)
  <2>1. ~Begins(x, e, q)'
    BY <1>12 DEF Begins
  <2>2. CASE x = id
    <3>1. IsToken(x, e, q) <=> e = el /\ q = qu
      BY <1>3, <1>13, <2>2 DEF IsToken
    <3>2. IsToken(x, e, q)' <=> e = el /\ q = qu
      BY <1>2, <1>11, <2>1, <2>2 DEF IsToken
    <3> QED
      BY <3>1, <3>2
  <2>3. CASE x # id /\ x \in DOMAIN anim
    <3>1. anim'[x] = anim[x] /\ x \in DOMAIN anim' /\ (UnderWay(x)' <=> UnderWay(x))
      BY <1>2, <1>10, <2>3
    <3> QED
      BY <1>13, <2>1, <2>3, <3>1 DEF IsToken
  <2>4. CASE x # id /\ x \notin DOMAIN anim
    BY <1>2, <1>13, <2>1, <2>4 DEF IsToken
  <2> QED
    BY <2>2, <2>3, <2>4
<1> QED
  BY <1>2, <1>14 DEF Tokens

\* An animation is to begin.
LEMMA TokensBegin ==
  ASSUME StepInv, ~Running("begin"), UNCHANGED <<timers, anim>>,
         count' = count \/ count' = count + 1, NEW el, NEW en, en.id \in 1 .. count',
         stack' # <<>>, Me' = Begin(el, en),
         \A f \in Among(stack') : f \in Among(stack) \/ IsPlain(f) \/ f.k = "begin",
         \A f \in Among(stack) : f \in Among(stack') \/ IsPlain(f)
  PROVE  /\ \A e, q : e # el \/ q # en.queued => Tokens(e, q)' = Tokens(e, q)
         /\ Tokens(el, en.queued)' = Tokens(el, en.queued) \cup {en.id}
<1>1. \A a, p : Custom(a, p) \in Among(stack') <=> Custom(a, p) \in Among(stack)
  BY DEF Custom, IsPlain
<1>2. \A a : /\ Complete(a) \in Among(stack') <=> Complete(a) \in Among(stack)
             /\ Completed(a) \in Among(stack') <=> Completed(a) \in Among(stack)
  BY DEF Complete, Completed, IsPlain
<1>3. \A a \in DOMAIN anim : Live(a)' <=> Live(a)
  BY <1>1, SameLive, SameAnim
<1>4. \A a \in DOMAIN anim : UnderWay(a)' <=> UnderWay(a)
  BY <1>2, <1>3 DEF UnderWay
<1>5. \A a, e, q : ~Begins(a, e, q)
  BY DEF Begins
<1>6. \A a, e, q : Begins(a, e, q)' <=> a = en.id /\ e = el /\ q = en.queued
  <2>1. Me'.k = "begin" /\ Me'.elem = el /\ Me'.entry = en
    BY DEF Begin
  <2>2. Running("begin")'
    BY <2>1 DEF Running, Me
  <2> QED
    BY <2>1, <2>2 DEF Begins
<1>7. \A a, e, q : IsToken(a, e, q)' <=> IsToken(a, e, q) \/ (a = en.id /\ e = el /\ q = en.queued)
  BY <1>4, <1>5, <1>6 DEF IsToken
<1>8. \A a, e, q : IsToken(a, e, q) => a \in 1 .. count
  BY <1>5 DEF IsToken, StepInv, AnimInv
<1>9. count \in Nat /\ 1 .. count \subseteq 1 .. count'
  BY DEF StepInv, Types
<1>10. ASSUME NEW e, NEW q, e # el \/ q # en.queued
       PROVE  Tokens(e, q)' = Tokens(e, q)
  <2>1. \A a : IsToken(a, e, q)' <=> IsToken(a, e, q)
    BY <1>7, <1>10
  <2>2. \A a : (a \in 1 .. count' /\ IsToken(a, e, q)') <=> (a \in 1 .. count /\ IsToken(a, e, q))
    BY <1>8, <1>9, <2>1
  <2> QED
    BY <2>2 DEF Tokens
<1>11. PICK qu : qu = en.queued
  OBVIOUS
<1>12. Tokens(el, qu)' = Tokens(el, qu) \cup {en.id}
  <2>1. \A a : (a \in 1 .. count' /\ IsToken(a, el, qu)') <=>
               (a \in 1 .. count /\ IsToken(a, el, qu)) \/ a = en.id
    BY <1>7, <1>8, <1>9, <1>11
  <2> QED
    BY <2>1 DEF Tokens
<1> QED
  BY <1>10, <1>11, <1>12

LEMMA DequeueTokens ==
  ASSUME StepInv, StepInv', DequeueStep
  PROVE  LET e == Me.elem  rest == After(e) IN
         \/ /\ rest = <<>> \/ (rest # <<>> /\ Head(rest).k = "delay")
            /\ \A x, q : Tokens(x, q)' = Tokens(x, q)
         \/ /\ rest # <<>> /\ Head(rest).k # "delay"
            /\ \A x, q : x # e \/ q # TRUE => Tokens(x, q)' = Tokens(x, q)
            /\ \A x : x = e => Tokens(x, TRUE)' = Tokens(x, TRUE) \cup {Head(rest).id}
<1> DEFINE e == Me.elem  rest == After(e)  c == Head(rest)
<1>1. /\ stack # <<>> /\ Me.k = "dequeue" /\ e \in Element
      /\ UNCHANGED <<timers, anim, count>>
  BY DequeueIs DEF StepInv
<1>2. \/ /\ rest = <<>> \/ (rest # <<>> /\ c.k = "delay")
         /\ stack' = Tail(stack)
      \/ rest # <<>> /\ c.k # "delay" /\ stack' = <<Begin(e, c), Dequeued(e)>> \o Tail(stack)
  BY DequeueIs DEF StepInv
<1>3. rest # <<>> /\ c.k # "delay" => c \in AnimEntry /\ c.queued = TRUE
  BY <1>1, AfterIs
<1>4. rest # <<>> => c.id \in 1 .. count
  <2>1. PICK x \in Element : x = e
    BY <1>1
  <2>2. rest # <<>> => c.id \in QueueIds(x)
    BY <2>1, RestIs
  <2> QED
    BY <2>1, <2>2 DEF StepInv, EntryInv
<1> HIDE DEF e, rest, c
<1>5. CASE (rest = <<>> \/ (rest # <<>> /\ c.k = "delay")) /\ stack' = Tail(stack)
  <2>1. \A x, q : Tokens(x, q)' = Tokens(x, q)
    BY <1>1, <1>5, TokensPop, SameAnim DEF IsPlain
  <2> QED
    BY <1>5, <2>1 DEF e, rest, c
<1>6. CASE rest # <<>> /\ c.k # "delay" /\ stack' = <<Begin(e, c), Dequeued(e)>> \o Tail(stack)
  <2> DEFINE b == Begin(e, c)  d == Dequeued(e)
  <2>1. b \in Frame /\ d \in Frame /\ b.k = "begin" /\ d.k = "dequeued"
    BY <1>1, <1>3, <1>6, FrameMade DEF Begin, Dequeued
  <2> HIDE DEF b, d
  <2>2. Tail(stack) \in Seq(Frame) /\ Among(stack) = {Me} \cup Among(Tail(stack))
    BY <1>1, Tails
  <2>3. stack' = <<b, d>> \o Tail(stack)
    BY <1>6 DEF b, d
  <2>4. Among(stack') = {b, d} \cup Among(Tail(stack)) /\ stack' # <<>> /\ Me' = b
    <3>1. ASSUME NEW u \in Seq(Frame), NEW n, n = <<b, d>> \o u
          PROVE  n # <<>> /\ Head(n) = b /\ Among(n) = {b, d} \cup Among(u)
      <4>1. <<d>> \o u \in Seq(Frame)
        BY <2>1, FramePut
      <4>2. n = <<b>> \o (<<d>> \o u)
        BY <2>1, <3>1, Two
      <4>3. n # <<>> /\ Head(n) = b
        BY <2>1, <4>1, <4>2, FramePushed
      <4> QED
        BY <2>1, <3>1, <4>3, TwoAmong
    <3> QED
      BY <2>2, <2>3, <3>1 DEF Me
  <2>5. ~Running("begin")
    BY <1>1 DEF Running, Me
  <2>6. \A f \in Among(stack') : f \in Among(stack) \/ IsPlain(f) \/ f.k = "begin"
    BY <2>1, <2>2, <2>4 DEF IsPlain
  <2>7. \A f \in Among(stack) : f \in Among(stack') \/ IsPlain(f)
    BY <1>1, <2>2, <2>4 DEF IsPlain
  <2>8. c.id \in 1 .. count'
    BY <1>1, <1>4, <1>6
  <2>9. Me' = Begin(e, c)
    BY <2>4 DEF b
  <2>10. PICK el, en : el = e /\ en = c
    OBVIOUS
  <2>11. /\ \A x, q : x # el \/ q # en.queued => Tokens(x, q)' = Tokens(x, q)
         /\ Tokens(el, en.queued)' = Tokens(el, en.queued) \cup {en.id}
    BY <1>1, <2>4, <2>5, <2>6, <2>7, <2>8, <2>9, <2>10, TokensBegin
  <2>12. en.queued = TRUE
    BY <1>3, <1>6, <2>10
  <2>13. /\ \A x, q : x # e \/ q # TRUE => Tokens(x, q)' = Tokens(x, q)
         /\ Tokens(el, TRUE)' = Tokens(el, TRUE) \cup {en.id}
    BY <2>10, <2>11, <2>12
  <2>14. \A x : x = e => Tokens(x, TRUE)' = Tokens(x, TRUE) \cup {c.id}
    BY <2>10, <2>13
  <2> QED
    BY <1>6, <2>13, <2>14 DEF e, c, rest
<1> QED
  BY <1>2, <1>5, <1>6 DEF e, c, rest

LEMMA DequeueEndsTokens ==
  ASSUME StepInv, StepInv', DequeueEnds
  PROVE  \A e, q : Tokens(e, q)' = Tokens(e, q)
<1>1. /\ stack # <<>> /\ Me.k = "dequeued" /\ stack' = Tail(stack)
      /\ UNCHANGED <<timers, anim, count>>
  BY DequeueEndsIs DEF StepInv
<1> QED
  BY <1>1, TokensPop, SameAnim DEF IsPlain

LEMMA ShowTokens ==
  ASSUME StepInv, StepInv', ShowStep
  PROVE  \A e, q : Tokens(e, q)' = Tokens(e, q)
<1>1. /\ stack # <<>> /\ Me.k = "show" /\ stack' = Tail(stack)
      /\ UNCHANGED <<timers, anim, count>>
  BY ShowIs DEF StepInv
<1> QED
  BY <1>1, TokensPop, SameAnim DEF IsPlain

LEMMA ReturnsTokens ==
  ASSUME StepInv, StepInv', Returns
  PROVE  \A e, q : Tokens(e, q)' = Tokens(e, q)
<1>1. /\ stack # <<>> /\ Me.k = "user" /\ stack' = Tail(stack)
      /\ UNCHANGED <<timers, anim, count>>
  BY ReturnsIs DEF StepInv
<1> QED
  BY <1>1, TokensPop, SameAnim DEF IsPlain

LEMMA IntervalTokens ==
  ASSUME StepInv, StepInv', NEW due, Interval(due)
  PROVE  \A e, q : Tokens(e, q)' = Tokens(e, q)
<1>1. stack = <<>> /\ stack' = <<Tick(1)>> /\ UNCHANGED <<timers, count>> /\ SameAnims
  BY IntervalIs DEF StepInv, SameAnims
<1>2. Tick(1) \in Frame /\ IsPlain(Tick(1))
  BY FrameMade DEF Tick, IsPlain
<1>3. Among(stack') = {Tick(1)} /\ Among(stack) = {}
  <2>1. Among(<<>>) = {}
    BY DEF Among
  <2> QED
    BY <1>1, <1>2, <2>1, OrderTop
<1> QED
  BY <1>1, <1>2, <1>3, TokensPlain

LEMMA WakesTokens ==
  ASSUME StepInv, StepInv', NEW d \in sleeping, Wakes(d)
  PROVE  \A e, q : Tokens(e, q)' = Tokens(e, q)
<1>1. stack = <<>> /\ stack' = <<Dequeue(d.elem)>> /\ UNCHANGED <<timers, anim, count>>
  BY WakesIs DEF StepInv
<1>2. Dequeue(d.elem) \in Frame /\ IsPlain(Dequeue(d.elem))
  <2>1. d.elem \in Element
    BY DEF StepInv, Types
  <2> QED
    BY <2>1, FrameMade DEF Dequeue, IsPlain
<1> DEFINE h == Dequeue(d.elem)
<1> HIDE DEF h
<1>3. Among(stack') = {h} /\ Among(stack) = {}
  <2>1. Among(<<>>) = {}
    BY DEF Among
  <2> QED
    BY <1>1, <1>2, <2>1, OrderTop DEF h
<1>4. IsPlain(h)
  BY <1>2 DEF h
<1> QED
  BY <1>1, <1>3, <1>4, TokensPlain, SameAnim

\* The callback of an animation has returned.
LEMMA CompleteEndsTokens ==
  ASSUME StepInv, StepInv', CompleteEnds
  PROVE  LET b == anim[Me.anim] IN
         \A x, q : IF x = b.elem /\ q = b.queued
                   THEN Me.anim \in Tokens(x, q) /\ Tokens(x, q)' = Tokens(x, q) \ {Me.anim}
                   ELSE Tokens(x, q)' = Tokens(x, q)
<1>1. Types /\ AnimInv /\ FrameInv
  BY DEF StepInv
<1>2. stack # <<>> /\ Me.k = "completed"
  BY DEF CompleteEnds, Running, Me
<1>3. PICK a : a = Me.anim
  OBVIOUS
<1>4. a \in DOMAIN anim
  BY <1>2, <1>3, Frames
<1>5. /\ Me = Completed(a) /\ anim[a].elem \in Element /\ UNCHANGED <<timers, anim, count>>
      /\ stack' = Tail(stack) \/ stack' = <<Dequeue(anim[a].elem)>> \o Tail(stack)
  BY <1>1, <1>3, <1>4, CompleteEndsIs
<1> DEFINE d == Dequeue(anim[a].elem)
<1>6. d \in Frame /\ d.k = "dequeue"
  BY <1>5, FrameMade DEF Dequeue
<1> HIDE DEF d
<1>7. /\ Among(stack) = {Me} \cup Among(Tail(stack)) /\ Me \in Frame
      /\ \/ Among(stack') = Among(Tail(stack))
         \/ Among(stack') = {d} \cup Among(Tail(stack))
  BY <1>2, <1>5, <1>6, Tails DEF d
<1>8. \A x, q : /\ Custom(x, q).k = "custom"
                /\ Complete(x).k = "complete" /\ Complete(x).anim = x
                /\ Completed(x).k = "completed" /\ Completed(x).anim = x
  BY DEF Custom, Complete, Completed
<1>9. Completed(a) \notin Among(stack')
  <2>1. \A g \in Among(Tail(stack)) : Over(Me, g, anim)
    BY <1>1, <1>2, OrderTail DEF StepInv, Types, Me
  <2>2. Completed(a) \notin Among(Tail(stack))
    BY <1>5, <1>8, <2>1 DEF Over
  <2> QED
    BY <1>6, <1>7, <1>8, <2>2
<1>10. Complete(a) \notin Among(stack') /\ ~anim[a].complete
  <2>1. Me \in Among(stack) /\ a \in DOMAIN called /\ ~anim[a].complete
    BY <1>1, <1>2, <1>3, <1>7 DEF FrameInv, FrameOk
  <2>2. Complete(a) \notin Among(stack)
    BY <1>1, <1>8, <2>1 DEF FrameInv, FrameOk
  <2> QED
    BY <1>6, <1>7, <1>8, <2>1, <2>2
<1>11. \A x, q : Custom(x, q) \in Among(stack') <=> Custom(x, q) \in Among(stack)
  BY <1>2, <1>6, <1>7, <1>8
<1>12. \A x \in DOMAIN anim : Live(x)' <=> Live(x)
  BY <1>5, <1>11, SameLive, SameAnim
<1>13. ASSUME NEW x \in DOMAIN anim, x # a PROVE UnderWay(x)' <=> UnderWay(x)
  <2>1. Complete(x) \in Among(stack') <=> Complete(x) \in Among(stack)
    BY <1>2, <1>6, <1>7, <1>8
  <2>2. Completed(x) \in Among(stack') <=> Completed(x) \in Among(stack)
    BY <1>5, <1>6, <1>7, <1>8, <1>13
  <2> QED
    BY <1>12, <2>1, <2>2 DEF UnderWay
<1>14. UnderWay(a) /\ ~UnderWay(a)'
  <2>1. UnderWay(a)
    BY <1>5, <1>7 DEF UnderWay
  <2>2. ~Live(a)'
    BY <1>5, <1>10 DEF Live
  <2> QED
    BY <1>9, <1>10, <2>1, <2>2 DEF UnderWay
<1>15. ~Running("begin") /\ ~Running("begin")'
  <2>1. ~Running("begin")
    BY <1>2 DEF Running, Me
  <2>2. \A f \in Among(stack') : f.k # "begin"
    BY <1>2, <1>6, <1>7, NoBegins
  <2> QED
    BY <2>1, <2>2, NotBegin DEF StepInv, Ordered
<1>16. ASSUME NEW x, NEW e, NEW q
       PROVE  IsToken(x, e, q)' <=> IsToken(x, e, q) /\ x # a
  <2>1. ~Begins(x, e, q) /\ ~Begins(x, e, q)'
    BY <1>15 DEF Begins
  <2>2. CASE x = a
    BY <1>14, <2>1, <2>2 DEF IsToken
  <2>3. CASE x # a /\ x \in DOMAIN anim
    BY <1>5, <1>13, <2>1, <2>3 DEF IsToken
  <2>4. CASE x \notin DOMAIN anim
    BY <1>5, <2>1, <2>4 DEF IsToken
  <2> QED
    BY <2>2, <2>3, <2>4
<1>17. \A e, q : Tokens(e, q)' = Tokens(e, q) \ {a}
  BY <1>5, <1>16 DEF Tokens
<1>18. \A e, q : a \in Tokens(e, q) <=> e = anim[a].elem /\ q = anim[a].queued
  <2>1. a \in 1 .. count
    BY <1>1, <1>4 DEF AnimInv
  <2>2. \A e, q : ~Begins(a, e, q)
    BY <1>15 DEF Begins
  <2>3. \A e, q : IsToken(a, e, q) <=> e = anim[a].elem /\ q = anim[a].queued
    BY <1>4, <1>14, <2>2 DEF IsToken
  <2> QED
    BY <2>1, <2>3 DEF Tokens
<1> QED
  BY <1>3, <1>17, <1>18

LEMMA TickTokens ==
  ASSUME StepInv, StepInv', TickStep
  PROVE  \A e, q : Tokens(e, q)' = Tokens(e, q)
<1>1. TimersOfAnims /\ Types
  BY Frames DEF StepInv
<1>2. PICK i : i = Me.i
  OBVIOUS
<1>3. /\ stack # <<>> /\ Me.k = "tick" /\ i \in Nat \ {0} /\ UNCHANGED <<timers, count>>
      /\ \/ anim' = anim /\ stack' = Tail(stack)
         \/ /\ i \in 1 .. Len(timers) /\ AnimEnds(timers[i].anim, timers[i].prop)
            /\ stack' = (CallFrames(timers[i].anim) \o <<Ticked(i, timers[i])>>) \o Tail(stack)
         \/ anim' = anim /\ stack' = <<Tick(i + 1)>> \o Tail(stack)
  BY <1>1, <1>2, TickIs, ZenonT(30)
<1>4. CASE anim' = anim /\ stack' = Tail(stack)
  BY Zenon, <1>3, <1>4, TokensPop, SameAnim DEF IsPlain
<1>5. CASE /\ i \in 1 .. Len(timers) /\ AnimEnds(timers[i].anim, timers[i].prop)
           /\ stack' = (CallFrames(timers[i].anim) \o <<Ticked(i, timers[i])>>) \o Tail(stack)
  <2>1. timers[i] \in Timer
    BY <1>1, <1>5 DEF Types
  <2>2. Ticked(i, timers[i]) \in Frame /\ Ticked(i, timers[i]).k = "ticked"
    BY <1>3, <2>1, FrameMade DEF Ticked
  <2> QED
    BY Zenon, <1>3, <1>5, <2>2, TokensEnd
<1>6. CASE anim' = anim /\ stack' = <<Tick(i + 1)>> \o Tail(stack)
  <2>1. Tick(i + 1) \in Frame /\ IsPlain(Tick(i + 1))
    BY <1>3, FrameMade DEF Tick, IsPlain
  <2> QED
    BY <1>3, <1>6, <2>1, TokensGoOn, SameAnim DEF IsPlain
<1> QED
  BY <1>3, <1>4, <1>5, <1>6

LEMMA TickGoesOnTokens ==
  ASSUME StepInv, StepInv', TickGoesOn
  PROVE  \A e, q : Tokens(e, q)' = Tokens(e, q)
<1>1. Types /\ FrameInv
  BY DEF StepInv
<1>2. PICK i : i = Me.i
  OBVIOUS
<1>3. /\ stack # <<>> /\ Me.k = "ticked" /\ i \in Nat \ {0} /\ Me.timer \in Timer
      /\ UNCHANGED <<anim, count>>
      /\ \/ /\ i \in 1 .. Len(timers) /\ timers[i] = Me.timer
            /\ timers' = RemoveAt(timers, i) /\ stack' = <<Tick(i)>> \o Tail(stack)
         \/ timers' = timers /\ stack' = <<Tick(i + 1)>> \o Tail(stack)
  BY <1>1, <1>2, TickGoesOnIs
<1>4. Me \in Among(stack)
  BY <1>1, <1>3, Top
<1>5. \A j \in Nat \ {0} : Tick(j) \in Frame /\ IsPlain(Tick(j))
  BY FrameMade, Zenon DEF Tick, IsPlain
<1>6. IsPlain(Me)
  BY <1>3 DEF IsPlain
<1>7. CASE /\ i \in 1 .. Len(timers) /\ timers[i] = Me.timer
           /\ timers' = RemoveAt(timers, i) /\ stack' = <<Tick(i)>> \o Tail(stack)
  <2>1. timers[i].prop \in anim[timers[i].anim].done
    BY <1>1, <1>3, <1>4, <1>7 DEF FrameInv, FrameOk
  <2> QED
    BY <1>3, <1>5, <1>6, <1>7, <2>1, TokensGone
<1>8. CASE timers' = timers /\ stack' = <<Tick(i + 1)>> \o Tail(stack)
  <2>1. i + 1 \in Nat \ {0}
    BY <1>3
  <2> QED
    BY <1>3, <1>5, <1>6, <1>8, <2>1, TokensGoOn, SameAnim
<1> QED
  BY <1>3, <1>7, <1>8

LEMMA StopGoesOnTokens ==
  ASSUME StepInv, StepInv', StopGoesOn
  PROVE  \A e, q : Tokens(e, q)' = Tokens(e, q)
<1>1. Types /\ FrameInv
  BY DEF StepInv
<1>2. PICK i, el : i = Me.i /\ el = Me.elem
  OBVIOUS
<1>3. /\ stack # <<>> /\ Me.k = "stopped" /\ el \in Element /\ i \in Nat \ {0}
      /\ UNCHANGED <<anim, count>>
      /\ timers' = RemoveAt(timers, i) /\ stack' = <<Stop(el, TRUE, i - 1, TRUE)>> \o Tail(stack)
  BY <1>1, <1>2, StopGoesOnIs
<1>4. Me \in Among(stack)
  BY <1>1, <1>3, Top
<1>5. i <= Len(timers) /\ timers[i].prop \in anim[timers[i].anim].done
  BY <1>1, <1>2, <1>3, <1>4 DEF FrameInv, FrameOk
<1>6. i \in 1 .. Len(timers)
  <2>1. Len(timers) \in Nat
    BY <1>1 DEF Types
  <2> QED
    BY <1>3, <1>5, <2>1
<1> DEFINE h == Stop(el, TRUE, i - 1, TRUE)
<1>7. h \in Frame /\ IsPlain(h)
  <2>1. i - 1 \in Nat
    BY <1>3
  <2> QED
    BY <1>3, <2>1, FrameMade DEF Stop, IsPlain
<1> HIDE DEF h
<1> QED
  BY <1>3, <1>5, <1>6, <1>7, TokensGone DEF IsPlain, h

\* A stop has gone through the timers: nothing of the element is under way, but in
\* the midst of a call.
LEMMA StopRests ==
  ASSUME StepInv, stack # <<>>, Me.k = "stop", Me.i = 0, ~Me.gotoEnd \/ ~Me.had
  PROVE  \A e, q : e = Me.elem => Tokens(e, q) = {}
<1>1. Types /\ FrameInv
  BY DEF StepInv
<1>2. Me \in Among(stack) /\ \A g \in Among(stack) : g.k # "custom"
  BY <1>1, Top, NoCustoms
<1>3. \A j \in 1 .. Len(timers) : anim[timers[j].anim].elem # Me.elem
  <2>1. \A j \in 1 .. Len(timers) : 0 < j
    BY <1>1 DEF Types
  <2> QED
    BY <1>1, <1>2, <2>1 DEF FrameInv, FrameOk
<1>4. \A x, q : /\ Custom(x, q).k = "custom"
                /\ Complete(x).k = "complete" /\ Complete(x).anim = x
                /\ Completed(x).k = "completed" /\ Completed(x).anim = x
                /\ TimerOf(x, q).anim = x
  BY DEF Custom, Complete, Completed, TimerOf
<1>5. ASSUME NEW x, anim[x].elem = Me.elem PROVE ~UnderWay(x)
  <2>1. \A p : TimerOf(x, p) \notin Among(timers)
    BY <1>3, <1>4, <1>5 DEF Among
  <2>2. ~Live(x)
    BY <1>2, <1>4, <2>1 DEF Live, Held
  <2>3. /\ \A g \in Among(Tail(stack)) : Over(Me, g, anim)
        /\ Among(stack) = {Me} \cup Among(Tail(stack))
    BY OrderTail, Tails DEF StepInv, Types, Me
  <2>4. Complete(x) \notin Among(stack)
    BY <1>4, <2>3 DEF Over
  <2>5. Completed(x) \notin Among(stack)
    BY <1>4, <1>5, <2>3 DEF Over
  <2> QED
    BY <2>2, <2>4, <2>5 DEF UnderWay
<1>6. \A x, e, q : ~Begins(x, e, q)
  BY DEF Begins, Running, Me
<1>7. \A x, e, q : e = Me.elem => ~IsToken(x, e, q)
  BY <1>5, <1>6 DEF IsToken
<1> QED
  BY <1>7 DEF Tokens

LEMMA TimersLess ==
  ASSUME StepInv, NEW i \in 1 .. Len(timers), timers' = RemoveAt(timers, i)
  PROVE  Among(timers') = Among(timers) \ {timers[i]}
<1> DEFINE Unlike(s) == \A j, k \in 1 .. Len(s) : s[j] = s[k] => j = k
           Less(s, x, n) == Among(n) = Among(s) \ {s[x]}
<1>1. ASSUME NEW s \in Seq(Timer), NEW x \in 1 .. Len(s), Unlike(s)
      PROVE  Less(s, x, RemoveAt(s, x))
  BY <1>1, RemovedOne
<1>2. timers \in Seq(Timer) /\ Unlike(timers)
  BY DEF StepInv, Types, TimerInv
<1> HIDE DEF Unlike, Less
<1>3. Less(timers, i, timers')
  BY Zenon, <1>1, <1>2
<1> QED
  BY <1>3 DEF Less

LEMMA StopTokens ==
  ASSUME StepInv, StepInv', StopStep
  PROVE  \A x, q : x # Me.elem \/ Me.gotoEnd \/ Me.i = 0 => Tokens(x, q)' = Tokens(x, q)
<1>1. TimersOfAnims /\ Types /\ FrameInv
  BY Frames DEF StepInv
<1>2. stack # <<>> /\ Me.k = "stop"
  BY DEF StopStep, Running, Me
<1>3. Me \in Among(stack)
  BY <1>1, <1>2, Top
<1>4. Me.i <= Len(timers)
  BY <1>1, <1>2, <1>3 DEF FrameInv, FrameOk
<1>5. PICK e, i, end, had : e = Me.elem /\ i = Me.i /\ end = Me.gotoEnd /\ had = Me.had
  OBVIOUS
<1>6. /\ e \in Element /\ i \in Nat /\ end \in BOOLEAN /\ had \in BOOLEAN
      /\ UNCHANGED count
      /\ \/ /\ i = 0 /\ UNCHANGED <<timers, anim>>
            /\ stack' = (IF end /\ had THEN <<>> ELSE <<Dequeue(e)>>) \o Tail(stack)
         \/ /\ i \in 1 .. Len(timers) /\ UNCHANGED <<timers, anim>>
            /\ stack' = <<Stop(e, end, i - 1, had)>> \o Tail(stack)
         \/ /\ i \in 1 .. Len(timers) /\ end
            /\ UNCHANGED timers /\ AnimEnds(timers[i].anim, timers[i].prop)
            /\ stack' = (CallFrames(timers[i].anim) \o <<Stopped(e, i)>>) \o Tail(stack)
         \/ /\ i \in 1 .. Len(timers) /\ anim[timers[i].anim].elem = e /\ ~end
            /\ timers' = RemoveAt(timers, i) /\ UNCHANGED anim
            /\ stack' = <<Stop(e, FALSE, i - 1, TRUE)>> \o Tail(stack)
  BY <1>1, <1>4, <1>5, StopIs
<1>7. IsPlain(Me) /\ Len(timers) \in Nat
  BY <1>1, <1>2 DEF IsPlain, Types
<1>8. \A b, h \in BOOLEAN, j \in Nat : Stop(e, b, j, h) \in Frame /\ IsPlain(Stop(e, b, j, h))
  BY <1>6, FrameMade DEF Stop, IsPlain
<1>9. CASE /\ i = 0 /\ UNCHANGED <<timers, anim>>
           /\ stack' = (IF end /\ had THEN <<>> ELSE <<Dequeue(e)>>) \o Tail(stack)
  <2>1. CASE end /\ had
    <3>1. stack' = Tail(stack)
      BY <1>1, <1>2, <1>9, <2>1, Quit
    <3> QED
      BY <1>2, <1>6, <1>7, <1>9, <3>1, TokensPop, SameAnim
  <2>2. CASE ~(end /\ had)
    <3>1. stack' = <<Dequeue(e)>> \o Tail(stack)
      BY <1>9, <2>2
    <3>2. Dequeue(e) \in Frame /\ IsPlain(Dequeue(e))
      BY <1>6, FrameMade DEF Dequeue, IsPlain
    <3> QED
      BY <1>2, <1>6, <1>7, <1>9, <3>1, <3>2, TokensGoOn, SameAnim
  <2> QED
    BY <2>1, <2>2
<1>10. CASE /\ i \in 1 .. Len(timers) /\ UNCHANGED <<timers, anim>>
            /\ stack' = <<Stop(e, end, i - 1, had)>> \o Tail(stack)
  <2>1. i - 1 \in Nat
    BY <1>7, <1>10
  <2>2. Stop(e, end, i - 1, had) \in Frame /\ IsPlain(Stop(e, end, i - 1, had))
    BY <1>6, <1>8, <2>1
  <2> QED
    BY <1>2, <1>6, <1>7, <1>10, <2>2, TokensGoOn, SameAnim
<1>11. CASE /\ i \in 1 .. Len(timers) /\ end
            /\ UNCHANGED timers /\ AnimEnds(timers[i].anim, timers[i].prop)
            /\ stack' = (CallFrames(timers[i].anim) \o <<Stopped(e, i)>>) \o Tail(stack)
  <2>1. i \in Nat \ {0}
    BY <1>7, <1>11
  <2>2. Stopped(e, i) \in Frame /\ Stopped(e, i).k = "stopped" /\ Stopped(e, i).elem = Me.elem
    BY <1>5, <1>6, <2>1, FrameMade DEF Stopped
  <2> QED
    BY <1>2, <1>5, <1>6, <1>11, <2>2, TokensEnd, Zenon
<1>12. CASE /\ i \in 1 .. Len(timers) /\ anim[timers[i].anim].elem = e /\ ~end
            /\ timers' = RemoveAt(timers, i) /\ UNCHANGED anim
            /\ stack' = <<Stop(e, FALSE, i - 1, TRUE)>> \o Tail(stack)
  <2> DEFINE h == Stop(e, FALSE, i - 1, TRUE)
  <2>1. h \in Frame /\ IsPlain(h)
    <3>1. i - 1 \in Nat
      BY <1>7, <1>12
    <3> QED
      BY <1>8, <3>1
  <2>2. stack' = <<h>> \o Tail(stack)
    BY <1>12
  <2> HIDE DEF h
  <2>3. Among(stack) = {Me} \cup Among(Tail(stack)) /\ Among(stack') = {h} \cup Among(Tail(stack))
    BY <1>2, <2>1, <2>2, Tails
  <2>4. Among(timers') = Among(timers) \ {timers[i]}
    BY <1>12, TimersLess
  <2>5. \A f : f.k \in {"custom", "complete", "completed"} =>
          (f \in Among(stack') <=> f \in Among(stack))
    BY <1>7, <2>1, <2>3 DEF IsPlain
  <2>6. \A x, q : /\ Custom(x, q).k = "custom" /\ Complete(x).k = "complete"
                  /\ Completed(x).k = "completed" /\ TimerOf(x, q).anim = x
    BY DEF Custom, Complete, Completed, TimerOf
  <2>7. \A x : Rest(x)' = Rest(x)
    BY <1>12 DEF Rest
  <2>8. ASSUME NEW x \in DOMAIN anim, anim[x].elem # e PROVE UnderWay(x)' <=> UnderWay(x)
    <3>1. \A q : TimerOf(x, q) # timers[i]
      BY <1>12, <2>6, <2>8
    <3>2. \A q : Held(x, q)' <=> Held(x, q)
      BY <2>4, <2>5, <2>6, <3>1 DEF Held
    <3>3. Live(x)' <=> Live(x)
      BY <1>12, <2>7, <3>2 DEF Live
    <3> QED
      BY <2>5, <2>6, <3>3 DEF UnderWay
  <2>9. ~Running("begin") /\ ~Running("begin")'
    <3>1. ~Running("begin")
      BY <1>2 DEF Running, Me
    <3>2. \A f \in Among(stack') : f.k # "begin"
      BY <1>2, <2>1, <2>3, NoBegins DEF IsPlain
    <3> QED
      BY <3>1, <3>2, NotBegin DEF StepInv, Ordered
  <2>10. ASSUME NEW x, x # e PROVE \A q : Tokens(x, q)' = Tokens(x, q)
    BY <1>6, <1>12, <2>8, <2>9, <2>10, TokensOf
  <2> QED
    BY <1>5, <1>12, <2>10
<1> QED
  BY <1>6, <1>9, <1>10, <1>11, <1>12

LEMMA StartsTokens ==
  ASSUME StepInv, StepInv', stack # <<>> => Me.k = "user", NEW e \in Element,
         UNCHANGED <<timers, anim>>, count' = count + 1, stack' = Starts(e) \o stack
  PROVE  \A x, q : Tokens(x, q)' = Tokens(x, q)
<1>1. /\ InProgress(queue[e]) => stack' = stack
      /\ ~InProgress(queue[e]) => stack' = <<Dequeue(e)>> \o stack
  BY StartsFrames
<1>2. Dequeue(e) \in Frame /\ IsPlain(Dequeue(e))
  BY FrameMade DEF Dequeue, IsPlain
<1> QED
  BY <1>1, <1>2, TokensCall, SameAnim

LEMMA AnimateTokens ==
  ASSUME StepInv, StepInv', NEW e \in Element, NEW c \in Choice, Animate(e, c)
  PROVE  \/ /\ mark' = mark /\ stack' = Starts(e) \o stack
            /\ \E en \in Queueable : /\ queue' = [queue EXCEPT ![e] = Append(queue[e], en)]
                                     /\ asked' = [asked EXCEPT ![e] = Append(asked[e], en)]
            /\ \A x, q : Tokens(x, q)' = Tokens(x, q)
         \/ /\ mark' = [mark EXCEPT ![e] = mark[e] + 1] /\ UNCHANGED <<queue, asked>>
            /\ Running("begin")'
            /\ \A x, q : x # e \/ q # FALSE => Tokens(x, q)' = Tokens(x, q)
            /\ Tokens(e, FALSE)' = Tokens(e, FALSE) \cup {count + 1}
            /\ count + 1 \notin Tokens(e, FALSE)
<1>1. Types
  BY DEF StepInv
<1>2. /\ stack # <<>> => Me.k = "user"
      /\ count' = count + 1 /\ UNCHANGED <<timers, anim>>
  BY <1>1, AnimateIs
<1>3. PICK en \in AnimEntry :
           /\ en.id = count + 1
           /\ \/ /\ en.queued /\ mark' = mark
                 /\ queue' = [queue EXCEPT ![e] = Append(queue[e], en)]
                 /\ asked' = [asked EXCEPT ![e] = Append(asked[e], en)]
                 /\ stack' = Starts(e) \o stack
              \/ /\ ~en.queued /\ mark' = [mark EXCEPT ![e] = mark[e] + 1]
                 /\ UNCHANGED <<queue, asked>>
                 /\ stack' = <<Begin(e, en)>> \o stack
  BY <1>1, AnimateIs
<1>4. CASE /\ en.queued /\ mark' = mark
           /\ queue' = [queue EXCEPT ![e] = Append(queue[e], en)]
           /\ asked' = [asked EXCEPT ![e] = Append(asked[e], en)]
           /\ stack' = Starts(e) \o stack
  <2>1. en \in Queueable
    BY <1>4 DEF Queueable
  <2>2. \A x, q : Tokens(x, q)' = Tokens(x, q)
    BY <1>2, <1>4, StartsTokens
  <2> QED
    BY <1>4, <2>1, <2>2
<1>5. CASE /\ ~en.queued /\ mark' = [mark EXCEPT ![e] = mark[e] + 1]
           /\ UNCHANGED <<queue, asked>>
           /\ stack' = <<Begin(e, en)>> \o stack
  <2> DEFINE b == Begin(e, en)
  <2>1. b \in Frame /\ b.k = "begin"
    BY FrameMade DEF Begin
  <2>2. stack \in Seq(Frame) /\ stack' = <<b>> \o stack
    BY <1>1, <1>5 DEF Types
  <2> HIDE DEF b
  <2>3. stack' # <<>> /\ Me' = b /\ Among(stack') = {b} \cup Among(stack)
    BY <2>1, <2>2, FramePut DEF Me
  <2>4. Me' = Begin(e, en)
    BY <2>3 DEF b
  <2>5. ~Running("begin") /\ Running("begin")'
    BY <1>2, <2>1, <2>3 DEF Running, Me
  <2>6. \A f \in Among(stack') : f \in Among(stack) \/ IsPlain(f) \/ f.k = "begin"
    BY <2>1, <2>3
  <2>7. \A f \in Among(stack) : f \in Among(stack') \/ IsPlain(f)
    BY <2>3
  <2>8. en.id \in 1 .. count' /\ en.id = count + 1 /\ en.queued = FALSE
    <3>1. en.queued \in BOOLEAN
      BY DEF AnimEntry
    <3> QED
      BY <1>1, <1>2, <1>3, <1>5, <3>1 DEF Types
  <2>9. /\ \A x, q : x # e \/ q # en.queued => Tokens(x, q)' = Tokens(x, q)
        /\ Tokens(e, en.queued)' = Tokens(e, en.queued) \cup {en.id}
    BY <1>2, <2>3, <2>4, <2>5, <2>6, <2>7, <2>8, TokensBegin
  <2>10. count + 1 \notin Tokens(e, FALSE)
    <3>1. count \in Nat
      BY <1>1 DEF Types
    <3>2. count + 1 \notin 1 .. count
      BY <3>1
    <3> QED
      BY <3>2 DEF Tokens
  <2> QED
    BY <1>5, <2>5, <2>8, <2>9, <2>10
<1> QED
  BY <1>3, <1>4, <1>5

LEMMA DelayTokens ==
  ASSUME StepInv, StepInv', NEW e \in Element, Delay(e)
  PROVE  \A x, q : Tokens(x, q)' = Tokens(x, q)
<1>1. /\ stack # <<>> => Me.k = "user"
      /\ count' = count + 1 /\ UNCHANGED <<timers, anim>> /\ stack' = Starts(e) \o stack
  BY DelayIs DEF StepInv
<1> QED
  BY <1>1, StartsTokens

LEMMA StopNowTokens ==
  ASSUME StepInv, StepInv', NEW e \in Element, NEW clear \in BOOLEAN, NEW gotoEnd \in BOOLEAN,
         StopFree(e, clear, gotoEnd)
  PROVE  \A x, q : Tokens(x, q)' = Tokens(x, q)
<1>1. Types
  BY DEF StepInv
<1>2. /\ stack # <<>> => Me.k = "user"
      /\ count' = count + 1
      /\ stack' = <<Stop(e, gotoEnd, Len(timers), FALSE)>> \o stack
      /\ Becomes(StopBegins(Page, e, clear, gotoEnd))
  BY <1>1, StopNowIs
<1>3. UNCHANGED <<timers, anim>>
  BY <1>1, <1>2, StopBeginsIs
<1>4. /\ Stop(e, gotoEnd, Len(timers), FALSE) \in Frame
      /\ IsPlain(Stop(e, gotoEnd, Len(timers), FALSE))
  <2>1. Len(timers) \in Nat
    BY <1>1 DEF Types
  <2> QED
    BY <2>1, FrameMade DEF Stop, IsPlain
<1> QED
  BY <1>2, <1>3, <1>4, TokensCall, SameAnim

\* A call or a timeout that leaves the stack and the animations alone.
LEMMA SameTokens ==
  ASSUME StepInv, StepInv', stack' = stack, stack # <<>> => Me.k = "user",
         count' = count \/ count' = count + 1, UNCHANGED <<timers, anim>>
  PROVE  \A x, q : Tokens(x, q)' = Tokens(x, q)
  BY TokensCall, SameAnim

-----------------------------------------------------------------------------
(***************************************************************************)
(* Who takes the queues on, and the marks.                                 *)
(***************************************************************************)
LEMMA TokSame ==
  ASSUME \A e, q : Tokens(e, q)' = Tokens(e, q), sleeping' = sleeping
  PROVE  \A e : Tok(e)' = Tok(e)
  BY DEF Tok

quietVars == <<world, threw, stuck, queue, hooks, sleeping, mark, asked, begun>>

\* A step that changes neither what is under way nor what waits for its turn.
Quiet ==
  /\ UNCHANGED <<world, threw, stuck, queue, sleeping, mark, asked, begun>>
  /\ \A e \in Element : hooks'[e] = hooks[e] \/ queue[e] = <<>>
  /\ \A e, q : Tokens(e, q)' = Tokens(e, q)
  /\ ~Running("dequeue") /\ ~Running("stop") /\ ~Running("dequeue")' /\ ~Running("stop")'

LEMMA IsQuiet ==
  ASSUME UNCHANGED quietVars, \A e, q : Tokens(e, q)' = Tokens(e, q),
         ~Running("dequeue"), ~Running("stop"), ~Running("dequeue")', ~Running("stop")'
  PROVE  Quiet
  BY DEF Quiet, quietVars

LEMMA QuietCares ==
  ASSUME CareInv, Quiet
  PROVE  CareInv'
<1>1. \A e : ~Stepper(e) /\ ~Stopping(e) /\ ~Stopping(e)'
  BY DEF Quiet, Stepper, Stopping
<1>2. AliveInv'
  BY <1>1, TokSame DEF CareInv, AliveInv, Alive, Quiet
<1>3. MarkInv'
  BY <1>1 DEF CareInv, MarkInv, Marked, Quiet
<1> QED
  BY <1>2, <1>3 DEF CareInv

\* Below the top there is no stop, nor what takes a queue on.
LEMMA NotTop ==
  ASSUME StepInv, StepInv', stack # <<>>, NEW k \in {"dequeue", "stop"},
         \A f \in Among(stack') : f \in Among(Tail(stack)) \/ f.k # k
  PROVE  ~Running(k)'
<1>1. \A g \in Among(Tail(stack)) : g.k # k
  <2>1. \A g \in Among(Tail(stack)) : Over(Me, g, anim)
    BY OrderTail DEF StepInv, Types, Me
  <2> QED
    BY <2>1 DEF Over
<1>2. stack' # <<>> => Me' \in Among(stack')
  BY TopAmong DEF StepInv, Types, Me
<1> QED
  BY <1>1, <1>2 DEF Running, Me

LEMMA PushQuiet ==
  ASSUME StepInv, StepInv', UNCHANGED quietVars, \A e, q : Tokens(e, q)' = Tokens(e, q),
         stack # <<>>, Me.k \notin {"dequeue", "stop"},
         \A f \in Among(stack') : f \in Among(Tail(stack)) \/ f.k \notin {"dequeue", "stop"}
  PROVE  Quiet
<1>1. ~Running("dequeue") /\ ~Running("stop")
  BY DEF Running, Me
<1>2. ~Running("dequeue")' /\ ~Running("stop")'
  BY NotTop
<1> QED
  BY <1>1, <1>2, IsQuiet

LEMMA PopQuiet ==
  ASSUME StepInv, StepInv', UNCHANGED quietVars, \A e, q : Tokens(e, q)' = Tokens(e, q),
         stack # <<>>, Me.k \notin {"dequeue", "stop"}, stack' = Tail(stack)
  PROVE  Quiet
  BY PushQuiet

LEMMA GoOnQuiet ==
  ASSUME StepInv, StepInv', UNCHANGED quietVars, \A e, q : Tokens(e, q)' = Tokens(e, q),
         stack # <<>>, Me.k \notin {"dequeue", "stop"},
         NEW h \in Frame, h.k \notin {"dequeue", "stop"}, stack' = <<h>> \o Tail(stack)
  PROVE  Quiet
<1>1. Among(stack') = {h} \cup Among(Tail(stack))
  BY Tails
<1> QED
  BY <1>1, PushQuiet

LEMMA DequeueEndsQuiet ==
  ASSUME StepInv, StepInv', DequeueEnds
  PROVE  Quiet
<1>1. Types /\ hooks \in [Element -> Nat]
  BY DEF StepInv, Types
<1>2. /\ stack # <<>> /\ Me.k = "dequeued" /\ stack' = Tail(stack)
      /\ UNCHANGED <<world, threw, stuck, queue, sleeping, mark, asked, begun>>
      /\ hooks' = hooks \/ (queue[Me.elem] = <<>> /\ hooks' = [hooks EXCEPT ![Me.elem] = 0])
  BY <1>1, DequeueEndsIs
<1>3. ~Running("dequeue") /\ ~Running("stop")
  BY <1>2 DEF Running, Me
<1>4. ~Running("dequeue")' /\ ~Running("stop")'
  BY <1>2, NotTop
<1>5. \A e \in Element : hooks'[e] = hooks[e] \/ queue[e] = <<>>
  BY <1>1, <1>2
<1> QED
  BY <1>2, <1>3, <1>4, <1>5, DequeueEndsTokens DEF Quiet

LEMMA ShowQuiet ==
  ASSUME StepInv, StepInv', ShowStep
  PROVE  Quiet
<1>1. /\ stack # <<>> /\ Me.k = "show" /\ stack' = Tail(stack)
      /\ UNCHANGED quietVars
  BY ShowIs DEF StepInv, quietVars, entryVars, waitVars
<1> QED
  BY <1>1, ShowTokens, PopQuiet

LEMMA ReturnsQuiet ==
  ASSUME StepInv, StepInv', Returns
  PROVE  Quiet
<1>1. /\ stack # <<>> /\ Me.k = "user" /\ stack' = Tail(stack)
      /\ UNCHANGED quietVars
  BY ReturnsIs DEF StepInv, quietVars, entryVars, waitVars
<1> QED
  BY <1>1, ReturnsTokens, PopQuiet

LEMMA BeginQuiet ==
  ASSUME StepInv, StepInv', BeginStep
  PROVE  Quiet
<1>1. stack # <<>> /\ Me.k = "begin" /\ UNCHANGED quietVars
  BY BeginIs DEF StepInv, quietVars, entryVars, waitVars
<1>2. PICK id, el, props : id = Me.entry.id /\ el = Me.elem /\ props = Me.entry.props
  OBVIOUS
<1>3. IF anim'[id].complete
      THEN \E S \in SUBSET {Show(el)} : Among(stack') =
             {Custom(id, p) : p \in props} \cup S \cup Among(Tail(stack))
      ELSE Among(stack') = {Complete(id)} \cup Among(Tail(stack))
  BY <1>2, BeginFrames, ZenonT(40)
<1>4. \A f \in Among(stack') : f \in Among(Tail(stack)) \/ f.k \notin {"dequeue", "stop"}
  <2>1. \A p : /\ Custom(id, p).k = "custom" /\ Show(el).k = "show"
               /\ Complete(id).k = "complete"
    BY DEF Custom, Show, Complete
  <2> QED
    BY <1>3, <2>1
<1> QED
  BY Zenon, <1>1, <1>4, BeginTokens, PushQuiet

LEMMA CustomQuiet ==
  ASSUME StepInv, StepInv', CustomStep
  PROVE  Quiet
<1>1. stack # <<>> /\ Me.k = "custom" /\ Types
  BY DEF CustomStep, Running, Me, StepInv
<1>2. Me.anim \in DOMAIN anim /\ Me.prop \in anim[Me.anim].props
  BY <1>1, Frames
<1>3. PICK a : a = Me.anim
  OBVIOUS
<1>4. /\ UNCHANGED quietVars
      /\ stack' = Tail(stack) \/ stack' = CallFrames(a) \o Tail(stack)
  BY <1>1, <1>2, <1>3, CustomIs DEF quietVars, entryVars, waitVars
<1>5. a \in Nat /\ Complete(a) \in Frame /\ Complete(a).k = "complete"
  BY <1>1, <1>2, <1>3, FrameMade DEF Types, Complete
<1>6. \A f \in Among(stack') : f \in Among(Tail(stack)) \/ f.k \notin {"dequeue", "stop"}
  <2>1. stack' = Tail(stack) \/ stack' = <<Complete(a)>> \o Tail(stack)
    BY <1>1, <1>4, Quit DEF CallFrames
  <2>2. CASE stack' = <<Complete(a)>> \o Tail(stack)
    BY <1>1, <1>5, <2>2, Tails
  <2> QED
    BY <2>1, <2>2
<1> QED
  BY <1>1, <1>4, <1>6, CustomTokens, PushQuiet

LEMMA CompleteQuiet ==
  ASSUME StepInv, StepInv', CompleteStep
  PROVE  Quiet
<1>1. Types
  BY DEF StepInv
<1>2. PICK a : a = Me.anim
  OBVIOUS
<1>3. /\ stack # <<>> /\ Me = Complete(a) /\ a \in Nat
      /\ UNCHANGED quietVars
      /\ stack' = <<User(anim[a].elem), Completed(a)>> \o Tail(stack)
  BY <1>1, <1>2, CompleteIs DEF quietVars, entryVars, waitVars
<1>4. Me.k = "complete"
  BY <1>3 DEF Complete
<1>5. anim[a].elem \in Element
  BY <1>1, <1>2, <1>3, <1>4, Frames DEF Types, IsAnim
<1> DEFINE u == User(anim[a].elem)  c == Completed(a)
<1>6. u \in Frame /\ c \in Frame /\ u.k = "user" /\ c.k = "completed"
  BY <1>3, <1>5, FrameMade DEF User, Completed
<1>7. stack' = <<u, c>> \o Tail(stack)
  BY <1>3
<1> HIDE DEF u, c
<1>8. \A f \in Among(stack') : f \in Among(Tail(stack)) \/ f.k \notin {"dequeue", "stop"}
  <2>1. PICK t \in Seq(Frame) : t = Tail(stack)
    BY <1>3, Tails
  <2>2. Among(<<u, c>> \o t) = {u, c} \cup Among(t)
    BY <1>6, TwoAmong
  <2> QED
    BY <1>6, <1>7, <2>1, <2>2
<1> QED
  BY <1>3, <1>4, <1>8, CompleteTokens, PushQuiet

LEMMA TickQuiet ==
  ASSUME StepInv, StepInv', TickStep
  PROVE  Quiet
<1>1. TimersOfAnims /\ Types
  BY Frames DEF StepInv
<1>2. PICK i : i = Me.i
  OBVIOUS
<1>3. /\ stack # <<>> /\ Me.k = "tick" /\ i \in Nat \ {0}
      /\ UNCHANGED quietVars
      /\ \/ stack' = Tail(stack)
         \/ /\ i \in 1 .. Len(timers) /\ AnimEnds(timers[i].anim, timers[i].prop)
            /\ stack' = (CallFrames(timers[i].anim) \o <<Ticked(i, timers[i])>>) \o Tail(stack)
         \/ stack' = <<Tick(i + 1)>> \o Tail(stack)
  BY <1>1, <1>2, TickIs DEF quietVars, entryVars, waitVars
<1>4. CASE stack' = Tail(stack)
  BY <1>3, <1>4, TickTokens, PopQuiet
<1>5. CASE /\ i \in 1 .. Len(timers) /\ AnimEnds(timers[i].anim, timers[i].prop)
           /\ stack' = (CallFrames(timers[i].anim) \o <<Ticked(i, timers[i])>>) \o Tail(stack)
  <2>1. timers[i] \in Timer /\ timers[i].anim \in DOMAIN anim
    BY <1>1, <1>5 DEF Types, TimersOfAnims
  <2>2. Ticked(i, timers[i]) \in Frame /\ Ticked(i, timers[i]).k = "ticked"
    BY Zenon, <1>3, <2>1, FrameMade DEF Ticked
  <2>3. stack' # <<>> /\ (Me' = Complete(timers[i].anim) \/ Me' = Ticked(i, timers[i]))
    BY Zenon, <1>3, <1>5, <2>1, <2>2, CallsFrames
  <2>4. /\ ~Running("dequeue") /\ ~Running("stop")
        /\ ~Running("dequeue")' /\ ~Running("stop")'
    BY <1>3, <2>2, <2>3 DEF Running, Me, Complete
  <2> QED
    BY <1>3, <2>4, TickTokens, IsQuiet
<1>6. CASE stack' = <<Tick(i + 1)>> \o Tail(stack)
  <2>1. Tick(i + 1) \in Frame /\ Tick(i + 1).k = "tick"
    BY <1>3, FrameMade DEF Tick
  <2> QED
    BY <1>3, <1>6, <2>1, TickTokens, GoOnQuiet
<1> QED
  BY Zenon, <1>3, <1>4, <1>5, <1>6

LEMMA TickGoesOnQuiet ==
  ASSUME StepInv, StepInv', TickGoesOn
  PROVE  Quiet
<1>1. /\ stack # <<>> /\ Me.k = "ticked" /\ Me.i \in Nat \ {0}
      /\ UNCHANGED quietVars
      /\ \E j \in {Me.i, Me.i + 1} : stack' = <<Tick(j)>> \o Tail(stack)
  BY TickGoesOnIs DEF StepInv, quietVars, entryVars, waitVars
<1>2. PICK j \in {Me.i, Me.i + 1} : stack' = <<Tick(j)>> \o Tail(stack)
  BY <1>1
<1>3. Tick(j) \in Frame /\ Tick(j).k = "tick"
  BY <1>1, FrameMade DEF Tick
<1> QED
  BY <1>1, <1>2, <1>3, TickGoesOnTokens, GoOnQuiet

LEMMA IntervalQuiet ==
  ASSUME StepInv, StepInv', NEW due, Interval(due)
  PROVE  Quiet
<1>1. stack = <<>> /\ stack' = <<Tick(1)>> /\ UNCHANGED quietVars
  BY IntervalIs DEF StepInv, quietVars, entryVars, waitVars
<1>2. ~Running("dequeue") /\ ~Running("stop") /\ ~Running("dequeue")' /\ ~Running("stop")'
  BY <1>1 DEF Running, Me, Tick
<1> QED
  BY <1>1, <1>2, IntervalTokens, IsQuiet

-----------------------------------------------------------------------------
LEMMA CaresOf ==
  ASSUME CareInv, threw' = threw,
         ~threw => \A x \in Element : Alive(x) /\ Marked(x) => Alive(x)' /\ Marked(x)'
  PROVE  CareInv'
  BY DEF CareInv, AliveInv, MarkInv

\* What a step leaves alone of an element that it is not about.
LEMMA Aside ==
  ASSUME NEW x, Alive(x), Marked(x), queue'[x] = queue[x], mark'[x] = mark[x],
         x \in stuck => x \in stuck', \A q : Tokens(x, q)' = Tokens(x, q),
         \A d \in sleeping : d.elem = x => d \in sleeping',
         Stepper(x) => Stepper(x)', ~Stopping(x), ~Stopping(x)'
  PROVE  Alive(x)' /\ Marked(x)'
<1>1. Tok(x) # {} => Tok(x)' # {}
  BY DEF Tok
<1> QED
  BY <1>1 DEF Alive, Marked

LEMMA DequeueTop ==
  ASSUME StepInv, StepInv', DequeueStep
  PROVE  ~Running("stop")' /\ ~Running("dequeue")'
<1>1. PICK e, rest : e = Me.elem /\ rest = After(e)
  OBVIOUS
<1>2. /\ stack # <<>> /\ Me.k = "dequeue" /\ e \in Element
      /\ \/ stack' = Tail(stack)
         \/ /\ rest # <<>> /\ Head(rest).k # "delay"
            /\ stack' = <<Begin(e, Head(rest)), Dequeued(e)>> \o Tail(stack)
  BY <1>1, DequeueIs DEF StepInv
<1>3. CASE stack' = Tail(stack)
  BY <1>2, <1>3, NotTop
<1>4. CASE /\ rest # <<>> /\ Head(rest).k # "delay"
           /\ stack' = <<Begin(e, Head(rest)), Dequeued(e)>> \o Tail(stack)
  <2>1. Head(rest) \in AnimEntry
    BY <1>1, <1>2, <1>4, AfterIs DEF StepInv
  <2> DEFINE b == Begin(e, Head(rest))  c == Dequeued(e)
  <2>2. b \in Frame /\ c \in Frame /\ b.k = "begin"
    BY <1>2, <2>1, FrameMade DEF Begin, Dequeued
  <2>3. stack' = <<b, c>> \o Tail(stack)
    BY <1>4
  <2> HIDE DEF b, c
  <2>4. PICK t \in Seq(Frame) : t = Tail(stack)
    BY <1>2, Tails DEF StepInv
  <2>5. Head(<<b, c>> \o t) = b
    BY <2>2, <2>4
  <2>6. Me'.k = "begin"
    BY <2>2, <2>3, <2>4, <2>5 DEF Me
  <2> QED
    BY <2>6 DEF Running, Me
<1> QED
  BY <1>2, <1>3, <1>4

LEMMA DequeueCares ==
  ASSUME StepInv, StepInv', CareInv, DequeueStep
  PROVE  CareInv'
<1>1. Types
  BY DEF StepInv
<1>2. PICK e, rest : e = Me.elem /\ rest = After(e)
  OBVIOUS
<1>3. /\ stack # <<>> /\ Me.k = "dequeue" /\ e \in Element
      /\ UNCHANGED <<mark, stuck, threw>>
      /\ \/ /\ rest = <<>> /\ stack' = Tail(stack)
            /\ queue' = [queue EXCEPT ![e] = <<>>] /\ sleeping' = sleeping
         \/ /\ rest # <<>>
            /\ queue' = [queue EXCEPT ![e] = <<Sentinel>> \o Tail(rest)]
            /\ \/ /\ Head(rest).k = "delay" /\ stack' = Tail(stack)
                  /\ sleeping' = sleeping \cup {[id |-> Head(rest).id, elem |-> e]}
               \/ /\ Head(rest).k # "delay"
                  /\ stack' = <<Begin(e, Head(rest)), Dequeued(e)>> \o Tail(stack)
                  /\ sleeping' = sleeping
  BY <1>1, <1>2, DequeueIs
<1>4. \/ /\ rest = <<>> \/ (rest # <<>> /\ Head(rest).k = "delay")
         /\ \A x, q : Tokens(x, q)' = Tokens(x, q)
      \/ /\ rest # <<>> /\ Head(rest).k # "delay"
         /\ \A x, q : x # e \/ q # TRUE => Tokens(x, q)' = Tokens(x, q)
         /\ \A x : x = e => Tokens(x, TRUE)' = Tokens(x, TRUE) \cup {Head(rest).id}
  BY <1>2, DequeueTokens
<1>5. queue \in [Element -> Seq(Queueable \cup {Sentinel})]
  BY <1>1 DEF Types
<1>6. \A x \in Element : x # e => queue'[x] = queue[x]
  BY <1>3, <1>5
<1>7. ~Running("stop") /\ ~Running("stop")'
  BY <1>3, DequeueTop DEF Running, Me
<1>8. \A x : x # e => ~Stepper(x)
  BY <1>2, <1>7 DEF Stepper
<1>9. \A x : ~Stopping(x) /\ ~Stopping(x)'
  BY <1>7 DEF Stopping
<1>10. ASSUME NEW x \in Element, x # e, Alive(x), Marked(x)
       PROVE  Alive(x)' /\ Marked(x)'
  <2>1. \A q : Tokens(x, q)' = Tokens(x, q)
    BY <1>4, <1>10
  <2>2. \A d \in sleeping : d \in sleeping'
    BY <1>3
  <2> QED
    BY <1>3, <1>6, <1>8, <1>9, <1>10, <2>1, <2>2, Aside
<1>11. ASSUME NEW x \in Element, x = e, Alive(x), Marked(x)
       PROVE  Alive(x)' /\ Marked(x)'
  <2>1. Tokens(x, FALSE)' = Tokens(x, FALSE)
    BY <1>4, <1>11
  <2>2. Marked(x)'
    BY <1>3, <1>9, <1>11, <2>1 DEF Marked
  <2>3. CASE rest = <<>>
    <3>1. queue'[x] = <<>>
      BY <1>3, <1>5, <1>11, <2>3
    <3> QED
      BY <2>2, <3>1 DEF Alive
  <2>4. CASE rest # <<>> /\ Head(rest).k = "delay"
    <3> DEFINE d == [id |-> Head(rest).id, elem |-> x]
    <3>1. d \in sleeping' /\ d.elem = x
      BY <1>3, <1>11, <2>4
    <3>2. Tok(x)' # {}
      BY <3>1 DEF Tok
    <3> QED
      BY <2>2, <3>2 DEF Alive
  <2>5. CASE rest # <<>> /\ Head(rest).k # "delay"
    <3>1. Tokens(x, TRUE)' # {}
      BY <1>4, <1>11, <2>5
    <3> QED
      BY <2>2, <3>1 DEF Alive, Tok
  <2> QED
    BY <2>3, <2>4, <2>5
<1> QED
  BY <1>3, <1>10, <1>11, CaresOf

-----------------------------------------------------------------------------
LEMMA TokensFinite ==
  ASSUME count \in Nat
  PROVE  \A e, q : /\ Tokens(e, q) \subseteq 1 .. count /\ IsFiniteSet(Tokens(e, q))
                   /\ Cardinality(Tokens(e, q)) \in Nat
<1> TAKE e, q
<1>1. Tokens(e, q) \subseteq 1 .. count
  BY DEF Tokens
<1>2. IsFiniteSet(1 .. count)
  BY FS_Interval
<1>3. IsFiniteSet(Tokens(e, q))
  BY <1>1, <1>2, FS_Subset
<1> QED
  BY <1>1, <1>3, FS_CardinalityType

LEMMA CompleteEndsCares ==
  ASSUME StepInv, StepInv', CareInv, CompleteEnds
  PROVE  CareInv'
<1>1. Types /\ count \in Nat /\ mark \in [Element -> Nat]
  BY DEF StepInv, Types
<1>2. PICK a, b : a = Me.anim /\ b = anim[Me.anim]
  OBVIOUS
<1>3. stack # <<>> /\ Me.k = "completed" /\ Me.anim \in DOMAIN anim
  BY Frames DEF CompleteEnds, Running, Me
<1>4. PICK e : e = b.elem
  OBVIOUS
<1>5. /\ e \in Element /\ UNCHANGED <<queue, sleeping, stuck, threw>>
      /\ IF b.queued
         THEN stack' = <<Dequeue(e)>> \o Tail(stack) /\ mark' = mark
         ELSE /\ stack' = Tail(stack)
              /\ mark' = [mark EXCEPT ![e] = IF mark[e] = 0 THEN 0 ELSE mark[e] - 1]
  BY <1>1, <1>2, <1>3, <1>4, CompleteEndsIs DEF entryVars
<1>6. \A x, q : IF x = e /\ q = b.queued
                THEN a \in Tokens(x, q) /\ Tokens(x, q)' = Tokens(x, q) \ {a}
                ELSE Tokens(x, q)' = Tokens(x, q)
  BY <1>2, <1>4, CompleteEndsTokens
<1>7. b.queued \in BOOLEAN
  BY <1>1, <1>2, <1>3 DEF Types, IsAnim
<1>8. ~Running("stop") /\ ~Running("dequeue") /\ ~Running("stop")'
  <2>1. CASE stack' = <<Dequeue(e)>> \o Tail(stack)
    <3>1. Dequeue(e) \in Frame /\ Dequeue(e).k = "dequeue"
      BY <1>5, FrameMade DEF Dequeue
    <3>2. Among(stack') = {Dequeue(e)} \cup Among(Tail(stack))
      BY <1>3, <2>1, <3>1, Tails
    <3> QED
      BY <1>3, <3>1, <3>2, NotTop DEF Running, Me
  <2>2. CASE stack' = Tail(stack)
    BY <1>3, <2>2, NotTop DEF Running, Me
  <2> QED
    BY <1>5, <2>1, <2>2
<1>9. \A x : ~Stopping(x) /\ ~Stopping(x)' /\ ~Stepper(x)
  BY <1>8 DEF Stopping, Stepper
<1>10. ASSUME NEW x \in Element, x # e, Alive(x), Marked(x)
       PROVE  Alive(x)' /\ Marked(x)'
  <2>1. \A q : Tokens(x, q)' = Tokens(x, q)
    BY <1>6, <1>10
  <2>2. mark'[x] = mark[x]
    BY <1>1, <1>5, <1>10
  <2> QED
    BY <1>5, <1>9, <1>10, <2>1, <2>2, Aside
<1>11. ASSUME NEW x \in Element, x = e, Alive(x), Marked(x)
       PROVE  Alive(x)' /\ Marked(x)'
  <2>1. CASE b.queued
    <3>1. Tokens(x, FALSE)' = Tokens(x, FALSE)
      BY <1>6, <2>1
    <3>2. Marked(x)'
      BY <1>5, <1>9, <1>11, <2>1, <3>1 DEF Marked
    <3>3. Dequeue(e) \in Frame /\ Dequeue(e).k = "dequeue" /\ Dequeue(e).elem = e
      BY <1>5, FrameMade DEF Dequeue
    <3>4. PICK t \in Seq(Frame) : t = Tail(stack)
      BY <1>3, Tails
    <3>5. stack' # <<>> /\ Me' = Dequeue(e)
      BY <1>5, <2>1, <3>3, <3>4, FramePushed DEF Me
    <3>6. Stepper(x)'
      BY <1>11, <3>3, <3>5 DEF Stepper, Running, Me
    <3> QED
      BY <3>2, <3>6 DEF Alive
  <2>2. CASE ~b.queued
    <3>1. /\ Tokens(x, TRUE)' = Tokens(x, TRUE) /\ a \in Tokens(x, FALSE)
          /\ Tokens(x, FALSE)' = Tokens(x, FALSE) \ {a}
      BY <1>6, <1>7, <1>11, <2>2
    <3>2. Alive(x)'
      BY <1>5, <1>9, <1>11, <3>1 DEF Alive, Tok
    <3>3. IsFiniteSet(Tokens(x, FALSE)) /\ Cardinality(Tokens(x, FALSE)) \in Nat
      BY <1>1, TokensFinite
    <3>4. Cardinality(Tokens(x, FALSE) \ {a}) = Cardinality(Tokens(x, FALSE)) - 1
      BY <3>1, <3>3, FS_RemoveElement
    <3>5. Cardinality(Tokens(x, FALSE)) # 0
      BY <3>1, <3>3, FS_EmptySet
    <3>6. mark[x] = Cardinality(Tokens(x, FALSE))
      BY <1>9, <1>11 DEF Marked
    <3>7. mark'[x] = Cardinality(Tokens(x, FALSE)) - 1
      BY <1>1, <1>5, <1>11, <2>2, <3>3, <3>5, <3>6
    <3>8. Marked(x)'
      BY <1>9, <3>1, <3>4, <3>7 DEF Marked
    <3> QED
      BY <3>2, <3>8
  <2> QED
    BY <2>1, <2>2
<1> QED
  BY <1>5, <1>10, <1>11, CaresOf

-----------------------------------------------------------------------------
LEMMA StopCares ==
  ASSUME StepInv, StepInv', CareInv, StopStep
  PROVE  CareInv'
<1>1. Types /\ TimersOfAnims
  BY Frames DEF StepInv
<1>2. PICK e, i, g, had, a, p : /\ e = Me.elem /\ i = Me.i /\ g = Me.gotoEnd /\ had = Me.had
                                /\ a = timers[i].anim /\ p = timers[i].prop
  OBVIOUS
<1>3. stack # <<>> /\ Me.k = "stop" /\ Me.i <= Len(timers)
  BY Frames DEF StopStep, Running, Me
<1>4. /\ e \in Element /\ i \in Nat /\ g \in BOOLEAN /\ had \in BOOLEAN
      /\ UNCHANGED <<queue, sleeping, mark, stuck, threw>>
      /\ \/ /\ i = 0 /\ UNCHANGED <<timers, anim>>
            /\ stack' = (IF g /\ had THEN <<>> ELSE <<Dequeue(e)>>) \o Tail(stack)
         \/ /\ i \in 1 .. Len(timers) /\ UNCHANGED <<timers, anim>>
            /\ stack' = <<Stop(e, g, i - 1, had)>> \o Tail(stack)
         \/ /\ i \in 1 .. Len(timers) /\ anim[a].elem = e /\ g /\ AnimEnds(a, p)
            /\ stack' = (CallFrames(a) \o <<Stopped(e, i)>>) \o Tail(stack)
         \/ /\ i \in 1 .. Len(timers) /\ ~g
            /\ stack' = <<Stop(e, FALSE, i - 1, TRUE)>> \o Tail(stack)
  BY <1>1, <1>2, <1>3, StopIs DEF entryVars, waitVars
<1>5. \A x, q : x # e \/ g \/ i = 0 => Tokens(x, q)' = Tokens(x, q)
  BY <1>2, StopTokens
<1>6. /\ Running("stop") /\ ~Running("dequeue")
      /\ \A x : x # e => ~Stepper(x) /\ ~Stopping(x)
      /\ \A x : x = e => (Stopping(x) <=> ~g) /\ (Stepper(x) <=> ~g \/ (~had /\ ~Moves(x)))
  BY <1>2, <1>3 DEF Running, Me, Stepper, Stopping
<1>7. PICK t \in Seq(Frame) : t = Tail(stack)
  BY <1>3, Tails
<1>8. ASSUME ~threw, NEW x \in Element, x # e, Alive(x), Marked(x), ~Stopping(x)'
      PROVE  Alive(x)' /\ Marked(x)'
  <2>1. \A q : Tokens(x, q)' = Tokens(x, q)
    BY <1>5, <1>8
  <2> QED
    BY <1>4, <1>6, <1>8, <2>1, Aside
\* The tokens are the same, and who takes the queue on.
<1>9. ASSUME g, NEW x \in Element, x = e, Alive(x), Marked(x), ~Stopping(x)',
             Stepper(x) => Stepper(x)'
      PROVE  Alive(x)' /\ Marked(x)'
  <2>1. \A q : Tokens(x, q)' = Tokens(x, q)
    BY <1>5, <1>9
  <2> QED
    BY <1>4, <1>6, <1>9, <2>1, Aside
\* The loop goes on.
<1>10. ASSUME NEW b \in BOOLEAN, NEW h \in BOOLEAN, i \in 1 .. Len(timers),
              stack' = <<Stop(e, b, i - 1, h)>> \o Tail(stack),
              b = g, ~g \/ (h = had /\ UNCHANGED <<timers, anim>>)
       PROVE  CareInv'
  <2> DEFINE s == Stop(e, b, i - 1, h)
  <2>1. i - 1 \in Nat
    BY <1>4, <1>10
  <2>2. s \in Frame /\ s.k = "stop" /\ s.elem = e /\ s.gotoEnd = b /\ s.had = h
    BY <1>4, <1>10, <2>1, FrameMade DEF Stop
  <2>3. stack' = <<s>> \o t
    BY <1>7, <1>10
  <2> HIDE DEF s
  <2>4. stack' # <<>> /\ Me' = s
    BY <1>7, <2>2, <2>3, FramePushed DEF Me
  <2>5. \A x : x # e => ~Stopping(x)'
    BY <2>2, <2>4 DEF Stopping, Me
  <2>6. Running("stop")' /\ Me'.elem = e /\ Me'.gotoEnd = b /\ Me'.had = h
    BY <2>2, <2>4 DEF Running, Me
  <2>7. ASSUME g, NEW x \in Element, x = e, Alive(x), Marked(x)
        PROVE  Alive(x)' /\ Marked(x)'
    <3>1. ~Stopping(x)'
      BY <1>10, <2>6, <2>7 DEF Stopping
    <3>2. Moves(x)' <=> Moves(x)
      BY <1>10, <2>7 DEF Moves
    <3>3. Stepper(x) => Stepper(x)'
      BY <1>6, <1>10, <2>6, <2>7, <3>2 DEF Stepper
    <3> QED
      BY <1>9, <2>7, <3>1, <3>3
  <2>8. ASSUME ~g, NEW x \in Element, x = e, Marked(x)
        PROVE  Alive(x)' /\ Marked(x)'
    <3>1. Stopping(x)' /\ Stepper(x)'
      BY <1>10, <2>6, <2>8 DEF Stopping, Stepper
    <3>2. mark[x] = 0
      BY <1>6, <2>8 DEF Marked
    <3> QED
      BY <1>4, <3>1, <3>2 DEF Alive, Marked
  <2> QED
    BY <1>4, <1>8, <2>5, <2>7, <2>8, CaresOf
<1>11. CASE i = 0 /\ stack' = (IF g /\ had THEN <<>> ELSE <<Dequeue(e)>>) \o Tail(stack)
  <2>1. Dequeue(e) \in Frame /\ Dequeue(e).k = "dequeue" /\ Dequeue(e).elem = e
    BY <1>4, FrameMade DEF Dequeue
  <2>2. CASE g /\ had
    <3>1. stack' = Tail(stack)
      BY <1>1, <1>3, <1>11, <2>2, Quit
    <3>2. \A x : ~Stopping(x)'
      BY <1>3, <3>1, NotTop DEF Stopping
    <3>3. \A x : x = e => ~Stepper(x)
      BY <1>6, <2>2
    <3> QED
      BY <1>4, <1>8, <1>9, <2>2, <3>2, <3>3, CaresOf
  <2>3. CASE ~(g /\ had)
    <3>1. stack' = <<Dequeue(e)>> \o t
      BY <1>7, <1>11, <2>3
    <3>2. stack' # <<>> /\ Me' = Dequeue(e)
      BY <1>7, <2>1, <3>1, FramePushed DEF Me
    <3>3. \A x : ~Stopping(x)' /\ (x = e => Stepper(x)')
      BY <2>1, <3>2 DEF Running, Me, Stopping, Stepper
    <3>4. ASSUME ~g, NEW x \in Element, x = e, Marked(x)
          PROVE  Alive(x)' /\ Marked(x)'
      <4>1. mark[x] = 0
        BY <1>6, <3>4 DEF Marked
      <4>2. Tokens(x, FALSE) = {} /\ Tokens(x, FALSE)' = Tokens(x, FALSE)
        BY <1>2, <1>3, <1>5, <1>11, <3>4, StopRests
      <4>3. Cardinality(Tokens(x, FALSE)') = 0
        BY <4>2, FS_EmptySet
      <4>4. Marked(x)'
        BY <1>4, <3>3, <4>1, <4>3 DEF Marked
      <4> QED
        BY <3>3, <3>4, <4>4 DEF Alive
    <3> QED
      BY <1>4, <1>8, <1>9, <3>3, <3>4, CaresOf
  <2> QED
    BY <2>2, <2>3
<1>12. CASE i \in 1 .. Len(timers) /\ UNCHANGED <<timers, anim>>
            /\ stack' = <<Stop(e, g, i - 1, had)>> \o Tail(stack)
  BY <1>4, <1>10, <1>12
<1>13. CASE /\ i \in 1 .. Len(timers) /\ anim[a].elem = e /\ g /\ AnimEnds(a, p)
            /\ stack' = (CallFrames(a) \o <<Stopped(e, i)>>) \o Tail(stack)
  <2>1. a \in DOMAIN anim /\ a \in Nat
    BY <1>1, <1>2, <1>13 DEF Types, TimersOfAnims
  <2>2. Stopped(e, i) \in Frame /\ Stopped(e, i).k = "stopped" /\ Stopped(e, i).elem = e
    BY SMTT(30), <1>4, <1>13, FrameMade DEF Stopped
  <2>3. stack' # <<>> /\ (Me' = Complete(a) \/ Me' = Stopped(e, i))
    BY Zenon, <1>2, <1>3, <1>13, <2>1, <2>2, CallsFrames
  <2>4. \A x : ~Stopping(x)'
    BY <2>2, <2>3 DEF Stopping, Running, Me, Complete
  <2>5. \A x : x = e => Moves(x)
    BY <1>2, <1>13 DEF Moves
  <2>6. \A x : x = e => ~Stepper(x)
    BY <1>6, <1>13, <2>5
  <2> QED
    BY Zenon, <1>4, <1>8, <1>9, <1>13, <2>4, <2>6, CaresOf
<1>14. CASE i \in 1 .. Len(timers) /\ ~g /\ stack' = <<Stop(e, FALSE, i - 1, TRUE)>> \o Tail(stack)
  <2>1. g = FALSE
    BY <1>4, <1>14
  <2> QED
    BY <1>10, <1>14, <2>1
<1> QED
  BY <1>4, <1>11, <1>12, <1>13, <1>14

-----------------------------------------------------------------------------
LEMMA StopGoesOnCares ==
  ASSUME StepInv, StepInv', CareInv, StopGoesOn
  PROVE  CareInv'
<1>1. Types
  BY DEF StepInv
<1>2. PICK e, i : e = Me.elem /\ i = Me.i
  OBVIOUS
<1>3. /\ stack # <<>> /\ Me.k = "stopped" /\ e \in Element /\ i \in Nat \ {0}
      /\ UNCHANGED <<queue, sleeping, mark, stuck, threw>>
      /\ stack' = <<Stop(e, TRUE, i - 1, TRUE)>> \o Tail(stack)
  BY <1>1, <1>2, StopGoesOnIs DEF StepInv, entryVars, waitVars
<1>4. \A x, q : Tokens(x, q)' = Tokens(x, q)
  BY StopGoesOnTokens
<1> DEFINE s == Stop(e, TRUE, i - 1, TRUE)
<1>5. i - 1 \in Nat
  BY <1>3
<1>6. s \in Frame /\ s.gotoEnd = TRUE
  BY <1>3, <1>5, FrameMade DEF Stop
<1>7. stack' = <<s>> \o Tail(stack)
  BY <1>3
<1> HIDE DEF s
<1>8. PICK t \in Seq(Frame) : t = Tail(stack)
  BY <1>3, Tails
<1>9. stack' # <<>> /\ Me' = s
  BY <1>6, <1>7, <1>8, FramePushed DEF Me
<1>10. \A x : ~Stopping(x)' /\ ~Stopping(x) /\ ~Stepper(x)
  BY <1>3, <1>6, <1>9 DEF Stopping, Stepper, Running, Me
<1>11. ASSUME NEW x \in Element, Alive(x), Marked(x)
       PROVE  Alive(x)' /\ Marked(x)'
  BY <1>3, <1>4, <1>10, <1>11, Aside
<1> QED
  BY <1>3, <1>11, CaresOf

\* Where the page or a callback calls, nothing takes a queue on.
LEMMA NoSteppers ==
  ASSUME stack # <<>> => Me.k = "user"
  PROVE  \A x : ~Stopping(x) /\ ~Stepper(x)
  BY DEF Stopping, Stepper, Running, Me

LEMMA StopNowCares ==
  ASSUME StepInv, StepInv', CareInv, NEW e \in Element, NEW clear \in BOOLEAN,
         NEW gotoEnd \in BOOLEAN, StopFree(e, clear, gotoEnd)
  PROVE  CareInv'
<1>1. /\ Types /\ queue \in [Element -> Seq(Queueable \cup {Sentinel})]
      /\ mark \in [Element -> Nat] /\ timers \in Seq(Timer)
  BY DEF StepInv, Types
<1>2. /\ stack # <<>> => Me.k = "user"
      /\ threw' = threw /\ stack' = <<Stop(e, gotoEnd, Len(timers), FALSE)>> \o stack
      /\ Becomes(StopBegins(Page, e, clear, gotoEnd))
  BY <1>1, StopNowIs
<1>3. /\ UNCHANGED <<timers, anim>>
      /\ queue' = IF clear THEN [queue EXCEPT ![e] = <<>>] ELSE queue
      /\ mark' = IF gotoEnd THEN mark ELSE [mark EXCEPT ![e] = 0]
      /\ sleeping' = IF clear \/ hooks[e] = 0 THEN sleeping ELSE {s \in sleeping : s.id # hooks[e]}
      /\ stuck' = IF ~clear /\ hooks[e] # 0 /\ gotoEnd /\ Moves(e) THEN stuck \cup {e} ELSE stuck
  BY <1>1, <1>2, StopBeginsIs
<1>4. \A x, q : Tokens(x, q)' = Tokens(x, q)
  BY StopNowTokens
<1>5. \A x : ~Stopping(x) /\ ~Stepper(x)
  BY <1>2, NoSteppers
<1> DEFINE s == Stop(e, gotoEnd, Len(timers), FALSE)
<1>6. Len(timers) \in Nat
  BY <1>1
<1>7. /\ s \in Frame /\ s.k = "stop" /\ s.elem = e /\ s.gotoEnd = gotoEnd /\ s.had = FALSE
      /\ stack' = <<s>> \o stack
  BY <1>2, <1>6, FrameMade DEF Stop
<1> HIDE DEF s
<1>8. stack \in Seq(Frame)
  BY <1>1 DEF Types
<1>9. stack' # <<>> /\ Me' = s
  BY <1>7, <1>8, FramePushed DEF Me
<1>10. Running("stop")' /\ Me'.elem = e /\ Me'.gotoEnd = gotoEnd /\ Me'.had = FALSE
  BY <1>7, <1>9 DEF Running, Me
<1>11. ASSUME NEW x \in Element, x # e, Alive(x), Marked(x)
       PROVE  Alive(x)' /\ Marked(x)'
  <2>1. queue'[x] = queue[x] /\ mark'[x] = mark[x] /\ (x \in stuck => x \in stuck')
    BY <1>1, <1>3, <1>11
  <2>2. \A d \in sleeping : d.elem = x => d \in sleeping'
    <3> SUFFICES ASSUME NEW d \in sleeping, d.elem = x
                 PROVE  d \in sleeping'
      OBVIOUS
    <3>1. hooks[e] # 0 => hooks[e] \in Ids(e)
      BY DEF StepInv, EntryInv
    <3>2. Ids(e) \cap Ids(x) = {} /\ d.id \in Ids(x)
      BY <1>11 DEF StepInv, EntryInv
    <3> QED
      BY <1>3, <3>1, <3>2
  <2>3. ~Stopping(x)'
    BY <1>10, <1>11 DEF Stopping
  <2> QED
    BY <1>4, <1>5, <1>11, <2>1, <2>2, <2>3, Aside
<1>12. CASE ~gotoEnd
  <2>1. Stopping(e)' /\ Stepper(e)' /\ mark'[e] = 0
    BY <1>1, <1>3, <1>10, <1>12 DEF Stopping, Stepper
  <2>2. Alive(e)' /\ Marked(e)'
    BY <2>1 DEF Alive, Marked
  <2> QED
    BY <1>2, <1>11, <2>2, CaresOf
<1>13. CASE gotoEnd
  <2>1. ~Stopping(e)' /\ mark' = mark
    BY <1>3, <1>10, <1>13 DEF Stopping
  <2>2. Tokens(e, FALSE)' = Tokens(e, FALSE) /\ Tokens(e, TRUE)' = Tokens(e, TRUE)
    BY <1>4
  <2>3. Marked(e) => Marked(e)'
    BY <1>5, <2>1, <2>2 DEF Marked
  <2>4. Moves(e)' <=> Moves(e)
    BY <1>3 DEF Moves
  <2>5. Alive(e) => Alive(e)'
    <3>1. CASE clear
      <4>1. queue'[e] = <<>>
        BY <1>1, <1>3, <3>1
      <4> QED
        BY <4>1 DEF Alive
    <3>2. CASE ~Moves(e)
      <4>1. Stepper(e)'
        BY <1>10, <1>13, <2>4, <3>2 DEF Stepper
      <4> QED
        BY <4>1 DEF Alive
    <3>3. CASE ~clear /\ Moves(e) /\ hooks[e] # 0
      BY <1>3, <1>13, <3>3 DEF Alive
    <3>4. CASE ~clear /\ hooks[e] = 0
      <4>1. UNCHANGED <<queue, sleeping, stuck>>
        BY <1>3, <3>4
      <4> QED
        BY <1>5, <2>2, <4>1 DEF Alive, Tok
    <3> QED
      BY <3>1, <3>2, <3>3, <3>4
  <2> QED
    BY <1>2, <1>11, <2>3, <2>5, CaresOf
<1> QED
  BY <1>12, <1>13

LEMMA QueuedCares ==
  ASSUME StepInv, StepInv', CareInv, stack # <<>> => Me.k = "user", NEW e \in Element, NEW c,
         UNCHANGED <<threw, mark, sleeping, stuck>>,
         queue' = [queue EXCEPT ![e] = Append(queue[e], c)],
         stack' = Starts(e) \o stack,
         \A x, q : Tokens(x, q)' = Tokens(x, q)
  PROVE  CareInv'
<1>1. queue \in [Element -> Seq(Queueable \cup {Sentinel})] /\ stack \in Seq(Frame)
  BY DEF StepInv, Types
<1>2. \A x : ~Stopping(x) /\ ~Stepper(x)
  BY NoSteppers
<1>3. Dequeue(e) \in Frame /\ Dequeue(e).k = "dequeue" /\ Dequeue(e).elem = e
  BY FrameMade DEF Dequeue
<1>4. InProgress(queue[e]) => stack' = stack
  BY StartsFrames
<1>5. ~InProgress(queue[e]) => stack' # <<>> /\ Me' = Dequeue(e)
  <2>1. PICK d \in Frame : d = Dequeue(e)
    BY <1>3
  <2>2. ~InProgress(queue[e]) => stack' = <<d>> \o stack
    BY <2>1, StartsFrames
  <2>3. stack' = <<d>> \o stack => stack' # <<>> /\ Head(stack') = d
    BY <1>1, <2>1, FramePushed
  <2> QED
    BY <2>1, <2>2, <2>3 DEF Me
<1>6. \A x : ~Stopping(x)'
  <2>1. CASE InProgress(queue[e])
    BY <1>4, <2>1 DEF Stopping, Running, Me
  <2>2. CASE ~InProgress(queue[e])
    BY <1>3, <1>5, <2>2 DEF Stopping, Running, Me
  <2> QED
    BY <2>1, <2>2
<1>7. ASSUME NEW x \in Element, x # e, Alive(x), Marked(x)
      PROVE  Alive(x)' /\ Marked(x)'
  <2>1. queue'[x] = queue[x]
    BY <1>1, <1>7
  <2> QED
    BY <1>2, <1>6, <1>7, <2>1, Aside
<1>8. Marked(e) => Marked(e)'
  BY <1>2, <1>6 DEF Marked
<1>9. Alive(e) => Alive(e)'
  <2>1. CASE InProgress(queue[e])
    <3>1. queue[e] # <<>>
      BY <2>1 DEF InProgress
    <3> QED
      BY <1>2, <3>1 DEF Alive, Tok
  <2>2. CASE ~InProgress(queue[e])
    BY <1>3, <1>5, <2>2 DEF Alive, Stepper, Running, Me
  <2> QED
    BY <2>1, <2>2
<1> QED
  BY <1>7, <1>8, <1>9, CaresOf

LEMMA AnimateCares ==
  ASSUME StepInv, StepInv', CareInv, NEW e \in Element, NEW c \in Choice, Animate(e, c)
  PROVE  CareInv'
<1>1. Types /\ mark \in [Element -> Nat] /\ count \in Nat
  BY DEF StepInv, Types
<1>2. /\ stack # <<>> => Me.k = "user"
      /\ UNCHANGED <<threw, sleeping, stuck>>
  BY <1>1, AnimateIs
<1>3. CASE /\ mark' = mark /\ stack' = Starts(e) \o stack
           /\ \E en \in Queueable : /\ queue' = [queue EXCEPT ![e] = Append(queue[e], en)]
                                    /\ asked' = [asked EXCEPT ![e] = Append(asked[e], en)]
           /\ \A x, q : Tokens(x, q)' = Tokens(x, q)
  BY <1>2, <1>3, QueuedCares
<1>4. CASE /\ mark' = [mark EXCEPT ![e] = mark[e] + 1] /\ queue' = queue
           /\ Running("begin")'
           /\ \A x, q : x # e \/ q # FALSE => Tokens(x, q)' = Tokens(x, q)
           /\ Tokens(e, FALSE)' = Tokens(e, FALSE) \cup {count + 1}
           /\ count + 1 \notin Tokens(e, FALSE)
  <2>1. \A x : ~Stopping(x) /\ ~Stepper(x) /\ ~Stopping(x)'
    BY <1>2, <1>4, NoSteppers DEF Stopping, Running
  <2>2. ASSUME NEW x \in Element, x # e, Alive(x), Marked(x)
        PROVE  Alive(x)' /\ Marked(x)'
    <3>1. mark'[x] = mark[x] /\ \A q : Tokens(x, q)' = Tokens(x, q)
      BY <1>1, <1>4, <2>2
    <3> QED
      BY <1>2, <1>4, <2>1, <2>2, <3>1, Aside
  <2>3. Alive(e) => Alive(e)'
    <3>1. Tokens(e, TRUE)' = Tokens(e, TRUE)
      BY <1>4
    <3> QED
      BY <1>2, <1>4, <2>1, <3>1 DEF Alive, Tok
  <2>4. Marked(e) => Marked(e)'
    <3>1. Cardinality(Tokens(e, FALSE) \cup {count + 1}) = Cardinality(Tokens(e, FALSE)) + 1
      BY <1>1, <1>4, TokensFinite, FS_AddElement
    <3>2. mark'[e] = mark[e] + 1
      BY <1>1, <1>4
    <3> QED
      BY <1>4, <2>1, <3>1, <3>2 DEF Marked
  <2> QED
    BY <1>2, <2>2, <2>3, <2>4, CaresOf
<1> QED
  BY <1>3, <1>4, AnimateTokens

LEMMA DelayCares ==
  ASSUME StepInv, StepInv', CareInv, NEW e \in Element, Delay(e)
  PROVE  CareInv'
<1>1. Types
  BY DEF StepInv
<1>2. /\ stack # <<>> => Me.k = "user"
      /\ UNCHANGED <<threw, mark, sleeping, stuck>> /\ stack' = Starts(e) \o stack
      /\ \E en : queue' = [queue EXCEPT ![e] = Append(queue[e], en)]
  BY <1>1, DelayIs DEF waitVars
<1>3. \A x, q : Tokens(x, q)' = Tokens(x, q)
  BY DelayTokens
<1> QED
  BY <1>2, <1>3, QueuedCares

-----------------------------------------------------------------------------
\* A call or a timeout that leaves the stack and the animations alone.
LEMMA SameCares ==
  ASSUME StepInv, StepInv', CareInv, stack' = stack, stack # <<>> => Me.k = "user",
         count' = count \/ count' = count + 1,
         UNCHANGED <<timers, anim, threw, mark, sleeping, stuck>>,
         \A x \in Element : queue'[x] = queue[x] \/ queue'[x] = <<>>
  PROVE  CareInv'
<1>1. \A x, q : Tokens(x, q)' = Tokens(x, q)
  BY SameTokens
<1>2. \A x : ~Stopping(x) /\ ~Stepper(x) /\ ~Stopping(x)'
  BY NoSteppers DEF Stopping, Running, Me
<1>3. ASSUME NEW x \in Element, Alive(x), Marked(x)
      PROVE  Alive(x)' /\ Marked(x)'
  <2>1. Marked(x)'
    BY <1>1, <1>2, <1>3 DEF Marked
  <2>2. CASE queue'[x] = <<>>
    BY <2>1, <2>2 DEF Alive
  <2>3. CASE queue'[x] = queue[x]
    BY <1>1, <1>2, <1>3, <2>3, Aside
  <2> QED
    BY <2>2, <2>3
<1> QED
  BY <1>3, CaresOf

LEMMA ClearQueueCares ==
  ASSUME StepInv, StepInv', CareInv, NEW e \in Element, ClearQueue(e)
  PROVE  CareInv'
<1>1. Types /\ queue \in [Element -> Seq(Queueable \cup {Sentinel})]
  BY DEF StepInv, Types
<1>2. /\ stack # <<>> => Me.k = "user"
      /\ count' = count + 1 /\ stack' = stack
      /\ UNCHANGED <<timers, anim, threw, mark, sleeping, stuck>>
      /\ queue' = [queue EXCEPT ![e] = <<>>]
  BY <1>1, ClearQueueIs
<1>3. \A x \in Element : queue'[x] = queue[x] \/ queue'[x] = <<>>
  BY <1>1, <1>2
<1> QED
  BY <1>2, <1>3, SameCares

\* One that leaves the queues alone as well.
LEMMA CallQuiet ==
  ASSUME StepInv, StepInv', stack' = stack, stack # <<>> => Me.k = "user",
         count' = count \/ count' = count + 1, UNCHANGED <<timers, anim, quietVars>>
  PROVE  Quiet
<1>1. \A x, q : Tokens(x, q)' = Tokens(x, q)
  BY SameTokens
<1>2. ~Running("dequeue") /\ ~Running("stop") /\ ~Running("dequeue")' /\ ~Running("stop")'
  BY DEF Running, Me
<1> QED
  BY <1>1, <1>2, IsQuiet

LEMMA NowQuiet ==
  ASSUME StepInv, StepInv', NEW e \in Element, NEW shown, ShowOrHideNow(e, shown)
  PROVE  Quiet
<1>1. Types
  BY DEF StepInv
<1>2. stack # <<>> => Me.k = "user"
  BY <1>1, MayIs DEF ShowOrHideNow
<1>3. count' = count + 1 /\ stack' = stack /\ UNCHANGED <<timers, anim, quietVars>>
  BY <1>1, NowIs DEF entryVars, waitVars, quietVars
<1> QED
  BY <1>2, <1>3, CallQuiet

LEMMA PromiseQuiet ==
  ASSUME StepInv, StepInv', NEW s \in SUBSET Element, Promise(s)
  PROVE  Quiet
<1>1. Types
  BY DEF StepInv
<1>2. stack # <<>> => Me.k = "user"
  BY <1>1, MayIs DEF Promise
<1>3. count' = count + 1 /\ stack' = stack /\ UNCHANGED <<timers, anim, quietVars>>
  BY <1>1, PromiseIs DEF entryVars, quietVars
<1> QED
  BY <1>2, <1>3, CallQuiet

LEMMA CheckQuiet ==
  ASSUME StepInv, StepInv', Check
  PROVE  Quiet
<1>1. Types
  BY DEF StepInv
<1>2. /\ stack = <<>> /\ count' = count /\ stack' = stack
      /\ UNCHANGED <<timers, anim, quietVars>>
  BY <1>1, CheckIs DEF entryVars, quietVars
<1> QED
  BY <1>2, CallQuiet

\* The steps that are quiet.
QuietStep ==
  \/ \E e \in Element : ToggleNow(e) \/ \E shown \in BOOLEAN : ShowOrHideNow(e, shown)
  \/ \E s \in SUBSET Element : Promise(s)
  \/ \E due \in SUBSET DOMAIN anim : Interval(due)
  \/ DequeueEnds \/ BeginStep \/ CustomStep \/ ShowStep \/ CompleteStep \/ TickStep
  \/ TickGoesOn \/ Returns \/ Check

LEMMA QuietSteps ==
  ASSUME StepInv, StepInv', QuietStep
  PROVE  Quiet
<1>1. ASSUME NEW e \in Element, NEW shown, ShowOrHideNow(e, shown)
      PROVE  Quiet
  BY <1>1, NowQuiet
<1>2. ASSUME NEW s \in SUBSET Element, Promise(s)
      PROVE  Quiet
  BY <1>2, PromiseQuiet
<1>3. ASSUME NEW due, Interval(due)
      PROVE  Quiet
  BY <1>3, IntervalQuiet
<1>4. CASE \/ DequeueEnds \/ BeginStep \/ CustomStep \/ ShowStep \/ CompleteStep \/ TickStep
           \/ TickGoesOn \/ Returns \/ Check
  BY <1>4, DequeueEndsQuiet, BeginQuiet, CustomQuiet, ShowQuiet, CompleteQuiet, TickQuiet,
     TickGoesOnQuiet, ReturnsQuiet, CheckQuiet
<1> QED
  BY <1>1, <1>2, <1>3, <1>4 DEF QuietStep, ToggleNow

LEMMA WakesCares ==
  ASSUME StepInv, StepInv', CareInv, NEW d \in sleeping, Wakes(d)
  PROVE  CareInv'
<1>1. Types /\ d.elem \in Element
  BY DEF StepInv, Types
<1>2. /\ stack = <<>> /\ stack' = <<Dequeue(d.elem)>> /\ sleeping' = sleeping \ {d}
      /\ UNCHANGED <<queue, threw, mark, stuck>>
  BY <1>1, WakesIs DEF waitVars
<1>3. \A x, q : Tokens(x, q)' = Tokens(x, q)
  BY WakesTokens
<1>4. PICK e : e = d.elem
  OBVIOUS
<1>5. stack' # <<>> /\ Me' = Dequeue(e)
  BY <1>2, <1>4 DEF Me
<1>6. Running("dequeue")' /\ Me'.elem = e /\ ~Running("stop")'
  BY <1>5 DEF Running, Me, Dequeue
<1>7. \A x : ~Stopping(x) /\ ~Stopping(x)' /\ ~Stepper(x)
  BY <1>2, <1>6 DEF Stopping, Stepper, Running
<1>8. ASSUME NEW x \in Element, Alive(x), Marked(x)
      PROVE  Alive(x)' /\ Marked(x)'
  <2>1. CASE x # e
    <3>1. \A s \in sleeping : s.elem = x => s \in sleeping'
      BY <1>2, <1>4, <2>1
    <3> QED
      BY <1>2, <1>3, <1>7, <1>8, <3>1, Aside
  <2>2. CASE x = e
    <3>1. Stepper(x)'
      BY <1>6, <2>2 DEF Stepper
    <3>2. Marked(x)'
      BY <1>2, <1>3, <1>7, <1>8 DEF Marked
    <3> QED
      BY <3>1, <3>2 DEF Alive
  <2> QED
    BY <2>1, <2>2
<1> QED
  BY <1>2, <1>8, CaresOf

LEMMA ThrowsCares ==
  ASSUME StepInv, CareInv, Throws
  PROVE  CareInv'
<1>1. threw' = TRUE
  BY ThrowsIs DEF StepInv
<1> QED
  BY <1>1 DEF CareInv, AliveInv, MarkInv

LEMMA StillTokens ==
  ASSUME UNCHANGED vars
  PROVE  \A x, q : Tokens(x, q)' = Tokens(x, q)
<1>0. timers' = timers /\ anim' = anim /\ count' = count /\ stack' = stack
  BY DEF vars
<1>1. \A a : Live(a)' <=> Live(a)
  BY <1>0 DEF Live, Rest, Held
<1>2. \A a : UnderWay(a)' <=> UnderWay(a)
  BY <1>0, <1>1 DEF UnderWay
<1>3. \A a, x, q : Begins(a, x, q)' <=> Begins(a, x, q)
  BY <1>0 DEF Begins, Running, Me
<1> QED
  BY <1>0, <1>2, <1>3 DEF Tokens, IsToken

LEMMA StillCares ==
  ASSUME CareInv, UNCHANGED vars
  PROVE  CareInv'
<1>0. /\ queue' = queue /\ sleeping' = sleeping /\ timers' = timers /\ anim' = anim /\ mark' = mark
      /\ stuck' = stuck /\ threw' = threw /\ stack' = stack
  BY DEF vars
<1>1. \A x, q : Tokens(x, q)' = Tokens(x, q)
  BY StillTokens
<1>2. \A x : Moves(x)' <=> Moves(x)
  BY <1>0 DEF Moves
<1>3. \A x : (Stepper(x)' <=> Stepper(x)) /\ (Stopping(x)' <=> Stopping(x))
  BY <1>0, <1>2 DEF Stepper, Stopping, Running, Me
<1>4. \A x \in Element : Alive(x) /\ Marked(x) => Alive(x)' /\ Marked(x)'
  BY <1>0, <1>1, <1>3 DEF Alive, Tok, Marked
<1> QED
  BY <1>0, <1>4, CaresOf

LEMMA CareInvKept ==
  ASSUME StepInv, StepInv', CareInv, [PlainNext]_vars
  PROVE  CareInv'
<1>1. ASSUME NEW e \in Element, NEW c \in world.choices, Animate(e, c)
      PROVE  CareInv'
  <2>1. c \in Choice
    BY <1>1, EffectsAssumption DEF StepInv, Types
  <2> QED
    BY <1>1, <2>1, AnimateCares
<1>2. ASSUME NEW e \in Element, Delay(e) \/ ClearQueue(e)
      PROVE  CareInv'
  BY <1>2, DelayCares, ClearQueueCares
<1>3. ASSUME NEW e \in Element, NEW clear \in BOOLEAN, NEW gotoEnd \in BOOLEAN,
             StopFree(e, clear, gotoEnd)
      PROVE  CareInv'
  BY <1>3, StopNowCares
<1>4. ASSUME NEW d \in sleeping, Wakes(d)
      PROVE  CareInv'
  BY <1>4, WakesCares
<1>5. CASE QuietStep
  BY <1>5, QuietSteps, QuietCares
<1>6. CASE \/ DequeueStep \/ CompleteEnds \/ StopStep \/ StopGoesOn \/ Throws \/ UNCHANGED vars
  BY <1>6, DequeueCares, CompleteEndsCares, StopCares, StopGoesOnCares, ThrowsCares, StillCares
<1> QED
  BY <1>1, <1>2, <1>3, <1>4, <1>5, <1>6 DEF PlainNext, NoStop, Call, JQuery, QuietStep

-----------------------------------------------------------------------------
(***************************************************************************)
(* Who waits.                                                              *)
(***************************************************************************)
Waits(e) == [elem |-> e, defer |-> defer[e]]
Awaited(e) == queue[e] # <<>> \/ mark[e] # 0

\* Nobody's list is changed; what comes to its end checks for it.
LEMMA WaitsKept ==
  ASSUME Types, WaitInv, UNCHANGED <<defer, waits, missed>>, count' = count \/ count' = count + 1,
         Among(checks) \subseteq Among(checks'),
         \A e \in Element : Awaited(e) =>
           queue'[e] # <<>> \/ mark'[e] # 0 \/ defer[e] = 0 \/ Waits(e) \in Among(checks')
  PROVE  WaitInv'
<1>1. count \in Nat
  BY DEF Types
<1>2. \A p \in 1 .. count : p \in 1 .. count'
  BY <1>1
<1>3. \A p \in DOMAIN waits' : p \in 1 .. count' /\ \A x \in waits'[p] :
        x \in missed' \/ (x.defer = defer'[x.elem] /\ x.defer # 0)
  BY <1>2 DEF WaitInv
<1>4. \A e \in Element : defer'[e] # 0 =>
       queue'[e] # <<>> \/ mark'[e] # 0 \/ [elem |-> e, defer |-> defer'[e]] \in Among(checks')
  BY DEF WaitInv, Awaited, Waits
<1> QED
  BY <1>3, <1>4 DEF WaitInv

LEMMA WaitsSame ==
  ASSUME Types, WaitInv, UNCHANGED <<queue, waitVars>>, count' = count \/ count' = count + 1
  PROVE  WaitInv'
<1>1. UNCHANGED <<queue, mark, defer, waits, missed, checks>>
  BY DEF waitVars
<1> QED
  BY <1>1, WaitsKept DEF Awaited

LEMMA ChecksGrow ==
  ASSUME Types, NEW e \in Element, NEW b,
         checks' = IF b THEN Append(checks, [elem |-> e, defer |-> defer[e]]) ELSE checks
  PROVE  Among(checks) \subseteq Among(checks') /\ (b => Waits(e) \in Among(checks'))
<1>1. checks \in Seq(Waiter) /\ Waits(e) \in Waiter
  BY DEF Types, Waits, Waiter
<1>2. Among(Append(checks, Waits(e))) = {Waits(e)} \cup Among(checks)
  BY <1>1, Appended
<1> QED
  BY <1>2 DEF Waits

LEMMA DequeueWaits ==
  ASSUME StepInv, WaitInv, DequeueStep
  PROVE  WaitInv'
<1>1. Types /\ queue \in [Element -> Seq(Queueable \cup {Sentinel})]
  BY DEF StepInv, Types
<1>2. PICK e, rest : e = Me.elem /\ rest = After(e)
  OBVIOUS
<1>3. /\ e \in Element /\ UNCHANGED <<mark, defer, waits, missed, count>>
      /\ \/ /\ rest = <<>> /\ queue' = [queue EXCEPT ![e] = <<>>]
            /\ checks' = IF mark[e] = 0 /\ defer[e] # 0
                         THEN Append(checks, [elem |-> e, defer |-> defer[e]]) ELSE checks
         \/ /\ rest # <<>> /\ queue' = [queue EXCEPT ![e] = <<Sentinel>> \o Tail(rest)]
            /\ checks' = checks
  BY <1>1, <1>2, DequeueIs
<1>4. \A x \in Element : x # e => queue'[x] = queue[x]
  BY <1>1, <1>3
<1>5. CASE /\ rest = <<>> /\ queue' = [queue EXCEPT ![e] = <<>>]
           /\ checks' = IF mark[e] = 0 /\ defer[e] # 0
                        THEN Append(checks, [elem |-> e, defer |-> defer[e]]) ELSE checks
  <2>1. /\ Among(checks) \subseteq Among(checks')
        /\ mark[e] = 0 /\ defer[e] # 0 => Waits(e) \in Among(checks')
    BY <1>1, <1>3, <1>5, ChecksGrow
  <2> QED
    BY <1>1, <1>3, <1>4, <2>1, WaitsKept DEF Awaited
<1>6. CASE /\ rest # <<>> /\ queue' = [queue EXCEPT ![e] = <<Sentinel>> \o Tail(rest)]
           /\ checks' = checks
  <2>1. <<Sentinel>> \o Tail(rest) # <<>>
    <3>1. Tail(rest) \in Seq(Queueable)
      BY <1>2, <1>3, <1>6, AfterIs
    <3> QED
      BY <3>1
  <2>2. queue'[e] # <<>>
    BY <1>1, <1>3, <1>6, <2>1
  <2> QED
    BY <1>1, <1>3, <1>4, <1>6, <2>2, WaitsKept DEF Awaited
<1> QED
  BY <1>3, <1>5, <1>6

LEMMA DequeueEndsWaits ==
  ASSUME StepInv, WaitInv, DequeueEnds
  PROVE  WaitInv'
<1>1. Types /\ checks \in Seq(Waiter)
  BY DEF StepInv, Types
<1>2. /\ UNCHANGED <<queue, mark, defer, waits, missed, count>>
      /\ checks' = checks \/ \E c \in Waiter : checks' = Append(checks, c)
  BY <1>1, DequeueEndsIs
<1>3. Among(checks) \subseteq Among(checks')
  <2>1. CASE checks' = checks
    BY <2>1
  <2>2. ASSUME NEW c \in Waiter, checks' = Append(checks, c)
        PROVE  Among(checks) \subseteq Among(checks')
    <3>1. Among(Append(checks, c)) = {c} \cup Among(checks)
      BY <1>1, Appended
    <3> QED
      BY <2>2, <3>1
  <2> QED
    BY <1>2, <2>1, <2>2
<1> QED
  BY <1>1, <1>2, <1>3, WaitsKept DEF Awaited

LEMMA CompleteEndsWaits ==
  ASSUME StepInv, WaitInv, CompleteEnds
  PROVE  WaitInv'
<1>1. Types /\ mark \in [Element -> Nat]
  BY DEF StepInv, Types
<1>2. stack # <<>> /\ Me.k = "completed" /\ Me.anim \in DOMAIN anim
  BY Frames DEF CompleteEnds, Running, Me
<1>3. PICK b, e : b = anim[Me.anim].queued /\ e = anim[Me.anim].elem
  OBVIOUS
<1>4. /\ e \in Element /\ UNCHANGED <<queue, defer, waits, missed, count>>
      /\ IF b
         THEN UNCHANGED <<mark, checks>>
         ELSE /\ mark' = [mark EXCEPT ![e] = IF mark[e] = 0 THEN 0 ELSE mark[e] - 1]
              /\ checks' = IF mark'[e] = 0 /\ defer[e] # 0 /\ queue[e] = <<>>
                           THEN Append(checks, [elem |-> e, defer |-> defer[e]]) ELSE checks
  BY <1>1, <1>2, <1>3, CompleteEndsIs DEF entryVars
<1>5. CASE b
  BY <1>1, <1>4, <1>5, WaitsKept DEF Awaited
<1>6. CASE ~b
  <2>1. \A x \in Element : x # e => mark'[x] = mark[x]
    BY <1>1, <1>4, <1>6
  <2>2. /\ Among(checks) \subseteq Among(checks')
        /\ mark'[e] = 0 /\ defer[e] # 0 /\ queue[e] = <<>> => Waits(e) \in Among(checks')
    BY <1>1, <1>4, <1>6, ChecksGrow
  <2> QED
    BY <1>1, <1>4, <2>1, <2>2, WaitsKept DEF Awaited
<1> QED
  BY <1>5, <1>6

LEMMA QueuedWaits ==
  ASSUME Types, WaitInv, NEW e \in Element, NEW c \in Queueable, UNCHANGED waitVars,
         count' = count \/ count' = count + 1, queue' = [queue EXCEPT ![e] = Append(queue[e], c)]
  PROVE  WaitInv'
<1>1. queue \in [Element -> Seq(Queueable \cup {Sentinel})]
  BY DEF Types
<1>2. UNCHANGED <<mark, defer, waits, missed, checks>>
  BY DEF waitVars
<1>3. queue'[e] # <<>> /\ \A x \in Element : x # e => queue'[x] = queue[x]
  <2>1. queue[e] \in Seq(Queueable \cup {Sentinel})
    BY <1>1
  <2>2. Append(queue[e], c) # <<>>
    BY <2>1
  <2> QED
    BY <1>1, <2>2
<1> QED
  BY <1>2, <1>3, WaitsKept DEF Awaited

LEMMA AnimateWaits ==
  ASSUME StepInv, WaitInv, NEW e \in Element, NEW c \in Choice, Animate(e, c)
  PROVE  WaitInv'
<1>1. Types /\ mark \in [Element -> Nat]
  BY DEF StepInv, Types
<1>2. count' = count + 1 /\ UNCHANGED <<defer, checks, waits, missed>>
  BY <1>1, AnimateIs
<1>3. PICK en \in AnimEntry :
        \/ en.queued /\ mark' = mark /\ queue' = [queue EXCEPT ![e] = Append(queue[e], en)]
        \/ ~en.queued /\ mark' = [mark EXCEPT ![e] = mark[e] + 1] /\ queue' = queue
  BY <1>1, AnimateIs
<1>4. CASE en.queued /\ mark' = mark /\ queue' = [queue EXCEPT ![e] = Append(queue[e], en)]
  <2>1. en \in Queueable
    BY <1>4 DEF Queueable
  <2>2. UNCHANGED waitVars
    BY <1>2, <1>4 DEF waitVars
  <2> QED
    BY <1>1, <1>2, <1>4, <2>1, <2>2, QueuedWaits
<1>5. CASE mark' = [mark EXCEPT ![e] = mark[e] + 1] /\ queue' = queue
  <2>1. mark'[e] # 0 /\ \A x \in Element : x # e => mark'[x] = mark[x]
    BY <1>1, <1>5
  <2> QED
    BY <1>1, <1>2, <1>5, <2>1, WaitsKept DEF Awaited
<1> QED
  BY <1>3, <1>4, <1>5

LEMMA DelayWaits ==
  ASSUME StepInv, WaitInv, NEW e \in Element, Delay(e)
  PROVE  WaitInv'
<1>1. Types /\ count \in Nat
  BY DEF StepInv, Types
<1> DEFINE en == [k |-> "delay", id |-> count + 1]
<1>2. en \in Queueable
  BY <1>1 DEF Queueable
<1>3. count' = count + 1 /\ UNCHANGED waitVars /\ queue' = [queue EXCEPT ![e] = Append(queue[e], en)]
  BY <1>1, DelayIs
<1> HIDE DEF en
<1> QED
  BY <1>1, <1>2, <1>3, QueuedWaits

LEMMA ClearQueueWaits ==
  ASSUME StepInv, WaitInv, NEW e \in Element, ClearQueue(e)
  PROVE  WaitInv'
<1>1. Types /\ queue \in [Element -> Seq(Queueable \cup {Sentinel})]
  BY DEF StepInv, Types
<1>2. /\ count' = count + 1 /\ UNCHANGED <<mark, defer, waits, missed>>
      /\ queue' = [queue EXCEPT ![e] = <<>>]
      /\ checks' = IF mark[e] = 0 /\ defer[e] # 0
                   THEN Append(checks, [elem |-> e, defer |-> defer[e]]) ELSE checks
  BY <1>1, ClearQueueIs
<1>3. \A x \in Element : x # e => queue'[x] = queue[x]
  BY <1>1, <1>2
<1>4. /\ Among(checks) \subseteq Among(checks')
      /\ mark[e] = 0 /\ defer[e] # 0 => Waits(e) \in Among(checks')
  BY <1>1, <1>2, ChecksGrow
<1> QED
  BY <1>1, <1>2, <1>3, <1>4, WaitsKept DEF Awaited

LEMMA StopNowWaits ==
  ASSUME StepInv, WaitInv, NEW e \in Element, NEW clear \in BOOLEAN,
         NEW gotoEnd \in BOOLEAN, StopFree(e, clear, gotoEnd)
  PROVE  WaitInv'
<1>1. /\ Types /\ queue \in [Element -> Seq(Queueable \cup {Sentinel})]
      /\ mark \in [Element -> Nat]
  BY DEF StepInv, Types
<1>2. count' = count + 1 /\ Becomes(StopBegins(Page, e, clear, gotoEnd))
  BY <1>1, StopNowIs
<1>3. /\ UNCHANGED <<defer, waits, missed>>
      /\ queue' = IF clear THEN [queue EXCEPT ![e] = <<>>] ELSE queue
      /\ mark' = IF gotoEnd THEN mark ELSE [mark EXCEPT ![e] = 0]
      /\ Among(checks) \subseteq Among(checks')
      /\ clear \/ ~gotoEnd =>
           defer[e] = 0 \/ queue'[e] # <<>> \/ mark'[e] # 0
           \/ [elem |-> e, defer |-> defer[e]] \in Among(checks')
  BY <1>1, <1>2, StopBeginsIs
<1>4. \A x \in Element : x # e => queue'[x] = queue[x] /\ mark'[x] = mark[x]
  BY <1>1, <1>3
<1>5. clear \/ ~gotoEnd =>
        queue'[e] # <<>> \/ mark'[e] # 0 \/ defer[e] = 0 \/ Waits(e) \in Among(checks')
  BY <1>3 DEF Waits
<1>6. ~(clear \/ ~gotoEnd) => queue'[e] = queue[e] /\ mark'[e] = mark[e]
  BY <1>3
<1> QED
  BY <1>1, <1>2, <1>3, <1>4, <1>5, <1>6, WaitsKept DEF Awaited

-----------------------------------------------------------------------------
LEMMA PromiseWaits ==
  ASSUME StepInv, WaitInv, NEW s \in SUBSET Element, Promise(s)
  PROVE  WaitInv'
<1>1. /\ Types /\ count \in Nat /\ defer \in [Element -> Nat]
      /\ \A p \in DOMAIN waits : waits[p] \subseteq Waiter
  BY DEF StepInv, Types
<1>2. PICK me, of : me = count + 1 /\ of = {e \in s : defer[e] # 0 \/ queue[e] # <<>> \/ mark[e] # 0}
  OBVIOUS
<1>3. /\ UNCHANGED <<queue, mark, checks, missed>> /\ count' = me
      /\ defer' = [e \in Element |-> IF e \in of /\ defer[e] = 0 THEN me ELSE defer[e]]
      /\ DOMAIN waits' = DOMAIN waits \cup {me}
      /\ waits'[me] = {[elem |-> e, defer |-> defer'[e]] : e \in of}
      /\ \A p \in DOMAIN waits : p # me => waits'[p] = waits[p]
  BY <1>1, <1>2, PromiseIs DEF entryVars
<1>4. \A e \in Element : /\ defer[e] # 0 => defer'[e] = defer[e]
                         /\ e \in of => defer'[e] # 0
  BY <1>1, <1>2, <1>3
<1>5. ASSUME NEW p \in DOMAIN waits'
      PROVE  p \in 1 .. count' /\ \A x \in waits'[p] :
               x \in missed' \/ (x.defer = defer'[x.elem] /\ x.defer # 0)
  <2>1. CASE p = me
    <3>1. p \in 1 .. count'
      BY <1>1, <1>2, <1>3, <2>1
    <3>2. ASSUME NEW x \in waits'[p]
          PROVE  x.defer = defer'[x.elem] /\ x.defer # 0
      <4>1. PICK e \in of : x = [elem |-> e, defer |-> defer'[e]]
        BY <1>3, <2>1, <3>2
      <4>2. e \in Element /\ x.elem = e /\ x.defer = defer'[e]
        BY <1>2, <4>1
      <4> QED
        BY <1>4, <4>2
    <3> QED
      BY <3>1, <3>2
  <2>2. CASE p # me
    <3>1. p \in DOMAIN waits /\ waits'[p] = waits[p]
      BY <1>3, <1>5, <2>2
    <3>2. p \in 1 .. count
      BY <3>1 DEF WaitInv
    <3>3. p \in 1 .. count'
      BY <1>1, <1>2, <1>3, <3>2
    <3>4. ASSUME NEW x \in waits'[p]
          PROVE  x \in missed' \/ (x.defer = defer'[x.elem] /\ x.defer # 0)
      <4>1. x \in missed \/ (x.defer = defer[x.elem] /\ x.defer # 0)
        BY <3>1, <3>4 DEF WaitInv
      <4>2. x.elem \in Element
        BY <1>1, <3>1, <3>4 DEF Waiter
      <4> QED
        BY <1>3, <1>4, <4>1, <4>2
    <3> QED
      BY <3>3, <3>4
  <2> QED
    BY <2>1, <2>2
<1>6. ASSUME NEW e \in Element, defer'[e] # 0
      PROVE  queue'[e] # <<>> \/ mark'[e] # 0 \/ [elem |-> e, defer |-> defer'[e]] \in Among(checks')
  <2>1. CASE defer[e] # 0
    <3>1. defer'[e] = defer[e]
      BY <1>4, <2>1
    <3> QED
      BY <1>3, <2>1, <3>1 DEF WaitInv
  <2>2. CASE defer[e] = 0
    <3>1. e \in of
      BY <1>3, <1>6, <2>2
    <3> QED
      BY <1>2, <1>3, <2>2, <3>1
  <2> QED
    BY <2>1, <2>2
<1> QED
  BY <1>5, <1>6 DEF WaitInv

LEMMA CheckWaits ==
  ASSUME StepInv, WaitInv, Check
  PROVE  WaitInv'
<1>1. /\ Types /\ defer \in [Element -> Nat] /\ checks \in Seq(Waiter)
      /\ \A p \in DOMAIN waits : waits[p] \subseteq Waiter
  BY DEF StepInv, Types
<1>2. PICK c : c = Head(checks)
  OBVIOUS
<1>3. /\ checks # <<>> /\ checks' = Tail(checks) /\ UNCHANGED <<queue, mark, count>>
      /\ \/ /\ queue[c.elem] = <<>> /\ mark[c.elem] = 0
            /\ defer' = [defer EXCEPT ![c.elem] = 0]
            /\ missed' = missed \cup ({[elem |-> c.elem, defer |-> defer[c.elem]]} \ {c})
            /\ waits' = [p \in DOMAIN waits |-> waits[p] \ {c}]
         \/ /\ ~(queue[c.elem] = <<>> /\ mark[c.elem] = 0)
            /\ UNCHANGED <<defer, missed, waits>>
  BY <1>1, <1>2, CheckIs DEF entryVars
<1>4. Among(checks) = {c} \cup Among(checks') /\ c \in Waiter
  BY <1>1, <1>2, <1>3, Popped
<1>5. c.elem \in Element
  BY <1>4 DEF Waiter
<1>6. ASSUME NEW e \in Element, e # c.elem, defer[e] # 0
      PROVE  queue'[e] # <<>> \/ mark'[e] # 0 \/ [elem |-> e, defer |-> defer[e]] \in Among(checks')
  <2>1. queue[e] # <<>> \/ mark[e] # 0 \/ [elem |-> e, defer |-> defer[e]] \in Among(checks)
    BY <1>6 DEF WaitInv
  <2>2. [elem |-> e, defer |-> defer[e]] # c
    BY <1>6
  <2> QED
    BY <1>3, <1>4, <2>1, <2>2
<1>7. CASE /\ defer' = [defer EXCEPT ![c.elem] = 0]
           /\ missed' = missed \cup ({[elem |-> c.elem, defer |-> defer[c.elem]]} \ {c})
           /\ waits' = [p \in DOMAIN waits |-> waits[p] \ {c}]
  <2>1. defer'[c.elem] = 0 /\ \A e \in Element : e # c.elem => defer'[e] = defer[e]
    BY <1>1, <1>5, <1>7
  <2>2. ASSUME NEW p \in DOMAIN waits'
        PROVE  p \in 1 .. count' /\ \A x \in waits'[p] :
                 x \in missed' \/ (x.defer = defer'[x.elem] /\ x.defer # 0)
    <3>1. p \in DOMAIN waits /\ waits'[p] = waits[p] \ {c}
      BY <1>7, <2>2
    <3>2. p \in 1 .. count'
      BY <1>3, <3>1 DEF WaitInv
    <3>3. ASSUME NEW x \in waits'[p]
          PROVE  x \in missed' \/ (x.defer = defer'[x.elem] /\ x.defer # 0)
      <4>1. x \in waits[p] /\ x # c
        BY <3>1, <3>3
      <4>2. x \in missed \/ (x.defer = defer[x.elem] /\ x.defer # 0)
        BY <3>1, <4>1 DEF WaitInv
      <4>3. x \in Waiter
        BY <1>1, <3>1, <4>1
      <4>4. x.elem \in Element /\ x = [elem |-> x.elem, defer |-> x.defer]
        BY <4>3 DEF Waiter
      <4>5. CASE x \in missed
        BY <1>7, <4>5
      <4>6. CASE x.elem # c.elem
        BY <1>7, <2>1, <4>2, <4>4, <4>6
      <4>7. CASE x.elem = c.elem /\ x.defer = defer[x.elem]
        <5>1. x = [elem |-> c.elem, defer |-> defer[c.elem]]
          BY <4>4, <4>7
        <5> QED
          BY <1>7, <4>1, <5>1
      <4> QED
        BY <4>2, <4>5, <4>6, <4>7
    <3> QED
      BY <3>2, <3>3
  <2>3. \A e \in Element : defer'[e] # 0 =>
         queue'[e] # <<>> \/ mark'[e] # 0 \/ [elem |-> e, defer |-> defer'[e]] \in Among(checks')
    BY <1>6, <2>1
  <2> QED
    BY <2>2, <2>3 DEF WaitInv
<1>8. CASE ~(queue[c.elem] = <<>> /\ mark[c.elem] = 0) /\ UNCHANGED <<defer, missed, waits>>
  <2>1. \A p \in DOMAIN waits' : p \in 1 .. count' /\ \A x \in waits'[p] :
          x \in missed' \/ (x.defer = defer'[x.elem] /\ x.defer # 0)
    BY <1>3, <1>8 DEF WaitInv
  <2>2. \A e \in Element : defer'[e] # 0 =>
         queue'[e] # <<>> \/ mark'[e] # 0 \/ [elem |-> e, defer |-> defer'[e]] \in Among(checks')
    BY <1>3, <1>6, <1>8
  <2> QED
    BY <2>1, <2>2 DEF WaitInv
<1> QED
  BY <1>3, <1>7, <1>8

LEMMA WaitInvKept ==
  ASSUME StepInv, WaitInv, [PlainNext]_vars
  PROVE  WaitInv'
<1>0. Types
  BY DEF StepInv
<1>1. ASSUME NEW e \in Element, NEW c \in world.choices, Animate(e, c)
      PROVE  WaitInv'
  <2>1. c \in Choice
    BY <1>1, EffectsAssumption DEF StepInv, Types
  <2> QED
    BY <1>1, <2>1, AnimateWaits
<1>2. ASSUME NEW e \in Element, Delay(e) \/ ClearQueue(e)
      PROVE  WaitInv'
  BY <1>2, DelayWaits, ClearQueueWaits
<1>3. ASSUME NEW e \in Element, NEW clear \in BOOLEAN, NEW gotoEnd \in BOOLEAN,
             StopFree(e, clear, gotoEnd)
      PROVE  WaitInv'
  BY <1>3, StopNowWaits
<1>4. ASSUME NEW e \in Element, NEW shown, ShowOrHideNow(e, shown)
      PROVE  WaitInv'
  <2>1. UNCHANGED <<entryVars, waitVars>> /\ count' = count + 1
    BY <1>0, <1>4, NowIs
  <2> QED
    BY <1>0, <2>1, WaitsSame DEF entryVars
<1>5. ASSUME NEW s \in SUBSET Element, Promise(s)
      PROVE  WaitInv'
  BY <1>5, PromiseWaits
<1>6. ASSUME NEW due, Interval(due)
      PROVE  WaitInv'
  <2>1. UNCHANGED <<entryVars, waitVars, count>>
    BY <1>0, <1>6, IntervalIs
  <2> QED
    BY <1>0, <2>1, WaitsSame DEF entryVars
<1>7. ASSUME NEW d \in sleeping, Wakes(d)
      PROVE  WaitInv'
  <2>1. UNCHANGED <<queue, waitVars, count>>
    BY Zenon, <1>0, <1>7, WakesIs
  <2> QED
    BY <1>0, <2>1, WaitsSame
<1>8. CASE BeginStep \/ ShowStep \/ TickGoesOn \/ StopGoesOn \/ Returns \/ Throws
  <2>1. UNCHANGED <<entryVars, waitVars, count>>
    BY <1>0, <1>8, BeginIs, ShowIs, TickGoesOnIs, StopGoesOnIs, ReturnsIs, ThrowsIs DEF StepInv
  <2> QED
    BY <1>0, <2>1, WaitsSame DEF entryVars
<1>9. CASE CompleteStep \/ TickStep
  <2>1. UNCHANGED <<entryVars, waitVars, count>>
    BY <1>0, <1>9, CompleteIs, TickIs, Frames
  <2> QED
    BY <1>0, <2>1, WaitsSame DEF entryVars
<1>10. CASE CustomStep
  <2>1. stack # <<>> /\ Me.k = "custom"
    BY <1>10 DEF CustomStep, Running, Me
  <2>2. UNCHANGED <<entryVars, waitVars, count>>
    BY <1>0, <1>10, <2>1, CustomIs, Frames
  <2> QED
    BY <1>0, <2>2, WaitsSame DEF entryVars
<1>11. CASE StopStep
  <2>1. stack # <<>> /\ Me.k = "stop"
    BY <1>11 DEF StopStep, Running, Me
  <2>2. UNCHANGED <<entryVars, waitVars, count>>
    BY <1>0, <1>11, <2>1, StopIs, Frames
  <2> QED
    BY <1>0, <2>2, WaitsSame DEF entryVars
<1>12. CASE UNCHANGED vars
  BY <1>0, <1>12, WaitsSame DEF vars, waitVars
<1>13. CASE DequeueStep \/ DequeueEnds \/ CompleteEnds \/ Check
  BY <1>13, DequeueWaits, DequeueEndsWaits, CompleteEndsWaits, CheckWaits
<1> QED
  BY <1>1, <1>2, <1>3, <1>4, <1>5, <1>6, <1>7, <1>8, <1>9, <1>10, <1>11, <1>12, <1>13
     DEF PlainNext, NoStop, Call, JQuery, ToggleNow

-----------------------------------------------------------------------------
LEMMA NoneAmong ==
  Among(<<>>) = {}
  BY DEF Among

LEMMA NoFrames ==
  ASSUME Init
  PROVE  /\ stack = <<>> /\ Among(stack) = {} /\ timers = <<>> /\ Len(timers) = 0
         /\ DOMAIN anim = {} /\ DOMAIN called = {} /\ DOMAIN waits = {}
         /\ IsFcn(anim) /\ IsFcn(called) /\ IsFcn(waits) /\ count = 0
         /\ \A k : ~Running(k)
<1>1. DOMAIN Nothing = {} /\ IsFcn(Nothing)
  BY DEF Nothing, IsFcn
<1> QED
  BY <1>1, NoneAmong DEF Init, Running

LEMMA InitTypes ==
  ASSUME Init
  PROVE  Types
<1>1. \A S : <<>> \in Seq(S)
  OBVIOUS
<1>2. /\ queue \in [Element -> Seq(Queueable \cup {Sentinel})]
      /\ asked \in [Element -> Seq(Queueable)] /\ begun \in [Element -> Seq(Nat)]
  BY <1>1 DEF Init
<1>3. hooks \in [Element -> Nat] /\ mark \in [Element -> Nat] /\ defer \in [Element -> Nat]
  BY DEF Init
<1>4. timers \in Seq(Timer) /\ checks \in Seq(Waiter) /\ stack \in Seq(Frame)
  BY <1>1 DEF Init
<1>5. world \in Worlds /\ count \in Nat /\ ticking \in BOOLEAN /\ threw \in BOOLEAN
      /\ sleeping \subseteq [id : Nat, elem : Element] /\ stuck \subseteq Element
  BY DEF Init
<1> QED
  BY <1>2, <1>3, <1>4, <1>5, NoFrames DEF Types

LEMMA InitStepInv ==
  ASSUME Init
  PROVE  StepInv
<1>1. Types
  BY InitTypes
<1>2. Order(stack, anim)
  BY NoFrames DEF Order
<1>3. AnimInv /\ CalledInv
  BY NoFrames DEF AnimInv, CalledInv
<1>4. FrameInv
  BY NoFrames DEF FrameInv, FrameOk
<1>5. TimerInv
  <2>1. 1 .. Len(timers) = {}
    BY NoFrames
  <2> QED
    BY <2>1 DEF TimerInv
<1>6. EntryInv
  <2>1. \A e \in Element : asked[e] = <<>> /\ queue[e] = <<>> /\ hooks[e] = 0
    BY DEF Init
  <2>2. \A e \in Element : Ids(e) = {} /\ QueueIds(e) = {}
    BY <2>1 DEF Ids, QueueIds, Among
  <2>3. \A e \in Element : Apart(queue[e])
    BY <2>1 DEF Apart
  <2>4. sleeping = {}
    BY DEF Init
  <2> QED
    BY <2>1, <2>2, <2>3, <2>4, NoFrames DEF EntryInv
<1> QED
  BY <1>1, <1>2, <1>3, <1>4, <1>5, <1>6 DEF StepInv

\* When nothing runs and no timer is left, nothing is under way.
LEMMA RestTokens ==
  ASSUME stack = <<>>, timers = <<>>
  PROVE  \A e, q : Tokens(e, q) = {}
<1>1. Among(stack) = {} /\ Among(timers) = {}
  BY NoneAmong
<1>2. \A a : ~UnderWay(a)
  BY <1>1 DEF UnderWay, Live, Held
<1> QED
  BY <1>2 DEF Tokens, IsToken, Begins, Running

LEMMA InitCareInv ==
  ASSUME Init
  PROVE  CareInv
<1>1. \A e \in Element : queue[e] = <<>> /\ mark[e] = 0
  BY DEF Init
<1>2. \A e, q : Tokens(e, q) = {}
  BY NoFrames, RestTokens
<1>3. \A e : ~Stopping(e)
  BY NoFrames DEF Stopping
<1>4. Cardinality({}) = 0
  BY FS_EmptySet
<1>5. \A e \in Element : Alive(e) /\ Marked(e)
  BY <1>1, <1>2, <1>3, <1>4 DEF Alive, Marked
<1> QED
  BY <1>5 DEF CareInv, AliveInv, MarkInv

LEMMA InitWaitInv ==
  ASSUME Init
  PROVE  WaitInv
<1>1. \A e \in Element : defer[e] = 0
  BY DEF Init
<1> QED
  BY <1>1, NoFrames DEF WaitInv

\* A step to a state where no such stop was made is not one of those stops.
LEMMA PlainStep ==
  ASSUME [Next]_vars, Plain'
  PROVE  Plain /\ (StepInv => [PlainNext]_vars)
<1>1. ASSUME own' = own, within' = within
      PROVE  Plain
  <2>1. own = {}
    BY <1>1 DEF Plain
  <2>2. ~within
    BY <1>1, Zenon DEF Plain
  <2> QED
    BY <2>1, <2>2 DEF Plain
<1>2. ASSUME StepInv, StopFails PROVE FALSE
  <2>1. stack # <<>> /\ Me.k = "stop" /\ Me.i > Len(timers)
    BY <1>2 DEF StopFails, Running, Me
  <2>2. Me \in Frame /\ Me.i <= Len(timers)
    BY <1>2, <2>1, Frames
  <2>3. Me.i \in Nat /\ Len(timers) \in Nat
    BY <1>2, <2>1, <2>2, FrameIs DEF StepInv, Types
  <2> QED
    BY <2>1, <2>2, <2>3
<1>3. ASSUME NEW e \in Element, NEW clear \in BOOLEAN, NEW gotoEnd \in BOOLEAN,
             StopNow(e, clear, gotoEnd)
      PROVE  Plain /\ StopFree(e, clear, gotoEnd)
  <2>1. own = {} /\ ~InCallbackOf(e)
    BY <1>3, Zenon DEF Plain, StopNow
  <2>2. ~within /\ ~Finishing
    BY <1>3, Zenon DEF Plain, StopNow
  <2> QED
    BY <1>3, <2>1, <2>2 DEF Plain, StopFree, Free
<1> QED
  BY <1>1, <1>2, <1>3 DEF Next, PlainNext, vars

LEMMA PromiseInvKept ==
  (Plain => PromiseInv) /\ [Next]_vars => (Plain => PromiseInv)'
  BY PlainStep, StepInvKept, CareInvKept, WaitInvKept DEF PromiseInv

LEMMA PromiseInvKeeps ==
  ASSUME PromiseInv
  PROVE  KeptBut(stuck)
<1> SUFFICES ASSUME AtRest, NEW p \in DOMAIN waits, NEW x \in waits[p], x \notin missed
             PROVE  x.elem \in stuck
  BY DEF KeptBut
<1>1. stack = <<>> /\ ~threw /\ timers = <<>> /\ sleeping = {} /\ checks = <<>>
  BY DEF AtRest, Idle
<1>2. PICK e : e = x.elem
  OBVIOUS
<1>3. e \in Element
  BY <1>2 DEF PromiseInv, StepInv, Types, Waiter
<1>4. defer[e] # 0
  BY <1>2 DEF PromiseInv, WaitInv
<1>5. queue[e] # <<>> \/ mark[e] # 0
  <2>1. queue[e] # <<>> \/ mark[e] # 0 \/ [elem |-> e, defer |-> defer[e]] \in Among(checks)
    BY <1>3, <1>4 DEF PromiseInv, WaitInv
  <2> QED
    BY <1>1, <2>1, NoneAmong
<1>6. Tokens(e, TRUE) = {} /\ Tokens(e, FALSE) = {}
  BY <1>1, RestTokens
<1>7. ~Stopping(e) /\ ~Stepper(e)
  BY <1>1 DEF Stopping, Stepper, Running
<1>8. Alive(e) /\ Marked(e)
  BY <1>1, <1>3 DEF PromiseInv, CareInv, AliveInv, MarkInv
<1>9. mark[e] = 0
  BY <1>6, <1>7, <1>8, FS_EmptySet DEF Marked
<1>10. Tok(e) = {}
  BY <1>1, <1>6 DEF Tok
<1>11. e \in stuck
  BY <1>5, <1>7, <1>8, <1>9, <1>10 DEF Alive
<1> QED
  BY <1>2, <1>11

\* As long as no callback has stopped its own element and no stop was made within
\* a stop to the end: when no call, timer or timeout is left and no callback has
\* thrown, a promise still waits only for elements whose queue stands still since a
\* stop or whose list the timeout of an earlier promise has taken away, whatever else
\* is asked of how many elements and in whatever order callbacks and ticks come.
THEOREM PromisesKept ==
  Spec => [](Plain => PromiseKept /\ KeptBut(stuck))
<1>1. Init => (Plain => PromiseInv)
  BY InitStepInv, InitCareInv, InitWaitInv DEF PromiseInv
<1>2. (Plain => PromiseInv) => (Plain => PromiseKept /\ KeptBut(stuck))
  BY PromiseInvKeeps DEF PromiseKept, KeptBut
<1> QED
  BY <1>1, <1>2, PromiseInvKept, PTL DEF Spec

-----------------------------------------------------------------------------
(***************************************************************************)
(* The order of the queues.                                                *)
(***************************************************************************)
LEMMA TakenFollows ==
  ASSUME NEW S, NEW el \in Seq(S), NEW be \in Seq(Nat), NEW r \in Seq(S), r # <<>>,
         Head(r).id \in Nat, Follows(el, be, r)
  PROVE  Follows(el, Append(be, Head(r).id), Tail(r))
<1>1. PICK n, m, l : n = Len(be) /\ m = Len(el) /\ l = Len(r)
  OBVIOUS
<1>f. n <= m /\ l = m - n /\ (\A i \in 1 .. n : be[i] = el[i].id) /\ \A i \in 1 .. l : r[i] = el[n + i]
  BY <1>1 DEF Follows
<1>2. n \in Nat /\ m \in Nat /\ l \in Nat /\ l >= 1
  <2>1. Len(be) \in Nat /\ Len(el) \in Nat /\ Len(r) \in Nat
    OBVIOUS
  <2>2. Len(r) # 0
    OBVIOUS
  <2> QED
    BY <1>1, <2>1, <2>2
<1>3. PICK h : h = Head(r).id
  OBVIOUS
<1>4. h = el[n + 1].id
  <2>1. Head(r) = r[1]
    OBVIOUS
  <2>2. r[1] = el[n + 1]
    BY <1>f, <1>2
  <2> QED
    BY <1>3, <2>1, <2>2
<1>5. Len(Append(be, h)) = n + 1 /\ \A i \in 1 .. n + 1 :
        Append(be, h)[i] = IF i = n + 1 THEN h ELSE be[i]
  BY <1>1, <1>2, <1>3
<1>6. \A i \in 1 .. n + 1 : Append(be, h)[i] = el[i].id
  <2> TAKE i \in 1 .. n + 1
  <2>1. i = n + 1 \/ i \in 1 .. n
    BY <1>2
  <2> QED
    BY <1>f, <1>2, <1>4, <1>5, <2>1
<1>7. Len(Tail(r)) = l - 1 /\ \A i \in 1 .. l - 1 : Tail(r)[i] = el[(n + 1) + i]
  <2>1. Len(Tail(r)) = l - 1 /\ \A i \in 1 .. l - 1 : Tail(r)[i] = r[i + 1]
    <3>1. Len(Tail(r)) = Len(r) - 1
      OBVIOUS
    <3>2. \A i \in 1 .. Len(r) - 1 : Tail(r)[i] = r[i + 1]
      OBVIOUS
    <3> QED
      BY <1>1, <3>1, <3>2
  <2>2. \A i \in 1 .. l - 1 : i + 1 \in 1 .. l /\ n + (i + 1) = (n + 1) + i
    BY <1>2
  <2> QED
    BY <1>f, <2>1, <2>2
<1>8. n + 1 <= m /\ l - 1 = m - (n + 1)
  BY <1>f, <1>2
<1> QED
  BY <1>1, <1>3, <1>5, <1>6, <1>7, <1>8 DEF Follows

LEMMA AskedFollows ==
  ASSUME NEW S, NEW el \in Seq(S), NEW be \in Seq(Nat), NEW r \in Seq(S), NEW c \in S,
         Follows(el, be, r)
  PROVE  Follows(Append(el, c), be, Append(r, c))
<1>1. PICK n, m, l : n = Len(be) /\ m = Len(el) /\ l = Len(r)
  OBVIOUS
<1>f. n <= m /\ l = m - n /\ (\A i \in 1 .. n : be[i] = el[i].id) /\ \A i \in 1 .. l : r[i] = el[n + i]
  BY <1>1 DEF Follows
<1>2. n \in Nat /\ m \in Nat /\ l \in Nat
  <2>1. Len(be) \in Nat /\ Len(el) \in Nat /\ Len(r) \in Nat
    OBVIOUS
  <2> QED
    BY <1>1, <2>1
<1>3. /\ Len(Append(el, c)) = m + 1 /\ \A i \in 1 .. m : Append(el, c)[i] = el[i]
      /\ Append(el, c)[m + 1] = c
      /\ Len(Append(r, c)) = l + 1 /\ \A i \in 1 .. l : Append(r, c)[i] = r[i]
      /\ Append(r, c)[l + 1] = c
  <2>1. /\ Len(Append(el, c)) = Len(el) + 1 /\ \A i \in 1 .. Len(el) : Append(el, c)[i] = el[i]
        /\ Append(el, c)[Len(el) + 1] = c
    OBVIOUS
  <2>2. /\ Len(Append(r, c)) = Len(r) + 1 /\ \A i \in 1 .. Len(r) : Append(r, c)[i] = r[i]
        /\ Append(r, c)[Len(r) + 1] = c
    OBVIOUS
  <2> QED
    BY <1>1, <2>1, <2>2
<1>4. \A i \in 1 .. n : be[i] = Append(el, c)[i].id
  <2>1. \A i \in 1 .. n : i \in 1 .. m
    BY <1>f, <1>2
  <2> QED
    BY <1>f, <1>3, <2>1
<1>5. \A i \in 1 .. l + 1 : Append(r, c)[i] = Append(el, c)[n + i]
  <2> TAKE i \in 1 .. l + 1
  <2>1. CASE i = l + 1
    <3>1. n + i = m + 1
      BY <1>f, <1>2, <2>1
    <3> QED
      BY <1>3, <2>1, <3>1
  <2>2. CASE i \in 1 .. l
    <3>1. n + i \in 1 .. m
      BY <1>f, <1>2, <2>2
    <3> QED
      BY <1>f, <1>3, <2>2, <3>1
  <2>3. i = l + 1 \/ i \in 1 .. l
    BY <1>2
  <2> QED
    BY <2>1, <2>2, <2>3
<1>6. n <= m + 1 /\ l + 1 = (m + 1) - n
  BY <1>f, <1>2
<1> QED
  BY <1>1, <1>3, <1>4, <1>5, <1>6 DEF Follows

LEMMA QueuesSame ==
  ASSUME QueueInv, UNCHANGED <<world, queue, asked, begun>>
  PROVE  QueueInv'
<1>1. \A e : After(e)' = After(e)
  BY DEF After
<1>2. \A e : InOrder(e)' <=> InOrder(e)
  BY <1>1 DEF InOrder
<1> QED
  BY <1>2 DEF QueueInv, Clears

LEMMA DequeueQueues ==
  ASSUME StepInv, QueueInv, DequeueStep
  PROVE  QueueInv'
<1>1. /\ Types /\ queue \in [Element -> Seq(Queueable \cup {Sentinel})]
      /\ asked \in [Element -> Seq(Queueable)] /\ begun \in [Element -> Seq(Nat)]
  BY DEF StepInv, Types
<1>2. PICK e, rest : e = Me.elem /\ rest = After(e)
  OBVIOUS
<1>3. /\ e \in Element /\ UNCHANGED <<world, asked>>
      /\ \/ /\ rest = <<>> /\ queue' = [queue EXCEPT ![e] = <<>>] /\ begun' = begun
         \/ /\ rest # <<>> /\ queue' = [queue EXCEPT ![e] = <<Sentinel>> \o Tail(rest)]
            /\ begun' = [begun EXCEPT ![e] = Append(begun[e], Head(rest).id)]
  BY <1>1, <1>2, DequeueIs
<1> SUFFICES ASSUME ~Clears, NEW x \in Element
             PROVE  InOrder(x)'
  BY <1>3 DEF QueueInv, Clears
<1>4. InOrder(x)
  BY DEF QueueInv
<1>5. CASE x # e
  <2>1. queue'[x] = queue[x] /\ begun'[x] = begun[x]
    BY <1>1, <1>3, <1>5
  <2>2. After(x)' = After(x)
    BY <2>1 DEF After
  <2> QED
    BY <1>3, <1>4, <2>1, <2>2 DEF InOrder
<1>6. CASE x = e /\ rest = <<>>
  <2>1. queue'[x] = <<>> /\ begun'[x] = begun[x]
    BY <1>1, <1>3, <1>6
  <2>2. After(x)' = <<>>
    BY <2>1 DEF After, InProgress
  <2> QED
    BY <1>2, <1>3, <1>4, <1>6, <2>1, <2>2 DEF InOrder
<1>7. CASE x = e /\ rest # <<>>
  <2>1. rest \in Seq(Queueable) /\ Tail(rest) \in Seq(Queueable) /\ Head(rest).id \in Nat
    BY <1>2, <1>3, <1>7, AfterIs
  <2>2. InProgress(<<Sentinel>> \o Tail(rest)) /\ Tail(<<Sentinel>> \o Tail(rest)) = Tail(rest)
    BY <2>1 DEF InProgress
  <2>3. queue'[x] = <<Sentinel>> \o Tail(rest) /\ begun'[x] = Append(begun[x], Head(rest).id)
    BY <1>1, <1>3, <1>7
  <2>4. After(x)' = Tail(rest)
    BY <2>2, <2>3 DEF After
  <2>5. asked[x] \in Seq(Queueable) /\ begun[x] \in Seq(Nat) /\ Follows(asked[x], begun[x], rest)
    BY <1>1, <1>2, <1>4, <1>7 DEF InOrder
  <2>6. Follows(asked[x], Append(begun[x], Head(rest).id), Tail(rest))
    BY <1>7, <2>1, <2>5, TakenFollows
  <2> QED
    BY <1>3, <2>3, <2>4, <2>6 DEF InOrder
<1> QED
  BY <1>5, <1>6, <1>7

LEMMA QueuedQueues ==
  ASSUME StepInv, QueueInv, NEW e \in Element, NEW c \in Queueable, UNCHANGED <<world, begun>>,
         queue' = [queue EXCEPT ![e] = Append(queue[e], c)],
         asked' = [asked EXCEPT ![e] = Append(asked[e], c)]
  PROVE  QueueInv'
<1>1. /\ queue \in [Element -> Seq(Queueable \cup {Sentinel})]
      /\ asked \in [Element -> Seq(Queueable)] /\ begun \in [Element -> Seq(Nat)]
  BY DEF StepInv, Types
<1> SUFFICES ASSUME ~Clears, NEW x \in Element
             PROVE  InOrder(x)'
  BY DEF QueueInv, Clears
<1>2. InOrder(x)
  BY DEF QueueInv
<1>3. CASE x # e
  <2>1. queue'[x] = queue[x] /\ asked'[x] = asked[x]
    BY <1>1, <1>3
  <2>2. After(x)' = After(x)
    BY <2>1 DEF After
  <2> QED
    BY <1>2, <2>1, <2>2 DEF InOrder
<1>4. CASE x = e
  <2>1. queue'[x] = Append(queue[x], c) /\ asked'[x] = Append(asked[x], c)
    BY <1>1, <1>4
  <2>2. After(x) \in Seq(Queueable)
    BY <1>4, AfterIs
  <2>3. PICK q \in Seq(Queueable \cup {Sentinel}) : q = queue[x]
    BY <1>1
  <2>4. c # Sentinel
    BY DEF Queueable, AnimEntry, Sentinel
  <2>5. After(x)' = Append(After(x), c)
    <3>1. CASE q = <<>>
      <4>1. ~InProgress(q) /\ Append(q, c) = <<c>>
        BY <3>1 DEF InProgress
      <4>2. ~InProgress(<<c>>)
        BY <2>4 DEF InProgress
      <4> QED
        BY <2>1, <2>3, <4>1, <4>2 DEF After
    <3>2. CASE q # <<>>
      <4>1. Append(q, c) # <<>> /\ Head(Append(q, c)) = Head(q)
        BY <2>3, <3>2
      <4>2. Tail(Append(q, c)) = Append(Tail(q), c)
        BY <2>3, <3>2
      <4>3. InProgress(Append(q, c)) <=> InProgress(q)
        BY <3>2, <4>1 DEF InProgress
      <4> QED
        BY <2>1, <2>3, <4>2, <4>3 DEF After
    <3> QED
      BY <3>1, <3>2
  <2>6. asked[x] \in Seq(Queueable) /\ begun[x] \in Seq(Nat)
    BY <1>1
  <2>7. Follows(Append(asked[x], c), begun[x], Append(After(x), c))
    BY <1>2, <2>2, <2>6, AskedFollows DEF InOrder
  <2> QED
    BY <2>1, <2>5, <2>7 DEF InOrder
<1> QED
  BY <1>3, <1>4

LEMMA AnimateQueues ==
  ASSUME StepInv, QueueInv, NEW e \in Element, NEW c \in Choice, Animate(e, c)
  PROVE  QueueInv'
<1>1. /\ UNCHANGED <<world, begun>>
      /\ \E en \in AnimEntry :
           \/ /\ en.queued
              /\ queue' = [queue EXCEPT ![e] = Append(queue[e], en)]
              /\ asked' = [asked EXCEPT ![e] = Append(asked[e], en)]
           \/ UNCHANGED <<queue, asked>>
  BY AnimateIs DEF StepInv
<1>2. ASSUME NEW en \in AnimEntry, en.queued,
             queue' = [queue EXCEPT ![e] = Append(queue[e], en)],
             asked' = [asked EXCEPT ![e] = Append(asked[e], en)]
      PROVE  QueueInv'
  <2>1. en \in Queueable
    BY <1>2 DEF Queueable
  <2> QED
    BY <1>1, <1>2, <2>1, QueuedQueues
<1> QED
  BY <1>1, <1>2, QueuesSame

LEMMA DelayQueues ==
  ASSUME StepInv, QueueInv, NEW e \in Element, Delay(e)
  PROVE  QueueInv'
<1>1. PICK c : c = [k |-> "delay", id |-> count + 1]
  OBVIOUS
<1>2. c \in Queueable
  BY <1>1 DEF StepInv, Types, Queueable
<1>3. /\ UNCHANGED <<world, begun>> /\ queue' = [queue EXCEPT ![e] = Append(queue[e], c)]
      /\ asked' = [asked EXCEPT ![e] = Append(asked[e], c)]
  BY <1>1, DelayIs DEF StepInv
<1> QED
  BY <1>2, <1>3, QueuedQueues

\* The queues are cleared: in such a page their order is not asked for.
LEMMA ClearsOn ==
  ASSUME Clears, world' = world
  PROVE  Clears'
  BY DEF Clears

LEMMA StopNowKeeps ==
  ASSUME StepInv, NEW e \in Element, NEW clear \in BOOLEAN, NEW gotoEnd \in BOOLEAN,
         StopFree(e, clear, gotoEnd), ~Clears
  PROVE  /\ UNCHANGED <<world, queue, asked, begun, timers, ticking>>
         /\ sleeping' = IF hooks[e] = 0 THEN sleeping ELSE {s \in sleeping : s.id # hooks[e]}
         /\ \A x \in Element : x # e => hooks'[x] = hooks[x]
<1>1. /\ Types /\ hooks \in [Element -> Nat]
  BY DEF StepInv, Types
<1>2. ~clear /\ Becomes(StopBegins(Page, e, clear, gotoEnd))
  BY <1>1, StopNowIs
<1> QED
  BY <1>1, <1>2, StopBeginsIs

LEMMA QueueInvKept ==
  ASSUME StepInv, StepInv', QueueInv, [PlainNext]_vars
  PROVE  QueueInv'
<1>1. ASSUME NEW e \in Element, NEW c \in world.choices, Animate(e, c)
      PROVE  QueueInv'
  <2>1. c \in Choice
    BY <1>1, EffectsAssumption DEF StepInv, Types
  <2> QED
    BY <1>1, <2>1, AnimateQueues
<1>2. ASSUME NEW e \in Element, Delay(e)
      PROVE  QueueInv'
  BY <1>2, DelayQueues
<1>3. ASSUME NEW e \in Element, ClearQueue(e)
      PROVE  QueueInv'
  <2>1. Clears /\ world' = world
    BY <1>3, ClearQueueIs DEF StepInv
  <2> QED
    BY <2>1, ClearsOn DEF QueueInv
<1>4. ASSUME NEW e \in Element, NEW clear \in BOOLEAN, NEW gotoEnd \in BOOLEAN,
             StopFree(e, clear, gotoEnd)
      PROVE  QueueInv'
  <2>1. world' = world
    BY <1>4, StopNowIs DEF StepInv, Becomes
  <2>2. CASE Clears
    BY <2>1, <2>2, ClearsOn DEF QueueInv
  <2>3. CASE ~Clears
    <3>1. UNCHANGED <<world, queue, asked, begun>>
      BY <1>4, <2>3, StopNowKeeps
    <3> QED
      BY <3>1, QueuesSame
  <2> QED
    BY <2>2, <2>3
<1>5. ASSUME NEW d \in sleeping, Wakes(d)
      PROVE  QueueInv'
  BY <1>5, WakesIs, QueuesSame DEF StepInv
<1>6. CASE QuietStep
  BY <1>6, QuietSteps, QueuesSame DEF Quiet
<1>7. CASE CompleteEnds
  <2>1. UNCHANGED <<world, entryVars>>
    BY <1>7, Frames, CompleteEndsIs DEF StepInv, CompleteEnds, Running, Me
  <2> QED
    BY <2>1, QueuesSame DEF entryVars
<1>11. CASE Throws
  BY <1>11, ThrowsIs, QueuesSame DEF StepInv, entryVars
<1>8. CASE StopStep
  <2>1. UNCHANGED <<world, entryVars>>
    BY <1>8, Frames, StopIs DEF StepInv, StopStep, Running, Me
  <2> QED
    BY <2>1, QueuesSame DEF entryVars
<1>9. CASE StopGoesOn
  BY <1>9, StopGoesOnIs, QueuesSame DEF StepInv, entryVars
<1>10. CASE UNCHANGED vars
  BY <1>10, QueuesSame DEF vars
<1> QED
  BY <1>1, <1>2, <1>3, <1>4, <1>5, <1>6, <1>7, <1>8, <1>9, <1>10, <1>11, DequeueQueues
     DEF PlainNext, NoStop, Call, JQuery, QuietStep

-----------------------------------------------------------------------------
(***************************************************************************)
(* One entry of a queue is under way at most.                              *)
(***************************************************************************)
LEMMA TurnsOf ==
  ASSUME TurnInv, world' = world,
         ~Clears => \A x \in Element : Turned(x) => Turned(x)'
  PROVE  TurnInv'
  BY DEF TurnInv, Clears

\* What is under way of the queue of x is not more than it was.
LEMMA TokFewer ==
  ASSUME NEW x, Tokens(x, TRUE)' \subseteq Tokens(x, TRUE),
         \A d \in sleeping' : d.elem = x => d \in sleeping
  PROVE  Tok(x)' \subseteq Tok(x)
  BY DEF Tok

\* What a step leaves alone of an element that it is not about.
LEMMA TurnAside ==
  ASSUME NEW x, Turned(x), queue'[x] = queue[x], begun'[x] = begun[x],
         Tokens(x, TRUE)' \subseteq Tokens(x, TRUE),
         \A d \in sleeping' : d.elem = x => d \in sleeping /\ hooks'[x] = hooks[x],
         ~TakesOn(x), TakesOn(x)' => Tok(x)' = {},
         StopsDelay(x)' => \A d \in sleeping' : d.elem # x
  PROVE  Turned(x)'
<1>1. Tok(x)' \subseteq Tok(x)
  BY TokFewer
<1>2. \A a \in Tok(x)' : begun'[x] # <<>> /\ a = begun'[x][Len(begun'[x])]
  BY <1>1 DEF Turned
<1>3. queue'[x] = <<>> => Tok(x)' = {}
  BY <1>1 DEF Turned
<1>4. \A d \in sleeping' : d.elem = x => hooks'[x] = d.id
  BY DEF Turned
<1>5. queue'[x] # <<>> /\ ~InProgress(queue'[x]) => TakesOn(x)'
  BY DEF Turned
<1> QED
  BY <1>2, <1>3, <1>4, <1>5 DEF Turned

LEMMA QuietTurns ==
  ASSUME TurnInv, Quiet
  PROVE  TurnInv'
<1>1. world' = world
  BY DEF Quiet
<1>2. ASSUME NEW x \in Element, Turned(x)
      PROVE  Turned(x)'
  <2>1. /\ queue' = queue /\ begun' = begun /\ sleeping' = sleeping
        /\ hooks'[x] = hooks[x] \/ queue[x] = <<>>
        /\ Tokens(x, TRUE)' = Tokens(x, TRUE)
    BY DEF Quiet
  <2>2. ~TakesOn(x) /\ ~TakesOn(x)' /\ ~StopsDelay(x)'
    BY DEF Quiet, TakesOn, StopsDelay
  <2>3. queue[x] = <<>> => \A d \in sleeping : d.elem # x
    BY <1>2 DEF Turned, Tok
  <2> QED
    BY <1>2, <2>1, <2>2, <2>3, TurnAside
<1> QED
  BY <1>1, <1>2, TurnsOf

LEMMA DequeueTurns ==
  ASSUME StepInv, StepInv', TurnInv, DequeueStep
  PROVE  TurnInv'
<1>1. Types
  BY DEF StepInv
<1>2. PICK e, rest : e = Me.elem /\ rest = After(e)
  OBVIOUS
<1>3. /\ stack # <<>> /\ Me.k = "dequeue" /\ e \in Element /\ world' = world
      /\ \/ /\ rest = <<>> /\ stack' = Tail(stack)
            /\ queue' = [queue EXCEPT ![e] = <<>>] /\ hooks' = [hooks EXCEPT ![e] = 0]
            /\ UNCHANGED <<sleeping, begun>>
         \/ /\ rest # <<>>
            /\ queue' = [queue EXCEPT ![e] = <<Sentinel>> \o Tail(rest)]
            /\ begun' = [begun EXCEPT ![e] = Append(begun[e], Head(rest).id)]
            /\ \/ /\ Head(rest).k = "delay" /\ stack' = Tail(stack)
                  /\ hooks' = [hooks EXCEPT ![e] = Head(rest).id]
                  /\ sleeping' = sleeping \cup {[id |-> Head(rest).id, elem |-> e]}
               \/ /\ Head(rest).k # "delay"
                  /\ stack' = <<Begin(e, Head(rest)), Dequeued(e)>> \o Tail(stack)
                  /\ hooks' = [hooks EXCEPT ![e] = 0] /\ sleeping' = sleeping
  BY <1>1, <1>2, DequeueIs
<1>4. \/ /\ rest = <<>> \/ (rest # <<>> /\ Head(rest).k = "delay")
         /\ \A x, q : Tokens(x, q)' = Tokens(x, q)
      \/ /\ rest # <<>> /\ Head(rest).k # "delay"
         /\ \A x, q : x # e \/ q # TRUE => Tokens(x, q)' = Tokens(x, q)
         /\ \A x : x = e => Tokens(x, TRUE)' = Tokens(x, TRUE) \cup {Head(rest).id}
  BY <1>2, DequeueTokens
<1>5. /\ queue \in [Element -> Seq(Queueable \cup {Sentinel})] /\ begun \in [Element -> Seq(Nat)]
      /\ hooks \in [Element -> Nat]
  BY Zenon, <1>1 DEF Types
<1>6. TakesOn(e)
  BY <1>2, <1>3 DEF TakesOn, Running, Me
<1>7. \A x : ~TakesOn(x)' /\ ~StopsDelay(x)'
  BY DequeueTop DEF TakesOn, StopsDelay
<1>8. ASSUME NEW x \in Element, x # e, Turned(x)
      PROVE  Turned(x)'
  <2>1. Tokens(x, TRUE)' = Tokens(x, TRUE)
    BY <1>4, <1>8
  <2>2. queue'[x] = queue[x] /\ begun'[x] = begun[x] /\ hooks'[x] = hooks[x]
    BY <1>3, <1>5, <1>8
  <2>3. \A d \in sleeping' : d.elem = x => d \in sleeping
    BY <1>3, <1>8
  <2>4. ~TakesOn(x)
    BY <1>2, <1>8 DEF TakesOn
  <2> QED
    BY <1>7, <1>8, <2>1, <2>2, <2>3, <2>4, TurnAside
\* Nothing of e was under way.
<1>9. ASSUME Turned(e)
      PROVE  Turned(e)'
  <2>1. Tok(e) = {} /\ Tokens(e, TRUE) = {} /\ \A d \in sleeping : d.elem # e
    BY <1>6, <1>9 DEF Turned, Tok
  <2>2. CASE rest = <<>>
    <3>1. Tokens(e, TRUE)' = {} /\ queue'[e] = <<>> /\ \A d \in sleeping' : d.elem # e
      BY <1>3, <1>4, <1>5, <2>1, <2>2
    <3>2. Tok(e)' = {}
      BY <3>1 DEF Tok
    <3> QED
      BY <1>7, <3>1, <3>2 DEF Turned
  <2>3. CASE rest # <<>>
    <3>1. rest \in Seq(Queueable) /\ Tail(rest) \in Seq(Queueable) /\ Head(rest).id \in Nat
      BY <1>2, <1>3, <2>3, AfterIs
    <3>2. PICK c, n : c = Head(rest).id /\ n = Append(begun[e], c)
      OBVIOUS
    <3>3. begun'[e] = n /\ n # <<>> /\ n[Len(n)] = c
      <4>1. begun[e] \in Seq(Nat) /\ c \in Nat
        BY <1>3, <1>5, <3>1, <3>2
      <4>2. n # <<>> /\ n[Len(n)] = c
        BY <3>2, <4>1
      <4>3. begun'[e] = n
        BY <1>3, <1>5, <2>3, <3>2
      <4> QED
        BY <4>2, <4>3
    <3>4. InProgress(queue'[e])
      <4>1. InProgress(<<Sentinel>> \o Tail(rest))
        BY <3>1 DEF InProgress
      <4> QED
        BY <1>3, <1>5, <2>3, <4>1
    <3>5. queue'[e] # <<>>
      BY <3>4 DEF InProgress
    <3>6. CASE Head(rest).k = "delay"
      <4>1. Tokens(e, TRUE)' = {}
        BY <1>4, <2>1, <2>3, <3>6
      <4>2. sleeping' = sleeping \cup {[id |-> c, elem |-> e]} /\ hooks'[e] = c
        BY <1>3, <1>5, <2>3, <3>2, <3>6
      <4>3. \A d \in sleeping' : d.elem = e => d.id = c
        BY <2>1, <4>2
      <4>4. \A a \in Tok(e)' : a = c
        BY <4>1, <4>3 DEF Tok
      <4> QED
        BY <1>7, <3>3, <3>4, <3>5, <4>2, <4>3, <4>4 DEF Turned
    <3>7. CASE Head(rest).k # "delay"
      <4>1. Tokens(e, TRUE)' = {c}
        BY <1>4, <2>1, <2>3, <3>2, <3>7
      <4>2. \A d \in sleeping' : d.elem # e
        BY <1>3, <2>1, <2>3, <3>7
      <4>3. \A a \in Tok(e)' : a = c
        BY <4>1, <4>2 DEF Tok
      <4> QED
        BY <1>7, <3>3, <3>4, <3>5, <4>2, <4>3 DEF Turned
    <3> QED
      BY <3>6, <3>7
  <2> QED
    BY <2>2, <2>3
<1> QED
  BY <1>3, <1>8, <1>9, TurnsOf

LEMMA TokensFewer ==
  ASSUME UNCHANGED <<anim, count>>, Among(timers') \subseteq Among(timers), ~Running("begin")',
         \A f \in Among(stack') : f \in Among(stack) \/ IsPlain(f)
  PROVE  \A x, q : Tokens(x, q)' \subseteq Tokens(x, q)
<1>1. \A a, p : /\ ~IsPlain(Custom(a, p)) /\ ~IsPlain(Complete(a)) /\ ~IsPlain(Completed(a))
  BY DEF Custom, Complete, Completed, IsPlain
<1>2. \A a : Rest(a)' = Rest(a)
  BY DEF Rest
<1>3. \A a, p : Held(a, p)' => Held(a, p)
  BY <1>1 DEF Held
<1>4. \A a : Live(a)' => Live(a)
  BY <1>2, <1>3 DEF Live
<1>5. \A a : UnderWay(a)' => UnderWay(a)
  BY <1>1, <1>4 DEF UnderWay
<1>6. \A a, x, q : ~Begins(a, x, q)'
  BY DEF Begins
<1>7. \A a, x, q : IsToken(a, x, q)' => IsToken(a, x, q)
  BY <1>5, <1>6 DEF IsToken
<1> QED
  BY <1>7 DEF Tokens

\* What runs goes on as something that neither takes a queue on nor stops a delay.
LEMMA AsideAll ==
  ASSUME StepInv, TurnInv, ~Running("dequeue"), ~Running("dequeue")', \A x : ~StopsDelay(x)',
         UNCHANGED <<world, entryVars>>, \A x : Tokens(x, TRUE)' \subseteq Tokens(x, TRUE)
  PROVE  TurnInv'
<1>1. ASSUME NEW x \in Element, Turned(x)
      PROVE  Turned(x)'
  <2>1. ~TakesOn(x) /\ ~TakesOn(x)'
    BY DEF TakesOn
  <2> QED
    BY <1>1, <2>1, TurnAside DEF entryVars
<1> QED
  BY <1>1, TurnsOf

LEMMA CompleteEndsTurns ==
  ASSUME StepInv, StepInv', TurnInv, CompleteEnds
  PROVE  TurnInv'
<1>1. Types /\ stack # <<>> /\ Me.k = "completed" /\ Me.anim \in DOMAIN anim
  BY Frames DEF StepInv, CompleteEnds, Running, Me
<1>2. PICK a, e : a = Me.anim /\ e = anim[a].elem
  OBVIOUS
<1>3. /\ e \in Element /\ UNCHANGED <<world, entryVars>>
      /\ IF anim[a].queued THEN stack' = <<Dequeue(e)>> \o Tail(stack) ELSE stack' = Tail(stack)
  BY <1>1, <1>2, CompleteEndsIs
<1>4. \A x, q : IF x = e /\ q = anim[a].queued
                THEN a \in Tokens(x, q) /\ Tokens(x, q)' = Tokens(x, q) \ {a}
                ELSE Tokens(x, q)' = Tokens(x, q)
  BY <1>2, CompleteEndsTokens
<1>5. ~Running("dequeue")
  BY <1>1 DEF Running, Me
<1>6. \A x : Tokens(x, TRUE)' \subseteq Tokens(x, TRUE)
  BY <1>4
<1>7. CASE ~anim[a].queued
  <2>1. stack' = Tail(stack)
    BY <1>3, <1>7
  <2>2. ~Running("dequeue")' /\ ~Running("stop")'
    BY <1>1, <2>1, NotTop
  <2> QED
    BY <1>3, <1>5, <1>6, <2>2, AsideAll DEF StopsDelay
<1>8. CASE anim[a].queued
  <2>1. Dequeue(e) \in Frame /\ Dequeue(e).k = "dequeue" /\ Dequeue(e).elem = e
    BY <1>3, FrameMade DEF Dequeue
  <2>2. PICK t \in Seq(Frame) : t = Tail(stack)
    BY <1>1, Tails
  <2>3. stack' = <<Dequeue(e)>> \o t
    BY <1>3, <1>8, <2>2
  <2>4. Me' = Dequeue(e)
    BY <2>1, <2>2, <2>3, FramePushed DEF Me
  <2>5. \A x : ~StopsDelay(x)' /\ (TakesOn(x)' => x = e)
    BY <2>1, <2>4 DEF TakesOn, StopsDelay, Running, Me
  \* The entry that was under way has come to its end.
  <2>6. ASSUME Turned(e)
        PROVE  Tok(e)' = {}
    <3>1. anim[a].queued = TRUE
      BY <1>1, <1>2, <1>8 DEF Types, IsAnim
    <3>2. a \in Tokens(e, TRUE) /\ Tokens(e, TRUE)' = Tokens(e, TRUE) \ {a}
      BY <1>4, <3>1
    <3>3. \A c \in Tok(e) : c = a
      BY <2>6, <3>2 DEF Turned, Tok
    <3>4. Tokens(e, TRUE)' = {}
      BY <3>2, <3>3 DEF Tok
    <3>5. \A d \in sleeping : d.elem # e
      <4>1. \A d \in sleeping : d.id \notin DOMAIN anim
        BY DEF StepInv, EntryInv
      <4> QED
        BY <1>1, <1>2, <3>3, <4>1 DEF Tok
    <3> QED
      BY <1>3, <3>4, <3>5 DEF Tok, entryVars
  <2>7. ASSUME NEW x \in Element, Turned(x)
        PROVE  Turned(x)'
    <3>1. ~TakesOn(x)
      BY <1>5 DEF TakesOn
    <3>2. TakesOn(x)' => Tok(x)' = {}
      BY <2>5, <2>6, <2>7
    <3> QED
      BY <1>3, <1>6, <2>5, <2>7, <3>1, <3>2, TurnAside DEF entryVars
  <2> QED
    BY <1>3, <2>7, TurnsOf
<1> QED
  BY <1>7, <1>8

LEMMA StopGoesOnTurns ==
  ASSUME StepInv, StepInv', TurnInv, StopGoesOn
  PROVE  TurnInv'
<1>2. /\ stack # <<>> /\ Me.k = "stopped" /\ Me.elem \in Element /\ Me.i \in Nat \ {0}
      /\ UNCHANGED <<world, entryVars>>
      /\ stack' = <<Stop(Me.elem, TRUE, Me.i - 1, TRUE)>> \o Tail(stack)
  BY StopGoesOnIs DEF StepInv
<1> DEFINE s == Stop(Me.elem, TRUE, Me.i - 1, TRUE)
<1>3. Me.i - 1 \in Nat
  BY <1>2
<1>4. s \in Frame /\ s.k = "stop" /\ s.gotoEnd = TRUE /\ s.had = TRUE /\ stack' = <<s>> \o Tail(stack)
  BY <1>2, <1>3, FrameMade DEF Stop
<1> HIDE DEF s
<1>5. PICK t \in Seq(Frame) : t = Tail(stack)
  BY <1>2, Tails
<1>6. Me' = s
  BY <1>4, <1>5, FramePushed DEF Me
<1>7. ~Running("dequeue") /\ ~Running("dequeue")' /\ \A x : ~StopsDelay(x)'
  BY <1>2, <1>4, <1>6 DEF Running, Me, StopsDelay
<1> QED
  BY <1>2, <1>7, AsideAll, StopGoesOnTokens

LEMMA ThrowsTurns ==
  ASSUME StepInv, TurnInv, Throws
  PROVE  TurnInv'
<1>1. /\ stack' = <<>> /\ UNCHANGED <<world, entryVars, timers, anim, count>>
  BY ThrowsIs DEF StepInv
<1>2. Running("user") /\ \A k : ~Running(k)'
  BY <1>1 DEF Throws, Running
<1>3. Among(stack') = {}
  BY <1>1, NoneAmong
<1>4. \A x, q : Tokens(x, q)' \subseteq Tokens(x, q)
  BY <1>1, <1>2, <1>3, TokensFewer
<1>5. ~Running("dequeue") /\ ~Running("dequeue")' /\ \A x : ~StopsDelay(x)'
  BY <1>2 DEF Running, StopsDelay
<1> QED
  BY <1>1, <1>4, <1>5, AsideAll

LEMMA StopTurns ==
  ASSUME StepInv, StepInv', TurnInv, StopStep
  PROVE  TurnInv'
<1>1. Types /\ TimersOfAnims
  BY Frames DEF StepInv
<1>2. PICK e, i, g, had, a, p : /\ e = Me.elem /\ i = Me.i /\ g = Me.gotoEnd /\ had = Me.had
                                /\ a = timers[i].anim /\ p = timers[i].prop
  OBVIOUS
<1>3. stack # <<>> /\ Me.k = "stop" /\ Me.i <= Len(timers)
  BY Frames DEF StopStep, Running, Me
<1>4. /\ e \in Element /\ i \in Nat /\ g \in BOOLEAN /\ had \in BOOLEAN
      /\ UNCHANGED <<world, entryVars, count>>
      /\ \/ /\ i = 0 /\ UNCHANGED <<timers, anim>>
            /\ stack' = (IF g /\ had THEN <<>> ELSE <<Dequeue(e)>>) \o Tail(stack)
         \/ /\ i \in 1 .. Len(timers) /\ UNCHANGED <<timers, anim>>
            /\ stack' = <<Stop(e, g, i - 1, had)>> \o Tail(stack)
         \/ /\ i \in 1 .. Len(timers) /\ g /\ AnimEnds(a, p)
            /\ stack' = (CallFrames(a) \o <<Stopped(e, i)>>) \o Tail(stack)
         \/ /\ i \in 1 .. Len(timers) /\ ~g /\ timers' = RemoveAt(timers, i) /\ anim' = anim
            /\ stack' = <<Stop(e, FALSE, i - 1, TRUE)>> \o Tail(stack)
  BY <1>1, <1>2, <1>3, StopIs
<1>5. \A x, q : x # e \/ g \/ i = 0 => Tokens(x, q)' = Tokens(x, q)
  BY <1>2, StopTokens
<1>6. ~Running("dequeue") /\ \A x : StopsDelay(x) <=> x = e /\ (~g \/ ~had)
  BY <1>2, <1>3 DEF Running, Me, StopsDelay
<1>7. PICK t \in Seq(Frame) : t = Tail(stack)
  BY <1>3, Tails
<1>8. IsPlain(Me)
  BY <1>3 DEF IsPlain
\* The loop goes on.
<1>9. ASSUME NEW b \in BOOLEAN, NEW h \in BOOLEAN, i \in 1 .. Len(timers),
             stack' = <<Stop(e, b, i - 1, h)>> \o Tail(stack), b = g, ~g \/ h = had,
             \A x : Tokens(x, TRUE)' \subseteq Tokens(x, TRUE)
      PROVE  TurnInv'
  <2> DEFINE s == Stop(e, b, i - 1, h)
  <2>1. i - 1 \in Nat
    BY <1>4, <1>9
  <2>2. s \in Frame /\ s.k = "stop" /\ s.elem = e /\ s.gotoEnd = b /\ s.had = h
    BY <1>4, <1>9, <2>1, FrameMade DEF Stop
  <2>3. stack' = <<s>> \o t
    BY <1>7, <1>9
  <2> HIDE DEF s
  <2>4. Me' = s
    BY <1>7, <2>2, <2>3, FramePushed DEF Me
  <2>5. \A x : ~TakesOn(x)' /\ (StopsDelay(x)' => StopsDelay(x))
    BY <1>6, <1>9, <2>2, <2>4 DEF TakesOn, StopsDelay, Running, Me
  <2>6. ASSUME NEW x \in Element, Turned(x)
        PROVE  Turned(x)'
    <3>1. ~TakesOn(x)
      BY <1>6 DEF TakesOn
    <3>2. StopsDelay(x)' => \A d \in sleeping' : d.elem # x
      BY <1>4, <2>5, <2>6 DEF Turned, entryVars
    <3> QED
      BY <1>4, <1>9, <2>5, <2>6, <3>1, <3>2, TurnAside DEF entryVars
  <2> QED
    BY <1>4, <2>6, TurnsOf
<1>10. CASE /\ i = 0 /\ UNCHANGED <<timers, anim>>
            /\ stack' = (IF g /\ had THEN <<>> ELSE <<Dequeue(e)>>) \o Tail(stack)
  <2>1. CASE g /\ had
    <3>1. stack' = Tail(stack)
      BY <1>1, <1>3, <1>10, <2>1, Quit
    <3>2. ~Running("dequeue")' /\ ~Running("stop")'
      BY <1>3, <3>1, NotTop
    <3> QED
      BY <1>4, <1>5, <1>6, <2>1, <3>2, AsideAll DEF StopsDelay
  <2>2. CASE ~(g /\ had)
    <3>1. Dequeue(e) \in Frame /\ Dequeue(e).k = "dequeue" /\ Dequeue(e).elem = e
      BY <1>4, FrameMade DEF Dequeue
    <3>2. stack' = <<Dequeue(e)>> \o t
      BY <1>7, <1>10, <2>2
    <3>3. Me' = Dequeue(e)
      BY <1>7, <3>1, <3>2, FramePushed DEF Me
    <3>4. \A x : ~StopsDelay(x)' /\ (TakesOn(x)' => x = e)
      BY <3>1, <3>3 DEF TakesOn, StopsDelay, Running, Me
    <3>5. Tokens(e, TRUE)' = {}
      BY <1>2, <1>3, <1>4, <1>5, <1>10, <2>2, StopRests
    <3>6. ASSUME NEW x \in Element, Turned(x)
          PROVE  Turned(x)'
      <4>1. ~TakesOn(x)
        BY <1>6 DEF TakesOn
      <4>2. TakesOn(x)' => Tok(x)' = {}
        <5>1. x = e => \A d \in sleeping : d.elem # e
          BY <1>4, <1>6, <2>2, <3>6 DEF Turned
        <5> QED
          BY <1>4, <3>4, <3>5, <5>1 DEF Tok, entryVars
      <4>3. Tokens(x, TRUE)' \subseteq Tokens(x, TRUE)
        BY <1>5, <1>10
      <4> QED
        BY <1>4, <3>4, <3>6, <4>1, <4>2, <4>3, TurnAside DEF entryVars
    <3> QED
      BY <1>4, <3>6, TurnsOf
  <2> QED
    BY <2>1, <2>2
<1>11. CASE /\ i \in 1 .. Len(timers) /\ UNCHANGED <<timers, anim>>
            /\ stack' = <<Stop(e, g, i - 1, had)>> \o Tail(stack)
  <2>1. \A x : Tokens(x, TRUE)' \subseteq Tokens(x, TRUE)
    <3>1. i - 1 \in Nat
      BY <1>4, <1>11
    <3>2. Stop(e, g, i - 1, had) \in Frame /\ IsPlain(Stop(e, g, i - 1, had))
      BY <1>4, <3>1, FrameMade DEF Stop, IsPlain
    <3> QED
      BY <1>3, <1>4, <1>8, <1>11, <3>2, TokensGoOn, SameAnim
  <2> QED
    BY <1>4, <1>9, <1>11, <2>1
<1>12. CASE /\ i \in 1 .. Len(timers) /\ g /\ AnimEnds(a, p)
            /\ stack' = (CallFrames(a) \o <<Stopped(e, i)>>) \o Tail(stack)
  <2>1. a \in DOMAIN anim /\ a \in Nat
    BY <1>1, <1>2, <1>12 DEF Types, TimersOfAnims
  <2>2. Stopped(e, i) \in Frame /\ Stopped(e, i).k = "stopped" /\ Stopped(e, i).elem = e
    BY SMTT(30), <1>4, <1>12, FrameMade DEF Stopped
  <2>3. Me' = Complete(a) \/ Me' = Stopped(e, i)
    BY <1>2, <1>3, <1>12, <2>1, <2>2, CallsFrames
  <2>4. ~Running("dequeue")' /\ \A x : ~StopsDelay(x)'
    BY <2>2, <2>3 DEF StopsDelay, Running, Me, Complete
  <2> QED
    BY <1>4, <1>5, <1>6, <1>12, <2>4, AsideAll
<1>13. CASE /\ i \in 1 .. Len(timers) /\ ~g /\ timers' = RemoveAt(timers, i) /\ anim' = anim
            /\ stack' = <<Stop(e, FALSE, i - 1, TRUE)>> \o Tail(stack)
  <2> DEFINE s == Stop(e, FALSE, i - 1, TRUE)
  <2>1. i - 1 \in Nat
    BY <1>4, <1>13
  <2>2. s \in Frame /\ s.k = "stop" /\ IsPlain(s)
    BY <1>4, <2>1, FrameMade DEF Stop, IsPlain
  <2>3. stack' = <<s>> \o t
    BY <1>7, <1>13
  <2> HIDE DEF s
  <2>4. Me' = s /\ Among(stack') = {s} \cup Among(t)
    BY <1>7, <2>2, <2>3, FramePushed DEF Me
  <2>5. ~Running("begin")' /\ Among(t) \subseteq Among(stack)
    BY <1>3, <1>7, <2>2, <2>4, Tails DEF Running, Me
  <2>6. Among(timers') \subseteq Among(timers)
    BY <1>13, TimersLess
  <2>7. \A x : Tokens(x, TRUE)' \subseteq Tokens(x, TRUE)
    BY <1>4, <1>13, <2>2, <2>4, <2>5, <2>6, TokensFewer
  <2>8. g = FALSE
    BY <1>4, <1>13
  <2> QED
    BY <1>9, <1>13, <2>7, <2>8
<1> QED
  BY <1>4, <1>10, <1>11, <1>12, <1>13

LEMMA WakesTurns ==
  ASSUME StepInv, StepInv', TurnInv, NEW d \in sleeping, Wakes(d)
  PROVE  TurnInv'
<1>1. Types /\ d.elem \in Element
  BY DEF StepInv, Types
<1>2. /\ stack = <<>> /\ stack' = <<Dequeue(d.elem)>> /\ sleeping' = sleeping \ {d}
      /\ UNCHANGED <<world, queue, hooks, begun>>
  BY <1>1, WakesIs
<1>3. \A x : Tokens(x, TRUE)' = Tokens(x, TRUE)
  BY WakesTokens
<1>4. PICK e : e = d.elem
  OBVIOUS
<1>5. Me' = Dequeue(e) /\ \A x : ~TakesOn(x)
  BY <1>2, <1>4 DEF Me, TakesOn, Running
<1>6. \A x : ~StopsDelay(x)' /\ (TakesOn(x)' => x = e)
  BY <1>5 DEF StopsDelay, TakesOn, Running, Me, Dequeue
\* The delay was all that was under way.
<1>7. ASSUME Turned(e)
      PROVE  Tok(e)' = {}
  <2>1. \A s \in sleeping : s.elem = e => s = d
    <3>1. \A s \in sleeping : s = [id |-> s.id, elem |-> s.elem]
      BY SMTT(30), <1>1 DEF Types
    <3>2. \A s \in sleeping : s.elem = e => s.id = d.id
      BY <1>4, <1>7 DEF Turned
    <3> QED
      BY <1>4, <3>1, <3>2
  <2>2. Tokens(e, TRUE) = {}
    <3>1. \A a \in Tokens(e, TRUE) : a = d.id
      BY <1>4, <1>7 DEF Turned, Tok
    <3>2. d.id \notin DOMAIN anim
      BY DEF StepInv, EntryInv
    <3>3. \A a \in Tokens(e, TRUE) : a \in DOMAIN anim
      BY <1>2 DEF Tokens, IsToken, Begins, Running
    <3> QED
      BY <3>1, <3>2, <3>3
  <2> QED
    BY <1>2, <1>3, <2>1, <2>2 DEF Tok
<1>8. ASSUME NEW x \in Element, Turned(x)
      PROVE  Turned(x)'
  <2>1. TakesOn(x)' => Tok(x)' = {}
    BY <1>6, <1>7, <1>8
  <2> QED
    BY <1>2, <1>3, <1>5, <1>6, <1>8, <2>1, TurnAside
<1> QED
  BY <1>2, <1>8, TurnsOf

\* Where the page or a callback calls, nothing takes a queue on.
LEMMA NoTakers ==
  ASSUME stack # <<>> => Me.k = "user"
  PROVE  ~Running("dequeue") /\ \A x : ~TakesOn(x) /\ ~StopsDelay(x)
  BY DEF TakesOn, StopsDelay, Running, Me

LEMMA QueuedTurns ==
  ASSUME StepInv, StepInv', TurnInv, stack # <<>> => Me.k = "user", NEW e \in Element, NEW c,
         UNCHANGED <<world, hooks, begun, sleeping>>,
         queue' = [queue EXCEPT ![e] = Append(queue[e], c)],
         stack' = Starts(e) \o stack,
         \A x, q : Tokens(x, q)' = Tokens(x, q)
  PROVE  TurnInv'
<1>1. queue \in [Element -> Seq(Queueable \cup {Sentinel})] /\ stack \in Seq(Frame)
  BY DEF StepInv, Types
<1>2. \A x : ~TakesOn(x)
  BY NoTakers
<1>3. Dequeue(e) \in Frame /\ Dequeue(e).k = "dequeue" /\ Dequeue(e).elem = e
  BY FrameMade DEF Dequeue
<1>4. InProgress(queue[e]) => stack' = stack
  BY <1>1, StartsFrames
<1>5. ~InProgress(queue[e]) => stack' # <<>> /\ Me' = Dequeue(e)
  <2>1. ~InProgress(queue[e]) => stack' = <<Dequeue(e)>> \o stack
    BY StartsFrames
  <2> QED
    BY <1>1, <1>3, <2>1, FramePushed DEF Me
<1>6. /\ \A x : ~StopsDelay(x)' /\ (TakesOn(x)' => x = e)
      /\ TakesOn(e)' <=> ~InProgress(queue[e])
  <2>1. CASE InProgress(queue[e])
    <3>1. stack' # <<>> => Me'.k = "user"
      BY <1>4, <2>1 DEF Me
    <3> QED
      BY <2>1, <3>1 DEF TakesOn, StopsDelay, Running, Me
  <2>2. CASE ~InProgress(queue[e])
    BY <1>3, <1>5, <2>2 DEF TakesOn, StopsDelay, Running, Me
  <2> QED
    BY <2>1, <2>2
<1>7. ASSUME NEW x \in Element, x # e, Turned(x)
      PROVE  Turned(x)'
  <2>1. queue'[x] = queue[x]
    BY <1>1, <1>7
  <2>2. ~TakesOn(x)'
    BY <1>6, <1>7
  <2> QED
    BY <1>2, <1>6, <1>7, <2>1, <2>2, TurnAside
<1>8. ASSUME Turned(e)
      PROVE  Turned(e)'
  <2>1. Tok(e)' = Tok(e)
    BY TokSame
  <2>2. queue'[e] # <<>>
    BY <1>1
  <2>3. ~InProgress(queue[e]) => Tok(e) = {}
    BY <1>2, <1>8 DEF Turned
  <2>4. ~InProgress(queue'[e]) => ~InProgress(queue[e])
    <3>1. PICK s \in Seq(Queueable \cup {Sentinel}) : s = queue[e]
      BY <1>1
    <3>2. s # <<>> => Head(Append(s, c)) = Head(s) /\ Append(s, c) # <<>>
      OBVIOUS
    <3> QED
      BY <1>1, <3>1, <3>2 DEF InProgress
  <2> QED
    BY <1>6, <1>8, <2>1, <2>2, <2>3, <2>4 DEF Turned
<1> QED
  BY <1>7, <1>8, TurnsOf

LEMMA AnimateTurns ==
  ASSUME StepInv, StepInv', TurnInv, NEW e \in Element, NEW c \in Choice, Animate(e, c)
  PROVE  TurnInv'
<1>1. /\ stack # <<>> => Me.k = "user"
      /\ UNCHANGED <<world, hooks, begun, sleeping>>
  BY AnimateIs DEF StepInv
<1>2. CASE /\ stack' = Starts(e) \o stack
           /\ \E en \in Queueable : /\ queue' = [queue EXCEPT ![e] = Append(queue[e], en)]
                                    /\ asked' = [asked EXCEPT ![e] = Append(asked[e], en)]
           /\ \A x, q : Tokens(x, q)' = Tokens(x, q)
  BY <1>1, <1>2, QueuedTurns
<1>3. CASE /\ UNCHANGED <<queue, asked>> /\ Running("begin")'
           /\ \A x, q : x # e \/ q # FALSE => Tokens(x, q)' = Tokens(x, q)
  <2>1. ~Running("dequeue") /\ ~Running("dequeue")' /\ \A x : ~StopsDelay(x)'
    BY <1>1, <1>3, NoTakers DEF Running, StopsDelay
  <2>2. \A x : Tokens(x, TRUE)' \subseteq Tokens(x, TRUE)
    BY <1>3
  <2> QED
    BY <1>1, <1>3, <2>1, <2>2, AsideAll DEF entryVars
<1> QED
  BY <1>2, <1>3, AnimateTokens

LEMMA DelayTurns ==
  ASSUME StepInv, StepInv', TurnInv, NEW e \in Element, Delay(e)
  PROVE  TurnInv'
<1>1. PICK c : c = [k |-> "delay", id |-> count + 1]
  OBVIOUS
<1>2. /\ stack # <<>> => Me.k = "user"
      /\ UNCHANGED <<world, hooks, begun, sleeping>>
      /\ queue' = [queue EXCEPT ![e] = Append(queue[e], c)] /\ stack' = Starts(e) \o stack
  BY <1>1, DelayIs DEF StepInv
<1> QED
  BY <1>2, DelayTokens, QueuedTurns

LEMMA StopNowTurns ==
  ASSUME StepInv, StepInv', TurnInv, NEW e \in Element, NEW clear \in BOOLEAN,
         NEW gotoEnd \in BOOLEAN, StopFree(e, clear, gotoEnd)
  PROVE  TurnInv'
<1>1. /\ stack # <<>> => Me.k = "user" /\ world' = world
      /\ stack' = <<Stop(e, gotoEnd, Len(timers), FALSE)>> \o stack
  BY StopNowIs DEF StepInv, Becomes
<1>2. CASE Clears
  <2>1. world' = world
    BY StopNowIs DEF StepInv, Becomes
  <2> QED
    BY <1>2, <2>1, ClearsOn DEF TurnInv
<1>3. CASE ~Clears
  <2>1. /\ UNCHANGED <<world, queue, begun>>
        /\ sleeping' = IF hooks[e] = 0 THEN sleeping ELSE {s \in sleeping : s.id # hooks[e]}
        /\ \A x \in Element : x # e => hooks'[x] = hooks[x]
    BY <1>3, StopNowKeeps
  <2>2. \A x, q : Tokens(x, q)' = Tokens(x, q)
    BY StopNowTokens
  <2> DEFINE s == Stop(e, gotoEnd, Len(timers), FALSE)
  <2>3. Len(timers) \in Nat /\ stack \in Seq(Frame)
    BY DEF StepInv, Types
  <2>4. s \in Frame /\ s.k = "stop" /\ s.elem = e /\ stack' = <<s>> \o stack
    BY <1>1, <2>3, FrameMade DEF Stop
  <2> HIDE DEF s
  <2>5. Me' = s
    BY <2>3, <2>4, FramePushed DEF Me
  <2>6. \A x : ~TakesOn(x)' /\ (StopsDelay(x)' => x = e)
    BY <2>4, <2>5 DEF TakesOn, StopsDelay, Running, Me
  \* The hook of the delay is called.
  <2>7. ASSUME Turned(e)
        PROVE  \A d \in sleeping' : d.elem # e
    <3>1. \A d \in sleeping : d.elem = e => d.id # 0
      BY DEF StepInv, EntryInv
    <3>2. \A d \in sleeping : d.elem = e => d.id = hooks[e]
      BY <2>7 DEF Turned
    <3> QED
      BY <2>1, <3>1, <3>2
  <2>8. ASSUME NEW x \in Element, Turned(x)
        PROVE  Turned(x)'
    <3>1. ~TakesOn(x)
      BY <1>1, NoTakers
    <3>2. \A d \in sleeping' : d.elem = x => d \in sleeping /\ hooks'[x] = hooks[x]
      BY <2>1, <2>7, <2>8
    <3>3. StopsDelay(x)' => \A d \in sleeping' : d.elem # x
      BY <2>6, <2>7, <2>8
    <3> QED
      BY <2>1, <2>2, <2>6, <2>8, <3>1, <3>2, <3>3, TurnAside
  <2> QED
    BY <2>1, <2>8, TurnsOf
<1> QED
  BY <1>2, <1>3

LEMMA StillTurns ==
  ASSUME TurnInv, UNCHANGED vars
  PROVE  TurnInv'
<1>1. /\ world' = world /\ queue' = queue /\ begun' = begun /\ hooks' = hooks
      /\ sleeping' = sleeping /\ stack' = stack
  BY DEF vars
<1>2. \A x, q : Tokens(x, q)' = Tokens(x, q)
  BY StillTokens
<1>3. \A x : Tok(x)' = Tok(x)
  BY <1>1, <1>2, TokSame
<1>4. \A x : (TakesOn(x)' <=> TakesOn(x)) /\ (StopsDelay(x)' <=> StopsDelay(x))
  BY <1>1 DEF TakesOn, StopsDelay, Running, Me
<1>5. \A x : Turned(x) => Turned(x)'
  BY <1>1, <1>3, <1>4 DEF Turned
<1> QED
  BY <1>1, <1>5, TurnsOf

LEMMA TurnInvKept ==
  ASSUME StepInv, StepInv', TurnInv, [PlainNext]_vars
  PROVE  TurnInv'
<1>1. ASSUME NEW e \in Element, NEW c \in world.choices, Animate(e, c)
      PROVE  TurnInv'
  <2>1. c \in Choice
    BY <1>1, EffectsAssumption DEF StepInv, Types
  <2> QED
    BY <1>1, <2>1, AnimateTurns
<1>2. ASSUME NEW e \in Element, ClearQueue(e)
      PROVE  TurnInv'
  <2>1. Clears /\ world' = world
    BY <1>2, ClearQueueIs DEF StepInv
  <2> QED
    BY <2>1, ClearsOn DEF TurnInv
<1>3. ASSUME NEW e \in Element, NEW clear \in BOOLEAN, NEW gotoEnd \in BOOLEAN,
             Delay(e) \/ StopFree(e, clear, gotoEnd)
      PROVE  TurnInv'
  BY <1>3, DelayTurns, StopNowTurns
<1>4. ASSUME NEW d \in sleeping, Wakes(d)
      PROVE  TurnInv'
  BY <1>4, WakesTurns
<1>5. CASE QuietStep
  BY <1>5, QuietSteps, QuietTurns
<1>6. CASE \/ DequeueStep \/ CompleteEnds \/ StopStep \/ StopGoesOn \/ Throws \/ UNCHANGED vars
  BY <1>6, DequeueTurns, CompleteEndsTurns, StopTurns, StopGoesOnTurns, ThrowsTurns, StillTurns
<1> QED
  BY <1>1, <1>2, <1>3, <1>4, <1>5, <1>6 DEF PlainNext, NoStop, Call, JQuery, QuietStep

-----------------------------------------------------------------------------
(***************************************************************************)
(* The interval is set as long as there are timers.                        *)
(***************************************************************************)
LEMMA TimersOn ==
  ASSUME TickingInv, ticking' = ticking, timers' = timers \/ timers # <<>>
  PROVE  TickingInv'
  BY DEF TickingInv

LEMMA TickingInvKept ==
  ASSUME StepInv, TickingInv, [PlainNext]_vars
  PROVE  TickingInv'
<1>1. /\ Types /\ TimersOfAnims
      /\ \A i \in 1 .. Len(timers) : timers # <<>>
  <2>1. Len(<<>>) = 0
    OBVIOUS
  <2>2. timers = <<>> => 1 .. Len(timers) = {}
    BY <2>1
  <2> QED
    BY <2>2, Frames DEF StepInv
<1>2. ASSUME NEW e \in Element, NEW c \in world.choices, Animate(e, c)
      PROVE  UNCHANGED <<timers, ticking>>
  <2>1. c \in Choice
    BY <1>2, EffectsAssumption DEF StepInv, Types
  <2> QED
    BY <1>1, <1>2, <2>1, AnimateIs
<1>3. ASSUME NEW e \in Element, Delay(e) \/ ClearQueue(e)
      PROVE  UNCHANGED <<timers, ticking>>
  BY <1>1, <1>3, DelayIs, ClearQueueIs
<1>4. ASSUME NEW e \in Element, NEW clear \in BOOLEAN, NEW gotoEnd \in BOOLEAN,
             StopFree(e, clear, gotoEnd)
      PROVE  UNCHANGED <<timers, ticking>>
  BY <1>1, <1>4, StopNowIs, StopBeginsIs
<1>5. ASSUME NEW e \in Element, NEW shown, ShowOrHideNow(e, shown)
      PROVE  UNCHANGED <<timers, ticking>>
  BY <1>1, <1>5, NowIs
<1>6. ASSUME NEW s \in SUBSET Element, Promise(s)
      PROVE  UNCHANGED <<timers, ticking>>
  BY <1>1, <1>6, PromiseIs
<1>7. ASSUME NEW due, Interval(due)
      PROVE  UNCHANGED <<timers, ticking>>
  BY <1>1, <1>7, IntervalIs
<1>8. ASSUME NEW d \in sleeping, Wakes(d)
      PROVE  UNCHANGED <<timers, ticking>>
  BY <1>1, <1>8, WakesIs
<1>9. CASE \/ DequeueStep \/ DequeueEnds \/ BeginStep \/ ShowStep \/ CompleteStep
  BY <1>1, <1>9, DequeueIs, DequeueEndsIs, BeginIs, ShowIs, CompleteIs, TimersOn
<1>10. CASE Throws \/ Check \/ Returns \/ UNCHANGED vars
  BY <1>1, <1>10, ThrowsIs, CheckIs, ReturnsIs, TimersOn DEF vars
<1>11. CASE CompleteEnds
  BY <1>1, <1>11, Frames, CompleteEndsIs, TimersOn DEF CompleteEnds, Running, Me
<1>12. CASE CustomStep
  <2>1. UNCHANGED <<timers, ticking>> \/ ticking' = TRUE
    BY <1>1, <1>12, Frames, CustomIs DEF CustomStep, Running, Me
  <2> QED
    BY <2>1, TimersOn DEF TickingInv
<1>13. CASE TickStep
  <2>1. timers' = timers /\ (ticking' = ticking \/ ticking' = (timers # <<>>))
    BY <1>1, <1>13, TickIs
  <2> QED
    BY <2>1, TimersOn DEF TickingInv
<1>14. CASE TickGoesOn
  <2>1. ticking' = ticking /\ (timers' = timers \/ Me.i \in 1 .. Len(timers))
    BY Zenon, <1>1, <1>14, TickGoesOnIs
  <2> QED
    BY <1>1, <2>1, TimersOn
<1>15. CASE StopStep
  <2>1. ticking' = ticking /\ (timers' = timers \/ Me.i \in 1 .. Len(timers))
    BY <1>1, <1>15, Frames, StopIs DEF StopStep, Running, Me
  <2> QED
    BY <1>1, <2>1, TimersOn
<1>16. CASE StopGoesOn
  <2>1. ticking' = ticking /\ Me.i \in Nat \ {0} /\ Me.i <= Len(timers)
    BY <1>1, <1>16, Frames, StopGoesOnIs DEF StepInv, StopGoesOn, Running, Me
  <2>2. Me.i \in 1 .. Len(timers)
    BY <1>1, <2>1 DEF Types
  <2> QED
    BY Zenon, <1>1, <2>1, <2>2, TimersOn
<1> QED
  BY <1>2, <1>3, <1>4, <1>5, <1>6, <1>7, <1>8, <1>9, <1>10, <1>11, <1>12, <1>13, <1>14, <1>15,
     <1>16, TimersOn DEF PlainNext, NoStop, Call, JQuery, ToggleNow

-----------------------------------------------------------------------------
(***************************************************************************)
(* What follows when the thread is idle.                                   *)
(***************************************************************************)
\* What is under way are then the animations with timers.
LEMMA IdleTokens ==
  ASSUME StepInv, Idle
  PROVE  \A a, e, q : a \in Tokens(e, q) <=>
           /\ a \in DOMAIN anim /\ anim[a].elem = e /\ anim[a].queued = q /\ ~Finished(anim[a])
           /\ \E i \in 1 .. Len(timers) : timers[i].anim = a
<1>1. /\ Among(stack) = {} /\ \A k : ~Running(k)
  BY NoneAmong DEF Idle, Running
<1>2. timers \in Seq(Timer) /\ \A i \in 1 .. Len(timers) : timers[i] \in Timer
  BY DEF StepInv, Types
<1>3. ASSUME NEW a, NEW e, NEW q, a \in Tokens(e, q)
      PROVE  /\ a \in DOMAIN anim /\ anim[a].elem = e /\ anim[a].queued = q /\ ~Finished(anim[a])
             /\ \E i \in 1 .. Len(timers) : timers[i].anim = a
  <2>1. a \in DOMAIN anim /\ anim[a].elem = e /\ anim[a].queued = q /\ Live(a)
    BY Zenon, <1>1, <1>3 DEF Tokens, IsToken, Begins, UnderWay
  <2>2. ~Finished(anim[a])
    BY <2>1 DEF StepInv, AnimInv, Live
  <2>3. PICK p : TimerOf(a, p) \in Among(timers)
    BY <1>1, <2>1 DEF Live, Held
  <2> QED
    BY <2>1, <2>2, <2>3 DEF Among, TimerOf
<1>4. ASSUME NEW i \in 1 .. Len(timers), NEW a, a = timers[i].anim, ~Finished(anim[a])
      PROVE  \A e, q : anim[a].elem = e /\ anim[a].queued = q => a \in Tokens(e, q)
  <2>1. PICK p : p = timers[i].prop
    OBVIOUS
  <2>2. ~AtEnd(i)
    BY <1>1 DEF AtEnd
  <2>3. a \in DOMAIN anim /\ p \in anim[a].props /\ anim[a].complete /\ p \notin anim[a].done
    BY <1>4, <2>1, <2>2 DEF StepInv, TimerInv
  <2>4. TimerOf(a, p) = timers[i]
    BY <1>2, <1>4, <2>1 DEF Timer, TimerOf
  <2>5. Live(a)
    BY <2>3, <2>4 DEF Live, Held, Rest, Among
  <2>6. a \in 1 .. count
    BY <2>3 DEF StepInv, AnimInv
  <2> QED
    BY <2>3, <2>5, <2>6 DEF Tokens, IsToken, UnderWay
<1> QED
  BY <1>3, <1>4

LEMMA RunsAre ==
  ASSUME StepInv, Idle, NEW e \in Element
  PROVE  Runs(e) = Tok(e)
<1>1. \A i \in 1 .. Len(timers) : timers[i].anim \in DOMAIN anim
  BY Frames DEF TimersOfAnims
<1>2. \A a \in DOMAIN anim : anim[a].queued \in BOOLEAN
  BY DEF StepInv, Types, IsAnim
<1>3. Tokens(e, TRUE) =
        {timers[i].anim : i \in {j \in 1 .. Len(timers) :
           anim[timers[j].anim].elem = e /\ anim[timers[j].anim].queued
           /\ ~Finished(anim[timers[j].anim])}}
  <2>1. ASSUME NEW a \in Tokens(e, TRUE)
        PROVE  \E i \in 1 .. Len(timers) :
                 /\ timers[i].anim = a /\ anim[a].elem = e /\ anim[a].queued
                 /\ ~Finished(anim[a])
    BY <2>1, IdleTokens
  <2>2. ASSUME NEW i \in 1 .. Len(timers), NEW a, a = timers[i].anim,
               anim[a].elem = e, anim[a].queued, ~Finished(anim[a])
        PROVE  a \in Tokens(e, TRUE)
    <3>1. a \in DOMAIN anim /\ anim[a].queued = TRUE
      BY <1>1, <1>2, <2>2
    <3>2. \E j \in 1 .. Len(timers) : timers[j].anim = a
      BY <2>2
    <3>3. a \in Tokens(e, TRUE) <=>
            /\ a \in DOMAIN anim /\ anim[a].elem = e /\ anim[a].queued = TRUE /\ ~Finished(anim[a])
            /\ \E j \in 1 .. Len(timers) : timers[j].anim = a
      BY IdleTokens
    <3> QED
      BY <2>2, <3>1, <3>2, <3>3
  <2> DEFINE R == {timers[i].anim : i \in {j \in 1 .. Len(timers) :
                     anim[timers[j].anim].elem = e /\ anim[timers[j].anim].queued
                     /\ ~Finished(anim[timers[j].anim])}}
  <2>3. Tokens(e, TRUE) \subseteq R
    BY <2>1, ZenonT(40)
  <2>4. R \subseteq Tokens(e, TRUE)
    BY <2>2
  <2> QED
    BY <2>3, <2>4
<1> QED
  BY <1>3 DEF Runs, Tok

LEMMA MarksAre ==
  ASSUME StepInv, MarkInv
  PROVE  MarksBut({})
<1> SUFFICES ASSUME Idle, ~threw, NEW e \in Element
             PROVE  mark[e] = Cardinality({a \in DOMAIN anim :
                      /\ anim[a].elem = e /\ ~anim[a].queued /\ ~Finished(anim[a])
                      /\ \E i \in 1 .. Len(timers) : timers[i].anim = a})
  BY DEF MarksBut
<1>1. \A a \in DOMAIN anim : anim[a].queued \in BOOLEAN
  BY DEF StepInv, Types, IsAnim
<1>2. Tokens(e, FALSE) = {a \in DOMAIN anim :
        /\ anim[a].elem = e /\ ~anim[a].queued /\ ~Finished(anim[a])
        /\ \E i \in 1 .. Len(timers) : timers[i].anim = a}
  BY <1>1, IdleTokens, ZenonT(40)
<1>3. ~Stopping(e)
  BY DEF Idle, Stopping, Running
<1>4. mark[e] = Cardinality(Tokens(e, FALSE))
  BY <1>3 DEF MarkInv, Marked
<1> QED
  BY <1>2, <1>4

LEMMA TurnsHold ==
  ASSUME StepInv, AliveInv, QueueInv, TurnInv, TickingInv
  PROVE  TurnsBut(stuck, {})
<1> SUFFICES ASSUME ~Clears
             PROVE  /\ \A e \in Element :
                         /\ begun[e] = [i \in 1 .. Len(begun[e]) |-> asked[e][i].id]
                         /\ Idle /\ ~threw /\ e \notin stuck =>
                              /\ queue[e] # <<>> => Runs(e) # {}
                              /\ Runs(e) = IF queue[e] = <<>> THEN {} ELSE {begun[e][Len(begun[e])]}
                    /\ timers # <<>> => ticking
  BY DEF TurnsBut
<1>1. ASSUME NEW e \in Element
      PROVE  begun[e] = [i \in 1 .. Len(begun[e]) |-> asked[e][i].id]
  <2>1. PICK b \in Seq(Nat) : b = begun[e]
    BY DEF StepInv, Types
  <2>2. \A i \in 1 .. Len(b) : b[i] = asked[e][i].id
    BY <2>1 DEF QueueInv, InOrder, Follows
  <2>3. b = [i \in 1 .. Len(b) |-> b[i]]
    OBVIOUS
  <2> QED
    BY <2>1, <2>2, <2>3
<1>2. ASSUME NEW e \in Element, Idle, ~threw, e \notin stuck
      PROVE  /\ queue[e] # <<>> => Runs(e) # {}
             /\ Runs(e) = IF queue[e] = <<>> THEN {} ELSE {begun[e][Len(begun[e])]}
  <2>1. Runs(e) = Tok(e) /\ Turned(e) /\ Alive(e)
    BY <1>2, RunsAre DEF TurnInv, AliveInv
  <2>2. ~Stepper(e)
    BY <1>2 DEF Idle, Stepper, Running
  <2>3. queue[e] = <<>> \/ Tok(e) # {}
    BY <1>2, <2>1, <2>2 DEF Alive
  <2>4. \A a \in Tok(e) : a = begun[e][Len(begun[e])]
    BY <2>1 DEF Turned
  <2>5. queue[e] = <<>> => Tok(e) = {}
    BY <2>1 DEF Turned
  <2> QED
    BY <2>1, <2>3, <2>4, <2>5
<1> QED
  BY <1>1, <1>2 DEF TickingInv

-----------------------------------------------------------------------------
LEMMA InitTurns ==
  ASSUME Init
  PROVE  QueueInv /\ TurnInv /\ TickingInv
<1>1. \A e \in Element : queue[e] = <<>> /\ asked[e] = <<>> /\ begun[e] = <<>>
  BY DEF Init
<1>2. sleeping = {} /\ timers = <<>> /\ stack = <<>>
  BY DEF Init
<1>3. Len(<<>>) = 0 /\ 1 .. 0 = {}
  OBVIOUS
<1>4. \A e \in Element : After(e) = <<>>
  BY <1>1 DEF After, InProgress
<1>5. \A e \in Element : InOrder(e)
  BY <1>1, <1>3, <1>4 DEF InOrder, Follows
<1>6. \A e : Tok(e) = {}
  BY <1>2, RestTokens DEF Tok
<1>7. \A e : ~TakesOn(e) /\ ~StopsDelay(e)
  BY <1>2 DEF TakesOn, StopsDelay, Running
<1>8. \A e \in Element : Turned(e)
  BY <1>1, <1>2, <1>6, <1>7 DEF Turned
<1> QED
  BY <1>2, <1>5, <1>8 DEF QueueInv, TurnInv, TickingInv

\* As long as no callback has stopped its own element and no stop was made within
\* a stop to the end: the entries of a queue begin in the order in which they were
\* asked and one after the other; when the thread is idle, a queue that does not stand
\* still since a stop has the entry that began last under way, and no other. The
\* callback of an animation is called at most once, and the marks of an element count
\* its animations beside the queue.
THEOREM QueuesRun ==
  Spec => [](Plain => QueueRuns /\ TurnsBut(stuck, {}) /\ MarksBut({}))
<1>1. Init => (Plain => RowInv)
  BY InitStepInv, InitCareInv, InitTurns DEF RowInv
<1>2. (Plain => RowInv) /\ [Next]_vars => (Plain => RowInv)'
  BY PlainStep, StepInvKept, CareInvKept, QueueInvKept, TurnInvKept, TickingInvKept DEF RowInv
<1>3. (Plain => RowInv) => (Plain => QueueRuns /\ TurnsBut(stuck, {}) /\ MarksBut({}))
  <2> SUFFICES ASSUME RowInv
               PROVE  QueueRuns /\ TurnsBut(stuck, {}) /\ MarksBut({})
    OBVIOUS
  <2>1. CompleteOnce
    BY DEF RowInv, StepInv, CalledInv, CompleteOnce
  <2>2. TurnsBut(stuck, {}) /\ MarksBut({})
    BY MarksAre, TurnsHold DEF RowInv, CareInv
  <2>3. InTurn
    BY <2>2, Zenon DEF TurnsBut, InTurn
  <2>4. MarksMatch
    BY <2>2, Zenon DEF MarksBut, MarksMatch
  <2> QED
    BY <2>1, <2>2, <2>3, <2>4 DEF QueueRuns
<1> QED
  BY <1>1, <1>2, <1>3, PTL DEF Spec
=============================================================================
